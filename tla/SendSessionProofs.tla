--------------------------- MODULE SendSessionProofs ---------------------------
(***************************************************************************)
(* Proofs about sending sessions, for any DBCs, rules and numbers of       *)
(* events.                                                                 *)
(*                                                                         *)
(* No evaluator outlives its row: between a new DBC and its rows there are *)
(* no evaluators at all, and the rows made then are new ones (RowsInv).    *)
(* And the user cannot have the cache rebuilt under a running loop: a loop *)
(* belongs to a session, and a session cannot start in another (LoopInv).  *)
(*                                                                         *)
(* The cache is of the DBC and the selection, except between a new DBC and *)
(* its rebuild, when nothing is selected (CacheInv).  A verdict is that of *)
(* the rules that fired: the handler agrees with them from stage to stage  *)
(* (FrameInv).  Recursive functions are taken as a predicate of the result *)
(* (Among, InjectSteps) that a least counterexample would have to violate. *)
(***************************************************************************)
EXTENDS SendSession, SequenceTheorems, FiniteSetTheorems, WellFoundedInduction, TLAPS

RowsInv ==
    /\ generation \in Nat
    /\ \A r \in rows : r.generation \in Nat /\ r.generation <= generation
    /\ ui = "populate" => DOMAIN evaluators = {}
    /\ LiveEvaluators

LoopInv ==
    /\ DOMAIN job = Actors
    /\ running \in BOOLEAN
    /\ job["repeated"].pc # "idle" => running

-----------------------------------------------------------------------------
\* A step that leaves rows and evaluators alone.
LEMMA SameRows ==
  ASSUME RowsInv, UNCHANGED <<rows, doomed, generation, evaluators>>, ui' = "populate" => ui = "populate"
  PROVE  RowsInv'
BY DEF RowsInv, LiveEvaluators

LEMMA NoEvaluators == DOMAIN <<>> = {}
OBVIOUS

LEMMA UpdateKeepsRows ==
  ASSUME RowsInv, NEW d, UpdateDbcConfig(d)
  PROVE  RowsInv'
<1>1. evaluators' = <<>> /\ UNCHANGED <<rows, doomed, generation>>
  BY DEF UpdateDbcConfig, rowVars
<1>2. DOMAIN evaluators' = {}
  BY <1>1, NoEvaluators
<1>3. QED
  BY <1>1, <1>2 DEF RowsInv, LiveEvaluators

LEMMA PopulateKeepsRows ==
  ASSUME RowsInv, PopulateFromModel
  PROVE  RowsInv'
<1> DEFINE g == generation + 1
           keys == KeysOf(dbc)
<1>1. /\ ui = "populate" /\ ui' = "cache"
      /\ generation' = g /\ rows' = rows \cup Rows(g, dbc) /\ doomed' = rows
      /\ evaluators' = [k \in keys \cup DOMAIN evaluators |->
                           IF k \in keys THEN [generation |-> g, key |-> k] ELSE evaluators[k]]
  BY DEF PopulateFromModel
<1>2. g \in Nat /\ \A r \in rows : r.generation \in Nat /\ r.generation < g
  BY DEF RowsInv
<1>3. \A r \in Rows(g, dbc) : r.generation = g
  BY DEF Rows
<1>4. DOMAIN evaluators' = keys /\ \A k \in keys : evaluators'[k] = [generation |-> g, key |-> k]
  BY <1>1 DEF RowsInv
<1>5. \A k \in keys : [generation |-> g, key |-> k] \in Rows(g, dbc)
  BY DEF Rows
<1>6. \A r \in Rows(g, dbc) : r \notin rows
  BY <1>2, <1>3
<1> HIDE DEF g, keys
<1>7. LiveEvaluators'
  BY <1>1, <1>4, <1>5, <1>6 DEF LiveEvaluators
<1>8. \A r \in rows' : r.generation \in Nat /\ r.generation <= generation'
  BY <1>1, <1>2, <1>3
<1>9. QED
  BY <1>1, <1>2, <1>7, <1>8 DEF RowsInv

LEMMA ErrorKeepsRows ==
  ASSUME RowsInv, OnDbcParseError
  PROVE  RowsInv'
<1>1. evaluators' = <<>> /\ UNCHANGED <<rows, generation, ui>>
  BY DEF OnDbcParseError
<1>2. DOMAIN evaluators' = {}
  BY <1>1, NoEvaluators
<1>3. QED
  BY <1>1, <1>2 DEF RowsInv, LiveEvaluators

LEMMA DeleteKeepsRows ==
  ASSUME RowsInv, DeleteRows
  PROVE  RowsInv'
BY DEF RowsInv, LiveEvaluators, DeleteRows, modelVars

LEMMA RowsStep == RowsInv /\ [Next]_vars => RowsInv'
<1> SUFFICES ASSUME RowsInv, [Next]_vars PROVE RowsInv'
  OBVIOUS
<1>1. CASE UserStep
  <2>1. UNCHANGED <<rows, doomed, generation, evaluators>> /\ (ui' = ui \/ ui' = "stopping")
    BY <1>1 DEF UserStep, SetMode, SetRaw, Select, SendOnce, StartRepeated, StopRepeated, rowVars,
                modelVars
  <2>2. QED
    BY <2>1, SameRows
<1>2. CASE Stopped
  BY <1>2, SameRows DEF Stopped, rowVars, modelVars
<1>3. CASE ThreadStep
  <2>1. UNCHANGED <<rows, doomed, generation, evaluators, ui>>
    BY <1>3 DEF ThreadStep, BeginCycle, ReadTornCache, EndOfLoop, NextMessage, InjectDbc,
                InjectRaw, Evaluate, rowVars, modelVars
  <2>2. QED
    BY <2>1, SameRows
<1>4. ASSUME NEW e, PostEvent(e)
      PROVE  RowsInv'
  BY <1>4, SameRows DEF PostEvent, rowVars, modelVars
<1>5. CASE RebuildCache
  BY <1>5, SameRows DEF RebuildCache, rowVars
<1>6. CASE UNCHANGED vars
  BY <1>6, SameRows DEF vars
<1>7. QED
  BY <1>1, <1>2, <1>3, <1>4, <1>5, <1>6, UpdateKeepsRows, PopulateKeepsRows, ErrorKeepsRows,
     DeleteKeepsRows DEF Next, DbcStep

\* Whatever DBCs arrive and whatever fails to parse, no evaluator leads to a row that is
\* deleted or about to be.
THEOREM EvaluatorsLive == Spec => []LiveEvaluators
<1>1. Init => RowsInv
  BY NoEvaluators DEF Init, RowsInv, LiveEvaluators
<1>2. RowsInv => LiveEvaluators
  BY DEF RowsInv
<1>3. QED
  BY RowsStep, <1>1, <1>2, PTL DEF Spec

-----------------------------------------------------------------------------
LEMMA LoopStep == LoopInv /\ [Next]_vars => LoopInv'
<1> SUFFICES ASSUME LoopInv, [Next]_vars PROVE LoopInv'
  OBVIOUS
<1>1. CASE UNCHANGED <<job, running>>
  BY <1>1 DEF LoopInv
<1>2. ASSUME NEW rules, SendOnce(rules)
      PROVE  LoopInv'
  <2>1. running' = running /\ DOMAIN job' = DOMAIN job /\ job'["repeated"] = job["repeated"]
    BY <1>2 DEF SendOnce, workerVars, LoopInv, Actors
  <2>2. QED
    BY <2>1 DEF LoopInv
<1>3. ASSUME NEW rules, StartRepeated(rules)
      PROVE  LoopInv'
  BY <1>3 DEF StartRepeated, LoopInv
<1>4. CASE Stopped
  BY <1>4 DEF Stopped, LoopInv
<1>5. CASE BeginCycle
  BY <1>5 DEF BeginCycle, LoopInv, workerVars
<1>6. ASSUME NEW a \in Actors, EndOfLoop(a) \/ NextMessage(a) \/ InjectDbc(a) \/ InjectRaw(a) \/ Evaluate(a)
      PROVE  LoopInv'
  <2>1. running' = running /\ DOMAIN job' = DOMAIN job /\ job[a].pc # "idle"
    BY <1>6 DEF EndOfLoop, NextMessage, Starts, InjectDbc, InjectRaw, Evaluate, workerVars
  <2>2. a # "repeated" => job'["repeated"] = job["repeated"]
    BY <1>6 DEF EndOfLoop, NextMessage, Starts, InjectDbc, InjectRaw, Evaluate, LoopInv, Actors
  <2>3. QED
    BY <2>1, <2>2 DEF LoopInv
<1>7. ASSUME NEW e, PostEvent(e) \/ UpdateDbcConfig(e)
      PROVE  UNCHANGED <<job, running>>
  BY <1>7 DEF PostEvent, UpdateDbcConfig, workerVars
<1>8. CASE PopulateFromModel \/ RebuildCache \/ OnDbcParseError \/ DeleteRows \/ ReadTornCache
           \/ StopRepeated \/ UNCHANGED vars
  <2>1. UNCHANGED <<job, running>>
    BY <1>8 DEF PopulateFromModel, RebuildCache, OnDbcParseError, DeleteRows, ReadTornCache,
                StopRepeated, workerVars, vars
  <2>2. QED
    BY <1>1, <2>1
<1>9. ASSUME NEW m, NEW frame, NEW keys, NEW on,
             SetMode(m) \/ SetRaw(frame) \/ Select(keys, on)
      PROVE  UNCHANGED <<job, running>>
  BY <1>9 DEF SetMode, SetRaw, Select, workerVars
<1>10. CASE UserStep
  BY <1>1, <1>2, <1>3, <1>8, <1>9, <1>10 DEF UserStep
<1>11. CASE ThreadStep
  BY <1>5, <1>6, <1>8, <1>11 DEF ThreadStep
<1>12. CASE DbcStep
  BY <1>1, <1>7, <1>8, <1>12 DEF DbcStep
<1>13. QED
  BY <1>4, <1>8, <1>10, <1>11, <1>12 DEF Next

\* The cache is rebuilt only by a start, which needs that no session runs, and by a DBC.
LEMMA RebuildStep ==
  ASSUME LoopInv, [Next]_vars, version' # version
  PROVE  job["repeated"].pc # "idle" => ui = "cache"
<1>1. ASSUME NEW rules, StartRepeated(rules)
      PROVE  job["repeated"].pc = "idle"
  BY <1>1 DEF StartRepeated, LoopInv
<1>2. CASE RebuildCache
  BY <1>2 DEF RebuildCache
<1>3. ASSUME NEW a, NEW e, NEW rules, NEW m, NEW frame, NEW keys, NEW on,
             \/ EndOfLoop(a) \/ NextMessage(a) \/ InjectDbc(a) \/ InjectRaw(a) \/ Evaluate(a)
             \/ PostEvent(e) \/ UpdateDbcConfig(e) \/ SendOnce(rules) \/ SetMode(m)
             \/ SetRaw(frame) \/ Select(keys, on)
      PROVE  FALSE
  BY <1>3 DEF EndOfLoop, NextMessage, InjectDbc, InjectRaw, Evaluate, PostEvent, UpdateDbcConfig,
              SendOnce, SetMode, SetRaw, Select, modelVars
<1>4. CASE PopulateFromModel \/ OnDbcParseError \/ DeleteRows \/ ReadTornCache \/ StopRepeated
           \/ Stopped \/ BeginCycle \/ UNCHANGED vars
  BY <1>4 DEF PopulateFromModel, OnDbcParseError, DeleteRows, ReadTornCache, StopRepeated, Stopped,
              BeginCycle, vars, modelVars
<1>5. QED
  BY <1>1, <1>2, <1>3, <1>4 DEF Next, UserStep, ThreadStep, DbcStep

\* The user cannot change the cache under the loop that reads it.
THEOREM UserNeverTears == Spec => OnlyDbcTears
<1>1. Init => LoopInv
  <2>1. Idle.pc = "idle"
    BY DEF Idle
  <2>2. Init => running = FALSE /\ job = [a \in Actors |-> Idle]
    BY DEF Init
  <2>3. QED
    BY <2>1, <2>2 DEF LoopInv, Actors
<1>2. LoopInv /\ [Next]_vars =>
          (version' # version /\ job["repeated"].pc # "idle" => ui = "cache")
  BY RebuildStep
<1>3. QED
  BY LoopStep, <1>1, <1>2, PTL DEF Spec, OnlyDbcTears

-----------------------------------------------------------------------------
(***************************************************************************)
(* The messages of the selection.                                          *)
(***************************************************************************)

\* A set of numbers has a least one.
LEMMA Least ==
  ASSUME NEW T \in SUBSET Nat, T # {}
  PROVE  \E m \in T : \A k \in T : m <= k
<1>1. PICK R : /\ IsWellFoundedOn(R, Nat)
               /\ \A a, b \in Nat : a < b => <<a, b>> \in R
  <2>1. IsWellFoundedOn(OpToRel(<, Nat), Nat)
    BY NatLessThanWellFounded
  <2>2. \A a, b \in Nat : a < b => <<a, b>> \in OpToRel(<, Nat)
    BY DEF OpToRel
  <2>3. QED
    BY <2>1, <2>2, Zenon
<1>2. PICK m \in T : \A k \in T : ~ (<<k, m>> \in R)
  <2>1. IsWellFoundedOn(R, Nat) /\ T \subseteq Nat /\ T # {}
    BY <1>1
  <2>2. QED
    BY <2>1, WFMin, ZenonT(30)
<1>3. \A k \in T : ~(k < m)
  BY <1>1, <1>2
<1>4. QED
  BY <1>3

\* The recursion over the definitions of a DBC, as a predicate of its result.
Among(f, defs, n) ==
    f = [i \in 0 .. n |->
            IF i = 0 THEN <<>>
            ELSE IF SelectedSignals(defs[i]) = {} THEN f[i - 1]
            ELSE Append(f[i - 1], defs[i])]

LEMMA AmongExists ==
  ASSUME NEW defs, NEW n \in Nat
  PROVE  \E f : Among(f, defs, n)
<1> DEFINE T == {k \in Nat : ~ \E f : Among(f, defs, k)}
<1>1. SUFFICES ASSUME T # {} PROVE FALSE
  OBVIOUS
<1>2. PICK m \in T : \A k \in T : m <= k
  BY <1>1, Least
<1>3. CASE m = 0
  <2> DEFINE f == [i \in 0 .. 0 |-> <<>>]
  <2>1. Among(f, defs, 0)
    BY DEF Among
  <2>2. QED
    BY <1>2, <1>3, <2>1
<1>4. CASE m # 0
  <2>1. m - 1 \in Nat /\ m - 1 \notin T
    BY <1>2, <1>4
  <2>2. PICK f : Among(f, defs, m - 1)
    BY <2>1
  <2> DEFINE last == IF SelectedSignals(defs[m]) = {} THEN f[m - 1] ELSE Append(f[m - 1], defs[m])
             g == [i \in 0 .. m |-> IF i = m THEN last ELSE f[i]]
  <2>3. \A i \in 0 .. m : g[i] = IF i = 0 THEN <<>>
                                ELSE IF SelectedSignals(defs[i]) = {} THEN g[i - 1]
                                ELSE Append(g[i - 1], defs[i])
    <3> TAKE i \in 0 .. m
    <3>1. CASE i = m
      <4>1. g[i] = last /\ g[i - 1] = f[i - 1] /\ i # 0
        BY <1>4, <2>1, <3>1
      <4> HIDE DEF g
      <4>2. QED
        BY <3>1, <4>1
    <3>2. CASE i = 0
      <4>1. g[i] = f[i] /\ f[i] = <<>>
        BY <1>4, <2>1, <2>2, <3>2 DEF Among
      <4> HIDE DEF g
      <4>2. QED
        BY <3>2, <4>1
    <3>3. CASE i # m /\ i # 0
      <4>1. i \in 0 .. m - 1 /\ i - 1 \in 0 .. m - 1 /\ i # m /\ i - 1 # m
        BY <2>1, <3>3
      <4>2. g[i] = f[i] /\ g[i - 1] = f[i - 1]
        BY <4>1
      <4>3. f[i] = IF SelectedSignals(defs[i]) = {} THEN f[i - 1] ELSE Append(f[i - 1], defs[i])
        BY <2>2, <3>3, <4>1 DEF Among
      <4> HIDE DEF g
      <4>4. QED
        BY <3>3, <4>2, <4>3
    <3>4. QED
      BY <3>1, <3>2, <3>3
  <2>4. Among(g, defs, m)
    <3>1. g = [i \in 0 .. m |-> g[i]]
      OBVIOUS
    <3> HIDE DEF g
    <3>2. QED
      BY <2>3, <3>1 DEF Among
  <2>5. QED
    BY <1>2, <2>4
<1>5. QED
  BY <1>3, <1>4

LEMMA DefinitionsType ==
  ASSUME dbc \in Dbcs \cup {Nil}
  PROVE  \E S : Definitions(dbc) \in Seq(S)
<1>1. CASE dbc = Nil
  <2>1. Definitions(dbc) = <<>>
    BY <1>1 DEF Definitions
  <2>2. <<>> \in Seq({})
    OBVIOUS
  <2>3. QED
    BY <2>1, <2>2
<1>2. CASE dbc # Nil
  BY <1>2, DefinitionsAssumption DEF Definitions
<1>3. QED
  BY <1>1, <1>2

LEMMA SelectedIsAmong ==
  ASSUME Len(Definitions(dbc)) \in Nat
  PROVE  \E f : /\ Among(f, Definitions(dbc), Len(Definitions(dbc)))
                /\ SelectedDefinitions = f[Len(Definitions(dbc))]
<1> DEFINE defs == Definitions(dbc)
           n == Len(defs)
           f == CHOOSE g : Among(g, defs, n)
<1>1. Among(f, defs, n)
  BY AmongExists, Zenon
<1>2. SelectedDefinitions = f[n]
  BY Zenon DEF SelectedDefinitions, Among
<1>3. QED
  BY <1>1, <1>2

LEMMA ToSetOfAppend ==
  ASSUME NEW S, NEW q \in Seq(S), NEW e \in S
  PROVE  ToSet(Append(q, e)) = ToSet(q) \cup {e}
<1>1. /\ Append(q, e) \in Seq(S) /\ Len(Append(q, e)) = Len(q) + 1
      /\ \A i \in 1 .. Len(q) : Append(q, e)[i] = q[i]
      /\ Append(q, e)[Len(q) + 1] = e
  BY AppendProperties
<1>2. DOMAIN q = 1 .. Len(q) /\ DOMAIN Append(q, e) = 1 .. Len(q) + 1 /\ Len(q) \in Nat
  BY <1>1, LenProperties
<1>3. ASSUME NEW x \in ToSet(Append(q, e))
      PROVE  x \in ToSet(q) \cup {e}
  <2>1. PICK i \in 1 .. Len(q) + 1 : x = Append(q, e)[i]
    BY <1>2 DEF ToSet
  <2>2. i \in 1 .. Len(q) \/ i = Len(q) + 1
    BY <1>2
  <2>3. QED
    BY <1>1, <1>2, <2>1, <2>2 DEF ToSet
<1>4. ASSUME NEW x \in ToSet(q)
      PROVE  x \in ToSet(Append(q, e))
  <2>1. PICK i \in 1 .. Len(q) : x = q[i]
    BY <1>2 DEF ToSet
  <2>2. i \in DOMAIN Append(q, e) /\ x = Append(q, e)[i]
    BY <1>1, <1>2, <2>1
  <2>3. QED
    BY <2>2 DEF ToSet
<1>5. e \in ToSet(Append(q, e))
  <2>1. Len(q) + 1 \in DOMAIN Append(q, e)
    BY <1>2
  <2>2. QED
    BY <1>1, <2>1 DEF ToSet
<1>6. QED
  BY <1>3, <1>4, <1>5

\* The messages of the selection are those of the DBC that have a selected signal.
LEMMA SelectedAre ==
  ASSUME dbc \in Dbcs \cup {Nil}
  PROVE  ToSet(SelectedDefinitions) = {def \in ToSet(Definitions(dbc)) : SelectedSignals(def) # {}}
<1> DEFINE defs == Definitions(dbc)
           n == Len(defs)
           Having(k) == {d \in {defs[j] : j \in 1 .. k} : SelectedSignals(d) # {}}
<1>1. PICK S : defs \in Seq(S)
  BY DefinitionsType
<1>2. n \in Nat /\ DOMAIN defs = 1 .. n /\ \A j \in 1 .. n : defs[j] \in S
  BY <1>1, LenProperties
<1>3. PICK f : Among(f, defs, n) /\ SelectedDefinitions = f[n]
  BY <1>2, SelectedIsAmong
<1> HIDE DEF defs, n
<1> DEFINE T == {k \in Nat : k \in 0 .. n /\ ~(f[k] \in Seq(S) /\ ToSet(f[k]) = Having(k))}
<1>4. T = {}
  <2>1. SUFFICES ASSUME T # {} PROVE FALSE
    OBVIOUS
  <2>2. PICK m \in T : \A k \in T : m <= k
    <3>1. T \in SUBSET Nat
      OBVIOUS
    <3> HIDE DEF T
    <3>2. QED
      BY <2>1, <3>1, Least
  <2>3. m \in Nat /\ m \in 0 .. n /\ ~(f[m] \in Seq(S) /\ ToSet(f[m]) = Having(m))
    BY <2>2
  <2>4. CASE m = 0
    <3>1. f[0] = <<>>
      BY <1>2, <1>3 DEF Among
    <3>2. <<>> \in Seq(S) /\ ToSet(<<>>) = {}
      BY DEF ToSet
    <3>3. Having(0) = {}
      OBVIOUS
    <3>4. QED
      BY <2>3, <2>4, <3>1, <3>2, <3>3
  <2>5. CASE m # 0
    <3>1. m - 1 \in 0 .. n /\ m - 1 \in Nat /\ m \in 1 .. n /\ ~(m <= m - 1)
      BY <1>2, <2>3, <2>5
    <3>2. f[m - 1] \in Seq(S) /\ ToSet(f[m - 1]) = Having(m - 1)
      BY <2>2, <3>1
    <3>3. f[m] = IF SelectedSignals(defs[m]) = {} THEN f[m - 1] ELSE Append(f[m - 1], defs[m])
      BY <1>3, <2>3, <2>5 DEF Among
    <3>4. 1 .. m = (1 .. m - 1) \cup {m}
      BY <3>1
    <3>5. {defs[j] : j \in 1 .. m} = {defs[j] : j \in 1 .. m - 1} \cup {defs[m]}
      BY <3>4
    <3>6. CASE SelectedSignals(defs[m]) = {}
      <4>1. Having(m) = Having(m - 1)
        BY <3>5, <3>6
      <4>2. QED
        BY <2>3, <3>2, <3>3, <3>6, <4>1
    <3>7. CASE SelectedSignals(defs[m]) # {}
      <4>1. Having(m) = Having(m - 1) \cup {defs[m]}
        BY <3>5, <3>7
      <4>2. defs[m] \in S
        BY <1>2, <3>1
      <4>3. Append(f[m - 1], defs[m]) \in Seq(S)
            /\ ToSet(Append(f[m - 1], defs[m])) = ToSet(f[m - 1]) \cup {defs[m]}
        BY <3>2, <4>2, ToSetOfAppend, AppendProperties
      <4> HIDE DEF Having
      <4>4. QED
        BY <2>3, <3>2, <3>3, <3>7, <4>1, <4>3
    <3>8. QED
      BY <3>6, <3>7
  <2>6. QED
    BY <2>4, <2>5
<1>5. ToSet(f[n]) = Having(n)
  <2> HIDE DEF Having
  <2>1. n \in Nat /\ n \in 0 .. n
    BY <1>2
  <2>2. n \notin T
    <3> HIDE DEF T
    <3>1. QED
      BY <1>4
  <2>3. QED
    BY <2>1, <2>2
<1>6. ToSet(defs) = {defs[j] : j \in 1 .. n}
  BY <1>2 DEF ToSet
<1>7. QED
  BY <1>3, <1>5, <1>6 DEF defs

-----------------------------------------------------------------------------
(***************************************************************************)
(* The cache.                                                              *)
(***************************************************************************)

CacheKeys == UNION {{<<cache[i].id, s>> : s \in DOMAIN cache[i].values} : i \in DOMAIN cache}

\* Every entry is a message of the DBC with signals it has.
CacheFits ==
    \A i \in DOMAIN cache : \E def \in ToSet(Definitions(dbc)) :
        cache[i].id = def.id /\ DOMAIN cache[i].values \subseteq def.signals

CacheInv ==
    /\ dbc \in Dbcs \cup {Nil}
    /\ selected \subseteq KeysOf(dbc)
    /\ ui \in {"idle", "stopping", "populate", "cache"}
    /\ ui \in {"populate", "cache"} => selected = {}
    /\ ui \in {"idle", "stopping"} => CacheFits /\ (running => CacheKeys = chosen)

\* What is built has the selected signals and no others.
LEMMA CacheIsSelection ==
  ASSUME dbc \in Dbcs \cup {Nil}, selected \subseteq KeysOf(dbc), dbc' = dbc, BuildSendCache
  PROVE  /\ CacheFits'
         /\ CacheKeys' = IF mode = "raw" THEN {} ELSE selected
<1>1. PICK seed \in Seeds : cache' = CacheOf(seed)
  BY DEF BuildSendCache
<1>2. CASE mode = "raw"
  <2>1. cache' = <<>> /\ DOMAIN <<>> = {}
    BY <1>1, <1>2 DEF CacheOf
  <2>2. QED
    BY <1>2, <2>1 DEF CacheFits, CacheKeys
<1>3. CASE mode # "raw"
  <2> DEFINE sd == SelectedDefinitions
  <2>1. /\ DOMAIN cache' = DOMAIN sd
        /\ \A i \in DOMAIN sd : /\ cache'[i].id = sd[i].id
                               /\ DOMAIN cache'[i].values = SelectedSignals(sd[i])
    BY <1>1, <1>3 DEF CacheOf, CachedSignals
  <2>2. \A i \in DOMAIN sd : sd[i] \in ToSet(Definitions(dbc)) /\ SelectedSignals(sd[i]) # {}
    BY SelectedAre DEF ToSet
  <2>3. \A def \in ToSet(Definitions(dbc)) :
           SelectedSignals(def) # {} => \E i \in DOMAIN sd : sd[i] = def
    <3> SUFFICES ASSUME NEW def \in ToSet(Definitions(dbc)), SelectedSignals(def) # {}
                 PROVE  \E i \in DOMAIN sd : sd[i] = def
      OBVIOUS
    <3>1. def \in ToSet(sd)
      BY SelectedAre
    <3>2. QED
      BY <3>1 DEF ToSet
  <2> HIDE DEF sd
  <2>4. CacheFits'
    <3> SUFFICES ASSUME NEW i \in DOMAIN cache'
                 PROVE  \E def \in ToSet(Definitions(dbc')) :
                          cache'[i].id = def.id /\ DOMAIN cache'[i].values \subseteq def.signals
      BY DEF CacheFits
    <3>1. sd[i] \in ToSet(Definitions(dbc')) /\ SelectedSignals(sd[i]) \subseteq sd[i].signals
      BY <2>1, <2>2 DEF SelectedSignals
    <3>2. QED
      BY <2>1, <3>1
  <2>5. ASSUME NEW k \in CacheKeys'
        PROVE  k \in selected
    <3>1. PICK i \in DOMAIN cache' : \E s \in DOMAIN cache'[i].values : k = <<cache'[i].id, s>>
      BY DEF CacheKeys
    <3>2. QED
      BY <2>1, <3>1 DEF SelectedSignals
  <2>6. ASSUME NEW k \in selected
        PROVE  k \in CacheKeys'
    <3>1. PICK def \in ToSet(Definitions(dbc)) : k \in {<<def.id, s>> : s \in def.signals}
      BY DEF KeysOf
    <3> PICK s \in def.signals : k = <<def.id, s>>
      BY <3>1
    <3>2. s \in SelectedSignals(def)
      BY <3>1 DEF SelectedSignals
    <3>3. PICK i \in DOMAIN sd : sd[i] = def
      BY <2>3, <3>2
    <3>4. i \in DOMAIN cache' /\ cache'[i].id = def.id /\ s \in DOMAIN cache'[i].values
      BY <2>1, <3>2, <3>3
    <3>5. QED
      BY <3>4 DEF CacheKeys
  <2>7. QED
    BY <1>3, <2>4, <2>5, <2>6
<1>4. QED
  BY <1>2, <1>3

\* A step that leaves the cache and what it is of alone.
LEMMA SameCache ==
  ASSUME CacheInv, UNCHANGED <<dbc, selected, cache, chosen>>, running' => running,
         ui' \in {"idle", "stopping"}, ui \in {"idle", "stopping"}
  PROVE  CacheInv'
BY DEF CacheInv, CacheFits, CacheKeys

LEMMA CacheStep == CacheInv /\ [Next]_vars => CacheInv'
<1> SUFFICES ASSUME CacheInv, [Next]_vars PROVE CacheInv'
  OBVIOUS
<1>1. ASSUME UNCHANGED <<dbc, selected, cache, chosen, running, ui>>
      PROVE  CacheInv'
  BY <1>1 DEF CacheInv, CacheFits, CacheKeys
<1>2. ASSUME NEW keys \in SUBSET KeysOf(dbc), NEW on, Select(keys, on)
      PROVE  CacheInv'
  <2>1. /\ UNCHANGED <<dbc, cache, chosen, running, ui>> /\ ui = "idle"
        /\ selected' \subseteq selected \cup keys
    BY <1>2 DEF Select, UiFree, workerVars
  <2>2. QED
    BY <2>1 DEF CacheInv, CacheFits, CacheKeys
<1>3. ASSUME NEW rules, StartRepeated(rules)
      PROVE  CacheInv'
  <2>1. /\ UNCHANGED <<dbc, selected, ui>> /\ ui = "idle" /\ BuildSendCache
        /\ chosen' = IF mode = "raw" THEN {} ELSE selected
    BY <1>3 DEF StartRepeated, UiFree
  <2>2. CacheFits' /\ CacheKeys' = chosen'
    BY <2>1, CacheIsSelection DEF CacheInv
  <2>3. QED
    BY <2>1, <2>2 DEF CacheInv
<1>4. CASE StopRepeated
  BY <1>4, SameCache DEF StopRepeated, UiFree, modelVars, workerVars
<1>5. CASE Stopped
  BY <1>5, SameCache DEF Stopped, modelVars
<1>6. ASSUME NEW d \in Dbcs, UpdateDbcConfig(d)
      PROVE  CacheInv'
  <2>1. dbc' = d /\ selected' = {} /\ ui' = "populate"
    BY <1>6 DEF UpdateDbcConfig
  <2>2. QED
    BY <2>1 DEF CacheInv
<1>7. CASE PopulateFromModel
  <2>1. UNCHANGED <<dbc, selected>> /\ ui = "populate" /\ ui' = "cache"
    BY <1>7 DEF PopulateFromModel
  <2>2. QED
    BY <2>1 DEF CacheInv
<1>8. CASE RebuildCache
  <2>1. /\ UNCHANGED <<dbc, selected>> /\ ui = "cache" /\ ui' = "idle" /\ BuildSendCache
        /\ chosen' = {}
    BY <1>8 DEF RebuildCache
  <2>2. selected = {}
    BY <2>1 DEF CacheInv
  <2>3. CacheFits' /\ CacheKeys' = {}
    BY <2>1, <2>2, CacheIsSelection DEF CacheInv
  <2>4. QED
    BY <2>1, <2>2, <2>3 DEF CacheInv
<1>9. CASE OnDbcParseError \/ DeleteRows
  BY <1>1, <1>9 DEF OnDbcParseError, DeleteRows, modelVars, workerVars
<1>10. CASE ThreadStep
  <2>1. UNCHANGED <<dbc, selected, cache, chosen, running, ui>>
    BY <1>10 DEF ThreadStep, BeginCycle, ReadTornCache, EndOfLoop, NextMessage, InjectDbc,
                 InjectRaw, Evaluate, modelVars, workerVars
  <2>2. QED
    BY <1>1, <2>1
<1>11. ASSUME NEW e, PostEvent(e)
       PROVE  CacheInv'
  BY <1>1, <1>11 DEF PostEvent, modelVars, workerVars
<1>12. CASE UserStep
  <2>1. ASSUME NEW def \in ToSet(Definitions(dbc)), NEW on,
               \/ Select({<<def.id, s>> : s \in def.signals}, on)
               \/ \E s \in def.signals : Select({<<def.id, s>>}, on)
        PROVE  CacheInv'
    <3>1. \A s \in def.signals : <<def.id, s>> \in KeysOf(dbc)
      BY DEF KeysOf
    <3>2. /\ {<<def.id, s>> : s \in def.signals} \in SUBSET KeysOf(dbc)
          /\ \A s \in def.signals : {<<def.id, s>>} \in SUBSET KeysOf(dbc)
      BY <3>1
    <3>3. QED
      BY <1>2, <2>1, <3>2
  <2>2. ASSUME NEW m, NEW frame, NEW rules, SetMode(m) \/ SetRaw(frame) \/ SendOnce(rules)
        PROVE  CacheInv'
    BY <1>1, <2>2 DEF SetMode, SetRaw, SendOnce, modelVars, workerVars
  <2>3. QED
    BY <1>3, <1>4, <1>12, <2>1, <2>2 DEF UserStep
<1>13. CASE UNCHANGED vars
  BY <1>1, <1>13 DEF vars
<1>14. QED
  BY <1>5, <1>6, <1>7, <1>8, <1>9, <1>10, <1>11, <1>12, <1>13 DEF Next, DbcStep

LEMMA CacheInit == Init => CacheInv
<1> SUFFICES ASSUME Init PROVE CacheInv
  OBVIOUS
<1>1. cache = <<>> /\ DOMAIN <<>> = {} /\ dbc = Nil /\ selected = {} /\ ui = "idle"
      /\ chosen = {}
  BY DEF Init
<1>2. QED
  BY <1>1 DEF CacheInv, CacheFits, CacheKeys

\* Whatever DBCs arrive, and whatever is selected, started and stopped in between: when the UI
\* thread is done, the cache has only messages of the DBC of the model.
THEOREM CacheFollowsDbc == Spec => []CacheIsOfDbc
<1>1. CacheInv => CacheIsOfDbc
  BY DEF CacheInv, CacheFits, CacheIsOfDbc, UiFree
<1>2. QED
  BY CacheInit, CacheStep, <1>1, PTL DEF Spec

\* A session sends the selection it was started with until a DBC arrives, and nothing then.
THEOREM SelectionStaysFrozen == Spec => []SelectionIsFrozen
<1>1. CacheInv => SelectionIsFrozen
  BY DEF CacheInv, CacheKeys, SelectionIsFrozen, UiFree
<1>2. QED
  BY CacheInit, CacheStep, <1>1, PTL DEF Spec

-----------------------------------------------------------------------------
(***************************************************************************)
(* The verdict.  A handler agrees with the rules that fired on a frame     *)
(* from its first stage to its evaluation, and with no rules in between    *)
(* (FrameInv); what applying one rule does to it is lemma StrategyAgrees,  *)
(* and the stages follow by going through their rules.                     *)
(***************************************************************************)

RuleOf(rules, f) == rules[f[1]][f[2]]
OfKind(rules, fired, kind) == {f \in fired : RuleOf(rules, f).strategy.kind = kind}
DelaysOf(rules, fired) ==
    {0} \cup {RuleOf(rules, f).strategy.delay : f \in OfKind(rules, fired, "delay")}

RulesIn(rules) == UNION {{stage} \X DOMAIN rules[stage] : stage \in Stages}

HandlerOK(h) ==
    /\ h = [rules |-> h.rules, latched |-> h.latched, drop |-> h.drop, delay |-> h.delay,
            insertions |-> h.insertions]
    /\ h.rules \in RuleLists
    /\ h.latched = [g \in Stages |-> h.latched[g]]
    /\ \A g \in Stages : h.latched[g] \in [DOMAIN h.rules[g] -> BOOLEAN]
    /\ h.drop \in BOOLEAN /\ h.delay \in Nat
    /\ \E S : h.insertions \in Seq(S)

\* The state of a handler is what the rules that fired make of it.
Agrees(h, fired) ==
    /\ h.drop <=> OfKind(h.rules, fired, "drop") # {}
    /\ h.drop => h.delay = 0
    /\ ~h.drop => /\ h.delay \in DelaysOf(h.rules, fired)
                  /\ \A d \in DelaysOf(h.rules, fired) : d <= h.delay
    /\ Len(h.insertions) = Cardinality(OfKind(h.rules, fired, "insert"))

FiredOK(h, fired) == fired \subseteq RulesIn(h.rules) /\ IsFiniteSet(fired)

\* The rules of a stage that latched have been applied.
LatchedFired(h, stage, fired) ==
    \A i \in DOMAIN h.rules[stage] : h.latched[stage][i] => <<stage, i>> \in fired

HandlersInv ==
    /\ active \in Nat
    /\ \E S : handlers \in Seq(S)
    /\ users \in Seq(SUBSET Actors)
    /\ Len(handlers) = active /\ Len(users) = active
    /\ \A h \in 1 .. active : HandlerOK(handlers[h])

ModeInv == mode \in {"raw", "dbc"} /\ (running => active > 0)

JobType(j) ==
    j = [pc |-> j.pc, mode |-> j.mode, todo |-> j.todo, version |-> j.version,
         message |-> j.message, fired |-> j.fired, by |-> j.by, verdict |-> j.verdict,
         latched |-> j.latched]

JobInv(a) ==
    LET j == job[a]
    IN  /\ JobType(j)
        /\ j.pc \in {"idle", "next", "dbc", "raw", "evaluate"}
        /\ j.mode \in {"raw", "dbc"}
        /\ j.pc # "idle" => active > 0
        /\ j.by \subseteq 1 .. active /\ \A h \in j.by : a \in users[h]
        /\ j.pc # "next" => j.verdict = Nil
        /\ j.pc = "idle" => j.by = {} /\ j.fired = {}
        /\ j.pc = "dbc" => j.mode = "dbc" /\ j.by = {} /\ j.fired = {}
        /\ j.pc = "raw" => IF j.mode = "raw" THEN j.by = {} /\ j.fired = {} ELSE j.by # {}
        /\ j.pc = "evaluate" => j.by # {}

\* Of the active handler, as long as no other thread has used it.
FrameInv(a) ==
    LET j == job[a]
        h == handlers[active]
    IN  active > 0 /\ users[active] \subseteq {a} =>
            /\ j.pc \in {"idle", "next", "dbc"} \/ active \notin j.by => Agrees(h, {})
            /\ j.pc \in {"raw", "evaluate"} /\ j.by = {active} =>
                   /\ Agrees(h, j.fired) /\ FiredOK(h, j.fired)
                   /\ j.mode = "dbc" => LatchedFired(h, "dbc", j.fired)
                   /\ j.pc = "evaluate" => LatchedFired(h, "raw", j.fired)
                   /\ j.pc = "raw" => \A f \in j.fired : f[1] = "dbc"

\* VerdictIsOfFrame, of one thread.
VerdictOf(a) ==
    \A h \in job[a].by :
        (job[a].verdict # Nil /\ job[a].by = {h} /\ users[h] = {a}) =>
            LET expected == ExpectedVerdict(handlers[h].rules, job[a].fired)
                verdict == job[a].verdict
            IN /\ verdict.drop = expected.drop
               /\ verdict.delay = expected.delay
               /\ Len(verdict.insertions) = expected.insertions
               /\ job[a].latched \subseteq job[a].fired

ActorInv(a) == JobInv(a) /\ FrameInv(a) /\ VerdictOf(a)

VerdictInv ==
    HandlersInv /\ ModeInv /\ job = [a \in Actors |-> job[a]] /\ \A a \in Actors : ActorInv(a)

-----------------------------------------------------------------------------
(***************************************************************************)
(* One rule.                                                               *)
(***************************************************************************)

LEMMA OfKindAdded ==
  ASSUME NEW rules, NEW fired, NEW f, NEW kind
  PROVE  OfKind(rules, fired \cup {f}, kind) =
           IF RuleOf(rules, f).strategy.kind = kind THEN OfKind(rules, fired, kind) \cup {f}
           ELSE OfKind(rules, fired, kind)
  BY DEF OfKind

\* What a strategy does leaves the rules and the latches alone.
LEMMA StrategyKeeps ==
  ASSUME NEW h, HandlerOK(h), NEW stage, NEW message, NEW strategy,
         strategy.kind \in {"effect", "delay", "drop", "insert"},
         strategy.kind = "delay" => strategy.delay \in Nat,
         NEW o \in ApplyStrategy(stage, strategy, h, message)
  PROVE  HandlerOK(o[1]) /\ o[1].rules = h.rules /\ o[1].latched = h.latched
<1>1. CASE strategy.kind = "effect"
  BY <1>1 DEF ApplyStrategy
<1>2. CASE strategy.kind = "delay"
  <2>1. o[1] = IF h.drop THEN h ELSE [h EXCEPT !.delay = Max({@, strategy.delay})]
    BY <1>2 DEF ApplyStrategy
  <2>2. Max({h.delay, strategy.delay}) \in Nat
    <3>1. h.delay \in Nat /\ strategy.delay \in Nat
      BY <1>2 DEF HandlerOK
    <3>2. \E x \in {h.delay, strategy.delay} : \A y \in {h.delay, strategy.delay} : x >= y
      BY <3>1
    <3>3. QED
      BY <3>1, <3>2 DEF Max
  <2>3. QED
    BY <2>1, <2>2 DEF HandlerOK
<1>3. CASE strategy.kind = "drop"
  <2>1. o[1] = [h EXCEPT !.drop = TRUE, !.delay = 0]
    BY <1>3 DEF ApplyStrategy
  <2>2. o[1] = [rules |-> h.rules, latched |-> h.latched, drop |-> TRUE, delay |-> 0,
                insertions |-> h.insertions]
    BY <2>1 DEF HandlerOK
  <2>3. /\ o[1].rules = h.rules /\ o[1].latched = h.latched /\ o[1].insertions = h.insertions
        /\ o[1].drop \in BOOLEAN /\ o[1].delay \in Nat
        /\ o[1] = [rules |-> o[1].rules, latched |-> o[1].latched, drop |-> o[1].drop,
                   delay |-> o[1].delay, insertions |-> o[1].insertions]
    BY <2>2
  <2>4. QED
    BY <2>3 DEF HandlerOK
<1>4. CASE strategy.kind = "insert"
  <2>1. PICK e : o[1] = [h EXCEPT !.insertions = Append(@, e)]
    BY <1>4 DEF ApplyStrategy
  <2>2. PICK S : h.insertions \in Seq(S)
    BY DEF HandlerOK
  <2>3. Append(h.insertions, e) \in Seq(S \cup {e})
    <3>1. h.insertions \in Seq(S \cup {e})
      BY <2>2
    <3>2. QED
      BY <3>1, AppendProperties
  <2>4. QED
    BY <2>1, <2>3 DEF HandlerOK
<1>5. QED
  BY <1>1, <1>2, <1>3, <1>4

\* A rule that fires changes the verdict as the documentation says.
LEMMA StrategyAgrees ==
  ASSUME NEW h, HandlerOK(h), NEW stage, NEW message, NEW fired, NEW f,
         f \notin fired, IsFiniteSet(fired), Agrees(h, fired), DelaysOf(h.rules, fired) \subseteq Nat,
         RuleOf(h.rules, f).strategy.kind \in {"effect", "delay", "drop", "insert"},
         RuleOf(h.rules, f).strategy.kind = "delay" => RuleOf(h.rules, f).strategy.delay \in Nat,
         NEW o \in ApplyStrategy(stage, RuleOf(h.rules, f).strategy, h, message)
  PROVE  Agrees(o[1], fired \cup {f})
<1> DEFINE strategy == RuleOf(h.rules, f).strategy
           Of(kind) == OfKind(h.rules, fired, kind)
           New(kind) == OfKind(h.rules, fired \cup {f}, kind)
<1>1. \A kind : New(kind) = IF strategy.kind = kind THEN Of(kind) \cup {f} ELSE Of(kind)
  BY OfKindAdded
<1>2. /\ h.drop <=> Of("drop") # {}
      /\ h.drop => h.delay = 0
      /\ ~h.drop => /\ h.delay \in DelaysOf(h.rules, fired)
                    /\ \A d \in DelaysOf(h.rules, fired) : d <= h.delay
      /\ Len(h.insertions) = Cardinality(Of("insert"))
  BY DEF Agrees
<1>3. h.delay \in Nat /\ o[1].rules = h.rules
  <2>1. h.delay \in Nat
    BY DEF HandlerOK
  <2>2. QED
    BY <2>1, StrategyKeeps
<1>4. strategy.kind # "delay" => DelaysOf(h.rules, fired \cup {f}) = DelaysOf(h.rules, fired)
  BY <1>1 DEF DelaysOf
<1>5. CASE strategy.kind = "effect"
  <2>1. o[1] = h
    BY <1>5 DEF ApplyStrategy
  <2>2. New("drop") = Of("drop") /\ New("insert") = Of("insert")
    BY <1>1, <1>5
  <2>3. QED
    BY <1>2, <1>4, <1>5, <2>1, <2>2 DEF Agrees
<1>6. CASE strategy.kind = "delay"
  <2>1. o[1] = IF h.drop THEN h ELSE [h EXCEPT !.delay = Max({@, strategy.delay})]
    BY <1>6 DEF ApplyStrategy
  <2>2. New("drop") = Of("drop") /\ New("insert") = Of("insert")
    BY <1>1, <1>6
  <2>3. DelaysOf(h.rules, fired \cup {f}) = DelaysOf(h.rules, fired) \cup {strategy.delay}
    BY <1>1, <1>6 DEF DelaysOf
  <2>4. CASE h.drop
    BY <1>2, <2>1, <2>2, <2>4 DEF Agrees
  <2>5. CASE ~h.drop
    <3> DEFINE m == Max({h.delay, strategy.delay})
    <3>1. strategy.delay \in Nat
      BY <1>6
    <3>2. m \in {h.delay, strategy.delay} /\ h.delay <= m /\ strategy.delay <= m
      <4>1. \E x \in {h.delay, strategy.delay} : \A y \in {h.delay, strategy.delay} : x >= y
        BY <1>3, <3>1
      <4>2. m \in {h.delay, strategy.delay} /\ \A y \in {h.delay, strategy.delay} : m >= y
        BY <4>1 DEF Max
      <4>3. QED
        BY <1>3, <3>1, <4>2
    <3>3. o[1].delay = m /\ o[1].drop = h.drop /\ o[1].insertions = h.insertions
      BY <2>1, <2>5 DEF HandlerOK
    <3> HIDE DEF m
    <3>4. \A d \in DelaysOf(h.rules, fired) : d <= m
      <4>1. SUFFICES ASSUME NEW d \in DelaysOf(h.rules, fired) PROVE d <= m
        OBVIOUS
      <4>2. d \in Nat /\ d <= h.delay
        BY <1>2, <2>5, <4>1
      <4>3. QED
        BY <1>3, <3>1, <3>2, <4>2
    <3>5. m \in DelaysOf(h.rules, fired \cup {f})
      BY <1>2, <2>3, <2>5, <3>2
    <3>6. QED
      BY <1>2, <1>3, <2>2, <2>3, <2>5, <3>2, <3>3, <3>4, <3>5 DEF Agrees
  <2>6. QED
    BY <2>4, <2>5
<1>7. CASE strategy.kind = "drop"
  <2>1. o[1] = [h EXCEPT !.drop = TRUE, !.delay = 0]
    BY <1>7 DEF ApplyStrategy
  <2>2. New("drop") # {} /\ New("insert") = Of("insert")
    BY <1>1, <1>7
  <2>3. o[1].drop = TRUE /\ o[1].delay = 0 /\ o[1].insertions = h.insertions
    BY <2>1 DEF HandlerOK
  <2>4. QED
    BY <1>2, <1>3, <2>2, <2>3 DEF Agrees
<1>8. CASE strategy.kind = "insert"
  <2>1. PICK e : o[1] = [h EXCEPT !.insertions = Append(@, e)]
    BY <1>8 DEF ApplyStrategy
  <2>2. /\ o[1].drop = h.drop /\ o[1].delay = h.delay
        /\ o[1].insertions = Append(h.insertions, e)
    BY <2>1 DEF HandlerOK
  <2>3. Len(o[1].insertions) = Len(h.insertions) + 1
    <3>1. PICK S : h.insertions \in Seq(S)
      BY DEF HandlerOK
    <3>2. h.insertions \in Seq(S \cup {e})
      BY <3>1
    <3>3. QED
      BY <2>2, <3>2, AppendProperties
  <2>4. New("drop") = Of("drop") /\ New("insert") = Of("insert") \cup {f}
    BY <1>1, <1>8
  <2>5. IsFiniteSet(Of("insert")) /\ f \notin Of("insert")
    BY FS_Subset DEF OfKind
  <2>6. Cardinality(New("insert")) = Cardinality(Of("insert")) + 1
    BY <2>4, <2>5, FS_AddElement
  <2>7. DelaysOf(h.rules, fired \cup {f}) = DelaysOf(h.rules, fired)
    BY <1>4, <1>8
  <2> HIDE DEF Of, New
  <2>8. QED
    BY <1>2, <1>3, <2>2, <2>3, <2>4, <2>6, <2>7 DEF Agrees, Of, New
<1>9. QED
  BY <1>5, <1>6, <1>7, <1>8

\* Delays are natural numbers.
LEMMA DelaysAreNat ==
  ASSUME NEW rules \in RuleLists, NEW fired \in SUBSET RulesIn(rules)
  PROVE  DelaysOf(rules, fired) \subseteq Nat
<1>1. ASSUME NEW f \in fired, RuleOf(rules, f).strategy.kind = "delay"
      PROVE  RuleOf(rules, f).strategy.delay \in Nat
  <2>1. PICK stage \in Stages : f \in {stage} \X DOMAIN rules[stage]
    BY DEF RulesIn
  <2>2. f[1] = stage /\ f[2] \in DOMAIN rules[stage]
    BY <2>1
  <2>3. QED
    BY <1>1, <2>2, RulesAssumption DEF RuleOf
<1>2. QED
  BY <1>1 DEF DelaysOf, OfKind

\* What the first k rules of a stage make of a handler: o is the handler, the message and the
\* rules that fired.
Applied(stage, k, h, fired, o) ==
    /\ HandlerOK(o[1]) /\ o[1].rules = h.rules
    /\ \A g \in Stages \ {stage} : o[1].latched[g] = h.latched[g]
    /\ \A i \in DOMAIN h.rules[stage] :
          i <= k => (o[1].latched[stage][i] => <<stage, i>> \in o[3])
    /\ fired \subseteq o[3] /\ o[3] \subseteq fired \cup ({stage} \X (1 .. k))
    /\ Agrees(h, fired) /\ FiredOK(h, fired) /\ fired \cap ({stage} \X DOMAIN h.rules[stage]) = {}
          => Agrees(o[1], o[3]) /\ FiredOK(o[1], o[3])

LEMMA HandlerFields ==
  ASSUME NEW a, NEW b, NEW c, NEW d, NEW e, NEW r,
         r = [rules |-> a, latched |-> b, drop |-> c, delay |-> d, insertions |-> e]
  PROVE  /\ r.rules = a /\ r.latched = b /\ r.drop = c /\ r.delay = d /\ r.insertions = e
         /\ r = [rules |-> r.rules, latched |-> r.latched, drop |-> r.drop, delay |-> r.delay,
                 insertions |-> r.insertions]
OBVIOUS

LEMMA LatchingKeeps ==
  ASSUME NEW h, HandlerOK(h), NEW stage \in Stages, NEW i \in DOMAIN h.rules[stage],
         NEW latching,
         latching = [h EXCEPT !.latched[stage][i] = @ \/ h.rules[stage][i].latch]
  PROVE  /\ HandlerOK(latching) /\ latching.rules = h.rules
         /\ latching.drop = h.drop /\ latching.delay = h.delay
         /\ latching.insertions = h.insertions
         /\ \A g \in Stages \ {stage} : latching.latched[g] = h.latched[g]
         /\ \A j \in DOMAIN h.rules[stage] \ {i} : latching.latched[stage][j] = h.latched[stage][j]
<1> DEFINE up == h.latched[stage][i] \/ h.rules[stage][i].latch
           ls == [h.latched EXCEPT ![stage][i] = up]
<1>1. /\ h = [rules |-> h.rules, latched |-> h.latched, drop |-> h.drop, delay |-> h.delay,
              insertions |-> h.insertions]
      /\ h.latched = [g \in Stages |-> h.latched[g]]
      /\ \A g \in Stages : h.latched[g] \in [DOMAIN h.rules[g] -> BOOLEAN]
  BY DEF HandlerOK
<1>2. latching = [h EXCEPT !.latched = ls]
  BY <1>1
<1>3. latching = [rules |-> h.rules, latched |-> ls, drop |-> h.drop, delay |-> h.delay,
                  insertions |-> h.insertions]
  <2> HIDE DEF ls
  <2>1. QED
    BY <1>1, <1>2
<1>4. /\ latching.rules = h.rules /\ latching.latched = ls /\ latching.drop = h.drop
      /\ latching.delay = h.delay /\ latching.insertions = h.insertions
      /\ latching = [rules |-> latching.rules, latched |-> latching.latched,
                     drop |-> latching.drop, delay |-> latching.delay,
                     insertions |-> latching.insertions]
  <2> HIDE DEF ls
  <2>1. /\ latching.rules = h.rules /\ latching.latched = ls /\ latching.drop = h.drop
        /\ latching.delay = h.delay /\ latching.insertions = h.insertions
    <3>1. PICK x : x = latching
      BY Zenon
    <3>2. x = [rules |-> h.rules, latched |-> ls, drop |-> h.drop, delay |-> h.delay,
               insertions |-> h.insertions]
      BY <1>3, <3>1, Zenon
    <3>3. QED
      BY <3>1, <3>2
  <2>2. QED
    BY <1>3, <2>1
<1>5. up \in BOOLEAN
  BY Zenon
<1>6. ls = [h.latched EXCEPT ![stage] = [h.latched[stage] EXCEPT ![i] = up]]
  OBVIOUS
<1> HIDE DEF up
<1> DEFINE l == [h.latched[stage] EXCEPT ![i] = up]
<1>7. /\ l \in [DOMAIN h.rules[stage] -> BOOLEAN]
      /\ \A j \in DOMAIN h.rules[stage] \ {i} : l[j] = h.latched[stage][j]
  BY <1>1, <1>5
<1>8. /\ ls = [g \in Stages |-> ls[g]] /\ ls[stage] = l
      /\ \A g \in Stages \ {stage} : ls[g] = h.latched[g]
  <2>1. ls = [h.latched EXCEPT ![stage] = l]
    BY <1>6
  <2> HIDE DEF l, ls
  <2>2. QED
    BY <1>1, <2>1
<1> HIDE DEF l, ls
<1>9. \A g \in Stages : ls[g] \in [DOMAIN h.rules[g] -> BOOLEAN]
  BY <1>1, <1>7, <1>8
<1>10. HandlerOK(latching)
  <2>1. /\ h.rules \in RuleLists /\ h.drop \in BOOLEAN /\ h.delay \in Nat
        /\ \E S : h.insertions \in Seq(S)
    BY DEF HandlerOK
  <2>2. QED
    BY <1>4, <1>8, <1>9, <2>1 DEF HandlerOK
<1>11. QED
  BY <1>4, <1>7, <1>8, <1>10

LEMMA RuleKeeps ==
  ASSUME NEW h, HandlerOK(h), NEW stage \in Stages, NEW i \in DOMAIN h.rules[stage],
         NEW message, NEW fired, NEW o \in ApplyRule(stage, i, h, message, fired)
  PROVE  /\ HandlerOK(o[1]) /\ o[1].rules = h.rules
         /\ \A g \in Stages \ {stage} : o[1].latched[g] = h.latched[g]
         /\ \A j \in DOMAIN h.rules[stage] \ {i} : o[1].latched[stage][j] = h.latched[stage][j]
         /\ o[1].latched[stage][i] => <<stage, i>> \in o[3]
         /\ o[3] = fired \/ o[3] = fired \cup {<<stage, i>>}
         /\ Agrees(h, fired) /\ FiredOK(h, fired) /\ <<stage, i>> \notin fired
               => Agrees(o[1], o[3]) /\ FiredOK(o[1], o[3])
<1> DEFINE rule == h.rules[stage][i]
           f == <<stage, i>>
           latching == [h EXCEPT !.latched[stage][i] = @ \/ rule.latch]
<1>1. /\ rule.strategy.kind \in {"effect", "delay", "drop", "insert"}
      /\ rule.strategy.kind = "delay" => rule.strategy.delay \in Nat
  BY RulesAssumption DEF HandlerOK
<1>2. /\ HandlerOK(latching) /\ latching.rules = h.rules
      /\ latching.drop = h.drop /\ latching.delay = h.delay
      /\ latching.insertions = h.insertions
      /\ \A g \in Stages \ {stage} : latching.latched[g] = h.latched[g]
      /\ \A j \in DOMAIN h.rules[stage] \ {i} : latching.latched[stage][j] = h.latched[stage][j]
  BY LatchingKeeps
<1>3. \/ o = <<h, message, fired>> /\ ~h.latched[stage][i]
      \/ \E p \in ApplyStrategy(stage, rule.strategy, latching, message) :
            o = <<p[1], p[2], fired \cup {f}>>
  BY DEF ApplyRule
<1>4. RuleOf(h.rules, f) = rule
  BY DEF RuleOf
<1> HIDE DEF latching, rule
<1>5. CASE o = <<h, message, fired>> /\ ~h.latched[stage][i]
  BY <1>5
<1>6. CASE \E p \in ApplyStrategy(stage, rule.strategy, latching, message) :
              o = <<p[1], p[2], fired \cup {f}>>
  <2>1. PICK p \in ApplyStrategy(stage, rule.strategy, latching, message) :
                o = <<p[1], p[2], fired \cup {f}>>
    BY <1>6
  <2>2. HandlerOK(p[1]) /\ p[1].rules = latching.rules /\ p[1].latched = latching.latched
    BY <1>1, <1>2, StrategyKeeps
  <2>3. ASSUME Agrees(h, fired), FiredOK(h, fired), f \notin fired
        PROVE  Agrees(p[1], fired \cup {f}) /\ FiredOK(p[1], fired \cup {f})
    <3>1. Agrees(latching, fired)
      BY <1>2, <2>3 DEF Agrees
    <3>2. IsFiniteSet(fired) /\ fired \subseteq RulesIn(h.rules)
      BY <2>3 DEF FiredOK
    <3>3. DelaysOf(latching.rules, fired) \subseteq Nat
      BY <1>2, <3>2, DelaysAreNat DEF HandlerOK
    <3>4. Agrees(p[1], fired \cup {f})
      <4>1. RuleOf(latching.rules, f) = rule
        BY <1>2, <1>4, Zenon
      <4>2. p \in ApplyStrategy(stage, RuleOf(latching.rules, f).strategy, latching, message)
        BY <2>1, <4>1, Zenon
      <4>3. QED
        BY <1>1, <1>2, <2>3, <3>1, <3>2, <3>3, <4>1, <4>2, StrategyAgrees, Zenon
    <3>5. f \in RulesIn(h.rules)
      BY DEF RulesIn
    <3>6. IsFiniteSet(fired \cup {f})
      BY <3>2, FS_AddElement
    <3>7. QED
      BY <1>2, <2>2, <3>2, <3>4, <3>5, <3>6 DEF FiredOK
  <2>4. o[1] = p[1] /\ o[3] = fired \cup {f}
    BY <2>1
  <2> HIDE DEF f
  <2>5. f = <<stage, i>>
    BY DEF f
  <2>6. QED
    BY <1>2, <2>2, <2>3, <2>4, <2>5
<1>7. QED
  BY <1>3, <1>5, <1>6

-----------------------------------------------------------------------------
(***************************************************************************)
(* All rules of a stage, one after the other.                              *)
(***************************************************************************)

LEMMA NoRuleApplied ==
  ASSUME NEW h, HandlerOK(h), NEW stage \in Stages, NEW message, NEW fired
  PROVE  Applied(stage, 0, h, fired, <<h, message, fired>>)
<1> DEFINE o == <<h, message, fired>>
<1>1. o[1] = h /\ o[3] = fired
  OBVIOUS
<1>2. \A i \in DOMAIN h.rules[stage] : ~(i <= 0)
  <2>1. h.rules[stage] \in Seq(ToSet(h.rules[stage]))
    BY RulesAssumption DEF HandlerOK
  <2>2. DOMAIN h.rules[stage] = 1 .. Len(h.rules[stage]) /\ Len(h.rules[stage]) \in Nat
    BY <2>1, LenProperties
  <2>3. QED
    BY <2>2
<1> HIDE DEF o
<1>3. Applied(stage, 0, h, fired, o)
  BY <1>1, <1>2 DEF Applied
<1>4. QED
  BY <1>3 DEF o

LEMMA OneMoreApplied ==
  ASSUME NEW h, HandlerOK(h), NEW stage \in Stages, NEW k \in DOMAIN h.rules[stage], NEW fired,
         NEW o, Applied(stage, k - 1, h, fired, o),
         NEW p \in ApplyRule(stage, k, o[1], o[2], o[3])
  PROVE  Applied(stage, k, h, fired, p)
<1> DEFINE g1 == o[1]
           p1 == p[1]
           f1 == o[3]
           f2 == p[3]
<1>1. /\ HandlerOK(g1) /\ g1.rules = h.rules
      /\ \A g \in Stages \ {stage} : g1.latched[g] = h.latched[g]
      /\ \A i \in DOMAIN h.rules[stage] :
            i <= k - 1 => (g1.latched[stage][i] => <<stage, i>> \in f1)
      /\ fired \subseteq f1 /\ f1 \subseteq fired \cup ({stage} \X (1 .. k - 1))
      /\ Agrees(h, fired) /\ FiredOK(h, fired)
         /\ fired \cap ({stage} \X DOMAIN h.rules[stage]) = {}
            => Agrees(g1, f1) /\ FiredOK(g1, f1)
  BY DEF Applied
<1>2. k \in DOMAIN g1.rules[stage] /\ p \in ApplyRule(stage, k, g1, o[2], f1)
  BY <1>1
<1>3. DOMAIN h.rules[stage] = 1 .. Len(h.rules[stage]) /\ Len(h.rules[stage]) \in Nat
  <2>1. h.rules[stage] \in Seq(ToSet(h.rules[stage]))
    BY RulesAssumption DEF HandlerOK
  <2>2. QED
    BY <2>1, LenProperties
<1> HIDE DEF g1, f1
<1>4. /\ HandlerOK(p1) /\ p1.rules = g1.rules
      /\ \A g \in Stages \ {stage} : p1.latched[g] = g1.latched[g]
      /\ \A j \in DOMAIN g1.rules[stage] \ {k} : p1.latched[stage][j] = g1.latched[stage][j]
      /\ p1.latched[stage][k] => <<stage, k>> \in f2
      /\ f2 = f1 \/ f2 = f1 \cup {<<stage, k>>}
      /\ Agrees(g1, f1) /\ FiredOK(g1, f1) /\ <<stage, k>> \notin f1
            => Agrees(p1, f2) /\ FiredOK(p1, f2)
  BY <1>1, <1>2, RuleKeeps
<1> HIDE DEF p1, f2
<1>5. k \in 1 .. Len(h.rules[stage]) /\ 1 .. k = (1 .. k - 1) \cup {k}
  BY <1>3
<1>6. f2 \subseteq fired \cup ({stage} \X (1 .. k)) /\ fired \subseteq f2
  BY <1>1, <1>4, <1>5
<1>7. ASSUME NEW i \in DOMAIN h.rules[stage], i <= k, p1.latched[stage][i]
      PROVE  <<stage, i>> \in f2
  <2>1. CASE i = k
    BY <1>4, <1>7, <2>1
  <2>2. CASE i # k
    <3>1. i <= k - 1
      BY <1>3, <1>7, <2>2
    <3>2. <<stage, i>> \in f1
      BY <1>1, <1>4, <1>7, <2>2, <3>1
    <3>3. QED
      BY <1>4, <3>2
  <2>3. QED
    BY <2>1, <2>2
<1>8. ASSUME Agrees(h, fired), FiredOK(h, fired),
             fired \cap ({stage} \X DOMAIN h.rules[stage]) = {}
      PROVE  Agrees(p1, f2) /\ FiredOK(p1, f2)
  <2>1. <<stage, k>> \notin f1
    <3>1. <<stage, k>> \notin fired
      BY <1>8
    <3>2. <<stage, k>> \notin {stage} \X (1 .. k - 1)
      BY <1>5
    <3>3. QED
      BY <1>1, <3>1, <3>2
  <2>2. QED
    BY <1>1, <1>4, <1>8, <2>1
<1>9. p1.rules = h.rules /\ \A g \in Stages \ {stage} : p1.latched[g] = h.latched[g]
  BY <1>1, <1>4
<1>10. p1 = p[1] /\ f2 = p[3]
  BY DEF p1, f2
<1>11. HandlerOK(p1)
  BY <1>4
<1>12. QED
  BY <1>6, <1>7, <1>8, <1>9, <1>10, <1>11 DEF Applied

\* The recursion over the rules, as a predicate of its result.
InjectSteps(f, stage, h, message, fired, n) ==
    f = [i \in 0 .. n |->
            IF i = 0 THEN {<<h, message, fired>>}
            ELSE UNION {ApplyRule(stage, i, o[1], o[2], o[3]) : o \in f[i - 1]}]

LEMMA InjectStepsAre ==
  ASSUME NEW f, NEW stage, NEW h, NEW message, NEW fired, NEW n \in Nat,
         InjectSteps(f, stage, h, message, fired, n)
  PROVE  /\ f[0] = {<<h, message, fired>>}
         /\ \A i \in 1 .. n :
               f[i] = UNION {ApplyRule(stage, i, o[1], o[2], o[3]) : o \in f[i - 1]}
<1>1. \A i \in 0 .. n :
        f[i] = IF i = 0 THEN {<<h, message, fired>>}
               ELSE UNION {ApplyRule(stage, i, o[1], o[2], o[3]) : o \in f[i - 1]}
  BY Zenon DEF InjectSteps
<1>2. 0 \in 0 .. n /\ \A i \in 1 .. n : i \in 0 .. n /\ i # 0
  OBVIOUS
<1>3. QED
  BY <1>1, <1>2, Zenon

LEMMA InjectStepsExist ==
  ASSUME NEW stage, NEW h, NEW message, NEW fired, NEW n \in Nat
  PROVE  \E f : InjectSteps(f, stage, h, message, fired, n)
<1> DEFINE T == {k \in Nat : ~ \E f : InjectSteps(f, stage, h, message, fired, k)}
           Rules(i, outcomes) == UNION {ApplyRule(stage, i, o[1], o[2], o[3]) : o \in outcomes}
<1>1. SUFFICES ASSUME T # {} PROVE FALSE
  OBVIOUS
<1>2. PICK m \in T : \A k \in T : m <= k
  BY <1>1, Least
<1>3. CASE m = 0
  <2> DEFINE f == [i \in 0 .. 0 |-> {<<h, message, fired>>}]
  <2>1. InjectSteps(f, stage, h, message, fired, 0)
    BY DEF InjectSteps
  <2>2. QED
    BY <1>2, <1>3, <2>1
<1>4. CASE m # 0
  <2>1. m - 1 \in Nat /\ m - 1 \notin T
    BY <1>2, <1>4
  <2>2. PICK f : InjectSteps(f, stage, h, message, fired, m - 1)
    BY <2>1
  <2> DEFINE g == [i \in 0 .. m |-> IF i = m THEN Rules(m, f[m - 1]) ELSE f[i]]
  <2>3. /\ f[0] = {<<h, message, fired>>}
        /\ \A i \in 1 .. m - 1 : f[i] = Rules(i, f[i - 1])
    BY <2>1, <2>2, InjectStepsAre
  <2> HIDE DEF Rules
  <2>4. \A i \in 0 .. m : g[i] = IF i = 0 THEN {<<h, message, fired>>} ELSE Rules(i, g[i - 1])
    <3> TAKE i \in 0 .. m
    <3>1. CASE i = m
      <4>1. g[i] = Rules(m, f[m - 1]) /\ g[i - 1] = f[i - 1] /\ i # 0
        BY <1>4, <2>1, <3>1
      <4> HIDE DEF g
      <4>2. QED
        BY <3>1, <4>1
    <3>2. CASE i = 0
      <4>1. g[i] = f[i]
        BY <1>4, <2>1, <3>2
      <4> HIDE DEF g
      <4>2. QED
        BY <2>3, <3>2, <4>1
    <3>3. CASE i # m /\ i # 0
      <4>1. i \in 1 .. m - 1 /\ i - 1 \in 0 .. m /\ i - 1 # m
        BY <2>1, <3>3
      <4>2. g[i] = f[i] /\ g[i - 1] = f[i - 1]
        BY <3>3, <4>1
      <4> HIDE DEF g
      <4>3. QED
        BY <2>3, <3>3, <4>1, <4>2
    <3>4. QED
      BY <3>1, <3>2, <3>3
  <2>5. InjectSteps(g, stage, h, message, fired, m)
    <3>1. g = [i \in 0 .. m |-> g[i]]
      OBVIOUS
    <3> HIDE DEF g
    <3>2. QED
      BY <2>4, <3>1 DEF InjectSteps, Rules
  <2>6. QED
    BY <1>2, <2>5
<1>5. QED
  BY <1>3, <1>4

LEMMA InjectIsSteps ==
  ASSUME NEW stage, NEW h, NEW message, NEW fired, Len(h.rules[stage]) \in Nat
  PROVE  \E f : /\ InjectSteps(f, stage, h, message, fired, Len(h.rules[stage]))
                /\ Inject(stage, h, message, fired) = f[Len(h.rules[stage])]
<1> DEFINE n == Len(h.rules[stage])
           f == CHOOSE g : InjectSteps(g, stage, h, message, fired, n)
<1>1. InjectSteps(f, stage, h, message, fired, n)
  BY InjectStepsExist, Zenon
<1>2. Inject(stage, h, message, fired) = f[n]
  BY Zenon DEF Inject, InjectSteps
<1>3. QED
  BY <1>1, <1>2

LEMMA InjectApplies ==
  ASSUME NEW h, HandlerOK(h), NEW stage \in Stages, NEW message, NEW fired,
         NEW o \in Inject(stage, h, message, fired)
  PROVE  Applied(stage, Len(h.rules[stage]), h, fired, o)
<1> DEFINE n == Len(h.rules[stage])
<1>1. DOMAIN h.rules[stage] = 1 .. n /\ n \in Nat
  <2>1. h.rules[stage] \in Seq(ToSet(h.rules[stage]))
    BY RulesAssumption DEF HandlerOK
  <2>2. QED
    BY <2>1, LenProperties
<1>2. PICK f : /\ InjectSteps(f, stage, h, message, fired, n)
               /\ Inject(stage, h, message, fired) = f[n]
  BY <1>1, InjectIsSteps
<1>3. /\ f[0] = {<<h, message, fired>>}
      /\ \A i \in 1 .. n : f[i] = UNION {ApplyRule(stage, i, p[1], p[2], p[3]) : p \in f[i - 1]}
  BY <1>1, <1>2, InjectStepsAre
<1> HIDE DEF n
<1> DEFINE T == {k \in Nat : k \in 0 .. n /\ \E p \in f[k] : ~Applied(stage, k, h, fired, p)}
<1>4. T = {}
  <2>1. SUFFICES ASSUME T # {} PROVE FALSE
    OBVIOUS
  <2>2. PICK m \in T : \A k \in T : m <= k
    <3>1. T \in SUBSET Nat
      OBVIOUS
    <3> HIDE DEF T
    <3>2. QED
      BY <2>1, <3>1, Least
  <2>3. PICK p \in f[m] : ~Applied(stage, m, h, fired, p)
    BY <2>2
  <2>4. m \in Nat /\ m \in 0 .. n
    BY <2>2
  <2>5. CASE m = 0
    BY <1>3, <2>3, <2>5, NoRuleApplied
  <2>6. CASE m # 0
    <3>1. m - 1 \in 0 .. n /\ m - 1 \in Nat /\ m \in 1 .. n /\ ~(m <= m - 1)
      BY <1>1, <2>4, <2>6
    <3>2. PICK q \in f[m - 1] : p \in ApplyRule(stage, m, q[1], q[2], q[3])
      BY <1>3, <2>3, <3>1
    <3>3. Applied(stage, m - 1, h, fired, q)
      BY <2>2, <3>1
    <3>4. m \in DOMAIN h.rules[stage]
      BY <1>1, <3>1
    <3>5. Applied(stage, m, h, fired, p)
      BY <3>2, <3>3, <3>4, OneMoreApplied
    <3>6. QED
      BY <2>3, <3>5
  <2>7. QED
    BY <2>5, <2>6
<1>5. n \notin T /\ n \in 0 .. n /\ n \in Nat
  <2>1. n \in 0 .. n /\ n \in Nat
    BY <1>1
  <2> HIDE DEF T
  <2>2. QED
    BY <1>4, <2>1
<1>6. QED
  BY <1>2, <1>5 DEF n

-----------------------------------------------------------------------------
(***************************************************************************)
(* The steps: a new handler, a call of the active one, and what they leave *)
(* of the frames of the other thread.                                      *)
(***************************************************************************)

\* A handler whose state is that of no frame.
LEMMA CleanHandler ==
  ASSUME NEW h, h.drop = FALSE, h.delay = 0, h.insertions = <<>>
  PROVE  /\ Agrees(h, {})
         /\ h.drop \in BOOLEAN /\ h.delay \in Nat /\ \E S : h.insertions \in Seq(S)
<1>1. /\ \A kind : OfKind(h.rules, {}, kind) = {}
      /\ DelaysOf(h.rules, {}) = {0}
  BY DEF OfKind, DelaysOf
<1>2. Len(h.insertions) = Cardinality(OfKind(h.rules, {}, "insert"))
  BY <1>1, FS_EmptySet
<1>3. h.delay \in DelaysOf(h.rules, {}) /\ \A d \in DelaysOf(h.rules, {}) : d <= h.delay
  BY <1>1
<1>4. ~h.drop
  OBVIOUS
<1>5. Agrees(h, {})
  BY <1>1, <1>2, <1>3, <1>4, Zenon DEF Agrees
<1>6. <<>> \in Seq({})
  OBVIOUS
<1>7. h.drop \in BOOLEAN
  BY Zenon
<1>8. h.delay \in Nat /\ \E S : h.insertions \in Seq(S)
  BY <1>6
<1>9. QED
  BY <1>5, <1>7, <1>8

LEMMA NewHandlerOK ==
  ASSUME NEW rules \in RuleLists
  PROVE  HandlerOK(NewHandler(rules)) /\ Agrees(NewHandler(rules), {})
<1> DEFINE h == NewHandler(rules)
<1>1. h = [rules |-> rules, latched |-> [g \in Stages |-> [i \in DOMAIN rules[g] |-> FALSE]],
           drop |-> FALSE, delay |-> 0, insertions |-> <<>>]
  BY DEF NewHandler
<1> HIDE DEF h
<1>2. /\ h.rules = rules /\ h.drop = FALSE /\ h.delay = 0 /\ h.insertions = <<>>
      /\ h.latched = [g \in Stages |-> [i \in DOMAIN rules[g] |-> FALSE]]
      /\ h = [rules |-> h.rules, latched |-> h.latched, drop |-> h.drop, delay |-> h.delay,
              insertions |-> h.insertions]
  BY <1>1, HandlerFields
<1>3. /\ h.latched = [g \in Stages |-> h.latched[g]]
      /\ \A g \in Stages : h.latched[g] \in [DOMAIN h.rules[g] -> BOOLEAN]
  BY <1>2
<1>4. h.rules \in RuleLists
  BY <1>2
<1>5. /\ Agrees(h, {})
      /\ h.drop \in BOOLEAN /\ h.delay \in Nat /\ \E S : h.insertions \in Seq(S)
  BY <1>2, CleanHandler
<1>6. HandlerOK(h)
  BY <1>2, <1>3, <1>4, <1>5, Zenon DEF HandlerOK
<1>7. QED
  BY <1>5, <1>6 DEF h

LEMMA EvaluatedOK ==
  ASSUME NEW h, HandlerOK(h)
  PROVE  HandlerOK(Evaluated(h)) /\ Evaluated(h).rules = h.rules /\ Agrees(Evaluated(h), {})
<1> DEFINE e == Evaluated(h)
<1>1. e = [rules |-> h.rules, latched |-> h.latched, drop |-> FALSE, delay |-> 0,
           insertions |-> <<>>]
  <2>1. h = [rules |-> h.rules, latched |-> h.latched, drop |-> h.drop, delay |-> h.delay,
             insertions |-> h.insertions]
    BY Zenon DEF HandlerOK
  <2>2. PICK no : no = FALSE
    OBVIOUS
  <2>3. PICK none : none = <<>>
    OBVIOUS
  <2>4. PICK h1 : h1 = [h EXCEPT !.drop = no]
    OBVIOUS
  <2>5. h1 = [rules |-> h.rules, latched |-> h.latched, drop |-> no, delay |-> h.delay,
              insertions |-> h.insertions]
    BY <2>1, <2>4
  <2>6. PICK h2 : h2 = [h1 EXCEPT !.delay = 0]
    OBVIOUS
  <2>7. h2 = [rules |-> h.rules, latched |-> h.latched, drop |-> no, delay |-> 0,
              insertions |-> h.insertions]
    BY <2>5, <2>6
  <2>8. [h2 EXCEPT !.insertions = none] =
          [rules |-> h.rules, latched |-> h.latched, drop |-> no, delay |-> 0,
           insertions |-> none]
    BY <2>7
  <2>9. Evaluated(h) = [h2 EXCEPT !.insertions = none]
    BY <2>2, <2>3, <2>4, <2>6 DEF Evaluated
  <2>10. QED
    BY <2>2, <2>3, <2>8, <2>9
<1> HIDE DEF e
<1>2. /\ e.rules = h.rules /\ e.latched = h.latched /\ e.drop = FALSE /\ e.delay = 0
      /\ e.insertions = <<>>
      /\ e = [rules |-> e.rules, latched |-> e.latched, drop |-> e.drop, delay |-> e.delay,
              insertions |-> e.insertions]
  BY <1>1, HandlerFields
<1>3. /\ Agrees(e, {})
      /\ e.drop \in BOOLEAN /\ e.delay \in Nat /\ \E S : e.insertions \in Seq(S)
  BY <1>2, CleanHandler
<1>4. /\ e.rules \in RuleLists
      /\ e.latched = [g \in Stages |-> e.latched[g]]
      /\ \A g \in Stages : e.latched[g] \in [DOMAIN e.rules[g] -> BOOLEAN]
  BY <1>2 DEF HandlerOK
<1>5. HandlerOK(e)
  BY <1>2, <1>3, <1>4, Zenon DEF HandlerOK
<1>6. QED
  BY <1>2, <1>3, <1>5 DEF e

\* A thread calls the active handler, which becomes new.
Calls(a, new) ==
    /\ active > 0
    /\ handlers' = [handlers EXCEPT ![active] = new]
    /\ users' = [users EXCEPT ![active] = @ \cup {a}]
    /\ active' = active

LEMMA CallHandlers ==
  ASSUME HandlersInv, NEW a \in Actors, NEW new, HandlerOK(new),
         new.rules = handlers[active].rules, Calls(a, new)
  PROVE  /\ HandlersInv'
         /\ handlers'[active] = new /\ users'[active] = users[active] \cup {a}
         /\ \A h \in 1 .. active : handlers'[h].rules = handlers[h].rules /\ users[h] \subseteq users'[h]
         /\ \A h \in 1 .. active : users[h] # {} => users'[h] \in {users[h], users[h] \cup {a}}
<1>1. /\ active \in Nat /\ active \in 1 .. active
      /\ users \in Seq(SUBSET Actors)
      /\ Len(handlers) = active /\ Len(users) = active
      /\ \A h \in 1 .. active : HandlerOK(handlers[h])
  BY DEF HandlersInv, Calls
<1>2. PICK S : handlers \in Seq(S)
  BY DEF HandlersInv
<1>3. handlers' \in Seq(S \cup {new}) /\ Len(handlers') = active
      /\ \A h \in 1 .. active : handlers'[h] = IF h = active THEN new ELSE handlers[h]
  <2>1. handlers \in Seq(S \cup {new})
    BY <1>2
  <2>2. handlers' = [handlers EXCEPT ![active] = new]
    BY DEF Calls
  <2>3. QED
    BY <1>1, <2>1, <2>2, ExceptSeq
<1>4. users' \in Seq(SUBSET Actors) /\ Len(users') = active
      /\ \A h \in 1 .. active : users'[h] = IF h = active THEN users[h] \cup {a} ELSE users[h]
  <2>1. users[active] \in SUBSET Actors
    BY <1>1, ElementOfSeq
  <2>2. users[active] \cup {a} \in SUBSET Actors
    BY <2>1
  <2>3. users' = [users EXCEPT ![active] = users[active] \cup {a}]
    BY DEF Calls
  <2> DEFINE u == users[active] \cup {a}
  <2> HIDE DEF u
  <2>4. u \in SUBSET Actors /\ users' = [users EXCEPT ![active] = u]
    BY <2>2, <2>3 DEF u
  <2>5. users' \in Seq(SUBSET Actors) /\ Len(users') = active
        /\ \A h \in 1 .. active : users'[h] = IF h = active THEN u ELSE users[h]
    BY <1>1, <2>4, ExceptSeq
  <2>6. QED
    BY <2>5 DEF u
<1>5. HandlersInv'
  <2>1. active' = active
    BY DEF Calls
  <2>2. QED
    BY <1>1, <1>3, <1>4, <2>1 DEF HandlersInv
<1>6. QED
  BY <1>1, <1>3, <1>4, <1>5

\* The other thread's frame is no longer one that only it has touched.
LEMMA CallOther ==
  ASSUME HandlersInv, NEW a \in Actors, NEW b \in Actors, a # b, NEW new, HandlerOK(new),
         new.rules = handlers[active].rules, Calls(a, new), job'[b] = job[b], ActorInv(b)
  PROVE  ActorInv(b)'
<1> USE DEF ActorInv
<1>1. active' = active /\ active \in Nat
  BY DEF Calls, HandlersInv
<1>2. /\ users'[active] = users[active] \cup {a}
      /\ \A h \in 1 .. active : handlers'[h].rules = handlers[h].rules /\ users[h] \subseteq users'[h]
  BY CallHandlers
<1>3. JobInv(b)'
  BY <1>1, <1>2 DEF JobInv
<1>4. FrameInv(b)'
  BY <1>1, <1>2 DEF FrameInv
<1>5. VerdictOf(b)'
  <2>1. ASSUME NEW h \in job[b].by, job[b].verdict # Nil, job[b].by = {h}, users'[h] = {b}
        PROVE  users[h] = {b} /\ handlers'[h].rules = handlers[h].rules
    <3>1. h \in 1 .. active /\ b \in users[h]
      BY <2>1 DEF JobInv
    <3>2. QED
      BY <1>2, <2>1, <3>1
  <2>2. QED
    BY <2>1 DEF VerdictOf
<1>6. QED
  BY <1>3, <1>4, <1>5

LEMMA NewHandlers ==
  ASSUME HandlersInv, NEW rules \in RuleLists, NewSession(rules)
  PROVE  /\ HandlersInv' /\ active' = active + 1
         /\ handlers'[active'] = NewHandler(rules) /\ users'[active'] = {}
         /\ \A h \in 1 .. active : handlers'[h] = handlers[h] /\ users'[h] = users[h]
<1> DEFINE new == NewHandler(rules)
<1> HIDE DEF new
<1>1. /\ active \in Nat /\ users \in Seq(SUBSET Actors)
      /\ Len(handlers) = active /\ Len(users) = active
      /\ \A h \in 1 .. active : HandlerOK(handlers[h])
  BY DEF HandlersInv
<1>2. /\ handlers' = Append(handlers, new) /\ users' = Append(users, {})
      /\ active' = active + 1
  BY <1>1 DEF NewSession, new
<1>3. PICK S : handlers \in Seq(S)
  BY DEF HandlersInv
<1>4. /\ handlers' \in Seq(S \cup {new}) /\ Len(handlers') = active + 1
      /\ \A h \in 1 .. active : handlers'[h] = handlers[h]
      /\ handlers'[active + 1] = new
  <2>1. handlers \in Seq(S \cup {new})
    BY <1>3
  <2>2. QED
    BY <1>1, <1>2, <2>1, AppendProperties
<1>5. /\ users' \in Seq(SUBSET Actors) /\ Len(users') = active + 1
      /\ \A h \in 1 .. active : users'[h] = users[h]
      /\ users'[active + 1] = {}
  <2>1. {} \in SUBSET Actors
    OBVIOUS
  <2>2. QED
    BY <1>1, <1>2, <2>1, AppendProperties
<1>6. HandlerOK(new)
  BY NewHandlerOK DEF new
<1>7. \A h \in 1 .. active + 1 : h \in 1 .. active \/ h = active + 1
  BY <1>1
<1>8. \A h \in 1 .. active + 1 : HandlerOK(handlers'[h])
  BY <1>1, <1>4, <1>6, <1>7
<1>9. HandlersInv'
  BY <1>1, <1>2, <1>4, <1>5, <1>8 DEF HandlersInv
<1>10. QED
  BY <1>2, <1>4, <1>5, <1>9 DEF new

LEMMA NewOther ==
  ASSUME HandlersInv, NEW rules \in RuleLists, NewSession(rules), NEW b \in Actors,
         job'[b] = job[b], ActorInv(b)
  PROVE  ActorInv(b)'
<1> USE DEF ActorInv
<1>1. /\ active' = active + 1 /\ active \in Nat
      /\ handlers'[active'] = NewHandler(rules)
      /\ \A h \in 1 .. active : handlers'[h] = handlers[h] /\ users'[h] = users[h]
  BY NewHandlers DEF HandlersInv
<1>2. job[b].by \subseteq 1 .. active /\ active' \notin 1 .. active
  BY <1>1 DEF JobInv
<1>3. JobInv(b)'
  BY <1>1, <1>2 DEF JobInv
<1>4. FrameInv(b)'
  <2>1. Agrees(handlers'[active'], {})
    BY <1>1, NewHandlerOK
  <2>2. active' \notin job'[b].by
    BY <1>2
  <2>3. QED
    BY <2>1, <2>2 DEF FrameInv
<1>5. VerdictOf(b)'
  BY <1>1, <1>2 DEF VerdictOf
<1>6. QED
  BY <1>3, <1>4, <1>5

LEMMA SameActor ==
  ASSUME NEW b \in Actors, UNCHANGED handlerVars, job'[b] = job[b], ActorInv(b)
  PROVE  ActorInv(b)'
BY DEF ActorInv, JobInv, FrameInv, VerdictOf, handlerVars

\* A frame no handler has seen.
LEMMA FreshFrame ==
  ASSUME NEW b \in Actors, JobType(job'[b]), job'[b].pc \in {"idle", "next", "dbc", "raw"},
         job'[b].mode \in {"raw", "dbc"}, job'[b].by = {}, job'[b].fired = {},
         job'[b].verdict = Nil,
         job'[b].pc = "dbc" => job'[b].mode = "dbc", job'[b].pc = "raw" => job'[b].mode = "raw",
         job'[b].pc # "idle" => active' > 0,
         active' > 0 /\ users'[active'] \subseteq {b} => Agrees(handlers'[active'], {})
  PROVE  ActorInv(b)'
<1>1. JobInv(b)'
  BY DEF JobInv
<1>2. FrameInv(b)'
  BY DEF FrameInv
<1>3. VerdictOf(b)'
  BY DEF VerdictOf
<1>4. QED
  BY <1>1, <1>2, <1>3 DEF ActorInv

LEMMA QuietStep ==
  ASSUME VerdictInv, UNCHANGED <<handlerVars, job>>, mode' \in {"raw", "dbc"},
         running' => running
  PROVE  VerdictInv'
<1>1. HandlersInv' /\ ModeInv'
  BY DEF VerdictInv, HandlersInv, ModeInv, handlerVars
<1>2. \A b \in Actors : ActorInv(b)'
  BY SameActor DEF VerdictInv
<1>3. job' = [a \in Actors |-> job'[a]]
  BY DEF VerdictInv
<1>4. QED
  BY <1>1, <1>2, <1>3 DEF VerdictInv

LEMMA SessionStep ==
  ASSUME VerdictInv, NEW rules \in RuleLists, NewSession(rules), NEW a \in Actors,
         NEW j, job' = [job EXCEPT ![a] = j], JobType(j), j.pc \in {"idle", "next"},
         j.mode \in {"raw", "dbc"}, j.by = {}, j.fired = {}, j.verdict = Nil, mode' = mode
  PROVE  VerdictInv'
<1>1. /\ HandlersInv' /\ active' = active + 1 /\ active \in Nat
      /\ handlers'[active'] = NewHandler(rules)
  BY NewHandlers DEF VerdictInv, HandlersInv
<1>2. job'[a] = j /\ job' = [b \in Actors |-> job'[b]]
      /\ \A b \in Actors \ {a} : job'[b] = job[b]
  BY DEF VerdictInv
<1>3. ModeInv'
  BY <1>1 DEF VerdictInv, ModeInv
<1>4. ActorInv(a)'
  BY <1>1, <1>2, NewHandlerOK, FreshFrame
<1>5. \A b \in Actors \ {a} : ActorInv(b)'
  BY <1>2, NewOther DEF VerdictInv
<1>6. QED
  BY <1>1, <1>2, <1>3, <1>4, <1>5 DEF VerdictInv

LEMMA SendOnceStep ==
  ASSUME VerdictInv, NEW rules \in RuleLists, SendOnce(rules)
  PROVE  VerdictInv'
<1> DEFINE t == IF mode = "raw" THEN <<raw>> ELSE SelectedDefinitions
<1>1. PICK j : j = [Idle EXCEPT !.pc = "next", !.mode = mode, !.todo = t]
  OBVIOUS
<1>2. job' = [job EXCEPT !["ui"] = j] /\ NewSession(rules) /\ mode' = mode
  BY <1>1 DEF SendOnce, modelVars
<1> HIDE DEF t
<1>3. j = [pc |-> "next", mode |-> mode, todo |-> t, version |-> 0,
           message |-> Nil, fired |-> {}, by |-> {}, verdict |-> Nil, latched |-> {}]
  BY <1>1 DEF Idle
<1>4. /\ JobType(j) /\ j.pc = "next" /\ j.mode = mode /\ j.by = {} /\ j.fired = {}
      /\ j.verdict = Nil
  BY <1>3 DEF JobType
<1>5. mode \in {"raw", "dbc"} /\ "ui" \in Actors
  BY DEF VerdictInv, ModeInv, Actors
<1>6. QED
  BY <1>2, <1>4, <1>5, SessionStep

LEMMA StartRepeatedStep ==
  ASSUME VerdictInv, NEW rules \in RuleLists, StartRepeated(rules)
  PROVE  VerdictInv'
<1>1. PICK j : j = [Idle EXCEPT !.mode = mode]
  OBVIOUS
<1>2. job' = [job EXCEPT !["repeated"] = j] /\ NewSession(rules) /\ mode' = mode
  BY <1>1 DEF StartRepeated
<1>3. j = [pc |-> "idle", mode |-> mode, todo |-> <<>>, version |-> 0,
           message |-> Nil, fired |-> {}, by |-> {}, verdict |-> Nil, latched |-> {}]
  BY <1>1 DEF Idle
<1>4. /\ JobType(j) /\ j.pc = "idle" /\ j.mode = mode /\ j.by = {} /\ j.fired = {}
      /\ j.verdict = Nil
  BY <1>3 DEF JobType
<1>5. mode \in {"raw", "dbc"} /\ "repeated" \in Actors
  BY DEF VerdictInv, ModeInv, Actors
<1>6. QED
  BY <1>2, <1>4, <1>5, SessionStep

JobIs(a, j) == job' = [b \in Actors |-> IF b = a THEN j ELSE job[b]]

\* A job that goes on from the end of a frame, or has just taken the next one.
IsUnseen(a, j) ==
    /\ job[a].pc \in {"idle", "next"}
    /\ JobType(j) /\ j.pc \in {"idle", "next", "dbc", "raw"}
    /\ j.mode = job[a].mode /\ j.by = {} /\ j.fired = {} /\ j.verdict = Nil
    /\ j.pc = "dbc" => j.mode = "dbc"
    /\ j.pc = "raw" => j.mode = "raw"
    /\ j.pc # "idle" => active > 0

\* A step of one thread that calls no handler and leaves it between two frames or before one.
LEMMA JobStep ==
  ASSUME VerdictInv, NEW a \in Actors, NEW j, IsUnseen(a, j), JobIs(a, j),
         UNCHANGED <<handlerVars, mode, running>>
  PROVE  VerdictInv'
<1> USE DEF IsUnseen
<1>1. job' = [b \in Actors |-> job'[b]] /\ job'[a] = j
      /\ \A b \in Actors \ {a} : job'[b] = job[b]
  BY DEF JobIs
<1>2. HandlersInv' /\ ModeInv'
  BY DEF VerdictInv, HandlersInv, ModeInv, handlerVars
<1>3. \A b \in Actors \ {a} : ActorInv(b)'
  BY <1>1, SameActor DEF VerdictInv
<1>4. ActorInv(a)'
  <2>1. ActorInv(a)
    BY DEF VerdictInv
  <2>2. j.mode \in {"raw", "dbc"}
    BY <2>1 DEF ActorInv, JobInv
  <2>3. active > 0 /\ users[active] \subseteq {a} => Agrees(handlers[active], {})
    BY <2>1 DEF ActorInv, FrameInv
  <2>4. active' = active /\ users' = users /\ handlers' = handlers
    BY DEF handlerVars
  <2>5. QED
    BY <1>1, <2>2, <2>3, <2>4, FreshFrame
<1>5. QED
  BY <1>1, <1>2, <1>3, <1>4 DEF VerdictInv

LEMMA BeginCycleStep ==
  ASSUME VerdictInv, BeginCycle
  PROVE  VerdictInv'
<1> DEFINE a == "repeated"
<1>1. a \in Actors /\ job = [b \in Actors |-> job[b]] /\ JobInv(a) /\ active > 0
      /\ job[a].pc = "idle"
  BY DEF VerdictInv, ActorInv, ModeInv, BeginCycle, Actors
<1>2. JobType(job[a]) /\ job[a].by = {} /\ job[a].fired = {} /\ job[a].verdict = Nil
  BY <1>1 DEF JobInv
<1> DEFINE t == IF job["repeated"].mode = "raw" THEN <<raw>> ELSE cache
<1>3. job' = [job EXCEPT ![a].pc = "next", ![a].version = version, ![a].todo = t]
  BY DEF BeginCycle
<1> HIDE DEF a, t
<1> DEFINE j == job'[a]
<1>4. JobIs(a, j)
  BY <1>1, <1>3 DEF JobIs
<1>5. IsUnseen(a, j)
  BY <1>1, <1>2, <1>3 DEF IsUnseen, JobType
<1> HIDE DEF j
<1>6. UNCHANGED <<handlerVars, mode, running>>
  BY DEF BeginCycle, modelVars, workerVars
<1>7. QED
  BY <1>1, <1>4, <1>5, <1>6, JobStep

LEMMA EndOfLoopStep ==
  ASSUME VerdictInv, NEW a \in Actors, EndOfLoop(a)
  PROVE  VerdictInv'
<1>1. PICK j : j = [Idle EXCEPT !.mode = job[a].mode]
  OBVIOUS
<1>2. job' = [job EXCEPT ![a] = j] /\ job[a].pc = "next"
  BY <1>1 DEF EndOfLoop
<1>3. j = [pc |-> "idle", mode |-> job[a].mode, todo |-> <<>>, version |-> 0,
           message |-> Nil, fired |-> {}, by |-> {}, verdict |-> Nil, latched |-> {}]
  BY <1>1 DEF Idle
<1>4. /\ JobType(j) /\ j.pc = "idle" /\ j.mode = job[a].mode /\ j.by = {} /\ j.fired = {}
      /\ j.verdict = Nil
  BY <1>3 DEF JobType
<1>5. JobIs(a, j) /\ IsUnseen(a, j)
  BY <1>2, <1>4 DEF VerdictInv, JobIs, IsUnseen
<1>6. UNCHANGED <<handlerVars, mode, running>>
  BY DEF EndOfLoop, modelVars, workerVars
<1>7. QED
  BY <1>5, <1>6, JobStep

LEMMA NextMessageStep ==
  ASSUME VerdictInv, NEW a \in Actors, NextMessage(a)
  PROVE  VerdictInv'
<1>1. /\ job = [b \in Actors |-> job[b]] /\ JobInv(a) /\ job[a].pc = "next"
      /\ JobType(job[a]) /\ active > 0
  BY DEF VerdictInv, ActorInv, JobInv, NextMessage
<1> DEFINE Takes(message, pc) == /\ Starts(a, message, pc)
                                 /\ pc = job[a].mode /\ pc \in {"raw", "dbc"}
<1>2. PICK message, pc : Takes(message, pc)
  <2> DEFINE m == Head(job[a].todo)
  <2>1. \/ job[a].mode = "raw" /\ Starts(a, m, "raw")
        \/ job[a].mode = "dbc" /\ \E v \in [SelectedSignals(m) -> InRange] :
               Starts(a, [id |-> m.id, values |-> v], "dbc")
        \/ job[a].mode = "dbc" /\ \E v \in [DOMAIN m.values -> AllValues \cup InRange] :
               Starts(a, [id |-> m.id, values |-> v], "dbc")
    BY Zenon DEF NextMessage
  <2>2. \A x : job[a].mode = "raw" /\ Starts(a, x, "raw") => Takes(x, "raw")
    OBVIOUS
  <2>3. \A x : job[a].mode = "dbc" /\ Starts(a, x, "dbc") => Takes(x, "dbc")
    OBVIOUS
  <2> HIDE DEF m, Takes
  <2>4. QED
    BY <2>1, <2>2, <2>3, Zenon
<1> DEFINE j == job'[a]
<1>3. JobIs(a, j)
  BY <1>1, <1>2 DEF Starts, JobIs
<1>4. IsUnseen(a, j)
  <2>1. j = [job[a] EXCEPT !.pc = pc, !.message = message, !.todo = Tail(@),
                           !.fired = {}, !.by = {}, !.verdict = Nil, !.latched = {}]
    BY <1>1, <1>2 DEF Starts
  <2> HIDE DEF j
  <2>2. /\ j = [pc |-> pc, mode |-> job[a].mode, todo |-> Tail(job[a].todo),
                version |-> job[a].version, message |-> message, fired |-> {}, by |-> {},
                verdict |-> Nil, latched |-> {}]
    BY <1>1, <2>1 DEF JobType
  <2>3. JobType(j) /\ j.pc = pc /\ j.mode = job[a].mode /\ j.by = {} /\ j.fired = {}
        /\ j.verdict = Nil
    BY <2>2 DEF JobType
  <2> QED  BY <1>1, <1>2, <2>3 DEF IsUnseen
<1>5. UNCHANGED <<handlerVars, mode, running>>
  BY DEF NextMessage, modelVars, workerVars
<1>6. QED
  BY <1>3, <1>4, <1>5, JobStep

LEMMA AllLatchedFired ==
  ASSUME NEW h, HandlerOK(h), NEW stage \in Stages, NEW fired, NEW o,
         Applied(stage, Len(h.rules[stage]), h, fired, o)
  PROVE  LatchedFired(o[1], stage, o[3])
<1>1. h.rules[stage] \in Seq(ToSet(h.rules[stage]))
  BY RulesAssumption DEF HandlerOK
<1>2. \A i \in DOMAIN h.rules[stage] : i <= Len(h.rules[stage])
  BY <1>1, LenProperties
<1>3. QED
  BY <1>2 DEF Applied, LatchedFired

\* A step of one thread that calls the handler.
LEMMA CallStep ==
  ASSUME VerdictInv, NEW a \in Actors, NEW new, HandlerOK(new),
         new.rules = handlers[active].rules, Calls(a, new), NEW j, JobIs(a, j),
         ActorInv(a)', UNCHANGED <<mode, running>>
  PROVE  VerdictInv'
<1>1. job' = [b \in Actors |-> job'[b]] /\ \A b \in Actors \ {a} : job'[b] = job[b]
  BY DEF JobIs
<1>2. HandlersInv' /\ HandlersInv
  BY CallHandlers DEF VerdictInv
<1>3. ModeInv'
  BY DEF VerdictInv, ModeInv, Calls
<1>4. \A b \in Actors \ {a} : ActorInv(b)'
  BY <1>1, <1>2, CallOther DEF VerdictInv
<1>5. QED
  BY <1>1, <1>2, <1>3, <1>4 DEF VerdictInv

LEMMA InjectDbcStep ==
  ASSUME VerdictInv, NEW a \in Actors, InjectDbc(a)
  PROVE  VerdictInv'
<1>1. /\ HandlersInv /\ job = [b \in Actors |-> job[b]] /\ job[a].pc = "dbc"
      /\ JobInv(a) /\ FrameInv(a)
  BY DEF VerdictInv, ActorInv, InjectDbc
<1>2. /\ JobType(job[a]) /\ job[a].mode = "dbc" /\ job[a].by = {} /\ job[a].fired = {}
      /\ job[a].verdict = Nil /\ active > 0 /\ active \in 1 .. active
  BY <1>1 DEF JobInv, HandlersInv
<1>3. PICK h : h = handlers[active]
  OBVIOUS
<1>4. HandlerOK(h)
  BY <1>1, <1>2, <1>3 DEF HandlersInv
<1>5. PICK o \in Inject("dbc", h, job[a].message, {}) :
         /\ handlers' = [handlers EXCEPT ![active] = o[1]]
         /\ job' = [job EXCEPT ![a].pc = "raw", ![a].message = Encode(o[2]),
                               ![a].fired = o[3], ![a].by = {active}]
  BY <1>3 DEF InjectDbc
<1>6. Applied("dbc", Len(h.rules["dbc"]), h, {}, o) /\ LatchedFired(o[1], "dbc", o[3])
  BY <1>4, <1>5, InjectApplies, AllLatchedFired DEF Stages
<1>7. Calls(a, o[1]) /\ HandlerOK(o[1]) /\ o[1].rules = h.rules
  BY <1>2, <1>5, <1>6 DEF InjectDbc, Calls, Applied
<1>8. handlers'[active] = o[1] /\ users'[active] = users[active] \cup {a} /\ active' = active
  BY <1>1, <1>3, <1>7, CallHandlers DEF Calls
<1> DEFINE j == job'[a]
<1>9. JobIs(a, j)
  BY <1>1, <1>5 DEF JobIs
<1>10. /\ JobType(j) /\ j.pc = "raw" /\ j.mode = "dbc" /\ j.by = {active} /\ j.fired = o[3]
       /\ j.verdict = Nil
  BY <1>1, <1>2, <1>5 DEF JobType
<1> HIDE DEF j
<1>11. j = job'[a]
  BY DEF j
<1>12. JobInv(a)'
  BY <1>2, <1>8, <1>10, <1>11 DEF JobInv
<1>13. FrameInv(a)'
  <2>1. ASSUME users[active] \subseteq {a}
        PROVE  Agrees(o[1], o[3]) /\ FiredOK(o[1], o[3])
    <3>1. Agrees(h, {})
      BY <1>1, <1>2, <1>3, <2>1 DEF FrameInv
    <3>2. FiredOK(h, {})
      BY FS_EmptySet DEF FiredOK
    <3>3. QED
      BY <1>6, <3>1, <3>2 DEF Applied
  <2>2. \A f \in o[3] : f[1] = "dbc"
    BY <1>6 DEF Applied
  <2>3. QED
    BY <1>6, <1>8, <1>10, <1>11, <2>1, <2>2 DEF FrameInv
<1>14. VerdictOf(a)'
  BY <1>10, <1>11 DEF VerdictOf
<1>15. ActorInv(a)'
  BY <1>12, <1>13, <1>14 DEF ActorInv
<1>16. UNCHANGED <<mode, running>>
  BY DEF InjectDbc, modelVars, workerVars
<1>17. QED
  BY <1>3, <1>7, <1>9, <1>15, <1>16, CallStep

LEMMA InjectRawStep ==
  ASSUME VerdictInv, NEW a \in Actors, InjectRaw(a)
  PROVE  VerdictInv'
<1>1. /\ HandlersInv /\ job = [b \in Actors |-> job[b]] /\ job[a].pc = "raw"
      /\ JobInv(a) /\ FrameInv(a)
  BY DEF VerdictInv, ActorInv, InjectRaw
<1>2. /\ JobType(job[a]) /\ job[a].mode \in {"raw", "dbc"}
      /\ IF job[a].mode = "raw" THEN job[a].by = {} /\ job[a].fired = {} ELSE job[a].by # {}
      /\ job[a].by \subseteq 1 .. active /\ \A k \in job[a].by : a \in users[k]
      /\ job[a].verdict = Nil /\ active > 0 /\ active \in 1 .. active
  BY <1>1 DEF JobInv, HandlersInv
<1>3. PICK h : h = handlers[active]
  OBVIOUS
<1>4. HandlerOK(h)
  BY <1>1, <1>2, <1>3 DEF HandlersInv
<1>5. PICK o \in Inject("raw", h, job[a].message, job[a].fired) :
         /\ handlers' = [handlers EXCEPT ![active] = o[1]]
         /\ job' = [job EXCEPT ![a].pc = "evaluate", ![a].message = o[2], ![a].fired = o[3],
                               ![a].by = @ \cup {active}]
  BY <1>3 DEF InjectRaw
<1>6. /\ Applied("raw", Len(h.rules["raw"]), h, job[a].fired, o)
      /\ LatchedFired(o[1], "raw", o[3])
  BY <1>4, <1>5, InjectApplies, AllLatchedFired DEF Stages
<1>7. Calls(a, o[1]) /\ HandlerOK(o[1]) /\ o[1].rules = h.rules
  BY <1>2, <1>5, <1>6 DEF InjectRaw, Calls, Applied
<1>8. /\ handlers'[active] = o[1] /\ users'[active] = users[active] \cup {a} /\ active' = active
      /\ \A k \in 1 .. active : users[k] \subseteq users'[k]
  BY <1>1, <1>3, <1>7, CallHandlers DEF Calls
<1> DEFINE j == job'[a]
<1>9. JobIs(a, j)
  BY <1>1, <1>5 DEF JobIs
<1>10. /\ JobType(j) /\ j.pc = "evaluate" /\ j.mode = job[a].mode
       /\ j.by = job[a].by \cup {active} /\ j.fired = o[3] /\ j.verdict = Nil
  BY <1>1, <1>2, <1>5 DEF JobType
<1> HIDE DEF j
<1>11. j = job'[a]
  BY DEF j
<1>12. JobInv(a)'
  BY <1>2, <1>8, <1>10, <1>11 DEF JobInv
<1>13. FrameInv(a)'
  <2> DEFINE fired == job[a].fired
  <2>1. SUFFICES ASSUME users[active] \subseteq {a}, j.by = {active}
                 PROVE  /\ Agrees(o[1], o[3]) /\ FiredOK(o[1], o[3])
                        /\ j.mode = "dbc" => LatchedFired(o[1], "dbc", o[3])
    BY <1>6, <1>8, <1>10, <1>11 DEF FrameInv
  <2>2. /\ Agrees(h, fired) /\ FiredOK(h, fired)
        /\ fired \cap ({"raw"} \X DOMAIN h.rules["raw"]) = {}
    <3>1. CASE job[a].mode = "raw"
      <4>1. Agrees(h, {})
        BY <1>1, <1>2, <1>3, <2>1, <3>1 DEF FrameInv
      <4>2. QED
        BY <1>2, <3>1, <4>1, FS_EmptySet DEF FiredOK
    <3>2. CASE job[a].mode = "dbc"
      <4>1. job[a].by = {active}
        BY <1>2, <1>10, <2>1, <3>2
      <4>2. Agrees(h, fired) /\ FiredOK(h, fired) /\ \A f \in fired : f[1] = "dbc"
        BY <1>1, <1>2, <1>3, <2>1, <4>1 DEF FrameInv
      <4>3. \A f \in {"raw"} \X DOMAIN h.rules["raw"] : f[1] = "raw"
        OBVIOUS
      <4>4. QED
        BY <4>2, <4>3
    <3>3. QED
      BY <1>2, <3>1, <3>2
  <2>3. Agrees(o[1], o[3]) /\ FiredOK(o[1], o[3])
    BY <1>6, <2>2, Zenon DEF Applied
  <2>4. ASSUME job[a].mode = "dbc"
        PROVE  LatchedFired(o[1], "dbc", o[3])
    <3>1. job[a].by = {active}
      BY <1>2, <1>10, <2>1, <2>4
    <3>2. LatchedFired(h, "dbc", fired)
      BY <1>1, <1>2, <1>3, <2>1, <2>4, <3>1 DEF FrameInv
    <3>3. o[1].rules = h.rules /\ o[1].latched["dbc"] = h.latched["dbc"] /\ fired \subseteq o[3]
      BY <1>6 DEF Applied, Stages
    <3>4. QED
      BY <3>2, <3>3 DEF LatchedFired
  <2>5. QED
    BY <1>10, <2>3, <2>4
<1>14. VerdictOf(a)'
  BY <1>10, <1>11 DEF VerdictOf
<1>15. ActorInv(a)'
  BY <1>12, <1>13, <1>14 DEF ActorInv
<1>16. UNCHANGED <<mode, running>>
  BY DEF InjectRaw, modelVars, workerVars
<1>17. QED
  BY <1>3, <1>7, <1>9, <1>15, <1>16, CallStep

\* What a handler that agrees with the rules that fired says is what the documentation says.
LEMMA AgreesIsExpected ==
  ASSUME NEW h, HandlerOK(h), NEW fired, Agrees(h, fired), FiredOK(h, fired)
  PROVE  /\ h.drop = ExpectedVerdict(h.rules, fired).drop
         /\ h.delay = ExpectedVerdict(h.rules, fired).delay
         /\ Len(h.insertions) = ExpectedVerdict(h.rules, fired).insertions
<1> DEFINE drops == OfKind(h.rules, fired, "drop") # {}
           delays == DelaysOf(h.rules, fired)
           inserts == Cardinality(OfKind(h.rules, fired, "insert"))
           longest == IF drops THEN 0 ELSE Max(delays)
<1>1. ExpectedVerdict(h.rules, fired) =
        [drop |-> drops, delay |-> longest, insertions |-> inserts]
  BY DEF ExpectedVerdict, OfKind, DelaysOf, RuleOf
<1>2. /\ h.drop <=> drops
      /\ h.drop => h.delay = 0
      /\ ~h.drop => h.delay \in delays /\ \A d \in delays : d <= h.delay
      /\ Len(h.insertions) = inserts
  BY DEF Agrees
<1>3. h.drop \in BOOLEAN /\ h.delay \in Nat /\ delays \subseteq Nat
  BY DelaysAreNat DEF HandlerOK, FiredOK
<1> HIDE DEF drops, delays, inserts
<1>4. h.delay = longest
  <2>1. CASE drops
    BY <1>2, <2>1
  <2>2. CASE ~drops
    <3>1. h.delay \in delays /\ \A d \in delays : h.delay >= d
      BY <1>2, <1>3, <2>2
    <3>2. \E x \in delays : \A y \in delays : x >= y
      BY <3>1
    <3>3. Max(delays) \in delays /\ \A y \in delays : Max(delays) >= y
      BY <3>2 DEF Max
    <3>4. Max(delays) = h.delay
      <4>1. h.delay \in Nat /\ Max(delays) \in Nat
        BY <1>3, <3>3
      <4>2. Max(delays) >= h.delay /\ h.delay >= Max(delays)
        BY <3>1, <3>3
      <4>3. QED
        BY <4>1, <4>2
    <3>5. QED
      BY <2>2, <3>4
  <2>3. QED
    BY <2>1, <2>2
<1>5. h.drop = drops
  <2>1. h.drop \in BOOLEAN /\ drops \in BOOLEAN
    BY <1>3, Zenon DEF drops
  <2>2. h.drop <=> drops
    BY <1>2
  <2>3. QED
    BY <2>1, <2>2, Zenon
<1> HIDE DEF longest
<1>6. QED
  BY <1>1, <1>2, <1>4, <1>5

LEMMA EvaluateStep ==
  ASSUME VerdictInv, NEW a \in Actors, Evaluate(a)
  PROVE  VerdictInv'
<1>1. /\ HandlersInv /\ job = [b \in Actors |-> job[b]] /\ job[a].pc = "evaluate"
      /\ JobInv(a) /\ FrameInv(a)
  BY DEF VerdictInv, ActorInv, Evaluate
<1>2. /\ JobType(job[a]) /\ job[a].mode \in {"raw", "dbc"} /\ job[a].by # {}
      /\ job[a].by \subseteq 1 .. active /\ \A k \in job[a].by : a \in users[k]
      /\ active > 0 /\ active \in 1 .. active
  BY <1>1 DEF JobInv, HandlersInv
<1>3. PICK h : h = handlers[active]
  OBVIOUS
<1>4. HandlerOK(h)
  BY <1>1, <1>2, <1>3 DEF HandlersInv
<1> DEFINE stages == IF job[a].mode = "raw" THEN {"raw"} ELSE Stages
           ls == {r \in UNION {{g} \X DOMAIN h.latched[g] : g \in stages} :
                     h.latched[r[1]][r[2]]}
<1>5. /\ job' = [job EXCEPT ![a].pc = "next", ![a].verdict = Verdict(h),
                           ![a].by = @ \cup {active}, ![a].latched = ls]
      /\ handlers' = [handlers EXCEPT ![active] = Evaluated(h)]
  BY <1>3 DEF Evaluate
<1>6. HandlerOK(Evaluated(h)) /\ Evaluated(h).rules = h.rules /\ Agrees(Evaluated(h), {})
  BY <1>4, EvaluatedOK
<1>7. Calls(a, Evaluated(h))
  BY <1>2, <1>5 DEF Evaluate, Calls
<1>8. /\ handlers'[active] = Evaluated(h) /\ users'[active] = users[active] \cup {a}
      /\ active' = active
      /\ \A k \in 1 .. active : users[k] \subseteq users'[k]
  BY <1>1, <1>3, <1>6, <1>7, CallHandlers DEF Calls
<1> HIDE DEF ls
<1> DEFINE j == job'[a]
<1>9. JobIs(a, j)
  BY <1>1, <1>5 DEF JobIs
<1>10. /\ JobType(j) /\ j.pc = "next" /\ j.mode = job[a].mode
       /\ j.by = job[a].by \cup {active} /\ j.fired = job[a].fired /\ j.verdict = Verdict(h)
       /\ j.latched = ls
  BY <1>1, <1>2, <1>5 DEF JobType
<1> HIDE DEF j
<1>11. j = job'[a]
  BY DEF j
<1>12. JobInv(a)'
  BY <1>2, <1>8, <1>10, <1>11 DEF JobInv
<1>13. FrameInv(a)'
  BY <1>6, <1>8, <1>10, <1>11 DEF FrameInv
<1>14. VerdictOf(a)'
  <2> DEFINE fired == job[a].fired
             expected == ExpectedVerdict(h.rules, fired)
  <2>1. ASSUME NEW k \in j.by, j.by = {k}, users'[k] = {a}
        PROVE  /\ handlers'[k].rules = h.rules
               /\ h.drop = expected.drop /\ h.delay = expected.delay
               /\ Len(h.insertions) = expected.insertions
               /\ ls \subseteq fired
    <3>1. k = active /\ job[a].by = {active} /\ users[active] \subseteq {a}
      BY <1>2, <1>8, <1>10, <2>1
    <3>2. /\ Agrees(h, fired) /\ FiredOK(h, fired)
          /\ job[a].mode = "dbc" => LatchedFired(h, "dbc", fired)
          /\ LatchedFired(h, "raw", fired)
      BY <1>1, <1>2, <1>3, <3>1 DEF FrameInv
    <3>3. \A g \in stages : LatchedFired(h, g, fired) /\ DOMAIN h.latched[g] = DOMAIN h.rules[g]
      <4>1. \A g \in Stages : DOMAIN h.latched[g] = DOMAIN h.rules[g]
        BY <1>4 DEF HandlerOK
      <4>2. QED
        BY <1>2, <3>2, <4>1 DEF Stages
    <3>4. ls \subseteq fired
      <4>1. SUFFICES ASSUME NEW r \in ls PROVE r \in fired
        OBVIOUS
      <4>2. PICK g \in stages : r \in {g} \X DOMAIN h.latched[g]
        BY <4>1 DEF ls
      <4>3. r = <<g, r[2]>> /\ r[2] \in DOMAIN h.rules[g] /\ h.latched[g][r[2]]
        BY <3>3, <4>1, <4>2 DEF ls
      <4>4. QED
        BY <3>3, <4>2, <4>3 DEF LatchedFired
    <3>5. QED
      BY <1>4, <1>6, <1>8, <3>1, <3>2, <3>4, AgreesIsExpected
  <2>2. /\ Verdict(h).drop = h.drop /\ Verdict(h).delay = h.delay
        /\ Verdict(h).insertions = h.insertions
    BY DEF Verdict
  <2> HIDE DEF expected
  <2>3. ASSUME NEW k \in j.by, j.by = {k}, users'[k] = {a}
        PROVE  LET e == ExpectedVerdict(handlers'[k].rules, j.fired)
                   v == j.verdict
               IN /\ v.drop = e.drop
                  /\ v.delay = e.delay
                  /\ Len(v.insertions) = e.insertions
                  /\ j.latched \subseteq j.fired
    BY <1>10, <2>1, <2>2, <2>3 DEF expected
  <2>4. QED
    BY <1>11, <2>3, Zenon DEF VerdictOf
<1>15. ActorInv(a)'
  BY <1>12, <1>13, <1>14 DEF ActorInv
<1>16. UNCHANGED <<mode, running>>
  BY DEF Evaluate, modelVars, workerVars
<1>17. QED
  BY <1>3, <1>6, <1>7, <1>9, <1>15, <1>16, CallStep

LEMMA VerdictInit == Init => VerdictInv
<1> SUFFICES ASSUME Init PROVE VerdictInv
  OBVIOUS
<1>1. handlers = <<>> /\ users = <<>> /\ active = 0 /\ mode = "raw" /\ ~running
      /\ job = [a \in Actors |-> Idle]
  BY DEF Init
<1>2. HandlersInv
  <2>1. <<>> \in Seq({}) /\ <<>> \in Seq(SUBSET Actors) /\ Len(<<>>) = 0
    OBVIOUS
  <2>2. QED
    BY <1>1, <2>1 DEF HandlersInv
<1>3. ModeInv
  BY <1>1 DEF ModeInv
<1>4. ASSUME NEW a \in Actors
      PROVE  ActorInv(a)
  <2>1. job[a] = Idle
    BY <1>1
  <2>2. /\ JobType(Idle) /\ Idle.pc = "idle" /\ Idle.mode = "raw" /\ Idle.by = {}
        /\ Idle.fired = {} /\ Idle.verdict = Nil
    BY DEF Idle, JobType
  <2>3. JobInv(a)
    BY <1>1, <2>1, <2>2 DEF JobInv
  <2>4. FrameInv(a)
    BY <1>1 DEF FrameInv
  <2>5. VerdictOf(a)
    BY <2>1, <2>2 DEF VerdictOf
  <2>6. QED
    BY <2>3, <2>4, <2>5 DEF ActorInv
<1>5. QED
  BY <1>1, <1>2, <1>3, <1>4 DEF VerdictInv

LEMMA VerdictStep == VerdictInv /\ [Next]_vars => VerdictInv'
<1> SUFFICES ASSUME VerdictInv, [Next]_vars PROVE VerdictInv'
  OBVIOUS
<1>1. mode \in {"raw", "dbc"}
  BY DEF VerdictInv, ModeInv
<1>2. ASSUME NEW m \in {"raw", "dbc"}, NEW frame, SetMode(m) \/ SetRaw(frame)
      PROVE  VerdictInv'
  BY <1>1, <1>2, QuietStep DEF SetMode, SetRaw, workerVars
<1>3. ASSUME NEW keys, NEW on, Select(keys, on)
      PROVE  VerdictInv'
  BY <1>1, <1>3, QuietStep DEF Select, workerVars
<1>4. CASE StopRepeated \/ Stopped
  <2>1. running' => running
    BY <1>4 DEF StopRepeated, Stopped, workerVars
  <2>2. UNCHANGED <<handlerVars, job, mode>>
    BY <1>4 DEF StopRepeated, Stopped, modelVars
  <2>3. QED
    BY <1>1, <2>1, <2>2, QuietStep
<1>5. ASSUME NEW e, PostEvent(e) \/ UpdateDbcConfig(e)
      PROVE  VerdictInv'
  BY <1>1, <1>5, QuietStep DEF PostEvent, UpdateDbcConfig, modelVars, workerVars
<1>6. CASE PopulateFromModel \/ RebuildCache \/ OnDbcParseError \/ DeleteRows
  BY <1>1, <1>6, QuietStep DEF PopulateFromModel, RebuildCache, OnDbcParseError, DeleteRows,
     modelVars, workerVars
<1>7. CASE ReadTornCache
  BY <1>1, <1>7, QuietStep DEF ReadTornCache, modelVars, workerVars
<1>8. CASE UNCHANGED vars
  BY <1>1, <1>8, QuietStep DEF vars, handlerVars
<1>9. CASE UserStep
  BY <1>2, <1>3, <1>4, <1>9, SendOnceStep, StartRepeatedStep DEF UserStep
<1>10. CASE ThreadStep
  BY <1>7, <1>10, BeginCycleStep, EndOfLoopStep, NextMessageStep, InjectDbcStep, InjectRawStep,
     EvaluateStep DEF ThreadStep
<1>11. CASE DbcStep
  BY <1>5, <1>6, <1>11 DEF DbcStep
<1>12. QED
  BY <1>4, <1>8, <1>9, <1>10, <1>11 DEF Next

\* The verdict on a frame whose handler no other thread used is the one the documentation says
\* its rules give, whatever the rules, the messages, the sessions and the DBCs are.
THEOREM VerdictFollowsRules == Spec => []VerdictIsOfFrame
<1>1. VerdictInv => VerdictIsOfFrame
  <2>1. (\A a \in Actors : VerdictOf(a)) => VerdictIsOfFrame
    BY Zenon DEF VerdictOf, VerdictIsOfFrame
  <2>2. QED
    BY <2>1 DEF VerdictInv, ActorInv
<1>2. QED
  BY VerdictInit, VerdictStep, <1>1, PTL DEF Spec
=============================================================================
