---------------------------- MODULE MathInputProofs ----------------------------
(***************************************************************************)
(* Proofs about the registry and its clients, for any editors, symbols and *)
(* keys: no reference an editor holds leads to a destroyed variable, and   *)
(* every live signal variable has the value received last.                 *)
(*                                                                         *)
(* Both rest on counting.  The reference count of an entry is the number   *)
(* of bound symbols that lead to it and are not given up yet, plus the     *)
(* number of new bindings that have acquired it (Counted): so the release  *)
(* that brings it to zero is that of its only holder.  Values reach the    *)
(* right variable because the map frames are delivered through is the one  *)
(* a rebuild would make (MapCurrent) and two keys never share a variable   *)
(* (Distinct).                                                             *)
(*                                                                         *)
(* The editors use the registry only through its own steps, whatever they  *)
(* do to their trees, functions and files: so what is proved of            *)
(* RegistrySpec holds with the editors around it.  What has to be known    *)
(* of them is that a state file names keys of the registry (SavedOK), and  *)
(* for what a load restores, that their trees are made of tokens with      *)
(* letters that can be bound (TreesOK).                                    *)
(***************************************************************************)
EXTENDS MathInput, FiniteSetTheorems, TLAPS

-----------------------------------------------------------------------------
(***************************************************************************)
(* The registry and its clients.                                           *)
(***************************************************************************)

Refs(k) == {r \in Editors \X Symbols : Held(r[1], r[2]) /\ bindings[r[1]][r[2]].key = k}
Got(k) == {s \in Symbols : ui.got[s] # Unbound /\ ui.got[s].key = k}

\* An entry is absent or has a variable that was made and somebody who holds it.
EntryOK ==
    \A k \in Keys : Live(k) => entries[k].variable \in 1..made /\ entries[k].refCount > 0

Counted ==
    \A k \in Keys : entries[k].refCount = Cardinality(Refs(k)) + Cardinality(Got(k))

Distinct ==
    \A k, l \in Keys : Live(k) /\ Live(l) /\ entries[k].variable = entries[l].variable => k = l

MapCurrent == signalMap = SignalMapOf(entries)

\* A live signal variable has the value received last, or zero.
ValueCurrent ==
    \A k \in CanKeys : Live(k) => value[entries[k].variable] = received[k]

UiOK ==
    /\ ui.pc = "idle" => ui.got = NoBindings
    /\ ui.pc = "release" => ui.left \subseteq Bound(bindings[ui.editor])

Inv ==
    /\ RegistryTypeOK
    /\ EntryOK
    /\ Distinct
    /\ MapCurrent
    /\ ValueCurrent
    /\ Counted
    /\ BoundIsLive
    /\ UiOK

\* What acquire() and release() leave of the entries and the map is well formed.
EntriesOK ==
    /\ entries \in [Keys -> [variable : 0..MaxObjects, refCount : Nat]]
    /\ signalMap \subseteq CanKeys \X Objects
    /\ made \in 0..MaxObjects
    /\ value \in [Objects -> Values]
    /\ received \in [CanKeys -> Values]
    /\ EntryOK
    /\ Distinct
    /\ MapCurrent
    /\ ValueCurrent

\* The two sets of holders are finite.
LEMMA HoldersFinite ==
  \A k : IsFiniteSet(Refs(k)) /\ IsFiniteSet(Got(k))
<1> TAKE k
<1>1. IsFiniteSet(Editors \X Symbols)
  BY FS_Product, RegistryAssumption DEF RegistryAssumption
<1>2. IsFiniteSet(Refs(k))
  BY <1>1, FS_Subset DEF Refs
<1>3. IsFiniteSet(Got(k))
  BY FS_Subset, RegistryAssumption DEF Got, RegistryAssumption
<1>4. QED
  BY <1>2, <1>3

\* A map of live entries has pointers to variables that were made.
LEMMA MapType ==
  ASSUME entries \in [Keys -> [variable : 0..MaxObjects, refCount : Nat]],
         made \in 0..MaxObjects, EntryOK
  PROVE  SignalMapOf(entries) \subseteq CanKeys \X Objects
BY RegistryAssumption DEF SignalMapOf, Objects, EntryOK, Live, RegistryAssumption

LEMMA InitInv == Init => Inv
<1> SUFFICES ASSUME Init PROVE Inv
  OBVIOUS
<1> USE DEF Init
<1>1. RegistryTypeOK
  <2>1. ui \in [pc : {"idle", "acquire", "release"}, editor : Editors, want : Wants,
                got : [Symbols -> Binding \cup {Unbound}], left : SUBSET Symbols]
    BY RegistryAssumption DEF UiIdle, Wants, NoBindings, RegistryAssumption
  <2>2. QED
    BY <2>1, RegistryAssumption
      DEF RegistryTypeOK, Absent, NoBindings, Objects, RegistryAssumption
<1>2. EntryOK /\ Distinct /\ ValueCurrent
  BY RegistryAssumption DEF EntryOK, Distinct, ValueCurrent, Live, RegistryAssumption
<1>3. MapCurrent
  BY RegistryAssumption DEF MapCurrent, SignalMapOf, RegistryAssumption
<1>4. Counted
  <2> SUFFICES ASSUME NEW k \in Keys
               PROVE  entries[k].refCount = Cardinality(Refs(k)) + Cardinality(Got(k))
    BY DEF Counted
  <2>1. Refs(k) = {} /\ Got(k) = {}
    BY DEF Refs, Got, Held, NoBindings, UiIdle
  <2>2. QED
    BY <2>1, FS_EmptySet DEF Absent
<1>5. BoundIsLive /\ UiOK
  BY DEF BoundIsLive, UiOK, Held, NoBindings, UiIdle
<1>6. QED
  BY <1>1, <1>2, <1>3, <1>4, <1>5 DEF Inv

-----------------------------------------------------------------------------
\* acquire() adds one to the count of the key's entry, which keeps its variable if it had one.
LEMMA AcquirePost ==
  ASSUME EntriesOK, NEW k \in Keys, Acquire(k)
  PROVE  /\ EntriesOK'
         /\ entries'[k].refCount = entries[k].refCount + 1
         /\ entries'[k] # Absent
         /\ Live(k) => entries'[k].variable = entries[k].variable
         /\ entries'[k].variable \in Objects
         /\ \A l \in Keys \ {k} : entries'[l] = entries[l]
<1> USE RegistryAssumption DEF EntriesOK, RegistryAssumption
<1>1. CASE Live(k) /\ entries' = [entries EXCEPT ![k].refCount = @ + 1]
           /\ UNCHANGED <<signalMap, made, value, received>>
  <2>1. \A l \in Keys : /\ entries'[l].variable = entries[l].variable
                        /\ entries'[l] = Absent <=> entries[l] = Absent
    BY <1>1 DEF Live, Absent, EntryOK
  <2>2. EntryOK'
    BY <1>1, <2>1 DEF EntryOK, Live
  <2>3. Distinct'
    BY <1>1, <2>1 DEF Distinct, Live
  <2>4. SignalMapOf(entries') = SignalMapOf(entries)
    BY <2>1 DEF SignalMapOf
  <2>5. MapCurrent'
    BY <1>1, <2>4 DEF MapCurrent
  <2>6. entries' \in [Keys -> [variable : 0..MaxObjects, refCount : Nat]]
    BY <1>1
  <2>11. ValueCurrent'
    BY <1>1, <2>1 DEF ValueCurrent, Live
  <2>7. EntriesOK'
    BY <1>1, <2>2, <2>3, <2>5, <2>6, <2>11
  <2>8. entries'[k].refCount = entries[k].refCount + 1 /\ \A l \in Keys \ {k} : entries'[l] = entries[l]
    BY <1>1
  <2>9. entries'[k].variable \in Objects
    BY <1>1, <2>1 DEF EntryOK, Objects
  <2>10. QED
    BY <1>1, <2>1, <2>7, <2>8, <2>9 DEF Live
<1>2. CASE /\ ~Live(k) /\ made < MaxObjects /\ made' = made + 1
           /\ value' = [value EXCEPT ![made + 1] = Zero]
           /\ entries' = [entries EXCEPT ![k] = [variable |-> made + 1, refCount |-> 1]]
           /\ signalMap' = SignalMapOf(entries')
           /\ received' = [c \in CanKeys |-> IF c = k THEN Zero ELSE received[c]]
  <2>1. /\ entries'[k] = [variable |-> made + 1, refCount |-> 1]
        /\ \A l \in Keys \ {k} : entries'[l] = entries[l]
        /\ entries[k].refCount = 0
    BY <1>2 DEF Live, Absent
  <2>2. entries' \in [Keys -> [variable : 0..MaxObjects, refCount : Nat]] /\ made' \in 0..MaxObjects
    BY <1>2
  <2>3. EntryOK'
    BY <1>2, <2>1 DEF EntryOK, Live, Absent
  <2>4. Distinct'
    <3> SUFFICES ASSUME NEW l \in Keys, NEW j \in Keys, Live(l)', Live(j)',
                        entries'[l].variable = entries'[j].variable
                 PROVE  l = j
      BY DEF Distinct
    <3>1. CASE l = k \/ j = k
      BY <1>2, <2>1, <3>1 DEF EntryOK, Live
    <3>2. CASE l # k /\ j # k
      BY <2>1, <3>2 DEF Distinct, Live
    <3>3. QED
      BY <3>1, <3>2
  <2>5. signalMap' \subseteq CanKeys \X Objects
    <3>1. \A c \in Keys : entries'[c] # Absent => entries'[c].variable \in Objects
      BY <1>2, <2>2, <2>3 DEF EntryOK, Live, Objects
    <3>2. QED
      BY <1>2, <3>1 DEF SignalMapOf
  <2>6. value' \in [Objects -> Values] /\ received' \in [CanKeys -> Values]
    BY <1>2
  <2>7. MapCurrent'
    BY <1>2 DEF MapCurrent
  <2>11. ValueCurrent'
    <3> SUFFICES ASSUME NEW c \in CanKeys, Live(c)'
                 PROVE  value'[entries'[c].variable] = received'[c]
      BY DEF ValueCurrent
    <3>1. CASE c = k
      BY <1>2, <2>1, <3>1 DEF Objects
    <3>2. CASE c # k
      <4>1. entries'[c] = entries[c] /\ Live(c) /\ entries[c].variable \in 1..made
        BY <2>1, <3>2 DEF Live, EntryOK
      <4>2. value'[entries[c].variable] = value[entries[c].variable] /\ received'[c] = received[c]
        BY <1>2, <3>2, <4>1 DEF Objects
      <4>3. QED
        BY <4>1, <4>2 DEF ValueCurrent
    <3>3. QED
      BY <3>1, <3>2
  <2>8. EntriesOK'
    BY <2>2, <2>3, <2>4, <2>5, <2>6, <2>7, <2>11
  <2>9. /\ entries'[k].refCount = entries[k].refCount + 1
        /\ entries'[k] # Absent
        /\ entries'[k].variable \in Objects
    BY <1>2, <2>1 DEF Objects, Absent
  <2>10. QED
    BY <1>2, <2>1, <2>8, <2>9
<1>3. QED
  BY <1>1, <1>2 DEF Acquire

\* release() takes one from the count of a live entry and removes the entry at zero.
LEMMA ReleasePost ==
  ASSUME EntriesOK, NEW k \in Keys, Live(k), Release(k), made' = made
  PROVE  /\ EntriesOK'
         /\ entries'[k].refCount = entries[k].refCount - 1
         /\ entries[k].refCount > 1 => /\ entries'[k] # Absent
                                       /\ entries'[k].variable = entries[k].variable
         /\ \A l \in Keys \ {k} : entries'[l] = entries[l]
<1> USE RegistryAssumption DEF EntriesOK, RegistryAssumption
<1>1. entries[k].refCount \in Nat /\ entries[k].refCount > 0 /\ entries[k].variable \in Objects
  BY DEF EntryOK, Objects, Live
<1>2. CASE entries[k].refCount # 1 /\ UNCHANGED <<signalMap, value, received>>
           /\ entries' = [entries EXCEPT ![k].refCount = IF Live(k) THEN @ - 1 ELSE @]
  <2>1. \A l \in Keys : /\ entries'[l].variable = entries[l].variable
                        /\ entries'[l] = Absent <=> entries[l] = Absent
    BY <1>1, <1>2 DEF Live, Absent, EntryOK
  <2>2. EntryOK'
    BY <1>1, <1>2, <2>1 DEF EntryOK, Live
  <2>3. Distinct'
    BY <2>1 DEF Distinct, Live
  <2>4. SignalMapOf(entries') = SignalMapOf(entries)
    BY <2>1 DEF SignalMapOf
  <2>5. MapCurrent'
    BY <1>2, <2>4 DEF MapCurrent
  <2>6. entries' \in [Keys -> [variable : 0..MaxObjects, refCount : Nat]]
    BY <1>1, <1>2
  <2>11. ValueCurrent'
    BY <1>2, <2>1 DEF ValueCurrent, Live
  <2>7. EntriesOK'
    BY <1>2, <2>2, <2>3, <2>5, <2>6, <2>11
  <2>8. entries'[k].refCount = entries[k].refCount - 1 /\ \A l \in Keys \ {k} : entries'[l] = entries[l]
    BY <1>2
  <2>9. QED
    BY <1>1, <2>1, <2>7, <2>8 DEF Live
<1>3. CASE /\ entries[k].refCount = 1
           /\ entries' = [entries EXCEPT ![k] = Absent]
           /\ signalMap' = SignalMapOf(entries')
           /\ value' = [value EXCEPT ![entries[k].variable] = Zero]
           /\ received' = [c \in CanKeys |-> IF c = k THEN Zero ELSE received[c]]
  <2>1. entries'[k] = Absent /\ \A l \in Keys \ {k} : entries'[l] = entries[l]
    BY <1>3
  <2>2. entries' \in [Keys -> [variable : 0..MaxObjects, refCount : Nat]]
    BY <1>3 DEF Absent
  <2>3. EntryOK'
    BY <2>1 DEF EntryOK, Live
  <2>4. Distinct'
    BY <2>1 DEF Distinct, Live
  <2>5. signalMap' \subseteq CanKeys \X Objects
    <3>1. \A c \in Keys : entries'[c] # Absent => entries'[c].variable \in Objects
      BY <2>3 DEF EntryOK, Live, Objects
    <3>2. QED
      BY <1>3, <3>1 DEF SignalMapOf
  <2>6. value' \in [Objects -> Values] /\ received' \in [CanKeys -> Values]
    BY <1>3
  <2>7. MapCurrent'
    BY <1>3 DEF MapCurrent
  <2>11. ValueCurrent'
    <3> SUFFICES ASSUME NEW c \in CanKeys, Live(c)'
                 PROVE  value'[entries'[c].variable] = received'[c]
      BY DEF ValueCurrent
    <3>1. c # k /\ entries'[c] = entries[c] /\ Live(c)
      BY <2>1 DEF Live
    <3>2. entries[c].variable # entries[k].variable
      BY <3>1 DEF Distinct
    <3>3. entries[c].variable \in Objects
      BY <3>1 DEF EntryOK, Live, Objects
    <3>4. QED
      BY <1>3, <3>1, <3>2, <3>3 DEF ValueCurrent
  <2>8. EntriesOK'
    BY <2>2, <2>3, <2>4, <2>5, <2>6, <2>7, <2>11
  <2>9. entries'[k].refCount = entries[k].refCount - 1 /\ ~(entries[k].refCount > 1)
    BY <1>3, <2>1 DEF Absent
  <2>10. QED
    BY <2>1, <2>8, <2>9
<1>4. QED
  BY <1>2, <1>3 DEF Release

-----------------------------------------------------------------------------
\* A step that leaves entries, bindings and what is being bound alone keeps the references.
LEMMA SameHolders ==
  ASSUME Inv, UNCHANGED <<entries, made, bindings, ui>>
  PROVE  EntryOK' /\ Distinct' /\ Counted' /\ BoundIsLive' /\ UiOK'
<1>1. \A k \in Keys : Refs(k)' = Refs(k) /\ Got(k)' = Got(k)
  BY DEF Refs, Got, Held
<1>2. Counted'
  BY <1>1 DEF Inv, Counted
<1>3. BoundIsLive' /\ UiOK' /\ Distinct'
  BY DEF Inv, BoundIsLive, UiOK, Distinct, Held, Live, Bound
<1>4. EntryOK'
  BY DEF Inv, EntryOK, Live
<1>5. QED
  BY <1>2, <1>3, <1>4

\* A member of a finite set makes its cardinality positive.
LEMMA MemberCounts ==
  ASSUME NEW S, IsFiniteSet(S), NEW x \in S
  PROVE  Cardinality(S) \in Nat /\ Cardinality(S) > 0
<1>1. Cardinality(S) \in Nat
  BY FS_CardinalityType
<1>2. Cardinality(S) # 0
  BY FS_EmptySet
<1>3. QED
  BY <1>1, <1>2

LEMMA StartRebindInv ==
  ASSUME Inv, NEW e \in Editors, NEW want \in Wants, StartRebind(e, want)
  PROVE  Inv'
<1> USE DEF StartRebind
<1>1. RegistryTypeOK'
  BY DEF Inv, RegistryTypeOK, NoBindings
<1>2. \A k \in Keys : Refs(k)' = Refs(k) /\ Got(k)' = Got(k)
  BY DEF Inv, UiOK, Refs, Got, Held
<1>3. Counted'
  BY <1>2 DEF Inv, Counted
<1>4. BoundIsLive' /\ UiOK'
  BY DEF Inv, BoundIsLive, UiOK, Held, Live, NoBindings
<1>5. EntryOK' /\ Distinct' /\ MapCurrent' /\ ValueCurrent'
  BY DEF Inv, EntryOK, Distinct, MapCurrent, ValueCurrent, SignalMapOf, Live
<1>6. QED
  BY <1>1, <1>3, <1>4, <1>5 DEF Inv

LEMMA BeginReleaseInv == ASSUME Inv, BeginRelease PROVE Inv'
<1> USE DEF BeginRelease
<1>1. RegistryTypeOK'
  BY DEF Inv, RegistryTypeOK, Bound
<1>2. \A e \in Editors, s \in Symbols : Held(e, s)' <=> Held(e, s)
  BY DEF Inv, RegistryTypeOK, Held, Bound
<1>3. \A k \in Keys : Refs(k)' = Refs(k) /\ Got(k)' = Got(k)
  <2>1. ui'.got = ui.got
    BY DEF Inv, RegistryTypeOK
  <2>2. QED
    BY <1>2, <2>1 DEF Refs, Got
<1>4. Counted'
  BY <1>3 DEF Inv, Counted
<1>5. BoundIsLive' /\ UiOK'
  <2>1. ui'.got = ui.got /\ ui'.pc = "release" /\ ui'.left = Bound(bindings[ui'.editor])
    BY DEF Inv, RegistryTypeOK
  <2>2. QED
    BY <1>2, <2>1 DEF Inv, BoundIsLive, UiOK, Live, Bound
<1>6. EntryOK' /\ Distinct' /\ MapCurrent' /\ ValueCurrent'
  BY DEF Inv, EntryOK, Distinct, MapCurrent, ValueCurrent, SignalMapOf, Live
<1>7. QED
  BY <1>1, <1>4, <1>5, <1>6 DEF Inv

LEMMA AcquireNextInv ==
  ASSUME Inv, NEW s \in Symbols, AcquireNext(s)
  PROVE  Inv'
<1> DEFINE k == ui.want[s]
<1>1. k \in Keys /\ ui.pc = "acquire" /\ ui.got[s] = Unbound /\ Acquire(k)
  BY RegistryAssumption DEF AcquireNext, Inv, RegistryTypeOK, Wants, RegistryAssumption
<1> HIDE DEF k
<1>2. EntriesOK
  BY DEF Inv, EntriesOK, RegistryTypeOK
<1>3. /\ EntriesOK'
      /\ entries'[k].refCount = entries[k].refCount + 1
      /\ entries'[k] # Absent
      /\ Live(k) => entries'[k].variable = entries[k].variable
      /\ entries'[k].variable \in Objects
      /\ \A l \in Keys \ {k} : entries'[l] = entries[l]
  BY <1>1, <1>2, AcquirePost
<1>4. /\ bindings' = bindings
      /\ ui' = [ui EXCEPT !.got[s] = [key |-> k, variable |-> entries'[k].variable]]
  BY DEF AcquireNext, k
<1>5. /\ ui'.pc = "acquire" /\ ui'.editor = ui.editor /\ ui'.want = ui.want
      /\ ui'.left = ui.left
      /\ ui'.got = [ui.got EXCEPT ![s] = [key |-> k, variable |-> entries'[k].variable]]
      /\ ui.got \in [Symbols -> Binding \cup {Unbound}]
  BY <1>1, <1>4 DEF Inv, RegistryTypeOK
<1>6. [key |-> k, variable |-> entries'[k].variable] \in Binding
      /\ [key |-> k, variable |-> entries'[k].variable] # Unbound
  BY <1>1, <1>3, RegistryAssumption DEF Binding, Unbound, RegistryAssumption
<1>7. RegistryTypeOK'
  <2>1. ui' \in [pc : {"idle", "acquire", "release"}, editor : Editors, want : Wants,
                 got : [Symbols -> Binding \cup {Unbound}], left : SUBSET Symbols]
    <3>1. ui'.got \in [Symbols -> Binding \cup {Unbound}]
      BY <1>5, <1>6
    <3>2. ui' = [ui EXCEPT !.got = ui'.got]
      BY <1>4, <1>5 DEF Inv, RegistryTypeOK
    <3>3. QED
      BY <3>1, <3>2 DEF Inv, RegistryTypeOK
  <2>2. QED
    BY <1>3, <1>4, <2>1 DEF Inv, RegistryTypeOK, EntriesOK
<1>8. \A e \in Editors, t \in Symbols : Held(e, t)' <=> Held(e, t)
  BY <1>1, <1>4, <1>5 DEF Held
<1>9. Counted'
  <2> SUFFICES ASSUME NEW l \in Keys
               PROVE  entries'[l].refCount = Cardinality(Refs(l)') + Cardinality(Got(l)')
    BY DEF Counted
  <2>1. Refs(l)' = Refs(l)
    BY <1>4, <1>8 DEF Refs
  <2>2. entries[l].refCount = Cardinality(Refs(l)) + Cardinality(Got(l))
    BY DEF Inv, Counted
  <2>3. CASE l = k
    <3>1. Got(l)' = Got(l) \cup {s} /\ s \notin Got(l)
      BY <1>1, <1>5, <1>6, <2>3 DEF Got
    <3>2. Cardinality(Got(l)') = Cardinality(Got(l)) + 1
      BY <3>1, HoldersFinite, FS_AddElement
    <3>3. Cardinality(Got(l)) \in Nat /\ Cardinality(Refs(l)) \in Nat
      BY HoldersFinite, FS_CardinalityType
    <3>4. QED
      BY <1>3, <2>1, <2>2, <2>3, <3>2, <3>3
  <2>4. CASE l # k
    <3>1. Got(l)' = Got(l)
      BY <1>1, <1>5, <1>6, <2>4 DEF Got
    <3>2. QED
      BY <1>3, <2>1, <2>2, <2>4, <3>1
  <2>5. QED
    BY <2>3, <2>4
<1>10. BoundIsLive'
  <2>1. ASSUME NEW l \in Keys, Live(l)
        PROVE  Live(l)' /\ entries'[l].variable = entries[l].variable
    BY <1>3, <2>1 DEF Live
  <2>2. ASSUME NEW e \in Editors, NEW t \in Symbols, Held(e, t)'
        PROVE  Live(bindings[e][t].key)'
               /\ bindings'[e][t].variable = entries'[bindings'[e][t].key].variable
    <3>1. Held(e, t) /\ bindings[e][t].key \in Keys
      BY <1>8, <2>2 DEF Held, Inv, RegistryTypeOK, Binding
    <3>2. QED
      BY <1>4, <2>1, <3>1 DEF Inv, BoundIsLive, Live
  <2>3. ASSUME NEW t \in Symbols, ui'.got[t] # Unbound
        PROVE  Live(ui.got[t].key)' /\ ui'.got[t].variable = entries'[ui'.got[t].key].variable
    <3>1. CASE t = s
      BY <1>3, <1>5, <3>1 DEF Live
    <3>2. CASE t # s
      <4>1. ui'.got[t] = ui.got[t] /\ ui.got[t].key \in Keys
        BY <1>5, <2>3, <3>2 DEF Binding
      <4>2. QED
        BY <2>1, <2>3, <4>1 DEF Inv, BoundIsLive, Live
    <3>3. QED
      BY <3>1, <3>2
  <2>4. QED
    BY <2>2, <2>3 DEF BoundIsLive
<1>11. UiOK'
  BY <1>5 DEF UiOK
<1>12. QED
  BY <1>3, <1>7, <1>9, <1>10, <1>11 DEF Inv, EntriesOK

LEMMA ReleaseNextInv ==
  ASSUME Inv, NEW s \in Symbols, ReleaseNext(s)
  PROVE  Inv'
<1> DEFINE ed == ui.editor
           k == bindings[ed][s].key
<1>1. ed \in Editors /\ ui.pc = "release" /\ s \in ui.left /\ Release(k)
      /\ ui' = [ui EXCEPT !.left = @ \ {s}] /\ made' = made /\ bindings' = bindings
  BY DEF ReleaseNext, Inv, RegistryTypeOK
<1>2. Held(ed, s) /\ bindings[ed][s] \in Binding /\ k \in Keys
  BY <1>1 DEF Inv, UiOK, Bound, Held, RegistryTypeOK, Binding
<1>3. Live(k)
  BY <1>1, <1>2 DEF Inv, BoundIsLive
<1> HIDE DEF ed, k
<1>4. EntriesOK
  BY DEF Inv, EntriesOK, RegistryTypeOK
<1>5. /\ EntriesOK'
      /\ entries'[k].refCount = entries[k].refCount - 1
      /\ entries[k].refCount > 1 => /\ entries'[k] # Absent
                                    /\ entries'[k].variable = entries[k].variable
      /\ \A l \in Keys \ {k} : entries'[l] = entries[l]
  BY <1>1, <1>2, <1>3, <1>4, ReleasePost
<1>6. /\ ui'.pc = "release" /\ ui'.editor = ed /\ ui.editor = ed /\ ui'.got = ui.got
      /\ ui'.left = ui.left \ {s}
  BY <1>1 DEF Inv, RegistryTypeOK, ed
<1>7. RegistryTypeOK'
  <2>1. ui' \in [pc : {"idle", "acquire", "release"}, editor : Editors, want : Wants,
                 got : [Symbols -> Binding \cup {Unbound}], left : SUBSET Symbols]
    BY <1>1 DEF Inv, RegistryTypeOK
  <2>2. QED
    BY <1>1, <1>5, <2>1 DEF Inv, RegistryTypeOK, EntriesOK
<1>8. \A e \in Editors, t \in Symbols : Held(e, t)' <=> Held(e, t) /\ <<e, t>> # <<ed, s>>
  BY <1>1, <1>6 DEF Held
<1>9. \A l \in Keys : Refs(l)' = Refs(l) \ {<<ed, s>>} /\ Got(l)' = Got(l)
  BY <1>1, <1>6, <1>8 DEF Refs, Got
<1>10. \A l \in Keys : <<ed, s>> \in Refs(l) <=> l = k
  BY <1>1, <1>2 DEF Refs, k
<1>11. Counted'
  <2> SUFFICES ASSUME NEW l \in Keys
               PROVE  entries'[l].refCount = Cardinality(Refs(l)') + Cardinality(Got(l)')
    BY DEF Counted
  <2>1. entries[l].refCount = Cardinality(Refs(l)) + Cardinality(Got(l))
    BY DEF Inv, Counted
  <2>2. Cardinality(Refs(l)') = IF l = k THEN Cardinality(Refs(l)) - 1 ELSE Cardinality(Refs(l))
    BY <1>9, <1>10, HoldersFinite, FS_RemoveElement
  <2>3. Cardinality(Refs(l)) \in Nat /\ Cardinality(Got(l)) \in Nat
    BY HoldersFinite, FS_CardinalityType
  <2>4. Cardinality(Got(l)') = Cardinality(Got(l))
    BY <1>9
  <2>5. CASE l = k
    BY <1>5, <2>1, <2>2, <2>3, <2>4, <2>5
  <2>6. CASE l # k
    BY <1>5, <2>1, <2>2, <2>4, <2>6
  <2>7. QED
    BY <2>5, <2>6
<1>12. ASSUME NEW l \in Keys, Live(l), Refs(l)' # {} \/ Got(l)' # {}
       PROVE  Live(l)' /\ entries'[l].variable = entries[l].variable
  <2>1. CASE l # k
    BY <1>5, <1>12, <2>1 DEF Live
  <2>2. CASE l = k
    <3>1. entries'[l].refCount = Cardinality(Refs(l)') + Cardinality(Got(l)')
      BY <1>11 DEF Counted
    <3>2. IsFiniteSet(Refs(l)') /\ IsFiniteSet(Got(l)')
      BY <1>9, HoldersFinite, FS_RemoveElement
    <3>3. Cardinality(Refs(l)') \in Nat /\ Cardinality(Got(l)') \in Nat
      BY <3>2, FS_CardinalityType
    <3>4. Cardinality(Refs(l)') > 0 \/ Cardinality(Got(l)') > 0
      BY <1>12, <2>2, <3>2, MemberCounts
    <3>5. entries[l].refCount \in Nat
      BY <1>4 DEF EntriesOK
    <3>6. entries[l].refCount > 1
      BY <1>5, <2>2, <3>1, <3>3, <3>4, <3>5
    <3>7. QED
      BY <1>5, <2>2, <3>6 DEF Live
  <2>3. QED
    BY <2>1, <2>2
<1>13. BoundIsLive'
  <2>1. ASSUME NEW e \in Editors, NEW t \in Symbols, Held(e, t)'
        PROVE  Live(bindings[e][t].key)'
               /\ bindings'[e][t].variable = entries'[bindings'[e][t].key].variable
    <3>1. Held(e, t) /\ bindings[e][t].key \in Keys
      BY <1>8, <2>1 DEF Held, Inv, RegistryTypeOK, Binding
    <3>2. <<e, t>> \in Refs(bindings[e][t].key)'
      BY <1>1, <2>1 DEF Refs
    <3>3. Live(bindings[e][t].key) /\ bindings[e][t].variable = entries[bindings[e][t].key].variable
      BY <3>1 DEF Inv, BoundIsLive
    <3>4. QED
      BY <1>1, <1>12, <3>1, <3>2, <3>3 DEF Live
  <2>2. ASSUME NEW t \in Symbols, ui'.got[t] # Unbound
        PROVE  Live(ui.got[t].key)' /\ ui'.got[t].variable = entries'[ui'.got[t].key].variable
    <3>1. ui.got[t].key \in Keys /\ ui.got[t] # Unbound
      BY <1>6, <2>2 DEF Inv, RegistryTypeOK, Binding
    <3>2. t \in Got(ui.got[t].key)'
      BY <1>6, <3>1 DEF Got
    <3>3. Live(ui.got[t].key) /\ ui.got[t].variable = entries[ui.got[t].key].variable
      BY <3>1 DEF Inv, BoundIsLive
    <3>4. QED
      BY <1>6, <1>12, <3>1, <3>2, <3>3 DEF Live
  <2>3. QED
    BY <2>1, <2>2 DEF BoundIsLive
<1>14. UiOK'
  BY <1>1, <1>6 DEF Inv, UiOK
<1>15. QED
  BY <1>5, <1>7, <1>11, <1>13, <1>14 DEF Inv, EntriesOK

LEMMA FinishRebindInv == ASSUME Inv, FinishRebind PROVE Inv'
<1> DEFINE ed == ui.editor
<1>1. /\ ed \in Editors /\ ui.pc = "release" /\ ui.left = {}
      /\ bindings' = [bindings EXCEPT ![ed] = ui.got] /\ ui' = UiIdle
      /\ UNCHANGED <<entries, signalMap, made, value, received>>
      /\ ui.got \in [Symbols -> Binding \cup {Unbound}]
  BY DEF FinishRebind, Inv, RegistryTypeOK
<1>2. ui'.pc = "idle" /\ ui'.got = NoBindings
  BY <1>1 DEF UiIdle
<1>3. RegistryTypeOK'
  <2>1. ui' \in [pc : {"idle", "acquire", "release"}, editor : Editors, want : Wants,
                 got : [Symbols -> Binding \cup {Unbound}], left : SUBSET Symbols]
    BY <1>1, RegistryAssumption DEF UiIdle, Wants, NoBindings, RegistryAssumption
  <2>2. bindings' \in [Editors -> [Symbols -> Binding \cup {Unbound}]]
    BY <1>1 DEF Inv, RegistryTypeOK
  <2>3. QED
    BY <1>1, <2>1, <2>2 DEF Inv, RegistryTypeOK
<1>4. \A t \in Symbols : ~Held(ed, t)
  BY <1>1 DEF Held
<1>5. \A e \in Editors, t \in Symbols :
          /\ e = ed => bindings'[e][t] = ui.got[t] /\ (Held(e, t)' <=> ui.got[t] # Unbound)
          /\ e # ed => bindings'[e][t] = bindings[e][t] /\ (Held(e, t)' <=> Held(e, t))
  BY <1>1, <1>2 DEF Held, Inv, RegistryTypeOK
<1>6. Counted'
  <2> SUFFICES ASSUME NEW k \in Keys
               PROVE  entries'[k].refCount = Cardinality(Refs(k)') + Cardinality(Got(k)')
    BY DEF Counted
  <2> DEFINE mine == {ed} \X Got(k)
  <2>1. Refs(k)' = Refs(k) \cup mine
    BY <1>1, <1>4, <1>5 DEF Refs, Got
  <2>2. Refs(k) \cap mine = {}
    BY <1>4 DEF Refs, Got
  <2>3. IsFiniteSet({ed}) /\ Cardinality({ed}) = 1
    BY FS_Singleton
  <2>4. Cardinality(Got(k)) \in Nat /\ Cardinality(Refs(k)) \in Nat
    BY HoldersFinite, FS_CardinalityType
  <2>5. IsFiniteSet(mine) /\ Cardinality(mine) = 1 * Cardinality(Got(k))
    BY <2>3, HoldersFinite, FS_Product
  <2> HIDE DEF mine
  <2>6. Cardinality(Refs(k)') = Cardinality(Refs(k)) + Cardinality(mine) - Cardinality({})
    BY <2>1, <2>2, <2>5, HoldersFinite, FS_Union
  <2>7. Got(k)' = {}
    BY <1>2 DEF Got, NoBindings
  <2>8. Cardinality({}) = 0
    BY FS_EmptySet
  <2>9. entries[k].refCount = Cardinality(Refs(k)) + Cardinality(Got(k)) /\ entries' = entries
    BY <1>1 DEF Inv, Counted
  <2>10. QED
    BY <2>4, <2>5, <2>6, <2>7, <2>8, <2>9
<1>7. BoundIsLive'
  <2>1. ASSUME NEW e \in Editors, NEW t \in Symbols, Held(e, t)'
        PROVE  Live(bindings[e][t].key)'
               /\ bindings'[e][t].variable = entries'[bindings'[e][t].key].variable
    BY <1>1, <1>5, <2>1 DEF Inv, BoundIsLive, Live
  <2>2. \A t \in Symbols : ui'.got[t] = Unbound
    BY <1>2 DEF NoBindings
  <2>3. QED
    BY <2>1, <2>2 DEF BoundIsLive
<1>8. UiOK'
  BY <1>2 DEF UiOK
<1>9. EntryOK' /\ Distinct' /\ MapCurrent' /\ ValueCurrent'
  BY <1>1 DEF Inv, EntryOK, Distinct, MapCurrent, ValueCurrent, SignalMapOf, Live
<1>10. QED
  BY <1>3, <1>6, <1>7, <1>8, <1>9 DEF Inv

LEMMA OnCanDbcReceivedInv ==
  ASSUME Inv, NEW m, NEW frame \in Frames, OnCanDbcReceived(m, frame)
  PROVE  Inv'
<1> DEFINE given == {k \in CanKeys : MessageOf[k] = m /\ frame[k] # Nil}
           owner(o) == CHOOSE k \in given : <<k, o>> \in signalMap
<1> USE RegistryAssumption DEF RegistryAssumption
<1>1. /\ UNCHANGED <<entries, signalMap, made, bindings, ui>>
      /\ value' = [o \in Objects |-> IF \E k \in given : <<k, o>> \in signalMap
                                     THEN frame[owner(o)] ELSE value[o]]
      /\ received' = [k \in CanKeys |-> IF k \in given /\ Live(k) THEN frame[k]
                                        ELSE received[k]]
  BY DEF OnCanDbcReceived
<1>2. \A k \in given : frame[k] \in Values
  BY DEF Frames
<1>3. value' \in [Objects -> Values] /\ received' \in [CanKeys -> Values]
  <2>1. \A o \in Objects : (\E k \in given : <<k, o>> \in signalMap) => owner(o) \in given
    OBVIOUS
  <2>2. value \in [Objects -> Values] /\ received \in [CanKeys -> Values]
    BY DEF Inv, RegistryTypeOK
  <2> HIDE DEF given, owner
  <2>3. QED
    BY <1>1, <1>2, <2>1, <2>2
<1>4. RegistryTypeOK'
  BY <1>1, <1>3 DEF Inv, RegistryTypeOK
<1>5. ValueCurrent'
  <2> SUFFICES ASSUME NEW k \in CanKeys, Live(k)
               PROVE  value'[entries[k].variable] = received'[k]
    BY <1>1 DEF ValueCurrent, Live
  <2> DEFINE o == entries[k].variable
  <2>1. o \in Objects /\ <<k, o>> \in signalMap
    BY DEF Inv, EntryOK, MapCurrent, SignalMapOf, Live, Objects, RegistryTypeOK
  <2>2. \A l \in CanKeys : <<l, o>> \in signalMap => l = k
    BY DEF Inv, Distinct, MapCurrent, SignalMapOf, Live
  <2> HIDE DEF o
  <2>3. CASE k \in given
    <3>1. \E l \in given : <<l, o>> \in signalMap
      BY <2>1, <2>3
    <3>2. owner(o) \in given /\ <<owner(o), o>> \in signalMap
      BY <3>1, Zenon
    <3>3. owner(o) = k
      BY <2>2, <3>2
    <3> HIDE DEF given, owner
    <3>4. value'[o] = frame[k]
      BY <1>1, <2>1, <3>1, <3>3
    <3>5. received'[k] = frame[k]
      BY <1>1, <2>3
    <3>6. QED
      BY <3>4, <3>5 DEF o
  <2>4. CASE k \notin given
    <3>1. ~\E l \in given : <<l, o>> \in signalMap
      BY <2>2, <2>4
    <3>2. value'[o] = value[o] /\ received'[k] = received[k]
      BY <1>1, <2>1, <2>4, <3>1
    <3>3. QED
      BY <3>2 DEF Inv, ValueCurrent, o
  <2>5. QED
    BY <2>3, <2>4
<1>6. MapCurrent'
  BY <1>1 DEF Inv, MapCurrent, SignalMapOf
<1>7. QED
  BY <1>1, <1>4, <1>5, <1>6, SameHolders DEF Inv

LEMMA ResetAllInv == ASSUME Inv, ResetAll PROVE Inv'
<1> USE RegistryAssumption DEF RegistryAssumption, ResetAll
<1>1. RegistryTypeOK'
  BY DEF Inv, RegistryTypeOK
<1>2. ValueCurrent'
  BY DEF ValueCurrent, Inv, EntryOK, Live, Objects, RegistryTypeOK
<1>3. MapCurrent'
  BY DEF Inv, MapCurrent, SignalMapOf
<1>4. QED
  BY <1>1, <1>2, <1>3, SameHolders DEF Inv

LEMMA OnDbcParsedInv == ASSUME Inv, OnDbcParsed PROVE Inv'
<1> USE DEF OnDbcParsed
<1>1. signalMap' = signalMap
  BY DEF Inv, MapCurrent
<1>2. RegistryTypeOK' /\ MapCurrent' /\ ValueCurrent'
  BY <1>1 DEF Inv, RegistryTypeOK, MapCurrent, SignalMapOf, ValueCurrent, Live
<1>3. QED
  BY <1>2, SameHolders DEF Inv

-----------------------------------------------------------------------------
LEMMA NextInv == Inv /\ [RegistryNext]_registryVars => Inv'
<1> SUFFICES ASSUME Inv, [RegistryNext]_registryVars PROVE Inv'
  OBVIOUS
<1>1. CASE RegistryNext
  BY <1>1, ResetAllInv, StartRebindInv, AcquireNextInv, ReleaseNextInv, BeginReleaseInv,
     FinishRebindInv, OnCanDbcReceivedInv, OnDbcParsedInv
     DEF RegistryNext, RegistryStep
<1>2. CASE UNCHANGED registryVars
  <2>1. RegistryTypeOK' /\ MapCurrent' /\ ValueCurrent'
    BY <1>2 DEF registryVars, Inv, RegistryTypeOK, MapCurrent, SignalMapOf, ValueCurrent, Live
  <2>2. QED
    BY <1>2, <2>1, SameHolders DEF Inv, registryVars
<1>3. QED
  BY <1>1, <1>2

LEMMA InvGivesLatest == Inv => LiveValueIsLatest
BY DEF Inv, ValueCurrent, MapCurrent, SignalMapOf, LiveValueIsLatest

\* The registry, its map and the bindings keep their types.
THEOREM RegistryTypeCorrect == RegistrySpec => []RegistryTypeOK
<1>1. Inv => RegistryTypeOK
  BY DEF Inv
<1>2. QED
  BY InitInv, NextInv, <1>1, PTL DEF RegistrySpec

\* However the editors' acquisitions and releases interleave with frames and parsed DBCs, a
\* variable lives as long as any symbol is bound to it.
THEOREM NoBoundVariableDies == RegistrySpec => []BoundIsLive
<1>1. Inv => BoundIsLive
  BY DEF Inv
<1>2. QED
  BY InitInv, NextInv, <1>1, PTL DEF RegistrySpec

\* Every live signal variable has the value received last for its signal, and frames are
\* delivered to live variables only.
THEOREM LiveValuesAreLatest == RegistrySpec => []LiveValueIsLatest
<1>1. QED
  BY InitInv, NextInv, InvGivesLatest, PTL DEF RegistrySpec

-----------------------------------------------------------------------------
(***************************************************************************)
(* The editors around the registry.                                        *)
(***************************************************************************)

SavedOK == saved.bindings \in Wants

InputInv == Inv /\ SavedOK

LEMMA InputInitInv == InputInit => InputInv
<1>1. InputInit => Inv
  BY InitInv DEF InputInit
<1>2. InputInit => SavedOK
  BY DEF InputInit, SavedOK, NoFile, Wants
<1>3. QED
  BY <1>1, <1>2 DEF InputInv

\* Every step of the editors is a step of the registry or leaves it alone.
LEMMA InputStepIsRegistryStep ==
  ASSUME SavedOK, [InputNext]_vars
  PROVE  [RegistryNext]_registryVars
<1>1. CASE Reparse \/ DecodeTree \/ Destroyed
  BY <1>1 DEF Reparse, DecodeTree, Destroyed
<1>2. CASE Registry
  BY <1>2 DEF Registry, RegistryNext
<1>3. ASSUME NEW e \in Editors, NEW want \in Wants, EditBindings(e, want)
      PROVE  RegistryNext
  BY <1>3 DEF EditBindings, RegistryNext
<1>4. ASSUME NEW e \in Editors, Destroy(e)
      PROVE  RegistryNext
  <2>1. [s \in Symbols |-> Nil] \in Wants
    BY DEF Wants
  <2>2. QED
    BY <1>4, <2>1 DEF Destroy, RegistryNext
<1>5. ASSUME NEW e \in Editors, Load(e)
      PROVE  RegistryNext
  BY <1>5 DEF Load, SavedOK, RegistryNext
<1>6. ASSUME NEW e \in Editors, NEW s, NEW p, NEW kind,
             \/ InsertToken(e, InternalToken(kind)) \/ CommitNumber(e) \/ CommitLetter(e, s)
             \/ RemoveNode(e, p) \/ ActivateSlot(e, p) \/ ClearEditorState(e) \/ Save(e)
      PROVE  UNCHANGED registryVars
  BY <1>6 DEF InsertToken, CommitNumber, CommitLetter, RemoveNode, ActivateSlot,
              ClearEditorState, Save
<1>7. CASE UNCHANGED vars
  BY <1>7 DEF vars
<1>8. QED
  BY <1>1, <1>2, <1>3, <1>4, <1>5, <1>6, <1>7 DEF InputNext

LEMMA SavedStep ==
  ASSUME RegistryTypeOK, SavedOK, [InputNext]_vars
  PROVE  SavedOK'
<1>1. ASSUME NEW e \in Editors, Save(e)
      PROVE  SavedOK'
  <2>1. \A s \in Symbols : bindings[e][s].key \in Keys \cup {Nil}
    BY DEF RegistryTypeOK, Binding, Unbound
  <2>2. saved'.bindings = [s \in Symbols |-> bindings[e][s].key]
    BY <1>1 DEF Save
  <2>3. QED
    BY <2>1, <2>2 DEF SavedOK, Wants
<1>2. CASE saved' = saved
  BY <1>2 DEF SavedOK
<1>3. CASE Reparse \/ DecodeTree \/ Destroyed \/ Registry \/ UNCHANGED vars
  BY <1>2, <1>3 DEF Reparse, DecodeTree, Destroyed, Registry, inputVars, vars
<1>4. ASSUME NEW e \in Editors, NEW s, NEW p, NEW kind, NEW want,
             \/ InsertToken(e, InternalToken(kind)) \/ CommitNumber(e) \/ CommitLetter(e, s)
             \/ RemoveNode(e, p) \/ ActivateSlot(e, p) \/ ClearEditorState(e)
             \/ EditBindings(e, want) \/ Load(e) \/ Destroy(e)
      PROVE  saved' = saved
  BY <1>4 DEF InsertToken, CommitNumber, CommitLetter, RemoveNode, ActivateSlot,
              ClearEditorState, EditBindings, Load, Destroy, inputVars
<1>5. QED
  BY <1>1, <1>2, <1>3, <1>4 DEF InputNext

LEMMA InputNextInv == InputInv /\ [InputNext]_vars => InputInv'
<1> SUFFICES ASSUME InputInv, [InputNext]_vars PROVE InputInv'
  OBVIOUS
<1>1. [RegistryNext]_registryVars
  BY InputStepIsRegistryStep DEF InputInv
<1>2. Inv'
  BY <1>1, NextInv DEF InputInv
<1>3. SavedOK'
  BY SavedStep DEF InputInv, Inv
<1>4. QED
  BY <1>2, <1>3 DEF InputInv

\* The editors drive the registry as its specification allows: the detailed system implements
\* the abstract one.
THEOREM EditorsImplementRegistry == InputSpec => RegistrySpec
<1>1. InputInit => Init
  BY DEF InputInit
<1>2. InputInv /\ [InputNext]_vars => [RegistryNext]_registryVars
  BY InputStepIsRegistryStep DEF InputInv
<1>3. QED
  BY InputInitInv, InputNextInv, <1>1, <1>2, PTL DEF InputSpec, RegistrySpec

\* With editors that bind, load, destroy and are destroyed, no bound variable dies.
THEOREM EditorsKeepVariablesAlive == InputSpec => []BoundIsLive
BY EditorsImplementRegistry, NoBoundVariableDies, PTL

\* ... and every live signal variable has the value received last.
THEOREM EditorsReadLatestValues == InputSpec => []LiveValueIsLatest
BY EditorsImplementRegistry, LiveValuesAreLatest, PTL

-----------------------------------------------------------------------------
\* What function editor e has, by what is being done to it: reparse() has dropped the old one
\* and not compiled the new one, or the editor is being destroyed, or it is that of the tree.
FunctionOK(e) ==
    CASE task.pc = "parse" /\ task.editor = e -> function[e] = NoFunction /\ IsComplete(tree[e])
      [] task.pc = "destroy" /\ task.editor = e -> function[e] = NoFunction
      [] OTHER -> function[e] = IF IsComplete(tree[e]) THEN Parse(tree[e]) ELSE NoFunction

FunctionInv ==
    /\ DOMAIN tree = Editors /\ tree = [e \in Editors |-> tree[e]]
    /\ DOMAIN function = Editors /\ function = [e \in Editors |-> function[e]]
    /\ task.editor \in Editors
    /\ task.pc \in {"none", "parse", "load", "destroy"}
    /\ \A e \in Editors : FunctionOK(e)

LEMMA EmptyTreeIsIncomplete == ~IsComplete(EmptyTree)
<1>1. <<>> \in EmptySlots(EmptyTree)
  BY DEF EmptySlots, EmptyTree
<1>2. QED
  BY <1>1 DEF IsComplete

LEMMA NoTaskType == NoTask.pc = "none" /\ NoTask.editor \in Editors
<1>1. (CHOOSE e \in Editors : TRUE) \in Editors
  BY RegistryAssumption, Zenon DEF RegistryAssumption
<1>2. QED
  BY <1>1 DEF NoTask

\* An edit drops the function and has it compiled again if the tree is complete.
LEMMA ChangedKeepsFunctionInv ==
  ASSUME FunctionInv, NEW e \in Editors, NEW t, Changed(e, t),
         task.pc = "none" \/ (task.pc = "load" /\ task.editor = e)
  PROVE  FunctionInv'
<1>1. /\ tree' = [tree EXCEPT ![e] = t]
      /\ function' = [function EXCEPT ![e] = NoFunction]
  BY DEF Changed
<1>2. IsComplete(t) => task'.pc = "parse" /\ task'.editor = e
  BY NoTaskType DEF Changed, NoTask
<1>3. ~IsComplete(t) => task'.pc = "none"
  BY NoTaskType DEF Changed
<1>4. task'.editor \in Editors
  BY NoTaskType DEF Changed, NoTask
<1>5. \A f \in Editors : FunctionOK(f)'
  <2> TAKE f \in Editors
  <2>1. CASE f = e
    <3>1. tree'[f] = t /\ function'[f] = NoFunction
      BY <1>1, <2>1 DEF FunctionInv
    <3>2. CASE IsComplete(t)
      BY <1>2, <2>1, <3>1, <3>2 DEF FunctionOK
    <3>3. CASE ~IsComplete(t)
      <4>1. ~IsComplete(tree'[f]) /\ task'.pc = "none"
        BY <1>3, <3>1, <3>3
      <4>2. FunctionOK(f)' <=> function'[f] = NoFunction
        BY <4>1 DEF FunctionOK
      <4>3. QED
        BY <3>1, <4>2
    <3>4. QED
      BY <3>2, <3>3
  <2>2. CASE f # e
    <3>1. tree'[f] = tree[f] /\ function'[f] = function[f]
      BY <1>1, <2>2 DEF FunctionInv
    <3>2. function[f] = IF IsComplete(tree[f]) THEN Parse(tree[f]) ELSE NoFunction
      BY <2>2 DEF FunctionInv, FunctionOK
    <3>3. task'.pc = "none" \/ (task'.pc = "parse" /\ task'.editor # f)
      BY <1>2, <1>3, <1>4, <2>2
    <3>4. QED
      BY <3>1, <3>2, <3>3 DEF FunctionOK
  <2>3. QED
    BY <2>1, <2>2
<1>6. QED
  BY <1>1, <1>2, <1>3, <1>4, <1>5 DEF FunctionInv

\* A step that touches neither trees nor functions, and begins or ends nothing but a load.
LEMMA SameFunctions ==
  ASSUME FunctionInv, UNCHANGED <<tree, function>>,
         \/ task' = task
         \/ /\ task.pc \in {"none", "load"}
            /\ task'.pc \in {"none", "load"} /\ task'.editor \in Editors
  PROVE  FunctionInv'
<1>1. task'.editor \in Editors /\ task'.pc \in {"none", "parse", "load", "destroy"}
  BY DEF FunctionInv
<1>2. \A e \in Editors : FunctionOK(e)'
  BY DEF FunctionInv, FunctionOK
<1>3. QED
  BY <1>1, <1>2 DEF FunctionInv

LEMMA FunctionStep == FunctionInv /\ [InputNext]_vars => FunctionInv'
<1> SUFFICES ASSUME FunctionInv, [InputNext]_vars PROVE FunctionInv'
  OBVIOUS
<1>1. CASE Reparse
  <2>1. /\ task.pc = "parse" /\ task' = NoTask /\ tree' = tree
        /\ function' = [function EXCEPT ![task.editor] = Parse(tree[task.editor])]
    BY <1>1 DEF Reparse
  <2>2. \A e \in Editors : FunctionOK(e)'
    BY <2>1, NoTaskType DEF FunctionInv, FunctionOK
  <2>3. QED
    BY <2>1, <2>2, NoTaskType DEF FunctionInv
<1>2. CASE DecodeTree
  <2>1. task.pc = "load" /\ task.editor \in Editors
    BY <1>2 DEF DecodeTree, FunctionInv
  <2>2. (\E t : Changed(task.editor, t)) \/ (task' = NoTask /\ UNCHANGED <<tree, function>>)
    BY <1>2 DEF DecodeTree
  <2>3. QED
    BY <2>1, <2>2, ChangedKeepsFunctionInv, SameFunctions, NoTaskType
<1>3. CASE Destroyed
  <2>1. /\ task.pc = "destroy" /\ task' = NoTask /\ function' = function
        /\ tree' = [tree EXCEPT ![task.editor] = EmptyTree]
    BY <1>3 DEF Destroyed
  <2>2. \A e \in Editors : FunctionOK(e)'
    BY <2>1, NoTaskType, EmptyTreeIsIncomplete DEF FunctionInv, FunctionOK
  <2>3. QED
    BY <2>1, <2>2, NoTaskType DEF FunctionInv
<1>4. ASSUME NEW e \in Editors, NEW s, NEW p, NEW kind,
             \/ InsertToken(e, InternalToken(kind)) \/ CommitNumber(e) \/ CommitLetter(e, s)
             \/ RemoveNode(e, p)
      PROVE  FunctionInv'
  <2>1. task.pc = "none" /\ ((\E t : Changed(e, t)) \/ UNCHANGED <<tree, function, task>>)
    BY <1>4 DEF InsertToken, CommitNumber, CommitLetter, RemoveNode, UiFree
  <2>2. QED
    BY <2>1, ChangedKeepsFunctionInv, SameFunctions
<1>5. ASSUME NEW e \in Editors, Destroy(e)
      PROVE  FunctionInv'
  <2>1. /\ task.pc = "none" /\ tree' = tree
        /\ function' = [function EXCEPT ![e] = NoFunction]
        /\ task'.pc = "destroy" /\ task'.editor = e
    BY <1>5 DEF Destroy, NoTask
  <2>2. \A f \in Editors : FunctionOK(f)'
    BY <2>1 DEF FunctionInv, FunctionOK
  <2>3. QED
    BY <2>1, <2>2 DEF FunctionInv
<1>6. ASSUME NEW e \in Editors, Load(e)
      PROVE  FunctionInv'
  <2>1. task.pc = "none" /\ UNCHANGED <<tree, function>> /\ task'.pc = "load" /\ task'.editor = e
    BY <1>6 DEF Load
  <2>2. QED
    BY <2>1, SameFunctions
<1>7. ASSUME NEW e \in Editors, NEW p, NEW want,
             ActivateSlot(e, p) \/ ClearEditorState(e) \/ EditBindings(e, want) \/ Save(e)
      PROVE  FunctionInv'
  <2>1. UNCHANGED <<tree, function, task>>
    BY <1>7 DEF ActivateSlot, ClearEditorState, EditBindings, Save, inputVars
  <2>2. QED
    BY <2>1, SameFunctions
<1>8. CASE Registry \/ UNCHANGED vars
  <2>1. UNCHANGED <<tree, function, task>>
    BY <1>8 DEF Registry, inputVars, vars
  <2>2. QED
    BY <2>1, SameFunctions
<1>9. QED
  BY <1>1, <1>2, <1>3, <1>4, <1>5, <1>6, <1>7, <1>8 DEF InputNext

\* Between operations the function evaluated by the sending thread is that of the tree shown,
\* and an incomplete tree has none.
THEOREM FunctionFollowsTree == InputSpec => []FunctionIsOfTree
<1>1. InputInit => FunctionInv
  BY NoTaskType, EmptyTreeIsIncomplete DEF InputInit, FunctionInv, FunctionOK
<1>2. FunctionInv => FunctionIsOfTree
  BY DEF FunctionInv, FunctionOK, FunctionIsOfTree, UiFree
<1>3. QED
  BY FunctionStep, <1>1, <1>2, PTL DEF InputSpec
-----------------------------------------------------------------------------
(***************************************************************************)
(* Saving and loading.                                                     *)
(***************************************************************************)

\* A token has its four parts, and a variable token a letter; a saved tree keeps no storage.
IsToken(t) ==
    /\ t = [kind |-> t.kind, symbol |-> t.symbol, variable |-> t.variable, children |-> t.children]
    /\ t.kind = "variable" => t.symbol \in Symbols

IsTree(t) ==
    /\ t = [p \in DOMAIN t |-> t[p]]
    /\ \A p \in DOMAIN t : IsToken(t[p])

IsSavedTree(t) == IsTree(t) /\ \A p \in DOMAIN t : t[p].variable = 0

TreesOK ==
    /\ tree = [e \in Editors |-> tree[e]]
    /\ \A e \in Editors : IsTree(tree[e])
    /\ IsSavedTree(saved.tree)
    /\ IsSavedTree(task.tree)
    /\ task.editor \in Editors

LEMMA EmptyIsTree == IsSavedTree(EmptyTree)
BY DEF IsSavedTree, IsTree, EmptyTree

LEMMA WithNodeIsTree ==
  ASSUME NEW t, IsTree(t), NEW p, NEW token, IsToken(token)
  PROVE  IsTree(WithNode(t, p, token))
<1> DEFINE others == {q \in DOMAIN t : ~IsPrefix(p, q)}
           node(q) == IF q = p THEN token
                      ELSE IF p # <<>> /\ q = Front(p) /\ t[q].children < p[Len(p)]
                           THEN [t[q] EXCEPT !.children = p[Len(p)]]
                           ELSE t[q]
<1>1. WithNode(t, p, token) = [q \in others \cup {p} |-> node(q)]
  BY DEF WithNode
<1>2. ASSUME NEW u, IsToken(u), NEW n
      PROVE  IsToken([u EXCEPT !.children = n])
  <2>1. PICK a, b, c, d : u = [kind |-> a, symbol |-> b, variable |-> c, children |-> d]
                          /\ (a = "variable" => b \in Symbols)
    BY <1>2 DEF IsToken
  <2>2. [u EXCEPT !.children = n] = [kind |-> a, symbol |-> b, variable |-> c, children |-> n]
    BY <2>1
  <2>3. QED
    BY <2>1, <2>2 DEF IsToken
<1>3. \A q \in others \cup {p} : IsToken(node(q))
  <2> TAKE q \in others \cup {p}
  <2>1. CASE q = p
    BY <2>1
  <2>2. CASE q # p
    <3>1. IsToken(t[q])
      BY <2>2 DEF IsTree
    <3>2. IsToken([t[q] EXCEPT !.children = p[Len(p)]])
      BY <1>2, <3>1
    <3> HIDE DEF others
    <3>3. QED
      BY <2>2, <3>1, <3>2
  <2>3. QED
    BY <2>1, <2>2
<1> HIDE DEF others, node
<1>4. QED
  BY <1>1, <1>3 DEF IsTree

LEMMA WithoutNodeIsTree ==
  ASSUME NEW t, IsTree(t), NEW p
  PROVE  IsTree(WithoutNode(t, p))
BY DEF IsTree, WithoutNode

\* What is saved has no storage.
LEMMA EncodeIsSaved ==
  ASSUME NEW t, IsTree(t)
  PROVE  IsSavedTree(Encode(t))
<1>1. ASSUME NEW u, IsToken(u)
      PROVE  IsToken([u EXCEPT !.variable = 0]) /\ [u EXCEPT !.variable = 0].variable = 0
  <2>1. PICK a, b, c, d : u = [kind |-> a, symbol |-> b, variable |-> c, children |-> d]
                          /\ (a = "variable" => b \in Symbols)
    BY <1>1 DEF IsToken
  <2>2. [u EXCEPT !.variable = 0] = [kind |-> a, symbol |-> b, variable |-> 0, children |-> d]
    BY <2>1
  <2>3. QED
    BY <2>1, <2>2 DEF IsToken
<1>2. \A p \in DOMAIN t : IsToken(t[p])
  BY DEF IsTree
<1>3. QED
  BY <1>1, <1>2 DEF IsSavedTree, IsTree, Encode

\* Decoding gives a tree, whatever is bound; and what was saved, if every letter is.
LEMMA DecodeIsTree ==
  ASSUME NEW t, IsSavedTree(t), NEW v
  PROVE  IsTree(Decode(t, v))
<1>1. ASSUME NEW u, IsToken(u), NEW o
      PROVE  IsToken([u EXCEPT !.variable = o])
  <2>1. PICK a, b, c, d : u = [kind |-> a, symbol |-> b, variable |-> c, children |-> d]
                          /\ (a = "variable" => b \in Symbols)
    BY <1>1 DEF IsToken
  <2>2. [u EXCEPT !.variable = o] = [kind |-> a, symbol |-> b, variable |-> o, children |-> d]
    BY <2>1
  <2>3. QED
    BY <2>1, <2>2 DEF IsToken
<1>2. \A p \in DOMAIN t : IsToken(t[p])
  BY DEF IsSavedTree, IsTree
<1>3. QED
  BY <1>1, <1>2 DEF IsTree, Decode

LEMMA DecodeRestores ==
  ASSUME NEW t, IsSavedTree(t), NEW v,
         \A p \in DOMAIN t : t[p].kind = "variable" => t[p].symbol \in DOMAIN v
  PROVE  /\ Encode(Decode(t, v)) = t
         /\ \A p \in DOMAIN t : t[p].kind = "variable" => Decode(t, v)[p].variable = v[t[p].symbol]
<1> DEFINE token(p) == IF t[p].kind = "variable"
                       THEN [t[p] EXCEPT !.variable = v[t[p].symbol]]
                       ELSE t[p]
<1>1. Decode(t, v) = [p \in DOMAIN t |-> token(p)]
  BY DEF Decode
<1>2. ASSUME NEW p \in DOMAIN t
      PROVE  /\ [token(p) EXCEPT !.variable = 0] = t[p]
             /\ t[p].kind = "variable" => token(p).variable = v[t[p].symbol]
  <2>1. PICK u : u = t[p] /\ IsToken(u) /\ u.variable = 0
    BY DEF IsSavedTree, IsTree
  <2>2. PICK a, b, d : u = [kind |-> a, symbol |-> b, variable |-> 0, children |-> d]
    BY <2>1 DEF IsToken
  <2>3. PICK o : token(p) = [kind |-> a, symbol |-> b, variable |-> o, children |-> d]
                 /\ (a = "variable" => o = v[b])
    <3>1. CASE a = "variable"
      <4>1. [u EXCEPT !.variable = v[b]] = [kind |-> a, symbol |-> b, variable |-> v[b], children |-> d]
        BY <2>2
      <4>2. QED
        BY <2>1, <2>2, <3>1, <4>1
    <3>2. CASE a # "variable"
      <4>1. u.kind = a
        BY <2>2
      <4>2. token(p) = u
        BY <2>1, <3>2, <4>1
      <4>3. token(p) = [kind |-> a, symbol |-> b, variable |-> 0, children |-> d]
        BY <2>2, <4>2
      <4> HIDE DEF token
      <4>4. QED
        BY <3>2, <4>3
    <3>3. QED
      BY <3>1, <3>2
  <2>4. [token(p) EXCEPT !.variable = 0] = [kind |-> a, symbol |-> b, variable |-> 0, children |-> d]
    <3>1. PICK w : w = token(p)
      OBVIOUS
    <3>2. [w EXCEPT !.variable = 0] = [kind |-> a, symbol |-> b, variable |-> 0, children |-> d]
      <4> HIDE DEF token
      <4>1. QED
        BY <2>3, <3>1
    <3>3. QED
      BY <3>1, <3>2
  <2> HIDE DEF token
  <2>5. QED
    BY <2>1, <2>2, <2>3, <2>4
<1>3. t = [p \in DOMAIN t |-> t[p]]
  BY DEF IsSavedTree, IsTree
<1> HIDE DEF token
<1>4. \A p \in DOMAIN t : Decode(t, v)[p] = token(p)
  BY <1>1, Zenon
<1>5. DOMAIN Decode(t, v) = DOMAIN t
  BY <1>1
<1>6. Encode(Decode(t, v)) = [p \in DOMAIN t |-> t[p]]
  BY <1>2, <1>4, <1>5, Zenon DEF Encode
<1>7. \A p \in DOMAIN t : t[p].kind = "variable" => Decode(t, v)[p].variable = v[t[p].symbol]
  BY <1>2, <1>4
<1>8. QED
  BY <1>3, <1>6, <1>7

\* An edit keeps trees trees.
LEMMA ChangedTrees ==
  ASSUME TreesOK, NEW e \in Editors, NEW t, IsTree(t), Changed(e, t), saved' = saved
  PROVE  TreesOK'
<1>1. tree' = [tree EXCEPT ![e] = t]
  BY DEF Changed
<1>2. tree' = [f \in Editors |-> IF f = e THEN t ELSE tree[f]]
  BY <1>1 DEF TreesOK
<1>3. task'.tree = EmptyTree /\ task'.editor \in Editors
  BY NoTaskType DEF Changed, NoTask
<1>4. QED
  BY <1>2, <1>3, EmptyIsTree DEF TreesOK

LEMMA TreesStep == TreesOK /\ SavedOK /\ [InputNext]_vars => TreesOK'
<1> SUFFICES ASSUME TreesOK, SavedOK, [InputNext]_vars PROVE TreesOK'
  OBVIOUS
<1>0. NoTask.tree = EmptyTree
  BY DEF NoTask
<1>1. CASE Reparse
  BY <1>0, <1>1, EmptyIsTree, NoTaskType DEF Reparse, TreesOK
<1>2. CASE DecodeTree
  <2>1. CASE \E v : Changed(task.editor, Decode(task.tree, v))
    <3>1. PICK v : Changed(task.editor, Decode(task.tree, v))
      BY <2>1
    <3>2. IsTree(Decode(task.tree, v))
      BY DecodeIsTree DEF TreesOK
    <3>3. saved' = saved /\ task.editor \in Editors
      BY <1>2 DEF DecodeTree, TreesOK
    <3>4. QED
      BY <3>1, <3>2, <3>3, ChangedTrees
  <2>2. CASE task' = NoTask /\ UNCHANGED <<tree, saved>>
    BY <1>0, <2>2, EmptyIsTree, NoTaskType DEF TreesOK
  <2>3. QED
    BY <1>2, <2>1, <2>2 DEF DecodeTree
<1>3. CASE Destroyed
  <2>1. task' = NoTask /\ saved' = saved /\ tree' = [tree EXCEPT ![task.editor] = EmptyTree]
    BY <1>3 DEF Destroyed
  <2>2. tree' = [f \in Editors |-> IF f = task.editor THEN EmptyTree ELSE tree[f]]
    BY <2>1 DEF TreesOK
  <2>3. IsTree(EmptyTree)
    BY EmptyIsTree DEF IsSavedTree
  <2>4. QED
    BY <1>0, <2>1, <2>2, <2>3, EmptyIsTree, NoTaskType DEF TreesOK
<1>4. ASSUME NEW e \in Editors, NEW token, IsToken(token), NEW p,
             Changed(e, WithNode(tree[e], p, token)), saved' = saved
      PROVE  TreesOK'
  BY <1>4, WithNodeIsTree, ChangedTrees DEF TreesOK
<1>5. ASSUME NEW e \in Editors, NEW kind \in Kinds, InsertToken(e, InternalToken(kind))
      PROVE  TreesOK'
  <2>1. IsToken(InternalToken(kind))
    BY InputAssumption DEF IsToken, InternalToken
  <2>2. QED
    BY <1>4, <1>5, <2>1 DEF InsertToken
<1>6. ASSUME NEW e \in Editors, CommitNumber(e)
      PROVE  TreesOK'
  <2>1. IsToken(ValueToken)
    BY DEF IsToken, ValueToken
  <2>2. QED
    BY <1>4, <1>6, <2>1 DEF CommitNumber
<1>7. ASSUME NEW e \in Editors, NEW s \in Letters[e], CommitLetter(e, s)
      PROVE  TreesOK'
  <2>1. \A o : IsToken(VariableToken(s, o))
    BY InputAssumption DEF IsToken, VariableToken
  <2>2. CASE bindings[e][s] # Unbound
    BY <1>4, <1>7, <2>1, <2>2 DEF CommitLetter
  <2>3. CASE bindings[e][s] = Unbound
    BY <1>7, <2>3 DEF CommitLetter, TreesOK
  <2>4. QED
    BY <2>2, <2>3
<1>8. ASSUME NEW e \in Editors, NEW p, RemoveNode(e, p)
      PROVE  TreesOK'
  <2>1. IsTree(WithoutNode(tree[e], p))
    BY WithoutNodeIsTree DEF TreesOK
  <2>2. QED
    BY <1>8, <2>1, ChangedTrees DEF RemoveNode
<1>9. ASSUME NEW e \in Editors, Save(e)
      PROVE  TreesOK'
  <2>1. saved'.tree = Encode(tree[e]) /\ UNCHANGED <<tree, task>>
    BY <1>9 DEF Save
  <2>2. QED
    BY <2>1, EncodeIsSaved DEF TreesOK
<1>10. ASSUME NEW e \in Editors, Load(e)
       PROVE  TreesOK'
  <2>1. task'.tree = saved.tree /\ task'.editor = e /\ UNCHANGED <<tree, saved>>
    BY <1>10 DEF Load
  <2>2. QED
    BY <2>1 DEF TreesOK
<1>11. ASSUME NEW e \in Editors, Destroy(e)
       PROVE  TreesOK'
  <2>1. task'.tree = EmptyTree /\ task'.editor = e /\ UNCHANGED <<tree, saved>>
    BY <1>11 DEF Destroy, NoTask
  <2>2. QED
    BY <2>1, EmptyIsTree DEF TreesOK
<1>12. ASSUME NEW e \in Editors, NEW p, NEW want,
              ActivateSlot(e, p) \/ ClearEditorState(e) \/ EditBindings(e, want)
       PROVE  TreesOK'
  <2>1. UNCHANGED <<tree, saved, task>>
    BY <1>12 DEF ActivateSlot, ClearEditorState, EditBindings, inputVars
  <2>2. QED
    BY <2>1 DEF TreesOK
<1>13. CASE Registry \/ UNCHANGED vars
  <2>1. UNCHANGED <<tree, saved, task>>
    BY <1>13 DEF Registry, inputVars, vars
  <2>2. QED
    BY <2>1 DEF TreesOK
<1>14. QED
  BY <1>1, <1>2, <1>3, <1>5, <1>6, <1>7, <1>8, <1>9, <1>10, <1>11, <1>12, <1>13 DEF InputNext

\* Where a load ends, the editor has the bindings of the file, and the tree is read with them.
LEMMA LoadStep ==
  ASSUME TreesOK, Inv, DecodeTree, task.tree # EmptyTree,
         \A p \in DOMAIN task.tree : task.tree[p].kind = "variable" =>
            bindings[task.editor][task.tree[p].symbol] # Unbound
  PROVE  /\ Encode(tree'[task.editor]) = task.tree
         /\ \A p \in DOMAIN task.tree : task.tree[p].kind = "variable" =>
              Live(bindings[task.editor][task.tree[p].symbol].key)
              /\ tree'[task.editor][p].variable
                   = entries[bindings[task.editor][task.tree[p].symbol].key].variable
<1> DEFINE e == task.editor
           v == [s \in Bound(bindings[e]) |-> bindings[e][s].variable]
<1>1. e \in Editors /\ ui.pc = "idle" /\ Changed(e, Decode(task.tree, v))
  BY DEF DecodeTree, TreesOK
<1>2. tree'[e] = Decode(task.tree, v)
  BY <1>1 DEF Changed, TreesOK
<1>3. \A p \in DOMAIN task.tree : task.tree[p].kind = "variable" =>
         task.tree[p].symbol \in Symbols /\ task.tree[p].symbol \in Bound(bindings[e])
  BY DEF TreesOK, IsSavedTree, IsTree, IsToken, Bound
<1>4. \A s \in Bound(bindings[e]) :
         Live(bindings[e][s].key) /\ bindings[e][s].variable = entries[bindings[e][s].key].variable
  BY <1>1 DEF Inv, BoundIsLive, Held, Bound
<1>5. DOMAIN v = Bound(bindings[e]) /\ \A s \in Bound(bindings[e]) : v[s] = bindings[e][s].variable
  OBVIOUS
<1> HIDE DEF v
<1>6. /\ Encode(Decode(task.tree, v)) = task.tree
      /\ \A p \in DOMAIN task.tree : task.tree[p].kind = "variable" =>
            Decode(task.tree, v)[p].variable = v[task.tree[p].symbol]
  BY <1>3, <1>5, DecodeRestores DEF TreesOK
<1>7. Encode(tree'[e]) = task.tree
  BY <1>2, <1>6, Zenon
<1>8. ASSUME NEW p \in DOMAIN task.tree, task.tree[p].kind = "variable"
      PROVE  /\ Live(bindings[e][task.tree[p].symbol].key)
             /\ tree'[e][p].variable = entries[bindings[e][task.tree[p].symbol].key].variable
  <2>1. task.tree[p].symbol \in Bound(bindings[e])
    BY <1>3, <1>8, Zenon
  <2>2. tree'[e][p].variable = v[task.tree[p].symbol]
    BY <1>2, <1>6, <1>8, Zenon
  <2>3. v[task.tree[p].symbol] = bindings[e][task.tree[p].symbol].variable
    BY <1>5, <2>1, Zenon
  <2> QED  BY <1>4, <2>1, <2>2, <2>3, Zenon
<1>9. QED
  BY <1>7, <1>8, Zenon

\* A state file whose letters are bound when its tree is read (ValueFunctionSerializer::decode)
\* comes back as it was saved, in any editor and whatever it held before, and its variable
\* tokens read the variables the registry has for the letters.
THEOREM LoadRestoresTree == InputSpec => LoadRestores
<1>1. InputInit => TreesOK
  BY NoTaskType, EmptyIsTree DEF InputInit, TreesOK, IsSavedTree, NoTask, NoFile
<1>2. TreesOK /\ InputInv /\ [InputNext]_vars =>
         [(DecodeTree /\ task.tree # EmptyTree
            /\ \A p \in DOMAIN task.tree : task.tree[p].kind = "variable" =>
                   bindings[task.editor][task.tree[p].symbol] # Unbound)
           => /\ Encode(tree'[task.editor]) = task.tree
              /\ \A p \in DOMAIN task.tree : task.tree[p].kind = "variable" =>
                    Live(bindings[task.editor][task.tree[p].symbol].key)
                    /\ tree'[task.editor][p].variable
                         = entries[bindings[task.editor][task.tree[p].symbol].key].variable]_vars
  BY LoadStep DEF InputInv
<1>3. TreesOK /\ InputInv /\ [InputNext]_vars => TreesOK'
  BY TreesStep DEF InputInv
<1>4. QED
  BY InputInitInv, InputNextInv, <1>1, <1>2, <1>3, PTL DEF InputSpec, LoadRestores
======================================================================
