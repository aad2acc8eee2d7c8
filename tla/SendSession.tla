------------------------------ MODULE SendSession ------------------------------
(***************************************************************************)
(* What is sent: the selection, evaluators and message cache of            *)
(* SendingModel, the rows of the DBC view the evaluators belong to, and    *)
(* the manipulation handler frames go through, as SendingComponent uses    *)
(* them from two threads.                                                  *)
(*                                                                         *)
(* The UI thread handles the user's clicks and the DBC events queued for   *)
(* it; the thread of a repeated session runs the callback over and over.   *)
(* A frame passes through the handler in three calls (inject decoded,      *)
(* inject encoded, evaluate), each of which reads the shared pointer to    *)
(* the active handler again.  What happens to a frame after its verdict is *)
(* the subject of SendPipeline.                                            *)
(***************************************************************************)
EXTENDS ManipulationRules, SequencesExt

CONSTANTS
    Dbcs,          \* configurations that can be parsed
    MessagesOf,    \* the message definitions of one: a sequence of [id, signals]
    Dlc,           \* the length of an encoded message, by id
    RowValues,     \* what the functions of the rows can evaluate to, by signal
    Minimum, Maximum,  \* the range of every signal
    RawFrames,     \* what the raw view can be set to
    RuleLists,     \* what the manipulation lists of the views can hold
    Nil,           \* no DBC
    MaxEvents,     \* bound: DBC events
    MaxSessions    \* bound: single sends and starts of repeated sending

ASSUME DefinitionsAssumption == \A d \in Dbcs : MessagesOf[d] \in Seq(ToSet(MessagesOf[d]))

(* The lists of the views: delays are unsigned. *)
ASSUME RulesAssumption ==
    \A rules \in RuleLists, stage \in Stages :
        /\ rules[stage] \in Seq(ToSet(rules[stage]))
        /\ \A i \in DOMAIN rules[stage] :
              /\ rules[stage][i].latch \in BOOLEAN
              /\ rules[stage][i].strategy.kind \in {"effect", "delay", "drop", "insert"}
              /\ rules[stage][i].strategy.kind = "delay" =>
                    rules[stage][i].strategy.delay \in Nat

VARIABLES
    mode,        \* m_currentMode
    raw,         \* m_rawState
    dbc,         \* m_currentDbc
    enabled,     \* whether the send button of the DBC view can be clicked
    selected,    \* m_selectedSignalNames, as pairs of message id and signal
    evaluators,  \* m_signalEvaluators: the row an evaluator reads, of every key that has one
    cache,       \* m_messageCache
    version,     \* how often the cache was rebuilt
    rows,        \* the rows that exist: [generation, key]
    doomed,      \* those that are deleted by the next turn of the event loop
    generation,  \* how often the rows were made
    events,      \* DBC events queued for the UI thread
    posted,      \* how many there were
    ui,          \* what the UI thread is in the middle of
    running,     \* the repeated worker's thread runs
    sending,     \* m_cyclicState.isSending
    handlers,    \* the manipulation handlers made, in their order
    active,      \* m_activeManipulationHandler
    job,         \* the frame each thread is sending
    undefined,   \* the cache was changed under the loop that reads it
    chosen,      \* history: the selection this repeated session sends
    users        \* history: the threads that used a handler

vars == <<mode, raw, dbc, enabled, selected, evaluators, cache, version, rows, doomed, generation,
          events, posted, ui, running, sending, handlers, active, job, undefined, chosen, users>>

modelVars == <<mode, raw, dbc, enabled, selected, evaluators, cache, version>>
rowVars == <<rows, doomed, generation>>
eventVars == <<events, posted>>
workerVars == <<running, sending>>
handlerVars == <<handlers, active, users>>

-----------------------------------------------------------------------------
Actors == {"ui", "repeated"}
Definitions(d) == IF d = Nil THEN <<>> ELSE MessagesOf[d]
KeysOf(d) == UNION {{<<def.id, s>> : s \in def.signals} : def \in ToSet(Definitions(d))}
Rows(g, d) == {[generation |-> g, key |-> k] : k \in KeysOf(d)}

Idle == [pc |-> "idle", mode |-> "raw", todo |-> <<>>, version |-> 0,
         message |-> Nil, fired |-> {}, by |-> {}, verdict |-> Nil, latched |-> {}]

Init ==
    /\ mode = "raw" /\ raw \in RawFrames
    /\ dbc = Nil /\ enabled = FALSE /\ selected = {} /\ evaluators = <<>>
    /\ cache = <<>> /\ version = 0
    /\ rows = {} /\ doomed = {} /\ generation = 0
    /\ events = <<>> /\ posted = 0
    /\ ui = "idle"
    /\ running = FALSE /\ sending = FALSE
    /\ handlers = <<>> /\ active = 0
    /\ job = [a \in Actors |-> Idle]
    /\ undefined = FALSE
    /\ chosen = {} /\ users = <<>>

UiFree == ui = "idle" /\ job["ui"].pc = "idle"

Clamp(v) == IF v < Minimum THEN Minimum ELSE IF v > Maximum THEN Maximum ELSE v

(* The message of a definition with its selected signals; the messages that have one. *)
SelectedSignals(def) == {s \in def.signals : <<def.id, s>> \in selected}
SelectedDefinitions ==
    LET defs == Definitions(dbc)
        among[i \in 0 .. Len(defs)] ==
            IF i = 0 THEN <<>>
            ELSE IF SelectedSignals(defs[i]) = {} THEN among[i - 1]
            ELSE Append(among[i - 1], defs[i])
    IN  among[Len(defs)]

(* The values a signal can get, brought into its range: those of its evaluator, or the minimum
   it was set to when the DBC was received. *)
AllValues == UNION {RowValues[s] : s \in DOMAIN RowValues} \cup {Minimum}
InRange == {Clamp(v) : v \in AllValues}
Evaluations(key) == IF key \in DOMAIN evaluators THEN {Clamp(v) : v \in RowValues[key[2]]}
                    ELSE {Minimum}

-----------------------------------------------------------------------------
(* The user's edits. *)
SetMode(m) ==
    /\ UiFree
    /\ mode' = m
    /\ UNCHANGED <<raw, dbc, enabled, selected, evaluators, cache, version, rowVars, eventVars, ui,
                   workerVars, handlerVars, job, undefined, chosen>>

SetRaw(frame) ==
    /\ UiFree
    /\ raw' = frame
    /\ UNCHANGED <<mode, dbc, enabled, selected, evaluators, cache, version, rowVars, eventVars, ui,
                   workerVars, handlerVars, job, undefined, chosen>>

(* setSignalSelected() of one signal, setMessageSelected() of all of a message; the button is
   looked at then, and not when a new DBC clears the selection. *)
Select(keys, on) ==
    /\ UiFree
    /\ selected' = IF on THEN selected \cup keys ELSE selected \ keys
    /\ enabled' = (selected' # {})
    /\ UNCHANGED <<mode, raw, dbc, evaluators, cache, version, rowVars, eventVars, ui,
                   workerVars, handlerVars, job, undefined, chosen>>

-----------------------------------------------------------------------------
(* getManipulationHandler() of the view that is shown: a new handler with its rules. *)
NewSession(rules) ==
    /\ Len(handlers) < MaxSessions
    /\ handlers' = Append(handlers, NewHandler(rules))
    /\ users' = Append(users, {})
    /\ active' = Len(handlers) + 1

(* buildSendCache(): the selected signals, seeded with a value of their evaluators. *)
CachedSignals == [i \in DOMAIN SelectedDefinitions |-> SelectedSignals(SelectedDefinitions[i])]
CacheOf(seed) ==
    IF mode = "raw" THEN <<>>
    ELSE [i \in DOMAIN SelectedDefinitions |->
             [id |-> SelectedDefinitions[i].id,
              values |-> [s \in CachedSignals[i] |-> seed[<<SelectedDefinitions[i].id, s>>]]]]

Seeds == {f \in [selected -> InRange] : \A k \in selected : f[k] \in Evaluations(k)}

BuildSendCache ==
    /\ \E seed \in Seeds : cache' = CacheOf(seed)
    /\ version' = version + 1

(* sendOnce(): a handler, then the messages of the selection one after the other. *)
SendOnce(rules) ==
    /\ UiFree
    /\ mode = "dbc" => enabled
    /\ NewSession(rules)
    /\ job' = [job EXCEPT !["ui"] =
                  [Idle EXCEPT !.pc = "next", !.mode = mode,
                               !.todo = IF mode = "raw" THEN <<raw>> ELSE SelectedDefinitions]]
    /\ UNCHANGED <<modelVars, rowVars, eventVars, ui, workerVars, undefined, chosen>>

(* Faulty StartRepeated: the cache is the one that was built last. *)
StartRepeatedOldCache(rules) ==
    /\ UiFree
    /\ ~running
    /\ mode = "dbc" => enabled
    /\ NewSession(rules)
    /\ running' = TRUE
    /\ sending' = TRUE
    /\ chosen' = IF mode = "raw" THEN {} ELSE selected
    /\ job' = [job EXCEPT !["repeated"] = [Idle EXCEPT !.mode = mode]]
    /\ UNCHANGED <<modelVars, rowVars, eventVars, ui, undefined>>

(* Faulty StartRepeated: it does not look whether a session runs. *)
StartRepeatedAgain(rules) ==
    /\ UiFree
    /\ mode = "dbc" => enabled
    /\ NewSession(rules)
    /\ BuildSendCache
    /\ running' = TRUE
    /\ sending' = TRUE
    /\ chosen' = IF mode = "raw" THEN {} ELSE selected
    /\ job' = IF running THEN job ELSE [job EXCEPT !["repeated"] = [Idle EXCEPT !.mode = mode]]
    /\ UNCHANGED <<mode, raw, dbc, enabled, selected, evaluators, rowVars, eventVars, ui, undefined>>

(* startRepeatedSending(): a handler, the cache, the thread; the mode is captured. *)
StartRepeated(rules) ==
    /\ UiFree
    /\ ~running
    /\ mode = "dbc" => enabled
    /\ NewSession(rules)
    /\ BuildSendCache
    /\ running' = TRUE
    /\ sending' = TRUE
    /\ chosen' = IF mode = "raw" THEN {} ELSE selected
    /\ job' = [job EXCEPT !["repeated"] = [Idle EXCEPT !.mode = mode]]
    /\ UNCHANGED <<mode, raw, dbc, enabled, selected, evaluators, rowVars, eventVars, ui, undefined>>

(* stopRepeatedSending(): the UI thread waits until the callback has returned. *)
StopRepeated ==
    /\ UiFree
    /\ running
    /\ ui' = "stopping"
    /\ UNCHANGED <<modelVars, rowVars, eventVars, workerVars, handlerVars, job, undefined, chosen>>

Stopped ==
    /\ ui = "stopping"
    /\ job["repeated"].pc = "idle"
    /\ ui' = "idle"
    /\ running' = FALSE
    /\ sending' = FALSE
    /\ UNCHANGED <<modelVars, rowVars, eventVars, handlerVars, job, undefined, chosen>>

-----------------------------------------------------------------------------
(* The frames of a thread.  The loop of the repeated session reads the cache in place: when it
   is rebuilt meanwhile, what is read next is undefined. *)
BeginCycle ==
    /\ running
    /\ ui # "stopping"
    /\ job["repeated"].pc = "idle"
    /\ job' = [job EXCEPT !["repeated"].pc = "next", !["repeated"].version = version,
                          !["repeated"].todo = IF job["repeated"].mode = "raw" THEN <<raw>>
                                               ELSE cache]
    /\ UNCHANGED <<modelVars, rowVars, eventVars, ui, workerVars, handlerVars, undefined, chosen>>

(* The loop has come to its end. *)
EndOfLoop(a) ==
    /\ job[a].pc = "next"
    /\ job[a].todo = <<>>
    /\ job' = [job EXCEPT ![a] = [Idle EXCEPT !.mode = job[a].mode]]
    /\ UNCHANGED <<modelVars, rowVars, eventVars, ui, workerVars, handlerVars, undefined, chosen>>

Torn == /\ job["repeated"].pc = "next"
        /\ job["repeated"].mode = "dbc"
        /\ job["repeated"].version # version

ReadTornCache ==
    /\ Torn
    /\ undefined' = TRUE
    /\ UNCHANGED <<modelVars, rowVars, eventVars, ui, workerVars, handlerVars, job, chosen>>

Starts(a, message, pc) ==
    job' = [job EXCEPT ![a].pc = pc, ![a].message = message, ![a].todo = Tail(@),
                       ![a].fired = {}, ![a].by = {}, ![a].verdict = Nil, ![a].latched = {}]

(* The next message: a raw frame as it is, of forEachPendingMessage() with values in their
   range, of forEachCachedMessage() with whatever the evaluators return. *)
NextMessage(a) ==
    /\ job[a].pc = "next"
    /\ job[a].todo # <<>>
    /\ a = "repeated" => ~Torn
    /\ LET m == Head(job[a].todo)
       IN \/ /\ job[a].mode = "raw"
             /\ Starts(a, m, "raw")
          \/ /\ job[a].mode = "dbc" /\ a = "ui"
             /\ \E v \in [SelectedSignals(m) -> InRange] :
                    /\ \A k \in SelectedSignals(m) : v[k] \in Evaluations(<<m.id, k>>)
                    /\ Starts(a, [id |-> m.id, values |-> v], "dbc")
          \/ /\ job[a].mode = "dbc" /\ a = "repeated"
             /\ \E v \in [DOMAIN m.values -> AllValues \cup InRange] :
                    /\ \A k \in DOMAIN m.values :
                           v[k] \in IF <<m.id, k>> \in DOMAIN evaluators THEN RowValues[k]
                                    ELSE {m.values[k]}
                    /\ Starts(a, [id |-> m.id, values |-> v], "dbc")
    /\ UNCHANGED <<modelVars, rowVars, eventVars, ui, workerVars, handlerVars, undefined, chosen>>

(* The codec: what matters here of an encoded message is which message it is. *)
Encode(m) == [id |-> m.id, dlc |-> Dlc[m.id], bits |-> {}]

(* inject() of the decoded message through the active handler, and its encoding. *)
InjectDbc(a) ==
    /\ job[a].pc = "dbc"
    /\ \E o \in Inject("dbc", handlers[active], job[a].message, {}) :
           /\ handlers' = [handlers EXCEPT ![active] = o[1]]
           /\ job' = [job EXCEPT ![a].pc = "raw", ![a].message = Encode(o[2]),
                                 ![a].fired = o[3], ![a].by = {active}]
    /\ users' = [users EXCEPT ![active] = @ \cup {a}]
    /\ UNCHANGED <<modelVars, rowVars, eventVars, ui, workerVars, active, undefined, chosen>>

InjectRaw(a) ==
    /\ job[a].pc = "raw"
    /\ \E o \in Inject("raw", handlers[active], job[a].message, job[a].fired) :
           /\ handlers' = [handlers EXCEPT ![active] = o[1]]
           /\ job' = [job EXCEPT ![a].pc = "evaluate", ![a].message = o[2], ![a].fired = o[3],
                                 ![a].by = @ \cup {active}]
    /\ users' = [users EXCEPT ![active] = @ \cup {a}]
    /\ UNCHANGED <<modelVars, rowVars, eventVars, ui, workerVars, active, undefined, chosen>>

(* evaluate(): the verdict decides what becomes of the frame. *)
Evaluate(a) ==
    /\ job[a].pc = "evaluate"
    /\ LET h == handlers[active]
           stages == IF job[a].mode = "raw" THEN {"raw"} ELSE Stages
       IN /\ job' = [job EXCEPT
                 ![a].pc = "next", ![a].verdict = Verdict(h), ![a].by = @ \cup {active},
                 ![a].latched = {r \in UNION {{g} \X DOMAIN h.latched[g] : g \in stages} :
                                    h.latched[r[1]][r[2]]}]
          /\ handlers' = [handlers EXCEPT ![active] = Evaluated(@)]
    /\ users' = [users EXCEPT ![active] = @ \cup {a}]
    /\ UNCHANGED <<modelVars, rowVars, eventVars, ui, workerVars, active, undefined, chosen>>

-----------------------------------------------------------------------------
(* The parsing thread queues what it found for the UI thread. *)
PostEvent(e) ==
    /\ posted < MaxEvents
    /\ posted' = posted + 1
    /\ events' = Append(events, e)
    /\ UNCHANGED <<modelVars, rowVars, ui, workerVars, handlerVars, job, undefined, chosen>>

(* Faulty UpdateDbcConfig: the evaluators are replaced one by one, not cleared. *)
UpdateDbcConfigKeepsEvaluators(d) ==
    /\ UiFree
    /\ events # <<>> /\ Head(events) = d
    /\ events' = Tail(events)
    /\ dbc' = d
    /\ selected' = {}
    /\ ui' = "populate"
    /\ UNCHANGED <<mode, raw, enabled, evaluators, cache, version, rowVars, posted, workerVars,
                   handlerVars, job, undefined, chosen>>

(* onDbcConfigReceived(): updateDbcConfig() forgets selection, values and evaluators ... *)
UpdateDbcConfig(d) ==
    /\ UiFree
    /\ events # <<>> /\ Head(events) = d
    /\ events' = Tail(events)
    /\ dbc' = d
    /\ selected' = {}
    /\ evaluators' = <<>>
    /\ ui' = "populate"
    /\ UNCHANGED <<mode, raw, enabled, cache, version, rowVars, posted, workerVars, handlerVars,
                   job, undefined, chosen>>

(* ... populateFromModel() dooms the rows and makes new ones with their evaluators ... *)
PopulateFromModel ==
    LET g == generation + 1
    IN /\ ui = "populate"
       /\ generation' = g
       /\ rows' = rows \cup Rows(g, dbc)
       /\ doomed' = rows
       /\ evaluators' = [k \in KeysOf(dbc) \cup DOMAIN evaluators |->
                            IF k \in KeysOf(dbc) THEN [generation |-> g, key |-> k]
                            ELSE evaluators[k]]
       /\ ui' = "cache"
       /\ UNCHANGED <<mode, raw, dbc, enabled, selected, cache, version, eventVars, workerVars,
                      handlerVars, job, undefined, chosen>>

(* Faulty RebuildCache: onDbcConfigReceived() leaves the messages of the old DBC in the cache. *)
NoRebuildCache ==
    /\ ui = "cache"
    /\ chosen' = {}
    /\ ui' = "idle"
    /\ UNCHANGED <<modelVars, rowVars, eventVars, workerVars, handlerVars, job, undefined>>

(* ... and the cache is rebuilt, while a repeated session may be reading it. *)
RebuildCache ==
    /\ ui = "cache"
    /\ BuildSendCache
    /\ chosen' = {}
    /\ ui' = "idle"
    /\ UNCHANGED <<mode, raw, dbc, enabled, selected, evaluators, rowVars, eventVars, workerVars,
                   handlerVars, job, undefined>>

(* onDbcParseError(): the evaluators first, then their rows; DBC and selection stay. *)
OnDbcParseError ==
    /\ UiFree
    /\ events # <<>> /\ Head(events) = Nil
    /\ events' = Tail(events)
    /\ evaluators' = <<>>
    /\ doomed' = rows
    /\ UNCHANGED <<mode, raw, dbc, enabled, selected, cache, version, rows, generation, posted, ui,
                   workerVars, handlerVars, job, undefined, chosen>>

(* The event loop deletes what deleteLater() was called for. *)
DeleteRows ==
    /\ UiFree
    /\ doomed # {}
    /\ rows' = rows \ doomed
    /\ doomed' = {}
    /\ UNCHANGED <<modelVars, generation, eventVars, ui, workerVars, handlerVars, job, undefined,
                   chosen>>

UserStep ==
    \/ \E m \in {"raw", "dbc"} : SetMode(m)
    \/ \E frame \in RawFrames : SetRaw(frame)
    \/ \E def \in ToSet(Definitions(dbc)), on \in BOOLEAN :
          \/ Select({<<def.id, s>> : s \in def.signals}, on)
          \/ \E s \in def.signals : Select({<<def.id, s>>}, on)
    \/ \E rules \in RuleLists : SendOnce(rules) \/ StartRepeated(rules)
    \/ StopRepeated

ThreadStep ==
    \/ BeginCycle
    \/ ReadTornCache
    \/ \E a \in Actors : EndOfLoop(a) \/ NextMessage(a) \/ InjectDbc(a) \/ InjectRaw(a) \/ Evaluate(a)

DbcStep ==
    \/ \E e \in Dbcs \cup {Nil} : PostEvent(e)
    \/ \E d \in Dbcs : UpdateDbcConfig(d)
    \/ PopulateFromModel
    \/ RebuildCache
    \/ OnDbcParseError
    \/ DeleteRows

Next ==
    /\ ~undefined
    /\ UserStep \/ Stopped \/ ThreadStep \/ DbcStep

Spec == Init /\ [][Next]_vars

-----------------------------------------------------------------------------

(* No evaluator reads a row that is deleted, or that the next turn of the event loop deletes:
   they are gone before the rows are doomed (updateDbcConfig() before populateFromModel(),
   clearEvaluators() before clearMessages()). *)
LiveEvaluators ==
    \A k \in DOMAIN evaluators : evaluators[k] \in rows \ doomed

(* When the UI thread is done the cache has only messages of the model's DBC, with signals they
   have: no frame of an old DBC is sent from a rebuilt view. *)
CacheIsOfDbc ==
    UiFree => \A i \in DOMAIN cache : \E def \in ToSet(Definitions(dbc)) :
        cache[i].id = def.id /\ DOMAIN cache[i].values \subseteq def.signals

(* A repeated session sends the selection it began with, whatever is selected, whichever view
   is shown and however often single messages are sent meanwhile. *)
SelectionIsFrozen ==
    (running /\ UiFree) =>
        UNION {{<<cache[i].id, s>> : s \in DOMAIN cache[i].values} : i \in DOMAIN cache} = chosen

(* Nothing the user does rebuilds the cache under the loop of a running session: only a DBC
   that arrives does. *)
OnlyDbcTears ==
    [][version' # version /\ job["repeated"].pc # "idle" => ui = "cache"]_vars

(* The verdict on a frame is the one its rules give (drop over everything, the longest delay,
   every insertion once), nothing is left over from an earlier frame, and rules that latched
   apply to it: for every frame whose handler no other thread used. *)
VerdictIsOfFrame ==
    \A a \in Actors : \A h \in job[a].by :
        (job[a].verdict # Nil /\ job[a].by = {h} /\ users[h] = {a}) =>
            LET expected == ExpectedVerdict(handlers[h].rules, job[a].fired)
                verdict == job[a].verdict
            IN /\ verdict.drop = expected.drop
               /\ verdict.delay = expected.delay
               /\ Len(verdict.insertions) = expected.insertions
               /\ job[a].latched \subseteq job[a].fired

=============================================================================
