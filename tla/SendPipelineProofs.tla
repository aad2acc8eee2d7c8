------------------------- MODULE SendPipelineProofs -------------------------
(***************************************************************************)
(* Proofs about SendPipeline, for every capacity and every bound.  The     *)
(* invariant is built in layers, each inductive relative to those before:  *)
(* TypeOK, then Control (what a program counter says about the consumer's  *)
(* item, the flags and the queue), then Identity (where an id can be), and *)
(* then the permits, which need Identity because an insertion grows the    *)
(* queue only if the item is not in it already.                            *)
(***************************************************************************)
EXTENDS SendPipeline, FiniteSetTheorems, TLAPS

\* The items a producer creates are items, for every batch size and base time.
LEMMA CreateType ==
  ASSUME TypeOK, NEW p \in Producers, NEW n \in Nat, NEW t \in Nat, Create(p, n, t)
  PROVE  /\ batch' \in [Producers -> Seq(Item)]
         /\ nextId' \in Nat
<1>1. NewItems(p, n, t) \in Seq(Item)
  <2>1. \A k \in 1..n : [id |-> nextId + k - 1, at |-> t, replayed |-> (p = "replay")] \in Item
    BY DEF Item, TypeOK
  <2>2. QED
    BY <2>1 DEF NewItems
<1>2. QED
  BY <1>1 DEF Create, TypeOK

\* What a push takes from a batch is an item, and the rest is a batch.
LEMMA BatchType ==
  ASSUME NEW s \in Seq(Item), s # <<>>
  PROVE  /\ Head(s) \in Item
         /\ Tail(s) \in Seq(Item)
OBVIOUS

\* A thread that is about to push has something to push, and the consumer has an item
\* at hand exactly from the pop to the call of onSend.
Ready ==
  /\ \A p \in Producers : pc[p] = "insert" => batch[p] # <<>>
  /\ IF pc["consumer"] \in {"off", "check", "acquire", "take"}
       THEN held = {}
       ELSE \E i \in held : held = {i}

\* A push by any producer preserves the types.
LEMMA PushType ==
  ASSUME TypeOK, Ready, NEW p \in Producers, Push(p)
  PROVE  TypeOK'
<1> USE DEF Goto, AfterItem, AfterBatch, Producers, Workers, ConsumerLabels, RepeatedLabels,
            ReplayLabels, UiLabels, consumerVars, flagVars, cycleVars, queueVars
<1>1. CASE PushInsert(p)
  <2>1. Head(batch[p]) \in Item /\ Tail(batch[p]) \in Seq(Item)
    BY <1>1, BatchType DEF PushInsert, Ready, TypeOK
  <2>2. IsFiniteSet(items \cup {Head(batch[p])})
    BY FS_AddElement DEF TypeOK
  <2>3. QED
    BY <1>1, <2>1, <2>2 DEF PushInsert, Insert, TypeOK
<1>2. CASE PushRelease(p)
  BY <1>2 DEF PushRelease, Release, TypeOK
<1>3. CASE PushEvict(p)
  <2>1. Head(batch[p]) \in Item /\ Tail(batch[p]) \in Seq(Item)
    BY <1>3, BatchType DEF PushEvict, Ready, TypeOK
  <2>2. PICK v \in items : Replace(Head(batch[p]), v) /\ lost' = lost \cup {v.id}
    BY <1>3 DEF PushEvict
  <2>3. IsFiniteSet((items \ {v}) \cup {Head(batch[p])})
    BY FS_RemoveElement, FS_AddElement DEF TypeOK
  <2>4. v.id \in Nat
    BY DEF TypeOK, Item
  <2>5. QED
    BY <1>3, <2>1, <2>2, <2>3, <2>4 DEF PushEvict, Replace, TypeOK
<1>4. QED
  BY <1>1, <1>2, <1>3 DEF Push, TryPush

\* A step of the consumer thread preserves the types.
LEMMA ConsumerType ==
  ASSUME TypeOK, Ready, Consumer
  PROVE  TypeOK'
<1> USE DEF Goto, Producers, Workers, ConsumerLabels, RepeatedLabels, ReplayLabels, UiLabels,
            consumerVars, flagVars, cycleVars, queueVars
<1>1. CASE ConsumerCheck
  BY <1>1 DEF ConsumerCheck, TypeOK
<1>2. CASE ConsumerAcquire
  BY <1>2 DEF ConsumerAcquire, Acquire, TypeOK
<1>3. CASE ConsumerTake
  <2>1. \A i \in items : i \in Item /\ IsFiniteSet(items \ {i})
    BY FS_RemoveElement DEF TypeOK
  <2>2. QED
    BY <1>3, <2>1 DEF ConsumerTake, Take, TypeOK
<1>4. CASE ConsumerWaited
  BY <1>4 DEF ConsumerWaited, TypeOK
<1>5. CASE ConsumerPeek
  BY <1>5 DEF ConsumerPeek, TypeOK
<1>6. CASE ConsumerRequeue
  <2>1. \A i \in held : i \in Item /\ IsFiniteSet(items \cup {i})
    BY FS_AddElement DEF TypeOK
  <2>2. QED
    BY <1>6, <2>1 DEF ConsumerRequeue, Insert, TypeOK
<1>7. CASE ConsumerRerelease
  BY <1>7 DEF ConsumerRerelease, Release, TypeOK
<1>8. CASE ConsumerDecide
  <2>1. Ids(held) \in SUBSET Nat
    BY DEF Ids, Item, TypeOK
  <2>2. CASE shouldStop["consumer"]
    <3>1. lost' \in SUBSET Nat /\ held' \in SUBSET Item
      BY <1>8, <2>1, <2>2 DEF ConsumerDecide, TypeOK
    <3>2. UNCHANGED <<queueVars, now, nextId, batch, sendError, sent, flagVars, cycleVars,
                      requests>>
      BY <1>8 DEF ConsumerDecide
    <3>3. pc' = [pc EXCEPT !["consumer"] = "off"]
      BY <1>8, <2>2 DEF ConsumerDecide
    <3>4. QED
      BY <3>1, <3>2, <3>3 DEF TypeOK
  <2>3. CASE ~shouldStop["consumer"]
    <3>1. /\ pc' = [pc EXCEPT !["consumer"] = "send"]
          /\ UNCHANGED <<queueVars, now, nextId, batch, held, sendError, sent, lost, flagVars,
                         cycleVars, requests>>
      BY <1>8, <2>3 DEF ConsumerDecide
    <3>2. QED
      BY <3>1 DEF TypeOK
  <2>4. QED
    BY <2>2, <2>3
<1>9. CASE ConsumerSend
  <2>1. sent' \in SUBSET Nat /\ held' \in SUBSET Item /\ sendError' \in BOOLEAN
    <3>1. Ids(held) \in SUBSET Nat
      BY DEF Ids, Item, TypeOK
    <3>2. /\ sent' = sent \cup Ids(held) /\ held' = {} /\ sendError' \in {sendError, TRUE}
      BY <1>9 DEF ConsumerSend
    <3>3. QED
      BY <3>1, <3>2 DEF TypeOK
  <2>2. /\ pc' = [pc EXCEPT !["consumer"] = "check"]
        /\ UNCHANGED <<queueVars, now, nextId, batch, flagVars, cycleVars, lost, requests>>
    BY <1>9 DEF ConsumerSend
  <2>3. QED
    BY <2>1, <2>2 DEF TypeOK
<1>10. QED
  BY <1>1, <1>2, <1>3, <1>4, <1>5, <1>6, <1>7, <1>8, <1>9 DEF Consumer

\* A step of the repeated producer's thread preserves the types.
LEMMA RepeatedType ==
  ASSUME TypeOK, Ready, Repeated
  PROVE  TypeOK'
<1> USE DEF Goto, Producers, Workers, ConsumerLabels, RepeatedLabels, ReplayLabels, UiLabels,
            consumerVars, flagVars, cycleVars, queueVars
<1>1. CASE RepeatedBegin
  BY <1>1 DEF RepeatedBegin, TypeOK
<1>2. CASE RepeatedRound
  <2>0. roundInterval' \in Intervals
    BY <1>2 DEF RepeatedRound, TypeOK
  <2>1. deadline' \in Nat
    BY <1>2, BoundsAssumption DEF RepeatedRound, TypeOK
  <2>2. batch' \in [Producers -> Seq(Item)] /\ nextId' \in Nat
    <3>1. CASE UNCHANGED <<batch, nextId>>
      BY <3>1 DEF TypeOK
    <3>2. CASE \E n \in 1..MaxBatch, d \in 0..MaxDelay : Create("repeated", n, deadline' + d)
      <4>1. PICK n \in 1..MaxBatch, d \in 0..MaxDelay : Create("repeated", n, deadline' + d)
        BY <3>2
      <4>2. n \in Nat /\ d \in Nat
        BY BoundsAssumption
      <4>3. \A t \in Nat : t + d \in Nat
        BY <4>2
      <4>4. QED
        BY <2>1, <4>1, <4>2, <4>3, CreateType
    <3>3. QED
      BY <1>2, <3>1, <3>2 DEF RepeatedRound
  <2>3. QED
    BY <1>2, <2>0, <2>1, <2>2 DEF RepeatedRound, TypeOK
<1>3. CASE RepeatedExit
  BY <1>3 DEF RepeatedExit, TypeOK
<1>4. CASE RepeatedPace
  <2>1. deadline' \in Nat
    BY <1>4, BoundsAssumption DEF RepeatedPace, TypeOK
  <2>2. QED
    BY <1>4, <2>1 DEF RepeatedPace, TypeOK
<1>5. CASE RepeatedWake
  BY <1>5 DEF RepeatedWake, TypeOK
<1>6. CASE Push("repeated")
  BY <1>6, PushType
<1>7. QED
  BY <1>1, <1>2, <1>3, <1>4, <1>5, <1>6 DEF Repeated

\* A step of the replay thread preserves the types.
LEMMA ReplayType ==
  ASSUME TypeOK, Ready, Replay
  PROVE  TypeOK'
<1> USE DEF Goto, Producers, Workers, ConsumerLabels, RepeatedLabels, ReplayLabels, UiLabels,
            consumerVars, flagVars, cycleVars, queueVars
<1>1. CASE ReplayFrame
  <2>1. PICK n \in 1..MaxBatch, d \in 0..MaxDelay : Create("replay", n, now + d)
    BY <1>1 DEF ReplayFrame
  <2>2. n \in Nat /\ now + d \in Nat
    BY BoundsAssumption DEF TypeOK
  <2>3. batch' \in [Producers -> Seq(Item)] /\ nextId' \in Nat
    BY <2>1, <2>2, CreateType
  <2>4. QED
    BY <1>1, <2>3 DEF ReplayFrame, TypeOK
<1>2. CASE ReplayAbandon
  <2>1. <<>> \in Seq(Item)
    OBVIOUS
  <2>2. QED
    BY <1>2, <2>1 DEF ReplayAbandon, TypeOK
<1>3. CASE ReplayEnd
  BY <1>3 DEF ReplayEnd, TypeOK
<1>4. CASE TryPush("replay")
  BY <1>4, PushType DEF Push
<1>5. QED
  BY <1>1, <1>2, <1>3, <1>4 DEF Replay

\* The part of TypeOK that is about threads.
ThreadsOK ==
  /\ pc \in [Producers \cup Workers -> ConsumerLabels \cup RepeatedLabels
                                         \cup ReplayLabels \cup UiLabels]
  /\ pc["consumer"] \in ConsumerLabels
  /\ pc["repeated"] \in RepeatedLabels
  /\ pc["replay"] \in ReplayLabels
  /\ pc["ui"] \in UiLabels
  /\ active \in [Workers -> BOOLEAN]
  /\ shouldStop \in [Workers -> BOOLEAN]

\* Asking a worker to stop leaves the threads well typed.
LEMMA RequestStopType ==
  ASSUME TypeOK, NEW w \in Workers, NEW label \in UiLabels, RequestStop(w, label)
  PROVE  ThreadsOK'
<1>1. pc' \in [Producers \cup Workers -> ConsumerLabels \cup RepeatedLabels
                                         \cup ReplayLabels \cup UiLabels]
  BY DEF RequestStop, Goto, TypeOK, Producers, Workers
<1>2. /\ pc'["consumer"] \in ConsumerLabels
      /\ pc'["repeated"] \in RepeatedLabels
      /\ pc'["replay"] \in ReplayLabels
      /\ pc'["ui"] \in UiLabels
  BY DEF RequestStop, Goto, TypeOK, Producers, Workers
<1>3. active' \in [Workers -> BOOLEAN] /\ shouldStop' \in [Workers -> BOOLEAN]
  BY DEF RequestStop, TypeOK
<1>4. QED
  BY <1>1, <1>2, <1>3 DEF ThreadsOK

\* Launching the replay thread leaves the threads well typed.
LEMMA LaunchType ==
  ASSUME TypeOK, Launch("replay", "run", "idle")
  PROVE  ThreadsOK'
<1>1. pc' \in [Producers \cup Workers -> ConsumerLabels \cup RepeatedLabels
                                         \cup ReplayLabels \cup UiLabels]
  BY DEF Launch, TypeOK, Producers, Workers, ReplayLabels, UiLabels
<1>2. /\ pc'["consumer"] \in ConsumerLabels
      /\ pc'["repeated"] \in RepeatedLabels
      /\ pc'["replay"] \in ReplayLabels
      /\ pc'["ui"] \in UiLabels
  BY DEF Launch, TypeOK, Producers, Workers, ReplayLabels, UiLabels
<1>3. active' \in [Workers -> BOOLEAN] /\ shouldStop' \in [Workers -> BOOLEAN]
  BY DEF Launch, TypeOK
<1>4. QED
  BY <1>1, <1>2, <1>3 DEF ThreadsOK

\* What the user asks for preserves the types.
LEMMA UserRequestType ==
  ASSUME TypeOK, UserRequest
  PROVE  TypeOK'
<1> USE DEF Goto, Producers, Workers, ConsumerLabels, RepeatedLabels, ReplayLabels, UiLabels,
            consumerVars, flagVars, cycleVars, queueVars, Request, Launch, RequestStop
<1>1. CASE SendOnce
  <2>1. PICK n \in 1..MaxBatch, d \in 0..MaxDelay : Create("ui", n, now + d)
    BY <1>1 DEF SendOnce
  <2>2. n \in Nat /\ now + d \in Nat
    BY BoundsAssumption DEF TypeOK
  <2>3. batch' \in [Producers -> Seq(Item)] /\ nextId' \in Nat
    BY <2>1, <2>2, CreateType
  <2>4. QED
    BY <1>1, <2>3 DEF SendOnce, TypeOK
<1>2. CASE StartConsuming
  BY <1>2 DEF StartConsuming, TypeOK
<1>3. CASE StopConsuming
  BY <1>3 DEF StopConsuming, TypeOK
<1>4. CASE StartRepeated
  BY <1>4 DEF StartRepeated, TypeOK
<1>5. CASE UpdateInterval
  BY <1>5 DEF UpdateInterval, TypeOK
<1>6. CASE StopRepeated
  BY <1>6 DEF StopRepeated, TypeOK
<1>7. CASE StartReplay
  <2>1. \/ RequestStop("repeated", "joinRepeatedThenReplay")
        \/ Launch("replay", "run", "idle")
    BY <1>7 DEF StartReplay
  <2>2. CASE RequestStop("repeated", "joinRepeatedThenReplay")
    <3>1. ThreadsOK'
      BY <2>2, RequestStopType DEF UiLabels, Workers
    <3>2. QED
      BY <1>7, <3>1 DEF StartReplay, ThreadsOK, TypeOK
  <2>3. CASE Launch("replay", "run", "idle")
    <3>1. ThreadsOK'
      BY <2>3, LaunchType
    <3>2. QED
      BY <1>7, <3>1 DEF StartReplay, ThreadsOK, TypeOK
  <2>4. QED
    BY <2>1, <2>2, <2>3
<1>8. CASE StopReplay
  BY <1>8 DEF StopReplay, TypeOK
<1>9. QED
  BY <1>1, <1>2, <1>3, <1>4, <1>5, <1>6, <1>7, <1>8 DEF UserRequest

\* What the UI thread does of its own accord preserves the types.
LEMMA UiProceedsType ==
  ASSUME TypeOK, Ready, UiProceeds
  PROVE  TypeOK'
<1> USE DEF Goto, Producers, Workers, ConsumerLabels, RepeatedLabels, ReplayLabels, UiLabels,
            consumerVars, flagVars, cycleVars, queueVars, RequestStop
<1>1. CASE Push("ui")
  BY <1>1, PushType
<1>2. CASE Interrupt
  BY <1>2 DEF Interrupt, Release, TypeOK
<1>3. CASE Join
  <2>1. PICK w \in Workers : Joined(w)
    BY <1>3 DEF Join
  <2>2. QED
    BY <1>3, <2>1 DEF Join, Joined, TypeOK
<1>4. CASE JoinThenReplay
  BY <1>4 DEF JoinThenReplay, TypeOK
<1>5. CASE TerminateConsumer
  <2>1. Ids(held) \in SUBSET Nat
    BY DEF Ids, Item, TypeOK
  <2>2. sent' \in SUBSET Nat /\ lost' \in SUBSET Nat
    BY <1>5, <2>1 DEF TerminateConsumer, TypeOK
  <2>3. QED
    BY <1>5, <2>2 DEF TerminateConsumer, TypeOK
<1>6. CASE TerminateRepeated
  BY <1>6 DEF TerminateRepeated, TypeOK
<1>7. CASE HandleSendError
  <2>1. \/ RequestStop("repeated", "joinRepeated")
        \/ UNCHANGED <<pc, flagVars>>
    BY <1>7 DEF HandleSendError
  <2>2. ThreadsOK'
    BY <2>1, RequestStopType DEF ThreadsOK, TypeOK
  <2>3. QED
    BY <1>7, <2>2 DEF HandleSendError, ThreadsOK, TypeOK
<1>8. QED
  BY <1>1, <1>2, <1>3, <1>4, <1>5, <1>6, <1>7 DEF UiProceeds

-----------------------------------------------------------------------------
(***************************************************************************)
(* The inductive invariant.                                                *)
(***************************************************************************)

\* While the consumer swaps items, the queue holds its copy or a newer item.
CopyInQueue == Swapping => items # {}

\* A worker that is not active has no thread.
InactiveMeansOff == \A w \in Workers : ~active[w] => pc[w] = "off"

\* The consumer is told to stop before the UI thread waits for it.
StopPrecedesJoin == pc["ui"] \in {"interrupt", "joinConsumer"} => shouldStop["consumer"]

\* The waiting loop ends when the item is due or when the consumer is told to stop.
DueOrStopping ==
  /\ pc["consumer"] = "due" => IsDue \/ shouldStop["consumer"]
  /\ pc["consumer"] = "send" => IsDue

\* While startReplay waits for repeated sending to stop, no replay runs.
ReplayWaits == pc["ui"] = "joinRepeatedThenReplay" => ~active["replay"]

Control ==
  /\ Ready
  /\ CopyInQueue
  /\ InactiveMeansOff
  /\ StopPrecedesJoin
  /\ ReplayWaits
  /\ DueOrStopping

Live == items \cup InHand

Gone == sent \cup lost

\* An id names one item: a live one, one that is gone, or one still to be pushed.
Identity ==
  /\ \A i \in Live : i.id < nextId /\ i.id \notin Gone
  /\ \A i, j \in Live : i.id = j.id => i = j
  /\ InHand \cap items = {}
  /\ \A n \in Gone : n < nextId
  /\ sent \cap lost = {}
  /\ \A p \in Producers : \A k \in DOMAIN batch[p] :
       /\ batch[p][k].id < nextId
       /\ batch[p][k].id \notin Gone
       /\ \A i \in Live : i.id # batch[p][k].id
  /\ \A p, q \in Producers : \A k \in DOMAIN batch[p], l \in DOMAIN batch[q] :
       batch[p][k].id = batch[q][l].id => p = q /\ k = l

Inv == TypeOK /\ Control /\ Identity /\ PermitsCoverItems

\* Creating items leaves a producer something to push, and the others what they had.
LEMMA CreateReady ==
  ASSUME TypeOK, NEW p \in Producers, NEW n \in 1..MaxBatch, NEW t \in Nat, Create(p, n, t)
  PROVE  /\ batch'[p] # <<>>
         /\ \A q \in Producers \ {p} : batch'[q] = batch[q]
<1>1. NewItems(p, n, t) # <<>>
  <2>1. 1 \in 1..n
    BY BoundsAssumption
  <2>2. DOMAIN NewItems(p, n, t) = 1..n
    BY DEF NewItems
  <2>3. QED
    BY <2>1, <2>2
<1>2. QED
  BY <1>1 DEF Create, TypeOK

\* A push keeps what Control says: it never empties the queue.
LEMMA PushControl ==
  ASSUME TypeOK, Control, NEW p \in Producers, Push(p)
  PROVE  Control'
<1> USE DEF Goto, Producers, Workers, consumerVars, flagVars, cycleVars, queueVars, Control, Ready,
            CopyInQueue, InactiveMeansOff, StopPrecedesJoin, ReplayWaits, DueOrStopping,
            Swapping, IsDue
<1> USE DEF AfterItem, AfterBatch
<1>1. CASE PushInsert(p)
  BY <1>1 DEF PushInsert, Insert, TypeOK
<1>2. CASE PushRelease(p)
  BY <1>2 DEF PushRelease, Release, TypeOK
<1>3. CASE PushEvict(p)
  BY <1>3 DEF PushEvict, Replace, TypeOK
<1>4. QED
  BY <1>1, <1>2, <1>3 DEF Push, TryPush

\* A step of the consumer thread keeps what Control says.
LEMMA ConsumerControl ==
  ASSUME TypeOK, Control, Consumer
  PROVE  Control'
<1> USE DEF Goto, Producers, Workers, consumerVars, flagVars, cycleVars, queueVars, Control, Ready,
            CopyInQueue, InactiveMeansOff, StopPrecedesJoin, ReplayWaits, DueOrStopping,
            Swapping, IsDue
<1>1. CASE ConsumerCheck
  BY <1>1 DEF ConsumerCheck, TypeOK
<1>2. CASE ConsumerAcquire
  BY <1>2 DEF ConsumerAcquire, Acquire, TypeOK
<1>3. CASE ConsumerTake
  <2>1. Ready'
    BY <1>3 DEF ConsumerTake, Take, Earliest, TypeOK
  <2>2. CopyInQueue' /\ DueOrStopping'
    BY <1>3 DEF ConsumerTake, Take, Earliest, TypeOK
  <2>3. InactiveMeansOff' /\ StopPrecedesJoin' /\ ReplayWaits'
    BY <1>3 DEF ConsumerTake, Take, Earliest, TypeOK
  <2>4. QED
    BY <2>1, <2>2, <2>3
<1>4. CASE ConsumerWaited
  BY <1>4 DEF ConsumerWaited, TypeOK
<1>5. CASE ConsumerPeek
  BY <1>5 DEF ConsumerPeek, TypeOK
<1>6. CASE ConsumerRequeue
  <2>1. Ready'
    BY <1>6 DEF ConsumerRequeue, Insert, TypeOK
  <2>2. CopyInQueue' /\ DueOrStopping'
    BY <1>6 DEF ConsumerRequeue, Insert, TypeOK
  <2>3. InactiveMeansOff' /\ StopPrecedesJoin' /\ ReplayWaits'
    BY <1>6 DEF ConsumerRequeue, Insert, TypeOK
  <2>4. QED
    BY <2>1, <2>2, <2>3
<1>7. CASE ConsumerRerelease
  BY <1>7 DEF ConsumerRerelease, Release, TypeOK
<1>8. CASE ConsumerDecide
  <2>1. Ready'
    BY <1>8 DEF ConsumerDecide, TypeOK
  <2>2. CopyInQueue' /\ DueOrStopping'
    BY <1>8 DEF ConsumerDecide, TypeOK
  <2>3. InactiveMeansOff' /\ StopPrecedesJoin' /\ ReplayWaits'
    BY <1>8 DEF ConsumerDecide, TypeOK
  <2>4. QED
    BY <2>1, <2>2, <2>3
<1>9. CASE ConsumerSend
  BY <1>9 DEF ConsumerSend, TypeOK
<1>10. QED
  BY <1>1, <1>2, <1>3, <1>4, <1>5, <1>6, <1>7, <1>8, <1>9 DEF Consumer

\* A step of the repeated producer keeps what Control says.
LEMMA RepeatedControl ==
  ASSUME TypeOK, Control, Repeated
  PROVE  Control'
<1> USE DEF Goto, Producers, Workers, consumerVars, flagVars, cycleVars, queueVars, Control, Ready,
            CopyInQueue, InactiveMeansOff, StopPrecedesJoin, ReplayWaits, DueOrStopping,
            Swapping, IsDue
<1>1. CASE RepeatedBegin
  BY <1>1 DEF RepeatedBegin, TypeOK
<1>2. CASE RepeatedRound
  <2>1. Ready'
    BY <1>2 DEF RepeatedRound, Create, NewItems, TypeOK
  <2>2. CopyInQueue' /\ DueOrStopping'
    BY <1>2 DEF RepeatedRound, Create, NewItems, TypeOK
  <2>3. InactiveMeansOff' /\ StopPrecedesJoin' /\ ReplayWaits'
    BY <1>2 DEF RepeatedRound, Create, NewItems, TypeOK
  <2>4. QED
    BY <2>1, <2>2, <2>3
<1>3. CASE RepeatedExit
  BY <1>3 DEF RepeatedExit, TypeOK
<1>4. CASE RepeatedPace
  BY <1>4 DEF RepeatedPace, TypeOK
<1>5. CASE RepeatedWake
  BY <1>5 DEF RepeatedWake, TypeOK
<1>6. CASE Push("repeated")
  BY <1>6, PushControl
<1>7. QED
  BY <1>1, <1>2, <1>3, <1>4, <1>5, <1>6 DEF Repeated

\* A step of the replay thread keeps what Control says.
LEMMA ReplayThreadControl ==
  ASSUME TypeOK, Control, Replay
  PROVE  Control'
<1> USE DEF Goto, Producers, Workers, consumerVars, flagVars, cycleVars, queueVars, Control, Ready,
            CopyInQueue, InactiveMeansOff, StopPrecedesJoin, ReplayWaits, DueOrStopping,
            Swapping, IsDue
<1>1. CASE ReplayFrame
  <2>1. PICK n \in 1..MaxBatch, d \in 0..MaxDelay : Create("replay", n, now + d)
    BY <1>1 DEF ReplayFrame
  <2>2. now + d \in Nat
    BY BoundsAssumption DEF TypeOK
  <2>3. batch'["replay"] # <<>> /\ \A q \in Producers \ {"replay"} : batch'[q] = batch[q]
    BY <2>1, <2>2, CreateReady
  <2>4. QED
    BY <1>1, <2>3 DEF ReplayFrame, TypeOK
<1>2. CASE ReplayAbandon
  BY <1>2 DEF ReplayAbandon, TypeOK
<1>3. CASE ReplayEnd
  BY <1>3 DEF ReplayEnd, TypeOK
<1>4. CASE TryPush("replay")
  BY <1>4, PushControl DEF Push
<1>5. QED
  BY <1>1, <1>2, <1>3, <1>4 DEF Replay

\* What the user asks for keeps what Control says.
LEMMA UserRequestControl ==
  ASSUME TypeOK, Control, UserRequest
  PROVE  Control'
<1> USE DEF Goto, Producers, Workers, consumerVars, flagVars, cycleVars, queueVars, Control, Ready,
            CopyInQueue, InactiveMeansOff, StopPrecedesJoin, ReplayWaits, DueOrStopping,
            Swapping, IsDue
<1> USE DEF Request, Launch, RequestStop
<1>1. CASE SendOnce
  <2>1. PICK n \in 1..MaxBatch, d \in 0..MaxDelay : Create("ui", n, now + d)
    BY <1>1 DEF SendOnce
  <2>2. now + d \in Nat
    BY BoundsAssumption DEF TypeOK
  <2>3. batch'["ui"] # <<>> /\ \A q \in Producers \ {"ui"} : batch'[q] = batch[q]
    BY <2>1, <2>2, CreateReady
  <2>4. QED
    BY <1>1, <2>3 DEF SendOnce, TypeOK
<1>2. CASE StartConsuming
  BY <1>2 DEF StartConsuming, TypeOK
<1>3. CASE StopConsuming
  BY <1>3 DEF StopConsuming, TypeOK
<1>4. CASE StartRepeated
  BY <1>4 DEF StartRepeated, TypeOK
<1>5. CASE UpdateInterval
  BY <1>5 DEF UpdateInterval, TypeOK
<1>6. CASE StopRepeated
  BY <1>6 DEF StopRepeated, TypeOK
<1>7. CASE StartReplay
  BY <1>7 DEF StartReplay, TypeOK
<1>8. CASE StopReplay
  BY <1>8 DEF StopReplay, TypeOK
<1>9. QED
  BY <1>1, <1>2, <1>3, <1>4, <1>5, <1>6, <1>7, <1>8 DEF UserRequest

\* What the UI thread does of its own accord keeps what Control says.
LEMMA UiProceedsControl ==
  ASSUME TypeOK, Control, UiProceeds
  PROVE  Control'
<1> USE DEF Goto, Producers, Workers, consumerVars, flagVars, cycleVars, queueVars, Control, Ready,
            CopyInQueue, InactiveMeansOff, StopPrecedesJoin, ReplayWaits, DueOrStopping,
            Swapping, IsDue
<1> USE DEF Request, Launch, RequestStop
<1>1. CASE Push("ui")
  BY <1>1, PushControl
<1>2. CASE Interrupt
  BY <1>2 DEF Interrupt, Release, TypeOK
<1>3. CASE Join
  BY <1>3 DEF Join, Joined, TypeOK
<1>4. CASE JoinThenReplay
  BY <1>4 DEF JoinThenReplay, TypeOK
<1>5. CASE TerminateConsumer
  BY <1>5 DEF TerminateConsumer, TypeOK
<1>6. CASE TerminateRepeated
  BY <1>6 DEF TerminateRepeated, TypeOK
<1>7. CASE HandleSendError
  BY <1>7 DEF HandleSendError, TypeOK
<1>8. QED
  BY <1>1, <1>2, <1>3, <1>4, <1>5, <1>6, <1>7 DEF UiProceeds

-----------------------------------------------------------------------------
(***************************************************************************)
(* The first two layers hold in every reachable state.                     *)
(***************************************************************************)

LEMMA InitControl == Init => TypeOK /\ Control
<1> SUFFICES ASSUME Init PROVE TypeOK /\ Control
  OBVIOUS
<1>1. TypeOK
  <2>1. items \in SUBSET Item /\ IsFiniteSet(items) /\ held \in SUBSET Item
    BY FS_EmptySet DEF Init, QueueInit
  <2>2. ThreadsOK
    BY DEF Init, ThreadsOK, Producers, Workers, ConsumerLabels, RepeatedLabels, ReplayLabels,
           UiLabels
  <2>3. batch \in [Producers -> Seq(Item)]
    BY DEF Init
  <2>4. QED
    BY <2>1, <2>2, <2>3 DEF Init, QueueInit, ThreadsOK, TypeOK
<1>2. Control
  BY DEF Init, Control, Ready, CopyInQueue, InactiveMeansOff, StopPrecedesJoin, ReplayWaits,
         DueOrStopping, Swapping, Producers, Workers
<1>3. QED
  BY <1>1, <1>2

LEMMA StepControl == TypeOK /\ Control /\ [Next]_vars => TypeOK' /\ Control'
<1> SUFFICES ASSUME TypeOK, Control, [Next]_vars PROVE TypeOK' /\ Control'
  OBVIOUS
<1>0. Ready
  BY DEF Control
<1>1. CASE Tick
  <2> USE <1>1 DEF Tick, consumerVars, flagVars, cycleVars, queueVars
  <2>1. TypeOK'
    BY DEF TypeOK
  <2>2. Control'
    BY DEF TypeOK, Control, Ready, CopyInQueue, InactiveMeansOff, StopPrecedesJoin, ReplayWaits,
           DueOrStopping, Swapping, IsDue, Item
  <2>3. QED
    BY <2>1, <2>2
<1>2. CASE Consumer
  BY <1>0, <1>2, ConsumerType, ConsumerControl
<1>3. CASE Repeated
  BY <1>0, <1>3, RepeatedType, RepeatedControl
<1>4. CASE Replay
  BY <1>0, <1>4, ReplayType, ReplayThreadControl
<1>5. CASE UserRequest
  BY <1>5, UserRequestType, UserRequestControl
<1>6. CASE UiProceeds
  BY <1>0, <1>6, UiProceedsType, UiProceedsControl
<1>7. CASE UNCHANGED vars
  <2> USE <1>7 DEF vars, consumerVars, flagVars, cycleVars, queueVars
  <2>1. TypeOK'
    BY DEF TypeOK
  <2>2. Control'
    BY DEF Control, Ready, CopyInQueue, InactiveMeansOff, StopPrecedesJoin, ReplayWaits,
           DueOrStopping, Swapping, IsDue
  <2>3. QED
    BY <2>1, <2>2
<1>8. QED
  BY <1>1, <1>2, <1>3, <1>4, <1>5, <1>6, <1>7 DEF Next

\* The state of the pipeline is well typed, whatever the capacity and the bounds.
THEOREM TypeCorrect == Spec => []TypeOK
<1>1. Init => TypeOK /\ Control
  BY InitControl
<1>2. TypeOK /\ Control /\ [Next]_vars => (TypeOK /\ Control)'
  BY StepControl
<1>3. QED
  BY <1>1, <1>2, PTL DEF Spec

LEMMA ControlHolds == Spec => []Control
<1>1. Init => TypeOK /\ Control
  BY InitControl
<1>2. TypeOK /\ Control /\ [Next]_vars => (TypeOK /\ Control)'
  BY StepControl
<1>3. QED
  BY <1>1, <1>2, PTL DEF Spec

\* onSend is called for no item before its time (NeverEarly): the waiting loop can end on
\* an empty pop, but a swap leaves the queue non-empty, so it ends only when it may.
THEOREM NeverEarlyHolds == Spec => []NeverEarly
<1>1. Control => NeverEarly
  BY DEF Control, DueOrStopping, IsDue, NeverEarly
<1>2. QED
  BY <1>1, ControlHolds, PTL

\* A stop function that has returned leaves no thread behind (StoppedMeansGone), also
\* when it gave up waiting and terminated the thread.
THEOREM StoppedMeansGoneHolds == Spec => []StoppedMeansGone
<1>1. Control => StoppedMeansGone
  BY DEF Control, InactiveMeansOff, StoppedMeansGone, Workers
<1>2. QED
  BY <1>1, ControlHolds, PTL

-----------------------------------------------------------------------------
(***************************************************************************)
(* Identity: what a step may do to the live items, the history and the     *)
(* batches.  Nearly every step is one of the three kinds below.            *)
(***************************************************************************)

\* Items that move between the queue and the consumer, or go, keep their identity.
LEMMA IdentityMove ==
  ASSUME Identity, Live' \subseteq Live, Gone' \subseteq Gone \cup Ids(Live \ Live'),
         InHand' \cap items' = {}, sent' \cap lost' = {}, UNCHANGED <<nextId, batch>>
  PROVE  Identity'
<1>1. \A n \in Gone' : n \in Gone \/ \E i \in Live \ Live' : n = i.id
  BY DEF Ids
<1>2. \A i \in Live' : i.id < nextId' /\ i.id \notin Gone'
  BY <1>1 DEF Identity
<1>3. \A i, j \in Live' : i.id = j.id => i = j
  BY DEF Identity
<1>4. \A n \in Gone' : n < nextId'
  BY <1>1 DEF Identity
<1>5. ASSUME NEW p \in Producers, NEW k \in DOMAIN batch'[p]
      PROVE  /\ batch'[p][k].id < nextId'
             /\ batch'[p][k].id \notin Gone'
             /\ \A i \in Live' : i.id # batch'[p][k].id
  BY <1>1, <1>5 DEF Identity
<1>6. \A p, q \in Producers : \A k \in DOMAIN batch'[p], l \in DOMAIN batch'[q] :
        batch'[p][k].id = batch'[q][l].id => p = q /\ k = l
  BY DEF Identity
<1>7. QED
  BY <1>2, <1>3, <1>4, <1>5, <1>6 DEF Identity

\* A stop that drops what the replay thread had still to push leaves the ids unique.
LEMMA IdentityDrop ==
  ASSUME TypeOK, Identity, batch' = [batch EXCEPT !["replay"] = <<>>],
         UNCHANGED <<items, InHand, sent, lost, nextId>>
  PROVE  Identity'
<1>1. \A p \in Producers : \A k \in DOMAIN batch'[p] :
        k \in DOMAIN batch[p] /\ batch'[p][k] = batch[p][k]
  BY DEF TypeOK
<1>2. Live' = Live /\ Gone' = Gone
  BY DEF Live, Gone
<1>3. QED
  BY <1>1, <1>2 DEF Identity

\* The item a producer pushes goes from its batch to the live ones.
LEMMA IdentityPush ==
  ASSUME TypeOK, Identity, NEW p \in Producers, batch[p] # <<>>,
         Live' \subseteq Live \cup {Head(batch[p])},
         Gone' \subseteq Gone \cup Ids(Live \ Live'),
         InHand' \cap items' = {}, sent' \cap lost' = {},
         batch' = [batch EXCEPT ![p] = Tail(@)], UNCHANGED nextId
  PROVE  Identity'
<1> DEFINE h == Head(batch[p])
<1>1. batch[p] \in Seq(Item) /\ batch[p] # <<>>
  BY DEF TypeOK
<1>2. 1 \in DOMAIN batch[p] /\ h = batch[p][1]
  BY <1>1
<1>3. \A k \in DOMAIN Tail(batch[p]) :
        k \in Nat \ {0} /\ k + 1 \in DOMAIN batch[p] /\ Tail(batch[p])[k] = batch[p][k + 1]
  BY <1>1
<1>4. \A q \in Producers \ {p} : batch'[q] = batch[q]
  BY DEF TypeOK
<1>5. batch'[p] = Tail(batch[p])
  BY DEF TypeOK
<1>6. h.id < nextId /\ h.id \notin Gone /\ \A i \in Live : i.id # h.id
  BY <1>2 DEF Identity
<1>7. \A n \in Gone' : n \in Gone \/ \E i \in Live \ Live' : n = i.id
  BY DEF Ids
<1>8. \A i \in Live' : i \in Live \/ i = h
  OBVIOUS
<1> HIDE DEF h
<1>9. \A i \in Live' : i.id < nextId' /\ i.id \notin Gone'
  BY <1>6, <1>7, <1>8 DEF Identity
<1>10. \A i, j \in Live' : i.id = j.id => i = j
  BY <1>6, <1>8 DEF Identity
<1>11. \A n \in Gone' : n < nextId'
  BY <1>7 DEF Identity
<1>12. \A q \in Producers : \A k \in DOMAIN batch'[q] :
         \E l \in DOMAIN batch[q] : /\ batch'[q][k] = batch[q][l]
                                    /\ q = p => l = k + 1
                                    /\ q # p => l = k
  BY <1>3, <1>4, <1>5
<1>13. \A q \in Producers : \A k \in DOMAIN batch'[q] : batch'[q][k].id # h.id
  <2>1. \A k \in DOMAIN batch'[p] : batch'[p][k].id # h.id
    <3>1. SUFFICES ASSUME NEW k \in DOMAIN batch'[p] PROVE batch'[p][k].id # h.id
      OBVIOUS
    <3>2. k \in DOMAIN Tail(batch[p]) /\ batch'[p][k] = Tail(batch[p])[k]
      BY <1>5
    <3>3. k \in Nat \ {0} /\ k + 1 \in DOMAIN batch[p] /\ batch'[p][k] = batch[p][k + 1]
      BY <1>3, <3>2
    <3>4. k + 1 # 1
      BY <3>3
    <3>5. QED
      BY <1>2, <3>3, <3>4 DEF Identity
  <2>2. \A q \in Producers \ {p} : \A k \in DOMAIN batch'[q] : batch'[q][k].id # h.id
    BY <1>2, <1>4 DEF Identity
  <2>3. QED
    BY <2>1, <2>2
<1>14. \A q \in Producers : \A k \in DOMAIN batch'[q] :
         /\ batch'[q][k].id < nextId'
         /\ batch'[q][k].id \notin Gone'
         /\ \A i \in Live' : i.id # batch'[q][k].id
  BY <1>7, <1>8, <1>12, <1>13 DEF Identity
<1>15. \A q, r \in Producers : \A k \in DOMAIN batch'[q], l \in DOMAIN batch'[r] :
         batch'[q][k].id = batch'[r][l].id => q = r /\ k = l
  BY <1>3, <1>4, <1>5 DEF Identity
<1>16. QED
  BY <1>9, <1>10, <1>11, <1>14, <1>15 DEF Identity

\* The items a producer creates have ids that no other item has or had.
LEMMA IdentityCreate ==
  ASSUME TypeOK, Identity, NEW p \in Producers, NEW n \in Nat, NEW t \in Nat, Create(p, n, t),
         UNCHANGED <<items, InHand, sent, lost>>
  PROVE  Identity'
<1>1. \A k \in 1..n : NewItems(p, n, t)[k].id = nextId + k - 1
  BY DEF NewItems
<1>2. DOMAIN NewItems(p, n, t) = 1..n
  BY DEF NewItems
<1>3. \A q \in Producers \ {p} : batch'[q] = batch[q]
  BY DEF Create, TypeOK
<1>4. batch'[p] = NewItems(p, n, t)
  BY DEF Create, TypeOK
<1>5. nextId' = nextId + n /\ nextId \in Nat
  BY DEF Create, TypeOK
<1>6. Live' = Live /\ Gone' = Gone
  BY DEF Live, Gone
<1>7. \A k \in DOMAIN batch'[p] :
        k \in 1..n /\ batch'[p][k].id = nextId + k - 1
  BY <1>1, <1>2, <1>4
<1>8. /\ \A i \in Live : i.id \in Nat
      /\ \A m \in Gone : m \in Nat
      /\ \A q \in Producers : \A k \in DOMAIN batch[q] : batch[q][k].id \in Nat
  <2>1. \A i \in Live : i.id \in Nat
    BY DEF TypeOK, Live, InHand, Item
  <2>2. \A m \in Gone : m \in Nat
    BY DEF TypeOK, Gone
  <2>3. \A i \in Item : i.id \in Nat
    BY DEF Item
  <2>4. \A q \in Producers : batch[q] \in Seq(Item)
    BY DEF TypeOK
  <2>5. \A q \in Producers : \A k \in DOMAIN batch[q] : batch[q][k] \in Item
    BY <2>4
  <2>6. QED
    BY <2>1, <2>2, <2>3, <2>5
<1>9. \A i \in Live' : i.id < nextId' /\ i.id \notin Gone'
  BY <1>5, <1>6, <1>8 DEF Identity
<1>10. \A m \in Gone' : m < nextId'
  BY <1>5, <1>6, <1>8 DEF Identity
<1>11. \A k \in DOMAIN batch'[p] :
         /\ batch'[p][k].id < nextId'
         /\ batch'[p][k].id \notin Gone'
         /\ \A i \in Live' : i.id # batch'[p][k].id
  BY <1>5, <1>6, <1>7, <1>8 DEF Identity
<1>12. \A q \in Producers \ {p} : \A k \in DOMAIN batch'[q] :
         /\ batch'[q][k].id < nextId /\ batch'[q][k].id < nextId'
         /\ batch'[q][k].id \notin Gone'
         /\ \A i \in Live' : i.id # batch'[q][k].id
  BY <1>3, <1>5, <1>6, <1>8 DEF Identity
<1>13. \A k \in DOMAIN batch'[p], l \in DOMAIN batch'[p] :
         batch'[p][k].id = batch'[p][l].id => k = l
  BY <1>5, <1>7
<1>14. \A q \in Producers \ {p} : \A k \in DOMAIN batch'[p], l \in DOMAIN batch'[q] :
         batch'[p][k].id # batch'[q][l].id
  BY <1>3, <1>5, <1>7, <1>8, <1>12
<1>15. \A q, r \in Producers \ {p} : \A k \in DOMAIN batch'[q], l \in DOMAIN batch'[r] :
         batch'[q][k].id = batch'[r][l].id => q = r /\ k = l
  BY <1>3 DEF Identity
<1>16. QED
  BY <1>6, <1>9, <1>10, <1>11, <1>12, <1>13, <1>14, <1>15 DEF Identity

\* A step that leaves items, history and batches alone leaves Identity alone.
LEMMA IdentitySame ==
  ASSUME Identity, UNCHANGED <<items, InHand, sent, lost, nextId, batch>>
  PROVE  Identity'
<1>1. Live' = Live /\ Gone' = Gone
  BY DEF Live, Gone
<1>2. QED
  BY <1>1, IdentityMove DEF Identity

\* Where the consumer's item is, is the consumer's business alone.
LEMMA InHandSame ==
  ASSUME pc'["consumer"] = pc["consumer"], held' = held
  PROVE  InHand' = InHand
BY DEF InHand, HoldsItem

\* The consumer's item is gone, sent or given up.
LEMMA IdentityGone ==
  ASSUME TypeOK, Control, Identity, HoldsItem, ~HoldsItem', UNCHANGED <<items, nextId, batch>>,
         \/ sent' = sent \cup Ids(held) /\ UNCHANGED lost
         \/ lost' = lost \cup Ids(held) /\ UNCHANGED sent
  PROVE  Identity'
<1>1. PICK i \in held : held = {i}
  BY DEF Control, Ready, HoldsItem
<1>2. InHand = {i} /\ InHand' = {}
  BY <1>1 DEF InHand
<1>3. i \notin items /\ i \in Live /\ i.id \notin Gone
  BY <1>2 DEF Identity, Live
<1>4. Live' = Live \ {i}
  BY <1>2, <1>3 DEF Live
<1>5. Ids(held) = {i.id}
  BY <1>1 DEF Ids
<1>6. Gone' \subseteq Gone \cup Ids(Live \ Live')
  BY <1>3, <1>4, <1>5 DEF Gone, Ids
<1>7. sent' \cap lost' = {}
  BY <1>3, <1>5 DEF Gone, Identity
<1>8. QED
  BY <1>2, <1>4, <1>6, <1>7, IdentityMove

LEMMA PushIdentity ==
  ASSUME TypeOK, Control, Identity, NEW p \in Producers, Push(p)
  PROVE  Identity'
<1> USE DEF Goto, AfterItem, AfterBatch, Producers, Workers, consumerVars, queueVars
<1>1. InHand' = InHand
  <2>1. pc'["consumer"] = pc["consumer"] /\ held' = held
    BY DEF Push, TryPush, PushInsert, PushRelease, PushEvict, TypeOK
  <2>2. QED
    BY <2>1, InHandSame
<1>2. pc[p] = "insert" => Head(batch[p]) \notin Live
  <2>1. SUFFICES ASSUME pc[p] = "insert" PROVE Head(batch[p]) \notin Live
    OBVIOUS
  <2>2. batch[p] \in Seq(Item) /\ batch[p] # <<>>
    BY <2>1 DEF TypeOK, Control, Ready
  <2>3. 1 \in DOMAIN batch[p] /\ Head(batch[p]) = batch[p][1]
    BY <2>2
  <2>4. QED
    BY <2>3 DEF Identity
<1>3. CASE PushInsert(p)
  <2>1. /\ items' = items \cup {Head(batch[p])}
        /\ batch[p] # <<>>
        /\ UNCHANGED <<sent, lost, nextId>>
        /\ batch' = [batch EXCEPT ![p] = Tail(@)]
    BY <1>3 DEF PushInsert, Insert, Control, Ready
  <2>2. Live' = Live \cup {Head(batch[p])}
    BY <1>1, <2>1 DEF Live
  <2>3. Gone' = Gone /\ sent' \cap lost' = {}
    BY <2>1 DEF Gone, Identity
  <2>4. InHand' \cap items' = {}
    BY <1>1, <1>2, <1>3, <2>1 DEF PushInsert, Identity, Live
  <2>5. QED
    BY <2>1, <2>2, <2>3, <2>4, IdentityPush
<1>4. CASE PushRelease(p)
  BY <1>1, <1>4, IdentitySame DEF PushRelease
<1>5. CASE PushEvict(p)
  <2>1. PICK v \in items : Replace(Head(batch[p]), v) /\ lost' = lost \cup {v.id}
    BY <1>5 DEF PushEvict
  <2>2. /\ items' = (items \ {v}) \cup {Head(batch[p])}
        /\ batch[p] # <<>>
        /\ pc[p] = "insert"
        /\ UNCHANGED <<sent, nextId>>
        /\ batch' = [batch EXCEPT ![p] = Tail(@)]
    BY <1>5, <2>1 DEF PushEvict, Replace, Control, Ready
  <2>3. v \in Live /\ v \notin InHand /\ v.id \notin Gone
    BY DEF Live, Identity
  <2>4. Live' = (Live \ {v}) \cup {Head(batch[p])}
    BY <1>1, <2>2, <2>3 DEF Live
  <2>5. Gone' = Gone \cup {v.id} /\ sent' \cap lost' = {}
    BY <2>1, <2>2, <2>3 DEF Gone, Identity
  <2>6. v \in Live \ Live'
    BY <1>2, <2>2, <2>3, <2>4
  <2>7. Gone' \subseteq Gone \cup Ids(Live \ Live')
    BY <2>5, <2>6 DEF Ids
  <2>8. InHand' \cap items' = {}
    BY <1>1, <1>2, <2>2 DEF Identity, Live
  <2>9. QED
    BY <2>2, <2>4, <2>5, <2>7, <2>8, IdentityPush
<1>6. QED
  BY <1>3, <1>4, <1>5 DEF Push, TryPush

LEMMA ConsumerIdentity ==
  ASSUME TypeOK, Control, Identity, Consumer
  PROVE  Identity'
<1> USE DEF Goto, Workers, consumerVars, queueVars
<1>1. CASE ConsumerCheck \/ ConsumerAcquire \/ ConsumerWaited \/ ConsumerPeek \/ ConsumerRerelease
  <2>1. UNCHANGED <<items, held, sent, lost, nextId, batch>>
    BY <1>1 DEF ConsumerCheck, ConsumerAcquire, ConsumerWaited, ConsumerPeek, ConsumerRerelease
  <2>2. HoldsItem' = HoldsItem
    BY <1>1 DEF ConsumerCheck, ConsumerAcquire, ConsumerWaited, ConsumerPeek,
                ConsumerRerelease, HoldsItem, TypeOK
  <2>3. InHand' = InHand
    BY <2>1, <2>2 DEF InHand
  <2>4. QED
    BY <2>1, <2>3, IdentitySame
<1>2. CASE ConsumerTake
  <2> USE <1>2 DEF ConsumerTake
  <2>1. InHand = {}
    BY DEF InHand, HoldsItem
  <2>2. UNCHANGED <<sent, lost, nextId, batch>>
    OBVIOUS
  <2>3. CASE items = {}
    <3>1. pc["consumer"] = "take" /\ pc'["consumer"] = "check" /\ UNCHANGED <<items, held>>
      BY <2>3 DEF TypeOK, Control, CopyInQueue, Swapping
    <3>2. InHand' = {}
      BY <3>1 DEF InHand, HoldsItem
    <3>3. QED
      BY <2>1, <2>2, <3>1, <3>2, IdentitySame
  <2>4. CASE items # {}
    <3>1. PICK i \in items : items' = items \ {i} /\ held' = {i} /\ pc'["consumer"] = "hold"
      BY <2>4 DEF Take, TypeOK
    <3>2. InHand' = {i}
      BY <3>1 DEF InHand, HoldsItem
    <3>3. Live' = Live /\ InHand' \cap items' = {} /\ Gone' = Gone
      BY <2>1, <2>2, <3>1, <3>2 DEF Live, Gone
    <3>4. QED
      BY <2>2, <3>3, IdentityMove DEF Identity
  <2>5. QED
    BY <2>3, <2>4
<1>3. CASE ConsumerRequeue
  <2> USE <1>3 DEF ConsumerRequeue
  <2>1. UNCHANGED <<sent, lost, nextId, batch, held>>
    OBVIOUS
  <2>2. CASE Full
    <3>1. InHand' = InHand /\ UNCHANGED items
      BY <2>1, <2>2 DEF InHand, HoldsItem, TypeOK
    <3>2. QED
      BY <2>1, <3>1, IdentitySame
  <2>3. CASE ~Full
    <3>1. PICK i \in held : held = {i}
      BY DEF Control, Ready
    <3>2. items' = items \cup {i} /\ pc'["consumer"] = "rerelease"
      BY <2>3, <3>1 DEF Insert, TypeOK
    <3>3. InHand = {i} /\ InHand' = {}
      BY <3>1, <3>2 DEF InHand, HoldsItem
    <3>4. Live' = Live /\ InHand' \cap items' = {} /\ Gone' = Gone
      BY <2>1, <3>2, <3>3 DEF Live, Gone
    <3>5. QED
      BY <2>1, <3>4, IdentityMove DEF Identity
  <2>4. QED
    BY <2>2, <2>3
<1>4. CASE ConsumerDecide
  <2> USE <1>4 DEF ConsumerDecide
  <2>1. HoldsItem /\ UNCHANGED <<items, nextId, batch, sent>>
    BY DEF HoldsItem
  <2>2. CASE shouldStop["consumer"]
    <3>1. ~HoldsItem' /\ lost' = lost \cup Ids(held)
      BY <2>2 DEF HoldsItem, TypeOK
    <3>2. QED
      BY <2>1, <3>1, IdentityGone
  <2>3. CASE ~shouldStop["consumer"]
    <3>1. HoldsItem' /\ UNCHANGED <<held, lost>>
      BY <2>3 DEF HoldsItem, TypeOK
    <3>2. InHand' = InHand
      BY <2>1, <3>1 DEF InHand
    <3>3. QED
      BY <2>1, <3>1, <3>2, IdentitySame
  <2>4. QED
    BY <2>2, <2>3
<1>5. CASE ConsumerSend
  <2>1. HoldsItem /\ ~HoldsItem' /\ UNCHANGED <<items, nextId, batch, lost>>
    BY <1>5 DEF ConsumerSend, HoldsItem, TypeOK
  <2>2. sent' = sent \cup Ids(held)
    BY <1>5 DEF ConsumerSend
  <2>3. QED
    BY <2>1, <2>2, IdentityGone
<1>6. QED
  BY <1>1, <1>2, <1>3, <1>4, <1>5 DEF Consumer

LEMMA RepeatedIdentity ==
  ASSUME TypeOK, Control, Identity, Repeated
  PROVE  Identity'
<1> USE DEF Goto, Producers, Workers, consumerVars, queueVars, cycleVars
<1>1. CASE RepeatedRound
  <2>1. UNCHANGED <<items, InHand, sent, lost>>
    BY <1>1, InHandSame DEF RepeatedRound, TypeOK
  <2>2. CASE UNCHANGED <<batch, nextId>>
    BY <2>1, <2>2, IdentitySame
  <2>3. CASE \E n \in 1..MaxBatch, d \in 0..MaxDelay : Create("repeated", n, deadline' + d)
    <3>1. PICK n \in 1..MaxBatch, d \in 0..MaxDelay : Create("repeated", n, deadline' + d)
      BY <2>3
    <3>2. n \in Nat /\ d \in Nat
      BY BoundsAssumption
    <3>3. deadline' \in Nat
      BY <1>1, RepeatedType DEF Repeated, TypeOK, Control
    <3>4. \A t \in Nat : t + d \in Nat
      BY <3>2
    <3>5. QED
      BY <2>1, <3>1, <3>2, <3>3, <3>4, IdentityCreate
  <2>4. QED
    BY <1>1, <2>2, <2>3 DEF RepeatedRound
<1>2. CASE Push("repeated")
  BY <1>2, PushIdentity
<1>3. CASE RepeatedBegin \/ RepeatedExit \/ RepeatedPace \/ RepeatedWake
  <2>1. UNCHANGED <<items, held, sent, lost, nextId, batch>>
    BY <1>3 DEF RepeatedBegin, RepeatedExit, RepeatedPace, RepeatedWake
  <2>2. pc'["consumer"] = pc["consumer"]
    BY <1>3 DEF RepeatedBegin, RepeatedExit, RepeatedPace, RepeatedWake, TypeOK
  <2>3. QED
    BY <2>1, <2>2, InHandSame, IdentitySame
<1>4. QED
  BY <1>1, <1>2, <1>3 DEF Repeated

LEMMA ReplayIdentity ==
  ASSUME TypeOK, Control, Identity, Replay
  PROVE  Identity'
<1> USE DEF Goto, Producers, Workers, consumerVars, queueVars, cycleVars
<1>1. CASE ReplayFrame
  <2>1. UNCHANGED <<items, InHand, sent, lost>>
    BY <1>1, InHandSame DEF ReplayFrame, TypeOK
  <2>2. PICK n \in 1..MaxBatch, d \in 0..MaxDelay : Create("replay", n, now + d)
    BY <1>1 DEF ReplayFrame
  <2>3. n \in Nat /\ now + d \in Nat
    BY BoundsAssumption DEF TypeOK
  <2>4. QED
    BY <2>1, <2>2, <2>3, IdentityCreate
<1>2. CASE ReplayAbandon
  <2>1. UNCHANGED <<items, InHand, sent, lost, nextId>>
    BY <1>2, InHandSame DEF ReplayAbandon, TypeOK
  <2>2. QED
    BY <1>2, <2>1, IdentityDrop DEF ReplayAbandon
<1>3. CASE ReplayEnd
  BY <1>3, InHandSame, IdentitySame DEF ReplayEnd, TypeOK
<1>4. CASE TryPush("replay")
  BY <1>4, PushIdentity DEF Push
<1>5. QED
  BY <1>1, <1>2, <1>3, <1>4 DEF Replay

LEMMA UiIdentity ==
  ASSUME TypeOK, Control, Identity, UserRequest \/ UiProceeds
  PROVE  Identity'
<1> USE DEF Goto, Producers, Workers, consumerVars, queueVars, cycleVars, Request, Launch,
            RequestStop
<1>1. CASE SendOnce
  <2>1. UNCHANGED <<items, InHand, sent, lost>>
    BY <1>1, InHandSame DEF SendOnce, TypeOK
  <2>2. PICK n \in 1..MaxBatch, d \in 0..MaxDelay : Create("ui", n, now + d)
    BY <1>1 DEF SendOnce
  <2>3. n \in Nat /\ now + d \in Nat
    BY BoundsAssumption DEF TypeOK
  <2>4. QED
    BY <2>1, <2>2, <2>3, IdentityCreate
<1>2. CASE StartConsuming
  <2>1. HoldsItem' = HoldsItem
    BY <1>2 DEF StartConsuming, HoldsItem, TypeOK, Control, InactiveMeansOff
  <2>2. UNCHANGED <<items, held, sent, lost, nextId, batch>>
    BY <1>2 DEF StartConsuming
  <2>3. QED
    BY <2>1, <2>2, IdentitySame DEF InHand
<1>3. CASE Push("ui")
  BY <1>3, PushIdentity
<1>4. CASE TerminateConsumer
  <2>1. HoldsItem /\ ~HoldsItem' /\ UNCHANGED <<items, nextId, batch>>
    BY <1>4 DEF TerminateConsumer, HoldsItem, TypeOK
  <2>2. \/ sent' = sent \cup Ids(held) /\ UNCHANGED lost
        \/ lost' = lost \cup Ids(held) /\ UNCHANGED sent
    BY <1>4 DEF TerminateConsumer
  <2>3. QED
    BY <2>1, <2>2, IdentityGone
<1>5. CASE \/ StopConsuming \/ StartRepeated \/ UpdateInterval \/ StopRepeated \/ StartReplay
           \/ StopReplay \/ Interrupt \/ Join \/ JoinThenReplay \/ TerminateRepeated
           \/ HandleSendError
  <2>1. UNCHANGED <<items, held, sent, lost, nextId, batch>>
    BY <1>5 DEF StopConsuming, StartRepeated, UpdateInterval, StopRepeated, StartReplay,
                StopReplay, Interrupt, Join, JoinThenReplay, TerminateRepeated, HandleSendError
  <2>2. pc'["consumer"] = pc["consumer"]
    BY <1>5 DEF StopConsuming, StartRepeated, UpdateInterval, StopRepeated, StartReplay,
                StopReplay, Interrupt, Join, Joined, JoinThenReplay, TerminateRepeated,
                HandleSendError, TypeOK
  <2>3. QED
    BY <2>1, <2>2, InHandSame, IdentitySame
<1>6. QED
  BY <1>1, <1>2, <1>3, <1>4, <1>5 DEF UserRequest, UiProceeds

LEMMA StepIdentity ==
  ASSUME TypeOK, Control, Identity, [Next]_vars
  PROVE  Identity'
<1>1. CASE Tick \/ UNCHANGED vars
  <2>1. UNCHANGED <<items, held, sent, lost, nextId, batch, pc>>
    BY <1>1 DEF Tick, vars, consumerVars, queueVars
  <2>2. QED
    BY <2>1, InHandSame, IdentitySame
<1>2. QED
  BY <1>1, ConsumerIdentity, RepeatedIdentity, ReplayIdentity, UiIdentity DEF Next

LEMMA InitIdentity == Init => Identity
BY DEF Init, QueueInit, Identity, Live, Gone, InHand, HoldsItem, Producers, Workers

LEMMA IdentityHolds == Spec => []Identity
<1>1. Init => TypeOK /\ Control /\ Identity
  BY InitControl, InitIdentity
<1>2. TypeOK /\ Control /\ Identity /\ [Next]_vars => (TypeOK /\ Control /\ Identity)'
  BY StepControl, StepIdentity
<1>3. QED
  BY <1>1, <1>2, PTL DEF Spec

\* No item is handed to onSend twice, or after it was evicted (AtMostOnce), whatever the
\* threads do between the moment the consumer puts a copy back and takes the next item.
THEOREM AtMostOnceHolds == Spec => []AtMostOnce
<1>1. Identity => AtMostOnce
  BY DEF Identity, AtMostOnce, Live, Gone, Ids
<1>2. QED
  BY <1>1, IdentityHolds, PTL

-----------------------------------------------------------------------------
(***************************************************************************)
(* The permits.  An insertion grows the queue by one, because the item is  *)
(* not in it (Identity), and puts one permit under way; a removal uses one *)
(* that is under way; every other step moves permits or adds one.          *)
(***************************************************************************)

LEMMA UnderwayType == ASSUME TypeOK PROVE PermitsUnderway \in Nat
BY DEF PermitsUnderway, One

LEMMA PermitsPush ==
  ASSUME TypeOK, Control, Identity, PermitsCoverItems, NEW p \in Producers, Push(p)
  PROVE  PermitsCoverItems'
<1> USE DEF Goto, AfterItem, AfterBatch, Producers, Workers
<1>1. permits \in Nat /\ Cardinality(items) \in Nat
  BY FS_CardinalityType DEF TypeOK
<1>2. pc[p] = "insert" => Head(batch[p]) \notin items
  <2>1. SUFFICES ASSUME pc[p] = "insert" PROVE Head(batch[p]) \notin items
    OBVIOUS
  <2>2. batch[p] \in Seq(Item) /\ batch[p] # <<>>
    BY <2>1 DEF TypeOK, Control, Ready
  <2>3. 1 \in DOMAIN batch[p] /\ Head(batch[p]) = batch[p][1]
    BY <2>2
  <2>4. QED
    BY <2>3 DEF Identity, Live
<1>3. CASE PushInsert(p)
  <2>1. Cardinality(items') = Cardinality(items) + 1 /\ permits' = permits
    BY <1>2, <1>3, FS_AddElement DEF PushInsert, Insert, TypeOK
  <2>2. PermitsUnderway' = PermitsUnderway + 1
    BY <1>3 DEF PushInsert, PermitsUnderway, One, TypeOK
  <2>3. QED
    BY <1>1, <2>1, <2>2, UnderwayType DEF PermitsCoverItems
<1>4. CASE PushRelease(p)
  <2>1. items' = items /\ permits' = permits + 1
    BY <1>4 DEF PushRelease, Release
  <2>2. PermitsUnderway = PermitsUnderway' + 1
    BY <1>4 DEF PushRelease, PermitsUnderway, One, TypeOK
  <2>3. PermitsUnderway' \in Nat
    BY DEF PermitsUnderway, One
  <2>4. QED
    BY <1>1, <2>1, <2>2, <2>3 DEF PermitsCoverItems
<1>5. CASE PushEvict(p)
  <2>1. PICK v \in items : Replace(Head(batch[p]), v)
    BY <1>5 DEF PushEvict
  <2>2. /\ IsFiniteSet(items \ {v})
        /\ Cardinality(items \ {v}) = Cardinality(items) - 1
    BY FS_RemoveElement DEF TypeOK
  <2>3. Cardinality(items') = Cardinality(items \ {v}) + 1
    BY <1>2, <1>5, <2>1, <2>2, FS_AddElement DEF PushEvict, Replace
  <2>4. Cardinality(items') = Cardinality(items) /\ permits' = permits
    BY <1>1, <1>5, <2>2, <2>3 DEF PushEvict
  <2>5. PermitsUnderway' = PermitsUnderway
    BY <1>5 DEF PushEvict, PermitsUnderway, One, TypeOK
  <2>6. QED
    BY <2>4, <2>5 DEF PermitsCoverItems
<1>6. QED
  BY <1>3, <1>4, <1>5 DEF Push, TryPush

LEMMA PermitsConsumer ==
  ASSUME TypeOK, Control, Identity, PermitsCoverItems, Consumer
  PROVE  PermitsCoverItems'
<1> USE DEF Goto, Producers, Workers, queueVars
<1>1. /\ permits \in Nat /\ Cardinality(items) \in Nat
      /\ PermitsUnderway \in Nat /\ PermitsUnderway' \in Nat
  BY FS_CardinalityType, UnderwayType DEF TypeOK, PermitsUnderway, One
<1>2. CASE ConsumerCheck \/ ConsumerWaited \/ ConsumerPeek \/ ConsumerDecide \/ ConsumerSend
  <2>1. UNCHANGED <<items, permits>>
    BY <1>2 DEF ConsumerCheck, ConsumerWaited, ConsumerPeek, ConsumerDecide, ConsumerSend
  <2>2. PermitsUnderway' = PermitsUnderway
    BY <1>2 DEF ConsumerCheck, ConsumerWaited, ConsumerPeek, ConsumerDecide, ConsumerSend,
                PermitsUnderway, One, TypeOK
  <2>3. QED
    BY <2>1, <2>2 DEF PermitsCoverItems
<1>3. CASE ConsumerAcquire
  <2>1. items' = items /\ permits = permits' + 1 /\ permits' \in Nat
    BY <1>1, <1>3 DEF ConsumerAcquire, Acquire
  <2>2. PermitsUnderway' = PermitsUnderway + 1
    BY <1>3 DEF ConsumerAcquire, PermitsUnderway, One, TypeOK
  <2>3. QED
    BY <1>1, <2>1, <2>2 DEF PermitsCoverItems
<1>4. CASE ConsumerTake
  <2>1. permits' = permits /\ PermitsUnderway = PermitsUnderway' + 1
    BY <1>4 DEF ConsumerTake, PermitsUnderway, One, TypeOK
  <2>2. CASE items = {}
    <3>1. Cardinality(items') = 0
      BY <1>4, <2>2, FS_EmptySet DEF ConsumerTake
    <3>2. \A m, n \in Nat : 0 <= m + n
      OBVIOUS
    <3>3. QED
      BY <1>1, <2>1, <3>1, <3>2 DEF PermitsCoverItems
  <2>3. CASE items # {}
    <3>1. PICK i \in items : items' = items \ {i}
      BY <1>4, <2>3 DEF ConsumerTake, Take
    <3>2. Cardinality(items') = Cardinality(items) - 1
      BY <3>1, FS_RemoveElement DEF TypeOK
    <3>3. QED
      BY <1>1, <2>1, <3>2 DEF PermitsCoverItems
  <2>4. QED
    BY <2>2, <2>3
<1>5. CASE ConsumerRequeue
  <2>1. permits' = permits
    BY <1>5 DEF ConsumerRequeue
  <2>2. CASE Full
    <3>1. items' = items /\ PermitsUnderway' = PermitsUnderway
      BY <1>5, <2>2 DEF ConsumerRequeue, PermitsUnderway, One, TypeOK
    <3>2. QED
      BY <2>1, <3>1 DEF PermitsCoverItems
  <2>3. CASE ~Full
    <3>1. PICK i \in held : items' = items \cup {i}
      BY <1>5, <2>3 DEF ConsumerRequeue, Insert
    <3>2. i \notin items
      BY <1>5 DEF ConsumerRequeue, Identity, InHand, HoldsItem
    <3>3. Cardinality(items') = Cardinality(items) + 1
      BY <3>1, <3>2, FS_AddElement DEF TypeOK
    <3>4. PermitsUnderway' = PermitsUnderway + 1
      BY <1>5, <2>3 DEF ConsumerRequeue, PermitsUnderway, One, TypeOK
    <3>5. QED
      BY <1>1, <2>1, <3>3, <3>4 DEF PermitsCoverItems
  <2>4. QED
    BY <2>2, <2>3
<1>6. CASE ConsumerRerelease
  <2>1. items' = items /\ permits' = permits + 1
    BY <1>6 DEF ConsumerRerelease, Release
  <2>2. PermitsUnderway = PermitsUnderway' + 1
    BY <1>6 DEF ConsumerRerelease, PermitsUnderway, One, TypeOK
  <2>3. QED
    BY <1>1, <2>1, <2>2 DEF PermitsCoverItems
<1>7. QED
  BY <1>2, <1>3, <1>4, <1>5, <1>6 DEF Consumer

\* A step in which no thread begins or ends to hold a permit, and none is taken.
LEMMA PermitsOther ==
  ASSUME TypeOK, PermitsCoverItems, UNCHANGED items,
         permits' \in {permits, permits + 1}, PermitsUnderway' = PermitsUnderway
  PROVE  PermitsCoverItems'
<1>1. permits \in Nat /\ Cardinality(items) \in Nat /\ PermitsUnderway \in Nat
  BY FS_CardinalityType, UnderwayType DEF TypeOK
<1>2. QED
  BY <1>1 DEF PermitsCoverItems

LEMMA StepPermits ==
  ASSUME TypeOK, Control, Identity, PermitsCoverItems, [Next]_vars
  PROVE  PermitsCoverItems'
<1> USE DEF Goto, Producers, Workers, queueVars
<1>1. CASE \/ RepeatedBegin \/ RepeatedRound \/ RepeatedExit \/ RepeatedPace \/ RepeatedWake
           \/ ReplayFrame \/ ReplayAbandon \/ ReplayEnd
  <2> USE <1>1 DEF RepeatedBegin, RepeatedRound, RepeatedExit, RepeatedPace, RepeatedWake,
                   ReplayFrame, ReplayAbandon, ReplayEnd
  <2>1. UNCHANGED <<items, permits>>
    OBVIOUS
  <2>2. PermitsUnderway' = PermitsUnderway
    BY DEF PermitsUnderway, One, TypeOK
  <2>3. QED
    BY <2>1, <2>2, PermitsOther
<1>2. CASE UserRequest
  <2> USE <1>2 DEF UserRequest, SendOnce, StartConsuming, StopConsuming, StartRepeated,
                   UpdateInterval, StopRepeated, StartReplay, StopReplay
  <2>1. UNCHANGED <<items, permits>>
    OBVIOUS
  <2>2. PermitsUnderway' = PermitsUnderway
    BY DEF Request, Launch, RequestStop, PermitsUnderway, One, TypeOK, Control, InactiveMeansOff
  <2>3. QED
    BY <2>1, <2>2, PermitsOther
<1>3. CASE \/ Interrupt \/ Join \/ JoinThenReplay \/ TerminateConsumer \/ TerminateRepeated
           \/ HandleSendError
  <2> USE <1>3 DEF Interrupt, Join, JoinThenReplay, TerminateConsumer, TerminateRepeated,
                   HandleSendError
  <2>1. UNCHANGED items /\ permits' \in {permits, permits + 1}
    BY DEF Release
  <2>2. PermitsUnderway' = PermitsUnderway
    <3> USE DEF RequestStop, Joined, PermitsUnderway, One, TypeOK
    <3>1. CASE Interrupt
      BY <3>1 DEF Interrupt
    <3>2. CASE Join
      <4>1. pc["ui"] # "release" /\ pc' = [pc EXCEPT !["ui"] = "idle"]
        BY <3>2 DEF Join
      <4>2. QED
        BY <4>1
    <3>3. CASE JoinThenReplay
      BY <3>3 DEF JoinThenReplay, Control, ReplayWaits, InactiveMeansOff
    <3>4. CASE TerminateConsumer \/ TerminateRepeated
      BY <3>4 DEF TerminateConsumer, TerminateRepeated
    <3>5. CASE HandleSendError
      BY <3>5 DEF HandleSendError, flagVars
    <3>6. QED
      BY <1>3, <3>1, <3>2, <3>3, <3>4, <3>5
  <2>3. QED
    BY <2>1, <2>2, PermitsOther
<1>4. CASE Tick \/ UNCHANGED vars
  <2>1. UNCHANGED <<items, permits, pc>>
    BY <1>4 DEF Tick, vars
  <2>2. PermitsUnderway' = PermitsUnderway
    BY <2>1 DEF PermitsUnderway
  <2>3. QED
    BY <2>1, <2>2, PermitsOther
<1>5. QED
  BY <1>1, <1>2, <1>3, <1>4, PermitsPush, PermitsConsumer
  DEF Next, Repeated, Replay, UiProceeds, Push

LEMMA InitPermits == Init => PermitsCoverItems
BY FS_EmptySet DEF Init, QueueInit, PermitsCoverItems, PermitsUnderway, One, Producers, Workers

LEMMA InvHolds == Spec => []Inv
<1>1. Init => Inv
  BY InitControl, InitIdentity, InitPermits DEF Inv
<1>2. Inv /\ [Next]_vars => Inv'
  BY StepControl, StepIdentity, StepPermits DEF Inv
<1>3. QED
  BY <1>1, <1>2, PTL DEF Spec

\* No permit is lost (PermitsCoverItems): through insertions, evictions, swaps and
\* interrupts, every queued item has a permit, so it can be popped.
THEOREM PermitsCoverItemsHolds == Spec => []PermitsCoverItems
<1>1. Inv => PermitsCoverItems
  BY DEF Inv
<1>2. QED
  BY <1>1, InvHolds, PTL

-----------------------------------------------------------------------------
(***************************************************************************)
(* SendPipeline implements TimedDelivery.                                  *)
(***************************************************************************)

\* A step that moves no frame in or out of the pipeline starts or stops it, or stutters.
LEMMA SameFrames ==
  ASSUME TypeOK', UNCHANGED <<now, Live, sent, lost>>
  PROVE  Abstract!StartOrStop
BY DEF Abstract!StartOrStop, Live, TypeOK, Workers

\* TimedDelivery counts frames as this module does.
LEMMA SameCardinality == \A S : Abstract!Cardinality(S) = Cardinality(S)
BY DEF Abstract!Cardinality, Cardinality

\* The item a producer is about to push is new to the pipeline.
LEMMA HeadIsNew ==
  ASSUME TypeOK, Control, Identity, NEW p \in Producers, pc[p] = "insert"
  PROVE  Head(batch[p]).id \notin Gone /\ \A i \in Live : i.id # Head(batch[p]).id
<1>1. batch[p] \in Seq(Item) /\ batch[p] # <<>>
  BY DEF TypeOK, Control, Ready
<1>2. 1 \in DOMAIN batch[p] /\ Head(batch[p]) = batch[p][1]
  BY <1>1
<1>3. QED
  BY <1>2 DEF Identity

\* The pipeline holds what is queued and at most one item more.
LEMMA LiveCount ==
  ASSUME TypeOK, Control, Identity
  PROVE  /\ Cardinality(items) \in Nat /\ Cardinality(Live) \in Nat
         /\ Cardinality(items) <= Cardinality(Live)
         /\ Cardinality(Live) <= Cardinality(items) + 1
<1>1. IsFiniteSet(items) /\ Cardinality(items) \in Nat
  BY FS_CardinalityType DEF TypeOK
<1>2. CASE InHand = {}
  <2>1. Live = items
    BY <1>2 DEF Live
  <2>2. QED
    BY <1>1, <2>1
<1>3. CASE InHand # {}
  <2>1. PICK i \in held : InHand = {i}
    BY <1>3 DEF InHand, HoldsItem, Control, Ready
  <2>2. Live = items \cup {i} /\ i \notin items
    BY <2>1 DEF Live, Identity
  <2>3. Cardinality(Live) = Cardinality(items) + 1
    BY <1>1, <2>2, FS_AddElement
  <2>4. QED
    BY <1>1, <2>3
<1>4. QED
  BY <1>2, <1>3

LEMMA PushImplements ==
  ASSUME Inv, Inv', NEW p \in Producers, Push(p)
  PROVE  [Abstract!TDNext]_(Abstract!tdVars)
<1> DEFINE h == Head(batch[p])
<1> USE DEF Goto, AfterItem, AfterBatch, Producers, Workers, consumerVars, queueVars, flagVars
<1>1. InHand' = InHand /\ UNCHANGED <<now, sent, shouldStop>>
  <2>1. pc'["consumer"] = pc["consumer"] /\ held' = held
    BY DEF Push, TryPush, PushInsert, PushRelease, PushEvict, TypeOK, Inv
  <2>2. UNCHANGED <<now, sent, shouldStop>>
    BY DEF Push, TryPush, PushInsert, PushRelease, PushEvict
  <2>3. QED
    BY <2>1, <2>2, InHandSame
<1>2. pc[p] = "insert" => h \notin Live /\ Abstract!IsNew(h)
  BY HeadIsNew DEF Abstract!IsNew, Live, Gone, Inv
<1> HIDE DEF h
<1>3. CASE PushInsert(p)
  <2>1. pc[p] = "insert" /\ ~Full /\ items' = items \cup {h} /\ lost' = lost
    BY <1>3 DEF PushInsert, Insert, h
  <2>2. Live' = Live \cup {h} /\ h \in Live' \ Live
    BY <1>1, <1>2, <2>1 DEF Live
  <2>3. Cardinality(Live) <= Capacity
    BY <2>1, LiveCount, CapacityAssumption DEF Full, Inv
  <2>4. Abstract!Accept(h)
    <3>1. Abstract!IsNew(h) /\ UNCHANGED <<now, sent, lost, shouldStop["consumer"]>>
      BY <1>1, <1>2, <2>1
    <3>2. /\ Cardinality(items \cup InHand) <= Capacity
          /\ (items \cup InHand)' = (items \cup InHand) \cup {h}
      BY <2>2, <2>3 DEF Live
    <3>3. QED
      BY <3>1, <3>2, SameCardinality DEF Abstract!Accept
  <2>5. QED
    BY <2>2, <2>4 DEF Abstract!TDNext, Live
<1>4. CASE PushRelease(p)
  <2>1. UNCHANGED <<now, Live, sent, lost>>
    BY <1>1, <1>4 DEF PushRelease, Live
  <2>2. QED
    BY <2>1, SameFrames DEF Inv, Abstract!TDNext
<1>5. CASE PushEvict(p)
  <2>1. PICK v \in items : Replace(h, v) /\ lost' = lost \cup {v.id}
    BY <1>5 DEF PushEvict, h
  <2>2. pc[p] = "insert" /\ Full /\ items' = (items \ {v}) \cup {h}
    BY <1>5, <2>1 DEF PushEvict, Replace
  <2>3. v \in Live /\ v \notin InHand
    BY DEF Live, Identity, Inv
  <2>4. Live' = (Live \ {v}) \cup {h} /\ h \in Live' \ Live
    BY <1>1, <1>2, <2>2, <2>3 DEF Live
  <2>5. Cardinality(Live) >= Capacity
    BY <2>2, LiveCount, CapacityAssumption DEF Full, Inv
  <2>6. Abstract!Displace(h, v)
    <3>1. Abstract!IsNew(h) /\ UNCHANGED <<now, sent, shouldStop["consumer"]>>
      BY <1>1, <1>2, <2>2
    <3>2. /\ Cardinality(items \cup InHand) >= Capacity
          /\ (items \cup InHand)' = ((items \cup InHand) \ {v}) \cup {h}
      BY <2>4, <2>5 DEF Live
    <3>3. v \in items \cup InHand /\ lost' = lost \cup {v.id}
      BY <2>1
    <3>4. QED
      BY <3>1, <3>2, <3>3, SameCardinality DEF Abstract!Displace
  <2>7. QED
    BY <2>3, <2>4, <2>6 DEF Abstract!TDNext, Live
<1>6. QED
  BY <1>3, <1>4, <1>5 DEF Push, TryPush

\* The item in the consumer's hand goes, delivered on time or given up while stopping.
LEMMA GoneImplements ==
  ASSUME Inv, HoldsItem, ~HoldsItem', UNCHANGED <<now, items, shouldStop>>,
         \/ sent' = sent \cup Ids(held) /\ UNCHANGED lost /\ IsDue
         \/ lost' = lost \cup Ids(held) /\ UNCHANGED sent /\ shouldStop["consumer"]
  PROVE  Abstract!TDNext
<1>1. PICK i \in held : held = {i}
  BY DEF Inv, Control, Ready, HoldsItem
<1>2. InHand = {i} /\ InHand' = {}
  BY <1>1 DEF InHand
<1>3. i \in Live /\ i \notin items
  BY <1>2 DEF Live, Inv, Identity
<1>4. Live' = Live \ {i} /\ Ids(held) = {i.id}
  BY <1>1, <1>2, <1>3 DEF Live, Ids
<1>5. \/ sent' = sent \cup {i.id} /\ UNCHANGED lost /\ i.at <= now
      \/ lost' = lost \cup {i.id} /\ UNCHANGED sent /\ shouldStop["consumer"]
  BY <1>1, <1>4 DEF IsDue
<1>6. Abstract!Deliver(i) \/ Abstract!Discard(i)
  BY <1>3, <1>4, <1>5 DEF Abstract!Deliver, Abstract!Discard, Live
<1>7. QED
  BY <1>3, <1>6 DEF Abstract!TDNext, Live

LEMMA ConsumerImplements ==
  ASSUME Inv, Inv', Consumer
  PROVE  [Abstract!TDNext]_(Abstract!tdVars)
<1> USE DEF Goto, Workers, consumerVars, queueVars, flagVars
<1>1. CASE ConsumerSend
  <2>1. HoldsItem /\ ~HoldsItem' /\ UNCHANGED <<now, items, shouldStop, lost>>
    BY <1>1 DEF ConsumerSend, HoldsItem, TypeOK, Inv
  <2>2. sent' = sent \cup Ids(held) /\ IsDue
    BY <1>1 DEF ConsumerSend, Inv, Control, DueOrStopping
  <2>3. QED
    BY <2>1, <2>2, GoneImplements
<1>2. CASE ConsumerDecide /\ shouldStop["consumer"]
  <2>1. HoldsItem /\ ~HoldsItem' /\ UNCHANGED <<now, items, shouldStop, sent>>
    BY <1>2 DEF ConsumerDecide, HoldsItem, TypeOK, Inv
  <2>2. lost' = lost \cup Ids(held) /\ shouldStop["consumer"]
    BY <1>2 DEF ConsumerDecide
  <2>3. QED
    BY <2>1, <2>2, GoneImplements
<1>3. CASE ConsumerTake
  <2>1. UNCHANGED <<now, sent, lost>> /\ InHand = {}
    BY <1>3 DEF ConsumerTake, InHand, HoldsItem
  <2>2. CASE items = {}
    <3>1. items' = {} /\ pc'["consumer"] = "check"
      BY <1>3, <2>2 DEF ConsumerTake, TypeOK, Inv, Control, CopyInQueue, Swapping
    <3>2. InHand' = {}
      BY <3>1 DEF InHand, HoldsItem
    <3>3. QED
      BY <2>1, <2>2, <3>1, <3>2, SameFrames DEF Live, Inv, Abstract!TDNext
  <2>3. CASE items # {}
    <3>1. PICK i \in items : items' = items \ {i} /\ held' = {i} /\ pc'["consumer"] = "hold"
      BY <1>3, <2>3 DEF ConsumerTake, Take, TypeOK, Inv
    <3>2. InHand' = {i}
      BY <3>1 DEF InHand, HoldsItem
    <3>3. Live' = Live
      BY <2>1, <3>1, <3>2 DEF Live
    <3>4. QED
      BY <2>1, <3>3, SameFrames DEF Inv, Abstract!TDNext
  <2>4. QED
    BY <2>2, <2>3
<1>4. CASE ConsumerRequeue /\ ~Full
  <2>1. PICK i \in held : held = {i}
    BY <1>4 DEF ConsumerRequeue, Inv, Control, Ready
  <2>2. items' = items \cup {i} /\ pc'["consumer"] = "rerelease" /\ UNCHANGED <<now, sent, lost>>
    BY <1>4, <2>1 DEF ConsumerRequeue, Insert, TypeOK, Inv
  <2>3. InHand = {i} /\ InHand' = {}
    BY <1>4, <2>1, <2>2 DEF ConsumerRequeue, InHand, HoldsItem
  <2>4. Live' = Live
    BY <2>2, <2>3 DEF Live
  <2>5. QED
    BY <2>2, <2>4, SameFrames DEF Inv, Abstract!TDNext
<1>5. CASE \/ ConsumerCheck \/ ConsumerAcquire \/ ConsumerWaited \/ ConsumerPeek
           \/ ConsumerRerelease
           \/ ConsumerRequeue /\ Full
           \/ ConsumerDecide /\ ~shouldStop["consumer"]
  <2> USE <1>5 DEF ConsumerCheck, ConsumerAcquire, ConsumerWaited, ConsumerPeek,
                   ConsumerRerelease, ConsumerRequeue, ConsumerDecide
  <2>1. UNCHANGED <<now, items, held, sent, lost>>
    OBVIOUS
  <2>2. HoldsItem' = HoldsItem
    BY DEF HoldsItem, TypeOK, Inv
  <2>3. UNCHANGED Live
    BY <2>1, <2>2 DEF Live, InHand
  <2>4. QED
    BY <2>1, <2>3, SameFrames DEF Inv, Abstract!TDNext
<1>6. QED
  BY <1>1, <1>2, <1>3, <1>4, <1>5 DEF Consumer

\* The producers and the UI thread, when they push nothing.
LEMMA OthersImplement ==
  ASSUME Inv, Inv',
         \/ RepeatedBegin \/ RepeatedRound \/ RepeatedExit \/ RepeatedPace \/ RepeatedWake
         \/ ReplayFrame \/ ReplayAbandon \/ ReplayEnd
         \/ UserRequest
         \/ Interrupt \/ Join \/ JoinThenReplay \/ TerminateRepeated \/ HandleSendError
  PROVE  [Abstract!TDNext]_(Abstract!tdVars)
<1> USE DEF Goto, Producers, Workers, consumerVars, queueVars, flagVars, cycleVars, Request,
            Launch, RequestStop, UserRequest, RepeatedBegin, RepeatedRound, RepeatedExit,
            RepeatedPace, RepeatedWake, ReplayFrame, ReplayAbandon, ReplayEnd, SendOnce,
            StartConsuming, StopConsuming, StartRepeated, UpdateInterval, StopRepeated,
            StartReplay, StopReplay, Interrupt, Join, Joined, JoinThenReplay,
            TerminateRepeated, HandleSendError
<1>1. UNCHANGED <<now, items, held, sent, lost>>
  OBVIOUS
<1>2. HoldsItem' = HoldsItem
  <2>1. TypeOK /\ InactiveMeansOff
    BY DEF Inv, Control
  <2>2. QED
    BY <2>1 DEF HoldsItem, TypeOK, InactiveMeansOff
<1>3. UNCHANGED Live
  BY <1>1, <1>2 DEF Live, InHand
<1>4. QED
  BY <1>1, <1>3, SameFrames DEF Inv, Abstract!TDNext

LEMMA StepImplements ==
  ASSUME Inv, Inv', [Next]_vars
  PROVE  [Abstract!TDNext]_(Abstract!tdVars)
<1>1. CASE Tick
  <2>1. now' \in Nat /\ now' > now /\ UNCHANGED <<items, held, sent, lost, shouldStop, pc>>
    BY <1>1 DEF Tick, Inv, TypeOK, queueVars, consumerVars, flagVars
  <2>2. UNCHANGED Live
    BY <2>1, InHandSame DEF Live
  <2>3. Abstract!Advance
    BY <2>1, <2>2 DEF Abstract!Advance, Live
  <2>4. QED
    BY <2>3 DEF Abstract!TDNext
<1>2. CASE TerminateConsumer
  <2> USE DEF Goto, Producers, Workers, queueVars, flagVars
  <2>1. HoldsItem /\ ~HoldsItem' /\ UNCHANGED <<now, items, shouldStop>>
    BY <1>2 DEF TerminateConsumer, HoldsItem, TypeOK, Inv
  <2>2. \/ sent' = sent \cup Ids(held) /\ UNCHANGED lost
        \/ lost' = lost \cup Ids(held) /\ UNCHANGED sent
    BY <1>2 DEF TerminateConsumer
  <2>3. IsDue /\ shouldStop["consumer"]
    BY <1>2 DEF TerminateConsumer, Inv, Control, DueOrStopping, StopPrecedesJoin
  <2>4. QED
    BY <2>1, <2>2, <2>3, GoneImplements
<1>3. CASE UNCHANGED vars
  <2>1. UNCHANGED <<now, items, held, sent, lost, shouldStop, pc>>
    BY <1>3 DEF vars, queueVars, consumerVars, flagVars
  <2>2. UNCHANGED Live
    BY <2>1, InHandSame DEF Live
  <2>3. QED
    BY <2>1, <2>2 DEF Abstract!tdVars, Live
<1>4. QED
  BY <1>1, <1>2, <1>3, PushImplements, ConsumerImplements, OthersImplement
  DEF Next, Repeated, Replay, UiProceeds, Push, Producers

LEMMA InitImplements == Init => Abstract!TDInit
BY DEF Init, QueueInit, Abstract!TDInit, InHand, HoldsItem, Producers, Workers

\* The pipeline implements TimedDelivery: a frame is accepted only if it is new and there
\* is room for it or for the one it displaces, delivered once and on time, and given up
\* only when displaced or while stopping.
THEOREM ImplementsTimedDelivery == Spec => RefinesTimedDelivery
<1>1. Init => Abstract!TDInit
  BY InitImplements
<1>2. Inv /\ Inv' /\ [Next]_vars => [Abstract!TDNext]_(Abstract!tdVars)
  BY StepImplements
<1>3. QED
  BY <1>1, <1>2, InvHolds, PTL DEF Spec, RefinesTimedDelivery, Abstract!TDSpec
=============================================================================
