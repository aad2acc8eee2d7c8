---------------------------- MODULE SendPipeline ----------------------------
(***************************************************************************)
(* The sending pipeline of the Sending tab: the ScheduledItemQueue, the    *)
(* SendingConsumerWorker thread that takes items out and calls onSend when *)
(* they are due, and the three threads that put items in: the UI thread    *)
(* (send once, push), the RepeatedProducerWorker (push) and the            *)
(* ReplayProducerWorker (tryPush).  The UI thread also starts and stops    *)
(* the workers, and joins them.                                            *)
(*                                                                         *)
(* A step is what a thread does between two points where another thread    *)
(* can act: one critical section, one semaphore operation or one read of   *)
(* an atomic flag.  The items are abstract: an id, the time they are       *)
(* scheduled for and the thread they come from.  Time is a counter; how    *)
(* long a sleep or a guard band is is left open.                           *)
(*                                                                         *)
(* How a replay run is paused, ends and is restarted is ReplayControl's    *)
(* subject; here a run is a thread that pushes frames until it ends or is  *)
(* stopped.                                                                *)
(***************************************************************************)
EXTENDS ScheduledItemQueue, Sequences

CONSTANTS
  MaxTime,      \* bound: the clock stops here, and items are scheduled up to it
  MaxItems,     \* bound: how many items are ever created
  MaxBatch,     \* bound: items of one send, one round or one replayed frame
  MaxDelay,     \* bound: how far ahead of its base time an item is scheduled
  MaxRequests,  \* bound: how often the user asks for something
  Intervals     \* the cycle times the user can enter

ASSUME BoundsAssumption ==
  /\ MaxTime \in Nat /\ MaxItems \in Nat /\ MaxBatch \in Nat
  /\ MaxDelay \in Nat /\ MaxRequests \in Nat
  /\ Intervals \subseteq Nat \ {0}
  /\ Intervals # {}

Producers == {"ui", "repeated", "replay"}
Workers   == {"consumer", "repeated", "replay"}

Item == [id : Nat, at : Nat, replayed : BOOLEAN]

Ids(S) == {i.id : i \in S}

VARIABLES
  now,            \* Clock::now()
  nextId,         \* the id of the next item to be created
  pc,             \* where each thread is; "off" when it is not running
  batch,          \* the items each producer has still to push in this call
  held,           \* the consumer's local `item`: {} or {item}
  active,         \* m_isActive of each worker
  shouldStop,     \* m_shouldStop of each worker
  interval,       \* m_intervalUs
  roundInterval,  \* the repeated thread's local intervalNs
  deadline,       \* the repeated thread's local nextDeadline
  resetGuard,     \* m_resetGuard
  sendError,      \* an errorOccurred signal is queued for the UI thread
  sent,           \* history: the ids of the items whose onSend was called
  requests,       \* how often the user has asked for something
  lost            \* history: the ids of the items that were evicted or discarded

consumerVars == <<held, sendError, sent>>
cycleVars    == <<interval, roundInterval, deadline, resetGuard>>
flagVars     == <<active, shouldStop>>

vars == <<queueVars, now, nextId, pc, batch, consumerVars, flagVars, cycleVars,
          lost, requests>>

Goto(t, label) == pc' = [pc EXCEPT ![t] = label]

Init ==
  /\ QueueInit
  /\ now = 0
  /\ nextId = 1
  /\ pc = [t \in Producers \cup Workers |-> IF t = "ui" THEN "idle" ELSE "off"]
  /\ batch = [p \in Producers |-> <<>>]
  /\ held = {}
  /\ active = [w \in Workers |-> FALSE]
  /\ shouldStop = [w \in Workers |-> FALSE]
  /\ interval \in Intervals
  /\ roundInterval = interval
  /\ deadline = 0
  /\ resetGuard = FALSE
  /\ sendError = FALSE
  /\ sent = {}
  /\ lost = {}
  /\ requests = 0

Tick ==
  /\ now < MaxTime
  /\ now' = now + 1
  /\ UNCHANGED <<queueVars, nextId, pc, batch, consumerVars, flagVars, cycleVars,
                 lost, requests>>

-----------------------------------------------------------------------------
(***************************************************************************)
(* Creating and pushing items.                                             *)
(***************************************************************************)

NewItems(p, n, t) ==
  [k \in 1..n |-> [id |-> nextId + k - 1, at |-> t, replayed |-> (p = "replay")]]

\* Producer p makes n items scheduled for time t and starts to push them.
Create(p, n, t) ==
  /\ nextId + n <= MaxItems + 1
  /\ t <= MaxTime
  /\ batch' = [batch EXCEPT ![p] = NewItems(p, n, t)]
  /\ nextId' = nextId + n

\* Where a producer goes on when it has pushed the last item of a batch.
AfterBatch(p) ==
  CASE p = "ui" -> "idle" [] p = "repeated" -> "pace" [] p = "replay" -> "run"

AfterItem(p, rest) == IF rest = <<>> THEN AfterBatch(p) ELSE "insert"

\* Faulty PushInsert: the permit of the new item is never released.
PushInsertNoPermit(p) ==
  /\ pc[p] = "insert"
  /\ Insert(Head(batch[p]))
  /\ batch' = [batch EXCEPT ![p] = Tail(@)]
  /\ Goto(p, AfterItem(p, Tail(batch[p])))
  /\ UNCHANGED <<permits, now, nextId, consumerVars, flagVars, cycleVars, lost, requests>>

\* push and tryPush into a queue with room: the permit is still to be released.
PushInsert(p) ==
  /\ pc[p] = "insert"
  /\ Insert(Head(batch[p]))
  /\ batch' = [batch EXCEPT ![p] = Tail(@)]
  /\ Goto(p, "release")
  /\ UNCHANGED <<permits, now, nextId, consumerVars, flagVars, cycleVars, lost, requests>>

\* push into a full queue: the earliest item is evicted, and no permit is released.
PushEvict(p) ==
  /\ pc[p] = "insert"
  /\ \E victim \in items :
       /\ Replace(Head(batch[p]), victim)
       /\ lost' = lost \cup {victim.id}
  /\ batch' = [batch EXCEPT ![p] = Tail(@)]
  /\ Goto(p, AfterItem(p, Tail(batch[p])))
  /\ UNCHANGED <<permits, now, nextId, consumerVars, flagVars, cycleVars, requests>>

PushRelease(p) ==
  /\ pc[p] = "release"
  /\ Release
  /\ Goto(p, AfterItem(p, batch[p]))
  /\ UNCHANGED <<items, now, nextId, batch, consumerVars, flagVars, cycleVars,
                 lost, requests>>

TryPush(p) == PushInsert(p) \/ PushRelease(p)

Push(p) == TryPush(p) \/ PushEvict(p)

-----------------------------------------------------------------------------
(***************************************************************************)
(* The consumer thread (SendingConsumerWorker::run and pop).               *)
(***************************************************************************)

\* The outer loop's test of m_shouldStop.
ConsumerCheck ==
  /\ pc["consumer"] = "check"
  /\ Goto("consumer", IF shouldStop["consumer"] THEN "off" ELSE "acquire")
  /\ UNCHANGED <<queueVars, now, nextId, batch, consumerVars, flagVars, cycleVars,
                 lost, requests>>

\* pop() blocks in acquire(), called from the outer loop or to swap items.
ConsumerAcquire ==
  /\ \/ pc["consumer"] = "acquire"   /\ Goto("consumer", "take")
     \/ pc["consumer"] = "reacquire" /\ Goto("consumer", "retake")
  /\ Acquire
  /\ UNCHANGED <<items, now, nextId, batch, consumerVars, flagVars, cycleVars,
                 lost, requests>>

(***************************************************************************)
(* pop() under the lock.  An empty queue (the permit came from interrupt)  *)
(* sends the outer loop round again, but ends the waiting loop as if the   *)
(* item at hand were due.                                                  *)
(***************************************************************************)
ConsumerTake ==
  /\ pc["consumer"] \in {"take", "retake"}
  /\ IF items = {}
       THEN /\ Goto("consumer", IF pc["consumer"] = "take" THEN "check" ELSE "due")
            /\ UNCHANGED <<items, held>>
       ELSE /\ \E i \in items : Take(i) /\ held' = {i}
            /\ Goto("consumer", "hold")
  /\ UNCHANGED <<permits, now, nextId, batch, sendError, sent, flagVars, cycleVars,
                 lost, requests>>

IsDue == \A i \in held : i.at <= now

\* The waiting loop ends: its condition is false or m_shouldStop is seen.
ConsumerWaited ==
  /\ pc["consumer"] = "hold"
  /\ IsDue \/ shouldStop["consumer"]
  /\ Goto("consumer", "due")
  /\ UNCHANGED <<queueVars, now, nextId, batch, consumerVars, flagVars, cycleVars,
                 lost, requests>>

\* An earlier item has arrived and the remaining time exceeds the guard band.
ConsumerPeek ==
  /\ pc["consumer"] = "hold"
  /\ ~IsDue
  /\ ~shouldStop["consumer"]
  /\ \E i \in held : HasEarlierThan(i.at)
  /\ Goto("consumer", "requeue")
  /\ UNCHANGED <<queueVars, now, nextId, batch, consumerVars, flagVars, cycleVars,
                 lost, requests>>

\* Faulty ConsumerRequeue: the copy is put back without its permit.
ConsumerRequeueNoPermit ==
  /\ pc["consumer"] = "requeue"
  /\ IF Full
       THEN Goto("consumer", "hold") /\ UNCHANGED items
       ELSE Goto("consumer", "reacquire") /\ \E i \in held : Insert(i)
  /\ UNCHANGED <<permits, now, nextId, batch, consumerVars, flagVars, cycleVars,
                 lost, requests>>

\* tryPush(item) puts a copy back, or fails: then the consumer sleeps on.
ConsumerRequeue ==
  /\ pc["consumer"] = "requeue"
  /\ IF Full
       THEN Goto("consumer", "hold") /\ UNCHANGED items
       ELSE Goto("consumer", "rerelease") /\ \E i \in held : Insert(i)
  /\ UNCHANGED <<permits, now, nextId, batch, consumerVars, flagVars, cycleVars,
                 lost, requests>>

ConsumerRerelease ==
  /\ pc["consumer"] = "rerelease"
  /\ Release
  /\ Goto("consumer", "reacquire")
  /\ UNCHANGED <<items, now, nextId, batch, consumerVars, flagVars, cycleVars,
                 lost, requests>>

\* Faulty ConsumerDecide: no test of m_shouldStop after the waiting loop.
ConsumerDecideNoTest ==
  /\ pc["consumer"] = "due"
  /\ Goto("consumer", "send")
  /\ UNCHANGED <<queueVars, now, nextId, batch, consumerVars, flagVars, cycleVars,
                 lost, requests>>

\* The test of m_shouldStop after the waiting loop: the item at hand is given up.
ConsumerDecide ==
  /\ pc["consumer"] = "due"
  /\ IF shouldStop["consumer"]
       THEN /\ Goto("consumer", "off")
            /\ lost' = lost \cup Ids(held)
            /\ held' = {}
       ELSE Goto("consumer", "send") /\ UNCHANGED <<held, lost>>
  /\ UNCHANGED <<queueVars, now, nextId, batch, sendError, sent, flagVars, cycleVars,
                 requests>>

\* onSend is called; when it throws, the error is signalled to the UI thread.
ConsumerSend ==
  /\ pc["consumer"] = "send"
  /\ sent' = sent \cup Ids(held)
  /\ held' = {}
  /\ sendError' \in {sendError, TRUE}
  /\ Goto("consumer", "check")
  /\ UNCHANGED <<queueVars, now, nextId, batch, flagVars, cycleVars, lost, requests>>

Consumer ==
  \/ ConsumerCheck \/ ConsumerAcquire \/ ConsumerTake \/ ConsumerWaited
  \/ ConsumerPeek \/ ConsumerRequeue \/ ConsumerRerelease
  \/ ConsumerDecide \/ ConsumerSend

-----------------------------------------------------------------------------
(***************************************************************************)
(* The repeated producer thread (RepeatedProducerWorker::run).             *)
(***************************************************************************)

RepeatedBegin ==
  /\ pc["repeated"] = "begin"
  /\ deadline' = now
  /\ Goto("repeated", "check")
  /\ UNCHANGED <<queueVars, now, nextId, batch, consumerVars, flagVars, interval,
                 roundInterval, resetGuard, lost, requests>>

\* One round: the callback makes the items of the next deadline, possibly none.
RepeatedRound ==
  /\ pc["repeated"] = "check"
  /\ ~shouldStop["repeated"]
  /\ roundInterval' = interval
  /\ deadline' = deadline + interval
  /\ \/ /\ Goto("repeated", "pace")
        /\ UNCHANGED <<batch, nextId>>
     \/ /\ \E n \in 1..MaxBatch, d \in 0..MaxDelay : Create("repeated", n, deadline' + d)
        /\ Goto("repeated", "insert")
  /\ UNCHANGED <<queueVars, now, consumerVars, flagVars, interval, resetGuard,
                 lost, requests>>

RepeatedExit ==
  /\ pc["repeated"] = "check"
  /\ shouldStop["repeated"]
  /\ Goto("repeated", "off")
  /\ UNCHANGED <<queueVars, now, nextId, batch, consumerVars, flagVars, cycleVars,
                 lost, requests>>

\* After the pushes: a new interval restarts the cadence, a late round does not wait.
RepeatedPace ==
  /\ pc["repeated"] = "pace"
  /\ deadline' = IF resetGuard THEN now + roundInterval ELSE deadline
  /\ resetGuard' = FALSE
  /\ Goto("repeated", IF now >= deadline' THEN "check" ELSE "wait")
  /\ UNCHANGED <<queueVars, now, nextId, batch, consumerVars, flagVars, interval,
                 roundInterval, lost, requests>>

\* The sleep and the spin end; the spin, not the sleep, also ends on a stop.
RepeatedWake ==
  /\ pc["repeated"] = "wait"
  /\ now >= deadline \/ shouldStop["repeated"]
  /\ Goto("repeated", "check")
  /\ UNCHANGED <<queueVars, now, nextId, batch, consumerVars, flagVars, cycleVars,
                 lost, requests>>

Repeated ==
  \/ RepeatedBegin \/ RepeatedRound \/ RepeatedExit \/ RepeatedPace \/ RepeatedWake
  \/ Push("repeated")

-----------------------------------------------------------------------------
(***************************************************************************)
(* The replay thread: each frame, and the frames a manipulation inserts    *)
(* before it, are tried until the queue has room or the run is stopped.    *)
(***************************************************************************)

ReplayFrame ==
  /\ pc["replay"] = "run"
  /\ ~shouldStop["replay"]
  /\ \E n \in 1..MaxBatch, d \in 0..MaxDelay : Create("replay", n, now + d)
  /\ Goto("replay", "insert")
  /\ UNCHANGED <<queueVars, now, consumerVars, flagVars, cycleVars, lost, requests>>

\* A stop ends the spin: this frame is never queued.
ReplayAbandon ==
  /\ pc["replay"] = "insert"
  /\ shouldStop["replay"]
  /\ batch' = [batch EXCEPT !["replay"] = <<>>]
  /\ Goto("replay", "run")
  /\ UNCHANGED <<queueVars, now, nextId, consumerVars, flagVars, cycleVars, lost, requests>>

\* End of file, or a stop.
ReplayEnd ==
  /\ pc["replay"] = "run"
  /\ active' = [active EXCEPT !["replay"] = FALSE]
  /\ Goto("replay", "off")
  /\ UNCHANGED <<queueVars, now, nextId, batch, consumerVars, shouldStop, cycleVars,
                 lost, requests>>

Replay == ReplayFrame \/ ReplayAbandon \/ ReplayEnd \/ TryPush("replay")

-----------------------------------------------------------------------------
(***************************************************************************)
(* The UI thread.                                                          *)
(***************************************************************************)

\* The UI thread takes up something the user asks for.
Request ==
  /\ pc["ui"] = "idle"
  /\ requests < MaxRequests
  /\ requests' = requests + 1

\* publishRawMessageAsync, publishDbcMessageAsync: one message and its insertions.
SendOnce ==
  /\ Request
  /\ \E n \in 1..MaxBatch, d \in 0..MaxDelay : Create("ui", n, now + d)
  /\ Goto("ui", "insert")
  /\ UNCHANGED <<queueVars, now, consumerVars, flagVars, cycleVars, lost>>

\* The thread of worker w is started, the flags as its start function sets them.
Launch(w, label, uiLabel) ==
  /\ active' = [active EXCEPT ![w] = TRUE]
  /\ shouldStop' = [shouldStop EXCEPT ![w] = FALSE]
  /\ pc' = [pc EXCEPT ![w] = label, !["ui"] = uiLabel]

\* Worker w is asked to stop; the UI thread goes on to wait for it.
RequestStop(w, uiLabel) ==
  /\ active[w]
  /\ shouldStop' = [shouldStop EXCEPT ![w] = TRUE]
  /\ Goto("ui", uiLabel)
  /\ UNCHANGED active

StartConsuming ==
  /\ Request
  /\ ~active["consumer"]
  /\ Launch("consumer", "check", "idle")
  /\ UNCHANGED <<queueVars, now, nextId, batch, consumerVars, cycleVars, lost>>

StopConsuming ==
  /\ Request
  /\ RequestStop("consumer", "interrupt")
  /\ UNCHANGED <<queueVars, now, nextId, batch, consumerVars, cycleVars, lost>>

\* Faulty Interrupt: the flag is set but nobody wakes the consumer.
InterruptForgotten ==
  /\ pc["ui"] = "interrupt"
  /\ Goto("ui", "joinConsumer")
  /\ UNCHANGED <<queueVars, now, nextId, batch, consumerVars, flagVars, cycleVars,
                 lost, requests>>

Interrupt ==
  /\ pc["ui"] = "interrupt"
  /\ Release
  /\ Goto("ui", "joinConsumer")
  /\ UNCHANGED <<items, now, nextId, batch, consumerVars, flagVars, cycleVars,
                 lost, requests>>

StartRepeated ==
  /\ Request
  /\ ~active["repeated"]
  /\ interval' \in Intervals
  /\ Launch("repeated", "begin", "idle")
  /\ UNCHANGED <<queueVars, now, nextId, batch, consumerVars, roundInterval, deadline,
                 resetGuard, lost>>

UpdateInterval ==
  /\ Request
  /\ interval' \in Intervals
  /\ resetGuard' = TRUE
  /\ UNCHANGED <<queueVars, now, nextId, pc, batch, consumerVars, flagVars, roundInterval,
                 deadline, lost>>

StopRepeated ==
  /\ Request
  /\ RequestStop("repeated", "joinRepeated")
  /\ UNCHANGED <<queueVars, now, nextId, batch, consumerVars, cycleVars, lost>>

\* Faulty HandleSendError: the error is only logged.
HandleSendErrorLogOnly ==
  /\ pc["ui"] = "idle"
  /\ sendError
  /\ sendError' = FALSE
  /\ UNCHANGED <<queueVars, now, nextId, pc, batch, held, sent, flagVars, cycleVars,
                 lost, requests>>

\* The queued errorOccurred signal is handled: repeated sending is stopped.
HandleSendError ==
  /\ pc["ui"] = "idle"
  /\ sendError
  /\ sendError' = FALSE
  /\ IF active["repeated"]
       THEN RequestStop("repeated", "joinRepeated")
       ELSE UNCHANGED <<pc, flagVars>>
  /\ UNCHANGED <<queueVars, now, nextId, batch, held, sent, cycleVars, lost, requests>>

\* startReplay stops repeated sending first, and waits for that.
StartReplay ==
  /\ Request
  /\ ~active["replay"]
  /\ IF active["repeated"]
       THEN RequestStop("repeated", "joinRepeatedThenReplay")
       ELSE Launch("replay", "run", "idle")
  /\ UNCHANGED <<queueVars, now, nextId, batch, consumerVars, cycleVars, lost>>

StopReplay ==
  /\ Request
  /\ RequestStop("replay", "joinReplay")
  /\ UNCHANGED <<queueVars, now, nextId, batch, consumerVars, cycleVars, lost>>

\* wait() returns because the thread of w is gone.
Joined(w) ==
  /\ pc[w] = "off"
  /\ active' = [active EXCEPT ![w] = FALSE]
  /\ Goto("ui", "idle")
  /\ UNCHANGED shouldStop

Join ==
  /\ \/ pc["ui"] = "joinConsumer" /\ Joined("consumer")
     \/ pc["ui"] = "joinRepeated" /\ Joined("repeated")
     \/ pc["ui"] = "joinReplay"   /\ Joined("replay")
  /\ UNCHANGED <<queueVars, now, nextId, batch, consumerVars, cycleVars, lost, requests>>

\* The rest of startReplay, once repeated sending has stopped.
JoinThenReplay ==
  /\ pc["ui"] = "joinRepeatedThenReplay"
  /\ pc["repeated"] = "off"
  /\ active' = [active EXCEPT !["repeated"] = FALSE, !["replay"] = TRUE]
  /\ shouldStop' = [shouldStop EXCEPT !["replay"] = FALSE]
  /\ pc' = [pc EXCEPT !["replay"] = "run", !["ui"] = "idle"]
  /\ UNCHANGED <<queueVars, now, nextId, batch, consumerVars, cycleVars, lost, requests>>

(***************************************************************************)
(* wait(THREAD_TERMINATION_WAIT_MS) times out and the thread is            *)
(* terminated.  A thread can be that slow in two places: the consumer in a *)
(* driver call that blocks, the repeated producer in the sleep of a long   *)
(* interval (up to ten seconds).  A terminated call was made or not.       *)
(***************************************************************************)
TerminateConsumer ==
  /\ pc["ui"] = "joinConsumer"
  /\ pc["consumer"] = "send"
  /\ Goto("consumer", "off")
  /\ held' = {}
  /\ \/ sent' = sent \cup Ids(held) /\ UNCHANGED lost
     \/ lost' = lost \cup Ids(held) /\ UNCHANGED sent
  /\ UNCHANGED <<queueVars, now, nextId, batch, sendError, flagVars, cycleVars, requests>>

TerminateRepeated ==
  /\ pc["ui"] \in {"joinRepeated", "joinRepeatedThenReplay"}
  /\ pc["repeated"] = "wait"
  /\ Goto("repeated", "off")
  /\ UNCHANGED <<queueVars, now, nextId, batch, consumerVars, flagVars, cycleVars,
                 lost, requests>>

UserRequest ==
  \/ SendOnce \/ StartConsuming \/ StopConsuming
  \/ StartRepeated \/ UpdateInterval \/ StopRepeated
  \/ StartReplay \/ StopReplay

\* What the UI thread does without being asked: it finishes what it has begun.
UiProceeds ==
  \/ Push("ui") \/ Interrupt \/ Join \/ JoinThenReplay
  \/ TerminateConsumer \/ TerminateRepeated \/ HandleSendError

Next ==
  \/ Tick \/ Consumer \/ Repeated \/ Replay \/ UserRequest \/ UiProceeds

Spec == Init /\ [][Next]_vars

(***************************************************************************)
(* The operating system runs every thread that can run, and the UI thread  *)
(* handles its events.  Nothing obliges the user to do anything.           *)
(***************************************************************************)
Fairness ==
  /\ WF_vars(Tick)
  /\ WF_vars(Consumer)
  /\ WF_vars(Repeated)
  /\ WF_vars(Replay)
  /\ WF_vars(UiProceeds)

FairSpec == Spec /\ Fairness
-----------------------------------------------------------------------------
(***************************************************************************)
(* Properties.                                                             *)
(***************************************************************************)

ConsumerLabels == {"off", "check", "acquire", "take", "hold", "requeue", "rerelease",
                   "reacquire", "retake", "due", "send"}
RepeatedLabels == {"off", "begin", "check", "insert", "release", "pace", "wait"}
ReplayLabels   == {"off", "run", "insert", "release"}
UiLabels       == {"idle", "insert", "release", "interrupt", "joinConsumer",
                   "joinRepeated", "joinRepeatedThenReplay", "joinReplay"}

\* The values the pipeline's state can take (of every variable above).
TypeOK ==
  /\ items \in SUBSET Item
  /\ IsFiniteSet(items)
  /\ permits \in Nat
  /\ now \in Nat
  /\ nextId \in Nat
  /\ pc \in [Producers \cup Workers -> ConsumerLabels \cup RepeatedLabels
                                         \cup ReplayLabels \cup UiLabels]
  /\ pc["consumer"] \in ConsumerLabels
  /\ pc["repeated"] \in RepeatedLabels
  /\ pc["replay"] \in ReplayLabels
  /\ pc["ui"] \in UiLabels
  /\ batch \in [Producers -> Seq(Item)]
  /\ held \in SUBSET Item
  /\ active \in [Workers -> BOOLEAN]
  /\ shouldStop \in [Workers -> BOOLEAN]
  /\ interval \in Intervals
  /\ roundInterval \in Intervals
  /\ deadline \in Nat
  /\ resetGuard \in BOOLEAN
  /\ sendError \in BOOLEAN
  /\ sent \in SUBSET Nat
  /\ lost \in SUBSET Nat
  /\ requests \in Nat

\* The consumer's local item is its own: it has been taken out and not put back.
HoldsItem == pc["consumer"] \in {"hold", "requeue", "due", "send"}

\* A copy of the consumer's item is back in the queue while it swaps items.
Swapping == pc["consumer"] \in {"rerelease", "reacquire", "retake"}

InHand == IF HoldsItem THEN held ELSE {}

One(b) == IF b THEN 1 ELSE 0

\* Permits in a thread's hand: acquired and not yet used to take an item, or still to
\* be released for an item that is in the queue already.
PermitsUnderway ==
  One(pc["consumer"] \in {"take", "retake"}) + One(pc["consumer"] = "rerelease")
    + One(pc["ui"] = "release") + One(pc["repeated"] = "release")
    + One(pc["replay"] = "release")

\* No item is stranded: for each queued item there is a permit in the semaphore, in
\* the consumer's hand, or about to be released, through evictions, swaps and
\* interrupts; so pop() never blocks for good on a queue that holds something.
PermitsCoverItems == Cardinality(items) <= permits + PermitsUnderway

\* An item is handed to onSend at most once, and is never still queued, in hand or
\* counted as evicted when it has been: swapping items leaves no second copy behind.
AtMostOnce ==
  /\ Ids(items \cup InHand) \cap (sent \cup lost) = {}
  /\ InHand \cap items = {}
  /\ sent \cap lost = {}

\* The consumer calls onSend only for an item whose time has come, although it
\* leaves its waiting loop early when a pop finds the queue empty.
NeverEarly ==
  pc["consumer"] = "send" => \A i \in held : i.at <= now

\* When the stop function of the consumer or of the repeated producer has
\* returned, no thread of that worker runs on and pushes or sends behind it.
StoppedMeansGone ==
  \A w \in {"consumer", "repeated"} : ~active[w] => pc[w] = "off"

\* An item in the queue leaves it, sent or displaced by a newer one, as long as
\* the consumer is not stopped: no push ever leaves it sleeping on its item.
ItemsLeave ==
  \A n \in 1..MaxItems :
    (active["consumer"] /\ \E i \in items : i.id = n)
      ~> (shouldStop["consumer"] \/ n \in sent \cup lost)

\* The UI thread gets out of every stop function: neither a consumer that blocks on
\* an empty queue, nor a replay that spins on a full one, keeps it waiting.
StopReturns ==
  (pc["ui"] \in UiLabels \ {"idle"}) ~> (pc["ui"] = "idle")

\* A throwing onSend ends repeated sending, whatever the user does meanwhile.
ErrorStopsRepeated == sendError ~> ~active["repeated"]

\* The pipeline implements TimedDelivery: pending is what is queued or in hand.
Abstract == INSTANCE TimedDelivery WITH
  clock     <- now,
  pending   <- items \cup InHand,
  delivered <- sent,
  stopping  <- shouldStop["consumer"]

RefinesTimedDelivery == Abstract!TDSpec

=============================================================================
