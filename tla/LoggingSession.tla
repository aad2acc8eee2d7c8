--------------------------- MODULE LoggingSession ---------------------------
(***************************************************************************)
(* How CAN messages get into the file of a logging session: the polling    *)
(* thread that publishes them, the thread of the session's LoggingWorker   *)
(* that takes them from a ring and writes them, and the UI thread that     *)
(* starts and stops sessions (LoggingComponent, LoggingModel).             *)
(*                                                                         *)
(* The polling thread finds the worker through an atomic pointer, without  *)
(* a lock; so it can still post to a worker that has been stopped by then. *)
(* The component keeps its subscriptions and the state of its view, the    *)
(* model its own idea of whether it is recording, and a new DBC ends the   *)
(* session in the model only.                                              *)
(*                                                                         *)
(* A message is a number, in the order the polling thread received them;   *)
(* 0 is the content of a slot nothing was written to.                      *)
(***************************************************************************)
EXTENDS Naturals, Sequences

CONSTANTS
  Slots,        \* WORKER_RING_CAPACITY
  Kinds,        \* the kinds of sessions, "raw" and "dbc" in the code
  MaxMessages,  \* bound: how many messages are received
  MaxSessions   \* bound: how many sessions the user starts

ASSUME LoggingAssumption ==
  /\ Slots \in Nat /\ \E k \in 1 .. Slots : Slots = 2 ^ k
  /\ MaxMessages \in Nat /\ MaxSessions \in Nat

Sessions == 1 .. MaxSessions
Messages == 1 .. MaxMessages

INSTANCE SpscRing WITH Value <- {0} \union Messages

VARIABLES
  received,   \* how many messages the polling thread has received
  poller,     \* the call the polling thread is in: its step, the kind, the worker's session
  ring,       \* m_ring of each session's worker
  stop,       \* m_stop of each worker
  pc,         \* where each worker's thread is; "done" when run() has returned
  popped,     \* the message each worker has taken and not yet written
  file,       \* what is in each session's file
  worker,     \* m_rawWorker and m_dbcWorker: a session, or 0
  conn,       \* m_rawMsgConn and m_dbcMsgConn: is the handler subscribed?
  started,    \* how many sessions m_sessions holds
  current,    \* the session m_activeSessionIndex names, or 0
  ui,         \* what the UI thread is doing: its step, the worker it stops, for whom
  recording,  \* m_isRecording of the view, which decides what the button does
  accepted,   \* the messages each worker's ring has taken, in order
  due         \* how many of them had been taken when the worker's pointer was cleared

pollVars   == <<received, poller, accepted>>
workerVars == <<pc, popped, file>>
uiVars     == <<stop, worker, conn, started, current, ui, recording, due>>
vars       == <<pollVars, ring, workerVars, uiVars>>

PollIdle == [step |-> "idle", kind |-> "none", session |-> 0]
UiIdle   == [step |-> "idle", session |-> 0, why |-> "none"]

Init ==
  /\ received = 0 /\ poller = PollIdle
  /\ ring = [s \in Sessions |-> EmptyRing(0)]
  /\ stop = [s \in Sessions |-> FALSE]
  /\ pc = [s \in Sessions |-> "off"]
  /\ popped = [s \in Sessions |-> 0]
  /\ file = [s \in Sessions |-> <<>>]
  /\ worker = [k \in Kinds |-> 0] /\ conn = [k \in Kinds |-> FALSE]
  /\ started = 0 /\ current = 0
  /\ ui = UiIdle /\ recording = FALSE
  /\ accepted = [s \in Sessions |-> <<>>]
  /\ due = [s \in Sessions |-> 0]

-----------------------------------------------------------------------------
(***************************************************************************)
(* The polling thread: a received message is published, and the broker     *)
(* calls the handler that is subscribed at that time.                      *)
(***************************************************************************)

PollStep(label) == poller' = [poller EXCEPT !.step = label]

Receive(k) ==
  /\ poller = PollIdle
  /\ received < MaxMessages
  /\ conn[k]
  /\ received' = received + 1
  /\ poller' = [PollIdle EXCEPT !.step = "load", !.kind = k]
  /\ UNCHANGED <<ring, accepted, workerVars, uiVars>>

\* onRawMessageReceived, onDbcMessageReceived: no pointer, no post.
LoadWorker ==
  /\ poller.step = "load"
  /\ LET s == worker[poller.kind]
     IN  poller' = IF s = 0 THEN PollIdle
                            ELSE [poller EXCEPT !.step = "testFull", !.session = s]
  /\ UNCHANGED <<received, ring, accepted, workerVars, uiVars>>

\* push: a full ring drops the message, and nobody looks at the result.
TestFull ==
  /\ poller.step = "testFull"
  /\ IF IsFull(ring[poller.session]) THEN poller' = PollIdle ELSE PollStep("write")
  /\ UNCHANGED <<received, ring, accepted, workerVars, uiVars>>

WriteSlot ==
  /\ poller.step = "write"
  /\ ring' = [ring EXCEPT ![poller.session] = Written(@, received)]
  /\ PollStep("publish")
  /\ UNCHANGED <<received, accepted, workerVars, uiVars>>

PublishSlot ==
  /\ poller.step = "publish"
  /\ ring' = [ring EXCEPT ![poller.session] = Published(@)]
  /\ accepted' = [accepted EXCEPT ![poller.session] = Append(@, received)]
  /\ poller' = PollIdle
  /\ UNCHANGED <<received, workerVars, uiVars>>

Post == LoadWorker \/ TestFull \/ WriteSlot \/ PublishSlot

-----------------------------------------------------------------------------
(***************************************************************************)
(* The thread of a worker.  Its inner loop and the last drain are the same *)
(* steps: "pop" goes back to the test of the flag, "drain" to the end.     *)
(***************************************************************************)

Goto(s, label) == pc' = [pc EXCEPT ![s] = label]

\* Faulty TestStop: the last drain is missing.
TestStopNoDrain(s) ==
  /\ pc[s] = "testStop"
  /\ Goto(s, IF stop[s] THEN "done" ELSE "pop")
  /\ UNCHANGED <<pollVars, ring, popped, file, uiVars>>

TestStop(s) ==
  /\ pc[s] = "testStop"
  /\ Goto(s, IF stop[s] THEN "drain" ELSE "pop")
  /\ UNCHANGED <<pollVars, ring, popped, file, uiVars>>

\* An empty ring ends the loop: the thread sleeps and tests the flag, or closes the file.
TestEmpty(s) ==
  /\ pc[s] \in {"pop", "drain"}
  /\ Goto(s, CASE ~IsEmpty(ring[s]) /\ pc[s] = "pop"   -> "popRead"
               [] ~IsEmpty(ring[s]) /\ pc[s] = "drain" -> "drainRead"
               [] IsEmpty(ring[s])  /\ pc[s] = "pop"   -> "testStop"
               [] IsEmpty(ring[s])  /\ pc[s] = "drain" -> "done")
  /\ UNCHANGED <<pollVars, ring, popped, file, uiVars>>

ReadSlot(s) ==
  /\ \/ pc[s] = "popRead" /\ Goto(s, "popFree")
     \/ pc[s] = "drainRead" /\ Goto(s, "drainFree")
  /\ popped' = [popped EXCEPT ![s] = Front(ring[s])]
  /\ UNCHANGED <<pollVars, ring, file, uiVars>>

\* The slot is free for the producer.
FreeSlot(s) ==
  /\ \/ pc[s] = "popFree" /\ Goto(s, "popWrite")
     \/ pc[s] = "drainFree" /\ Goto(s, "drainWrite")
  /\ ring' = [ring EXCEPT ![s] = Freed(@)]
  /\ UNCHANGED <<pollVars, popped, file, uiVars>>

\* The writer appends the message.  A drain that ends closes the file and the thread.
WriteMessage(s) ==
  /\ \/ pc[s] = "popWrite" /\ Goto(s, "pop")
     \/ pc[s] = "drainWrite" /\ Goto(s, "drain")
  /\ file' = [file EXCEPT ![s] = Append(@, popped[s])]
  /\ popped' = [popped EXCEPT ![s] = 0]
  /\ UNCHANGED <<pollVars, ring, uiVars>>

Worker(s) == TestStop(s) \/ TestEmpty(s) \/ ReadSlot(s) \/ FreeSlot(s) \/ WriteMessage(s)

-----------------------------------------------------------------------------
(***************************************************************************)
(* The UI thread.                                                          *)
(***************************************************************************)

\* LoggingModel::isRecording
IsRecording == current # 0

UiStep(label) == ui' = [ui EXCEPT !.step = label]

\* startLogging: the model makes a session, starts its thread and stores the pointer.
StartLogging(k) ==
  /\ ui = UiIdle /\ ~recording /\ ~IsRecording
  /\ started < MaxSessions
  /\ started' = started + 1
  /\ current' = started'
  /\ worker' = [worker EXCEPT ![k] = started']
  /\ Goto(started', "testStop")
  /\ ui' = [UiIdle EXCEPT !.step = "subscribe", !.why = k]
  /\ UNCHANGED <<pollVars, ring, popped, file, stop, conn, recording, due>>

\* The component subscribes to the messages, and the view shows the recording.
Subscribe ==
  /\ ui.step = "subscribe"
  /\ conn' = [conn EXCEPT ![ui.why] = TRUE]
  /\ recording' = TRUE
  /\ ui' = UiIdle
  /\ UNCHANGED <<pollVars, ring, workerVars, stop, worker, started, current, due>>

\* The button while the view shows a recording: stopLogging is called.
ClickStop ==
  /\ ui = UiIdle /\ recording
  /\ ui' = [UiIdle EXCEPT !.step = "stopLogging"]
  /\ UNCHANGED <<pollVars, ring, workerVars, stop, worker, conn, started, current, recording,
                 due>>

\* stopLogging: nothing happens if the model does not record; else the subscriptions are
\* released first.
StopLogging ==
  /\ ui.step = "stopLogging"
  /\ IF IsRecording
       THEN /\ conn' = [k \in Kinds |-> FALSE]
            /\ ui' = [UiIdle EXCEPT !.step = "clear", !.why = "stop"]
       ELSE /\ ui' = UiIdle
            /\ UNCHANGED conn
  /\ UNCHANGED <<pollVars, ring, workerVars, stop, worker, started, current, recording, due>>

\* A new DBC was parsed: updateDbcConfig stops the active session of the model.
UpdateDbcConfig ==
  /\ ui = UiIdle /\ IsRecording
  /\ ui' = [UiIdle EXCEPT !.step = "clear", !.why = "reload"]
  /\ UNCHANGED <<pollVars, ring, workerVars, stop, worker, conn, started, current, recording,
                 due>>

\* stopActiveSession: the pointer is cleared and the session is not the active one any more.
ClearWorker ==
  /\ ui.step = "clear"
  /\ worker' = [k \in Kinds |-> 0]
  /\ due' = [due EXCEPT ![current] = Len(accepted[current])]
  /\ current' = 0
  /\ ui' = [ui EXCEPT !.step = "setStop", !.session = current]
  /\ UNCHANGED <<pollVars, ring, workerVars, stop, conn, started, recording>>

\* Faulty SetStop: the flag is forgotten.
SetStopForgotten ==
  /\ ui.step = "setStop"
  /\ UiStep("wait")
  /\ UNCHANGED <<pollVars, ring, workerVars, stop, worker, conn, started, current, recording,
                 due>>

\* LoggingWorker::stop: the flag is set ...
SetStop ==
  /\ ui.step = "setStop"
  /\ stop' = [stop EXCEPT ![ui.session] = TRUE]
  /\ UiStep("wait")
  /\ UNCHANGED <<pollVars, ring, workerVars, worker, conn, started, current, recording, due>>

\* ... and the thread is waited for.  The component tells the view; a new DBC does not.
Joined ==
  /\ ui.step = "wait"
  /\ pc[ui.session] = "done"
  /\ recording' = (recording /\ ui.why # "stop")
  /\ ui' = UiIdle
  /\ UNCHANGED <<pollVars, ring, workerVars, stop, worker, conn, started, current, due>>

User == (\E k \in Kinds : StartLogging(k)) \/ ClickStop

UiProceeds == Subscribe \/ StopLogging \/ ClearWorker \/ SetStop \/ Joined

Next ==
  \/ \E k \in Kinds : Receive(k)
  \/ Post
  \/ \E s \in Sessions : Worker(s)
  \/ User \/ UpdateDbcConfig \/ UiProceeds

Spec == Init /\ [][Next]_vars

(***************************************************************************)
(* Every thread goes on when it can.  Nobody has to send a message, to     *)
(* click or to load a DBC.                                                 *)
(***************************************************************************)
FairSpec ==
  /\ Spec
  /\ WF_vars(Post)
  /\ \A s \in Sessions : WF_vars(Worker(s))
  /\ WF_vars(UiProceeds)
-----------------------------------------------------------------------------
(***************************************************************************)
(* Properties.                                                             *)
(***************************************************************************)

\* The two threads never work on the same slot: the producer does not write the one the
\* consumer is reading.
SlotsApart ==
  \A s \in Sessions :
    (poller.step = "write" /\ poller.session = s /\ pc[s] \in {"popRead", "drainRead"})
      => ring[s].head # ring[s].tail

\* The message a worker holds between the ring and the file.
InHand(s) == IF pc[s] \in {"popWrite", "drainWrite"} THEN <<popped[s]>> ELSE <<>>

\* What the ring has accepted is in the file, in the worker's hand or in the ring, in the
\* order of reception: nothing is lost, written twice, reordered or made up, whatever the
\* two threads do at the same time and however often the indices wrap around.
AcceptedIsKept == \A s \in Sessions : accepted[s] = file[s] \o InHand(s) \o Contents(ring[s])

\* stop "drains remaining messages, closes the file, and joins": a session that is over
\* has no thread, and every message the ring had accepted when the session was ended is in
\* its file, ready for export.
EndedIsComplete ==
  \A s \in 1 .. started :
    (s # current /\ s # ui.session) => pc[s] = "done" /\ Len(file[s]) >= due[s]

\* The UI thread gets out of a stop, although the worker's inner loop does not look at the
\* flag as long as there are messages.
SessionEnds == ui.step = "clear" ~> ui = UiIdle

\* What a channel holds, what is on its way into one, and which ones are closed.
Queues   == [s \in Sessions |-> InHand(s) \o Contents(ring[s])]
Arriving == IF poller = PollIdle THEN {} ELSE {poller.kind}
Closed   == {s \in Sessions : pc[s] = "done"}

\* Logging implements SessionChannel: a channel holds what the ring has and what the worker has
\* taken out of it, and is closed when the thread is gone.
Channel == INSTANCE SessionChannel WITH
  Capacity <- Slots, arrived <- received, arriving <- Arriving, opened <- started,
  recorder <- worker, queue <- Queues, kept <- file, owed <- due, closed <- Closed

ImplementsChannel == Channel!SCSpec

=============================================================================
