--------------------------- MODULE ReplayControl ---------------------------
(***************************************************************************)
(* How a replay is started, paused, resumed, stopped and ends: the UI      *)
(* thread with the buttons of ReplaySendingSubView and the handlers of     *)
(* SendingComponent, and the thread of ReplayProducerWorker.  They share   *)
(* three atomic flags, a mutex with a condition variable, and the signals  *)
(* the thread queues for the UI thread.                                    *)
(*                                                                         *)
(* The flags are written and the condition variable is notified without    *)
(* the mutex, so the thread can be notified between its test of the flags  *)
(* and its wait.  It clears m_isActive before it emits its last signals    *)
(* and returns, so there is a time when no replay is active and the thread *)
(* is still there; QThread::start() does nothing then.                     *)
(*                                                                         *)
(* What is pushed, and the queue, are SendPipeline's subject: a frame is   *)
(* only a visit to "push" here.                                            *)
(***************************************************************************)
EXTENDS Naturals, Sequences

CONSTANTS
  MaxRuns,        \* bound: how many runs the user starts
  InputOvertakes  \* may a click be handled before a signal queued earlier?

ASSUME ReplayAssumption ==
  /\ MaxRuns \in Nat
  /\ InputOvertakes \in BOOLEAN

VARIABLES
  active,      \* m_isActive
  shouldStop,  \* m_shouldStop
  paused,      \* m_isPaused
  settings,    \* m_factory and the other settings: the number of the run they are for
  pc,          \* where the replay thread is; "off" when QThread has no thread running
  localRun,    \* the thread's copy of the settings
  signals,     \* the signals queued for the UI thread, oldest first
  ui,          \* "idle", or what the UI thread is doing about a run it has to stop
  view,        \* m_playbackState
  timer        \* m_replayProgressTimer is running

flags      == <<active, shouldStop, paused>>
threadVars == <<pc, localRun>>
uiVars     == <<ui, view, timer>>
vars       == <<flags, settings, threadVars, signals, uiVars>>

Init ==
  /\ active = FALSE /\ shouldStop = FALSE /\ paused = FALSE
  /\ settings = 0
  /\ pc = "off" /\ localRun = 0
  /\ signals = <<>>
  /\ ui = "idle" /\ view = "Disabled" /\ timer = FALSE

-----------------------------------------------------------------------------
(***************************************************************************)
(* The replay thread (ReplayProducerWorker::run).                          *)
(***************************************************************************)

\* m_isActive is cleared; what the thread does next is a signal or its last test.
EndRun(label) ==
  /\ active' = FALSE
  /\ pc' = label
  /\ UNCHANGED <<shouldStop, paused>>

\* Faulty Open: a file that holds nothing ends the run without a signal.
OpenSilent ==
  /\ pc = "open"
  /\ localRun' = settings
  /\ \/ pc' = "schedule" /\ UNCHANGED flags
     \/ EndRun("emitError")
     \/ EndRun("return")
  /\ UNCHANGED <<settings, signals, uiVars>>

\* The settings are copied under the mutex and the file is opened.  It may fail, the
\* file may hold nothing, and the first read may fail or throw.
Open ==
  /\ pc = "open"
  /\ localRun' = settings
  /\ \/ pc' = "schedule" /\ UNCHANGED flags
     \/ EndRun("emitError")
     \/ EndRun("emitStopped")
  /\ UNCHANGED <<settings, signals, uiVars>>

\* The loop of scheduleAndPush: a stop ends it, a pause holds it, and so does the time
\* until the frame is due.
Schedule ==
  /\ pc = "schedule"
  /\ pc' = IF shouldStop THEN "next" ELSE IF paused THEN "testPause" ELSE "push"
  /\ UNCHANGED <<flags, settings, localRun, signals, uiVars>>

\* The predicate of the wait, evaluated under the mutex.
TestPause ==
  /\ pc = "testPause"
  /\ pc' = IF shouldStop \/ ~paused THEN "schedule" ELSE "blocking"
  /\ UNCHANGED <<flags, settings, localRun, signals, uiVars>>

\* The thread is on the wait queue now: only from here on does a notification reach it.
Block ==
  /\ pc = "blocking"
  /\ pc' = "blocked"
  /\ UNCHANGED <<flags, settings, localRun, signals, uiVars>>

\* A condition variable may wake a thread for no reason.
WakeUnasked ==
  /\ pc = "blocked"
  /\ pc' = "testPause"
  /\ UNCHANGED <<flags, settings, localRun, signals, uiVars>>

\* The frame and its insertions are pushed, or given up on a stop; or a manipulation throws.
PushFrame ==
  /\ pc = "push"
  /\ \/ pc' = "next" /\ UNCHANGED flags
     \/ EndRun("emitError")
  /\ UNCHANGED <<settings, localRun, signals, uiVars>>

\* The main loop goes on to the next frame, ends, or is left by an exception.
NextFrame ==
  /\ pc = "next"
  /\ \/ ~shouldStop /\ pc' = "schedule" /\ UNCHANGED flags
     \/ ~shouldStop /\ EndRun("emitError")
     \/ EndRun("testStop")
  /\ UNCHANGED <<settings, localRun, signals, uiVars>>

\* After the loop, and after m_isActive is cleared: was the run stopped?
TestStop ==
  /\ pc = "testStop"
  /\ pc' = IF shouldStop THEN "emitStopped" ELSE "emitFinished"
  /\ UNCHANGED <<flags, settings, localRun, signals, uiVars>>

\* A signal is queued for the UI thread.
Emit(label, signal, next) ==
  /\ pc = label
  /\ pc' = next
  /\ signals' = Append(signals, signal)
  /\ UNCHANGED <<flags, settings, localRun, uiVars>>

EmitLast ==
  \/ Emit("emitFinished", "finished", "emitStopped")
  \/ Emit("emitError", "error", "emitStopped")
  \/ Emit("emitStopped", "stopped", "return")

\* run() returns, and QThread considers the thread finished.
Return ==
  /\ pc = "return"
  /\ pc' = "off"
  /\ UNCHANGED <<flags, settings, localRun, signals, uiVars>>

Thread ==
  \/ Open \/ Schedule \/ TestPause \/ Block \/ PushFrame \/ NextFrame
  \/ TestStop \/ EmitLast \/ Return

-----------------------------------------------------------------------------
(***************************************************************************)
(* The UI thread.                                                          *)
(***************************************************************************)

\* The event loop takes a click.
Click ==
  /\ ui = "idle"
  /\ signals = <<>> \/ InputOvertakes

IsActive(state) == state \in {"Running", "Paused"}

\* notify_all: wakes the thread if it is on the wait queue.
NotifyAll == pc' = IF pc = "blocked" THEN "testPause" ELSE pc

\* The end of worker startReplay: the flags are set and QThread::start() is called, which
\* does nothing while there is a thread; then the component starts the timer.
Launch ==
  /\ settings' = settings + 1
  /\ active' = TRUE /\ shouldStop' = FALSE /\ paused' = FALSE
  /\ pc' = IF pc = "off" THEN "open" ELSE pc
  /\ timer' = TRUE
  /\ ui' = "idle"

\* Worker stopReplay finds an active run; by the time it sets the flags the run may be over.
BeginStop(why) ==
  /\ active
  /\ ui' = why
  /\ UNCHANGED <<flags, pc>>

\* The flags are set and the thread is notified; then the UI thread waits for it.
AskToStop ==
  /\ \/ ui = "beginStop" /\ ui' = "stop"
     \/ ui = "beginRestart" /\ ui' = "restart"
  /\ shouldStop' = TRUE /\ paused' = FALSE
  /\ NotifyAll
  /\ UNCHANGED <<active, settings, localRun, signals, view, timer>>

\* The start button: a run that is still active is stopped first.
StartReplay ==
  /\ Click
  /\ view = "Ready"
  /\ settings < MaxRuns
  /\ view' = "Running"
  /\ \/ ~active /\ Launch
     \/ BeginStop("beginRestart") /\ UNCHANGED <<settings, timer>>
  /\ UNCHANGED <<localRun, signals>>

PauseReplay ==
  /\ Click
  /\ view = "Running"
  /\ active
  /\ paused' = TRUE
  /\ view' = "Paused"
  /\ UNCHANGED <<active, shouldStop, settings, threadVars, signals, ui, timer>>

\* The component looks at m_isPaused only, the worker also at m_isActive.
ResumeReplay ==
  /\ Click
  /\ view = "Paused"
  /\ paused
  /\ view' = "Running"
  /\ IF active
       THEN paused' = FALSE /\ NotifyAll
       ELSE UNCHANGED <<paused, pc>>
  /\ UNCHANGED <<active, shouldStop, settings, localRun, signals, ui, timer>>

\* The stop button: a run that is not active is not waited for.
StopReplay ==
  /\ Click
  /\ IsActive(view)
  /\ timer' = FALSE
  /\ \/ BeginStop("beginStop") /\ UNCHANGED view
     \/ /\ ~active
        /\ view' = "Ready"
        /\ UNCHANGED <<flags, pc, ui>>
  /\ UNCHANGED <<settings, localRun, signals>>

\* A session is chosen, or the list of sessions is filled anew.
SelectSession ==
  /\ Click
  /\ ~IsActive(view)
  /\ view' \in {"Ready", "Disabled"}
  /\ UNCHANGED <<flags, settings, threadVars, signals, ui, timer>>

\* Faulty Joined: the stop function does not wait for the thread.
JoinedWithoutWait ==
  /\ \/ /\ ui = "stop"
        /\ active' = FALSE
        /\ ui' = "idle" /\ view' = "Ready"
        /\ UNCHANGED <<shouldStop, paused, settings, pc, timer>>
     \/ ui = "restart" /\ Launch /\ UNCHANGED view
  /\ UNCHANGED <<localRun, signals>>

\* wait() returns: the run is over for the UI thread, and the next one begins.
Joined ==
  /\ pc = "off"
  /\ \/ /\ ui = "stop"
        /\ active' = FALSE
        /\ ui' = "idle" /\ view' = "Ready"
        /\ UNCHANGED <<shouldStop, paused, settings, pc, timer>>
     \/ ui = "restart" /\ Launch /\ UNCHANGED view
  /\ UNCHANGED <<localRun, signals>>

\* Faulty Terminate: wait() has no timeout.
TerminateNever == FALSE /\ UNCHANGED vars

(***************************************************************************)
(* wait(THREAD_TERMINATION_WAIT_MS) times out, and terminate() ends the    *)
(* thread where it is, with no signal.  It can be that slow when it opens  *)
(* or reads a file and when it sleeps on the condition variable.           *)
(***************************************************************************)
Terminate ==
  /\ ui \in {"stop", "restart"}
  /\ pc \in {"open", "next", "blocked"}
  /\ pc' = "off"
  /\ UNCHANGED <<flags, settings, localRun, signals, uiVars>>

\* The handlers of replayFinished, errorOccurred and replayStopped.  Only the last asks
\* whether another run is active by now, and only after it has stopped the timer.
HandleSignal ==
  /\ ui = "idle"
  /\ signals # <<>>
  /\ signals' = Tail(signals)
  /\ timer' = (timer /\ Head(signals) # "stopped")
  /\ view' = IF Head(signals) = "stopped" /\ active THEN view ELSE "Ready"
  /\ UNCHANGED <<flags, settings, threadVars, ui>>

User == StartReplay \/ PauseReplay \/ ResumeReplay \/ StopReplay \/ SelectSession

UiProceeds == AskToStop \/ Joined \/ Terminate \/ HandleSignal

Next == Thread \/ WakeUnasked \/ User \/ UiProceeds

Spec == Init /\ [][Next]_vars

(***************************************************************************)
(* The replay thread runs when it can, the UI thread handles its events    *)
(* and its waits time out.  No click and no unasked wake-up must happen.   *)
(***************************************************************************)
FairSpec ==
  /\ Spec
  /\ WF_vars(Thread)
  /\ WF_vars(UiProceeds)
-----------------------------------------------------------------------------
(***************************************************************************)
(* Properties.                                                             *)
(***************************************************************************)

Labels == {"off", "open", "schedule", "testPause", "blocking", "blocked", "push", "next",
           "testStop", "emitFinished", "emitError", "emitStopped", "return"}

\* The values the state of a replay can take (of every variable above); a run queues two
\* signals at most.
TypeOK ==
  /\ active \in BOOLEAN /\ shouldStop \in BOOLEAN /\ paused \in BOOLEAN
  /\ settings \in Nat
  /\ pc \in Labels
  /\ localRun \in Nat
  /\ signals \in Seq({"finished", "error", "stopped"})
  /\ Len(signals) <= 2 * settings
  /\ ui \in {"idle", "beginStop", "beginRestart", "stop", "restart"}
  /\ view \in {"Disabled", "Ready", "Running", "Paused"}
  /\ timer \in BOOLEAN

\* The thread reads frames and pushes them.
Scheduling == pc \in {"schedule", "testPause", "blocking", "blocked", "push", "next"}

\* Frames are pushed only for the run the user started last, with its file, speed and
\* manipulation, and only while that run counts as active: a restart in the time between
\* the end of a run and the end of its thread does not mix the two.
CurrentRunOnly == Scheduling => active /\ localRun = settings

\* When a run is over, all its signals are handled and no other is active, the progress
\* timer does not run on: neither a stop that terminates the thread nor a stale signal
\* leaves it polling.
NoIdlePolling == timer => active \/ pc # "off" \/ signals # <<>>

\* The UI thread gets out of every stop and restart, even when the thread has missed its
\* notification and sleeps on.
ReplayStops == ui # "idle" ~> ui = "idle"

\* A run that has ended is not shown as running or paused for good, whether it ended with
\* its file, on an error or before its first frame: the buttons return to "start", or
\* another run is started.
EndIsShown == (~active /\ pc # "off") ~> (active \/ ~IsActive(view))

=============================================================================
