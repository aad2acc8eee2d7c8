------------------------------ MODULE ReplayProofs ------------------------------
(***************************************************************************)
(* A replay: ReplayControl, which starts, pauses and stops it, and         *)
(* SessionFile, with the file it reads and how that was written.           *)
(*                                                                         *)
(* The control, for any number of runs and whether or not a click may      *)
(* overtake a signal: frames are pushed for the current run only, and the  *)
(* progress timer does not run on when everything is over.  The thread     *)
(* clears m_isActive when it stops scheduling, so the UI thread can start  *)
(* a run without waiting only when no frame is pushed any more             *)
(* (OpenIsActive, CurrentRunOnly).  A run that ends by itself leaves a     *)
(* "stopped" signal behind, or is still to emit it (StoppedIsQueued), and  *)
(* a run that is stopped has no timer (StopTurnsTimerOff).                 *)
(*                                                                         *)
(* The file, for any schemas, messages and sizes of buffer and page.  The  *)
(* records of a file are cells laid out one after the other (Layout), and  *)
(* the walk of the reader finds exactly where (WalkFinds).  The cells on   *)
(* the disk, in the ofstream and in the buffer are together the layout of  *)
(* what is recorded, and the length of the block is 0 until all of them    *)
(* are on the disk (WriterInv), so a reader sees nothing or everything.    *)
(* From the patch of the length on nothing changes any more (Settled):     *)
(* what a view, an export or a replay has opened stays true of the file    *)
(* (DetailInv, ExportInv, PlayerInv).  A row of a CSV file gives back the  *)
(* message it was made from, rounded, or is refused (RawRow, DbcRow).      *)
(***************************************************************************)
EXTENDS ReplayControl, SessionFile, SequenceTheorems, WellFoundedInduction, TLAPS

-----------------------------------------------------------------------------
(***************************************************************************)
(* The control of a replay.                                                *)
(***************************************************************************)

\* How many signals the thread emits at most before it returns.
Unsent == CASE pc \in {"off", "return"} -> 0
            [] pc = "emitStopped"       -> 1
            [] OTHER                    -> 2

SignalsCounted == Len(signals) + Unsent <= 2 * settings

OpenIsActive == pc = "open" => active

StopTurnsTimerOff == ui \in {"beginStop", "stop"} => ~timer

StoppedQueued == \E i \in 1 .. Len(signals) : signals[i] = "stopped"

\* A timer outlives the run it was started for only until "stopped" is handled.
StoppedIsQueued == timer /\ ~active /\ pc \in {"off", "return"} => StoppedQueued

Control == OpenIsActive /\ CurrentRunOnly /\ StopTurnsTimerOff

Inv == TypeOK /\ SignalsCounted /\ Control /\ StoppedIsQueued

LEMMA InitInv == Init => Inv
<1> SUFFICES ASSUME Init PROVE Inv
  OBVIOUS
<1> USE DEF Init
<1>1. TypeOK
  <2>1. signals \in Seq({"finished", "error", "stopped"}) /\ Len(signals) <= 2 * settings
    OBVIOUS
  <2>2. QED
    BY <2>1 DEF TypeOK, Labels
<1>2. SignalsCounted
  BY DEF SignalsCounted, Unsent
<1>3. Control /\ StoppedIsQueued
  BY DEF Control, OpenIsActive, CurrentRunOnly, Scheduling, StopTurnsTimerOff, StoppedIsQueued
<1>4. QED
  BY <1>1, <1>2, <1>3 DEF Inv

\* A signal the thread queues is one of those counted.
LEMMA AppendType ==
  ASSUME TypeOK, SignalsCounted, Unsent >= 1,
         NEW signal \in {"finished", "error", "stopped"}, signals' = Append(signals, signal)
  PROVE  /\ signals' \in Seq({"finished", "error", "stopped"})
         /\ Len(signals') = Len(signals) + 1
         /\ Len(signals') <= 2 * settings
<1>1. signals \in Seq({"finished", "error", "stopped"}) /\ Len(signals) \in Nat
  BY DEF TypeOK
<1>2. signals' \in Seq({"finished", "error", "stopped"}) /\ Len(signals') = Len(signals) + 1
  BY <1>1
<1>3. Unsent \in {0, 1, 2} /\ settings \in Nat
  BY DEF Unsent, TypeOK
<1>4. QED
  BY <1>1, <1>2, <1>3 DEF SignalsCounted

\* A step of the replay thread keeps the types and emits no more than the signals counted.
LEMMA ThreadType ==
  ASSUME TypeOK, SignalsCounted, Thread \/ WakeUnasked
  PROVE  TypeOK' /\ SignalsCounted'
<1> USE DEF TypeOK, Labels, SignalsCounted, Unsent, flags, threadVars, uiVars
<1>1. CASE Open
  <2>1. pc' \in {"schedule", "emitError", "emitStopped"} /\ active' \in BOOLEAN
    BY <1>1 DEF Open, EndRun
  <2>2. UNCHANGED <<shouldStop, paused, settings, signals, uiVars>> /\ localRun' \in Nat
    BY <1>1 DEF Open, EndRun
  <2>3. TypeOK'
    BY <2>1, <2>2
  <2>4. Len(signals) + 2 <= 2 * settings
    BY <1>1 DEF Open
  <2>5. SignalsCounted'
    BY <2>1, <2>2, <2>4
  <2>6. QED
    BY <2>3, <2>5
<1>2. CASE Schedule
  BY <1>2 DEF Schedule
<1>3. CASE TestPause
  BY <1>3 DEF TestPause
<1>4. CASE Block
  BY <1>4 DEF Block
<1>5. CASE PushFrame
  BY <1>5 DEF PushFrame, EndRun
<1>6. CASE NextFrame
  BY <1>6 DEF NextFrame, EndRun
<1>7. CASE TestStop
  BY <1>7 DEF TestStop
<1>8. CASE EmitLast
  <2>1. CASE Emit("emitFinished", "finished", "emitStopped")
    BY <2>1, AppendType DEF Emit
  <2>2. CASE Emit("emitError", "error", "emitStopped")
    BY <2>2, AppendType DEF Emit
  <2>3. CASE Emit("emitStopped", "stopped", "return")
    BY <2>3, AppendType DEF Emit
  <2>4. QED
    BY <1>8, <2>1, <2>2, <2>3 DEF EmitLast
<1>9. CASE Return
  BY <1>9 DEF Return
<1>10. CASE WakeUnasked
  BY <1>10 DEF WakeUnasked
<1>11. QED
  BY <1>1, <1>2, <1>3, <1>4, <1>5, <1>6, <1>7, <1>8, <1>9, <1>10 DEF Thread

\* A new run makes room for the two signals of its thread.
LEMMA LaunchType ==
  ASSUME TypeOK, SignalsCounted, Launch, UNCHANGED <<localRun, signals>>,
         view' \in {"Disabled", "Ready", "Running", "Paused"}
  PROVE  TypeOK' /\ SignalsCounted'
<1> USE DEF TypeOK, Labels, SignalsCounted, Unsent, Launch
<1>1. settings' \in Nat /\ 2 * settings' = 2 * settings + 2
  OBVIOUS
<1>2. Len(signals) \in Nat /\ Len(signals') = Len(signals)
  OBVIOUS
<1>3. Len(signals) <= 2 * settings
  OBVIOUS
<1>4. Len(signals') <= 2 * settings'
  BY <1>1, <1>2, <1>3
<1>5. TypeOK'
  BY <1>1, <1>4
<1>6. SignalsCounted'
  <2>1. Unsent \in {0, 1, 2} /\ Len(signals) + Unsent <= 2 * settings
    OBVIOUS
  <2>2. Unsent' = Unsent \/ Unsent' = 2
    OBVIOUS
  <2>3. 2 * settings \in Nat
    OBVIOUS
  <2>4. QED
    BY <1>1, <1>2, <1>3, <2>1, <2>2, <2>3 DEF SignalsCounted
<1>7. QED
  BY <1>5, <1>6

\* So does a step of the UI thread, which starts a thread only with a new run.
LEMMA UiType ==
  ASSUME TypeOK, SignalsCounted, User \/ UiProceeds
  PROVE  TypeOK' /\ SignalsCounted'
<1> USE DEF TypeOK, Labels, SignalsCounted, Unsent, flags, threadVars, uiVars
<1>1. CASE StartReplay
  <2>1. CASE Launch
    BY <1>1, <2>1, LaunchType DEF StartReplay
  <2>2. CASE ~Launch
    BY <1>1, <2>2 DEF StartReplay, BeginStop
  <2>3. QED
    BY <2>1, <2>2
<1>2. CASE PauseReplay
  BY <1>2 DEF PauseReplay
<1>3. CASE ResumeReplay
  BY <1>3 DEF ResumeReplay, NotifyAll
<1>4. CASE StopReplay
  BY <1>4 DEF StopReplay, BeginStop
<1>5. CASE SelectSession
  BY <1>5 DEF SelectSession
<1>6. CASE AskToStop
  BY <1>6 DEF AskToStop, NotifyAll
<1>7. CASE Joined
  <2>1. CASE Launch
    BY <1>7, <2>1, LaunchType DEF Joined
  <2>2. CASE ~Launch
    BY <1>7, <2>2 DEF Joined
  <2>3. QED
    BY <2>1, <2>2
<1>8. CASE Terminate
  BY <1>8 DEF Terminate
<1>9. CASE HandleSignal
  BY <1>9 DEF HandleSignal
<1>10. QED
  BY <1>1, <1>2, <1>3, <1>4, <1>5, <1>6, <1>7, <1>8, <1>9 DEF User, UiProceeds

\* The thread schedules the run it has copied the settings of, until it ends it.
LEMMA ThreadControl ==
  ASSUME TypeOK, Control, Thread \/ WakeUnasked
  PROVE  Control'
<1> USE DEF Control, OpenIsActive, CurrentRunOnly, Scheduling, StopTurnsTimerOff,
            flags, threadVars, uiVars
<1>1. CASE Open
  BY <1>1 DEF Open, EndRun
<1>2. CASE Schedule
  BY <1>2 DEF Schedule
<1>3. CASE TestPause
  BY <1>3 DEF TestPause
<1>4. CASE Block
  BY <1>4 DEF Block
<1>5. CASE PushFrame
  BY <1>5 DEF PushFrame, EndRun
<1>6. CASE NextFrame
  BY <1>6 DEF NextFrame, EndRun
<1>7. CASE TestStop
  BY <1>7 DEF TestStop
<1>8. CASE EmitLast
  BY <1>8 DEF EmitLast, Emit
<1>9. CASE Return
  BY <1>9 DEF Return
<1>10. CASE WakeUnasked
  BY <1>10 DEF WakeUnasked
<1>11. QED
  BY <1>1, <1>2, <1>3, <1>4, <1>5, <1>6, <1>7, <1>8, <1>9, <1>10 DEF Thread

\* A run is started when none is active or when its thread is gone.
LEMMA UiControl ==
  ASSUME TypeOK, Control, User \/ UiProceeds
  PROVE  Control'
<1> USE DEF Control, OpenIsActive, CurrentRunOnly, Scheduling, StopTurnsTimerOff,
            flags, threadVars, uiVars
<1>1. CASE StartReplay
  BY <1>1 DEF StartReplay, BeginStop, Launch
<1>2. CASE PauseReplay
  BY <1>2 DEF PauseReplay
<1>3. CASE ResumeReplay
  BY <1>3 DEF ResumeReplay, NotifyAll
<1>4. CASE StopReplay
  BY <1>4 DEF StopReplay, BeginStop
<1>5. CASE SelectSession
  BY <1>5 DEF SelectSession
<1>6. CASE AskToStop
  BY <1>6 DEF AskToStop, NotifyAll
<1>7. CASE Joined
  BY <1>7 DEF Joined, Launch
<1>8. CASE Terminate
  BY <1>8 DEF Terminate
<1>9. CASE HandleSignal
  BY <1>9 DEF HandleSignal
<1>10. QED
  BY <1>1, <1>2, <1>3, <1>4, <1>5, <1>6, <1>7, <1>8, <1>9 DEF User, UiProceeds

\* The thread returns only after it has emitted "stopped".
LEMMA ThreadStopped ==
  ASSUME Inv, Thread \/ WakeUnasked
  PROVE  StoppedIsQueued'
<1> USE DEF Inv, TypeOK, StoppedIsQueued, StoppedQueued, flags, threadVars, uiVars
<1>1. CASE Open
  BY <1>1 DEF Open, EndRun
<1>2. CASE Schedule
  BY <1>2 DEF Schedule
<1>3. CASE TestPause
  BY <1>3 DEF TestPause
<1>4. CASE Block
  BY <1>4 DEF Block
<1>5. CASE PushFrame
  BY <1>5 DEF PushFrame, EndRun
<1>6. CASE NextFrame
  BY <1>6 DEF NextFrame, EndRun
<1>7. CASE TestStop
  BY <1>7 DEF TestStop
<1>8. CASE EmitLast
  <2>1. CASE pc = "emitStopped"
    <3>1. signals' = Append(signals, "stopped")
      BY <1>8, <2>1 DEF EmitLast, Emit
    <3>2. Len(signals') = Len(signals) + 1 /\ signals'[Len(signals')] = "stopped"
      BY <3>1
    <3>3. StoppedQueued'
      BY <3>2, Len(signals) \in Nat
    <3>4. QED
      BY <3>3
  <2>2. CASE pc # "emitStopped"
    BY <1>8, <2>2 DEF EmitLast, Emit
  <2>3. QED
    BY <2>1, <2>2
<1>9. CASE Return
  BY <1>9 DEF Return
<1>10. CASE WakeUnasked
  BY <1>10 DEF WakeUnasked
<1>11. QED
  BY <1>1, <1>2, <1>3, <1>4, <1>5, <1>6, <1>7, <1>8, <1>9, <1>10 DEF Thread

\* Only the handler of "stopped" takes the last of them from the queue, and it stops the
\* timer; a thread is terminated only while its run is active.
LEMMA UiStopped ==
  ASSUME Inv, User \/ UiProceeds
  PROVE  StoppedIsQueued'
<1> USE DEF Inv, TypeOK, Control, StopTurnsTimerOff, StoppedIsQueued, StoppedQueued,
            flags, threadVars, uiVars
<1>1. CASE StartReplay
  <2>1. active'
    BY <1>1 DEF StartReplay, BeginStop, Launch
  <2>2. QED
    BY <2>1
<1>2. CASE PauseReplay
  BY <1>2 DEF PauseReplay
<1>3. CASE ResumeReplay
  BY <1>3 DEF ResumeReplay, NotifyAll
<1>4. CASE StopReplay
  BY <1>4 DEF StopReplay, BeginStop
<1>5. CASE SelectSession
  BY <1>5 DEF SelectSession
<1>6. CASE AskToStop
  BY <1>6 DEF AskToStop, NotifyAll
<1>7. CASE Joined
  BY <1>7 DEF Joined, Launch
<1>8. CASE Terminate
  <2>1. active
    BY <1>8 DEF Terminate, OpenIsActive, CurrentRunOnly, Scheduling
  <2>2. QED
    BY <1>8, <2>1 DEF Terminate
<1>9. CASE HandleSignal
  <2>1. SUFFICES ASSUME timer', ~active', pc' \in {"off", "return"}
                 PROVE  StoppedQueued'
    OBVIOUS
  <2>2. StoppedQueued /\ Head(signals) # "stopped" /\ signals # <<>> /\ signals' = Tail(signals)
    BY <1>9, <2>1 DEF HandleSignal
  <2>3. PICK i \in 1 .. Len(signals) : signals[i] = "stopped"
    BY <2>2
  <2>4. i # 1
    BY <2>2, <2>3
  <2>5. i - 1 \in 1 .. Len(signals') /\ signals'[i - 1] = "stopped"
    BY <2>2, <2>3, <2>4
  <2>6. QED
    BY <2>5
<1>10. QED
  BY <1>1, <1>2, <1>3, <1>4, <1>5, <1>6, <1>7, <1>8, <1>9 DEF User, UiProceeds

LEMMA StepInv == Inv /\ [Next]_vars => Inv'
<1> SUFFICES ASSUME Inv, [Next]_vars PROVE Inv'
  OBVIOUS
<1>1. CASE Thread \/ WakeUnasked
  BY <1>1, ThreadType, ThreadControl, ThreadStopped DEF Inv
<1>2. CASE User \/ UiProceeds
  BY <1>2, UiType, UiControl, UiStopped DEF Inv
<1>3. CASE UNCHANGED vars
  <2> USE <1>3 DEF vars, flags, threadVars, uiVars, Inv
  <2>1. TypeOK' /\ SignalsCounted'
    BY DEF TypeOK, SignalsCounted, Unsent
  <2>2. Control' /\ StoppedIsQueued'
    BY DEF Control, OpenIsActive, CurrentRunOnly, Scheduling, StopTurnsTimerOff,
           StoppedIsQueued, StoppedQueued
  <2>3. QED
    BY <2>1, <2>2
<1>4. QED
  BY <1>1, <1>2, <1>3 DEF Next

LEMMA Invariance == Spec => []Inv
BY InitInv, StepInv, PTL DEF Spec

\* Every variable of the replay keeps its type; a run queues two signals at most.
THEOREM ReplayTypeCorrect == Spec => []TypeOK
<1>1. Inv => TypeOK
  BY DEF Inv
<1>2. QED
  BY <1>1, Invariance, PTL

\* ReplayProducerWorker::run pushes frames only while its run is active, and with the
\* settings of the run that was started last.
THEOREM CurrentRunOnlyHolds == Spec => []CurrentRunOnly
<1>1. Inv => CurrentRunOnly
  BY DEF Inv, Control
<1>2. QED
  BY <1>1, Invariance, PTL

\* The progress timer of SendingComponent is stopped by the stop button or by the "stopped"
\* signal, which every run that ends by itself leaves in the queue.
THEOREM NoIdlePollingHolds == Spec => []NoIdlePolling
<1>1. Inv => NoIdlePolling
  BY DEF Inv, TypeOK, StoppedIsQueued, StoppedQueued, NoIdlePolling
<1>2. QED
  BY <1>1, Invariance, PTL

-----------------------------------------------------------------------------
(***************************************************************************)
(* The elements of a sequence that are in a set.                           *)
(***************************************************************************)

\* A set with 0 that goes on from each number below n goes on to n.
LEMMA UpTo ==
  ASSUME NEW n \in Nat, NEW T, 0 \in T, \A i \in 0 .. n - 1 : i \in T => i + 1 \in T
  PROVE  n \in T
<1> DEFINE N == {i \in 0 .. n : i \notin T}
<1> SUFFICES ASSUME n \notin T PROVE FALSE
  OBVIOUS
<1>1. PICK R : IsWellFoundedOn(R, Nat) /\ \A a, b \in Nat : a < b => <<a, b>> \in R
  <2>1. IsWellFoundedOn(OpToRel(<, Nat), Nat)
    BY NatLessThanWellFounded
  <2>2. \A a, b \in Nat : a < b => <<a, b>> \in OpToRel(<, Nat)
    BY DEF OpToRel
  <2> QED  BY <2>1, <2>2, Zenon
<1>2. PICK i \in N : \A k \in N : ~ (<<k, i>> \in R)
  <2>1. IsWellFoundedOn(R, Nat) /\ N \subseteq Nat /\ N # {}
    BY <1>1
  <2> HIDE DEF N
  <2> QED  BY <2>1, WFMin, ZenonT(30)
<1>3. i \in 0 .. n /\ i # 0 /\ i \notin T
  OBVIOUS
<1>4. i - 1 \in 0 .. n - 1 /\ i - 1 \in 0 .. n /\ i - 1 < i /\ i \in Nat /\ i - 1 \in Nat
  BY <1>3
<1>5. i - 1 \in T
  BY <1>1, <1>2, <1>4
<1>6. i - 1 + 1 \in T /\ i - 1 + 1 = i
  BY <1>4, <1>5
<1> QED  BY <1>3, <1>6

\* What Picked has after the first n elements.
Picks(s, S, n, f) ==
  f = [i \in 0 .. n |-> IF i = 0 THEN <<>>
                        ELSE IF s[i] \in S THEN Append(f[i - 1], s[i]) ELSE f[i - 1]]

LEMMA PicksAt ==
  ASSUME NEW s, NEW S, NEW n, NEW f, Picks(s, S, n, f), NEW i \in 0 .. n
  PROVE  f[i] = IF i = 0 THEN <<>>
                ELSE IF s[i] \in S THEN Append(f[i - 1], s[i]) ELSE f[i - 1]
BY Zenon DEF Picks

LEMMA PicksExist ==
  ASSUME NEW s, NEW S, NEW n \in Nat
  PROVE  \E f : Picks(s, S, n, f)
<1> DEFINE T == {k \in 0 .. n : \E f : Picks(s, S, k, f)}
<1>1. 0 \in T
  <2> DEFINE f == [i \in 0 .. 0 |-> <<>>]
  <2>1. \A i \in 0 .. 0 : i = 0
    OBVIOUS
  <2>2. Picks(s, S, 0, f)
    BY <2>1 DEF Picks
  <2> QED  BY <2>2
<1>2. ASSUME NEW k \in 0 .. n - 1, k \in T
      PROVE  k + 1 \in T
  <2>1. PICK f : Picks(s, S, k, f)
    BY <1>2
  <2> DEFINE next == IF s[k + 1] \in S THEN Append(f[k], s[k + 1]) ELSE f[k]
             g == [i \in 0 .. k + 1 |-> IF i = k + 1 THEN next ELSE f[i]]
  <2>2. ASSUME NEW i \in 0 .. k + 1
        PROVE  g[i] = IF i = 0 THEN <<>>
                      ELSE IF s[i] \in S THEN Append(g[i - 1], s[i]) ELSE g[i - 1]
    <3>1. CASE i = k + 1
      <4>1. k \in 0 .. k + 1 /\ k # k + 1 /\ i - 1 = k /\ i # 0
        BY <3>1
      <4>2. g[k] = f[k]
        BY <4>1
      <4> QED  BY <3>1, <4>1, <4>2
    <3>2. CASE i # k + 1
      <4>1. i \in 0 .. k /\ (i # 0 => i - 1 \in 0 .. k + 1 /\ i - 1 # k + 1)
        BY <3>2
      <4>2. g[i] = f[i] /\ (i # 0 => g[i - 1] = f[i - 1])
        BY <3>2, <4>1
      <4>3. f[i] = IF i = 0 THEN <<>>
                   ELSE IF s[i] \in S THEN Append(f[i - 1], s[i]) ELSE f[i - 1]
        BY <2>1, <4>1, PicksAt
      <4> HIDE DEF g
      <4> QED  BY <4>1, <4>2, <4>3
    <3> QED  BY <3>1, <3>2
  <2>3. g = [i \in 0 .. k + 1 |-> g[i]]
    OBVIOUS
  <2> HIDE DEF g
  <2>4. Picks(s, S, k + 1, g)
    BY <2>2, <2>3 DEF Picks
  <2> QED  BY <2>4
<1> HIDE DEF T
<1>3. n \in T
  BY <1>1, <1>2, UpTo
<1> QED  BY <1>3 DEF T

\* How far it has come does not depend on the length.
LEMMA PicksAgree ==
  ASSUME NEW A, NEW s \in Seq(A), NEW t \in Seq(A), NEW S, NEW n \in Nat, NEW m \in Nat, n <= m,
         \A i \in 1 .. n : s[i] = t[i],
         NEW f, Picks(s, S, n, f), NEW g, Picks(t, S, m, g)
  PROVE  f[n] = g[n]
<1> DEFINE T == {i \in 0 .. n : f[i] = g[i]}
<1>a. \A i \in 0 .. n : f[i] = IF i = 0 THEN <<>>
                   ELSE IF s[i] \in S THEN Append(f[i - 1], s[i]) ELSE f[i - 1]
  BY PicksAt
<1>b. \A i \in 0 .. m : g[i] = IF i = 0 THEN <<>>
                   ELSE IF t[i] \in S THEN Append(g[i - 1], t[i]) ELSE g[i - 1]
  BY PicksAt
<1>1. 0 \in T
  <2>1. 0 \in 0 .. n /\ 0 \in 0 .. m
    OBVIOUS
  <2>2. f[0] = <<>> /\ g[0] = <<>>
    BY <1>a, <1>b, <2>1
  <2> QED  BY <2>1, <2>2
<1>2. ASSUME NEW k \in 0 .. n - 1, k \in T
      PROVE  k + 1 \in T
  <2>1. k + 1 \in 0 .. n /\ k + 1 \in 0 .. m /\ k + 1 # 0 /\ k + 1 - 1 = k /\ s[k + 1] = t[k + 1]
    OBVIOUS
  <2> QED  BY <1>2, <1>a, <1>b, <2>1
<1> HIDE DEF T
<1>3. n \in T
  BY <1>1, <1>2, UpTo
<1> QED  BY <1>3 DEF T

LEMMA PickedIs ==
  ASSUME NEW A, NEW s \in Seq(A), NEW S, NEW f, Picks(s, S, Len(s), f)
  PROVE  Picked(s, S) = f[Len(s)]
<1> DEFINE g == CHOOSE g : Picks(s, S, Len(s), g)
<1>1. Picked(s, S) = g[Len(s)]
  BY Zenon DEF Picked, Picks
<1>2. Picks(s, S, Len(s), g)
  BY Zenon
<1>3. Len(s) \in Nat
  OBVIOUS
<1> HIDE DEF g
<1> QED  BY <1>1, <1>2, <1>3, PicksAgree

LEMMA PickedOfNone == ASSUME NEW S PROVE Picked(<<>>, S) = <<>>
<1>1. Len(<<>>) = 0 /\ <<>> \in Seq({})
  OBVIOUS
<1>2. PICK f : Picks(<<>>, S, 0, f)
  BY PicksExist
<1>3. f[0] = <<>>
  <2>1. 0 \in 0 .. 0
    OBVIOUS
  <2> QED  BY <1>2, <2>1, PicksAt
<1> QED  BY <1>1, <1>2, <1>3, PickedIs

LEMMA PickedOfAppend ==
  ASSUME NEW A, NEW s \in Seq(A), NEW S, NEW e \in A
  PROVE  Picked(Append(s, e), S) = IF e \in S THEN Append(Picked(s, S), e) ELSE Picked(s, S)
<1> DEFINE t == Append(s, e)
           n == Len(s)
           m == n + 1
<1>1. /\ n \in Nat /\ m \in Nat /\ n <= m /\ m \in 0 .. m /\ m # 0 /\ m - 1 = n
      /\ t \in Seq(A) /\ Len(t) = m /\ t[m] = e /\ \A i \in 1 .. n : s[i] = t[i]
  OBVIOUS
<1>2. n = Len(s) /\ t = Append(s, e)
  OBVIOUS
<1> HIDE DEF t, n, m
<1>3. PICK f : Picks(s, S, n, f)
  BY <1>1, PicksExist
<1>4. PICK g : Picks(t, S, m, g)
  BY <1>1, PicksExist
<1>5. f[n] = g[n]
  BY <1>1, <1>3, <1>4, PicksAgree
<1>6. g[m] = IF t[m] \in S THEN Append(g[m - 1], t[m]) ELSE g[m - 1]
  <2>1. \A i \in 0 .. m : g[i] = IF i = 0 THEN <<>>
                  ELSE IF t[i] \in S THEN Append(g[i - 1], t[i]) ELSE g[i - 1]
    BY <1>4, PicksAt
  <2>2. m \in 0 .. m /\ m # 0
    BY <1>1
  <2> QED  BY <2>1, <2>2
<1>7. Picked(s, S) = f[n] /\ Picked(t, S) = g[m]
  BY <1>1, <1>2, <1>3, <1>4, PickedIs
<1> QED  BY <1>1, <1>2, <1>5, <1>6, <1>7

LEMMA RangeOfAppend ==
  ASSUME NEW A, NEW s \in Seq(A), NEW e \in A
  PROVE  Append(s, e) \in Seq(A) /\ Range(Append(s, e)) = Range(s) \union {e}
<1>1. Append(s, e) \in Seq(A) /\ Append(s, e) = s \o <<e>> /\ <<e>> \in Seq(A)
  BY AppendIsConcat
<1>2. Range(<<e>>) = {e}
  BY DEF Range
<1>3. Range(s \o <<e>>) = Range(s) \union Range(<<e>>)
  <2>1. \A t \in Seq(A) : Range(s \o t) = Range(s) \union Range(t)
    BY RangeConcatenation
  <2> QED  BY <1>1, <2>1, Zenon
<1> QED  BY <1>1, <1>2, <1>3

\* It is a sequence of those elements.
LEMMA PickedType ==
  ASSUME NEW A, NEW s \in Seq(A), NEW S
  PROVE  Picked(s, S) \in Seq(A \intersect S) /\ Range(Picked(s, S)) = Range(s) \intersect S
<1> DEFINE n == Len(s)
           B == A \intersect S
           first(i) == {s[j] : j \in 1 .. i}
<1>1. n \in Nat /\ \A i \in 1 .. n : s[i] \in A
  OBVIOUS
<1>2. PICK f : Picks(s, S, n, f)
  BY <1>1, PicksExist
<1>3. Range(s) = first(n)
  BY RangeEquality
<1>4. Picked(s, S) = f[n]
  BY <1>2, PickedIs
<1> DEFINE T == {i \in 0 .. n : f[i] \in Seq(B) /\ Range(f[i]) = first(i) \intersect S}
<1> HIDE DEF n, B
<1>5. 0 \in T
  <2>1. 0 \in 0 .. n
    BY <1>1
  <2>2. f[0] = <<>>
    BY <1>2, <2>1, PicksAt
  <2>3. <<>> \in Seq(B) /\ Range(<<>>) = {} /\ first(0) = {}
    BY DEF Range
  <2> QED  BY <2>1, <2>2, <2>3
<1>6. ASSUME NEW k \in 0 .. n - 1, k \in T
      PROVE  k + 1 \in T
  <2> DEFINE m == k + 1
  <2>1. m \in 0 .. n /\ m # 0 /\ m - 1 = k /\ m \in 1 .. n /\ 1 .. m = (1 .. k) \union {m}
    BY <1>1
  <2>2. f[k] \in Seq(B) /\ Range(f[k]) = first(k) \intersect S
    BY <1>6
  <2> HIDE DEF m
  <2>3. f[m] = IF s[m] \in S THEN Append(f[k], s[m]) ELSE f[k]
    BY <1>2, <2>1, PicksAt
  <2>4. first(m) = first(k) \union {s[m]}
    BY <2>1
  <2> HIDE DEF first
  <2>5. CASE s[m] \in S
    <3>1. s[m] \in B
      BY <1>1, <2>1, <2>5 DEF B
    <3>2. Append(f[k], s[m]) \in Seq(B) /\ Range(Append(f[k], s[m])) = Range(f[k]) \union {s[m]}
      BY <2>2, <3>1, RangeOfAppend
    <3> QED  BY <2>1, <2>2, <2>3, <2>4, <2>5, <3>2 DEF m
  <2>6. CASE s[m] \notin S
    BY <2>1, <2>2, <2>3, <2>4, <2>6 DEF m
  <2> QED  BY <2>5, <2>6
<1>7. n \in T
  <2> HIDE DEF T
  <2> QED  BY <1>1, <1>5, <1>6, UpTo
<1> HIDE DEF first
<1> QED  BY <1>3, <1>4, <1>7 DEF B

-----------------------------------------------------------------------------
(***************************************************************************)
(* Where the records of a file are.                                        *)
(***************************************************************************)

CellSet == Frames \union Nat

FileType(f) ==
  /\ f.kind \in {"raw", "dbc"}
  /\ f.kind = "dbc" => f.schema \in Schemas
  /\ f.cells \in Seq(CellSet)
  /\ f.length \in Nat

PlaceOf(names, name) == CHOOSE k \in DOMAIN names : names[k] = name

\* The record r takes the cells C from p to before q.
Holds(kind, schema, C, p, q, r) ==
  /\ p \in Nat \ {0} /\ q \in Nat /\ p < q /\ q <= Len(C) + 1
  /\ kind = "raw" => q = p + 1 /\ C[p] = r /\ r \in Frames
  /\ kind = "dbc" => \E g \in DOMAIN schema :
       LET names == schema[g].signals
       IN  /\ C[p] = RecordId(g) /\ q = p + 1 + Len(names)
           /\ r = [id |-> schema[g].msgId,
                   values |-> [name \in Range(names) |->
                                 C[p + PlaceOf(names, name)]]]

\* The cells C are the records R, one after the other; each starts where at says.
Placed(kind, schema, C, R, at) ==
  /\ at \in Seq(Nat) /\ Len(R) \in Nat /\ Len(at) = Len(R) + 1
  /\ at[1] = 1 /\ at[Len(R) + 1] = Len(C) + 1
  /\ \A i \in 1 .. Len(R) + 1 : i <= at[i]
  /\ \A i \in 1 .. Len(R) : Holds(kind, schema, C, at[i], at[i + 1], R[i])

Layout(kind, schema, C, R) == \E at : Placed(kind, schema, C, R, at)

LEMMA SmallRemainder ==
  ASSUME NEW a \in Nat, NEW b \in Nat \ {0}, a < b
  PROVE  a % b = a
<1>1. a % b \in 0 .. b - 1 /\ a \div b \in Int /\ a = (a \div b) * b + (a % b)
  BY Z3
<1>2. (a \div b) * b \in Int
  BY <1>1, Z3
<1>3. a \div b >= 1 => (a \div b) * b >= b
  BY <1>1, Z3
<1>4. a \div b <= -1 => (a \div b) * b <= -b
  BY <1>1, Z3
<1>5. a \div b = 0
  BY <1>1, <1>2, <1>3, <1>4
<1> QED  BY <1>1, <1>5

\* With no more groups than a byte can number a record id is that of one group.
LEMMA GroupOfId ==
  ASSUME NEW s \in Schemas, NEW i \in DOMAIN s
  PROVE  /\ RecordId(i) \in Nat /\ Known(s, RecordId(i)) /\ GroupByRecId(s, RecordId(i)) = i
         /\ s[i].signals \in Seq(STRING) /\ Len(s[i].signals) \in 0 .. ByteRange - 1
<1>1. /\ ByteRange \in Nat \ {0} /\ s \in Seq([msgId : Nat, signals : Seq(STRING)])
      /\ Len(s) \in 1 .. ByteRange /\ Len(s[i].signals) < ByteRange
  BY SessionFileAssumption
<1>2. DOMAIN s = 1 .. Len(s)
  BY <1>1
<1>3. \A j \in DOMAIN s : (j - 1) % ByteRange = j - 1
  <2>1. \A j \in DOMAIN s : j - 1 \in Nat /\ j - 1 < ByteRange
    BY <1>1, <1>2
  <2> QED  BY <1>1, <2>1, SmallRemainder
<1>4. \A j \in DOMAIN s : RecordId(j) = RecordId(i) => j = i
  BY <1>2, <1>3 DEF RecordId
<1> DEFINE same == {j \in DOMAIN s : RecordId(j) = RecordId(i)}
<1>5. same = {i}
  BY <1>4
<1>6. Max({i}) = i
  BY <1>1, <1>2 DEF Max
<1>7. GroupByRecId(s, RecordId(i)) = i
  BY <1>5, <1>6 DEF GroupByRecId
<1>8. s[i].signals \in Seq(STRING)
  <2> DEFINE Group == [msgId : Nat, signals : Seq(STRING)]
  <2>1. s[i] \in Group
    <3>1. s \in Seq(Group) /\ i \in 1 .. Len(s)
      BY <1>1, <1>2
    <3> HIDE DEF Group
    <3> QED  BY <3>1, ElementOfSeq
  <2> QED  BY <2>1
<1>9. RecordId(i) \in Nat
  <2>1. RecordId(i) = i - 1
    BY <1>3, Zenon DEF RecordId
  <2>2. Len(s) \in Nat /\ i \in 1 .. Len(s)
    BY <1>1, <1>2
  <2>3. i - 1 \in Nat
    BY <2>2
  <2> QED  BY <2>1, <2>3
<1>10. Known(s, RecordId(i))
  BY Zenon DEF Known
<1>11. Len(s[i].signals) \in 0 .. ByteRange - 1
  <2>1. Len(s[i].signals) \in Nat
    BY <1>8
  <2> QED  BY <1>1, <2>1
<1> QED  BY <1>7, <1>8, <1>9, <1>10, <1>11

LEMMA HoldsMore ==
  ASSUME NEW kind \in {"raw", "dbc"}, NEW schema, kind = "dbc" => schema \in Schemas,
         NEW C \in Seq(CellSet), NEW X \in Seq(CellSet), NEW p, NEW q, NEW r,
         Holds(kind, schema, C, p, q, r)
  PROVE  Holds(kind, schema, C \o X, p, q, r)
<1>1. /\ Len(C \o X) = Len(C) + Len(X) /\ Len(C) \in Nat /\ Len(X) \in Nat
      /\ \A i \in 1 .. Len(C) : (C \o X)[i] = C[i]
  OBVIOUS
<1> DEFINE D == C \o X
<1> HIDE DEF D
<1>2. p \in Nat \ {0} /\ q \in Nat /\ p < q /\ q <= Len(C) + 1 /\ p \in 1 .. Len(C)
  BY <1>1 DEF Holds
<1>3. q <= Len(D) + 1 /\ D[p] = C[p]
  BY <1>1, <1>2 DEF D
<1>4. ASSUME kind = "dbc"
      PROVE  \E g \in DOMAIN schema :
       LET names == schema[g].signals
       IN  /\ D[p] = RecordId(g) /\ q = p + 1 + Len(names)
           /\ r = [id |-> schema[g].msgId,
                   values |-> [name \in Range(names) |->
                                 D[p + PlaceOf(names, name)]]]
  <2>1. PICK g \in DOMAIN schema :
           /\ C[p] = RecordId(g) /\ q = p + 1 + Len(schema[g].signals)
           /\ r = [id |-> schema[g].msgId,
                   values |-> [name \in Range(schema[g].signals) |->
                                 C[p + PlaceOf(schema[g].signals, name)]]]
    BY <1>4 DEF Holds
  <2> DEFINE names == schema[g].signals
             place(name) == PlaceOf(names, name)
  <2>2. names \in Seq(STRING) /\ Len(names) \in Nat /\ DOMAIN names = 1 .. Len(names)
    <3>1. names \in Seq(STRING)
      BY <1>4, GroupOfId
    <3> HIDE DEF names
    <3> QED  BY <3>1
  <2>3. ASSUME NEW name \in Range(names)
        PROVE  D[p + place(name)] = C[p + place(name)]
    <3>1. place(name) \in DOMAIN names
      <4>1. \E k \in DOMAIN names : names[k] = name
        BY DEF Range
      <4> QED  BY <4>1 DEF PlaceOf
    <3>2. q = p + 1 + Len(names)
      BY <2>1
    <3>3. p + place(name) \in 1 .. Len(C)
      <4> HIDE DEF place, names
      <4> QED  BY <1>1, <1>2, <2>2, <3>1, <3>2
    <3> HIDE DEF place
    <3> QED  BY <1>1, <3>3 DEF D
  <2>4. r = [id |-> schema[g].msgId,
             values |-> [name \in Range(names) |-> D[p + place(name)]]]
    <3>1. [name \in Range(names) |-> C[p + place(name)]] = [name \in Range(names) |-> D[p + place(name)]]
      BY <2>3
    <3> QED  BY <2>1, <3>1
  <2> QED  BY <1>3, <2>1, <2>4
<1>5. kind = "raw" => q = p + 1 /\ D[p] = r /\ r \in Frames
  BY <1>3 DEF Holds
<1>6. Holds(kind, schema, D, p, q, r)
  BY <1>2, <1>3, <1>4, <1>5 DEF Holds
<1> QED  BY <1>6 DEF D

\* A record is read as it is laid out.
LEMMA HoldsReads ==
  ASSUME NEW f, FileType(f), NEW offsets, NEW i, NEW p, offsets[i] = p, NEW q, NEW r,
         Holds(f.kind, f.schema, f.cells, p, q, r)
  PROVE  Mdf4Has(f, offsets, i) /\ Mdf4Record(f, offsets, i) = r
<1>1. p \in Nat \ {0} /\ q \in Nat /\ p < q /\ q <= Len(f.cells) + 1 /\ Len(f.cells) \in Nat
  BY DEF Holds, FileType
<1>2. CASE f.kind = "raw"
  <2>1. q = p + 1 /\ f.cells[p] = r /\ r \in Frames
    BY <1>2 DEF Holds
  <2>2. r.id \in 0 .. IdRange - 1 /\ IdRange \in Nat \ {0} /\ r = [id |-> r.id, dlc |-> r.dlc, data |-> r.data]
    BY <2>1, SessionFileAssumption
  <2>3. r.id % IdRange = r.id
    BY <2>2, SmallRemainder
  <2>4. [r EXCEPT !.id = @ % IdRange] = r
    <3>1. PICK a, b, c : r = [id |-> a, dlc |-> b, data |-> c]
      BY <2>2
    <3> QED  BY <2>3, <3>1
  <2>5. Mdf4Record(f, offsets, i) = [f.cells[p] EXCEPT !.id = @ % IdRange]
    BY <1>2 DEF Mdf4Record
  <2>6. Mdf4Has(f, offsets, i)
    BY <1>1, <1>2 DEF Mdf4Has
  <2> QED  BY <2>1, <2>4, <2>5, <2>6
<1>3. CASE f.kind = "dbc"
  <2>1. PICK g \in DOMAIN f.schema :
           /\ f.cells[p] = RecordId(g) /\ q = p + 1 + Len(f.schema[g].signals)
           /\ r = [id |-> f.schema[g].msgId,
                   values |-> [name \in Range(f.schema[g].signals) |->
                                 f.cells[p + PlaceOf(f.schema[g].signals, name)]]]
    BY <1>3 DEF Holds
  <2>2. /\ GroupByRecId(f.schema, f.cells[p]) = g /\ Len(f.schema[g].signals) \in Nat
    BY <1>3, <2>1, GroupOfId DEF FileType
  <2>3. Mdf4Has(f, offsets, i)
    BY <1>1, <1>3, <2>1, <2>2 DEF Mdf4Has
  <2>4. Mdf4Record(f, offsets, i)
          = [id |-> f.schema[g].msgId,
             values |-> [name \in Range(f.schema[g].signals) |->
                           f.cells[p + PlaceOf(f.schema[g].signals, name)]]]
    <3>1. offsets[i] = p /\ GroupByRecId(f.schema, f.cells[p]) = g /\ f.kind # "raw"
      BY <1>3, <2>2
    <3> QED  BY <3>1 DEF Mdf4Record, PlaceOf
  <2> QED  BY <2>1, <2>3, <2>4, Zenon
<1> QED  BY <1>2, <1>3 DEF FileType

\* Where the record after the one at p starts.
NextPlace(f, p) == p + 1 + Len(f.schema[GroupByRecId(f.schema, f.cells[p])].signals)

\* The recursion of Walk, from the place n on.
WalkStep(f, g, p) ==
  IF p > f.length \/ p > Len(f.cells) THEN <<>>
  ELSE IF ~Known(f.schema, f.cells[p]) THEN <<p>> ELSE <<p>> \o g[NextPlace(f, p)]

Walks(f, n, g) == g = [p \in n .. f.length + ByteRange + 1 |-> WalkStep(f, g, p)]

LEMMA WalksAt ==
  ASSUME NEW f, NEW n, NEW g, Walks(f, n, g), NEW p \in n .. f.length + ByteRange + 1
  PROVE  g[p] = WalkStep(f, g, p)
BY Zenon DEF Walks

LEMMA WalksExist ==
  ASSUME NEW f, FileType(f), f.kind = "dbc"
  PROVE  \E g : Walks(f, 1, g)
<1> DEFINE last == f.length + ByteRange + 1
           T == {j \in 0 .. last : \E g : Walks(f, last + 1 - j, g)}
<1>1. ByteRange \in Nat \ {0} /\ f.length \in Nat /\ last \in Nat /\ f.schema \in Schemas
  <2>1. ByteRange \in Nat \ {0}
    BY SessionFileAssumption
  <2>2. f.length \in Nat /\ f.schema \in Schemas
    BY DEF FileType
  <2> QED  BY <2>1, <2>2
<1>2. ASSUME NEW p \in 1 .. f.length, Known(f.schema, f.cells[p])
      PROVE  NextPlace(f, p) \in p + 1 .. last
  <2>1. PICK i \in DOMAIN f.schema : RecordId(i) = f.cells[p]
    BY <1>2 DEF Known
  <2>2. GroupByRecId(f.schema, f.cells[p]) = i /\ Len(f.schema[i].signals) \in 0 .. ByteRange - 1
    BY <1>1, <2>1, GroupOfId
  <2>3. NextPlace(f, p) = p + 1 + Len(f.schema[i].signals)
    BY <2>2 DEF NextPlace
  <2>4. p \in Nat /\ p <= f.length /\ last = f.length + ByteRange + 1
    BY <1>1
  <2> DEFINE k == Len(f.schema[i].signals)
  <2>5. NextPlace(f, p) = p + 1 + k /\ k \in 0 .. ByteRange - 1
    BY <2>2, <2>3
  <2> HIDE DEF k, last
  <2> QED  BY <1>1, <2>4, <2>5
<1>3. 0 \in T
  <2> DEFINE g == [p \in last + 1 .. last |-> <<>>]
  <2>1. Walks(f, last + 1, g)
    <3>1. last + 1 .. last = {}
      BY <1>1
    <3> QED  BY <3>1 DEF Walks
  <2>2. last + 1 - 0 = last + 1 /\ 0 \in 0 .. last
    BY <1>1
  <2> HIDE DEF g
  <2> QED  BY <2>1, <2>2
<1>4. ASSUME NEW j \in 0 .. last - 1, j \in T
      PROVE  j + 1 \in T
  <2> DEFINE n == last + 1 - j
  <2>1. PICK g : Walks(f, n, g)
    BY <1>4
  <2>2. n \in 2 .. last + 1 /\ n - 1 \in 1 .. last /\ last + 1 - (j + 1) = n - 1 /\ j + 1 \in 0 .. last
    BY <1>1
  <2> DEFINE h == [p \in n - 1 .. last |-> IF p = n - 1 THEN WalkStep(f, g, p) ELSE g[p]]
  <2> HIDE DEF n, last
  <2>3. ASSUME NEW p \in n - 1 .. last
        PROVE  h[p] = WalkStep(f, h, p)
    <3>1. p \in Nat /\ p >= 1 /\ last \in Nat
      BY <1>1, <2>2
    <3>2. h[p] = WalkStep(f, g, p)
      <4>1. CASE p = n - 1
        BY <4>1
      <4>2. CASE p # n - 1
        <5>1. p \in n .. last
          BY <2>2, <4>2
        <5>2. g[p] = WalkStep(f, g, p)
          <6>1. p \in n .. f.length + ByteRange + 1
            BY <5>1 DEF last
          <6> QED  BY <2>1, <6>1, WalksAt, Zenon
        <5> QED  BY <4>2, <5>2
      <4> QED  BY <4>1, <4>2
    <3>3. ASSUME p <= f.length, Known(f.schema, f.cells[p])
          PROVE  h[NextPlace(f, p)] = g[NextPlace(f, p)]
      <4>1. NextPlace(f, p) \in p + 1 .. last
        <5>1. p \in 1 .. f.length
          BY <1>1, <3>1, <3>3
        <5> QED  BY <1>2, <3>3, <5>1
      <4>2. NextPlace(f, p) \in n - 1 .. last /\ NextPlace(f, p) # n - 1
        BY <2>2, <3>1, <4>1
      <4> DEFINE q == NextPlace(f, p)
      <4> HIDE DEF q
      <4>3. h[q] = g[q]
        BY <4>2 DEF q
      <4> QED  BY <4>3 DEF q
    <3>4. p > f.length \/ p <= f.length
      BY <1>1, <3>1
    <3> HIDE DEF h
    <3> QED  BY <3>2, <3>3, <3>4 DEF WalkStep
  <2>4. h = [p \in n - 1 .. last |-> h[p]]
    OBVIOUS
  <2> HIDE DEF h
  <2>5. Walks(f, n - 1, h)
    BY <2>3, <2>4 DEF Walks, last
  <2> QED  BY <2>2, <2>5
<1>5. last \in T
  <2> HIDE DEF T
  <2> QED  BY <1>1, <1>3, <1>4, UpTo
<1>6. last + 1 - last = 1
  BY <1>1
<1> QED  BY <1>5, <1>6

\* The walk over the records of a file finds where each of them starts.
LEMMA WalkFinds ==
  ASSUME NEW f, FileType(f), f.kind = "dbc", f.length = Len(f.cells),
         NEW R, NEW at, Placed(f.kind, f.schema, f.cells, R, at)
  PROVE  Walk(f) = SubSeq(at, 1, Len(R))
<1> DEFINE n == Len(R)
           g == CHOOSE g : Walks(f, 1, g)
           T == {j \in 0 .. n : g[at[n + 1 - j]] = SubSeq(at, n + 1 - j, n)}
<1>1. /\ ByteRange \in Nat \ {0} /\ f.length \in Nat /\ f.schema \in Schemas
      /\ at \in Seq(Nat) /\ n \in Nat /\ Len(at) = n + 1 /\ at[1] = 1 /\ at[n + 1] = f.length + 1
      /\ \A i \in 1 .. n + 1 : at[i] \in Nat
      /\ \A i \in 1 .. n : Holds(f.kind, f.schema, f.cells, at[i], at[i + 1], R[i])
  <2>1. at \in Seq(Nat) /\ n \in Nat /\ Len(at) = n + 1
    BY DEF Placed
  <2>2. \A i \in 1 .. n + 1 : at[i] \in Nat
    <3> HIDE DEF n
    <3> QED  BY <2>1
  <2> QED  BY <2>1, <2>2, SessionFileAssumption DEF FileType, Placed
<1>2. Walk(f) = g[1]
  BY Zenon DEF Walk, Walks, WalkStep, NextPlace
<1>3. Walks(f, 1, g)
  <2>1. \E d : Walks(f, 1, d)
    BY WalksExist
  <2> QED  BY <2>1, Zenon
<1> HIDE DEF n, g
<1>4. 0 \in T
  <2>1. f.length + 1 \in 1 .. f.length + ByteRange + 1
    BY <1>1
  <2>2. g[f.length + 1] = WalkStep(f, g, f.length + 1)
    BY <1>3, <2>1, WalksAt
  <2>3. f.length + 1 > f.length
    BY <1>1
  <2>4. WalkStep(f, g, f.length + 1) = <<>>
    BY <2>3, Zenon DEF WalkStep
  <2>5. SubSeq(at, n + 1, n) = <<>>
    BY <1>1, SubSeqEmpty
  <2>6. n + 1 - 0 = n + 1 /\ 0 \in 0 .. n
    BY <1>1
  <2> QED  BY <1>1, <2>2, <2>4, <2>5, <2>6
<1>5. ASSUME NEW j \in 0 .. n - 1, j \in T
      PROVE  j + 1 \in T
  <2> DEFINE i == n - j
  <2>1. /\ i \in 1 .. n /\ i + 1 = n + 1 - j /\ i = n + 1 - (j + 1) /\ j + 1 \in 0 .. n
        /\ i \in 1 .. n + 1 /\ i + 1 \in 1 .. n + 1 /\ n \in i .. n + 1
    BY <1>1
  <2> HIDE DEF i
  <2>2. g[at[i + 1]] = SubSeq(at, i + 1, n)
    BY <1>5, <2>1
  <2>3. Holds(f.kind, f.schema, f.cells, at[i], at[i + 1], R[i])
    BY <1>1, <2>1
  <2>4. at[i] \in 1 .. f.length
    BY <1>1, <2>1, <2>3 DEF Holds
  <2>5. at[i] \in 1 .. f.length + ByteRange + 1 /\ ~ (at[i] > f.length)
    BY <1>1, <2>4
  <2>6. g[at[i]] = WalkStep(f, g, at[i])
    BY <1>3, <2>5, WalksAt
  <2>7. Known(f.schema, f.cells[at[i]]) /\ NextPlace(f, at[i]) = at[i + 1]
    <3>1. PICK k \in DOMAIN f.schema :
            f.cells[at[i]] = RecordId(k) /\ at[i + 1] = at[i] + 1 + Len(f.schema[k].signals)
      BY <2>3 DEF Holds
    <3> QED  BY <1>1, <3>1, GroupOfId DEF NextPlace
  <2>8. g[at[i]] = <<at[i]>> \o g[at[i + 1]]
    BY <2>5, <2>6, <2>7 DEF WalkStep
  <2>9. SubSeq(at, i, n) = <<at[i]>> \o SubSeq(at, i + 1, n)
    <3>1. i \in 1 .. Len(at) /\ n \in i .. Len(at)
      BY <1>1, <2>1
    <3> QED  BY <1>1, <3>1, SubSeqRecursiveFirst
  <2>10. g[at[n + 1 - (j + 1)]] = SubSeq(at, n + 1 - (j + 1), n)
    BY <2>1, <2>2, <2>8, <2>9
  <2> QED  BY <2>1, <2>10
<1>6. n \in T
  <2> HIDE DEF T
  <2> QED  BY <1>1, <1>4, <1>5, UpTo
<1>7. n + 1 - n = 1
  BY <1>1
<1> QED  BY <1>1, <1>2, <1>6, <1>7 DEF n

\* A reader with these offsets reads the records R.
Reads(f, offsets, R) ==
  /\ Len(offsets) = Len(R)
  /\ \A i \in 1 .. Len(R) : Mdf4Has(f, offsets, i) /\ Mdf4Record(f, offsets, i) = R[i]

\* Of a file that is not finished nothing is read.
LEMMA UnfinishedFile ==
  ASSUME NEW f, FileType(f), f.length = 0
  PROVE  Mdf4Offsets(f) = <<>> /\ (f.header = "whole" => Mdf4Opens(f))
<1>1. Mdf4Offsets(f) = <<>>
  <2>1. CASE f.kind = "raw"
    <3>1. 1 .. f.length = {}
      OBVIOUS
    <3> QED  BY <2>1, <3>1 DEF Mdf4Offsets
  <2>2. CASE f.kind = "dbc"
    <3> DEFINE g == CHOOSE g : Walks(f, 1, g)
    <3>1. Walk(f) = g[1]
      BY Zenon DEF Walk, Walks, WalkStep, NextPlace
    <3>2. Walks(f, 1, g)
      <4>1. \E d : Walks(f, 1, d)
        BY <2>2, WalksExist
      <4> QED  BY <4>1, Zenon
    <3> HIDE DEF g
    <3>3. 1 \in 1 .. f.length + ByteRange + 1
      BY SessionFileAssumption
    <3>4. g[1] = WalkStep(f, g, 1)
      BY <3>2, <3>3, WalksAt
    <3> QED  BY <2>2, <3>1, <3>4 DEF Mdf4Offsets, WalkStep
  <2> QED  BY <2>1, <2>2 DEF FileType
<1>2. Range(<<>>) = {}
  BY DEF Range
<1> QED  BY <1>1, <1>2 DEF Mdf4Opens

\* Of a finished one everything.
LEMMA FinishedFile ==
  ASSUME NEW f, FileType(f), f.length = Len(f.cells), NEW R, Layout(f.kind, f.schema, f.cells, R)
  PROVE  /\ Reads(f, Mdf4Offsets(f), R) /\ Mdf4Offsets(f) \in Seq(Nat)
         /\ Len(R) \in Nat /\ Len(R) <= f.length
         /\ f.header = "whole" => Mdf4Opens(f)
<1>1. PICK at : Placed(f.kind, f.schema, f.cells, R, at)
  BY DEF Layout
<1> DEFINE n == Len(R)
           offsets == Mdf4Offsets(f)
<1>2. /\ f.length \in Nat /\ at \in Seq(Nat) /\ n \in Nat /\ Len(at) = n + 1 /\ at[n + 1] = f.length + 1
      /\ n + 1 <= at[n + 1]
  BY <1>1 DEF FileType, Placed
<1>3. offsets \in Seq(Nat) /\ Len(offsets) = n /\ DOMAIN offsets = 1 .. n /\ \A i \in 1 .. n : offsets[i] = at[i]
  <2>1. CASE f.kind = "dbc"
    <3>1. offsets = SubSeq(at, 1, n)
      BY <1>1, <2>1, WalkFinds DEF Mdf4Offsets
    <3>2. \A i \in 1 .. n : at[i] \in Nat
      <4> HIDE DEF n
      <4> QED  BY <1>2
    <3> HIDE DEF n
    <3>3. offsets \in Seq(Nat) /\ Len(offsets) = n /\ \A i \in 1 .. n : offsets[i] = at[1 + i - 1]
      <4>1. 1 \in Int /\ n \in Int
        BY <1>2
      <4>2. SubSeq(at, 1, n) \in Seq(Nat) /\ Len(SubSeq(at, 1, n)) = (IF 1 <= n THEN n - 1 + 1 ELSE 0)
            /\ \A i \in 1 .. n - 1 + 1 : SubSeq(at, 1, n)[i] = at[1 + i - 1]
        BY <3>2, <4>1, SubSeqProperties
      <4> HIDE DEF offsets
      <4> QED  BY <1>2, <3>1, <4>2
    <3> HIDE DEF offsets
    <3> QED  BY <1>2, <3>3
  <2>2. CASE f.kind = "raw"
    <3>1. \A i \in 1 .. n : at[i + 1] = at[i] + 1
      BY <1>1, <2>2 DEF Placed, Holds
    <3>2. \A i \in 1 .. n : at[i] \in Nat
      <4> HIDE DEF n
      <4> QED  BY <1>2
    <3> DEFINE T == {i \in 0 .. n : at[i + 1] = i + 1}
    <3>3. 0 \in T
      BY <1>1, <1>2 DEF Placed
    <3>4. ASSUME NEW i \in 0 .. n - 1, i \in T PROVE i + 1 \in T
      <4>1. i + 1 \in 1 .. n /\ i + 1 \in 0 .. n
        BY <1>2
      <4> HIDE DEF n
      <4> QED  BY <3>1, <3>4, <4>1
    <3>5. \A k \in 0 .. n : k \in T
      <4> TAKE k \in 0 .. n
      <4>1. k \in Nat /\ \A i \in 0 .. k - 1 : i \in 0 .. n - 1
        BY <1>2
      <4> HIDE DEF T, n
      <4> QED  BY <3>3, <3>4, <4>1, UpTo
    <3>6. f.length = n
      BY <1>2, <3>5
    <3>7. \A i \in 1 .. n : at[i] = i
      <4> TAKE i \in 1 .. n
      <4>1. i - 1 \in T /\ i - 1 + 1 = i
        <5>1. i - 1 \in 0 .. n /\ i - 1 + 1 = i
          BY <1>2
        <5> HIDE DEF T
        <5> QED  BY <3>5, <5>1
      <4> HIDE DEF n
      <4> QED  BY <4>1
    <3>8. offsets = [i \in 1 .. n |-> i]
      BY <2>2, <3>6 DEF Mdf4Offsets
    <3> HIDE DEF offsets, n
    <3> QED  BY <1>2, <3>7, <3>8
  <2> QED  BY <2>1, <2>2 DEF FileType
<1>4. ASSUME NEW i \in 1 .. n
      PROVE  Mdf4Has(f, offsets, i) /\ Mdf4Record(f, offsets, i) = R[i]
  <2>1. Holds(f.kind, f.schema, f.cells, at[i], at[i + 1], R[i]) /\ offsets[i] = at[i]
    BY <1>1, <1>3 DEF Placed
  <2> HIDE DEF offsets
  <2> QED  BY <2>1, HoldsReads
<1>5. ASSUME f.kind = "dbc", NEW p \in Range(offsets)
      PROVE  Known(f.schema, f.cells[p])
  <2>1. PICK i \in 1 .. n : p = at[i]
    BY <1>3, <1>5 DEF Range
  <2>2. PICK k \in DOMAIN f.schema : f.cells[p] = RecordId(k)
    BY <1>1, <1>5, <2>1 DEF Placed, Holds
  <2> QED  BY <2>2 DEF Known
<1> QED  BY <1>2, <1>3, <1>4, <1>5 DEF Reads, Mdf4Opens

\* A loop of reads yields the records from where it starts.
SliceIs(f, offsets, R, from, n) ==
  Mdf4Slice(f, offsets, from, n) = SubSeq(R, from + 1, Min({from + n, Len(R)}))

LEMMA SliceOf ==
  ASSUME NEW f, NEW offsets, NEW R, R \in Seq(Range(R)), Reads(f, offsets, R),
         NEW from \in Nat, from <= Len(R), NEW n \in Nat
  PROVE  SliceIs(f, offsets, R, from, n)
<1> DEFINE A == Range(R)
           N == Len(R)
           k == IF from + n <= N THEN n ELSE N - from
           J == {j \in 0 .. n : from + j <= Len(offsets)
                                 /\ \A i \in 1 .. j : Mdf4Has(f, offsets, from + i)}
<1>1. R \in Seq(A) /\ N \in Nat /\ Len(offsets) = N /\ from \in 0 .. N
      /\ \A i \in 1 .. N : Mdf4Has(f, offsets, i) /\ Mdf4Record(f, offsets, i) = R[i]
  BY DEF Reads
<1> HIDE DEF N, A
<1>2. k \in 0 .. n /\ from + k <= N /\ \A j \in 0 .. n : from + j <= N => j <= k
  BY <1>1
<1> HIDE DEF k
<1>3. \A i \in 1 .. k : from + i \in 1 .. N
  BY <1>1, <1>2
<1>4. k \in J /\ \A j \in J : j <= k
  BY <1>1, <1>2, <1>3
<1>5. Max(J) = k
  <2>1. \A j \in J : j \in Nat /\ k \in Nat
    BY <1>2
  <2> HIDE DEF J
  <2>2. \A x \in J : (\A y \in J : x >= y) => x = k
    BY <1>4, <2>1
  <2>3. \A y \in J : k >= y
    BY <1>4, <2>1
  <2> QED  BY <1>4, <2>2, <2>3 DEF Max
<1>6. Min({from + n, N}) = from + k
  BY <1>1, <1>2 DEF Min, k
<1>7. Mdf4Slice(f, offsets, from, n) = [i \in 1 .. k |-> Mdf4Record(f, offsets, from + i)]
  <2> HIDE DEF J
  <2>1. Mdf4Slice(f, offsets, from, n) = [i \in 1 .. Max(J) |-> Mdf4Record(f, offsets, from + i)]
    BY Zenon DEF Mdf4Slice, J
  <2> QED  BY <1>5, <2>1
<1>8. \A i \in 1 .. k : Mdf4Record(f, offsets, from + i) = R[from + i]
  BY <1>1, <1>3
<1> DEFINE a == [i \in 1 .. k |-> R[from + i]]
           b == SubSeq(R, from + 1, from + k)
<1>9. Mdf4Slice(f, offsets, from, n) = a
  BY <1>7, <1>8
<1>10. \A i \in 1 .. N : R[i] \in A
  BY <1>1 DEF N
<1>11. a \in Seq(A) /\ Len(a) = k /\ \A i \in 1 .. k : a[i] = R[from + i]
  <2>1. k \in Nat /\ \A i \in 1 .. k : R[from + i] \in A
    BY <1>2, <1>3, <1>10
  <2> QED  BY <2>1
<1>12. b \in Seq(A) /\ Len(b) = k /\ \A i \in 1 .. k : b[i] = R[from + i]
  <2> DEFINE u == from + 1
             v == from + k
  <2>1. /\ u \in Int /\ v \in Int /\ v - u + 1 = k /\ k \in Nat /\ (u <= v \/ k = 0)
        /\ \A i \in 1 .. k : u + i - 1 = from + i
        /\ \A i \in u .. v : i \in 1 .. N
    BY <1>1, <1>2
  <2>2. b = SubSeq(R, u, v)
    OBVIOUS
  <2> HIDE DEF u, v, b
  <2>3. \A i \in u .. v : R[i] \in A
    BY <1>10, <2>1
  <2>4. /\ SubSeq(R, u, v) \in Seq(A) /\ Len(SubSeq(R, u, v)) = (IF u <= v THEN v - u + 1 ELSE 0)
        /\ \A i \in 1 .. v - u + 1 : SubSeq(R, u, v)[i] = R[u + i - 1]
    BY <2>1, <2>3, SubSeqProperties
  <2> QED  BY <2>1, <2>2, <2>4
<1>13. a = b
  <2> HIDE DEF a, b
  <2>1. Len(a) = Len(b) /\ \A i \in 1 .. Len(a) : a[i] = b[i]
    BY <1>11, <1>12
  <2> QED  BY <1>11, <1>12, <2>1, SeqEqual
<1> QED  BY <1>6, <1>9, <1>13 DEF N, SliceIs

-----------------------------------------------------------------------------
(***************************************************************************)
(* The writer and the file.                                                *)
(***************************************************************************)

Steps == {"off", "header", "write", "length", "counts", "closed", "crashed"}

FileTypeOK ==
  /\ file = [header |-> file.header, kind |-> file.kind, schema |-> file.schema,
             cells |-> file.cells, length |-> file.length, counts |-> file.counts]
  /\ FileType(file)
  /\ writer = [step |-> writer.step, buffer |-> writer.buffer, stream |-> writer.stream,
               bytes |-> writer.bytes, counts |-> writer.counts]
  /\ writer.step \in Steps /\ writer.bytes \in Nat
  /\ writer.buffer \in Seq(CellSet) /\ writer.stream \in Seq(CellSet)
  /\ written \in Seq(Messages(file.kind))

\* What the file will have when all is passed on.
Whole == file.cells \o (writer.stream \o writer.buffer)

\* The file f has the records R, and says so.
Finished(f, R) == f.length = Len(f.cells) /\ Layout(f.kind, f.schema, f.cells, R)

\* From the first message on the cells are the recorded messages, on their way or on
\* the disk; the length of the block is 0 until all of them are there.
WriterInv ==
  /\ writer.step \in {"off", "header"} =>
       /\ written = <<>> /\ file.cells = <<>> /\ file.length = 0
       /\ writer.buffer = <<>> /\ writer.stream = <<>> /\ writer.bytes = 0
  /\ writer.step = "write" =>
       /\ file.length = 0 /\ writer.bytes = Len(Whole)
       /\ Layout(file.kind, file.schema, Whole, Recorded)
  /\ writer.step = "length" =>
       /\ file.length = 0 /\ writer.bytes = Len(file.cells)
       /\ Layout(file.kind, file.schema, file.cells, Recorded)
  /\ writer.step \in {"counts", "closed"} => Finished(file, Recorded)
  /\ writer.step = "crashed" => file.length = 0 \/ Finished(file, Recorded)

\* The messages with the signals of the schema.
Records == Range(Recorded)

LEMMA RecordedType ==
  ASSUME FileTypeOK
  PROVE  Recorded \in Seq(Records) /\ Len(Recorded) \in Nat
<1> DEFINE kept == Picked(written, Selected(file.kind, file.schema))
<1>1. kept \in Seq(Messages(file.kind) \intersect Selected(file.kind, file.schema))
  BY PickedType DEF FileTypeOK
<1>2. Recorded = [i \in DOMAIN kept |-> Stored(file.kind, file.schema, kept[i])]
  BY DEF Recorded
<1>3. DOMAIN kept = 1 .. Len(kept) /\ Len(kept) \in Nat
  BY <1>1
<1> HIDE DEF kept
<1> DEFINE S == {Stored(file.kind, file.schema, kept[i]) : i \in 1 .. Len(kept)}
<1>4. Recorded \in Seq(S)
  BY <1>2, <1>3
<1> HIDE DEF S
<1> QED  BY <1>4, SeqOfRange DEF Records

\* A message of the schema is recorded after those before it, another one is not.
LEMMA RecordedNext ==
  ASSUME NEW kind, NEW schema, NEW w \in Seq(Messages(kind)), NEW m \in Messages(kind)
  PROVE  LET Of(v) == LET kept == Picked(v, Selected(kind, schema))
                      IN  [i \in DOMAIN kept |-> Stored(kind, schema, kept[i])]
         IN  Of(Append(w, m)) = IF m \in Selected(kind, schema)
                                THEN Append(Of(w), Stored(kind, schema, m)) ELSE Of(w)
<1> DEFINE S == Selected(kind, schema)
           k == Picked(w, S)
           l == Picked(Append(w, m), S)
           M == Messages(kind)
<1>1. l = IF m \in S THEN Append(k, m) ELSE k
  <2> HIDE DEF S, M
  <2> QED  BY PickedOfAppend DEF M
<1>2. CASE m \in S
  <2>1. k \in Seq(M)
    <3> HIDE DEF S, k
    <3>1. k \in Seq(M \intersect S) /\ M \intersect S \subseteq M
      BY PickedType DEF k
    <3> QED  BY <3>1, SeqMonotonic
  <2>2. /\ Len(k) \in Nat /\ DOMAIN k = 1 .. Len(k) /\ DOMAIN l = 1 .. Len(k) + 1
        /\ l[Len(k) + 1] = m /\ \A i \in 1 .. Len(k) : l[i] = k[i]
    <3> HIDE DEF S, k, l, M
    <3>1. l = Append(k, m) /\ m \in M
      BY <1>1, <1>2 DEF M
    <3> QED  BY <2>1, <3>1
  <2> DEFINE V == {Stored(kind, schema, x) : x \in M}
             a == [i \in DOMAIN k |-> Stored(kind, schema, k[i])]
             b == [i \in DOMAIN l |-> Stored(kind, schema, l[i])]
             e == Stored(kind, schema, m)
  <2> HIDE DEF S, k, l
  <2>3. \A i \in 1 .. Len(k) : k[i] \in M
    <3> HIDE DEF M
    <3> QED  BY <2>1
  <2>4. a \in Seq(V) /\ Len(a) = Len(k) /\ \A i \in 1 .. Len(k) : a[i] = Stored(kind, schema, k[i])
    BY <2>2, <2>3
  <2>5. b \in Seq(V) /\ Len(b) = Len(k) + 1 /\ \A i \in 1 .. Len(k) + 1 : b[i] = Stored(kind, schema, l[i])
    <3>1. \A i \in 1 .. Len(k) + 1 : l[i] \in M
      <4>1. \A i \in 1 .. Len(k) + 1 : i \in 1 .. Len(k) \/ i = Len(k) + 1
        BY <2>2
      <4> QED  BY <2>2, <2>3, <4>1
    <3> QED  BY <2>2, <3>1
  <2>6. e \in V
    OBVIOUS
  <2>7. b = Append(a, e)
    <3>1. /\ Append(a, e) \in Seq(V) /\ Len(Append(a, e)) = Len(k) + 1
          /\ \A i \in 1 .. Len(k) : Append(a, e)[i] = a[i]
          /\ Append(a, e)[Len(k) + 1] = e
      <4> HIDE DEF a, e, V
      <4> QED  BY <2>4, <2>6, AppendProperties
    <3>2. \A i \in 1 .. Len(k) + 1 : b[i] = Append(a, e)[i]
      <4>1. \A i \in 1 .. Len(k) + 1 : i \in 1 .. Len(k) \/ i = Len(k) + 1
        BY <2>2
      <4>2. b[Len(k) + 1] = e
        <5>1. Len(k) + 1 \in 1 .. Len(k) + 1
          BY <2>2
        <5> QED  BY <2>2, <2>5, <5>1
      <4>3. \A i \in 1 .. Len(k) : i \in 1 .. Len(k) + 1
        BY <2>2
      <4> HIDE DEF a, b, e
      <4> QED  BY <2>2, <2>4, <2>5, <3>1, <4>1, <4>2, <4>3
    <3> HIDE DEF a, b, e, V
    <3> QED  BY <2>5, <3>1, <3>2, SeqEqual
  <2> QED  BY <1>2, <2>7 DEF k, l, S
<1>3. CASE m \notin S
  BY <1>1, <1>3
<1> QED  BY <1>2, <1>3

\* The cells of a message are laid out as the record of it.
LEMMA RecordFits ==
  ASSUME NEW kind \in {"raw", "dbc"}, NEW schema, kind = "dbc" => schema \in Schemas,
         NEW m \in Messages(kind)
  PROVE  /\ Record(kind, schema, m) \in Seq(CellSet)
         /\ Record(kind, schema, m) # <<>> <=> m \in Selected(kind, schema)
         /\ m \in Selected(kind, schema) =>
              Holds(kind, schema, Record(kind, schema, m), 1,
                    Len(Record(kind, schema, m)) + 1, Stored(kind, schema, m))
<1> DEFINE c == Record(kind, schema, m)
<1>1. CASE kind = "raw"
  <2>1. c = <<m>> /\ m \in Frames /\ Stored(kind, schema, m) = m /\ m \in Selected(kind, schema)
    BY <1>1 DEF Record, Messages, Stored, Selected
  <2>2. <<m>> \in Seq(CellSet) /\ Len(<<m>>) = 1 /\ <<m>>[1] = m /\ <<m>> # <<>>
    BY <2>1 DEF CellSet
  <2>3. Holds(kind, schema, <<m>>, 1, 1 + 1, m)
    BY <1>1, <2>1, <2>2 DEF Holds
  <2> HIDE DEF c
  <2> QED  BY <2>1, <2>2, <2>3 DEF c
<1>2. CASE kind = "dbc"
  <2>1. schema \in Schemas /\ m \in DbcMessages
    BY <1>2 DEF Messages
  <2>2. CASE GroupsOf(schema, m.id) = {}
    <3>1. c = <<>> /\ m \notin Selected(kind, schema)
      BY <1>2, <2>2 DEF Record, Selected
    <3> QED  BY <3>1
  <2>3. CASE GroupsOf(schema, m.id) # {}
    <3>1. PICK g : g \in GroupsOf(schema, m.id)
      BY <2>3
    <3>2. g \in DOMAIN schema /\ schema[g].msgId = m.id
      BY <3>1 DEF GroupsOf
    <3>3. GroupsOf(schema, m.id) = {g}
      <4>1. \A i, j \in DOMAIN schema : schema[i].msgId = schema[j].msgId => i = j
        BY <2>1, SessionFileAssumption
      <4> QED  BY <3>2, <4>1 DEF GroupsOf
    <3> DEFINE names == schema[g].signals
               Cell(name) == IF name \in DOMAIN m.values THEN m.values[name] ELSE 0
               values == [k \in DOMAIN names |-> Cell(names[k])]
    <3>4. (CHOOSE x \in GroupsOf(schema, m.id) : TRUE) = g
      BY <3>3
    <3>5. c = <<RecordId(g)>> \o values
      BY <1>2, <2>3, <3>4 DEF Record
    <3>6. names \in Seq(STRING) /\ RecordId(g) \in Nat
      BY <2>1, <3>2, GroupOfId
    <3> HIDE DEF names
    <3>7. DOMAIN names = 1 .. Len(names) /\ Len(names) \in Nat
      BY <3>6
    <3>8. \A name : Cell(name) \in Nat
      BY <2>1, SessionFileAssumption
    <3> HIDE DEF Cell
    <3>9. values \in Seq(CellSet) /\ Len(values) = Len(names)
          /\ \A k \in 1 .. Len(names) : values[k] = Cell(names[k])
      BY <3>7, <3>8 DEF CellSet
    <3>10. <<RecordId(g)>> \in Seq(CellSet) /\ Len(<<RecordId(g)>>) = 1 /\ <<RecordId(g)>>[1] = RecordId(g)
      BY <3>6 DEF CellSet
    <3> HIDE DEF c, values
    <3>11. /\ c \in Seq(CellSet) /\ Len(c) = 1 + Len(names) /\ c[1] = RecordId(g)
           /\ \A k \in 1 .. Len(names) : c[1 + k] = Cell(names[k])
      <4>1. /\ c \in Seq(CellSet) /\ Len(c) = 1 + Len(names)
            /\ \A i \in 1 .. 1 + Len(names) :
                 c[i] = IF i <= 1 THEN <<RecordId(g)>>[i] ELSE values[i - 1]
        BY <3>5, <3>9, <3>10, ConcatProperties
      <4>2. c[1] = RecordId(g)
        BY <3>7, <3>10, <4>1
      <4>3. ASSUME NEW k \in 1 .. Len(names) PROVE c[1 + k] = Cell(names[k])
        <5>1. 1 + k \in 1 .. 1 + Len(names) /\ ~ (1 + k <= 1) /\ 1 + k - 1 = k
          BY <3>7
        <5> QED  BY <3>9, <4>1, <5>1
      <4> QED  BY <4>1, <4>2, <4>3
    <3>12. c # <<>> /\ m \in Selected(kind, schema)
      BY <1>2, <2>1, <2>3, <3>7, <3>11 DEF Selected, Messages
    <3>13. Stored(kind, schema, m) = [id |-> m.id, values |-> [name \in Range(names) |-> Cell(name)]]
      <4>1. UNION {Range(schema[i].signals) : i \in GroupsOf(schema, m.id)} = Range(names)
        BY <3>3 DEF names
      <4> QED  BY <1>2, <4>1 DEF Stored, Cell
    <3>14. ASSUME NEW name \in Range(names)
           PROVE  c[1 + PlaceOf(names, name)] = Cell(name)
      <4>1. PlaceOf(names, name) \in DOMAIN names /\ names[PlaceOf(names, name)] = name
        <5>1. \E k \in DOMAIN names : names[k] = name
          BY DEF Range
        <5> QED  BY <5>1 DEF PlaceOf
      <4> QED  BY <3>7, <3>11, <4>1
    <3>15. Stored(kind, schema, m)
             = [id |-> schema[g].msgId, values |-> [name \in Range(names) |-> c[1 + PlaceOf(names, name)]]]
      <4>1. [name \in Range(names) |-> Cell(name)] = [name \in Range(names) |-> c[1 + PlaceOf(names, name)]]
        BY <3>14
      <4> QED  BY <3>2, <3>13, <4>1
    <3>16. Len(c) + 1 = 1 + 1 + Len(names) /\ Len(c) + 1 \in Nat /\ 1 < Len(c) + 1 /\ Len(c) + 1 <= Len(c) + 1
      BY <3>7, <3>11
    <3>17. Holds(kind, schema, c, 1, Len(c) + 1, Stored(kind, schema, m))
      BY <1>2, <3>2, <3>11, <3>15, <3>16 DEF Holds, names
    <3> QED  BY <3>11, <3>12, <3>17 DEF c
  <2> QED  BY <2>2, <2>3
<1> QED  BY <1>1, <1>2

\* A file without cells has no records.
LEMMA NothingFits == ASSUME NEW kind, NEW schema PROVE Layout(kind, schema, <<>>, <<>>)
<1>1. Placed(kind, schema, <<>>, <<>>, <<1>>)
  <2>1. <<1>> \in Seq(Nat) /\ Len(<<1>>) = 1 /\ <<1>>[1] = 1 /\ Len(<<>>) = 0
    OBVIOUS
  <2> QED  BY <2>1 DEF Placed
<1> QED  BY <1>1 DEF Layout

\* The next record goes behind the last one.
LEMMA OneMoreFits ==
  ASSUME NEW kind \in {"raw", "dbc"}, NEW schema, kind = "dbc" => schema \in Schemas,
         NEW C \in Seq(CellSet), NEW A, NEW R \in Seq(A), Layout(kind, schema, C, R),
         NEW c \in Seq(CellSet), NEW r \in A, Holds(kind, schema, c, 1, Len(c) + 1, r)
  PROVE  Layout(kind, schema, C \o c, Append(R, r))
<1>1. PICK at : Placed(kind, schema, C, R, at)
  BY DEF Layout
<1> DEFINE n == Len(R)
           D == C \o c
           S == Append(R, r)
           to == Append(at, Len(D) + 1)
<1>2. /\ at \in Seq(Nat) /\ n \in Nat /\ Len(at) = n + 1 /\ at[1] = 1 /\ at[n + 1] = Len(C) + 1
      /\ \A i \in 1 .. n + 1 : i <= at[i]
      /\ \A i \in 1 .. n : Holds(kind, schema, C, at[i], at[i + 1], R[i])
  BY <1>1 DEF Placed
<1>3. /\ D \in Seq(CellSet) /\ Len(D) = Len(C) + Len(c) /\ Len(C) \in Nat /\ Len(c) \in Nat
      /\ \A i \in 1 .. Len(C) + Len(c) : D[i] = IF i <= Len(C) THEN C[i] ELSE c[i - Len(C)]
  BY ConcatProperties
<1>4. /\ Len(S) = n + 1 /\ S[n + 1] = r /\ \A i \in 1 .. n : S[i] = R[i]
  BY AppendProperties
<1>5. /\ to \in Seq(Nat) /\ Len(to) = n + 2 /\ to[n + 2] = Len(D) + 1
      /\ \A i \in 1 .. n + 1 : to[i] = at[i]
  <2>1. Len(D) + 1 \in Nat
    BY <1>3
  <2> HIDE DEF D, n
  <2>2. /\ to \in Seq(Nat) /\ Len(to) = n + 1 + 1 /\ to[n + 1 + 1] = Len(D) + 1
        /\ \A i \in 1 .. n + 1 : to[i] = at[i]
    BY <1>2, <2>1, AppendProperties
  <2>3. n + 1 + 1 = n + 2
    BY <1>2
  <2> HIDE DEF to
  <2> QED  BY <2>2, <2>3
<1>6. Len(c) >= 1 /\ 1 \in 1 .. Len(c)
  BY <1>3 DEF Holds
<1>7. Holds(kind, schema, D, to[n + 1], to[n + 2], S[n + 1])
  <2> DEFINE p == Len(C) + 1
             q == Len(D) + 1
  <2>1. to[n + 1] = p /\ to[n + 2] = q /\ S[n + 1] = r
    <3>1. n + 1 \in 1 .. n + 1
      BY <1>2
    <3> HIDE DEF to, S
    <3> QED  BY <1>2, <1>4, <1>5, <3>1
  <2>2. /\ p \in Nat \ {0} /\ q \in Nat /\ p < q /\ q <= Len(D) + 1 /\ q = p + Len(c)
        /\ \A i \in 1 .. Len(c) : p + i - 1 \in 1 .. Len(C) + Len(c) /\ ~ (p + i - 1 <= Len(C))
                                /\ p + i - 1 - Len(C) = i
    BY <1>3, <1>6
  <2>3. \A i \in 1 .. Len(c) : D[p + i - 1] = c[i]
    <3> HIDE DEF p, D
    <3> SUFFICES ASSUME NEW i \in 1 .. Len(c) PROVE D[p + i - 1] = c[i]
      OBVIOUS
    <3>1. PICK j : j = p + i - 1
      OBVIOUS
    <3>2. j \in 1 .. Len(C) + Len(c) /\ ~ (j <= Len(C)) /\ j - Len(C) = i
      BY <2>2, <3>1
    <3>3. D[j] = c[j - Len(C)]
      BY <1>3, <3>2
    <3> QED  BY <3>1, <3>2, <3>3
  <2>4. D[p] = c[1]
    <3>1. p + 1 - 1 = p
      BY <2>2
    <3> HIDE DEF p, D
    <3> QED  BY <1>6, <2>3, <3>1
  <2> HIDE DEF p, q, D
  <2>5. CASE kind = "raw"
    <3>1. Len(c) + 1 = 1 + 1 /\ c[1] = r /\ r \in Frames
      BY <2>5 DEF Holds
    <3>2. q = p + 1
      BY <1>3, <2>2, <3>1
    <3>3. Holds(kind, schema, D, p, q, r)
      BY <2>2, <2>4, <2>5, <3>1, <3>2 DEF Holds
    <3> QED  BY <2>1, <3>3 DEF D
  <2>6. CASE kind = "dbc"
    <3>1. PICK g \in DOMAIN schema :
             /\ c[1] = RecordId(g) /\ Len(c) + 1 = 1 + 1 + Len(schema[g].signals)
             /\ r = [id |-> schema[g].msgId,
                     values |-> [name \in Range(schema[g].signals) |->
                                   c[1 + PlaceOf(schema[g].signals, name)]]]
      BY <2>6 DEF Holds
    <3> DEFINE names == schema[g].signals
    <3>2. names \in Seq(STRING) /\ Len(names) \in Nat
      BY <2>6, <3>1, GroupOfId
    <3>3. Len(c) = 1 + Len(names)
      <4>1. Len(c) + 1 = 1 + 1 + Len(names)
        BY <3>1
      <4> HIDE DEF names
      <4> QED  BY <1>3, <3>2, <4>1
    <3>4. ASSUME NEW name \in Range(names)
          PROVE  D[p + PlaceOf(names, name)] = c[1 + PlaceOf(names, name)]
      <4> DEFINE k == PlaceOf(names, name)
      <4>1. k \in DOMAIN names
        <5>1. \E j \in DOMAIN names : names[j] = name
          BY DEF Range
        <5> QED  BY <5>1 DEF PlaceOf
      <4> HIDE DEF k, names
      <4>2. k \in 1 .. Len(names)
        BY <3>2, <4>1
      <4>3. 1 + k \in 1 .. Len(c) /\ p + (1 + k) - 1 = p + k
        BY <2>2, <3>2, <3>3, <4>2
      <4>4. D[p + (1 + k) - 1] = c[1 + k]
        BY <2>3, <4>3
      <4> QED  BY <4>3, <4>4 DEF k
    <3>5. r = [id |-> schema[g].msgId,
               values |-> [name \in Range(names) |-> D[p + PlaceOf(names, name)]]]
      <4>1. [name \in Range(names) |-> D[p + PlaceOf(names, name)]]
              = [name \in Range(names) |-> c[1 + PlaceOf(names, name)]]
        BY <3>4
      <4> QED  BY <3>1, <4>1
    <3>6. q = p + 1 + Len(names)
      <4> HIDE DEF names
      <4> QED  BY <2>2, <3>2, <3>3
    <3>7. Holds(kind, schema, D, p, q, r)
      BY <2>2, <2>4, <2>6, <3>1, <3>5, <3>6 DEF Holds
    <3> QED  BY <2>1, <3>7 DEF D
  <2> QED  BY <2>5, <2>6
<1>8. ASSUME NEW i \in 1 .. n
      PROVE  Holds(kind, schema, D, to[i], to[i + 1], S[i])
  <2>1. Holds(kind, schema, C, at[i], at[i + 1], R[i])
    BY <1>2
  <2>2. Holds(kind, schema, D, at[i], at[i + 1], R[i])
    BY <2>1, HoldsMore
  <2>3. i \in 1 .. n + 1 /\ i + 1 \in 1 .. n + 1
    BY <1>2
  <2> HIDE DEF to, S, D, n
  <2> QED  BY <1>4, <1>5, <2>2, <2>3
<1>9. \A i \in 1 .. n + 2 : i <= to[i]
  <2>1. n + 1 <= Len(C) + 1
    <3>1. n + 1 \in 1 .. n + 1
      BY <1>2
    <3> QED  BY <1>2, <3>1
  <2>2. n + 2 <= Len(D) + 1
    BY <1>2, <1>3, <1>6, <2>1
  <2>3. \A i \in 1 .. n + 2 : i \in 1 .. n + 1 \/ i = n + 2
    BY <1>2
  <2> HIDE DEF to, D
  <2> QED  BY <1>2, <1>5, <2>2, <2>3
<1>10. \A i \in 1 .. n + 1 : Holds(kind, schema, D, to[i], to[i + 1], S[i])
  <2>1. \A i \in 1 .. n + 1 : i \in 1 .. n \/ i = n + 1
    BY <1>2
  <2>2. n + 1 + 1 = n + 2
    BY <1>2
  <2> HIDE DEF to, D, S
  <2> QED  BY <1>7, <1>8, <2>1, <2>2
<1>11. to[1] = 1
  <2>1. 1 \in 1 .. n + 1
    BY <1>2
  <2> HIDE DEF to
  <2> QED  BY <1>2, <1>5, <2>1
<1>12. Placed(kind, schema, D, S, to)
  <2>1. Len(S) \in Nat /\ Len(to) = Len(S) + 1 /\ Len(S) + 1 = n + 2
    BY <1>2, <1>4, <1>5
  <2> HIDE DEF to, D, S, n
  <2> QED  BY <1>4, <1>5, <1>9, <1>10, <1>11, <2>1 DEF Placed
<1> QED  BY <1>12 DEF Layout

LEMMA RecordedStays ==
  file'.kind = file.kind /\ file'.schema = file.schema /\ written' = written => Recorded' = Recorded
BY DEF Recorded

LEMMA FileStart == FileInit => FileTypeOK /\ WriterInv
<1> SUFFICES ASSUME FileInit PROVE FileTypeOK /\ WriterInv
  OBVIOUS
<1>1. /\ file = [header |-> "none", kind |-> "raw", schema |-> <<>>,
                 cells |-> <<>>, length |-> 0, counts |-> <<>>]
      /\ writer = [step |-> "off", buffer |-> <<>>, stream |-> <<>>, bytes |-> 0, counts |-> <<>>]
      /\ written = <<>>
  BY DEF FileInit, NoFile, NoWriter
<1>2. <<>> \in Seq(CellSet) /\ <<>> \in Seq(Messages(file.kind))
  OBVIOUS
<1> QED  BY <1>1, <1>2 DEF FileTypeOK, FileType, WriterInv, Steps

LEMMA CreateKeeps ==
  ASSUME FileTypeOK, WriterInv, NEW kind \in {"raw", "dbc"}, NEW schema \in Schemas \union {<<>>},
         Create(kind, schema)
  PROVE  FileTypeOK' /\ WriterInv'
<1>1. /\ writer.step = "off" /\ (kind = "raw" <=> schema = <<>>)
      /\ file' = [header |-> "torn", kind |-> kind, schema |-> schema,
                  cells |-> <<>>, length |-> 0, counts |-> <<>>]
      /\ writer' = [step |-> "header", buffer |-> writer.buffer, stream |-> writer.stream,
                    bytes |-> writer.bytes, counts |-> writer.counts]
      /\ written' = written
  <2>1. PICK a, b, c, d, e : writer = [step |-> a, buffer |-> b, stream |-> c, bytes |-> d, counts |-> e]
    BY DEF FileTypeOK
  <2> QED  BY <2>1 DEF Create, NoFile
<1>2. written = <<>> /\ writer.buffer = <<>> /\ writer.stream = <<>> /\ writer.bytes = 0
  BY <1>1 DEF WriterInv
<1>3. <<>> \in Seq(CellSet) /\ <<>> \in Seq(Messages(kind))
  OBVIOUS
<1>4. kind = "dbc" => schema \in Schemas
  BY <1>1
<1> QED  BY <1>1, <1>2, <1>3, <1>4 DEF FileTypeOK, FileType, WriterInv, Steps

LEMMA HeaderKeeps == ASSUME FileTypeOK, WriterInv, FlushHeader PROVE FileTypeOK' /\ WriterInv'
<1>1. PICK zeros :
      /\ writer.step = "header"
      /\ file' = [header |-> "whole", kind |-> file.kind, schema |-> file.schema,
                  cells |-> file.cells, length |-> file.length, counts |-> zeros]
      /\ writer' = [step |-> "write", buffer |-> writer.buffer, stream |-> writer.stream,
                    bytes |-> writer.bytes, counts |-> zeros]
      /\ written' = written
  <2>1. PICK a, b, c, d, e : writer = [step |-> a, buffer |-> b, stream |-> c, bytes |-> d, counts |-> e]
    BY DEF FileTypeOK
  <2>2. PICK f, g, h, i, j, k : file = [header |-> f, kind |-> g, schema |-> h, cells |-> i, length |-> j, counts |-> k]
    BY DEF FileTypeOK
  <2> DEFINE zeros == IF file.kind = "raw" THEN <<0>> ELSE [n \in DOMAIN file.schema |-> 0]
  <2>3. /\ writer.step = "header"
        /\ file' = [file EXCEPT !.header = "whole", !.counts = zeros]
        /\ writer' = [writer EXCEPT !.step = "write", !.counts = zeros]
        /\ written' = written
    BY DEF FlushHeader
  <2> HIDE DEF zeros
  <2> QED  BY <2>1, <2>2, <2>3
<1>2. /\ written = <<>> /\ file.cells = <<>> /\ writer.buffer = <<>> /\ writer.stream = <<>>
      /\ writer.bytes = 0 /\ file.length = 0
  BY <1>1 DEF WriterInv
<1>3. Recorded' = <<>>
  <2>1. Picked(<<>>, Selected(file'.kind, file'.schema)) = <<>>
    BY PickedOfNone
  <2>2. DOMAIN <<>> = {}
    OBVIOUS
  <2>3. [i \in DOMAIN <<>> |-> Stored(file'.kind, file'.schema, <<>>[i])] = <<>>
    BY <2>2
  <2> QED  BY <1>1, <1>2, <2>1, <2>3 DEF Recorded
<1>4. Whole' = <<>> /\ Len(<<>>) = 0
  <2>1. <<>> \o (<<>> \o <<>>) = <<>>
    OBVIOUS
  <2> QED  BY <1>1, <1>2, <2>1 DEF Whole
<1>5. Layout(file'.kind, file'.schema, Whole', Recorded')
  BY <1>3, <1>4, NothingFits
<1>6. FileTypeOK'
  BY <1>1 DEF FileTypeOK, FileType, Steps
<1>7. WriterInv'
  BY <1>1, <1>2, <1>4, <1>5 DEF WriterInv
<1> QED  BY <1>6, <1>7

LEMMA CellsAssociate ==
  ASSUME NEW s \in Seq(CellSet), NEW t \in Seq(CellSet), NEW u \in Seq(CellSet)
  PROVE  (s \o t) \o u = s \o (t \o u)
BY ConcatAssociative

\* Only the way to the disk changes: from the buffer to the stream, from there on.
LEMMA MoveKeeps ==
  ASSUME FileTypeOK, WriterInv, writer.step = "write", NEW X, NEW Y, NEW Z,
         X \in Seq(CellSet), Y \in Seq(CellSet), Z \in Seq(CellSet), X \o (Y \o Z) = Whole,
         file' = [header |-> file.header, kind |-> file.kind, schema |-> file.schema,
                  cells |-> X, length |-> file.length, counts |-> file.counts],
         writer' = [step |-> "write", buffer |-> Z, stream |-> Y,
                    bytes |-> writer.bytes, counts |-> writer.counts],
         written' = written
  PROVE  FileTypeOK' /\ WriterInv'
<1>1. Recorded' = Recorded
  BY RecordedStays
<1>2. Whole' = Whole
  BY DEF Whole
<1>3. FileTypeOK'
  BY DEF FileTypeOK, FileType, Steps
<1> QED  BY <1>1, <1>2, <1>3 DEF WriterInv

LEMMA FlushKeeps ==
  ASSUME FileTypeOK, WriterInv, Flush PROVE FileTypeOK' /\ WriterInv'
<1>1. /\ writer.step = "write" /\ file' = file /\ written' = written
      /\ writer' = [step |-> "write", buffer |-> <<>>, stream |-> writer.stream \o writer.buffer,
                    bytes |-> writer.bytes, counts |-> writer.counts]
  <2>1. PICK a, b, c, d, e : writer = [step |-> a, buffer |-> b, stream |-> c, bytes |-> d, counts |-> e]
    BY DEF FileTypeOK
  <2> QED  BY <2>1 DEF Flush, Flushed
<1> DEFINE Y == writer.stream \o writer.buffer
<1>2. file.cells \in Seq(CellSet) /\ Y \in Seq(CellSet) /\ <<>> \in Seq(CellSet)
  BY ConcatProperties DEF FileTypeOK, FileType
<1>3. Y \o <<>> = Y
  <2> HIDE DEF Y
  <2> QED  BY <1>2, ConcatEmptySeq
<1>4. file.cells \o (Y \o <<>>) = Whole
  BY <1>3 DEF Whole
<1>5. file' = [header |-> file.header, kind |-> file.kind, schema |-> file.schema,
               cells |-> file.cells, length |-> file.length, counts |-> file.counts]
  BY <1>1 DEF FileTypeOK
<1> HIDE DEF Y
<1> QED  BY <1>1, <1>2, <1>4, <1>5, MoveKeeps DEF Y

LEMMA SpillKeeps ==
  ASSUME FileTypeOK, WriterInv, NEW n, Spill(n) PROVE FileTypeOK' /\ WriterInv'
<1> DEFINE S == writer.stream
           a == SubSeq(S, 1, n)
           b == SubSeq(S, n + 1, Len(S))
           X == file.cells \o a
<1>1. /\ writer.step = "write" /\ n \in 1 .. Len(S) /\ written' = written
      /\ file' = [header |-> file.header, kind |-> file.kind, schema |-> file.schema,
                  cells |-> X, length |-> file.length, counts |-> file.counts]
      /\ writer' = [step |-> "write", buffer |-> writer.buffer, stream |-> b,
                    bytes |-> writer.bytes, counts |-> writer.counts]
  <2>1. PICK o, p, q, r, s : writer = [step |-> o, buffer |-> p, stream |-> q, bytes |-> r, counts |-> s]
    BY DEF FileTypeOK
  <2>2. PICK c, d, e, f, g, h : file = [header |-> c, kind |-> d, schema |-> e, cells |-> f, length |-> g, counts |-> h]
    BY DEF FileTypeOK
  <2> QED  BY <2>1, <2>2 DEF Spill
<1>2. file.cells \in Seq(CellSet) /\ S \in Seq(CellSet) /\ writer.buffer \in Seq(CellSet) /\ Len(S) \in Nat
  BY DEF FileTypeOK, FileType
<1>3. a \in Seq(CellSet) /\ b \in Seq(CellSet) /\ a \o b = S
  <2> HIDE DEF S
  <2>1. /\ 1 \in 1 .. Len(S) + 1 /\ n \in 1 - 1 .. Len(S) /\ Len(S) \in n .. Len(S)
        /\ \A i \in 1 .. n : i \in 1 .. Len(S)
        /\ \A i \in n + 1 .. Len(S) : i \in 1 .. Len(S)
        /\ n \in Int /\ Len(S) \in Int /\ n + 1 \in Int
    BY <1>1, <1>2
  <2>2. a \o b = SubSeq(S, 1, Len(S)) /\ SubSeq(S, 1, Len(S)) = S
    BY <1>2, <2>1, ConcatAdjacentSubSeq, SubSeqFull
  <2>3. \A i \in 1 .. Len(S) : S[i] \in CellSet
    BY <1>2
  <2>4. a \in Seq(CellSet)
    BY <2>1, <2>3, SubSeqProperties
  <2>5. b \in Seq(CellSet)
    BY <2>1, <2>3, SubSeqProperties
  <2> QED  BY <2>2, <2>4, <2>5
<1> HIDE DEF a, b
<1>4. X \in Seq(CellSet)
  BY <1>2, <1>3, ConcatProperties
<1>5. X \o (b \o writer.buffer) = Whole
  <2> DEFINE B == writer.buffer
             C == file.cells
  <2> HIDE DEF B, C, S
  <2>1. B \in Seq(CellSet) /\ C \in Seq(CellSet)
    BY <1>2 DEF B, C
  <2>2. b \o B \in Seq(CellSet)
    BY <1>3, <2>1, ConcatProperties
  <2>3. (C \o a) \o (b \o B) = C \o (a \o (b \o B))
    <3>1. \A t \in Seq(CellSet) : (C \o a) \o t = C \o (a \o t)
      BY <1>3, <2>1, CellsAssociate
    <3> QED  BY <2>2, <3>1, Zenon
  <2>4. a \o (b \o B) = (a \o b) \o B
    BY <1>3, <2>1, CellsAssociate
  <2> QED  BY <1>3, <2>3, <2>4 DEF B, C, S, Whole
<1> HIDE DEF X
<1> QED  BY <1>1, <1>2, <1>3, <1>4, <1>5, MoveKeeps

LEMMA WriteKeeps ==
  ASSUME FileTypeOK, WriterInv, NEW m \in Messages(file.kind), Write(m)
  PROVE  FileTypeOK' /\ WriterInv'
<1> DEFINE kind == file.kind
           schema == file.schema
           c == Record(kind, schema, m)
           B == writer.buffer \o c
           S == writer.stream
           C == file.cells
<1>1. /\ file' = file /\ written' = Append(written, m) /\ writer.step = "write" /\ file.length = 0
      /\ writer.bytes = Len(Whole) /\ Layout(kind, schema, Whole, Recorded)
  BY DEF Write, WriterInv
<1>2. PICK buffer, stream, counts :
        /\ writer' = [step |-> "write", buffer |-> buffer, stream |-> stream,
                      bytes |-> writer.bytes + Len(c), counts |-> counts]
        /\ \/ buffer = B /\ stream = S
           \/ buffer = <<>> /\ stream = S \o B
  <2>1. PICK o, p, q, r, s : writer = [step |-> o, buffer |-> p, stream |-> q, bytes |-> r, counts |-> s]
    BY DEF FileTypeOK
  <2>2. o = "write" /\ p = writer.buffer /\ q = S /\ r = writer.bytes
    BY <1>1, <2>1
  <2> DEFINE counts == Counted(kind, schema, m, writer.counts)
             w == [writer EXCEPT !.buffer = @ \o c, !.bytes = @ + Len(c), !.counts = counts]
  <2>3. writer' = IF c # <<>> /\ Len(w.buffer) >= Capacity THEN Flushed(w) ELSE w
    BY Zenon DEF Write
  <2> HIDE DEF c, counts
  <2>4. w = [step |-> o, buffer |-> p \o c, stream |-> q, bytes |-> r + Len(c), counts |-> counts]
    <3>1. PICK x : x = w
      BY Zenon
    <3>2. x = [writer EXCEPT !.buffer = @ \o c, !.bytes = @ + Len(c), !.counts = counts]
      BY <3>1
    <3> HIDE DEF w
    <3>3. x = [step |-> o, buffer |-> p \o c, stream |-> q, bytes |-> r + Len(c), counts |-> counts]
      BY <2>1, <3>2
    <3> QED  BY <3>1, <3>3
  <2> HIDE DEF w
  <2>5. Flushed(w) = [step |-> o, buffer |-> <<>>, stream |-> q \o (p \o c),
                      bytes |-> r + Len(c), counts |-> counts]
    <3>1. PICK x : x = Flushed(w)
      BY Zenon
    <3>2. x = [w EXCEPT !.stream = @ \o w.buffer, !.buffer = <<>>]
      BY <3>1 DEF Flushed
    <3>3. x = [step |-> o, buffer |-> <<>>, stream |-> q \o (p \o c), bytes |-> r + Len(c), counts |-> counts]
      BY <2>4, <3>2
    <3> QED  BY <3>1, <3>3
  <2>6. writer' = w \/ writer' = Flushed(w)
    BY <2>3
  <2> HIDE DEF S
  <2> QED  BY <2>2, <2>4, <2>5, <2>6
<1>3. /\ kind \in {"raw", "dbc"} /\ (kind = "dbc" => schema \in Schemas)
      /\ C \in Seq(CellSet) /\ S \in Seq(CellSet) /\ writer.buffer \in Seq(CellSet)
      /\ written \in Seq(Messages(kind)) /\ writer.bytes \in Nat
  BY DEF FileTypeOK, FileType
<1>4. /\ c \in Seq(CellSet) /\ (c # <<>> <=> m \in Selected(kind, schema))
      /\ m \in Selected(kind, schema) => Holds(kind, schema, c, 1, Len(c) + 1, Stored(kind, schema, m))
  BY <1>3, RecordFits
<1> HIDE DEF c
<1>5. B \in Seq(CellSet) /\ S \o B \in Seq(CellSet) /\ (S \o B) \o <<>> = S \o B
  <2>1. B \in Seq(CellSet)
    BY <1>3, <1>4, ConcatProperties
  <2> HIDE DEF B, S
  <2>2. S \o B \in Seq(CellSet)
    BY <1>3, <2>1, ConcatProperties
  <2> QED  BY <2>1, <2>2, ConcatEmptySeq
<1>6. Whole' = C \o (S \o B)
  <2>1. Whole' = C \o (stream \o buffer)
    BY <1>1, <1>2 DEF Whole
  <2> HIDE DEF B, S, C
  <2> QED  BY <1>2, <1>5, <2>1
<1>7. Whole \in Seq(CellSet) /\ C \o (S \o B) = Whole \o c
  <2> DEFINE b == writer.buffer
  <2> HIDE DEF b, S, C
  <2>1. b \in Seq(CellSet) /\ B = b \o c
    BY <1>3 DEF b
  <2> HIDE DEF B
  <2>2. S \o b \in Seq(CellSet)
    BY <1>3, <2>1, ConcatProperties
  <2>3. C \o (S \o b) \in Seq(CellSet)
    BY <1>3, <2>2, ConcatProperties
  <2>4. C \in Seq(CellSet) /\ S \in Seq(CellSet) /\ c \in Seq(CellSet)
    BY <1>3, <1>4
  <2>5. S \o (b \o c) = (S \o b) \o c
    BY <2>1, <2>4, CellsAssociate
  <2>6. C \o ((S \o b) \o c) = (C \o (S \o b)) \o c
    <3>1. \A t \in Seq(CellSet) : C \o (t \o c) = (C \o t) \o c
      BY <2>4, CellsAssociate
    <3> QED  BY <2>2, <3>1, Zenon
  <2> QED  BY <2>1, <2>3, <2>5, <2>6 DEF Whole, S, C, b
<1>8. Len(Whole \o c) = Len(Whole) + Len(c)
  BY <1>4, <1>7, ConcatProperties
<1>9. Recorded' = IF m \in Selected(kind, schema) THEN Append(Recorded, Stored(kind, schema, m)) ELSE Recorded
  <2>1. Recorded' = LET kept == Picked(Append(written, m), Selected(kind, schema))
                    IN  [i \in DOMAIN kept |-> Stored(kind, schema, kept[i])]
    BY <1>1 DEF Recorded
  <2> QED  BY <1>3, <2>1, RecordedNext DEF Recorded
<1>10. Layout(kind, schema, Whole \o c, Recorded')
  <2>1. CASE m \in Selected(kind, schema)
    <3> DEFINE A == Records \union {Stored(kind, schema, m)}
    <3>1. Recorded \in Seq(A) /\ Stored(kind, schema, m) \in A
      <4>1. Records \subseteq A /\ Stored(kind, schema, m) \in A
        OBVIOUS
      <4> HIDE DEF A
      <4> QED  BY <4>1, RecordedType, SeqMonotonic
    <3> HIDE DEF A
    <3>2. Holds(kind, schema, c, 1, Len(c) + 1, Stored(kind, schema, m))
      BY <1>4, <2>1
    <3>3. Layout(kind, schema, Whole \o c, Append(Recorded, Stored(kind, schema, m)))
      <4> DEFINE r == Stored(kind, schema, m)
                 k == kind
                 s == schema
                 W == Whole
                 R == Recorded
      <4>1. /\ k \in {"raw", "dbc"} /\ (k = "dbc" => s \in Schemas) /\ W \in Seq(CellSet)
            /\ R \in Seq(A) /\ Layout(k, s, W, R) /\ r \in A /\ Holds(k, s, c, 1, Len(c) + 1, r)
        BY <1>1, <1>3, <1>7, <3>1, <3>2
      <4> HIDE DEF r, k, s, W, R
      <4>2. Layout(k, s, W \o c, Append(R, r))
        BY <1>4, <4>1, OneMoreFits
      <4> QED  BY <4>2 DEF r, k, s, W, R
    <3> QED  BY <1>9, <2>1, <3>3
  <2>2. CASE m \notin Selected(kind, schema)
    <3>1. c = <<>>
      BY <1>4, <2>2
    <3>2. Whole \o c = Whole
      BY <1>7, <3>1, ConcatEmptySeq
    <3> QED  BY <1>1, <1>9, <2>2, <3>2
  <2> QED  BY <2>1, <2>2
<1>11. writer'.step = "write" /\ writer'.bytes = writer.bytes + Len(c)
  BY <1>2
<1>12. Len(c) \in Nat
  BY <1>4
<1>13. FileTypeOK'
  <2>1. written' \in Seq(Messages(kind))
    BY <1>1, <1>3, AppendProperties
  <2>2. writer' = [step |-> writer'.step, buffer |-> writer'.buffer, stream |-> writer'.stream,
                  bytes |-> writer'.bytes, counts |-> writer'.counts]
        /\ writer'.buffer \in Seq(CellSet) /\ writer'.stream \in Seq(CellSet)
    <3>1. <<>> \in Seq(CellSet)
      OBVIOUS
    <3> HIDE DEF B, S
    <3> QED  BY <1>2, <1>3, <1>5, <3>1
  <2>3. writer'.bytes \in Nat
    BY <1>3, <1>11, <1>12
  <2> QED  BY <1>1, <1>11, <2>1, <2>2, <2>3 DEF FileTypeOK, FileType, Steps
<1>14. WriterInv'
  <2>1. file'.length = 0 /\ writer'.bytes = Len(Whole') /\ Layout(file'.kind, file'.schema, Whole', Recorded')
    BY <1>1, <1>6, <1>7, <1>8, <1>10, <1>11
  <2> QED  BY <1>11, <2>1 DEF WriterInv
<1> QED  BY <1>13, <1>14

LEMMA CloseKeeps ==
  ASSUME FileTypeOK, WriterInv, CloseFlush \/ PatchLength \/ PatchCounts
  PROVE  FileTypeOK' /\ WriterInv'
<1>1. PICK o, p, q, r, s : writer = [step |-> o, buffer |-> p, stream |-> q, bytes |-> r, counts |-> s]
  BY DEF FileTypeOK
<1>2. PICK f, g, h, i, j, k : file = [header |-> f, kind |-> g, schema |-> h, cells |-> i, length |-> j, counts |-> k]
  BY DEF FileTypeOK
<1>3. CASE CloseFlush
  <2>1. /\ writer.step = "write" /\ written' = written
        /\ file' = [header |-> file.header, kind |-> file.kind, schema |-> file.schema, cells |-> Whole,
                    length |-> file.length, counts |-> file.counts]
        /\ writer' = [step |-> "length", buffer |-> <<>>, stream |-> <<>>,
                      bytes |-> writer.bytes, counts |-> writer.counts]
    BY <1>1, <1>2, <1>3 DEF CloseFlush, Flushed, Whole
  <2>2. Recorded' = Recorded
    BY <2>1, RecordedStays
  <2>3. Whole \in Seq(CellSet) /\ <<>> \in Seq(CellSet)
    <3>1. writer.stream \o writer.buffer \in Seq(CellSet) /\ file.cells \in Seq(CellSet)
      BY ConcatProperties DEF FileTypeOK, FileType
    <3> QED  BY <3>1, ConcatProperties DEF Whole
  <2>4. FileTypeOK'
    BY <2>1, <2>3 DEF FileTypeOK, FileType, Steps
  <2> QED  BY <2>1, <2>2, <2>4 DEF WriterInv
<1>4. CASE PatchLength
  <2>1. /\ writer.step = "length" /\ written' = written
        /\ file' = [header |-> file.header, kind |-> file.kind, schema |-> file.schema, cells |-> file.cells,
                    length |-> writer.bytes, counts |-> file.counts]
        /\ writer' = [step |-> "counts", buffer |-> writer.buffer, stream |-> writer.stream,
                      bytes |-> writer.bytes, counts |-> writer.counts]
    BY <1>1, <1>2, <1>4 DEF PatchLength
  <2>2. Recorded' = Recorded
    BY <2>1, RecordedStays
  <2>3. FileTypeOK'
    BY <2>1 DEF FileTypeOK, FileType, Steps
  <2> QED  BY <2>1, <2>2, <2>3 DEF WriterInv, Finished
<1>5. CASE PatchCounts
  <2>1. /\ writer.step = "counts" /\ written' = written
        /\ file' = [header |-> file.header, kind |-> file.kind, schema |-> file.schema, cells |-> file.cells,
                    length |-> file.length, counts |-> writer.counts]
        /\ writer' = [step |-> "closed", buffer |-> writer.buffer, stream |-> writer.stream,
                      bytes |-> writer.bytes, counts |-> writer.counts]
    BY <1>1, <1>2, <1>5 DEF PatchCounts
  <2>2. Recorded' = Recorded
    BY <2>1, RecordedStays
  <2>3. FileTypeOK'
    BY <2>1 DEF FileTypeOK, FileType, Steps
  <2> QED  BY <2>1, <2>2, <2>3 DEF WriterInv, Finished
<1> QED  BY <1>3, <1>4, <1>5

LEMMA CrashKeeps == ASSUME FileTypeOK, WriterInv, Crash PROVE FileTypeOK' /\ WriterInv'
<1>1. /\ writer.step \notin {"off", "crashed"} /\ file' = file /\ written' = written
      /\ writer' = [step |-> "crashed", buffer |-> <<>>, stream |-> <<>>, bytes |-> 0, counts |-> <<>>]
  BY DEF Crash, NoWriter
<1>2. Recorded' = Recorded
  BY <1>1, RecordedStays
<1>3. <<>> \in Seq(CellSet)
  OBVIOUS
<1>4. FileTypeOK'
  BY <1>1, <1>3 DEF FileTypeOK, FileType, Steps
<1>5. file.length = 0 \/ Finished(file, Recorded)
  BY <1>1 DEF WriterInv, FileTypeOK, Steps
<1> QED  BY <1>1, <1>2, <1>4, <1>5 DEF WriterInv

\* Readers leave the file alone.
LEMMA IdleKeeps ==
  ASSUME FileTypeOK, WriterInv, UNCHANGED <<file, writer, written>> PROVE FileTypeOK' /\ WriterInv'
<1>1. Recorded' = Recorded /\ Whole' = Whole
  BY RecordedStays DEF Whole
<1>2. FileTypeOK'
  BY DEF FileTypeOK, FileType
<1> QED  BY <1>1, <1>2 DEF WriterInv

LEMMA FileStep == FileTypeOK /\ WriterInv /\ [FileNext]_fileVars => FileTypeOK' /\ WriterInv'
<1> SUFFICES ASSUME FileTypeOK, WriterInv, [FileNext]_fileVars PROVE FileTypeOK' /\ WriterInv'
  OBVIOUS
<1>1. CASE \E kind \in {"raw", "dbc"}, schema \in Schemas \union {<<>>} : Create(kind, schema)
  BY <1>1, CreateKeeps
<1>2. CASE FlushHeader
  BY <1>2, HeaderKeeps
<1>3. CASE \E m \in Messages(file.kind) : Write(m)
  BY <1>3, WriteKeeps
<1>4. CASE Flush
  BY <1>4, FlushKeeps
<1>5. CASE \E n \in 1 .. Len(writer.stream) : Spill(n)
  BY <1>5, SpillKeeps
<1>6. CASE CloseFlush \/ PatchLength \/ PatchCounts
  BY <1>6, CloseKeeps
<1>7. CASE Crash
  BY <1>7, CrashKeeps
<1>8. CASE \/ OpenDetail \/ NextPage \/ PrevPage \/ Back
           \/ ExportMdf4 \/ ExportCsv
           \/ \E source \in {"session", "export"} : Play(source)
           \/ PlayRecord \/ PlayFails \/ PlayEnds \/ PlayStops
           \/ UNCHANGED fileVars
  <2>1. UNCHANGED <<file, writer, written>>
    BY <1>8 DEF OpenDetail, NextPage, PrevPage, Back, ExportMdf4, ExportCsv, Play,
                PlayRecord, PlayFails, PlayEnds, PlayStops, fileVars
  <2> QED  BY <2>1, IdleKeeps
<1> QED  BY <1>1, <1>2, <1>3, <1>4, <1>5, <1>6, <1>7, <1>8 DEF FileNext

\* Nothing can be read, or everything.
LEMMA ReadsAll ==
  ASSUME FileTypeOK, Finished(file, Recorded)
  PROVE  Readable = Recorded /\ (file.header = "whole" => Mdf4Opens(file))
<1> DEFINE R == Recorded
           reader == Mdf4Offsets(file)
           n == file.length
<1>1. /\ Reads(file, reader, R) /\ Len(R) \in Nat /\ Len(R) <= n
      /\ n \in Nat /\ (file.header = "whole" => Mdf4Opens(file))
  BY FinishedFile DEF Finished, FileTypeOK, FileType
<1>2. R \in Seq(Range(R))
  BY RecordedType DEF Records
<1>3. Readable = Mdf4Slice(file, reader, 0, n)
  BY DEF Readable
<1> HIDE DEF R, reader, n
<1>4. ASSUME NEW z \in Nat, z = 0
      PROVE  Mdf4Slice(file, reader, z, n) = SubSeq(R, z + 1, Min({z + n, Len(R)}))
  <2>1. Reads(file, reader, R) /\ R \in Seq(Range(R)) /\ z <= Len(R) /\ n \in Nat
    BY <1>1, <1>2, <1>4
  <2>2. SliceIs(file, reader, R, z, n)
    BY <2>1, SliceOf
  <2> QED  BY <2>2 DEF SliceIs
<1>5. Mdf4Slice(file, reader, 0, n) = SubSeq(R, 1, Min({n, Len(R)}))
  BY <1>1, <1>4
<1>6. Min({n, Len(R)}) = Len(R)
  BY <1>1 DEF Min
<1>7. SubSeq(R, 1, Len(R)) = R
  BY <1>2, SubSeqFull
<1> QED  BY <1>1, <1>3, <1>5, <1>6, <1>7 DEF R

LEMMA ReadsNone ==
  ASSUME FileTypeOK, file.length = 0
  PROVE  Readable = <<>> /\ Mdf4Offsets(file) = <<>> /\ (file.header = "whole" => Mdf4Opens(file))
<1>1. Mdf4Offsets(file) = <<>> /\ (file.header = "whole" => Mdf4Opens(file))
  BY UnfinishedFile DEF FileTypeOK
<1> DEFINE none == <<>>
<1>2. /\ Reads(file, none, none) /\ none \in Seq(Range(none))
      /\ 0 \in Nat /\ 0 <= Len(none) /\ Len(none) = 0
  BY DEF Reads
<1> HIDE DEF none
<1>3. Mdf4Slice(file, none, 0, 0) = SubSeq(none, 0 + 1, Min({0 + 0, Len(none)}))
  <2>1. SliceIs(file, none, none, 0, 0)
    BY <1>2, SliceOf
  <2> QED  BY <2>1 DEF SliceIs
<1>4. Min({0 + 0, 0}) = 0 /\ 0 + 1 = 1
  BY DEF Min
<1>5. SubSeq(none, 1, 0) = <<>>
  BY SubSeqEmpty DEF none
<1>6. Readable = Mdf4Slice(file, Mdf4Offsets(file), 0, 0)
  BY DEF Readable
<1> QED  BY <1>1, <1>2, <1>3, <1>4, <1>5, <1>6 DEF none

\* Whoever opens the file of a session, while it is written, between two steps of
\* close() or after a crash, reads all the session recorded or nothing, and a closed
\* file is complete.
THEOREM AllOrNothingHolds == FileSpec => []AllOrNothing
<1>1. FileTypeOK /\ WriterInv => AllOrNothing
  <2> SUFFICES ASSUME FileTypeOK, WriterInv PROVE AllOrNothing
    OBVIOUS
  <2>1. file.length = 0 \/ Finished(file, Recorded)
    BY DEF FileTypeOK, WriterInv, Steps
  <2>2. writer.step \in {"counts", "closed"} => Finished(file, Recorded)
    BY DEF WriterInv
  <2> QED  BY <2>1, <2>2, ReadsAll, ReadsNone DEF AllOrNothing
<1> QED  BY <1>1, FileStart, FileStep, PTL DEF FileSpec

-----------------------------------------------------------------------------
(***************************************************************************)
(* The detail view.                                                        *)
(***************************************************************************)

\* A view opened before the file was finished has nothing to page through; one that
\* was opened later shows a page of what the finished file has.
DetailInv ==
  /\ detail = [open |-> detail.open, offset |-> detail.offset, page |-> detail.page,
               reader |-> detail.reader]
  /\ detail.open =>
       \/ detail.reader = <<>> /\ detail.page = <<>> /\ detail.offset = 0
       \/ /\ writer.step \in {"counts", "closed"}
          /\ Reads(file, detail.reader, Recorded)
          /\ detail.offset \in Nat /\ detail.offset % PageSize = 0
          /\ detail.offset < Len(Recorded)
          /\ detail.page = SubSeq(Recorded, detail.offset + 1,
                                  Min({detail.offset + PageSize, Len(Recorded)}))

\* The start of a page, of the next and of the one before.
LEMMA Paging ==
  ASSUME NEW offset \in Nat, NEW size \in Nat \ {0}, offset % size = 0
  PROVE  /\ (offset \div size + 1) * size = offset + size
         /\ (offset + size) % size = 0
         /\ offset > 0 => /\ ((offset \div size + 1) - 2) * size = offset - size
                          /\ offset - size \in Nat /\ (offset - size) % size = 0
<1> DEFINE q == offset \div size
<1>1. q \in Int /\ q * size \in Int /\ offset = q * size + (offset % size)
  BY Z3
<1>2. offset = q * size
  BY <1>1
<1>3. (q + 1) * size = q * size + size /\ ((q + 1) - 2) * size = q * size - size
  BY <1>1, Z3
<1>4. q * size >= 0
  BY <1>2
<1>5. offset > 0 => q >= 1
  <2>1. q <= 0 => q * size <= 0
    BY <1>1, Z3
  <2> QED  BY <1>1, <1>2, <2>1
<1>6. q >= 1 => q * size >= size
  BY <1>1, Z3
<1>7. \A p \in Int : (p * size) % size = 0
  <2> TAKE p \in Int
  <2> DEFINE n == p * size
             d == n \div size
             r == n % size
  <2>1. n \in Int /\ d \in Int /\ r \in 0 .. size - 1 /\ n = d * size + r /\ d * size \in Int
    BY Z3
  <2>2. (p - d) * size = n - d * size
    BY <2>1, Z3
  <2>3. p - d \in Int /\ (p - d) * size = r
    BY <2>1, <2>2
  <2>4. p - d >= 1 => (p - d) * size >= size
    BY <2>1, Z3
  <2>5. p - d <= -1 => (p - d) * size <= - size
    BY <2>1, Z3
  <2> HIDE DEF n, d, r
  <2>6. p - d = 0
    BY <2>1, <2>3, <2>4, <2>5
  <2>7. (p - d) * size = 0
    BY <2>6
  <2> QED  BY <2>3, <2>7 DEF r, n
<1> HIDE DEF q
<1>8. q + 1 \in Int /\ q - 1 \in Int /\ (q + 1) - 2 = q - 1
  BY <1>1
<1>9. ((q + 1) * size) % size = 0 /\ ((q - 1) * size) % size = 0
  BY <1>7, <1>8
<1>10. (q + 1) * size = offset + size /\ (q - 1) * size = offset - size
  BY <1>2, <1>3, <1>8
<1>11. offset > 0 => offset - size \in Nat
  BY <1>2, <1>5, <1>6
<1> QED  BY <1>2, <1>3, <1>8, <1>9, <1>10, <1>11 DEF q

\* A page that begins where the file still has records.
LEMMA PageIs ==
  ASSUME FileTypeOK, Reads(file, detail.reader, Recorded), DetailInv,
         NEW offset \in Nat, offset < Len(Recorded)
  PROVE  LoadPage(detail, offset) =
           [open |-> detail.open, offset |-> offset,
            page |-> SubSeq(Recorded, offset + 1, Min({offset + PageSize, Len(Recorded)})),
            reader |-> detail.reader]
<1>1. PageSize \in Nat /\ Len(Recorded) \in Nat /\ Recorded \in Seq(Records)
      /\ offset \in 0 .. Len(Recorded) /\ Len(detail.reader) = Len(Recorded)
  BY RecordedType, SessionFileAssumption DEF Reads
<1> DEFINE page == SubSeq(Recorded, offset + 1, Min({offset + PageSize, Len(Recorded)}))
           R == Recorded
           reader == detail.reader
<1>2. Mdf4Slice(file, reader, offset, PageSize) = page
  <2>1. Reads(file, reader, R) /\ R \in Seq(Range(R)) /\ offset <= Len(R) /\ PageSize \in Nat
    BY <1>1 DEF Records
  <2> HIDE DEF R, reader
  <2>2. SliceIs(file, reader, R, offset, PageSize)
    BY <2>1, SliceOf
  <2> QED  BY <2>2 DEF R, SliceIs
<1> HIDE DEF page
<1>3. PICK x : x = LoadPage(detail, offset)
  BY Zenon
<1>4. x = [detail EXCEPT !.offset = offset, !.page = page]
  BY <1>1, <1>2, <1>3 DEF LoadPage
<1>5. PICK o, p, q, r : detail = [open |-> o, offset |-> p, page |-> q, reader |-> r]
  BY DEF DetailInv
<1>6. x = [open |-> detail.open, offset |-> offset, page |-> page, reader |-> detail.reader]
  BY <1>4, <1>5
<1> QED  BY <1>3, <1>6 DEF page

\* What a reader finds is a matter of the cells.
LEMMA ReadsStay ==
  ASSUME NEW f, NEW g, g.kind = f.kind, g.schema = f.schema, g.cells = f.cells,
         NEW offsets, NEW R, Reads(f, offsets, R)
  PROVE  Reads(g, offsets, R)
<1>1. \A i \in 1 .. Len(R) : /\ Mdf4Has(g, offsets, i) <=> Mdf4Has(f, offsets, i)
                            /\ Mdf4Record(g, offsets, i) = Mdf4Record(f, offsets, i)
  BY DEF Mdf4Has, Mdf4Record
<1> QED  BY <1>1 DEF Reads

\* The view is left alone, and the file if it is finished.
LEMMA DetailFrame ==
  ASSUME DetailInv, detail' = detail,
         writer.step \in {"counts", "closed"} =>
           /\ writer'.step \in {"counts", "closed"} /\ written' = written
           /\ file'.kind = file.kind /\ file'.schema = file.schema /\ file'.cells = file.cells
  PROVE  DetailInv'
<1>1. CASE writer.step \in {"counts", "closed"}
  <2>1. Recorded' = Recorded
    BY <1>1, RecordedStays
  <2>2. \A offsets, R : Reads(file, offsets, R) => Reads(file', offsets, R)
    BY <1>1, ReadsStay
  <2>3. Reads(file, detail.reader, Recorded) => Reads(file, detail.reader, Recorded)'
    BY <2>1, <2>2
  <2> QED  BY <1>1, <2>1, <2>3 DEF DetailInv
<1>2. CASE writer.step \notin {"counts", "closed"}
  BY <1>2 DEF DetailInv
<1> QED  BY <1>1, <1>2

LEMMA OpenKeeps == ASSUME FileTypeOK, WriterInv, OpenDetail PROVE DetailInv'
<1> DEFINE reader == Mdf4Offsets(file)
           d == [open |-> TRUE, offset |-> 0, page |-> <<>>, reader |-> reader]
<1>1. /\ file' = file /\ writer' = writer /\ written' = written
      /\ writer.step \in {"write", "length", "counts", "closed"}
      /\ PageSize \in Nat \ {0}
  BY SessionFileAssumption DEF OpenDetail, Listed, FileTypeOK, Steps
<1>2. detail' = [d EXCEPT !.offset = 0, !.page = Mdf4Slice(file, reader, 0, PageSize)]
  <2>1. detail' = LoadPage(d, 0)
    <3>1. detail' = LoadPage([NoDetail EXCEPT !.open = TRUE, !.reader = reader], 0)
      BY Zenon DEF OpenDetail
    <3> HIDE DEF reader
    <3>2. PICK x : x = [NoDetail EXCEPT !.open = TRUE, !.reader = reader]
      BY Zenon
    <3>3. x = d
      BY <3>2 DEF NoDetail
    <3> QED  BY <3>1, <3>2, <3>3, Zenon
  <2>2. ~ (0 > Len(reader))
    <3>1. Len(reader) \in Nat
      <4>1. CASE file.length = 0
        BY <4>1, ReadsNone
      <4>2. CASE Finished(file, Recorded)
        BY <4>2, FinishedFile, RecordedType DEF Finished, FileTypeOK, Reads
      <4> QED  BY <1>1, <4>1, <4>2 DEF WriterInv
    <3> QED  BY <3>1
  <2> HIDE DEF reader
  <2> QED  BY <2>1, <2>2 DEF LoadPage
<1>3. Recorded' = Recorded
  BY <1>1, RecordedStays
<1> HIDE DEF reader
<1>4. detail' = [open |-> TRUE, offset |-> 0, reader |-> reader,
                 page |-> Mdf4Slice(file, reader, 0, PageSize)]
  BY <1>2
<1>5. ASSUME NEW R, R \in Seq(Range(R)), Reads(file, reader, R), Len(R) \in Nat
      PROVE  Mdf4Slice(file, reader, 0, PageSize) = SubSeq(R, 0 + 1, Min({0 + PageSize, Len(R)}))
  <2>1. 0 \in Nat /\ 0 <= Len(R)
    BY <1>5
  <2>2. SliceIs(file, reader, R, 0, PageSize)
    BY <1>1, <1>5, <2>1, SliceOf
  <2> QED  BY <2>2 DEF SliceIs
<1>6. ASSUME NEW R, Reads(file, reader, R), R = <<>>
      PROVE  reader = <<>> => Mdf4Slice(file, reader, 0, PageSize) = <<>>
  <2>1. R \in Seq(Range(R)) /\ Len(R) = 0
    BY <1>6
  <2>2. Mdf4Slice(file, reader, 0, PageSize) = SubSeq(R, 0 + 1, Min({0 + PageSize, Len(R)}))
    BY <1>5, <1>6, <2>1
  <2>3. Min({0 + PageSize, 0}) = 0 /\ 0 + 1 = 1
    BY <1>1 DEF Min
  <2>4. SubSeq(R, 1, 0) = <<>>
    BY <1>6, SubSeqEmpty
  <2> QED  BY <2>1, <2>2, <2>3, <2>4
<1>7. CASE file.length = 0
  <2>1. reader = <<>>
    BY <1>7, ReadsNone DEF reader
  <2>2. Reads(file, reader, <<>>)
    BY <2>1 DEF Reads
  <2> QED  BY <1>4, <1>6, <2>1, <2>2 DEF DetailInv
<1>8. CASE writer.step \in {"counts", "closed"} /\ Finished(file, Recorded)
  <2>1. /\ Reads(file, reader, Recorded) /\ Recorded \in Seq(Range(Recorded)) /\ Len(Recorded) \in Nat
        /\ Len(reader) = Len(Recorded)
    BY <1>8, FinishedFile, RecordedType DEF Finished, FileTypeOK, Reads, Records, reader
  <2>2. CASE Len(Recorded) = 0
    <3>1. reader = <<>> /\ Recorded = <<>>
      <4>1. reader \in Seq(Nat)
        BY <1>8, FinishedFile DEF Finished, FileTypeOK, reader
      <4> QED  BY <2>1, <2>2, <4>1
    <3> QED  BY <1>4, <1>6, <2>1, <3>1 DEF DetailInv
  <2>3. CASE Len(Recorded) # 0
    <3>1. Mdf4Slice(file, reader, 0, PageSize) = SubSeq(Recorded, 0 + 1, Min({0 + PageSize, Len(Recorded)}))
      BY <1>5, <2>1
    <3>2. 0 % PageSize = 0 /\ 0 < Len(Recorded) /\ 0 \in Nat
      BY <1>1, <2>1, <2>3, Z3
    <3>3. Reads(file, detail.reader, Recorded)'
      BY <1>1, <1>3, <1>4, <2>1
    <3> QED  BY <1>1, <1>3, <1>4, <1>8, <3>1, <3>2, <3>3 DEF DetailInv
  <2> QED  BY <2>2, <2>3
<1> QED  BY <1>1, <1>7, <1>8 DEF WriterInv

LEMMA PageKeeps ==
  ASSUME FileTypeOK, DetailInv, NEW offset \in Nat, offset < Len(Recorded), offset % PageSize = 0,
         writer.step \in {"counts", "closed"}, Reads(file, detail.reader, Recorded), detail.open,
         UNCHANGED <<file, writer, written>>, detail' = LoadPage(detail, offset)
  PROVE  DetailInv'
<1> DEFINE page == SubSeq(Recorded, offset + 1, Min({offset + PageSize, Len(Recorded)}))
<1>1. detail' = [open |-> detail.open, offset |-> offset, page |-> page, reader |-> detail.reader]
  BY PageIs
<1>2. Recorded' = Recorded
  BY RecordedStays
<1>3. Reads(file, detail.reader, Recorded)'
  BY <1>1, <1>2
<1>4. /\ detail'.open = detail.open /\ detail'.offset = offset
      /\ detail'.page = page /\ detail'.reader = detail.reader
  <2> HIDE DEF page
  <2> QED  BY <1>1
<1>5. detail' = [open |-> detail'.open, offset |-> detail'.offset, page |-> detail'.page,
                 reader |-> detail'.reader]
  <2> HIDE DEF page
  <2> QED  BY <1>1, <1>4, Zenon
<1> QED  BY <1>2, <1>3, <1>4, <1>5 DEF DetailInv

LEMMA PagesKeep == ASSUME FileTypeOK, DetailInv, NextPage \/ PrevPage PROVE DetailInv'
<1>1. PageSize \in Nat \ {0} /\ Len(Recorded) \in Nat /\ Len(<<>>) = 0
  BY SessionFileAssumption, RecordedType
<1>2. detail.open /\ UNCHANGED <<file, writer, written>>
  BY DEF NextPage, PrevPage
<1>3. detail.offset > 0 \/ detail.offset + PageSize < Len(detail.reader)
  BY DEF NextPage, PrevPage
<1>4. /\ writer.step \in {"counts", "closed"} /\ Reads(file, detail.reader, Recorded)
      /\ detail.offset \in Nat /\ detail.offset % PageSize = 0 /\ detail.offset < Len(Recorded)
      /\ Len(detail.reader) = Len(Recorded)
  BY <1>1, <1>2, <1>3 DEF DetailInv, Reads
<1> DEFINE offset == detail.offset
<1>5. /\ (offset \div PageSize + 1) * PageSize = offset + PageSize
      /\ (offset + PageSize) % PageSize = 0
      /\ offset > 0 => /\ ((offset \div PageSize + 1) - 2) * PageSize = offset - PageSize
                       /\ offset - PageSize \in Nat /\ (offset - PageSize) % PageSize = 0
  BY <1>1, <1>4, Paging
<1>6. CASE NextPage
  <2>1. detail' = LoadPage(detail, offset + PageSize) /\ offset + PageSize < Len(Recorded)
    BY <1>4, <1>5, <1>6 DEF NextPage, CurrentPage
  <2>2. offset + PageSize \in Nat
    BY <1>1, <1>4
  <2> QED  BY <1>2, <1>4, <1>5, <2>1, <2>2, PageKeeps
<1>7. CASE PrevPage
  <2>1. detail' = LoadPage(detail, offset - PageSize) /\ offset > 0
    <3>1. detail' = LoadPage(detail, (CurrentPage - 2) * PageSize) /\ detail.offset > 0
      BY <1>7 DEF PrevPage
    <3>2. CurrentPage = offset \div PageSize + 1
      BY DEF CurrentPage
    <3>3. (CurrentPage - 2) * PageSize = offset - PageSize
      BY <1>5, <3>1, <3>2, Zenon
    <3> QED  BY <3>1, <3>3
  <2>2. offset - PageSize < Len(Recorded)
    BY <1>1, <1>4
  <2> QED  BY <1>2, <1>4, <1>5, <2>1, <2>2, PageKeeps
<1> QED  BY <1>6, <1>7

LEMMA DetailStart == FileInit => DetailInv
BY DEF FileInit, NoDetail, DetailInv

LEMMA DetailStep == FileTypeOK /\ WriterInv /\ DetailInv /\ [FileNext]_fileVars => DetailInv'
<1> SUFFICES ASSUME FileTypeOK, WriterInv, DetailInv, [FileNext]_fileVars PROVE DetailInv'
  OBVIOUS
<1>1. CASE OpenDetail
  BY <1>1, OpenKeeps
<1>2. CASE NextPage \/ PrevPage
  BY <1>2, PagesKeep
<1>3. CASE Back \/ Crash
  <2>1. detail' = NoDetail
    BY <1>3 DEF Back, Crash
  <2> QED  BY <2>1 DEF NoDetail, DetailInv
<1>4. CASE PatchCounts
  <2>1. PICK h, k, s, c, l, n : file = [header |-> h, kind |-> k, schema |-> s, cells |-> c,
                                        length |-> l, counts |-> n]
    BY DEF FileTypeOK
  <2>2. PICK t, b, m, e, r : writer = [step |-> t, buffer |-> b, stream |-> m, bytes |-> e, counts |-> r]
    BY DEF FileTypeOK
  <2>3. file' = [header |-> h, kind |-> k, schema |-> s, cells |-> c, length |-> l, counts |-> r]
    BY <2>1, <2>2, <1>4 DEF PatchCounts
  <2>4. writer' = [step |-> "closed", buffer |-> b, stream |-> m, bytes |-> e, counts |-> r]
    BY <2>2, <1>4 DEF PatchCounts
  <2>5. detail' = detail /\ written' = written
    BY <1>4 DEF PatchCounts
  <2> QED  BY <2>1, <2>3, <2>4, <2>5, DetailFrame
<1>5. CASE \/ \E kind \in {"raw", "dbc"}, schema \in Schemas \union {<<>>} : Create(kind, schema)
           \/ FlushHeader \/ Flush \/ CloseFlush \/ PatchLength
           \/ \E m \in Messages(file.kind) : Write(m)
           \/ \E n \in 1 .. Len(writer.stream) : Spill(n)
  <2>1. detail' = detail /\ writer.step \notin {"counts", "closed"}
    BY <1>5 DEF Create, FlushHeader, Flush, CloseFlush, PatchLength, Write, Spill
  <2> QED  BY <2>1, DetailFrame
<1>6. CASE \/ ExportMdf4 \/ ExportCsv
           \/ \E source \in {"session", "export"} : Play(source)
           \/ PlayRecord \/ PlayFails \/ PlayEnds \/ PlayStops
           \/ UNCHANGED fileVars
  <2>1. UNCHANGED <<file, writer, written, detail>>
    BY <1>6 DEF ExportMdf4, ExportCsv, Play, PlayRecord, PlayFails, PlayEnds, PlayStops, fileVars
  <2> QED  BY <2>1, DetailFrame
<1> QED  BY <1>1, <1>2, <1>3, <1>4, <1>5, <1>6 DEF FileNext

\* The detail view of a session shows the records of its page and no others, however
\* the user has paged there and whatever happens to the file meanwhile.
THEOREM PageIsSliceHolds == FileSpec => []PageIsSlice
<1>1. DetailInv => PageIsSlice
  BY DEF DetailInv, PageIsSlice
<1> QED  BY <1>1, FileStart, FileStep, DetailStart, DetailStep, PTL DEF FileSpec

-----------------------------------------------------------------------------
(***************************************************************************)
(* The rows of a CSV file.                                                 *)
(***************************************************************************)

\* The columns after the first g groups.
Columned(schema, columns) ==
  columns = [g \in 0 .. Len(schema) |->
               IF g = 0 THEN <<>>
               ELSE LET names == schema[g].signals
                    IN  columns[g - 1] \o Picked(names, Range(names) \ Range(columns[g - 1]))]

LEMMA ColumnedAt ==
  ASSUME NEW schema, NEW columns, Columned(schema, columns), NEW g \in 0 .. Len(schema)
  PROVE  columns[g] = IF g = 0 THEN <<>>
                      ELSE LET names == schema[g].signals
                           IN  columns[g - 1] \o Picked(names, Range(names) \ Range(columns[g - 1]))
BY Zenon DEF Columned

NextColumns(schema, g, before) ==
  LET names == schema[g].signals
  IN  before \o Picked(names, Range(names) \ Range(before))

LEMMA ColumnedExists ==
  ASSUME NEW schema, Len(schema) \in Nat
  PROVE  \E columns : Columned(schema, columns)
<1> DEFINE n == Len(schema)
           Def(h, k) == h = [g \in 0 .. k |-> IF g = 0 THEN <<>> ELSE NextColumns(schema, g, h[g - 1])]
           T == {k \in 0 .. n : \E h : Def(h, k)}
<1>1. 0 \in T
  <2> DEFINE h == [g \in 0 .. 0 |-> <<>>]
  <2>1. \A g \in 0 .. 0 : g = 0
    OBVIOUS
  <2>2. Def(h, 0)
    BY <2>1
  <2>3. 0 \in 0 .. n
    OBVIOUS
  <2> HIDE DEF h, Def, n
  <2> QED  BY <2>2, <2>3
<1>2. ASSUME NEW k \in 0 .. n - 1, k \in T
      PROVE  k + 1 \in T
  <2>1. PICK h : Def(h, k)
    BY <1>2
  <2> DEFINE next == NextColumns(schema, k + 1, h[k])
             e == [g \in 0 .. k + 1 |-> IF g = k + 1 THEN next ELSE h[g]]
  <2>2. ASSUME NEW g \in 0 .. k + 1
        PROVE  e[g] = IF g = 0 THEN <<>> ELSE NextColumns(schema, g, e[g - 1])
    <3>1. CASE g = k + 1
      <4>1. k \in 0 .. k + 1 /\ k # k + 1 /\ g - 1 = k /\ g # 0
        BY <3>1
      <4>2. e[k] = h[k]
        BY <4>1
      <4> QED  BY <3>1, <4>1, <4>2
    <3>2. CASE g # k + 1
      <4>1. g \in 0 .. k /\ (g # 0 => g - 1 \in 0 .. k + 1 /\ g - 1 # k + 1)
        BY <3>2
      <4>2. e[g] = h[g] /\ (g # 0 => e[g - 1] = h[g - 1])
        BY <3>2, <4>1
      <4>3. h[g] = IF g = 0 THEN <<>> ELSE NextColumns(schema, g, h[g - 1])
        BY <2>1, <4>1, Zenon
      <4> HIDE DEF e
      <4> QED  BY <4>1, <4>2, <4>3
    <3> QED  BY <3>1, <3>2
  <2>3. e = [g \in 0 .. k + 1 |-> e[g]]
    OBVIOUS
  <2> HIDE DEF e
  <2>4. Def(e, k + 1)
    BY <2>2, <2>3
  <2> QED  BY <2>4
<1> HIDE DEF T, n
<1>3. n \in T
  BY <1>1, <1>2, UpTo DEF n
<1>4. PICK h : Def(h, n)
  BY <1>3 DEF T
<1> QED  BY <1>4, Zenon DEF n, Columned, NextColumns

\* The columns are the signals of all the groups.
SignalsOf(schema) == UNION {Range(schema[g].signals) : g \in DOMAIN schema}

LEMMA ColumnsHave ==
  ASSUME NEW schema \in Schemas
  PROVE  ColumnsOf(schema) \in Seq(STRING) /\ Range(ColumnsOf(schema)) = SignalsOf(schema)
<1> DEFINE n == Len(schema)
           before(g) == UNION {Range(schema[i].signals) : i \in 1 .. g}
           columns == CHOOSE h : Columned(schema, h)
           T == {g \in 0 .. n : columns[g] \in Seq(STRING) /\ Range(columns[g]) = before(g)}
<1>1. n \in Nat /\ DOMAIN schema = 1 .. n /\ \A g \in 1 .. n : schema[g].signals \in Seq(STRING)
  <2>1. schema \in Seq([msgId : Nat, signals : Seq(STRING)])
    BY SessionFileAssumption
  <2>2. n \in Nat /\ DOMAIN schema = 1 .. n
    BY <2>1
  <2>3. ASSUME NEW g \in 1 .. n PROVE schema[g].signals \in Seq(STRING)
    <3>1. schema[g] \in [msgId : Nat, signals : Seq(STRING)]
      BY <2>1, ElementOfSeq
    <3> QED  BY <3>1
  <2> QED  BY <2>2, <2>3
<1>2. ColumnsOf(schema) = columns[n]
  BY Zenon DEF ColumnsOf, Columned
<1>3. Columned(schema, columns)
  BY <1>1, ColumnedExists, Zenon
<1> HIDE DEF columns, n
<1>4. 0 \in T
  <2>1. 0 \in 0 .. n
    BY <1>1
  <2>2. columns[0] = <<>>
    BY <1>3, <2>1, ColumnedAt DEF n
  <2>3. <<>> \in Seq(STRING) /\ Range(<<>>) = {} /\ before(0) = {}
    BY DEF Range
  <2> QED  BY <2>1, <2>2, <2>3
<1>5. ASSUME NEW k \in 0 .. n - 1, k \in T
      PROVE  k + 1 \in T
  <2> DEFINE g == k + 1
  <2>1. g \in 0 .. n /\ g # 0 /\ g - 1 = k /\ g \in 1 .. n /\ 1 .. g = (1 .. k) \union {g}
    BY <1>1
  <2>2. columns[k] \in Seq(STRING) /\ Range(columns[k]) = before(k)
    BY <1>5
  <2> HIDE DEF g
  <2> DEFINE names == schema[g].signals
             fresh == Picked(names, Range(names) \ Range(columns[k]))
  <2>3. columns[g] = columns[k] \o fresh
    <3>1. g \in 0 .. Len(schema)
      BY <2>1 DEF n
    <3>2. columns[g] = IF g = 0 THEN <<>> ELSE columns[g - 1]
                          \o Picked(names, Range(names) \ Range(columns[g - 1]))
      BY <1>3, <3>1, ColumnedAt, Zenon
    <3> HIDE DEF names
    <3> QED  BY <2>1, <3>2
  <2>4. before(g) = before(k) \union Range(names)
    BY <2>1
  <2>5. names \in Seq(STRING)
    BY <1>1, <2>1
  <2> HIDE DEF before, names
  <2>6. /\ fresh \in Seq(STRING \intersect (Range(names) \ Range(columns[k])))
        /\ Range(fresh) = Range(names) \intersect (Range(names) \ Range(columns[k]))
    BY <2>5, PickedType
  <2> HIDE DEF fresh
  <2>7. fresh \in Seq(STRING)
    BY <2>6
  <2>8. columns[k] \o fresh \in Seq(STRING)
        /\ Range(columns[k] \o fresh) = Range(columns[k]) \union Range(fresh)
    BY <2>2, <2>7, ConcatProperties, RangeConcatenation
  <2> QED  BY <2>1, <2>2, <2>3, <2>4, <2>6, <2>8 DEF g
<1>6. n \in T
  <2> HIDE DEF T
  <2> QED  BY <1>1, <1>4, <1>5, UpTo
<1> QED  BY <1>1, <1>2, <1>6 DEF SignalsOf

\* A recorded message is a frame, or has the signals of its group.
LEMMA RecordedIs ==
  ASSUME FileTypeOK, NEW i \in 1 .. Len(Recorded)
  PROVE  LET m == Recorded[i]
         IN  /\ file.kind = "raw" => m \in Frames
             /\ file.kind = "dbc" =>
                  /\ m = [id |-> m.id, values |-> m.values] /\ m.id \in 0 .. IdRange - 1
                  /\ m.values = [n \in DOMAIN m.values |-> m.values[n]]
                  /\ DOMAIN m.values \subseteq SignalsOf(file.schema)
                  /\ \A n \in DOMAIN m.values : m.values[n] \in Nat
<1> DEFINE kept == Picked(written, Selected(file.kind, file.schema))
<1>1. kept \in Seq(Messages(file.kind) \intersect Selected(file.kind, file.schema))
  BY PickedType DEF FileTypeOK
<1>2. Recorded = [j \in DOMAIN kept |-> Stored(file.kind, file.schema, kept[j])]
  BY DEF Recorded
<1> HIDE DEF kept
<1>3. i \in DOMAIN kept
  BY <1>1, <1>2
<1>4. kept[i] \in Messages(file.kind)
  BY <1>1, <1>3
<1>5. PICK m : m = kept[i]
  OBVIOUS
<1>6. Recorded[i] = Stored(file.kind, file.schema, m) /\ m \in Messages(file.kind)
  BY <1>2, <1>3, <1>4, <1>5
<1>7. CASE file.kind = "raw"
  BY <1>6, <1>7 DEF Stored, Messages
<1>8. CASE file.kind = "dbc"
  <2> DEFINE names == UNION {Range(file.schema[g].signals) : g \in GroupsOf(file.schema, m.id)}
             values == [n \in names |-> IF n \in DOMAIN m.values THEN m.values[n] ELSE 0]
  <2>1. m \in DbcMessages
    BY <1>6, <1>8 DEF Messages
  <2>2. Recorded[i] = [id |-> m.id, values |-> values]
    BY <1>6, <1>8 DEF Stored
  <2>3. m.id \in 0 .. IdRange - 1 /\ \A n \in DOMAIN m.values : m.values[n] \in Nat
    BY <2>1, SessionFileAssumption
  <2>4. names \subseteq SignalsOf(file.schema)
    BY DEF GroupsOf, SignalsOf
  <2> HIDE DEF names
  <2>5. DOMAIN values = names /\ values = [n \in DOMAIN values |-> values[n]]
        /\ \A n \in names : values[n] \in Nat
    BY <2>3
  <2> HIDE DEF values
  <2> QED  BY <1>8, <2>2, <2>3, <2>4, <2>5
<1> QED  BY <1>7, <1>8 DEF FileTypeOK, FileType

LEMMA OnlyPlace ==
  ASSUME NEW columns, NEW name, NEW default, NEW p \in Nat, p \in DOMAIN columns, columns[p] = name,
         \A i \in DOMAIN columns : columns[i] = name => i = p
  PROVE  ColumnOf(columns, name, default) = p
<1>1. {i \in DOMAIN columns : columns[i] = name} = {p}
  OBVIOUS
<1>2. Max({p}) = p
  BY DEF Max
<1> QED  BY <1>1, <1>2 DEF ColumnOf

\* The row of a frame is read back as the frame, unless it has no data.
LEMMA RawRow ==
  ASSUME NEW m \in Frames
  PROVE  /\ CsvKind(RawColumns) = "raw"
         /\ CsvReads("raw", RawColumns, CsvRow("raw", RawColumns, m)) <=> m.dlc # 0
         /\ m.dlc # 0 => CsvRecord("raw", RawColumns, CsvRow("raw", RawColumns, m)) = m
<1> DEFINE row == CsvRow("raw", RawColumns, m)
           head == <<Dash, 1, m.id, "Rx", m.dlc, m.dlc>>
<1>1. /\ DOMAIN RawColumns = 1 .. 7 /\ RawColumns[3] = "ID" /\ RawColumns[5] = "DLC" /\ RawColumns[7] = "Data"
      /\ \A i \in 1 .. 7 : /\ RawColumns[i] = "ID" => i = 3
                           /\ RawColumns[i] = "DLC" => i = 5
                           /\ RawColumns[i] = "Data" => i = 7
  BY DEF RawColumns
<1>2. ColumnOf(RawColumns, "ID", 2) = 3
  BY <1>1, OnlyPlace
<1>3. ColumnOf(RawColumns, "DLC", 4) = 5
  BY <1>1, OnlyPlace
<1>4. ColumnOf(RawColumns, "Data", 6) = 7
  BY <1>1, OnlyPlace
<1>5. row = head \o (IF m.dlc = 0 THEN <<>> ELSE <<m.data>>)
  BY Zenon DEF CsvRow
<1> DEFINE A == {Dash, 1, m.id, "Rx", m.dlc, m.data}
<1>6. head \in Seq(A) /\ Len(head) = 6 /\ head[3] = m.id /\ head[5] = m.dlc
  OBVIOUS
<1>7. <<m.data>> \in Seq(A) /\ Len(<<m.data>>) = 1 /\ <<m.data>>[1] = m.data
      /\ <<>> \in Seq(A) /\ Len(<<>>) = 0
  OBVIOUS
<1> HIDE DEF head, A, row
<1>10. CsvKind(RawColumns) = "raw"
  BY <1>1 DEF CsvKind, Range
<1>11. CsvReads("raw", RawColumns, row) <=> Len(row) >= 7
  BY <1>4 DEF CsvReads
<1>8. CASE m.dlc = 0
  <2>1. row = head \o <<>>
    BY <1>5, <1>8
  <2>2. Len(row) = 6
    BY <1>6, <1>7, <2>1, ConcatProperties
  <2>3. ~ CsvReads("raw", RawColumns, row)
    BY <1>11, <2>2
  <2> QED  BY <1>8, <1>10, <2>3 DEF row
<1>9. CASE m.dlc # 0
  <2> DEFINE last == <<m.data>>
  <2>a. row = head \o last
    BY <1>5, <1>9
  <2>b. last \in Seq(A) /\ Len(last) = 1 /\ last[1] = m.data
    BY <1>7
  <2> HIDE DEF last
  <2>1. /\ Len(row) = 7
        /\ \A i \in 1 .. 7 : row[i] = IF i <= 6 THEN head[i] ELSE last[i - 6]
    <3>1. /\ Len(head \o last) = Len(head) + Len(last)
          /\ \A i \in 1 .. Len(head) + Len(last) :
                (head \o last)[i] = IF i <= Len(head) THEN head[i] ELSE last[i - Len(head)]
      BY <1>6, <2>b, ConcatProperties
    <3>2. Len(head) + Len(last) = 7
      BY <1>6, <2>b
    <3> QED  BY <1>6, <2>a, <3>1, <3>2
  <2>2. row[3] = m.id /\ row[5] = m.dlc /\ row[7] = m.data
    BY <1>6, <2>b, <2>1
  <2>3. m.id % IdRange = m.id /\ m = [id |-> m.id, dlc |-> m.dlc, data |-> m.data]
    BY SessionFileAssumption, SmallRemainder
  <2>4. CsvRecord("raw", RawColumns, row) = [id |-> m.id, dlc |-> m.dlc, data |-> m.data]
    BY <1>2, <1>3, <1>4, <2>2, <2>3 DEF CsvRecord
  <2> QED  BY <1>9, <1>10, <1>11, <2>1, <2>3, <2>4 DEF row
<1> QED  BY <1>8, <1>9

\* The row of a decoded message is read back with its values rounded, unless a column
\* is named "ID".
LEMMA DbcRow ==
  ASSUME NEW schema \in Schemas, NEW m, m.id \in 0 .. IdRange - 1,
         DOMAIN m.values \subseteq SignalsOf(schema),
         \A n \in DOMAIN m.values : m.values[n] \in Nat
  PROVE  LET columns == <<"Time", "MsgID">> \o ColumnsOf(schema)
             row == CsvRow("dbc", columns, m)
         IN  /\ "ID" \in Range(ColumnsOf(schema)) =>
                  CsvKind(columns) = "raw" /\ ~ CsvReads("raw", columns, row)
             /\ "ID" \notin Range(ColumnsOf(schema)) =>
                  /\ CsvKind(columns) = "dbc" /\ CsvReads("dbc", columns, row)
                  /\ CsvRecord("dbc", columns, row) =
                       [id |-> m.id, values |-> [n \in DOMAIN m.values |-> Printed(m.values[n])]]
<1> DEFINE head == <<"Time", "MsgID">>
           names == ColumnsOf(schema)
           columns == head \o names
           N == Len(columns)
           row == CsvRow("dbc", columns, m)
<1>1. /\ names \in Seq(STRING) /\ Range(names) = SignalsOf(schema)
      /\ "ID" \in Range(names) => Len(names) <= 4 /\ "Data" \notin Range(names)
  BY ColumnsHave, ColumnsAssumption
<1> DEFINE A == STRING \union {"Time", "MsgID"}
<1>2. head \in Seq(A) /\ Len(head) = 2 /\ head[1] = "Time" /\ head[2] = "MsgID"
  OBVIOUS
<1>3. \A n \in SignalsOf(schema) : n # "MsgID"
  <2> SUFFICES ASSUME NEW n \in SignalsOf(schema) PROVE n # "MsgID"
    OBVIOUS
  <2>1. PICK g \in DOMAIN schema : n \in Range(schema[g].signals)
    BY DEF SignalsOf
  <2>2. "MsgID" \notin Range(schema[g].signals)
    BY <2>1, SessionFileAssumption
  <2> QED  BY <2>1, <2>2
<1> HIDE DEF head, names
<1>a. names \in Seq(A)
  BY <1>1
<1> HIDE DEF A
<1>4. /\ columns \in Seq(A) /\ N = 2 + Len(names) /\ DOMAIN columns = 1 .. N
      /\ Len(names) \in Nat /\ N \in Nat
      /\ \A i \in 1 .. N : columns[i] = IF i <= 2 THEN head[i] ELSE names[i - 2]
  <2>1. columns = head \o names /\ N = Len(columns)
    OBVIOUS
  <2> HIDE DEF columns, N
  <2>2. columns \in Seq(A) /\ Len(columns) = Len(head) + Len(names)
        /\ \A i \in 1 .. Len(head) + Len(names) :
              columns[i] = IF i <= Len(head) THEN head[i] ELSE names[i - Len(head)]
    BY <1>a, <1>2, <2>1, ConcatProperties
  <2>3. Len(names) \in Nat /\ DOMAIN columns = 1 .. Len(columns)
    BY <1>1, <2>2
  <2> QED  BY <1>2, <2>1, <2>2, <2>3
<1> HIDE DEF columns, N
<1>5. Range(columns) = Range(head) \union Range(names) /\ Range(head) = {"Time", "MsgID"}
  <2>1. Range(head) = {"Time", "MsgID"}
    <3>1. Range(head) = {head[i] : i \in 1 .. 2}
      BY <1>2, RangeEquality
    <3>2. 1 \in 1 .. 2 /\ 2 \in 1 .. 2 /\ \A i \in 1 .. 2 : i = 1 \/ i = 2
      OBVIOUS
    <3> QED  BY <1>2, <3>1, <3>2
  <2> QED  BY <1>a, <1>2, <2>1, RangeConcatenation DEF columns
<1>6. columns[1] = "Time" /\ columns[2] = "MsgID"
      /\ \A i \in 3 .. N : columns[i] \in SignalsOf(schema)
  <2>1. 1 \in 1 .. N /\ 2 \in 1 .. N
    BY <1>4
  <2>2. columns[1] = "Time" /\ columns[2] = "MsgID"
    BY <1>2, <1>4, <2>1
  <2>3. ASSUME NEW i \in 3 .. N PROVE columns[i] \in SignalsOf(schema)
    <3>1. i \in 1 .. N /\ ~ (i <= 2) /\ i - 2 \in 1 .. Len(names)
      BY <1>4
    <3>2. names[i - 2] \in Range(names)
      BY <1>1, <3>1 DEF Range
    <3> QED  BY <1>1, <1>4, <3>1, <3>2
  <2> QED  BY <2>2, <2>3
<1>7. "ID" \in Range(names) => \A i \in 1 .. N : columns[i] # "Data"
  <2> SUFFICES ASSUME "ID" \in Range(names), NEW i \in 1 .. N PROVE columns[i] # "Data"
    OBVIOUS
  <2>1. i = 1 \/ i = 2 \/ i \in 3 .. N
    BY <1>4
  <2> QED  BY <1>1, <1>6, <2>1
<1>8. row = [i \in 1 .. N |->
               IF i = 1 THEN Dash
               ELSE IF columns[i] = "MsgID" THEN m.id
               ELSE IF columns[i] \in DOMAIN m.values THEN Printed(m.values[columns[i]])
               ELSE Dash]
  BY <1>4, Zenon DEF CsvRow
<1> HIDE DEF row
<1>9. DOMAIN row = 1 .. N /\ Len(row) = N /\ row # <<>> /\ row[2] = m.id
      /\ \A i \in 3 .. N : row[i] = IF columns[i] \in DOMAIN m.values THEN Printed(m.values[columns[i]])
                                     ELSE Dash
  <2>1. DOMAIN row = 1 .. N /\ Len(row) = N /\ 1 \in 1 .. N /\ 2 \in 1 .. N
    BY <1>4, <1>8
  <2>2. row # <<>>
    BY <2>1
  <2>3. \A i \in 3 .. N : columns[i] # "MsgID" /\ i \in 1 .. N /\ i # 1
    BY <1>3, <1>6, <1>4
  <2> QED  BY <1>6, <1>8, <2>1, <2>2, <2>3
<1>10. CASE "ID" \in Range(names)
  <2>1. CsvKind(columns) = "raw"
    BY <1>5, <1>10 DEF CsvKind
  <2>2. ColumnOf(columns, "Data", 6) = 7
    <3>1. {i \in DOMAIN columns : columns[i] = "Data"} = {}
      BY <1>4, <1>7, <1>10
    <3> QED  BY <3>1 DEF ColumnOf
  <2>3. ~ (Len(row) >= 7)
    BY <1>1, <1>4, <1>9, <1>10
  <2>4. ~ CsvReads("raw", columns, row)
    BY <2>2, <2>3 DEF CsvReads
  <2> QED  BY <1>10, <2>1, <2>4 DEF row, columns, head, names
<1>11. CASE "ID" \notin Range(names)
  <2>1. CsvKind(columns) = "dbc"
    BY <1>5, <1>11 DEF CsvKind
  <2>2. CsvReads("dbc", columns, row)
    BY <1>9 DEF CsvReads
  <2>3. ColumnOf(columns, "MsgID", 1) = 2
    <3>1. 2 \in Nat /\ 2 \in DOMAIN columns /\ \A i \in DOMAIN columns : columns[i] = "MsgID" => i = 2
      <4>1. \A i \in 1 .. N : i = 1 \/ i = 2 \/ i \in 3 .. N
        BY <1>4
      <4> QED  BY <1>3, <1>4, <1>6, <4>1
    <3> QED  BY <1>6, <3>1, OnlyPlace
  <2>4. m.id % IdRange = m.id
    BY SessionFileAssumption, SmallRemainder
  <2> DEFINE signal == {i \in 2 .. Len(columns) : columns[i] # "MsgID" /\ row[i] # Dash}
  <2>5. signal = {i \in 3 .. N : columns[i] \in DOMAIN m.values}
    <3>1. \A i \in 2 .. N : i = 2 \/ i \in 3 .. N
      BY <1>4
    <3>2. \A i \in 3 .. N : i \in 2 .. N
      BY <1>4
    <3>3. \A v \in Nat : Printed(v) # Dash
      <4> SUFFICES ASSUME NEW v \in Nat PROVE Printed(v) \in Nat
        BY SessionFileAssumption
      <4> QED  BY DEF Printed
    <3>4. \A i \in 3 .. N : row[i] # Dash <=> columns[i] \in DOMAIN m.values
      BY <1>9, <3>3
    <3> QED  BY <1>3, <1>6, <3>1, <3>2, <3>4 DEF N
  <2>6. {columns[i] : i \in signal} = DOMAIN m.values
    <3>1. ASSUME NEW n \in DOMAIN m.values PROVE \E i \in 3 .. N : columns[i] = n
      <4>1. n \in Range(names)
        BY <1>1
      <4>2. PICK j \in 1 .. Len(names) : names[j] = n
        <5>1. Range(names) = {names[i] : i \in 1 .. Len(names)}
          BY <1>1, RangeEquality
        <5> QED  BY <4>1, <5>1
      <4>3. PICK i \in 3 .. N : i \in 1 .. N /\ ~ (i <= 2) /\ i - 2 = j
        <5>1. j + 2 \in 3 .. N /\ j + 2 \in 1 .. N /\ ~ (j + 2 <= 2) /\ (j + 2) - 2 = j
          BY <1>4
        <5> QED  BY <5>1
      <4>4. columns[i] = names[i - 2]
        BY <1>4, <4>3
      <4> QED  BY <4>2, <4>3, <4>4
    <3> HIDE DEF signal
    <3> QED  BY <2>5, <3>1
  <2>7. ASSUME NEW n \in DOMAIN m.values
        PROVE  row[CHOOSE i \in signal : columns[i] = n] = Printed(m.values[n])
    <3> HIDE DEF signal
    <3>1. \E i \in signal : columns[i] = n
      BY <2>6
    <3>2. PICK i : i \in signal /\ columns[i] = n /\ i = CHOOSE j \in signal : columns[j] = n
      BY <3>1
    <3> QED  BY <1>9, <2>5, <3>2
  <2>8. CsvRecord("dbc", columns, row) =
          [id |-> row[2] % IdRange,
           values |-> [n \in {columns[i] : i \in signal} |-> row[CHOOSE i \in signal : columns[i] = n]]]
    BY <2>3 DEF CsvRecord
  <2> HIDE DEF signal
  <2>9. [n \in {columns[i] : i \in signal} |-> row[CHOOSE i \in signal : columns[i] = n]]
          = [n \in DOMAIN m.values |-> Printed(m.values[n])]
    BY <2>6, <2>7
  <2>10. CsvRecord("dbc", columns, row) =
           [id |-> m.id, values |-> [n \in DOMAIN m.values |-> Printed(m.values[n])]]
    BY <1>9, <2>4, <2>8, <2>9
  <2> QED  BY <1>11, <2>1, <2>2, <2>10 DEF row, columns, head, names
<1> QED  BY <1>10, <1>11 DEF row, columns, head, names

-----------------------------------------------------------------------------
(***************************************************************************)
(* The export and the replay.                                              *)
(***************************************************************************)

\* From the length of the block on the cells are what they will be.
Settled == writer.step \in {"counts", "closed", "crashed"} /\ Finished(file, Recorded)

\* The messages a replay of a CSV file should send, its rows, and what it refuses.
DueOfCsv == [i \in DOMAIN Recorded |-> Rounded(Recorded[i])]

RowsOf == [i \in DOMAIN Recorded |-> CsvRow(file.kind, CsvColumns(file), Recorded[i])]

Refused(m) ==
  \/ file.kind = "raw" /\ m.dlc = 0
  \/ file.kind = "dbc" /\ "ID" \in Range(ColumnsOf(file.schema))

LEMMA RowReads ==
  ASSUME FileTypeOK, NEW i \in 1 .. Len(Recorded)
  PROVE  LET kind == CsvKind(CsvColumns(file))
         IN  /\ CsvReads(kind, CsvColumns(file), RowsOf[i]) <=> ~ Refused(Recorded[i])
             /\ ~ Refused(Recorded[i]) => CsvRecord(kind, CsvColumns(file), RowsOf[i]) = DueOfCsv[i]
<1>1. DOMAIN Recorded = 1 .. Len(Recorded)
  BY RecordedType
<1>2. RowsOf[i] = CsvRow(file.kind, CsvColumns(file), Recorded[i]) /\ DueOfCsv[i] = Rounded(Recorded[i])
  BY <1>1 DEF RowsOf, DueOfCsv
<1>3. PICK m : m = Recorded[i]
  OBVIOUS
<1>4. CASE file.kind = "raw"
  <2>1. m \in Frames /\ CsvColumns(file) = RawColumns /\ Rounded(m) = m
    BY <1>3, <1>4, RecordedIs DEF CsvColumns, Rounded
  <2>2. /\ CsvKind(RawColumns) = "raw"
        /\ CsvReads("raw", RawColumns, CsvRow("raw", RawColumns, m)) <=> m.dlc # 0
        /\ m.dlc # 0 => CsvRecord("raw", RawColumns, CsvRow("raw", RawColumns, m)) = m
    BY <2>1, RawRow
  <2>3. Refused(m) <=> m.dlc = 0
    BY <1>4 DEF Refused
  <2> QED  BY <1>2, <1>3, <1>4, <2>1, <2>2, <2>3
<1>5. CASE file.kind = "dbc"
  <2>1. /\ m = [id |-> m.id, values |-> m.values] /\ m.id \in 0 .. IdRange - 1
        /\ DOMAIN m.values \subseteq SignalsOf(file.schema)
        /\ \A n \in DOMAIN m.values : m.values[n] \in Nat
    BY <1>3, <1>5, RecordedIs
  <2>2. file.schema \in Schemas
    BY <1>5 DEF FileTypeOK, FileType
  <2> DEFINE columns == <<"Time", "MsgID">> \o ColumnsOf(file.schema)
             row == CsvRow("dbc", columns, m)
             values == [n \in DOMAIN m.values |-> Printed(m.values[n])]
  <2>3. CsvColumns(file) = columns
    BY <1>5 DEF CsvColumns
  <2>4. /\ "ID" \in Range(ColumnsOf(file.schema)) =>
             CsvKind(columns) = "raw" /\ ~ CsvReads("raw", columns, row)
        /\ "ID" \notin Range(ColumnsOf(file.schema)) =>
             /\ CsvKind(columns) = "dbc" /\ CsvReads("dbc", columns, row)
             /\ CsvRecord("dbc", columns, row) = [id |-> m.id, values |-> values]
    BY <2>1, <2>2, DbcRow
  <2>5. Refused(m) <=> "ID" \in Range(ColumnsOf(file.schema))
    BY <1>5 DEF Refused
  <2>6. Rounded(m) = [id |-> m.id, values |-> values]
    <3>1. PICK x, y : m = [id |-> x, values |-> y]
      BY <2>1
    <3>2. PICK z : z = Rounded(m)
      BY Zenon
    <3>3. z = [m EXCEPT !.values = values]
      BY <1>5, <3>2 DEF Rounded
    <3> HIDE DEF values
    <3>4. z = [id |-> m.id, values |-> values]
      BY <3>1, <3>3
    <3> QED  BY <3>2, <3>4
  <2> HIDE DEF columns, row, values
  <2>7. RowsOf[i] = row /\ CsvColumns(file) = columns /\ Recorded[i] = m
        /\ DueOfCsv[i] = [id |-> m.id, values |-> values]
    BY <1>2, <1>3, <1>5, <2>3, <2>6 DEF row
  <2> QED  BY <2>4, <2>5, <2>7
<1> QED  BY <1>4, <1>5 DEF FileTypeOK, FileType

\* A replay of the rows ends before the first that is refused.
LEMMA EndsAtRefused ==
  ASSUME FileTypeOK, NEW c \in 0 .. Len(Recorded), \A j \in 1 .. c : ~ Refused(Recorded[j]),
         c < Len(Recorded) => Refused(Recorded[c + 1])
  PROVE  UntilRefused(DueOfCsv) = SubSeq(DueOfCsv, 1, c)
<1> DEFINE N == Len(Recorded)
           due == DueOfCsv
           refused == {j \in DOMAIN due : file.kind = "raw" /\ due[j].dlc = 0}
<1>1. N \in Nat /\ DOMAIN Recorded = 1 .. N /\ DOMAIN due = 1 .. N /\ Len(due) = N
  BY RecordedType DEF DueOfCsv
<1>2. UntilRefused(due) =
        IF file.kind = "dbc" /\ "ID" \in Range(ColumnsOf(file.schema)) THEN <<>>
        ELSE SubSeq(due, 1, IF refused = {} THEN Len(due) ELSE Min(refused) - 1)
  BY Zenon DEF UntilRefused
<1>3. CASE file.kind = "dbc" /\ "ID" \in Range(ColumnsOf(file.schema))
  <2>1. c = 0
    <3>1. c >= 1 => Refused(Recorded[c])
      BY <1>3 DEF Refused
    <3>2. c >= 1 => c \in 1 .. c
      OBVIOUS
    <3> QED  BY <3>1, <3>2
  <2>2. SubSeq(due, 1, 0) = <<>>
    BY SubSeqEmpty
  <2> QED  BY <1>2, <1>3, <2>1, <2>2
<1>4. CASE ~ (file.kind = "dbc" /\ "ID" \in Range(ColumnsOf(file.schema)))
  <2>1. \A j \in 1 .. N : Refused(Recorded[j]) <=> j \in refused
    <3> TAKE j \in 1 .. N
    <3>1. file.kind = "raw" => due[j] = Recorded[j]
      BY <1>1 DEF DueOfCsv, Rounded
    <3> QED  BY <1>1, <1>4, <3>1 DEF Refused
  <2> HIDE DEF refused, due, N
  <2>2. \A j \in refused : j \in 1 .. N
    BY <1>1 DEF refused
  <2>3. c \in 0 .. N /\ \A j \in 1 .. c : j \in 1 .. N /\ j \notin refused
    BY <1>1, <2>1 DEF N
  <2>4. CASE c = N
    <3>1. refused = {}
      BY <1>1, <2>2, <2>3, <2>4
    <3> QED  BY <1>1, <1>2, <1>4, <2>4, <3>1 DEF due
  <2>5. CASE c < N
    <3>1. c + 1 \in refused
      <4>1. c + 1 \in 1 .. N /\ Refused(Recorded[c + 1])
        BY <1>1, <2>3, <2>5 DEF N
      <4> QED  BY <2>1, <4>1
    <3>2. \A j \in refused : j \in Nat /\ j >= c + 1
      BY <1>1, <2>2, <2>3
    <3>3. Min(refused) = c + 1
      <4>1. \A x \in refused : (\A y \in refused : x <= y) => x = c + 1
        BY <2>3, <3>1, <3>2
      <4>2. \A y \in refused : c + 1 <= y
        BY <2>3, <3>2
      <4> QED  BY <3>1, <4>1, <4>2 DEF Min
    <3>4. refused # {} /\ Min(refused) - 1 = c
      BY <2>3, <3>1, <3>3
    <3> QED  BY <1>2, <1>4, <3>4 DEF due
  <2> QED  BY <1>1, <2>3, <2>4, <2>5
<1> QED  BY <1>3, <1>4

\* An export is a copy of nothing or of all.
ExportInv ==
  /\ export.format \in {"none", "mf4", "csv"}
  /\ export.format # "none" => writer.step \notin {"off", "header"}
  /\ export.format = "mf4" =>
       /\ FileType(export.file)
       /\ export.file.length = 0 \/ (Settled /\ Finished(export.file, Recorded))
  /\ export.format = "csv" =>
       /\ export.columns = CsvColumns(file)
       /\ export.rows = <<>> \/ (Settled /\ export.rows = RowsOf)

\* What a reader of the given format should yield.
Due(format) == IF format = "csv" THEN DueOfCsv ELSE Recorded

LastOf(format) == IF format = "csv" THEN UntilRefused(DueOfCsv) ELSE Recorded

\* The reader r of a replay stands before what has not been sent.
Reading(source, r) ==
  /\ r.format = "mf4" => Reads(FileOf(source), r.offsets, Recorded)
  /\ r.format = "csv" =>
       /\ export.rows = RowsOf /\ export.columns = CsvColumns(file)
       /\ r.kind = CsvKind(CsvColumns(file))
       /\ \A j \in 1 .. r.cursor : ~ Refused(Recorded[j])

ReaderShape(r) ==
  r = [format |-> r.format, kind |-> r.kind, offsets |-> r.offsets, count |-> r.count, cursor |-> r.cursor]

\* A replay has opened an empty file, or plays all that was recorded.
Playing(source, r, out, ended) ==
  /\ ReaderShape(r)
  /\ source \in {"session", "export"}
  /\ r.format \in {"mf4", "csv"}
  /\ r.format = "csv" => source = "export"
  /\ ~ ended /\ source = "export" => r.format = export.format
  /\ \/ r.count = 0 /\ r.cursor = 0 /\ out = <<>>
     \/ /\ Settled /\ r.count = Len(Recorded)
        /\ ~ ended => /\ r.cursor \in 0 .. Len(Recorded)
                      /\ out = SubSeq(Due(r.format), 1, r.cursor)
                      /\ Reading(source, r)
        /\ ended => /\ out \in {<<>>, LastOf(r.format)}
                    /\ \E c \in 0 .. Len(Recorded) : out = SubSeq(Due(r.format), 1, c)

PlayerInv ==
  /\ player = [source |-> player.source, reader |-> player.reader, out |-> player.out,
               ended |-> player.ended]
  /\ player.ended \in BOOLEAN
  /\ player.source = "none" => player.ended
  /\ player.source # "none" =>
       Playing(player.source, player.reader, player.out, player.ended)

\* The kind of a file is settled when its header is there, its cells when the block
\* has its length.
LEMMA KindStays ==
  ASSUME FileTypeOK, [FileNext]_fileVars, writer.step \notin {"off", "header"}
  PROVE  /\ file'.kind = file.kind /\ file'.schema = file.schema
         /\ writer'.step \notin {"off", "header"}
         /\ writer.step \in {"counts", "closed", "crashed"} =>
              /\ writer'.step \in {"counts", "closed", "crashed"} /\ written' = written
              /\ file'.cells = file.cells /\ file'.length = file.length
<1>1. PICK h, k, s, c, l, n : file = [header |-> h, kind |-> k, schema |-> s, cells |-> c,
                                      length |-> l, counts |-> n]
  BY DEF FileTypeOK
<1>2. PICK t, b, m, e, r : writer = [step |-> t, buffer |-> b, stream |-> m, bytes |-> e, counts |-> r]
  BY DEF FileTypeOK
<1>3. CASE UNCHANGED <<file, writer, written>>
  BY <1>3
<1>4. CASE PatchCounts
  <2>1. file' = [header |-> h, kind |-> k, schema |-> s, cells |-> c, length |-> l, counts |-> r]
    BY <1>1, <1>2, <1>4 DEF PatchCounts
  <2>2. writer' = [step |-> "closed", buffer |-> b, stream |-> m, bytes |-> e, counts |-> r]
    BY <1>2, <1>4 DEF PatchCounts
  <2> QED  BY <1>1, <1>4, <2>1, <2>2 DEF PatchCounts
<1>5. CASE PatchLength
  <2>1. file' = [header |-> h, kind |-> k, schema |-> s, cells |-> c, length |-> e, counts |-> n]
    BY <1>1, <1>2, <1>5 DEF PatchLength
  <2>2. writer' = [step |-> "counts", buffer |-> b, stream |-> m, bytes |-> e, counts |-> r]
    BY <1>2, <1>5 DEF PatchLength
  <2> QED  BY <1>1, <1>5, <2>1, <2>2 DEF PatchLength
<1>6. CASE CloseFlush
  <2>1. PICK x : file' = [header |-> h, kind |-> k, schema |-> s, cells |-> x, length |-> l, counts |-> n]
    BY <1>1, <1>6 DEF CloseFlush
  <2>2. writer' = [step |-> "length", buffer |-> <<>>, stream |-> <<>>, bytes |-> e, counts |-> r]
    BY <1>2, <1>6 DEF CloseFlush
  <2> QED  BY <1>1, <1>6, <2>1, <2>2 DEF CloseFlush
<1>7. CASE \E x \in 1 .. Len(writer.stream) : Spill(x)
  <2>1. PICK x : Spill(x)
    BY <1>7
  <2>2. PICK y : file' = [header |-> h, kind |-> k, schema |-> s, cells |-> y, length |-> l, counts |-> n]
    BY <1>1, <2>1 DEF Spill
  <2>3. PICK z : writer' = [step |-> t, buffer |-> b, stream |-> z, bytes |-> e, counts |-> r]
    BY <1>2, <2>1 DEF Spill
  <2> QED  BY <1>1, <1>2, <2>1, <2>2, <2>3 DEF Spill
<1>8. CASE Flush \/ \E x \in Messages(file.kind) : Write(x)
  <2>1. writer.step = "write" /\ file' = file
    BY <1>8 DEF Flush, Write
  <2>2. writer'.step = "write"
    <3>1. CASE Flush
      BY <1>2, <2>1, <3>1 DEF Flush, Flushed
    <3>2. CASE \E x \in Messages(file.kind) : Write(x)
      <4>1. PICK x : Write(x)
        BY <3>2
      <4>2. PICK w : /\ w = [writer EXCEPT !.buffer = @ \o Record(file.kind, file.schema, x),
                                !.bytes = @ + Len(Record(file.kind, file.schema, x)),
                                !.counts = Counted(file.kind, file.schema, x, @)]
                     /\ writer' = w \/ writer' = Flushed(w)
        BY <4>1, Zenon DEF Write
      <4>3. PICK y, u, v : w = [step |-> t, buffer |-> y, stream |-> m, bytes |-> u, counts |-> v]
        BY <1>2, <4>2
      <4>4. Flushed(w).step = t
        BY <4>3 DEF Flushed
      <4> QED  BY <1>2, <2>1, <4>2, <4>3, <4>4
    <3> QED  BY <1>8, <3>1, <3>2
  <2> QED  BY <2>1, <2>2
<1>9. CASE Crash
  <2>1. writer'.step = "crashed" /\ file' = file /\ written' = written
    BY <1>9 DEF Crash, NoWriter
  <2> QED  BY <2>1
<1>10. CASE FlushHeader \/ \E kind \in {"raw", "dbc"}, schema \in Schemas \union {<<>>} : Create(kind, schema)
  BY <1>10 DEF FlushHeader, Create
<1>11. CASE \/ OpenDetail \/ NextPage \/ PrevPage \/ Back
            \/ ExportMdf4 \/ ExportCsv
            \/ \E source \in {"session", "export"} : Play(source)
            \/ PlayRecord \/ PlayFails \/ PlayEnds \/ PlayStops
            \/ UNCHANGED fileVars
  <2>1. UNCHANGED <<file, writer, written>>
    BY <1>11 DEF OpenDetail, NextPage, PrevPage, Back, ExportMdf4, ExportCsv, Play,
                 PlayRecord, PlayFails, PlayEnds, PlayStops, fileVars
  <2> QED  BY <1>3, <2>1
<1> QED  BY <1>4, <1>5, <1>6, <1>7, <1>8, <1>9, <1>10, <1>11 DEF FileNext

LEMMA SettledStays ==
  ASSUME FileTypeOK, [FileNext]_fileVars, Settled
  PROVE  /\ Settled' /\ Recorded' = Recorded /\ DueOfCsv' = DueOfCsv /\ RowsOf' = RowsOf
         /\ CsvColumns(file)' = CsvColumns(file)
         /\ file'.kind = file.kind /\ file'.schema = file.schema /\ file'.cells = file.cells
<1>1. /\ file'.kind = file.kind /\ file'.schema = file.schema /\ written' = written
      /\ writer'.step \in {"counts", "closed", "crashed"}
      /\ file'.cells = file.cells /\ file'.length = file.length
  BY KindStays DEF Settled
<1>2. Recorded' = Recorded
  BY <1>1, RecordedStays
<1>3. Settled'
  BY <1>1, <1>2 DEF Settled, Finished
<1>4. CsvColumns(file)' = CsvColumns(file)
  BY <1>1 DEF CsvColumns
<1>5. RowsOf' = RowsOf
  BY <1>1, <1>2, <1>4 DEF RowsOf
<1>6. DueOfCsv' = DueOfCsv
  BY <1>1, <1>2 DEF DueOfCsv, Rounded
<1> QED  BY <1>1, <1>2, <1>3, <1>4, <1>5, <1>6

\* What a listed session has on the disk.
LEMMA ListedFile ==
  ASSUME FileTypeOK, WriterInv, Listed
  PROVE  /\ writer.step \notin {"off", "header"}
         /\ file.length = 0 \/ Settled
BY DEF Listed, FileTypeOK, WriterInv, Steps, Settled

\* A loop over the whole file.
LEMMA ReadThrough ==
  ASSUME FileTypeOK, Finished(file, Recorded)
  PROVE  /\ Reads(file, Mdf4Offsets(file), Recorded)
         /\ Len(Mdf4Offsets(file)) = Len(Recorded)
         /\ Mdf4Slice(file, Mdf4Offsets(file), 0, Len(Mdf4Offsets(file))) = Recorded
<1> DEFINE R == Recorded
           reader == Mdf4Offsets(file)
           n == Len(reader)
<1>1. Reads(file, reader, R) /\ Len(R) \in Nat /\ R \in Seq(Range(R))
  BY FinishedFile, RecordedType DEF Finished, FileTypeOK, FileType, Records
<1>2. n = Len(R) /\ 0 \in Nat /\ 0 <= Len(R) /\ n \in Nat
  BY <1>1 DEF Reads
<1> HIDE DEF R, reader, n
<1>3. SliceIs(file, reader, R, 0, n)
  BY <1>1, <1>2, SliceOf
<1>4. Min({0 + n, Len(R)}) = Len(R) /\ 0 + 1 = 1
  BY <1>2 DEF Min
<1>5. SubSeq(R, 1, Len(R)) = R
  BY <1>1, SubSeqFull
<1> QED  BY <1>1, <1>2, <1>3, <1>4, <1>5 DEF SliceIs, R, reader, n

LEMMA ReadNothing ==
  ASSUME FileTypeOK, file.length = 0
  PROVE  Mdf4Slice(file, Mdf4Offsets(file), 0, Len(Mdf4Offsets(file))) = <<>>
<1>1. Readable = <<>> /\ Mdf4Offsets(file) = <<>>
  BY ReadsNone
<1>2. Len(<<>>) = 0
  OBVIOUS
<1> QED  BY <1>1, <1>2 DEF Readable

LEMMA ExportFrame ==
  ASSUME FileTypeOK, [FileNext]_fileVars, ExportInv, export' = export
  PROVE  ExportInv'
<1>1. CASE export.format = "none"
  BY <1>1 DEF ExportInv
<1>2. CASE export.format # "none"
  <2>1. /\ file'.kind = file.kind /\ file'.schema = file.schema
        /\ writer'.step \notin {"off", "header"}
    BY <1>2, KindStays DEF ExportInv
  <2>2. CsvColumns(file)' = CsvColumns(file)
    BY <2>1 DEF CsvColumns
  <2>3. Settled => Settled' /\ Recorded' = Recorded /\ RowsOf' = RowsOf
    BY SettledStays
  <2>4. FileType(export.file) => FileType(export.file)'
    BY DEF FileType
  <2>5. Settled /\ Finished(export.file, Recorded) => Finished(export.file, Recorded)'
    BY <2>3
  <2> QED  BY <2>1, <2>2, <2>3, <2>4, <2>5 DEF ExportInv
<1> QED  BY <1>1, <1>2

LEMMA CopyKeeps ==
  ASSUME FileTypeOK, WriterInv, ExportMdf4
  PROVE  ExportInv'
<1>1. export' = [NoExport EXCEPT !.format = "mf4", !.kind = file.kind, !.file = file]
      /\ UNCHANGED <<file, writer, written>> /\ Listed
  BY DEF ExportMdf4, CanExport
<1>2. export'.format = "mf4" /\ export'.file = file
  BY <1>1 DEF NoExport
<1>3. Recorded' = Recorded /\ Settled' = Settled
  BY <1>1, RecordedStays DEF Settled
<1>4. writer.step \notin {"off", "header"} /\ (file.length = 0 \/ Settled)
  BY <1>1, ListedFile
<1>5. FileType(export.file)'
  BY <1>2 DEF FileTypeOK, FileType
<1>6. Settled => Finished(export.file, Recorded)'
  BY <1>2, <1>3 DEF Settled
<1> QED  BY <1>1, <1>2, <1>3, <1>4, <1>5, <1>6 DEF ExportInv

LEMMA CsvKeeps ==
  ASSUME FileTypeOK, WriterInv, ExportCsv
  PROVE  ExportInv'
<1> DEFINE offsets == Mdf4Offsets(file)
           records == Mdf4Slice(file, offsets, 0, Len(offsets))
           columns == CsvColumns(file)
           rows == [i \in DOMAIN records |-> CsvRow(file.kind, columns, records[i])]
<1>1. export' = [NoExport EXCEPT !.format = "csv", !.kind = file.kind, !.columns = columns, !.rows = rows]
      /\ UNCHANGED <<file, writer, written>> /\ Listed
  BY Zenon DEF ExportCsv, CanExport
<1>2. ASSUME file.length = 0 PROVE rows = <<>>
  <2>1. records = <<>>
    BY <1>2, ReadNothing
  <2> HIDE DEF records, columns
  <2>2. DOMAIN records = {}
    BY <2>1
  <2>3. rows \in Seq({}) /\ Len(rows) = 0
    <3>1. rows = [i \in {} |-> CsvRow(file.kind, columns, records[i])] /\ {} = 1 .. 0
      BY <2>2
    <3> HIDE DEF rows
    <3> QED  BY <3>1
  <2> HIDE DEF rows
  <2> QED  BY <2>3
<1>3. ASSUME Settled PROVE rows = RowsOf
  <2>1. records = Recorded
    BY <1>3, ReadThrough DEF Settled
  <2> HIDE DEF records
  <2>2. rows = RowsOf
    BY <2>1 DEF RowsOf
  <2> QED  BY <2>2
<1>4. writer.step \notin {"off", "header"} /\ (file.length = 0 \/ Settled)
  BY <1>1, ListedFile
<1>5. rows = <<>> \/ (Settled /\ rows = RowsOf)
  BY <1>2, <1>3, <1>4
<1> HIDE DEF rows
<1>6. export'.format = "csv" /\ export'.columns = columns /\ export'.rows = rows
  <2> HIDE DEF columns
  <2> QED  BY <1>1 DEF NoExport
<1>7. Recorded' = Recorded /\ Settled' = Settled
  BY <1>1, RecordedStays DEF Settled
<1>8. RowsOf' = RowsOf /\ CsvColumns(file)' = columns
  BY <1>1, <1>7 DEF RowsOf
<1> QED  BY <1>1, <1>4, <1>5, <1>6, <1>7, <1>8 DEF ExportInv

LEMMA ExportStart == FileInit => ExportInv
BY DEF FileInit, ExportInv, NoExport

LEMMA ExportStep == FileTypeOK /\ WriterInv /\ ExportInv /\ [FileNext]_fileVars => ExportInv'
<1> SUFFICES ASSUME FileTypeOK, WriterInv, ExportInv, [FileNext]_fileVars PROVE ExportInv'
  OBVIOUS
<1>1. CASE ExportMdf4
  BY <1>1, CopyKeeps
<1>2. CASE ExportCsv
  BY <1>2, CsvKeeps
<1>3. CASE ~ ExportMdf4 /\ ~ ExportCsv
  <2>1. export' = export
    BY <1>3 DEF FileNext, Create, FlushHeader, Write, Flush, Spill, CloseFlush, PatchLength,
                PatchCounts, Crash, OpenDetail, NextPage, PrevPage, Back, Play, PlayRecord,
                PlayFails, PlayEnds, PlayStops, fileVars
  <2> QED  BY <2>1, ExportFrame
<1> QED  BY <1>1, <1>2, <1>3

LEMMA DueType ==
  ASSUME FileTypeOK, NEW format
  PROVE  /\ Due(format) \in Seq(Range(Due(format)))
         /\ Len(Due(format)) = Len(Recorded) /\ Len(Recorded) \in Nat
<1>1. Recorded \in Seq(Range(Recorded)) /\ Len(Recorded) \in Nat /\ DOMAIN Recorded = 1 .. Len(Recorded)
  BY RecordedType DEF Records
<1>2. DueOfCsv \in Seq(Range(DueOfCsv)) /\ Len(DueOfCsv) = Len(Recorded)
  <2> DEFINE S == {Rounded(Recorded[i]) : i \in 1 .. Len(Recorded)}
  <2>1. DueOfCsv \in Seq(S) /\ Len(DueOfCsv) = Len(Recorded)
    BY <1>1 DEF DueOfCsv
  <2> HIDE DEF S
  <2> QED  BY <2>1, SeqOfRange
<1> QED  BY <1>1, <1>2 DEF Due

\* One more message is out.
LEMMA SendNext ==
  ASSUME NEW A, NEW due \in Seq(A), NEW c \in Nat, c < Len(due)
  PROVE  Append(SubSeq(due, 1, c), due[c + 1]) = SubSeq(due, 1, c + 1)
<1>1. 1 \in 1 .. Len(due) /\ c + 1 \in 1 .. Len(due) /\ (c + 1) - 1 = c
      /\ \A i \in 1 .. c : i \in 1 .. Len(due)
  OBVIOUS
<1>2. SubSeq(due, 1, c + 1) = SubSeq(due, 1, (c + 1) - 1) \o <<due[c + 1]>>
  BY <1>1, SubSeqRecursiveSecond
<1>3. due[c + 1] \in A /\ \A i \in 1 .. c : due[i] \in A
  BY <1>1
<1>4. SubSeq(due, 1, c) \in Seq(A)
  BY <1>3, SubSeqProperties
<1> QED  BY <1>1, <1>2, <1>3, <1>4, AppendIsConcat

LEMMA PlayFrame ==
  ASSUME FileTypeOK, [FileNext]_fileVars, PlayerInv, player' = player,
         export' = export \/ player.ended \/ player.source # "export"
  PROVE  PlayerInv'
<1>1. CASE player.source = "none"
  BY <1>1 DEF PlayerInv
<1>2. CASE player.source # "none"
  <2> DEFINE source == player.source
             r == player.reader
             out == player.out
             ended == player.ended
  <2>1. Playing(source, r, out, ended)
    BY <1>2 DEF PlayerInv
  <2>2. ~ ended /\ source = "export" => export' = export
    OBVIOUS
  <2>3. CASE r.count = 0 /\ r.cursor = 0 /\ out = <<>>
    BY <2>1, <2>2, <2>3 DEF PlayerInv, Playing, ReaderShape
  <2>4. CASE Settled
    <3>1. /\ Settled' /\ Recorded' = Recorded /\ DueOfCsv' = DueOfCsv /\ RowsOf' = RowsOf
          /\ CsvColumns(file)' = CsvColumns(file)
          /\ file'.kind = file.kind /\ file'.schema = file.schema /\ file'.cells = file.cells
      BY <2>4, SettledStays
    <3>2. UntilRefused(DueOfCsv)' = UntilRefused(DueOfCsv)
      BY <3>1, Zenon DEF UntilRefused
    <3>3. \A format : Due(format)' = Due(format) /\ LastOf(format)' = LastOf(format)
      BY <3>1, <3>2 DEF Due, LastOf
    <3>4. \A m : Refused(m)' <=> Refused(m)
      BY <3>1 DEF Refused
    <3>5. ~ ended /\ Reading(source, r) => Reading(source, r)'
      <4>1. \A offsets, R : Reads(file, offsets, R) => Reads(file', offsets, R)
        BY <3>1, ReadsStay
      <4>2. source = "session" => (Reads(FileOf(source), r.offsets, Recorded)
                                    => Reads(FileOf(source), r.offsets, Recorded)')
        BY <3>1, <4>1 DEF FileOf
      <4>3. ~ ended /\ source = "export" => (Reads(FileOf(source), r.offsets, Recorded)
                                              => Reads(FileOf(source), r.offsets, Recorded)')
        <5>1. ~ ended /\ source = "export" => FileOf(source)' = FileOf(source)
          BY <2>2 DEF FileOf
        <5>2. Reads(FileOf(source), r.offsets, Recorded)' <=> Reads(FileOf(source)', r.offsets, Recorded)
          BY <3>1
        <5> QED  BY <5>1, <5>2
      <4>4. source \in {"session", "export"}
        BY <2>1 DEF Playing
      <4>5. ~ ended /\ r.format = "csv" => export' = export
        BY <2>1, <2>2 DEF Playing
      <4> QED  BY <3>1, <3>4, <4>2, <4>3, <4>4, <4>5 DEF Reading
    <3>6. r.format \in {"mf4", "csv"} /\ (~ ended /\ source = "export" => r.format = export'.format)
      BY <2>1, <2>2 DEF Playing
    <3>7. Playing(source, r, out, ended)'
      BY <2>1, <3>1, <3>3, <3>5, <3>6 DEF Playing, ReaderShape
    <3> QED  BY <3>7 DEF PlayerInv
  <2> QED  BY <2>1, <2>3, <2>4 DEF Playing
<1> QED  BY <1>1, <1>2

\* Nothing but the player changes.
LEMMA PlayerAlone ==
  ASSUME FileTypeOK, UNCHANGED <<file, writer, written, detail, export>>
  PROVE  /\ Settled' = Settled /\ Recorded' = Recorded
         /\ \A format : Due(format)' = Due(format) /\ LastOf(format)' = LastOf(format)
         /\ \A source, r : Reading(source, r)' = Reading(source, r)
<1>1. Recorded' = Recorded /\ CsvColumns(file)' = CsvColumns(file)
  BY RecordedStays
<1>2. Settled' = Settled
  BY <1>1 DEF Settled
<1>3. DueOfCsv' = DueOfCsv /\ RowsOf' = RowsOf
  BY <1>1 DEF DueOfCsv, RowsOf, Rounded
<1>4. UntilRefused(DueOfCsv)' = UntilRefused(DueOfCsv)
  BY <1>3, Zenon DEF UntilRefused
<1>5. \A format : Due(format)' = Due(format) /\ LastOf(format)' = LastOf(format)
  BY <1>1, <1>3, <1>4 DEF Due, LastOf
<1>6. \A source : FileOf(source)' = FileOf(source)
  BY DEF FileOf
<1>7. \A m : Refused(m)' = Refused(m)
  BY DEF Refused
<1>8. \A source, r : Reading(source, r)' = Reading(source, r)
  BY <1>1, <1>3, <1>6, <1>7, Zenon DEF Reading
<1> QED  BY <1>1, <1>2, <1>5, <1>8

LEMMA PlayerIs ==
  ASSUME FileTypeOK, UNCHANGED <<file, writer, written, detail, export>>,
         NEW source, NEW r, NEW out, NEW ended \in BOOLEAN, Playing(source, r, out, ended),
         player' = [source |-> source, reader |-> r, out |-> out, ended |-> ended]
  PROVE  PlayerInv'
<1>1. /\ Settled' = Settled /\ Recorded' = Recorded
      /\ Due(r.format)' = Due(r.format) /\ LastOf(r.format)' = LastOf(r.format)
      /\ Reading(source, r)' = Reading(source, r)
  BY PlayerAlone
<1>2. Playing(source, r, out, ended)'
  BY <1>1 DEF Playing, ReaderShape
<1>3. /\ player' = [source |-> player'.source, reader |-> player'.reader, out |-> player'.out,
                    ended |-> player'.ended]
      /\ player'.source = source /\ player'.reader = r /\ player'.out = out /\ player'.ended = ended
  OBVIOUS
<1>4. source # "none"
  BY DEF Playing
<1> QED  BY <1>2, <1>3, <1>4 DEF PlayerInv

LEMMA PlayKeeps ==
  ASSUME FileTypeOK, WriterInv, ExportInv, NEW source \in {"session", "export"}, Play(source)
  PROVE  PlayerInv'
<1>1. UNCHANGED <<file, writer, written, detail, export>> /\ writer.step \notin {"off", "header"}
  BY DEF Play
<1>3. \A format : SubSeq(Due(format), 1, 0) = <<>> /\ 0 \in 0 .. Len(Recorded)
  BY SubSeqEmpty, RecordedType
<1>4. ASSUME NEW r, ReaderShape(r), r.cursor = 0, r.format \in {"mf4", "csv"},
             r.format = "csv" => source = "export", source = "export" => r.format = export.format,
             r.count = 0 \/ (Settled /\ r.count = Len(Recorded) /\ Reading(source, r)),
             player' = [NoPlayer EXCEPT !.source = source, !.reader = r, !.ended = FALSE]
      PROVE  PlayerInv'
  <2>1. player' = [source |-> source, reader |-> r, out |-> <<>>, ended |-> FALSE]
    BY <1>4 DEF NoPlayer
  <2>2. Playing(source, r, <<>>, FALSE)
    BY <1>3, <1>4 DEF Playing
  <2> QED  BY <1>1, <2>1, <2>2, PlayerIs
<1>5. CASE source = "export" /\ export.format = "csv"
  <2> DEFINE r == OpenCsv(export.columns, export.rows)
  <2>1. player' = [NoPlayer EXCEPT !.source = source, !.reader = r, !.ended = FALSE]
    BY <1>5, Zenon DEF Play
  <2>2. ReaderShape(r) /\ r.cursor = 0 /\ r.format = "csv" /\ r.count = Len(export.rows)
        /\ r.kind = CsvKind(export.columns)
    BY DEF ReaderShape, OpenCsv
  <2>3. export.columns = CsvColumns(file) /\ (export.rows = <<>> \/ (Settled /\ export.rows = RowsOf))
    BY <1>5 DEF ExportInv
  <2>4. Len(<<>>) = 0 /\ Len(RowsOf) = Len(Recorded)
    BY RecordedType DEF RowsOf
  <2>5. \A j \in 1 .. 0 : ~ Refused(Recorded[j])
    OBVIOUS
  <2> HIDE DEF r
  <2>6. r.count = 0 \/ (Settled /\ r.count = Len(Recorded) /\ Reading(source, r))
    BY <2>2, <2>3, <2>4, <2>5 DEF Reading
  <2> QED  BY <1>4, <1>5, <2>1, <2>2, <2>6
<1>6. CASE ~ (source = "export" /\ export.format = "csv")
  <2> DEFINE f == FileOf(source)
             r == OpenMdf4(f)
  <2>1. player' = [NoPlayer EXCEPT !.source = source, !.reader = r, !.ended = FALSE]
    BY <1>6, Zenon DEF Play
  <2>2. ReaderShape(r) /\ r.cursor = 0 /\ r.format = "mf4" /\ r.count = Len(r.offsets)
        /\ r.offsets = Mdf4Offsets(f)
    BY DEF ReaderShape, OpenMdf4
  <2>3. source = "export" => export.format = "mf4"
    BY <1>6 DEF Play, ExportInv
  <2>4. FileType(f) /\ (f.length = 0 \/ (Settled /\ Finished(f, Recorded)))
    <3>1. CASE source = "session"
      <4>1. f = file
        BY <3>1 DEF FileOf
      <4> QED  BY <1>1, <4>1 DEF FileTypeOK, WriterInv, Steps, Settled
    <3>2. CASE source = "export"
      <4>1. f = export.file
        BY <3>2 DEF FileOf
      <4> QED  BY <2>3, <3>2, <4>1 DEF ExportInv
    <3> QED  BY <3>1, <3>2
  <2> HIDE DEF r
  <2>5. CASE f.length = 0
    <3>1. Mdf4Offsets(f) = <<>>
      <4> HIDE DEF f
      <4> QED  BY <2>4, <2>5, UnfinishedFile
    <3>2. Len(<<>>) = 0
      OBVIOUS
    <3> HIDE DEF f
    <3>3. r.count = 0
      BY <2>2, <3>1, <3>2
    <3> QED  BY <1>4, <2>1, <2>2, <2>3, <3>3
  <2>6. CASE Settled /\ Finished(f, Recorded)
    <3>1. Reads(f, Mdf4Offsets(f), Recorded)
      <4> HIDE DEF f
      <4> QED  BY <2>4, <2>6, FinishedFile DEF Finished
    <3>2. Len(Mdf4Offsets(f)) = Len(Recorded)
      BY <3>1 DEF Reads
    <3>3. Reading(source, r)
      BY <2>2, <3>1 DEF Reading
    <3> HIDE DEF f
    <3>4. r.count = Len(Recorded)
      BY <2>2, <3>2
    <3> QED  BY <1>4, <2>1, <2>2, <2>3, <2>6, <3>3, <3>4
  <2> QED  BY <2>4, <2>5, <2>6
<1> QED  BY <1>5, <1>6

\* One step of the loop.
LEMMA PlayRecordKeeps ==
  ASSUME FileTypeOK, PlayerInv, PlayRecord
  PROVE  PlayerInv'
<1>1. UNCHANGED <<file, writer, written, detail, export>> /\ ~ player.ended /\ ~ AtEof(player)
  BY DEF PlayRecord
<1>2. PICK source, r, out, ended : player = [source |-> source, reader |-> r, out |-> out, ended |-> ended]
  BY DEF PlayerInv
<1>3. Playing(source, r, out, ended) /\ ended = FALSE
  BY <1>1, <1>2 DEF PlayerInv
<1>4. ~ (r.cursor >= r.count)
  BY <1>1, <1>2 DEF AtEof
<1>5. /\ Settled /\ r.count = Len(Recorded) /\ r.cursor \in 0 .. Len(Recorded)
      /\ out = SubSeq(Due(r.format), 1, r.cursor) /\ Reading(source, r)
  BY <1>3, <1>4 DEF Playing
<1> DEFINE c == r.cursor
           i == c + 1
           x == IF r.format = "csv" THEN CsvRecord(r.kind, export.columns, export.rows[i])
                ELSE Mdf4Record(FileOf(source), r.offsets, i)
<1>6. c \in Nat /\ i \in 1 .. Len(Recorded) /\ c < Len(Recorded) /\ i \in 0 .. Len(Recorded)
      /\ Len(Recorded) \in Nat
  BY <1>4, <1>5, RecordedType
<1>7. /\ r.format = "csv" => CsvReads(r.kind, export.columns, export.rows[i])
      /\ player' = [player EXCEPT !.reader.cursor = i, !.out = Append(@, x)]
  BY <1>2, Zenon DEF PlayRecord
<1>8. x = Due(r.format)[i] /\ (r.format = "csv" => ~ Refused(Recorded[i]))
  <2>1. CASE r.format = "csv"
    <3>1. export.rows = RowsOf /\ export.columns = CsvColumns(file) /\ r.kind = CsvKind(CsvColumns(file))
      BY <1>5, <2>1 DEF Reading
    <3>2. ~ Refused(Recorded[i])
      BY <1>6, <1>7, <2>1, <3>1, RowReads
    <3>3. CsvRecord(r.kind, export.columns, export.rows[i]) = DueOfCsv[i]
      BY <1>6, <3>1, <3>2, RowReads
    <3> QED  BY <2>1, <3>2, <3>3 DEF Due
  <2>2. CASE r.format = "mf4"
    <3>1. Mdf4Record(FileOf(source), r.offsets, i) = Recorded[i]
      BY <1>5, <1>6, <2>2 DEF Reading, Reads
    <3> QED  BY <2>2, <3>1 DEF Due
  <2> QED  BY <1>3, <2>1, <2>2 DEF Playing
<1> HIDE DEF x
<1>9. PICK f, k, o, n, d : r = [format |-> f, kind |-> k, offsets |-> o, count |-> n, cursor |-> d]
  BY <1>3 DEF Playing, ReaderShape
<1> DEFINE next == [format |-> f, kind |-> k, offsets |-> o, count |-> n, cursor |-> i]
<1>10. player' = [source |-> source, reader |-> next, out |-> Append(out, x), ended |-> ended]
  <2> HIDE DEF i
  <2> QED  BY <1>2, <1>7, <1>9
<1>11. /\ ReaderShape(next) /\ next.format = r.format /\ next.count = r.count /\ next.cursor = i
       /\ next.kind = r.kind /\ next.offsets = r.offsets
  <2> HIDE DEF i
  <2> QED  BY <1>9 DEF ReaderShape
<1>12. Append(out, x) = SubSeq(Due(r.format), 1, i)
  <2>1. /\ Due(r.format) \in Seq(Range(Due(r.format))) /\ c < Len(Due(r.format))
    BY <1>6, DueType
  <2> DEFINE due == Due(r.format)
  <2> HIDE DEF due, c
  <2>2. Append(SubSeq(due, 1, c), due[c + 1]) = SubSeq(due, 1, c + 1)
    BY <1>6, <2>1, SendNext DEF due
  <2> QED  BY <1>5, <1>8, <2>2 DEF due, c
<1>13. \A j \in 1 .. i : j \in 1 .. c \/ j = i
  BY <1>6
<1> HIDE DEF next, i
<1>14. Reading(source, next)
  <2>1. r.format = "csv" => \A j \in 1 .. i : ~ Refused(Recorded[j])
    BY <1>5, <1>8, <1>13 DEF Reading
  <2> QED  BY <1>5, <1>11, <2>1 DEF Reading
<1>15. Playing(source, next, Append(out, x), FALSE)
  BY <1>3, <1>5, <1>6, <1>11, <1>12, <1>14 DEF Playing
<1> QED  BY <1>1, <1>3, <1>10, <1>15, PlayerIs

\* A message that cannot be read is a row that CsvReader refuses.
LEMMA PlayFailsKeeps ==
  ASSUME FileTypeOK, PlayerInv, PlayFails
  PROVE  PlayerInv'
<1>1. UNCHANGED <<file, writer, written, detail, export>> /\ ~ player.ended /\ ~ AtEof(player)
  BY DEF PlayFails
<1>2. PICK source, r, out, ended : player = [source |-> source, reader |-> r, out |-> out, ended |-> ended]
  BY DEF PlayerInv
<1>3. Playing(source, r, out, ended) /\ ended = FALSE
  BY <1>1, <1>2 DEF PlayerInv
<1>4. ~ (r.cursor >= r.count)
  BY <1>1, <1>2 DEF AtEof
<1>5. /\ Settled /\ r.count = Len(Recorded) /\ r.cursor \in 0 .. Len(Recorded)
      /\ out = SubSeq(Due(r.format), 1, r.cursor) /\ Reading(source, r)
  BY <1>3, <1>4 DEF Playing
<1> DEFINE c == r.cursor
           i == c + 1
           to == IF r.format = "csv" THEN i ELSE c
<1>6. c \in 0 .. Len(Recorded) /\ i \in 1 .. Len(Recorded) /\ c < Len(Recorded) /\ Len(Recorded) \in Nat
  BY <1>4, <1>5, RecordedType
<1>7. /\ r.format = "csv" => ~ CsvReads(r.kind, export.columns, export.rows[i])
      /\ r.format # "csv" => ~ Mdf4Has(FileOf(source), r.offsets, i)
      /\ player' = [player EXCEPT !.ended = TRUE, !.reader.cursor = to]
  BY <1>2, Zenon DEF PlayFails
<1>8. r.format = "csv"
  <2>1. r.format = "mf4" => Mdf4Has(FileOf(source), r.offsets, i)
    BY <1>5, <1>6 DEF Reading, Reads
  <2> QED  BY <1>3, <1>7, <2>1 DEF Playing
<1>9. out = LastOf(r.format)
  <2>1. export.rows = RowsOf /\ export.columns = CsvColumns(file) /\ r.kind = CsvKind(CsvColumns(file))
        /\ \A j \in 1 .. c : ~ Refused(Recorded[j])
    BY <1>5, <1>8 DEF Reading
  <2>2. Refused(Recorded[i])
    BY <1>6, <1>7, <1>8, <2>1, RowReads
  <2>3. UntilRefused(DueOfCsv) = SubSeq(DueOfCsv, 1, c)
    BY <1>6, <2>1, <2>2, EndsAtRefused
  <2> QED  BY <1>5, <1>8, <2>3 DEF Due, LastOf
<1>10. PICK f, k, o, n, d : r = [format |-> f, kind |-> k, offsets |-> o, count |-> n, cursor |-> d]
  BY <1>3 DEF Playing, ReaderShape
<1> DEFINE next == [format |-> f, kind |-> k, offsets |-> o, count |-> n, cursor |-> to]
<1>11. player' = [source |-> source, reader |-> next, out |-> out, ended |-> TRUE]
  <2> HIDE DEF to
  <2> QED  BY <1>2, <1>7, <1>10
<1>12. ReaderShape(next) /\ next.format = r.format /\ next.count = r.count
  <2> HIDE DEF to
  <2> QED  BY <1>10 DEF ReaderShape
<1> HIDE DEF next, to, i
<1>13. Playing(source, next, out, TRUE)
  BY <1>3, <1>5, <1>6, <1>9, <1>12 DEF Playing
<1> QED  BY <1>1, <1>11, <1>13, PlayerIs

LEMMA PlayEndsKeeps ==
  ASSUME FileTypeOK, PlayerInv, PlayEnds
  PROVE  PlayerInv'
<1>1. UNCHANGED <<file, writer, written, detail, export>> /\ ~ player.ended /\ AtEof(player)
  BY DEF PlayEnds
<1>2. PICK source, r, out, ended : player = [source |-> source, reader |-> r, out |-> out, ended |-> ended]
  BY DEF PlayerInv
<1>3. Playing(source, r, out, ended) /\ ended = FALSE
  BY <1>1, <1>2 DEF PlayerInv
<1>4. player' = [source |-> source, reader |-> r, out |-> out, ended |-> TRUE] /\ r.cursor >= r.count
  BY <1>1, <1>2 DEF AtEof, PlayEnds
<1>5. CASE r.count = 0 /\ r.cursor = 0 /\ out = <<>>
  <2>1. Playing(source, r, out, TRUE)
    BY <1>3, <1>5 DEF Playing
  <2> QED  BY <1>1, <1>4, <2>1, PlayerIs
<1>6. CASE /\ Settled /\ r.count = Len(Recorded) /\ r.cursor \in 0 .. Len(Recorded)
           /\ out = SubSeq(Due(r.format), 1, r.cursor) /\ Reading(source, r)
  <2> DEFINE c == r.cursor
  <2>1. c = Len(Recorded) /\ c \in 0 .. Len(Recorded) /\ Len(Recorded) \in Nat
    BY <1>4, <1>6, RecordedType
  <2>2. out = LastOf(r.format)
    <3>1. CASE r.format = "csv"
      <4>1. \A j \in 1 .. c : ~ Refused(Recorded[j])
        BY <1>6, <3>1 DEF Reading
      <4>2. UntilRefused(DueOfCsv) = SubSeq(DueOfCsv, 1, c)
        BY <2>1, <4>1, EndsAtRefused
      <4> QED  BY <1>6, <3>1, <4>2 DEF Due, LastOf
    <3>2. CASE r.format = "mf4"
      <4>1. SubSeq(Recorded, 1, Len(Recorded)) = Recorded
        BY RecordedType, SubSeqFull
      <4> QED  BY <1>6, <2>1, <3>2, <4>1 DEF Due, LastOf
    <3> QED  BY <1>3, <3>1, <3>2 DEF Playing
  <2>3. Playing(source, r, out, TRUE)
    BY <1>3, <1>6, <2>2 DEF Playing
  <2> QED  BY <1>1, <1>4, <2>3, PlayerIs
<1> QED  BY <1>3, <1>5, <1>6 DEF Playing

LEMMA PlayerStart == FileInit => PlayerInv
BY DEF FileInit, PlayerInv, NoPlayer

LEMMA PlayerStep ==
  FileTypeOK /\ WriterInv /\ ExportInv /\ PlayerInv /\ [FileNext]_fileVars => PlayerInv'
<1> SUFFICES ASSUME FileTypeOK, WriterInv, ExportInv, PlayerInv, [FileNext]_fileVars PROVE PlayerInv'
  OBVIOUS
<1>1. CASE \E source \in {"session", "export"} : Play(source)
  BY <1>1, PlayKeeps
<1>2. CASE PlayRecord
  BY <1>2, PlayRecordKeeps
<1>3. CASE PlayFails
  BY <1>3, PlayFailsKeeps
<1>4. CASE PlayEnds
  BY <1>4, PlayEndsKeeps
<1>5. CASE PlayStops \/ Crash
  <2>1. player' = NoPlayer
    BY <1>5 DEF PlayStops, Crash
  <2> QED  BY <2>1 DEF NoPlayer, PlayerInv
<1>6. CASE ExportMdf4 \/ ExportCsv
  <2>1. player' = player /\ (player.ended \/ player.source # "export")
    BY <1>6 DEF ExportMdf4, ExportCsv, CanExport
  <2> QED  BY <2>1, PlayFrame
<1>7. CASE \/ \E kind \in {"raw", "dbc"}, schema \in Schemas \union {<<>>} : Create(kind, schema)
           \/ FlushHeader \/ Flush \/ CloseFlush \/ PatchLength \/ PatchCounts
           \/ \E m \in Messages(file.kind) : Write(m)
           \/ \E n \in 1 .. Len(writer.stream) : Spill(n)
           \/ OpenDetail \/ NextPage \/ PrevPage \/ Back
           \/ UNCHANGED fileVars
  <2>1. player' = player /\ export' = export
    BY <1>7 DEF Create, FlushHeader, Flush, CloseFlush, PatchLength, PatchCounts, Write, Spill,
                OpenDetail, NextPage, PrevPage, Back, fileVars
  <2> QED  BY <2>1, PlayFrame
<1> QED  BY <1>1, <1>2, <1>3, <1>4, <1>5, <1>6, <1>7 DEF FileNext

\* A replay of the file of a session, of a copy or of a CSV export sends the recorded
\* messages in their order, rounded where they went through CSV; if it ends it has sent
\* all of them up to a row that CsvReader refuses, or nothing of an unfinished file.
THEOREM PlayedIsRecordedHolds == FileSpec => []PlayedIsRecorded
<1>1. FileTypeOK /\ PlayerInv => PlayedIsRecorded
  <2> SUFFICES ASSUME FileTypeOK, PlayerInv, player.source # "none"
               PROVE  PlayedIsRecorded
    BY DEF PlayedIsRecorded
  <2> DEFINE format == player.reader.format
             out == player.out
  <2>1. Playing(player.source, player.reader, out, player.ended) /\ player.ended \in BOOLEAN
    BY DEF PlayerInv
  <2>2. /\ Due(format) \in Seq(Range(Due(format)))
        /\ Len(Due(format)) = Len(Recorded) /\ Len(Recorded) \in Nat
    BY DueType
  <2>3. \A c \in 0 .. Len(Recorded) : IsPrefix(SubSeq(Due(format), 1, c), Due(format))
    <3> DEFINE due == Due(format)
    <3> HIDE DEF due
    <3> TAKE c \in 0 .. Len(Recorded)
    <3>1. due \in Seq(Range(due)) /\ Len(due) = Len(Recorded)
      BY <2>2 DEF due
    <3>2. \A i \in 1 .. c : due[i] \in Range(due)
      BY <2>2, <3>1
    <3>3. Len(SubSeq(due, 1, c)) = c /\ SubSeq(due, 1, c) \in Seq(Range(due))
      BY <2>2, <3>2, SubSeqProperties
    <3>4. SubSeq(SubSeq(due, 1, c), 1, c) = SubSeq(due, 1, c)
      BY <3>3, SubSeqFull
    <3> QED  BY <2>2, <3>1, <3>3, <3>4 DEF IsPrefix, due
  <2>4. SubSeq(Due(format), 1, 0) = <<>> /\ 0 \in 0 .. Len(Recorded)
    BY <2>2, SubSeqEmpty
  <2>5. \E c \in 0 .. Len(Recorded) : out = SubSeq(Due(format), 1, c)
    BY <2>1, <2>4 DEF Playing
  <2>6. IsPrefix(out, Due(format))
    BY <2>3, <2>5
  <2>7. player.ended => out \in {<<>>, LastOf(format)}
    BY <2>1 DEF Playing
  <2> QED  BY <2>6, <2>7 DEF PlayedIsRecorded, Due, LastOf, DueOfCsv
<1> QED  BY <1>1, FileStart, FileStep, ExportStart, ExportStep, PlayerStart, PlayerStep, PTL DEF FileSpec

=============================================================================
