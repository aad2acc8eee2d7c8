---------------------------- MODULE MonitoringModel ----------------------------
(***************************************************************************)
(* MonitoringModel: per message of the DBC the values its signals had,     *)
(* averaged over windows of time.  A frame opens a window or adds to the   *)
(* open one; a frame that comes too late for it, or the refresh timer,     *)
(* flushes it: its start becomes a timestamp and its average a value of    *)
(* every signal.  A thread of the model erases what is too old.  Every     *)
(* operation holds m_dataMutex for its whole body, so each is one action.  *)
(*                                                                         *)
(* An average is the set of the frames it is taken over, so the sums and   *)
(* counts of the code are one set and NAN is the empty one.                *)
(***************************************************************************)
EXTENDS Integers, Sequences

CONSTANTS
  TableSize, \* how many ids have an entry, 2048 in the code
  Window,    \* AGGREGATION_WINDOW_MS
  Holding,   \* HOLDING_SECONDS_IN_MODEL
  Signals,
  Dbcs,      \* the DBCs, each the sets of signals of its messages by id
  NoDbc

VARIABLES
  m_currentDbc,
  messageValues,
  now,    \* the system clock
  frames  \* history: the messages that were taken in under m_currentDbc

modelVars == <<m_currentDbc, messageValues, now, frames>>

ASSUME ModelAssumption ==
  /\ TableSize \in Nat
  /\ Window \in Nat \ {0}
  /\ Holding \in Nat
  /\ NoDbc \notin Dbcs
  /\ \A d \in Dbcs : DOMAIN d \subseteq Nat /\ \A id \in DOMAIN d : d[id] \subseteq Signals

Slots == 0 .. TableSize - 1

NotOpen == -1

Entry(signals) ==
  [timestamps   |-> <<>>,
   signalValues |-> [s \in signals |-> <<>>],
   windowStart  |-> NotOpen,
   window       |-> [s \in signals |-> {}]]

SignalsOf(d, id) == IF id \in DOMAIN d THEN d[id] ELSE {}

ModelInit ==
  /\ m_currentDbc = NoDbc
  /\ messageValues = [id \in Slots |-> Entry({})]
  /\ now = 0
  /\ frames = <<>>

-----------------------------------------------------------------------------

\* Faulty FlushWindow: the signals without a value in the window get none.
FlushOnlySampled(e, newStart) ==
  [e EXCEPT !.timestamps = Append(@, e.windowStart),
            !.signalValues = [s \in DOMAIN @ |-> IF e.window[s] = {} THEN @[s]
                                                 ELSE Append(@[s], e.window[s])],
            !.window = [s \in DOMAIN @ |-> {}],
            !.windowStart = newStart]

FlushWindow(e, newStart) ==
  [e EXCEPT !.timestamps = Append(@, e.windowStart),
            !.signalValues = [s \in DOMAIN @ |-> Append(@[s], e.window[s])],
            !.window = [s \in DOMAIN @ |-> {}],
            !.windowStart = newStart]

\* The window a frame of that time belongs to is open.
Opened(e, stamp) ==
  IF e.windowStart < 0 THEN [e EXCEPT !.windowStart = stamp]
  ELSE IF stamp - e.windowStart >= Window THEN FlushWindow(e, stamp)
  ELSE e

Added(e, message, f) ==
  LET o == Opened(e, message.stamp)
  IN  [o EXCEPT !.window = [s \in DOMAIN @ |-> IF s \in message.signals THEN @[s] \union {f}
                                               ELSE @[s]]]

OnIncomingDbcFrame(message) ==
  /\ IF m_currentDbc # NoDbc /\ message.id < TableSize
       THEN /\ frames' = Append(frames, message)
            /\ messageValues' = [messageValues EXCEPT
                                   ![message.id] = Added(@, message, Len(frames) + 1)]
       ELSE UNCHANGED <<frames, messageValues>>
  /\ UNCHANGED <<m_currentDbc, now>>

\* The refresh timer: a window is not kept open for a frame that does not come.
FlushStaleWindows ==
  /\ messageValues' =
       [id \in Slots |->
          LET e == messageValues[id]
          IN  IF m_currentDbc # NoDbc /\ e.windowStart >= 0 /\ now - e.windowStart >= Window
                THEN FlushWindow(e, NotOpen)
                ELSE e]
  /\ UNCHANGED <<m_currentDbc, now, frames>>

\* The table is made anew; a message whose id is too large has no entry in it.
OnDbcChange(d) ==
  /\ m_currentDbc' = d
  /\ messageValues' = [id \in Slots |-> Entry(SignalsOf(d, id))]
  /\ frames' = <<>>
  /\ UNCHANGED now

\* How many timestamps at the front are too old.
Old(e) ==
  LET isOld(n) == \A i \in 1 .. n : e.timestamps[i] + Holding < now
  IN  CHOOSE n \in 0 .. Len(e.timestamps) :
        isOld(n) /\ \A m \in 0 .. Len(e.timestamps) : isOld(m) => m <= n

Without(q, n) == SubSeq(q, n + 1, Len(q))

Erased(e) ==
  [e EXCEPT !.timestamps = Without(@, Old(e)),
            !.signalValues = [s \in DOMAIN @ |-> Without(@[s], Old(e))]]

EraseOldData ==
  /\ messageValues' = [id \in Slots |-> Erased(messageValues[id])]
  /\ UNCHANGED <<m_currentDbc, now, frames>>

Tick ==
  /\ now' = now + 1
  /\ UNCHANGED <<m_currentDbc, messageValues, frames>>

\* A message carries some of the signals it has in the DBC it was decoded with.
Messages == [id : Nat, stamp : Nat, signals : SUBSET Signals, dbc : Dbcs]

ModelNext ==
  \/ \E message \in Messages : OnIncomingDbcFrame(message)
  \/ FlushStaleWindows
  \/ \E d \in Dbcs : OnDbcChange(d)
  \/ EraseOldData
  \/ Tick

ModelSpec == ModelInit /\ [][ModelNext]_modelVars

-----------------------------------------------------------------------------
(***************************************************************************)
(* Properties.                                                             *)
(***************************************************************************)

\* Every signal has as many values as its message has timestamps, whatever frames came
\* and whatever was erased: the graphs pair them by their place in the two lists
\* (flushWindow, eraseOldData, data).
Aligned ==
  \A id \in Slots : \A s \in DOMAIN messageValues[id].signalValues :
    Len(messageValues[id].signalValues[s]) = Len(messageValues[id].timestamps)

\* A frame that counts in a window is of its message and has the signal, and it came
\* before the end of the window (onIncomingDbcFrame).
Belongs(f, id, s, start) ==
  /\ f \in DOMAIN frames
  /\ frames[f].id = id
  /\ s \in frames[f].signals
  /\ frames[f].stamp < start + Window

EachInItsWindow ==
  \A id \in Slots : \A s \in DOMAIN messageValues[id].signalValues :
    LET e == messageValues[id]
    IN  /\ \A i \in DOMAIN e.signalValues[s] :
             \A f \in e.signalValues[s][i] : Belongs(f, id, s, e.timestamps[i])
        /\ \A f \in e.window[s] : Belongs(f, id, s, e.windowStart)

\* The windows of a signal a frame counts in; 0 is the open one.
WindowsOf(f, id, s) ==
  {i \in DOMAIN messageValues[id].signalValues[s] : f \in messageValues[id].signalValues[s][i]}
    \union {i \in {0} : f \in messageValues[id].window[s]}

\* A value of a frame that is not too old yet counts in one window, once: neither a flush
\* nor the erasing loses it or counts it again (flushWindow, eraseOldData).
SamplesKept ==
  \A f \in DOMAIN frames :
    LET id == frames[f].id
    IN  \A s \in frames[f].signals \intersect DOMAIN messageValues[id].signalValues :
          /\ \A i, j \in WindowsOf(f, id, s) : i = j
          /\ frames[f].stamp + Holding >= now + Window => WindowsOf(f, id, s) # {}

\* The averages a graph shows are right: each belongs to the time it is drawn at and is
\* made of all the frames of its window and of no other.
AveragesAreRight == Aligned /\ EachInItsWindow /\ SamplesKept
=============================================================================
