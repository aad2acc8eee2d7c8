--------------------------- MODULE SessionChannel ---------------------------
(***************************************************************************)
(* What logging promises for the messages of a session, with no ring, no   *)
(* threads and no flags: each session is a first-in first-out channel that *)
(* is opened, ended and closed.  What it takes it keeps in the order of    *)
(* arrival, once; it loses a message only if nothing records its kind or   *)
(* the channel has no room; one message at most gets in after the end, and *)
(* the channel closes when it is empty.                                    *)
(***************************************************************************)
EXTENDS Naturals, Sequences

CONSTANTS
  Kinds,       \* what may be recorded
  MaxSessions, \* how many channels there are
  Capacity     \* how many messages a channel holds

VARIABLES
  arrived,   \* how many messages have arrived; a message is its number
  arriving,  \* the kind of the message that is on its way in, as a set
  opened,    \* how many sessions have been opened
  recorder,  \* the session that records a kind, or 0
  queue,     \* what each session has taken and not yet kept
  kept,      \* what each session has kept
  owed,      \* how many messages a session had taken when it was ended
  closed     \* the sessions that are closed

scVars == <<arrived, arriving, opened, recorder, queue, kept, owed, closed>>

SCInit ==
  /\ arrived = 0 /\ arriving = {} /\ opened = 0
  /\ recorder = [k \in Kinds |-> 0]
  /\ queue = [s \in 1 .. MaxSessions |-> <<>>]
  /\ kept = [s \in 1 .. MaxSessions |-> <<>>]
  /\ owed = [s \in 1 .. MaxSessions |-> 0]
  /\ closed = {}

Ended(s) == s \in 1 .. opened /\ \A k \in Kinds : recorder[k] # s

Taken(s) == Len(kept[s]) + Len(queue[s])

Arrive(k) ==
  /\ arriving = {}
  /\ arrived' = arrived + 1 /\ arriving' = {k}
  /\ UNCHANGED <<opened, recorder, queue, kept, owed, closed>>

\* A message that was on its way when the session was ended may still get in.
Accept(k, s) ==
  /\ arriving = {k}
  /\ recorder[k] = s \/ (Ended(s) /\ Taken(s) = owed[s])
  /\ Len(queue[s]) < Capacity
  /\ queue' = [queue EXCEPT ![s] = Append(@, arrived)]
  /\ arriving' = {}
  /\ UNCHANGED <<arrived, opened, recorder, kept, owed, closed>>

\* One place of a channel may be taken by a message that is just being kept.
Lose(k) ==
  /\ arriving = {k}
  /\ recorder[k] # 0 => Len(queue[recorder[k]]) >= Capacity - 1
  /\ arriving' = {}
  /\ UNCHANGED <<arrived, opened, recorder, queue, kept, owed, closed>>

Keep(s) ==
  /\ s \notin closed /\ queue[s] # <<>>
  /\ kept' = [kept EXCEPT ![s] = Append(@, Head(queue[s]))]
  /\ queue' = [queue EXCEPT ![s] = Tail(@)]
  /\ UNCHANGED <<arrived, arriving, opened, recorder, owed, closed>>

\* A session begins when those before it are closed.
Open(k) ==
  /\ opened < MaxSessions /\ closed = 1 .. opened
  /\ opened' = opened + 1
  /\ recorder' = [recorder EXCEPT ![k] = opened + 1]
  /\ UNCHANGED <<arrived, arriving, queue, kept, owed, closed>>

End(k) ==
  /\ recorder[k] # 0
  /\ owed' = [owed EXCEPT ![recorder[k]] = Taken(recorder[k])]
  /\ recorder' = [j \in Kinds |-> 0]
  /\ UNCHANGED <<arrived, arriving, opened, queue, kept, closed>>

Close(s) ==
  /\ Ended(s) /\ s \notin closed /\ queue[s] = <<>>
  /\ closed' = closed \union {s}
  /\ UNCHANGED <<arrived, arriving, opened, recorder, queue, kept, owed>>

SCNext ==
  \/ \E k \in Kinds : Arrive(k) \/ Lose(k) \/ Open(k) \/ End(k)
  \/ \E k \in Kinds, s \in 1 .. MaxSessions : Accept(k, s)
  \/ \E s \in 1 .. MaxSessions : Keep(s) \/ Close(s)

SCSpec == SCInit /\ [][SCNext]_scVars
=============================================================================
