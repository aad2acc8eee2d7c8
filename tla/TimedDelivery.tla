--------------------------- MODULE TimedDelivery ---------------------------
(***************************************************************************)
(* What the sending pipeline promises to those who hand frames to it, with *)
(* no threads, no semaphore and no locks: a frame that is accepted is      *)
(* delivered at most once and never before its time, the pipeline holds at *)
(* most one frame more than its capacity, and a frame is given up only to  *)
(* make room for a new one or because the pipeline is being stopped.       *)
(***************************************************************************)
EXTENDS Naturals, FiniteSets

CONSTANT Capacity

VARIABLES
  clock,      \* the time
  pending,    \* frames accepted and not yet delivered or lost
  delivered,  \* the ids of the frames handed to the CAN device
  lost,       \* the ids of the frames that will never be delivered
  stopping    \* the consumer was told to stop

tdVars == <<clock, pending, delivered, lost, stopping>>

TDInit ==
  /\ clock \in Nat
  /\ pending = {}
  /\ delivered = {}
  /\ lost = {}
  /\ stopping \in BOOLEAN

IsNew(i) ==
  /\ i.id \notin delivered \cup lost
  /\ \A j \in pending : j.id # i.id

Advance ==
  /\ clock' \in Nat
  /\ clock' > clock
  /\ UNCHANGED <<pending, delivered, lost, stopping>>

Accept(i) ==
  /\ IsNew(i)
  /\ Cardinality(pending) <= Capacity
  /\ pending' = pending \cup {i}
  /\ UNCHANGED <<clock, delivered, lost, stopping>>

Displace(i, victim) ==
  /\ IsNew(i)
  /\ Cardinality(pending) >= Capacity
  /\ victim \in pending
  /\ pending' = (pending \ {victim}) \cup {i}
  /\ lost' = lost \cup {victim.id}
  /\ UNCHANGED <<clock, delivered, stopping>>

Deliver(i) ==
  /\ i \in pending
  /\ i.at <= clock
  /\ pending' = pending \ {i}
  /\ delivered' = delivered \cup {i.id}
  /\ UNCHANGED <<clock, lost, stopping>>

Discard(i) ==
  /\ stopping
  /\ i \in pending
  /\ pending' = pending \ {i}
  /\ lost' = lost \cup {i.id}
  /\ UNCHANGED <<clock, delivered, stopping>>

StartOrStop ==
  /\ stopping' \in BOOLEAN
  /\ UNCHANGED <<clock, pending, delivered, lost>>

(***************************************************************************)
(* The frames are whatever the next state has that this one has not: the   *)
(* abstraction does not know where they come from.                         *)
(***************************************************************************)
TDNext ==
  \/ Advance
  \/ \E i \in pending' \ pending : Accept(i)
  \/ \E i \in pending' \ pending, victim \in pending : Displace(i, victim)
  \/ \E i \in pending : Deliver(i) \/ Discard(i)
  \/ StartOrStop

TDSpec == TDInit /\ [][TDNext]_tdVars
=============================================================================
