------------------------- MODULE ScheduledItemQueue -------------------------
(***************************************************************************)
(* The queue every producer of the Sending tab pushes into and the one     *)
(* consumer thread pops from: a priority queue ordered by scheduledAt,     *)
(* guarded by a mutex, and a counting semaphore that lets the consumer     *)
(* block.  The mutex and the semaphore are separate: an item is inserted   *)
(* under the mutex and its permit is released after the unlock, a permit   *)
(* is acquired before the lock.  Each operator below is one such section,  *)
(* the unit other threads can interleave with; SendPipeline gives them to  *)
(* threads.                                                                *)
(***************************************************************************)
EXTENDS Naturals, FiniteSets

CONSTANT Capacity       \* QUEUE_MAX_CAPACITY

ASSUME CapacityAssumption == Capacity \in Nat \ {0}

VARIABLES
  items,                \* m_items, as a set: every item has its own id
  permits               \* the count of m_semaphore

queueVars == <<items, permits>>

QueueInit ==
  /\ items = {}
  /\ permits = 0

\* Faulty Full: the capacity test is off by one.
FullOffByOne == Cardinality(items) > Capacity

Full == Cardinality(items) >= Capacity

(***************************************************************************)
(* The candidates for the heap top.  std::priority_queue does not order    *)
(* items of equal scheduledAt, so any of them may be on top.               *)
(***************************************************************************)
Earliest == {i \in items : \A j \in items : i.at <= j.at}

\* The section of push and of tryPush that adds an item to a queue with room.
Insert(i) ==
  /\ ~Full
  /\ items' = items \cup {i}

\* The section of push on a full queue: the heap top makes room.
Replace(i, victim) ==
  /\ Full
  /\ victim \in Earliest
  /\ items' = (items \ {victim}) \cup {i}

\* The section of pop that removes the heap top.
Take(i) ==
  /\ i \in Earliest
  /\ items' = items \ {i}

\* peekFront() < t, the only use the consumer makes of it.
HasEarlierThan(t) == \E i \in items : i.at < t

\* m_semaphore.release(), by push, tryPush and interrupt.
Release == permits' = permits + 1

\* m_semaphore.acquire(), which blocks while there is no permit.
Acquire ==
  /\ permits > 0
  /\ permits' = permits - 1
=============================================================================
