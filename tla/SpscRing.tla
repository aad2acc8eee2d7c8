------------------------------ MODULE SpscRing ------------------------------
(***************************************************************************)
(* Core::SpscRing: a ring buffer for one producer and one consumer.  It is *)
(* a record of the slots and the two indices; the operators are what each  *)
(* thread does to it between two accesses of an index of the other thread, *)
(* so that a process that uses the ring can take them as separate steps.   *)
(*                                                                         *)
(* The loads and stores of the indices are acquire and release: the slots  *)
(* written before an index is stored are seen by whoever loads it.         *)
(***************************************************************************)
EXTENDS Naturals, Sequences

CONSTANTS
  Slots,  \* the number of slots, N in the code: a power of two, and more than one
  Value   \* what can be stored, the default value of a slot included

Index == 0 .. Slots - 1

Ring == [head : Index, tail : Index, slot : [Index -> Value]]

EmptyRing(default) == [head |-> 0, tail |-> 0, slot |-> [i \in Index |-> default]]

\* (i + 1) & kMask.
NextIndex(i) == IF i = Slots - 1 THEN 0 ELSE i + 1

\* Faulty IsFull: the ring is taken to hold as many values as it has slots.
IsFullNever(r) == FALSE

\* push: one slot stays free, to tell a full ring from an empty one.
IsFull(r) == NextIndex(r.head) = r.tail

IsEmpty(r) == r.tail = r.head

\* Faulty Written: the value goes into the slot after the head.
WrittenAtNext(r, v) == [r EXCEPT !.slot[NextIndex(r.head)] = v]

\* push: the slot is written, then the head is moved past it.
Written(r, v) == [r EXCEPT !.slot[r.head] = v]
Published(r) == [r EXCEPT !.head = NextIndex(@)]

\* pop: the slot is read, then the tail is moved past it.
Front(r) == r.slot[r.tail]
Freed(r) == [r EXCEPT !.tail = NextIndex(@)]

\* The values between tail and head, oldest first.
Occupied(r) == IF r.tail <= r.head THEN r.head - r.tail ELSE Slots - r.tail + r.head
Contents(r) == [i \in 1 .. Occupied(r) |-> r.slot[(r.tail + i - 1) % Slots]]
=============================================================================
