------------------------ MODULE LoggingSessionProofs ------------------------
(***************************************************************************)
(* Proofs about LoggingSession, for rings of any size, any number of       *)
(* sessions and messages: the two threads never work on the same slot,     *)
(* what a ring has accepted gets into the file in order and once, and a    *)
(* session that is over has its messages.                                  *)
(*                                                                         *)
(* The ring is right because each thread only moves its own index, and     *)
(* what the other thread may do meanwhile keeps what a thread has tested:  *)
(* a consumer can only make a ring less full, a producer less empty        *)
(* (HalfwayOK).  A message is then first written outside of the contents,  *)
(* and added to them by the store of the head (PublishedAppends).          *)
(***************************************************************************)
EXTENDS LoggingSession, SequenceTheorems, TLAPS

Stored == {0} \union Messages

PollSteps   == {"idle", "load", "testFull", "write", "publish"}
Popping     == {"testStop", "pop", "popRead", "popFree", "popWrite"}
Draining    == {"drain", "drainRead", "drainFree", "drainWrite"}
WorkerSteps == {"off", "done"} \union Popping \union Draining
UiSteps     == {"idle", "subscribe", "stopLogging", "clear", "setStop", "wait"}

Posts   == [step : PollSteps, kind : Kinds \union {"none"}, session : 0 .. MaxSessions]
UiCalls == [step : UiSteps, session : 0 .. MaxSessions, why : Kinds \union {"none", "stop", "reload"}]

TypeOK ==
  /\ received \in 0 .. MaxMessages
  /\ poller \in Posts
  /\ ring \in [Sessions -> Ring]
  /\ stop \in [Sessions -> BOOLEAN]
  /\ pc \in [Sessions -> WorkerSteps]
  /\ popped \in [Sessions -> Stored]
  /\ file \in [Sessions -> Seq(Stored)]
  /\ worker \in [Kinds -> 0 .. MaxSessions] /\ conn \in [Kinds -> BOOLEAN]
  /\ started \in 0 .. MaxSessions /\ current \in 0 .. started
  /\ ui \in UiCalls
  /\ recording \in BOOLEAN
  /\ accepted \in [Sessions -> Seq(Stored)]
  /\ due \in [Sessions -> Nat]

\* A post that is under way has a message, a worker from its second step on, and a place in
\* the ring from its third.
PostOK ==
  /\ poller.step # "idle" => received \in Messages
  /\ poller.step = "load" => poller.kind \in Kinds
  /\ poller.step \in {"testFull", "write", "publish"} => poller.session \in Sessions
  /\ poller.step \in {"write", "publish"} => ~IsFull(ring[poller.session])
  /\ poller.step = "publish" => ring[poller.session].slot[ring[poller.session].head] = received

\* A worker that takes a message has a ring with one, and holds the oldest when it frees it.
TakeOK(s) ==
  /\ pc[s] \in {"popRead", "popFree", "drainRead", "drainFree"} => ~IsEmpty(ring[s])
  /\ pc[s] \in {"popFree", "drainFree"} => popped[s] = Front(ring[s])

Kept(s) == accepted[s] = file[s] \o InHand(s) \o Contents(ring[s])

HalfwayOK == PostOK /\ \A s \in Sessions : TakeOK(s) /\ Kept(s)

\* The UI thread ends one session at a time, and the flag is set for those that are ended.
UiOK ==
  /\ ui.step \in {"setStop", "wait"} => current = 0 /\ ui.session \in 1 .. started
  /\ ui.step \notin {"setStop", "wait"} => ui.session = 0
  /\ ui.step = "clear" => current # 0
  /\ ui.step = "subscribe" => ui.why \in Kinds

\* A thread exists from the start of its session, drains once it is told to stop, and has
\* written what was due when it returns.
ThreadOK(s) ==
  /\ pc[s] = "off" <=> s > started
  /\ pc[s] \in Draining \union {"done"} => stop[s]
  /\ stop[s] => /\ s <= started /\ s # current
                /\ ui.step = "setStop" => s # ui.session
  /\ s <= started /\ s # current /\ s # ui.session => pc[s] = "done"
  /\ due[s] <= Len(accepted[s])
  /\ pc[s] = "done" => Len(file[s]) >= due[s]

EndOK == UiOK /\ \A s \in Sessions : ThreadOK(s)

Inv == TypeOK /\ HalfwayOK /\ EndOK

-----------------------------------------------------------------------------
(***************************************************************************)
(* The ring.                                                               *)
(***************************************************************************)

LEMMA SlotsType == Slots \in Nat \ {0}
  BY LoggingAssumption DEF LoggingAssumption

\* What is taken modulo the number of slots has wrapped around once at most.
LEMMA Wrap ==
  ASSUME NEW x \in Nat, x < Slots + Slots
  PROVE  x % Slots = IF x < Slots THEN x ELSE x - Slots
<1> DEFINE q == x \div Slots
           p == q * Slots
<1>1. q \in Int /\ p \in Int /\ x % Slots \in 0 .. Slots - 1 /\ x = p + (x % Slots)
  BY SlotsType, Z3
<1> HIDE DEF p
<1>2. CASE q < 0
  <2>1. p <= 0 - Slots
    BY <1>1, <1>2, SlotsType, Z3 DEF p
  <2>2. QED
    BY <1>1, <2>1, SlotsType
<1>3. CASE q > 1
  <2>1. p >= Slots + Slots
    BY <1>1, <1>3, SlotsType, Z3 DEF p
  <2>2. QED
    BY <1>1, <2>1, SlotsType
<1>4. CASE q = 0
  <2>1. p = 0
    BY <1>4, SlotsType DEF p
  <2>2. QED
    BY <1>1, <2>1, SlotsType
<1>5. CASE q = 1
  <2>1. p = Slots
    BY <1>5, SlotsType DEF p
  <2>2. QED
    BY <1>1, <2>1, SlotsType
<1>6. QED
  BY <1>1, <1>2, <1>3, <1>4, <1>5

\* The slot of the i-th value of a ring.
Place(r, i) == LET p == r.tail + i - 1 IN IF p < Slots THEN p ELSE p - Slots

LEMMA ContentsAre ==
  ASSUME NEW r \in Ring
  PROVE  /\ Occupied(r) \in 0 .. Slots - 1
         /\ \A i \in 1 .. Occupied(r) : Place(r, i) \in Index
         /\ Contents(r) = [i \in 1 .. Occupied(r) |-> r.slot[Place(r, i)]]
         /\ Contents(r) \in Seq(Stored) /\ Len(Contents(r)) = Occupied(r)
<1>1. r.head \in 0 .. Slots - 1 /\ r.tail \in 0 .. Slots - 1 /\ r.slot \in [Index -> Stored]
  BY DEF Ring, Index, Stored
<1>2. Occupied(r) \in 0 .. Slots - 1
  BY <1>1, SlotsType DEF Occupied
<1>3. ASSUME NEW i \in 1 .. Occupied(r)
      PROVE  Place(r, i) \in Index /\ (r.tail + i - 1) % Slots = Place(r, i)
  <2>1. r.tail + i - 1 \in Nat /\ r.tail + i - 1 < Slots + Slots
    BY <1>1, <1>2, SlotsType
  <2> DEFINE x == r.tail + i - 1
  <2>2. x % Slots = IF x < Slots THEN x ELSE x - Slots
    BY <2>1, Wrap
  <2>3. Place(r, i) \in Index
    BY <1>1, <1>2, <2>1, SlotsType DEF Place, Index
  <2>4. x % Slots = Place(r, i)
    BY <2>2 DEF Place
  <2>5. QED
    BY <2>3, <2>4
<1>4. Contents(r) = [i \in 1 .. Occupied(r) |-> r.slot[Place(r, i)]]
  BY <1>3 DEF Contents
<1>5. \A i \in 1 .. Occupied(r) : r.slot[Place(r, i)] \in Stored
  BY <1>1, <1>3
<1>6. QED
  BY <1>2, <1>3, <1>4, <1>5

LEMMA EmptyContents ==
  ASSUME NEW r \in Ring
  PROVE  IsEmpty(r) => Contents(r) = <<>>
<1>1. IsEmpty(r) => Occupied(r) = 0
  BY DEF IsEmpty, Occupied, Ring, Index
<1>2. QED
  BY <1>1, ContentsAre, SlotsType

\* A slot that is written at the head is not among the contents, and is not the front.
LEMMA WrittenOutside ==
  ASSUME NEW r \in Ring, NEW v \in Stored
  PROVE  /\ Written(r, v) \in Ring
         /\ IsFull(Written(r, v)) <=> IsFull(r)
         /\ IsEmpty(Written(r, v)) <=> IsEmpty(r)
         /\ Written(r, v).slot[Written(r, v).head] = v
         /\ Contents(Written(r, v)) = Contents(r)
         /\ ~IsEmpty(r) => Front(Written(r, v)) = Front(r)
<1> DEFINE w == Written(r, v)
<1>1. /\ w \in Ring /\ w.head = r.head /\ w.tail = r.tail
      /\ w.slot = [r.slot EXCEPT ![r.head] = v]
      /\ r.head \in Index /\ r.tail \in Index /\ r.slot \in [Index -> Stored]
  BY DEF Written, Ring, Stored
<1> HIDE DEF w
<1>2. Occupied(w) = Occupied(r) /\ \A i : Place(w, i) = Place(r, i)
  BY <1>1 DEF Occupied, Place
<1>3. \A i \in 1 .. Occupied(r) : Place(r, i) # r.head
  BY <1>1, SlotsType DEF Occupied, Place, Index
<1>4. \A i \in 1 .. Occupied(r) : w.slot[Place(w, i)] = r.slot[Place(r, i)]
  BY <1>1, <1>2, <1>3, ContentsAre
<1>5. Contents(w) = Contents(r)
  BY <1>1, <1>2, <1>4, ContentsAre
<1>6. QED
  BY <1>1, <1>5 DEF w, IsFull, IsEmpty, Front

\* Moving the head past a slot adds its value at the end of the contents.
LEMMA PublishedAppends ==
  ASSUME NEW r \in Ring, ~IsFull(r)
  PROVE  /\ Published(r) \in Ring /\ ~IsEmpty(Published(r))
         /\ Contents(Published(r)) = Append(Contents(r), r.slot[r.head])
         /\ Front(Published(r)) = IF IsEmpty(r) THEN r.slot[r.head] ELSE Front(r)
<1> DEFINE w == Published(r)
           n == Occupied(r)
<1>1. /\ w \in Ring /\ w.head = NextIndex(r.head) /\ w.tail = r.tail /\ w.slot = r.slot
      /\ r.head \in Index /\ r.tail \in Index /\ r.slot \in [Index -> Stored]
  BY SlotsType DEF Published, Ring, Stored, NextIndex, Index
<1> HIDE DEF w
<1>2. NextIndex(r.head) # r.tail
  BY DEF IsFull
<1>3. Occupied(w) = n + 1 /\ n \in Nat
  BY <1>1, <1>2, SlotsType DEF Occupied, NextIndex, Index
<1>4. \A i : Place(w, i) = Place(r, i)
  BY <1>1 DEF Place
<1>5. Place(r, n + 1) = r.head
  BY <1>1, <1>2, SlotsType DEF Place, Occupied, Index
<1> HIDE DEF n
<1>6. Contents(w) = [i \in 1 .. n + 1 |-> r.slot[Place(r, i)]]
  BY <1>1, <1>3, <1>4, ContentsAre
<1>7. Contents(r) = [i \in 1 .. n |-> r.slot[Place(r, i)]] /\ Len(Contents(r)) = n
  BY ContentsAre DEF n
<1>8. Contents(w) = Append(Contents(r), r.slot[r.head])
  <2> DEFINE t == Append(Contents(r), r.slot[r.head])
  <2>1. t \in Seq(Stored) /\ Len(t) = n + 1 /\ Contents(w) \in Seq(Stored)
        /\ Len(Contents(w)) = n + 1
    BY <1>1, <1>3, <1>7, ContentsAre, AppendProperties
  <2>2. ASSUME NEW i \in 1 .. n + 1
        PROVE  t[i] = Contents(w)[i]
    <3>1. CASE i = n + 1
      BY <1>1, <1>3, <1>5, <1>6, <1>7, <3>1, ContentsAre, AppendProperties
    <3>2. CASE i \in 1 .. n
      BY <1>1, <1>3, <1>6, <1>7, <3>2, ContentsAre, AppendProperties
    <3>3. i = n + 1 \/ i \in 1 .. n
      BY <1>3
    <3> HIDE DEF t
    <3>4. QED
      BY <3>1, <3>2, <3>3
  <2>3. QED
    BY <1>3, <2>1, <2>2, SeqEqual
<1>9. ~IsEmpty(w) /\ Front(w) = IF IsEmpty(r) THEN r.slot[r.head] ELSE Front(r)
  BY <1>1, <1>2 DEF IsEmpty, Front
<1>10. QED
  BY <1>1, <1>8, <1>9 DEF w

\* Moving the tail past a slot takes its value from the front of the contents.
LEMMA FreedTakes ==
  ASSUME NEW r \in Ring, ~IsEmpty(r)
  PROVE  /\ Freed(r) \in Ring /\ ~IsFull(Freed(r))
         /\ Front(r) \in Stored
         /\ Contents(r) = <<Front(r)>> \o Contents(Freed(r))
<1> DEFINE w == Freed(r)
           n == Occupied(w)
           t == <<Front(r)>> \o Contents(w)
<1>1. /\ w \in Ring /\ w.head = r.head /\ w.tail = NextIndex(r.tail) /\ w.slot = r.slot
      /\ r.head \in Index /\ r.tail \in Index /\ r.slot \in [Index -> Stored]
  BY SlotsType DEF Freed, Ring, Stored, NextIndex, Index
<1> HIDE DEF w
<1>2. r.tail # r.head
  BY DEF IsEmpty
<1>3. Occupied(r) = n + 1 /\ n \in Nat
  BY <1>1, <1>2, SlotsType DEF Occupied, NextIndex, Index
<1>4. Place(r, 1) = r.tail
  BY <1>1, SlotsType DEF Place, Index
<1>5. \A i \in 1 .. n : Place(r, i + 1) = Place(w, i)
  BY <1>1, <1>2, SlotsType DEF Place, Occupied, NextIndex, Index
<1> HIDE DEF n
<1>6. Contents(r) = [i \in 1 .. n + 1 |-> r.slot[Place(r, i)]] /\ Len(Contents(r)) = n + 1
  BY <1>3, ContentsAre
<1>7. Contents(w) = [i \in 1 .. n |-> r.slot[Place(w, i)]] /\ Len(Contents(w)) = n
  BY <1>1, ContentsAre DEF n
<1>8. <<Front(r)>> \in Seq(Stored) /\ Len(<<Front(r)>>) = 1 /\ Front(r) \in Stored
  BY <1>1 DEF Front
<1>9. Contents(r) = t
  <2>1. /\ t \in Seq(Stored) /\ Len(t) = n + 1 /\ Contents(r) \in Seq(Stored)
        /\ \A i \in 1 .. n + 1 :
             t[i] = IF i <= 1 THEN <<Front(r)>>[i] ELSE Contents(w)[i - 1]
    BY <1>1, <1>3, <1>7, <1>8, ContentsAre, ConcatProperties
  <2>2. ASSUME NEW i \in 1 .. n + 1
        PROVE  t[i] = Contents(r)[i]
    <3>1. CASE i = 1
      BY <1>3, <1>4, <1>6, <2>1, <3>1 DEF Front
    <3>2. CASE i # 1
      <4>1. i - 1 \in 1 .. n /\ (i - 1) + 1 = i
        BY <1>3, <3>2
      <4> HIDE DEF t
      <4>2. t[i] = r.slot[Place(w, i - 1)]
        BY <1>3, <1>7, <2>1, <3>2, <4>1
      <4>3. Place(r, i) = Place(w, i - 1)
        BY <1>5, <4>1
      <4>4. QED
        BY <1>6, <4>2, <4>3
    <3>3. QED
      BY <3>1, <3>2
  <2> HIDE DEF t
  <2>3. QED
    BY <1>3, <1>6, <2>1, <2>2, SeqEqual
<1>10. ~IsFull(w)
  BY <1>1, <1>2, SlotsType DEF IsFull, NextIndex, Index
<1>11. QED
  BY <1>1, <1>8, <1>9, <1>10 DEF w, t

-----------------------------------------------------------------------------
(***************************************************************************)
(* Types.                                                                  *)
(***************************************************************************)

LEMMA SessionsType == Sessions = 1 .. MaxSessions /\ Messages = 1 .. MaxMessages
                      /\ MaxMessages \in Nat /\ MaxSessions \in Nat
  BY LoggingAssumption DEF LoggingAssumption, Sessions, Messages

LEMMA InitInv == Init => Inv
<1> SUFFICES ASSUME Init PROVE Inv
  OBVIOUS
<1> USE DEF Init
<1>1. EmptyRing(0) \in Ring /\ IsEmpty(EmptyRing(0))
  BY SlotsType DEF EmptyRing, Ring, Index, IsEmpty
<1>2. TypeOK
  <2>1. poller \in Posts /\ ui \in UiCalls
    BY SessionsType DEF PollIdle, UiIdle, PollSteps, UiSteps, Posts, UiCalls
  <2>2. <<>> \in Seq(Stored)
    OBVIOUS
  <2>3. started \in 0 .. MaxSessions /\ current \in 0 .. started /\ received \in 0 .. MaxMessages
    BY SessionsType
  <2>4. worker \in [Kinds -> 0 .. MaxSessions]
    BY SessionsType
  <2>5. conn \in [Kinds -> BOOLEAN] /\ stop \in [Sessions -> BOOLEAN]
    OBVIOUS
  <2>6. recording \in BOOLEAN
    BY Zenon
  <2>7. /\ ring \in [Sessions -> Ring] /\ pc \in [Sessions -> WorkerSteps]
        /\ popped \in [Sessions -> Stored]
    BY <1>1 DEF WorkerSteps, Stored
  <2>8. /\ file \in [Sessions -> Seq(Stored)] /\ accepted \in [Sessions -> Seq(Stored)]
        /\ due \in [Sessions -> Nat]
    BY <2>2
  <2>9. QED
    BY <2>1, <2>3, <2>4, <2>5, <2>6, <2>7, <2>8 DEF TypeOK
<1>3. PostOK
  BY DEF PostOK, PollIdle
<1>4. ASSUME NEW s \in Sessions
      PROVE  TakeOK(s) /\ Kept(s)
  <2>1. Contents(ring[s]) = <<>>
    BY <1>1, EmptyContents
  <2>2. accepted[s] = <<>> /\ file[s] = <<>> /\ InHand(s) = <<>>
    BY DEF InHand
  <2>3. <<>> = (<<>> \o <<>>) \o <<>>
    BY ConcatEmptySeq
  <2>4. QED
    BY <2>1, <2>2, <2>3 DEF TakeOK, Kept
<1>5. EndOK
  BY SessionsType DEF EndOK, UiOK, ThreadOK, UiIdle, Draining, Sessions
<1>6. QED
  BY <1>2, <1>3, <1>4, <1>5 DEF Inv, HalfwayOK

LEMMA PollIdleType == PollIdle \in Posts
  BY SessionsType DEF PollIdle, Posts, PollSteps

LEMMA PollStepType ==
  ASSUME poller \in Posts, NEW label \in PollSteps, PollStep(label)
  PROVE  poller' \in Posts
  BY DEF PollStep, Posts

LEMMA PollType ==
  ASSUME Inv, (\E k \in Kinds : Receive(k)) \/ Post
  PROVE  TypeOK'
<1> USE DEF Inv, TypeOK
<1>1. ASSUME NEW k \in Kinds, Receive(k)
      PROVE  TypeOK'
  <2>1. received' \in 0 .. MaxMessages
    <3> HIDE DEF TypeOK
    <3>1. received \in 0 .. MaxMessages
      BY DEF TypeOK
    <3>2. received < MaxMessages /\ received' = received + 1
      BY <1>1 DEF Receive
    <3>3. MaxMessages \in Nat
      BY SessionsType
    <3> HIDE DEF Inv
    <3>4. QED
      BY ONLY <3>1, <3>2, <3>3
  <2>2. poller' \in Posts
    BY <1>1, SessionsType DEF Receive, PollIdle, PollSteps, Posts
  <2>3. QED
    BY <1>1, <2>1, <2>2 DEF Receive, workerVars, uiVars
<1>2. CASE LoadWorker
  <2>1. poller.kind \in Kinds
    BY <1>2 DEF LoadWorker, HalfwayOK, PostOK
  <2>2. poller' \in Posts
    BY <1>2, <2>1, PollIdleType DEF LoadWorker, PollSteps, Posts
  <2>3. QED
    BY <1>2, <2>2 DEF LoadWorker, workerVars, uiVars
<1>3. CASE TestFull
  <2>1. poller' \in Posts
    BY <1>3, PollIdleType, PollStepType DEF TestFull, PollSteps
  <2>2. QED
    BY <1>3, <2>1 DEF TestFull, workerVars, uiVars
<1>4. CASE WriteSlot
  <2>1. poller.session \in Sessions /\ received \in Stored
    BY <1>4 DEF WriteSlot, HalfwayOK, PostOK, Stored
  <2>2. ring' \in [Sessions -> Ring]
    BY <1>4, <2>1, WrittenOutside DEF WriteSlot
  <2>3. poller' \in Posts
    BY <1>4, PollStepType DEF WriteSlot, PollSteps
  <2>4. QED
    BY <1>4, <2>2, <2>3 DEF WriteSlot, workerVars, uiVars
<1>5. CASE PublishSlot
  <2>1. poller.session \in Sessions /\ received \in Stored /\ ~IsFull(ring[poller.session])
    BY <1>5 DEF PublishSlot, HalfwayOK, PostOK, Stored
  <2>2. ring' \in [Sessions -> Ring]
    BY <1>5, <2>1, PublishedAppends DEF PublishSlot
  <2>3. accepted' \in [Sessions -> Seq(Stored)]
    BY <1>5, <2>1, AppendProperties DEF PublishSlot
  <2>4. poller' \in Posts
    BY <1>5, PollIdleType DEF PublishSlot
  <2>5. QED
    BY <1>5, <2>2, <2>3, <2>4 DEF PublishSlot, workerVars, uiVars
<1>6. QED
  BY <1>1, <1>2, <1>3, <1>4, <1>5 DEF Post

LEMMA WorkerType ==
  ASSUME Inv, NEW s \in Sessions, Worker(s)
  PROVE  TypeOK'
<1> USE DEF Inv, TypeOK, Goto
<1>1. ring[s] \in Ring /\ TakeOK(s)
  BY DEF HalfwayOK
<1>2. pc' \in [Sessions -> WorkerSteps]
  BY DEF Worker, TestStop, TestEmpty, ReadSlot, FreeSlot, WriteMessage, WorkerSteps, Popping,
         Draining
<1>3. CASE TestStop(s) \/ TestEmpty(s)
  BY <1>2, <1>3 DEF TestStop, TestEmpty, pollVars, uiVars
<1>4. CASE ReadSlot(s)
  <2>1. Front(ring[s]) \in Stored
    BY <1>1, <1>4, FreedTakes DEF ReadSlot, TakeOK
  <2>2. QED
    BY <1>2, <1>4, <2>1 DEF ReadSlot, pollVars, uiVars
<1>5. CASE FreeSlot(s)
  <2>1. Freed(ring[s]) \in Ring
    BY <1>1, <1>5, FreedTakes DEF FreeSlot, TakeOK
  <2>2. QED
    BY <1>2, <1>5, <2>1 DEF FreeSlot, pollVars, uiVars
<1>6. CASE WriteMessage(s)
  <2>1. file' \in [Sessions -> Seq(Stored)]
    BY <1>6, AppendProperties DEF WriteMessage
  <2>2. popped' \in [Sessions -> Stored]
    BY <1>6 DEF WriteMessage, Stored
  <2>3. QED
    BY <1>2, <1>6, <2>1, <2>2 DEF WriteMessage, pollVars, uiVars
<1>7. QED
  BY <1>3, <1>4, <1>5, <1>6 DEF Worker

LEMMA UiType ==
  ASSUME Inv, User \/ UpdateDbcConfig \/ UiProceeds
  PROVE  TypeOK'
<1> USE DEF Inv, TypeOK
<1>1. /\ UiIdle \in UiCalls /\ ui.why \in Kinds \union {"none", "stop", "reload"}
      /\ ui.session \in 0 .. MaxSessions
  BY SessionsType DEF UiIdle, UiCalls, UiSteps
<1>2. ASSUME NEW k \in Kinds, StartLogging(k)
      PROVE  TypeOK'
  <2>1. started' \in 1 .. MaxSessions /\ current' = started'
    BY <1>2, SessionsType DEF StartLogging
  <2>2. pc' \in [Sessions -> WorkerSteps] /\ worker' \in [Kinds -> 0 .. MaxSessions]
    BY <1>2, <2>1, SessionsType DEF StartLogging, Goto, WorkerSteps, Popping
  <2>3. ui' \in UiCalls
    BY <1>2, SessionsType DEF StartLogging, UiIdle, UiCalls, UiSteps
  <2>4. QED
    BY <1>2, <2>1, <2>2, <2>3, SessionsType DEF StartLogging, pollVars
<1>3. CASE ClickStop \/ UpdateDbcConfig
  <2>1. ui' \in UiCalls
    <3>1. CASE ClickStop
      BY <1>1, <3>1, SessionsType DEF ClickStop, UiCalls, UiSteps
    <3>2. CASE UpdateDbcConfig
      BY <1>1, <3>2, SessionsType DEF UpdateDbcConfig, UiCalls, UiSteps
    <3>3. QED
      BY <1>3, <3>1, <3>2
  <2>2. QED
    BY <1>3, <2>1 DEF ClickStop, UpdateDbcConfig, pollVars, workerVars
<1>4. CASE Subscribe
  <2>1. ui.why \in Kinds
    BY <1>4 DEF EndOK, UiOK, Subscribe
  <2>2. QED
    BY <1>1, <1>4, <2>1 DEF Subscribe, pollVars, workerVars
<1>5. CASE StopLogging
  <2>1. ui' \in UiCalls
    BY <1>1, <1>5, SessionsType DEF StopLogging, UiIdle, UiCalls, UiSteps
  <2>2. conn' \in [Kinds -> BOOLEAN]
    BY <1>5 DEF StopLogging
  <2>3. QED
    BY <1>5, <2>1, <2>2 DEF StopLogging, pollVars, workerVars
<1>6. CASE ClearWorker
  <2>1. current \in Sessions
    BY <1>6, SessionsType DEF ClearWorker, EndOK, UiOK
  <2>2. due' \in [Sessions -> Nat]
    BY <1>6, <2>1, LenProperties DEF ClearWorker
  <2>3. ui' \in UiCalls
    <3>1. current \in 0 .. MaxSessions
      BY SessionsType
    <3>2. QED
      BY <1>6, <3>1 DEF ClearWorker, UiCalls, UiSteps
  <2>4. QED
    BY <1>6, <2>2, <2>3, SessionsType DEF ClearWorker, pollVars, workerVars
<1>7. CASE SetStop
  <2>1. ui' \in UiCalls
    BY <1>7 DEF SetStop, UiStep, UiCalls, UiSteps
  <2>2. QED
    BY <1>7, <2>1 DEF SetStop, pollVars, workerVars
<1>8. CASE Joined
  BY <1>1, <1>8 DEF Joined, pollVars, workerVars
<1>9. QED
  BY <1>2, <1>3, <1>4, <1>5, <1>6, <1>7, <1>8 DEF User, UiProceeds

-----------------------------------------------------------------------------
(***************************************************************************)
(* The ring between its two threads.                                       *)
(***************************************************************************)

LEMMA AppendToConcat ==
  ASSUME NEW x \in Seq(Stored), NEW y \in Seq(Stored), NEW e \in Stored
  PROVE  Append(x \o y, e) = x \o Append(y, e)
<1>1. x \o y \in Seq(Stored) /\ <<e>> \in Seq(Stored)
  BY ConcatProperties
<1>2. Append(x \o y, e) = (x \o y) \o <<e>> /\ Append(y, e) = y \o <<e>>
  BY <1>1, AppendIsConcat
<1>3. QED
  BY <1>1, <1>2, ConcatAssociative

LEMMA InHandType ==
  ASSUME TypeOK, NEW s \in Sessions
  PROVE  InHand(s) \in Seq(Stored)
  BY DEF TypeOK, InHand

\* What the polling thread and the user interface leave alone of a session is kept.
LEMMA SameKept ==
  ASSUME NEW s \in Sessions, TakeOK(s), Kept(s),
         ring'[s] = ring[s], accepted'[s] = accepted[s], file'[s] = file[s],
         popped'[s] = popped[s], pc'[s] = pc[s]
  PROVE  TakeOK(s)' /\ Kept(s)'
  BY DEF TakeOK, Kept, InHand

LEMMA PollHalfway ==
  ASSUME Inv, (\E k \in Kinds : Receive(k)) \/ Post
  PROVE  HalfwayOK'
<1>1. /\ received \in 0 .. MaxMessages /\ poller \in Posts /\ ring \in [Sessions -> Ring]
      /\ accepted \in [Sessions -> Seq(Stored)] /\ file \in [Sessions -> Seq(Stored)]
  BY DEF Inv, TypeOK
<1>2. PostOK /\ \A s \in Sessions : TakeOK(s) /\ Kept(s)
  BY DEF Inv, HalfwayOK
<1>3. UNCHANGED <<pc, popped, file>>
  BY DEF Post, Receive, LoadWorker, TestFull, WriteSlot, PublishSlot, workerVars
<1>4. ASSUME UNCHANGED <<ring, accepted>>
      PROVE  \A s \in Sessions : TakeOK(s)' /\ Kept(s)'
  BY <1>2, <1>3, <1>4, SameKept
<1>5. ASSUME NEW k \in Kinds, Receive(k)
      PROVE  HalfwayOK'
  <2>1. received' \in Messages
    <3>1. received < MaxMessages /\ received' = received + 1
      BY <1>5 DEF Receive
    <3>2. QED
      BY <1>1, <3>1, SessionsType
  <2>2. PostOK'
    BY <1>5, <2>1 DEF PostOK, Receive, PollIdle
  <2>3. QED
    BY <1>4, <1>5, <2>2 DEF Receive, HalfwayOK
<1>6. CASE LoadWorker
  <2>1. poller.kind \in Kinds /\ received \in Messages
    BY <1>2, <1>6 DEF LoadWorker, PostOK
  <2>2. worker[poller.kind] # 0 => worker[poller.kind] \in Sessions
    BY <2>1, SessionsType DEF Inv, TypeOK
  <2>3. PostOK'
    BY <1>1, <1>6, <2>1, <2>2 DEF LoadWorker, PostOK, PollIdle, Posts
  <2>4. QED
    BY <1>4, <1>6, <2>3 DEF LoadWorker, HalfwayOK
<1>7. CASE TestFull
  <2>1. UNCHANGED <<received, ring, accepted>>
    BY <1>7 DEF TestFull
  <2>2. ASSUME poller' = PollIdle
        PROVE  PostOK'
    <3>1. poller'.step = "idle"
      BY <2>2 DEF PollIdle
    <3>2. QED
      BY <3>1 DEF PostOK
  <2>3. ASSUME ~IsFull(ring[poller.session]), PollStep("write")
        PROVE  PostOK'
    <3>1. poller.session \in Sessions /\ received \in Messages
      BY <1>2, <1>7 DEF TestFull, PostOK
    <3>2. poller'.step = "write" /\ poller'.session = poller.session
      BY <1>1, <2>3 DEF PollStep, Posts
    <3>3. received' \in Messages /\ ~IsFull(ring'[poller'.session])
      BY <2>1, <2>3, <3>1, <3>2
    <3>4. QED
      BY <3>1, <3>2, <3>3 DEF PostOK
  <2>4. QED
    BY <1>4, <1>7, <2>1, <2>2, <2>3 DEF TestFull, HalfwayOK
<1>8. CASE WriteSlot
  <2>1. PICK p \in Sessions : p = poller.session /\ received \in Messages /\ ~IsFull(ring[p])
    BY <1>2, <1>8 DEF WriteSlot, PostOK
  <2>2. /\ ring' = [ring EXCEPT ![p] = Written(ring[p], received)]
        /\ received' = received /\ accepted' = accepted
        /\ poller' = [poller EXCEPT !.step = "publish"]
    BY <1>8, <2>1 DEF WriteSlot, PollStep
  <2>3. ring[p] \in Ring /\ received \in Stored /\ ring'[p] = Written(ring[p], received)
    BY <1>1, <2>1, <2>2 DEF Stored
  <2>4. PostOK'
    BY <1>1, <2>1, <2>2, <2>3, WrittenOutside DEF PostOK, Posts
  <2>5. TakeOK(p)' /\ Kept(p)'
    <3>1. TakeOK(p) /\ Kept(p)
      BY <1>2, <2>1
    <3>2. TakeOK(p)'
      BY <1>3, <2>3, <3>1, WrittenOutside DEF TakeOK
    <3>3. Kept(p)'
      <4>1. Contents(ring'[p]) = Contents(ring[p])
        BY <2>3, WrittenOutside, Zenon
      <4>2. UNCHANGED <<accepted, file, InHand(p)>>
        BY <1>3, <2>2 DEF InHand
      <4>3. QED
        BY <3>1, <4>1, <4>2 DEF Kept
    <3>4. QED
      BY <3>2, <3>3
  <2>6. ASSUME NEW s \in Sessions, s # p
        PROVE  TakeOK(s)' /\ Kept(s)'
    BY <1>1, <1>2, <1>3, <2>2, <2>6, SameKept
  <2>7. QED
    BY <2>4, <2>5, <2>6 DEF HalfwayOK
<1>9. CASE PublishSlot
  <2>1. PICK p \in Sessions : /\ p = poller.session /\ received \in Messages
                              /\ ~IsFull(ring[p]) /\ ring[p].slot[ring[p].head] = received
    BY <1>2, <1>9 DEF PublishSlot, PostOK
  <2>2. /\ ring' = [ring EXCEPT ![p] = Published(ring[p])]
        /\ accepted' = [accepted EXCEPT ![p] = Append(accepted[p], received)]
        /\ poller' = PollIdle
    BY <1>9, <2>1 DEF PublishSlot
  <2>3. /\ ring[p] \in Ring /\ received \in Stored /\ ring'[p] = Published(ring[p])
        /\ accepted'[p] = Append(accepted[p], received)
    BY <1>1, <2>1, <2>2 DEF Stored
  <2>4. PostOK'
    BY <2>2 DEF PostOK, PollIdle
  <2>5. TakeOK(p)' /\ Kept(p)'
    <3>1. TakeOK(p) /\ Kept(p)
      BY <1>2, <2>1
    <3>2. TakeOK(p)'
      BY <1>3, <2>1, <2>3, <3>1, PublishedAppends DEF TakeOK
    <3>3. Contents(ring'[p]) = Append(Contents(ring[p]), received)
      BY <2>1, <2>3, PublishedAppends
    <3>4. Contents(ring[p]) \in Seq(Stored) /\ file[p] \o InHand(p) \in Seq(Stored)
      BY <1>1, <2>1, <2>3, ContentsAre, InHandType, ConcatProperties DEF Inv
    <3>5. accepted'[p] = (file[p] \o InHand(p)) \o Append(Contents(ring[p]), received)
      <4> DEFINE x == file[p] \o InHand(p)
                 c == Contents(ring[p])
      <4>1. x \in Seq(Stored) /\ c \in Seq(Stored) /\ received \in Stored
        BY <2>3, <3>4
      <4>2. accepted'[p] = Append(x \o c, received)
        BY <2>3, <3>1 DEF Kept
      <4> HIDE DEF x, c
      <4>3. Append(x \o c, received) = x \o Append(c, received)
        BY <4>1, AppendToConcat
      <4>4. QED
        BY <4>2, <4>3 DEF x, c
    <3>6. file'[p] = file[p] /\ InHand(p)' = InHand(p)
      BY <1>3 DEF InHand
    <3>7. Kept(p)'
      BY <3>3, <3>5, <3>6 DEF Kept
    <3>8. QED
      BY <3>2, <3>7
  <2>6. ASSUME NEW s \in Sessions, s # p
        PROVE  TakeOK(s)' /\ Kept(s)'
    BY <1>1, <1>2, <1>3, <2>2, <2>6, SameKept
  <2>7. QED
    BY <2>4, <2>5, <2>6 DEF HalfwayOK
<1>10. QED
  BY <1>5, <1>6, <1>7, <1>8, <1>9 DEF Post

LEMMA WorkerHalfway ==
  ASSUME Inv, NEW w \in Sessions, Worker(w)
  PROVE  HalfwayOK'
<1>1. /\ poller \in Posts /\ ring \in [Sessions -> Ring] /\ pc \in [Sessions -> WorkerSteps]
      /\ popped \in [Sessions -> Stored] /\ file \in [Sessions -> Seq(Stored)]
      /\ InHand(w) \in Seq(Stored)
  BY InHandType DEF Inv, TypeOK
<1>2. PostOK /\ TakeOK(w) /\ Kept(w) /\ \A s \in Sessions : TakeOK(s) /\ Kept(s)
  BY DEF Inv, HalfwayOK
<1>3. ring[w] \in Ring /\ Contents(ring[w]) \in Seq(Stored)
  BY <1>1, ContentsAre
<1>4. UNCHANGED pollVars
  BY DEF Worker, TestStop, TestEmpty, ReadSlot, FreeSlot, WriteMessage
<1>5. \A s \in Sessions \ {w} : /\ ring'[s] = ring[s] /\ file'[s] = file[s]
                               /\ popped'[s] = popped[s] /\ pc'[s] = pc[s]
  BY <1>1 DEF Worker, TestStop, TestEmpty, ReadSlot, FreeSlot, WriteMessage, Goto
<1>6. ASSUME NEW s \in Sessions, s # w
      PROVE  TakeOK(s)' /\ Kept(s)'
  BY <1>2, <1>4, <1>5, <1>6, SameKept DEF pollVars
<1>7. ASSUME UNCHANGED ring
      PROVE  PostOK'
  BY <1>2, <1>4, <1>7 DEF PostOK, pollVars
<1>8. SUFFICES PostOK' /\ TakeOK(w)' /\ Kept(w)'
  BY <1>6 DEF HalfwayOK
<1>9. CASE TestStop(w) \/ TestEmpty(w)
  <2>1. UNCHANGED <<ring, popped, file>>
    BY <1>9 DEF TestStop, TestEmpty
  <2>2. /\ pc[w] \in {"testStop", "pop", "drain"}
        /\ pc'[w] \in {"drain", "pop", "popRead", "drainRead", "testStop", "done"}
        /\ pc'[w] \in {"popRead", "drainRead"} => ~IsEmpty(ring[w])
    BY <1>1, <1>9 DEF TestStop, TestEmpty, Goto
  <2>3. TakeOK(w)'
    BY <2>1, <2>2 DEF TakeOK
  <2>4. InHand(w)' = InHand(w)
    BY <2>2 DEF InHand
  <2>5. QED
    BY <1>2, <1>4, <1>7, <2>1, <2>3, <2>4 DEF Kept, pollVars
<1>10. CASE ReadSlot(w)
  <2>1. /\ UNCHANGED <<ring, file>> /\ popped'[w] = Front(ring[w])
        /\ pc[w] \in {"popRead", "drainRead"} /\ pc'[w] \in {"popFree", "drainFree"}
    BY <1>1, <1>10 DEF ReadSlot, Goto
  <2>2. TakeOK(w)'
    BY <1>2, <2>1 DEF TakeOK
  <2>3. InHand(w)' = InHand(w)
    BY <2>1 DEF InHand
  <2>4. QED
    BY <1>2, <1>4, <1>7, <2>1, <2>2, <2>3 DEF Kept, pollVars
<1>11. CASE FreeSlot(w)
  <2>1. /\ UNCHANGED <<popped, file>> /\ ring' = [ring EXCEPT ![w] = Freed(ring[w])]
        /\ pc[w] \in {"popFree", "drainFree"} /\ pc'[w] \in {"popWrite", "drainWrite"}
    BY <1>1, <1>11 DEF FreeSlot, Goto
  <2>2. ~IsEmpty(ring[w]) /\ popped[w] = Front(ring[w]) /\ ring'[w] = Freed(ring[w])
    BY <1>1, <1>2, <2>1 DEF TakeOK
  <2>3. PostOK'
    <3>1. /\ ~IsFull(Freed(ring[w])) /\ Freed(ring[w]).head = ring[w].head
          /\ Freed(ring[w]).slot = ring[w].slot
      BY <1>3, <2>2, FreedTakes DEF Freed, Ring
    <3>2. QED
      BY <1>1, <1>2, <1>4, <2>1, <3>1 DEF PostOK, pollVars
  <2>4. TakeOK(w)'
    BY <2>1 DEF TakeOK
  <2>5. InHand(w) = <<>> /\ InHand(w)' = <<Front(ring[w])>>
    BY <2>1, <2>2 DEF InHand
  <2> DEFINE f == <<Front(ring[w])>>
             c == Contents(Freed(ring[w]))
  <2>6. f \in Seq(Stored) /\ c \in Seq(Stored) /\ Contents(ring[w]) = f \o c
    BY <1>3, <2>2, FreedTakes, ContentsAre
  <2>7. accepted[w] = file[w] \o Contents(ring[w])
    <3>1. file[w] \in Seq(Stored) /\ file[w] \o <<>> = file[w]
      BY <1>1, ConcatEmptySeq
    <3>2. QED
      BY <1>2, <2>5, <3>1 DEF Kept
  <2> HIDE DEF f, c
  <2>8. accepted[w] = (file[w] \o f) \o c
    <3>1. (file[w] \o f) \o c = file[w] \o (f \o c)
      BY <1>1, <2>6, ConcatAssociative
    <3>2. QED
      BY <2>6, <2>7, <3>1
  <2>9. accepted'[w] = accepted[w] /\ file'[w] = file[w]
    BY <1>4, <2>1 DEF pollVars
  <2>10. Kept(w)'
    BY <2>2, <2>5, <2>8, <2>9 DEF Kept, f, c
  <2>11. QED
    BY <2>3, <2>4, <2>10
<1>12. CASE WriteMessage(w)
  <2>1. /\ UNCHANGED ring /\ file'[w] = Append(file[w], popped[w])
        /\ pc[w] \in {"popWrite", "drainWrite"} /\ pc'[w] \in {"pop", "drain"}
    BY <1>1, <1>12 DEF WriteMessage, Goto
  <2>2. TakeOK(w)'
    BY <2>1 DEF TakeOK
  <2>3. InHand(w) = <<popped[w]>> /\ InHand(w)' = <<>>
    BY <2>1 DEF InHand
  <2>4. file'[w] = file[w] \o InHand(w) /\ file'[w] \in Seq(Stored)
    BY <1>1, <2>1, <2>3, AppendIsConcat, AppendProperties
  <2>5. file'[w] \o InHand(w)' = file'[w]
    BY <2>3, <2>4, ConcatEmptySeq
  <2>6. Kept(w)'
    BY <1>2, <1>4, <2>1, <2>4, <2>5 DEF Kept, pollVars
  <2>7. QED
    BY <1>7, <2>1, <2>2, <2>6
<1>13. QED
  BY <1>9, <1>10, <1>11, <1>12 DEF Worker

LEMMA UiHalfway ==
  ASSUME Inv, User \/ UpdateDbcConfig \/ UiProceeds
  PROVE  HalfwayOK'
<1>1. PostOK /\ \A s \in Sessions : TakeOK(s) /\ Kept(s)
  BY DEF Inv, HalfwayOK
<1>2. UNCHANGED <<pollVars, ring, popped, file>>
  BY DEF User, UiProceeds, StartLogging, ClickStop, UpdateDbcConfig, Subscribe, StopLogging,
         ClearWorker, SetStop, Joined, workerVars
<1>3. PostOK'
  BY <1>1, <1>2 DEF PostOK, pollVars
<1>4. ASSUME NEW s \in Sessions
      PROVE  \/ pc'[s] = pc[s]
             \/ pc[s] = "off" /\ pc'[s] = "testStop"
  <2>1. ASSUME NEW k \in Kinds, StartLogging(k)
        PROVE  /\ pc' = [pc EXCEPT ![started + 1] = "testStop"]
               /\ started + 1 \in Sessions /\ pc[started + 1] = "off"
    <3>1. started \in Nat /\ started + 1 \in Sessions /\ started + 1 > started
      BY <2>1, SessionsType DEF StartLogging, Inv, TypeOK
    <3>2. pc[started + 1] = "off"
      BY <3>1 DEF Inv, EndOK, ThreadOK
    <3>3. QED
      BY <2>1, <3>1, <3>2 DEF StartLogging, Goto
  <2>2. CASE pc' = pc
    BY <2>2
  <2>3. ClickStop \/ UpdateDbcConfig \/ UiProceeds => pc' = pc
    BY DEF UiProceeds, ClickStop, UpdateDbcConfig, Subscribe, StopLogging, ClearWorker,
           SetStop, Joined, workerVars
  <2>4. pc \in [Sessions -> WorkerSteps]
    BY DEF Inv, TypeOK
  <2>5. QED
    BY <2>1, <2>2, <2>3, <2>4 DEF User
<1>5. ASSUME NEW s \in Sessions
      PROVE  TakeOK(s)' /\ Kept(s)'
  <2>1. TakeOK(s) /\ Kept(s)
    BY <1>1
  <2>2. CASE pc'[s] = pc[s]
    BY <1>2, <2>1, <2>2, SameKept DEF pollVars
  <2>3. CASE pc[s] = "off" /\ pc'[s] = "testStop"
    BY <1>2, <2>1, <2>3 DEF TakeOK, Kept, InHand, pollVars
  <2>4. QED
    BY <1>4, <2>2, <2>3
<1>6. QED
  BY <1>3, <1>5 DEF HalfwayOK

-----------------------------------------------------------------------------
(***************************************************************************)
(* The end of a session.                                                   *)
(***************************************************************************)

LEMMA PollEnd ==
  ASSUME Inv, (\E k \in Kinds : Receive(k)) \/ Post
  PROVE  EndOK'
<1>1. UNCHANGED <<pc, popped, file, stop, worker, conn, started, current, ui, recording, due>>
  BY DEF Post, Receive, LoadWorker, TestFull, WriteSlot, PublishSlot, workerVars, uiVars
<1>2. UiOK /\ \A s \in Sessions : ThreadOK(s)
  BY DEF Inv, EndOK
<1>3. UiOK'
  BY <1>1, <1>2 DEF UiOK
<1>4. ASSUME NEW s \in Sessions
      PROVE  ThreadOK(s)'
  <2>1. due[s] \in Nat /\ Len(accepted[s]) \in Nat
    BY LenProperties DEF Inv, TypeOK
  <2>2. Len(accepted'[s]) = Len(accepted[s]) \/ Len(accepted'[s]) = Len(accepted[s]) + 1
    <3>1. CASE accepted' = accepted
      BY <3>1
    <3>2. CASE PublishSlot
      <4>1. accepted[s] \in Seq(Stored) /\ received \in Stored
        BY <3>2 DEF Inv, TypeOK, HalfwayOK, PostOK, PublishSlot, Stored
      <4>2. accepted'[s] = accepted[s] \/ accepted'[s] = Append(accepted[s], received)
        BY <3>2 DEF Inv, TypeOK, PublishSlot
      <4>3. QED
        BY <4>1, <4>2, AppendProperties
    <3>3. QED
      BY <3>1, <3>2 DEF Post, Receive, LoadWorker, TestFull, WriteSlot
  <2>3. ThreadOK(s)
    BY <1>2
  <2>4. due[s] <= Len(accepted'[s])
    BY <2>1, <2>2, <2>3 DEF ThreadOK
  <2>5. QED
    BY <1>1, <2>3, <2>4 DEF ThreadOK
<1>5. QED
  BY <1>3, <1>4 DEF EndOK

\* A thread that closes its file has written what had been accepted.
LEMMA ClosesComplete ==
  ASSUME Inv, NEW w \in Sessions, pc[w] = "drain", IsEmpty(ring[w])
  PROVE  Len(file[w]) >= due[w]
<1>1. ring[w] \in Ring /\ file[w] \in Seq(Stored)
  BY DEF Inv, TypeOK
<1>2. Contents(ring[w]) = <<>> /\ InHand(w) = <<>>
  BY <1>1, EmptyContents DEF InHand
<1>3. file[w] \o <<>> = file[w]
  BY <1>1, ConcatEmptySeq
<1>4. accepted[w] = file[w]
  BY <1>2, <1>3 DEF Inv, HalfwayOK, Kept
<1>5. due[w] <= Len(accepted[w]) /\ due[w] \in Nat
  BY DEF Inv, EndOK, ThreadOK, TypeOK
<1>6. Len(file[w]) \in Nat
  BY <1>1, LenProperties
<1>7. QED
  BY <1>4, <1>5, <1>6

LEMMA WorkerEnd ==
  ASSUME Inv, NEW w \in Sessions, Worker(w)
  PROVE  EndOK'
<1>1. UNCHANGED <<accepted, stop, worker, conn, started, current, ui, recording, due>>
  BY DEF Worker, TestStop, TestEmpty, ReadSlot, FreeSlot, WriteMessage, pollVars, uiVars
<1>2. /\ pc \in [Sessions -> WorkerSteps] /\ file \in [Sessions -> Seq(Stored)]
      /\ popped \in [Sessions -> Stored] /\ due \in [Sessions -> Nat]
      /\ stop \in [Sessions -> BOOLEAN]
  BY DEF Inv, TypeOK
<1>3. UiOK /\ ThreadOK(w) /\ \A s \in Sessions : ThreadOK(s)
  BY DEF Inv, EndOK
<1>4. UiOK'
  BY <1>1, <1>3 DEF UiOK
<1>5. ASSUME NEW s \in Sessions, s # w
      PROVE  ThreadOK(s)'
  <2>1. pc'[s] = pc[s] /\ file'[s] = file[s]
    BY <1>2, <1>5 DEF Worker, TestStop, TestEmpty, ReadSlot, FreeSlot, WriteMessage, Goto
  <2>2. ThreadOK(s)
    BY <1>3
  <2>3. QED
    BY <1>1, <2>1, <2>2 DEF ThreadOK
<1>6. pc[w] \notin {"off", "done"} /\ pc'[w] # "off"
  BY <1>2 DEF Worker, TestStop, TestEmpty, ReadSlot, FreeSlot, WriteMessage, Goto
<1>7. pc'[w] \in Draining \union {"done"} => stop[w]
  <2>1. CASE TestStop(w)
    BY <1>2, <2>1 DEF TestStop, Goto, Draining
  <2>2. CASE TestEmpty(w)
    BY <1>2, <1>3, <2>2 DEF TestEmpty, Goto, Draining, ThreadOK
  <2>3. CASE ReadSlot(w) \/ FreeSlot(w) \/ WriteMessage(w)
    BY <1>2, <1>3, <2>3 DEF ReadSlot, FreeSlot, WriteMessage, Goto, Draining, ThreadOK
  <2>4. QED
    BY <2>1, <2>2, <2>3 DEF Worker
<1>8. pc'[w] = "done" => Len(file'[w]) >= due[w]
  <2>1. ASSUME pc'[w] = "done"
        PROVE  pc[w] = "drain" /\ IsEmpty(ring[w]) /\ file' = file
    BY <1>2, <2>1 DEF Worker, TestStop, TestEmpty, ReadSlot, FreeSlot, WriteMessage, Goto
  <2>2. QED
    BY <2>1, ClosesComplete
<1>9. ThreadOK(w)'
  <2>1. w <= started
    BY <1>3, <1>6, SessionsType DEF ThreadOK, Inv, TypeOK
  <2>2. ~(w # current /\ w # ui.session)
    BY <1>3, <1>6, <2>1 DEF ThreadOK
  <2>3. ~(w > started)
    BY <2>1, SessionsType DEF Inv, TypeOK
  <2>4. QED
    BY <1>1, <1>3, <1>6, <1>7, <1>8, <2>1, <2>2, <2>3 DEF ThreadOK
<1>10. QED
  BY <1>4, <1>5, <1>9 DEF EndOK

LEMMA UiEnd ==
  ASSUME Inv, User \/ UpdateDbcConfig \/ UiProceeds
  PROVE  EndOK'
<1>1. /\ pc \in [Sessions -> WorkerSteps] /\ stop \in [Sessions -> BOOLEAN]
      /\ due \in [Sessions -> Nat] /\ ui \in UiCalls
      /\ started \in 0 .. MaxSessions /\ current \in 0 .. started
  BY DEF Inv, TypeOK
<1>2. UiOK /\ \A s \in Sessions : ThreadOK(s)
  BY DEF Inv, EndOK
<1>3. UNCHANGED <<accepted, file>>
  BY DEF User, UiProceeds, StartLogging, ClickStop, UpdateDbcConfig, Subscribe, StopLogging,
         ClearWorker, SetStop, Joined, workerVars, pollVars
<1>4. ASSUME NEW k \in Kinds, StartLogging(k)
      PROVE  EndOK'
  <2>1. /\ started' = started + 1 /\ current' = started + 1 /\ current = 0
        /\ pc' = [pc EXCEPT ![started + 1] = "testStop"]
        /\ ui' = [UiIdle EXCEPT !.step = "subscribe", !.why = k]
        /\ ui = UiIdle /\ UNCHANGED <<stop, due>>
    BY <1>4 DEF StartLogging, IsRecording, Goto
  <2>2. ui'.step = "subscribe" /\ ui'.session = 0 /\ ui'.why = k /\ ui.session = 0
    BY <2>1 DEF UiIdle
  <2>3. UiOK'
    BY <2>2 DEF UiOK
  <2>4. ASSUME NEW s \in Sessions
        PROVE  ThreadOK(s)'
    <3>1. ThreadOK(s) /\ s \in Nat /\ s > 0 /\ started \in Nat
      BY <1>1, <1>2, SessionsType
    <3>2. CASE s = started + 1
      <4>1. pc[s] = "off" /\ pc'[s] = "testStop" /\ ~stop[s]
        BY <1>1, <2>1, <3>1, <3>2 DEF ThreadOK
      <4>2. QED
        BY <1>3, <2>1, <2>2, <3>1, <3>2, <4>1 DEF ThreadOK, Draining
    <3>3. CASE s # started + 1
      <4>1. pc'[s] = pc[s] /\ (s > started + 1 <=> s > started)
        BY <1>1, <2>1, <3>1, <3>3
      <4>2. QED
        BY <1>3, <2>1, <2>2, <3>1, <3>3, <4>1 DEF ThreadOK
    <3>4. QED
      BY <3>2, <3>3
  <2>5. QED
    BY <2>3, <2>4 DEF EndOK
<1>5. ASSUME UNCHANGED <<pc, stop, due, started, current>>, ui'.session = ui.session,
             ui'.step # "setStop", UiOK'
      PROVE  EndOK'
  <2>1. ASSUME NEW s \in Sessions
        PROVE  ThreadOK(s)'
    <3>1. ThreadOK(s)
      BY <1>2
    <3>2. QED
      BY <1>3, <1>5, <3>1 DEF ThreadOK
  <2>2. QED
    BY <1>5, <2>1 DEF EndOK
<1>6. CASE ClickStop \/ UpdateDbcConfig \/ Subscribe \/ StopLogging
  <2>1. UNCHANGED <<pc, stop, due, started, current>>
    BY <1>6 DEF ClickStop, UpdateDbcConfig, Subscribe, StopLogging, workerVars
  <2>2. /\ ui.step \in {"idle", "subscribe", "stopLogging"} /\ ui.session = 0
        /\ ui'.step \in {"idle", "stopLogging", "clear"} /\ ui'.session = 0
        /\ ui'.step = "clear" => current # 0
    <3>1. UiIdle.step = "idle" /\ UiIdle.session = 0
      BY DEF UiIdle
    <3>2. ui.step \in {"idle", "subscribe", "stopLogging"}
      BY <1>6, <3>1 DEF ClickStop, UpdateDbcConfig, Subscribe, StopLogging
    <3>3. \/ ui' = UiIdle
          \/ ui' = [UiIdle EXCEPT !.step = "stopLogging"]
          \/ ui' = [UiIdle EXCEPT !.step = "clear", !.why = "stop"] /\ current # 0
          \/ ui' = [UiIdle EXCEPT !.step = "clear", !.why = "reload"] /\ current # 0
      BY <1>6 DEF ClickStop, UpdateDbcConfig, Subscribe, StopLogging, IsRecording
    <3>4. ui.session = 0
      BY <1>2, <3>2 DEF UiOK
    <3>5. /\ ui'.step \in {"idle", "stopLogging", "clear"} /\ ui'.session = 0
          /\ ui'.step = "clear" => current # 0
      <4>1. CASE ui' = UiIdle
        BY <3>1, <4>1
      <4>2. CASE ui' = [UiIdle EXCEPT !.step = "stopLogging"]
        BY <4>2 DEF UiIdle
      <4>3. ASSUME NEW reason, ui' = [UiIdle EXCEPT !.step = "clear", !.why = reason]
            PROVE  ui'.step = "clear" /\ ui'.session = 0
        BY <4>3 DEF UiIdle
      <4>4. QED
        BY <3>3, <4>1, <4>2, <4>3
    <3>6. QED
      BY <3>2, <3>4, <3>5
  <2>3. UiOK'
    BY <2>1, <2>2 DEF UiOK
  <2>4. QED
    BY <1>5, <2>1, <2>2, <2>3
<1>7. CASE ClearWorker
  <2>1. /\ ui.step = "clear" /\ ui.session = 0 /\ current # 0 /\ current' = 0
        /\ due' = [due EXCEPT ![current] = Len(accepted[current])]
        /\ ui'.step = "setStop" /\ ui'.session = current
        /\ UNCHANGED <<pc, stop, started>>
    BY <1>1, <1>2, <1>7 DEF ClearWorker, UiOK, UiCalls, workerVars
  <2>2. current \in 1 .. started /\ current \in Sessions
    BY <1>1, <2>1, SessionsType
  <2>3. UiOK'
    BY <2>1, <2>2 DEF UiOK
  <2>4. ASSUME NEW s \in Sessions
        PROVE  ThreadOK(s)'
    <3>1. ThreadOK(s) /\ s \in Nat /\ s > 0
      BY <1>2, SessionsType
    <3>2. CASE s = current
      <4>1. ~stop[s] /\ pc[s] # "done" /\ s <= started
        BY <2>2, <3>1, <3>2 DEF ThreadOK
      <4>2. due'[s] = Len(accepted[s]) /\ Len(accepted[s]) \in Nat
        BY <1>1, <2>1, <3>2, LenProperties DEF Inv, TypeOK
      <4>3. due'[s] <= Len(accepted[s])
        BY <4>2
      <4>4. QED
        BY <1>3, <2>1, <3>1, <3>2, <4>1, <4>3 DEF ThreadOK
    <3>3. CASE s # current
      <4>1. due'[s] = due[s]
        BY <1>1, <2>1, <3>3
      <4>2. QED
        BY <1>3, <2>1, <3>1, <3>3, <4>1 DEF ThreadOK
    <3>4. QED
      BY <3>2, <3>3
  <2>5. QED
    BY <2>3, <2>4 DEF EndOK
<1>8. CASE SetStop
  <2>1. /\ ui.step = "setStop" /\ current = 0 /\ ui.session \in 1 .. started
        /\ stop' = [stop EXCEPT ![ui.session] = TRUE]
        /\ ui'.step = "wait" /\ ui'.session = ui.session
        /\ UNCHANGED <<pc, due, started, current>>
    BY <1>1, <1>2, <1>8 DEF SetStop, UiStep, UiOK, UiCalls, workerVars
  <2>2. UiOK'
    BY <2>1 DEF UiOK
  <2>3. ASSUME NEW s \in Sessions
        PROVE  ThreadOK(s)'
    <3>1. ThreadOK(s) /\ s \in Nat /\ s > 0
      BY <1>2, SessionsType
    <3>2. CASE s = ui.session
      <4>1. stop'[s] /\ s <= started /\ s # current
        BY <1>1, <2>1, <3>1, <3>2
      <4>2. QED
        BY <1>3, <2>1, <3>1, <3>2, <4>1 DEF ThreadOK
    <3>3. CASE s # ui.session
      <4>1. stop'[s] = stop[s]
        BY <1>1, <2>1, <3>3
      <4>2. QED
        BY <1>3, <2>1, <3>1, <3>3, <4>1 DEF ThreadOK
    <3>4. QED
      BY <3>2, <3>3
  <2>4. QED
    BY <2>2, <2>3 DEF EndOK
<1>9. CASE Joined
  <2>1. /\ ui.step = "wait" /\ pc[ui.session] = "done" /\ current = 0
        /\ ui'.step = "idle" /\ ui'.session = 0
        /\ UNCHANGED <<pc, stop, due, started, current>>
    BY <1>2, <1>9 DEF Joined, UiOK, UiIdle, workerVars
  <2>2. UiOK'
    BY <2>1 DEF UiOK
  <2>3. ASSUME NEW s \in Sessions
        PROVE  ThreadOK(s)'
    <3>1. ThreadOK(s)
      BY <1>2
    <3>2. QED
      BY <1>3, <2>1, <3>1 DEF ThreadOK
  <2>4. QED
    BY <2>2, <2>3 DEF EndOK
<1>10. QED
  BY <1>4, <1>6, <1>7, <1>8, <1>9 DEF User, UiProceeds

-----------------------------------------------------------------------------
(***************************************************************************)
(* The invariant.                                                          *)
(***************************************************************************)

LEMMA NextInv == Inv /\ [Next]_vars => Inv'
<1> SUFFICES ASSUME Inv, [Next]_vars PROVE Inv'
  OBVIOUS
<1>1. CASE (\E k \in Kinds : Receive(k)) \/ Post
  BY <1>1, PollType, PollHalfway, PollEnd DEF Inv
<1>2. ASSUME NEW s \in Sessions, Worker(s)
      PROVE  Inv'
  BY <1>2, WorkerType, WorkerHalfway, WorkerEnd DEF Inv
<1>3. CASE User \/ UpdateDbcConfig \/ UiProceeds
  BY <1>3, UiType, UiHalfway, UiEnd DEF Inv
<1>4. CASE UNCHANGED vars
  <2>1. TypeOK'
    BY <1>4 DEF vars, pollVars, workerVars, uiVars, Inv, TypeOK
  <2>2. HalfwayOK'
    <3>1. PostOK' /\ UNCHANGED <<ring, accepted, file, popped, pc>>
      BY <1>4 DEF vars, pollVars, workerVars, Inv, HalfwayOK, PostOK
    <3>2. \A s \in Sessions : TakeOK(s)' /\ Kept(s)'
      BY <3>1, SameKept DEF Inv, HalfwayOK
    <3>3. QED
      BY <3>1, <3>2 DEF HalfwayOK
  <2>3. EndOK'
    BY <1>4 DEF vars, pollVars, workerVars, uiVars, Inv, EndOK, UiOK, ThreadOK
  <2>4. QED
    BY <2>1, <2>2, <2>3 DEF Inv
<1>5. QED
  BY <1>1, <1>2, <1>3, <1>4 DEF Next

-----------------------------------------------------------------------------
(***************************************************************************)
(* The channels that logging implements.                                   *)
(***************************************************************************)

\* What a channel has taken and not yet kept.
Queue(s) == InHand(s) \o Contents(ring[s])

\* A worker is that of the session that is recording.  A post under way is for this session, or
\* for one that has not taken anything since its end.
PostingOK(s) ==
  /\ s \in 1 .. started
  /\ s = current => worker[poller.kind] = s
  /\ s # current => Len(accepted[s]) = due[s]
  /\ pc[s] = "done" => IsEmpty(ring[s])

ChannelInv ==
  /\ poller.step = "idle" => poller = PollIdle
  /\ poller.step # "idle" => poller.kind \in Kinds
  /\ \A k \in Kinds : worker[k] \in {0, current}
  /\ current # 0 => \E k \in Kinds : worker[k] = current
  /\ poller.step \in {"testFull", "write", "publish"} => PostingOK(poller.session)

LEMMA ChannelStart == Init => ChannelInv
BY DEF Init, ChannelInv, PollIdle

LEMMA PollChannel ==
  ASSUME Inv, Inv', ChannelInv, (\E k \in Kinds : Receive(k)) \/ Post
  PROVE  ChannelInv'
<1>1. UNCHANGED <<pc, worker, started, current, due>>
  BY DEF Post, Receive, LoadWorker, TestFull, WriteSlot, PublishSlot, workerVars, uiVars
<1>2. /\ poller \in Posts /\ poller' \in Posts /\ ring \in [Sessions -> Ring]
      /\ current \in 0 .. started /\ started \in 0 .. MaxSessions
  BY DEF Inv, TypeOK
<1>3. CASE \E k \in Kinds : Receive(k)
  <2>1. PICK k \in Kinds : Receive(k)
    BY <1>3
  <2>2. poller'.step = "load" /\ poller'.kind = k
    BY <2>1 DEF Receive, PollIdle
  <2> QED  BY <1>1, <2>2 DEF ChannelInv
<1>4. CASE LoadWorker
  <2>1. poller.kind \in Kinds /\ poller.step = "load" /\ UNCHANGED <<accepted, ring>>
    BY <1>4 DEF ChannelInv, LoadWorker
  <2>2. CASE worker[poller.kind] = 0
    <3>1. poller' = PollIdle
      BY <1>4, <2>2 DEF LoadWorker
    <3> QED  BY <1>1, <3>1 DEF ChannelInv, PollIdle
  <2>3. CASE worker[poller.kind] # 0
    <3>1. worker[poller.kind] = current /\ current \in 1 .. started
      BY <1>2, <2>1, <2>3 DEF ChannelInv
    <3>2. poller'.step = "testFull" /\ poller'.session = current /\ poller'.kind = poller.kind
      BY <1>2, <1>4, <2>3, <3>1 DEF LoadWorker, Posts
    <3>3. pc[current] # "done"
      <4>1. current \in Sessions
        BY <1>2, <3>1, SessionsType
      <4> QED  BY <4>1 DEF Inv, EndOK, ThreadOK
    <3> QED  BY <1>1, <2>1, <3>1, <3>2, <3>3 DEF ChannelInv, PostingOK
  <2> QED  BY <2>2, <2>3
<1>5. CASE TestFull \/ WriteSlot
  <2>1. /\ poller.step \in {"testFull", "write"} /\ UNCHANGED accepted
        /\ poller' = PollIdle \/ (/\ poller'.step \in {"write", "publish"}
                                  /\ poller'.kind = poller.kind /\ poller'.session = poller.session)
    BY <1>2, <1>5 DEF TestFull, WriteSlot, PollStep, Posts
  <2>2. CASE poller' = PollIdle
    BY <1>1, <2>1, <2>2 DEF ChannelInv, PollIdle
  <2>3. CASE poller' # PollIdle
    <3>1. IsEmpty(ring[poller.session]) => IsEmpty(ring'[poller.session])
      <4>1. CASE WriteSlot
        <5>1. poller.session \in Sessions /\ received \in Stored
          BY <2>1 DEF Inv, HalfwayOK, PostOK, Stored
        <5>2. ring'[poller.session] = Written(ring[poller.session], received)
          BY <1>2, <4>1, <5>1 DEF WriteSlot
        <5> QED  BY <1>2, <5>1, <5>2, WrittenOutside
      <4>2. CASE TestFull
        BY <4>2 DEF TestFull
      <4> QED  BY <1>5, <4>1, <4>2
    <3>2. PostingOK(poller.session) /\ poller.kind \in Kinds
      BY <2>1 DEF ChannelInv
    <3>3. PostingOK(poller.session)'
      BY <1>1, <2>1, <2>3, <3>1, <3>2 DEF PostingOK
    <3> QED  BY <1>1, <2>1, <2>3, <3>2, <3>3 DEF ChannelInv
  <2> QED  BY <2>2, <2>3
<1>6. CASE PublishSlot
  <2>1. poller' = PollIdle
    BY <1>6 DEF PublishSlot
  <2> QED  BY <1>1, <2>1 DEF ChannelInv, PollIdle
<1> QED  BY <1>3, <1>4, <1>5, <1>6 DEF Post

LEMMA WorkerChannel ==
  ASSUME Inv, Inv', ChannelInv, NEW w \in Sessions, Worker(w)
  PROVE  ChannelInv'
<1>1. UNCHANGED <<poller, accepted, worker, started, current, due>>
  BY DEF Worker, TestStop, TestEmpty, ReadSlot, FreeSlot, WriteMessage, pollVars, uiVars
<1>2. ring \in [Sessions -> Ring] /\ pc \in [Sessions -> WorkerSteps]
  BY DEF Inv, TypeOK
<1>3. \A s \in Sessions \ {w} : ring'[s] = ring[s] /\ pc'[s] = pc[s]
  BY <1>2 DEF Worker, TestStop, TestEmpty, ReadSlot, FreeSlot, WriteMessage, Goto
<1>4. pc'[w] = "done" => IsEmpty(ring[w]) /\ ring' = ring
  BY <1>2 DEF Worker, TestStop, TestEmpty, ReadSlot, FreeSlot, WriteMessage, Goto
<1>5. ASSUME NEW s \in Sessions, PostingOK(s)
      PROVE  PostingOK(s)'
  <2>1. pc'[s] = "done" => IsEmpty(ring'[s])
    <3>1. CASE s = w
      BY <1>4, <3>1
    <3>2. CASE s # w
      BY <1>3, <1>5, <3>2 DEF PostingOK
    <3> QED  BY <3>1, <3>2
  <2> QED  BY <1>1, <1>5, <2>1 DEF PostingOK
<1>6. poller.step \in {"testFull", "write", "publish"} => poller.session \in Sessions
  BY DEF Inv, HalfwayOK, PostOK
<1> QED  BY <1>1, <1>5, <1>6 DEF ChannelInv

LEMMA UiChannel ==
  ASSUME Inv, Inv', ChannelInv, User \/ UpdateDbcConfig \/ UiProceeds
  PROVE  ChannelInv'
<1>1. UNCHANGED <<poller, accepted, ring>>
  BY DEF User, StartLogging, ClickStop, UpdateDbcConfig, UiProceeds, Subscribe, StopLogging,
         ClearWorker, SetStop, Joined, pollVars
<1>2. /\ worker \in [Kinds -> 0 .. MaxSessions] /\ pc \in [Sessions -> WorkerSteps]
      /\ current \in 0 .. started /\ started \in 0 .. MaxSessions
      /\ due \in [Sessions -> Nat]
  BY DEF Inv, TypeOK
<1>3. poller.step \in {"testFull", "write", "publish"} =>
        poller.session \in Sessions /\ PostingOK(poller.session)
  BY DEF Inv, HalfwayOK, PostOK, ChannelInv
<1>4. ASSUME NEW k \in Kinds, StartLogging(k)
      PROVE  ChannelInv'
  <2>1. /\ current = 0 /\ started' = started + 1 /\ current' = started + 1 /\ due' = due
        /\ worker' = [worker EXCEPT ![k] = started + 1]
        /\ pc' = [pc EXCEPT ![started + 1] = "testStop"]
    BY <1>4 DEF StartLogging, IsRecording, Goto
  <2>2. \A j \in Kinds : worker'[j] \in {0, current'}
    BY <1>2, <2>1 DEF ChannelInv
  <2>3. worker'[k] = current'
    BY <1>2, <2>1
  <2>4. ASSUME NEW s \in Sessions, PostingOK(s)
        PROVE  PostingOK(s)'
    <3>1. s \in 1 .. started /\ s # current' /\ s # current /\ s \in 1 .. started'
      BY <1>2, <2>1, <2>4 DEF PostingOK
    <3>2. pc'[s] = pc[s]
      BY <1>2, <2>1, <3>1
    <3> QED  BY <1>1, <2>1, <2>4, <3>1, <3>2 DEF PostingOK
  <2> QED  BY <1>1, <1>3, <2>2, <2>3, <2>4 DEF ChannelInv
<1>5. CASE ClearWorker
  <2>1. /\ worker' = [k \in Kinds |-> 0] /\ current' = 0 /\ UNCHANGED <<pc, started>>
        /\ due' = [due EXCEPT ![current] = Len(accepted[current])]
    BY <1>5 DEF ClearWorker, workerVars
  <2>2. ASSUME NEW s \in Sessions, PostingOK(s)
        PROVE  PostingOK(s)'
    <3>1. s \in 1 .. started /\ s # current'
      BY <1>2, <2>1, <2>2 DEF PostingOK
    <3>2. Len(accepted[s]) = due'[s]
      <4>1. CASE s = current
        BY <1>2, <2>1, <4>1
      <4>2. CASE s # current
        BY <1>2, <2>1, <2>2, <4>2 DEF PostingOK
      <4> QED  BY <4>1, <4>2
    <3> QED  BY <1>1, <2>1, <2>2, <3>1, <3>2 DEF PostingOK
  <2> QED  BY <1>1, <1>3, <2>1, <2>2 DEF ChannelInv
<1>6. CASE ClickStop \/ UpdateDbcConfig \/ Subscribe \/ StopLogging \/ SetStop \/ Joined
  <2>1. UNCHANGED <<worker, current, pc, started, due>>
    BY <1>6 DEF ClickStop, UpdateDbcConfig, Subscribe, StopLogging, SetStop, Joined, workerVars
  <2> QED  BY <1>1, <2>1 DEF ChannelInv, PostingOK
<1> QED  BY <1>4, <1>5, <1>6 DEF User, UiProceeds

LEMMA NextChannel == Inv /\ Inv' /\ ChannelInv /\ [Next]_vars => ChannelInv'
<1> SUFFICES ASSUME Inv, Inv', ChannelInv, [Next]_vars PROVE ChannelInv'
  OBVIOUS
<1>1. CASE UNCHANGED vars
  BY <1>1 DEF ChannelInv, PostingOK, vars, pollVars, workerVars, uiVars
<1> QED  BY <1>1, PollChannel, WorkerChannel, UiChannel DEF Next

\* How many values a ring has when it is full, and when it is not.
LEMMA FullContents ==
  ASSUME NEW r \in Ring
  PROVE  /\ IsFull(r) => Len(Contents(r)) = Slots - 1
         /\ ~IsFull(r) => Len(Contents(r)) + 1 < Slots
<1>1. r.head \in 0 .. Slots - 1 /\ r.tail \in 0 .. Slots - 1 /\ Slots \in Nat \ {0}
  BY SlotsType DEF Ring, Index
<1>2. Len(Contents(r)) = Occupied(r)
  BY ContentsAre
<1> QED  BY <1>1, <1>2 DEF IsFull, NextIndex, Occupied

\* What a channel has taken is in its queue or kept.
LEMMA QueueIs ==
  ASSUME Inv, NEW s \in Sessions
  PROVE  /\ Queue(s) \in Seq(Stored) /\ Contents(ring[s]) \in Seq(Stored)
         /\ Len(accepted[s]) = Len(file[s]) + Len(Queue(s))
         /\ Len(Contents(ring[s])) <= Len(Queue(s))
         /\ Len(Queue(s)) <= Len(Contents(ring[s])) + 1
<1>1. /\ file[s] \in Seq(Stored) /\ InHand(s) \in Seq(Stored) /\ ring[s] \in Ring
      /\ Len(InHand(s)) \in 0 .. 1
  BY InHandType DEF Inv, TypeOK, InHand
<1>2. Contents(ring[s]) \in Seq(Stored)
  BY <1>1, ContentsAre
<1>3. accepted[s] = file[s] \o Queue(s)
  <2> DEFINE x == file[s]
             y == InHand(s)
             z == Contents(ring[s])
  <2>1. accepted[s] = x \o y \o z /\ Queue(s) = y \o z
    BY DEF Inv, HalfwayOK, Kept, Queue
  <2> HIDE DEF x, y, z
  <2>2. x \in Seq(Stored) /\ y \in Seq(Stored) /\ z \in Seq(Stored)
    BY <1>1, <1>2 DEF x, y, z
  <2>3. (x \o y) \o z = x \o (y \o z)
    BY <2>2, ConcatAssociative
  <2> QED  BY <2>1, <2>3 DEF x
<1>4. Queue(s) \in Seq(Stored) /\ Len(Queue(s)) = Len(InHand(s)) + Len(Contents(ring[s]))
  BY <1>1, <1>2, ConcatProperties DEF Queue
<1>5. Len(accepted[s]) = Len(file[s]) + Len(Queue(s))
  BY <1>1, <1>3, <1>4, ConcatProperties
<1>6. Len(Contents(ring[s])) \in Nat
  BY <1>2, LenProperties
<1>7. Len(Contents(ring[s])) <= Len(Queue(s)) /\ Len(Queue(s)) <= Len(Contents(ring[s])) + 1
  <2> DEFINE h == Len(InHand(s))
             n == Len(Contents(ring[s]))
  <2>1. h \in 0 .. 1 /\ n \in Nat /\ Len(Queue(s)) = h + n
    BY <1>1, <1>4, <1>6
  <2> HIDE DEF h, n
  <2>2. n <= Len(Queue(s)) /\ Len(Queue(s)) <= n + 1
    BY <2>1
  <2> QED  BY <2>2 DEF n
<1> QED  BY <1>2, <1>4, <1>5, <1>7

\* What a channel needs to know of a session that is not the current one.
LEMMA EndedIs ==
  ASSUME Inv, ChannelInv, NEW s \in 1 .. started, s # current
  PROVE  Channel!Ended(s)
<1>1. s # 0
  BY DEF Inv, TypeOK
<1> QED  BY <1>1 DEF Channel!Ended, ChannelInv

\* When the state of the channels stays.
LEMMA SameQueues ==
  ASSUME \A s \in Sessions : Queue(s)' = Queue(s)
  PROVE  Queues' = Queues
BY DEF Queues, Queue

LEMMA QueuesStay == UNCHANGED <<ring, pc, popped>> => Queues' = Queues
BY DEF Queues, InHand

LEMMA ArrivingIs ==
  ASSUME ChannelInv
  PROVE  Arriving = IF poller.step = "idle" THEN {} ELSE {poller.kind}
BY DEF ChannelInv, Arriving, PollIdle

\* The first message of a queue.
LEMMA HeadTailConcat ==
  ASSUME NEW S, NEW v \in S, NEW t \in Seq(S)
  PROVE  /\ <<v>> \o t # <<>>
         /\ Head(<<v>> \o t) = v /\ Tail(<<v>> \o t) = t
<1> DEFINE u == <<v>> \o t
<1>1. /\ u \in Seq(S) /\ Len(u) = Len(t) + 1 /\ Len(t) \in Nat
      /\ \A i \in 1 .. Len(t) + 1 : u[i] = IF i <= 1 THEN <<v>>[i] ELSE t[i - 1]
  BY ConcatProperties, LenProperties
<1> HIDE DEF u
<1>2. u # <<>> /\ u[1] = v
  BY <1>1
<1>3. Head(u) = v
  BY <1>1, <1>2
<1>4. Tail(u) \in Seq(S) /\ Len(Tail(u)) = Len(t) /\ \A i \in 1 .. Len(t) : Tail(u)[i] = u[i + 1]
  BY <1>1, <1>2, HeadTailProperties
<1>5. ASSUME NEW i \in 1 .. Len(t)
      PROVE  Tail(u)[i] = t[i]
  BY <1>1, <1>4
<1>6. Tail(u) = t
  BY <1>4, <1>5, SeqEqual
<1> QED  BY <1>2, <1>3, <1>6 DEF u

\* The steps of the polling thread.
LEMMA ReceiveImplements ==
  ASSUME Inv, ChannelInv, ChannelInv', NEW k \in Kinds, Receive(k)
  PROVE  Channel!Arrive(k)
<1>1. poller = PollIdle /\ poller'.step = "load" /\ poller'.kind = k
  BY DEF Receive, PollIdle
<1>2. Arriving = {} /\ Arriving' = {k}
  BY <1>1 DEF Arriving, PollIdle
<1>3. UNCHANGED <<ring, accepted, workerVars, uiVars>> /\ received' = received + 1
  BY DEF Receive
<1>4. Queues' = Queues
  BY <1>3, QueuesStay DEF workerVars
<1> QED  BY <1>2, <1>3, <1>4 DEF Channel!Arrive, workerVars, uiVars, Closed

\* What does not move a message, and does not open, end or close a session.
LEMMA Unmoved ==
  ASSUME UNCHANGED <<received, workerVars, uiVars>>, Queues' = Queues
  PROVE  /\ UNCHANGED <<received, started, worker, Queues, file, due, Closed>>
         /\ Arriving' = Arriving => UNCHANGED Channel!scVars
BY DEF workerVars, uiVars, Closed, Channel!scVars

\* A post that is given up is given up for want of a session or of room.
LEMMA GivenUpImplements ==
  ASSUME Inv, ChannelInv, poller.step \in {"load", "testFull"}, poller' = PollIdle,
         UNCHANGED <<received, ring, accepted, workerVars, uiVars>>,
         worker[poller.kind] # 0 =>
           /\ poller.step = "testFull" /\ IsFull(ring[poller.session])
  PROVE  poller.kind \in Kinds /\ Channel!Lose(poller.kind)
<1>1. poller.kind \in Kinds /\ Arriving = {poller.kind} /\ Arriving' = {}
  BY ArrivingIs DEF ChannelInv, Arriving
<1>2. Queues' = Queues
  BY QueuesStay DEF workerVars
<1>3. UNCHANGED <<received, started, worker, Queues, file, due, Closed>>
  BY <1>2, Unmoved
<1>4. ASSUME worker[poller.kind] # 0
      PROVE  Len(Queues[worker[poller.kind]]) >= Slots - 1
  <2> DEFINE r == worker[poller.kind]
             s == poller.session
  <2>1. /\ r = current /\ r # 0 /\ IsFull(ring[s]) /\ PostingOK(s) /\ s \in Sessions
    BY <1>1, <1>4 DEF ChannelInv, Inv, HalfwayOK, PostOK
  <2>2. /\ ring \in [Sessions -> Ring] /\ Slots \in Nat \ {0}
        /\ current \in 0 .. started /\ started \in 0 .. MaxSessions
    BY SlotsType DEF Inv, TypeOK
  <2>3. r \in Sessions
    BY <2>1, <2>2, SessionsType
  <2> HIDE DEF r, s
  <2>4. Queues[r] = Queue(r) /\ Len(Queue(r)) \in Nat /\ Len(Contents(ring[r])) \in Nat
        /\ Len(Contents(ring[r])) <= Len(Queue(r))
    BY <2>3, QueueIs, LenProperties DEF Queues, Queue
  <2>5. CASE s = r
    <3>1. Len(Contents(ring[r])) = Slots - 1
      BY <2>1, <2>2, <2>3, <2>5, FullContents
    <3> QED  BY <2>2, <2>4, <3>1 DEF r
  <2>6. CASE s # r
    <3>1. pc[s] = "done"
      <4>1. s # ui.session
        BY <2>1, <2>2 DEF Inv, EndOK, UiOK, PostingOK
      <4> QED  BY <2>1, <2>2, <2>6, <4>1 DEF Inv, EndOK, ThreadOK, PostingOK
    <3>2. ring[s].tail = ring[s].head /\ ring[s].head \in 0 .. Slots - 1
          /\ NextIndex(ring[s].head) = ring[s].tail
      BY <2>1, <2>2, <3>1 DEF PostingOK, IsEmpty, IsFull, Ring, Index
    <3>3. Slots = 1
      BY <2>2, <3>2 DEF NextIndex
    <3> QED  BY <2>4, <3>3 DEF r
  <2> QED  BY <2>5, <2>6
<1> QED  BY <1>1, <1>3, <1>4 DEF Channel!Lose

\* The store of the head puts the message into the channel.
LEMMA PublishImplements ==
  ASSUME Inv, ChannelInv, ChannelInv', PublishSlot
  PROVE  /\ poller.kind \in Kinds /\ poller.session \in Sessions
         /\ Channel!Accept(poller.kind, poller.session)
<1>0. PICK s \in Sessions, k \in Kinds : s = poller.session /\ k = poller.kind
  BY DEF PublishSlot, Inv, HalfwayOK, PostOK, ChannelInv
<1>1. /\ poller.step = "publish" /\ poller' = PollIdle
      /\ ring' = [ring EXCEPT ![s] = Published(ring[s])]
      /\ UNCHANGED <<received, workerVars, uiVars>>
  BY <1>0 DEF PublishSlot
<1>2. /\ s \in Sessions /\ k \in Kinds /\ PostingOK(s) /\ ~IsFull(ring[s])
      /\ ring[s].slot[ring[s].head] = received
  BY <1>0, <1>1 DEF Inv, HalfwayOK, PostOK, ChannelInv
<1>3. ring \in [Sessions -> Ring] /\ ring[s] \in Ring /\ Slots \in Nat
  BY <1>2, SlotsType DEF Inv, TypeOK
<1>4. Arriving = {k} /\ Arriving' = {}
  BY <1>0, <1>1, ArrivingIs DEF Arriving
<1>5. Queues[s] = Queue(s)
  BY <1>2 DEF Queues, Queue
<1>6. worker[k] = s \/ (Channel!Ended(s) /\ Channel!Taken(s) = due[s])
  <2>1. CASE s = current
    BY <1>0, <1>2, <2>1 DEF PostingOK
  <2>2. CASE s # current
    <3>1. Channel!Ended(s)
      BY <1>2, <2>2, EndedIs DEF PostingOK
    <3>2. Channel!Taken(s) = Len(file[s]) + Len(Queue(s))
      BY <1>5 DEF Channel!Taken
    <3>3. Len(accepted[s]) = due[s]
      BY <1>2, <2>2 DEF PostingOK
    <3>4. Len(accepted[s]) = Len(file[s]) + Len(Queue(s))
      BY <1>2, QueueIs
    <3> QED  BY <3>1, <3>2, <3>3, <3>4
  <2> QED  BY <2>1, <2>2
<1>7. Len(Queues[s]) < Slots
  <2>1. /\ Len(Queue(s)) \in Nat /\ Len(Contents(ring[s])) \in Nat
        /\ Len(Queue(s)) <= Len(Contents(ring[s])) + 1
    BY <1>2, QueueIs, LenProperties
  <2>2. Len(Contents(ring[s])) + 1 < Slots
    BY <1>2, <1>3, FullContents
  <2> QED  BY <1>3, <1>5, <2>1, <2>2
<1>8. Queues' = [Queues EXCEPT ![s] = Append(Queues[s], received)]
  <2>1. \A u \in Sessions : InHand(u)' = InHand(u)
    BY <1>1 DEF InHand, workerVars
  <2>2. Queue(s)' = Append(Queue(s), received)
    <3>1. ring'[s] = Published(ring[s])
      BY <1>1, <1>2, <1>3
    <3>2. Contents(ring'[s]) = Append(Contents(ring[s]), received)
      BY <1>2, <1>3, <3>1, PublishedAppends
    <3>3. InHand(s) \in Seq(Stored) /\ Contents(ring[s]) \in Seq(Stored) /\ received \in Stored
      BY <1>1, <1>2, InHandType, QueueIs DEF Inv, HalfwayOK, PostOK, Stored
    <3>4. Append(InHand(s) \o Contents(ring[s]), received)
            = InHand(s) \o Append(Contents(ring[s]), received)
      BY <3>3, AppendToConcat
    <3> QED  BY <1>2, <2>1, <3>2, <3>4 DEF Queue
  <2>3. ASSUME NEW u \in Sessions, u # s
        PROVE  Queue(u)' = Queue(u)
    <3>1. ring'[u] = ring[u]
      BY <1>1, <1>3, <2>3
    <3> QED  BY <2>1, <3>1 DEF Queue
  <2>4. \A u \in Sessions : Queues'[u] = Queue(u)' /\ Queues[u] = Queue(u)
    BY DEF Queues, Queue
  <2>5. Queues \in [Sessions -> Seq(Stored)] /\ DOMAIN Queues' = Sessions
        /\ Queues' = [u \in Sessions |-> Queues'[u]]
    BY <2>4, QueueIs DEF Queues
  <2> QED  BY <1>2, <2>2, <2>3, <2>4, <2>5
<1>9. UNCHANGED <<received, started, worker, file, due, Closed>>
  BY <1>1 DEF workerVars, uiVars, Closed
<1>10. Channel!Accept(k, s)
  BY <1>4, <1>6, <1>7, <1>8, <1>9 DEF Channel!Accept
<1> QED  BY <1>0, <1>10

LEMMA PollImplements ==
  ASSUME Inv, Inv', ChannelInv, ChannelInv', (\E k \in Kinds : Receive(k)) \/ Post
  PROVE  [Channel!SCNext]_(Channel!scVars)
<1>1. CASE \E k \in Kinds : Receive(k)
  BY <1>1, ReceiveImplements DEF Channel!SCNext
<1>2. CASE poller' = PollIdle /\ (LoadWorker \/ TestFull)
  <2>1. /\ poller.step \in {"load", "testFull"}
        /\ UNCHANGED <<received, ring, accepted, workerVars, uiVars>>
    BY <1>2 DEF LoadWorker, TestFull
  <2>2. worker[poller.kind] # 0 => poller.step = "testFull" /\ IsFull(ring[poller.session])
    <3>1. poller \in Posts /\ poller'.step = "idle"
      BY <1>2 DEF Inv, TypeOK, PollIdle
    <3> QED  BY <1>2, <3>1 DEF LoadWorker, TestFull, PollStep, Posts
  <2>3. poller.kind \in Kinds /\ Channel!Lose(poller.kind)
    BY <1>2, <2>1, <2>2, GivenUpImplements
  <2> QED  BY <2>3 DEF Channel!SCNext
<1>3. CASE poller' # PollIdle /\ (LoadWorker \/ TestFull \/ WriteSlot)
  <2>1. UNCHANGED <<received, accepted, workerVars, uiVars>>
    BY <1>3 DEF LoadWorker, TestFull, WriteSlot
  <2>2. Arriving' = Arriving
    <3>1. poller.step # "idle" /\ poller'.step # "idle"
      BY <1>3 DEF LoadWorker, TestFull, WriteSlot, ChannelInv
    <3>2. poller \in Posts
      BY DEF Inv, TypeOK
    <3>3. poller'.kind = poller.kind
      BY <1>3, <3>2 DEF LoadWorker, TestFull, WriteSlot, PollStep, Posts
    <3>4. Arriving = {poller.kind} /\ Arriving' = {poller'.kind}
      BY <1>3, <3>1, ArrivingIs DEF Arriving
    <3> QED  BY <3>3, <3>4
  <2>3. Queues' = Queues
    <3>1. CASE UNCHANGED ring
      BY <2>1, <3>1, QueuesStay DEF workerVars
    <3>2. CASE WriteSlot
      <4>1. ASSUME NEW s \in Sessions
            PROVE  Contents(ring'[s]) = Contents(ring[s])
        <5>1. ring \in [Sessions -> Ring] /\ received \in Stored
          BY <3>2 DEF WriteSlot, Inv, TypeOK, HalfwayOK, PostOK, Stored
        <5>2. ring' = [ring EXCEPT ![poller.session] = Written(ring[poller.session], received)]
          BY <3>2 DEF WriteSlot
        <5>3. CASE s = poller.session
          BY <5>1, <5>2, <5>3, WrittenOutside
        <5>4. CASE s # poller.session
          BY <5>1, <5>2, <5>4
        <5> QED  BY <5>3, <5>4
      <4>2. \A s \in Sessions : Queue(s)' = Queue(s)
        BY <2>1, <4>1 DEF Queue, InHand, workerVars
      <4> QED  BY <4>2, SameQueues
    <3> QED  BY <1>3, <3>1, <3>2 DEF LoadWorker, TestFull
  <2> QED  BY <2>1, <2>2, <2>3, Unmoved
<1>4. CASE PublishSlot
  BY <1>4, PublishImplements DEF Channel!SCNext, Sessions
<1>5. ~(poller' = PollIdle /\ WriteSlot)
  <2>1. poller \in Posts /\ PollIdle.step = "idle"
    BY DEF Inv, TypeOK, PollIdle
  <2> QED  BY <2>1 DEF WriteSlot, PollStep, Posts
<1> QED  BY <1>1, <1>2, <1>3, <1>4, <1>5 DEF Post

\* The steps of a worker: a message it has written is kept, and its channel is closed when its
\* thread ends.
LEMMA WriteImplements ==
  ASSUME Inv, NEW w \in Sessions, WriteMessage(w)
  PROVE  Channel!Keep(w)
<1>1. /\ pc \in [Sessions -> WorkerSteps] /\ popped \in [Sessions -> Stored]
      /\ file \in [Sessions -> Seq(Stored)] /\ Contents(ring[w]) \in Seq(Stored)
  BY QueueIs DEF Inv, TypeOK
<1>2. /\ pc[w] \in {"popWrite", "drainWrite"} /\ pc'[w] \in {"pop", "drain"}
      /\ pc' = [pc EXCEPT ![w] = pc'[w]]
      /\ popped' = [popped EXCEPT ![w] = 0]
      /\ file' = [file EXCEPT ![w] = Append(file[w], popped[w])]
      /\ UNCHANGED <<pollVars, ring, uiVars>>
  BY <1>1 DEF WriteMessage, Goto
<1>3. /\ Queues[w] = <<popped[w]>> \o Contents(ring[w])
      /\ Queues'[w] = <<>> \o Contents(ring[w])
  BY <1>2 DEF Queues, InHand
<1>4. <<>> \o Contents(ring[w]) = Contents(ring[w])
  BY <1>1, ConcatEmptySeq
<1>5. /\ Queues[w] # <<>> /\ Head(Queues[w]) = popped[w]
      /\ Tail(Queues[w]) = Contents(ring[w])
  BY <1>1, <1>3, HeadTailConcat
<1>6. Queues' = [Queues EXCEPT ![w] = Tail(Queues[w])]
  <2>1. ASSUME NEW s \in Sessions, s # w
        PROVE  Queues'[s] = Queues[s]
    BY <1>1, <1>2, <2>1 DEF Queues, InHand
  <2>2. DOMAIN Queues = Sessions /\ DOMAIN Queues' = Sessions
        /\ Queues = [s \in Sessions |-> Queues[s]] /\ Queues' = [s \in Sessions |-> Queues'[s]]
    BY DEF Queues
  <2> QED  BY <1>3, <1>4, <1>5, <2>1, <2>2
<1>7. w \notin Closed /\ Closed' = Closed
  BY <1>1, <1>2 DEF Closed
<1>8. UNCHANGED <<received, Arriving, started, worker, due>>
  BY <1>2 DEF pollVars, uiVars, Arriving
<1>9. file' = [file EXCEPT ![w] = Append(file[w], Head(Queues[w]))]
  BY <1>2, <1>5
<1> QED  BY <1>5, <1>6, <1>7, <1>8, <1>9 DEF Channel!Keep

LEMMA CloseImplements ==
  ASSUME Inv, ChannelInv, NEW w \in Sessions, TestEmpty(w), pc'[w] = "done"
  PROVE  Channel!Close(w)
<1>1. /\ pc \in [Sessions -> WorkerSteps] /\ ring[w] \in Ring /\ Contents(ring[w]) \in Seq(Stored)
  BY QueueIs DEF Inv, TypeOK
<1>2. /\ pc[w] = "drain" /\ IsEmpty(ring[w]) /\ pc' = [pc EXCEPT ![w] = "done"]
      /\ UNCHANGED <<pollVars, ring, popped, file, uiVars>>
  BY <1>1 DEF TestEmpty, Goto
<1>3. w \in 1 .. started /\ w # current
  BY <1>2, SessionsType DEF Inv, EndOK, ThreadOK, TypeOK, Draining
<1>4. Channel!Ended(w)
  BY <1>3, EndedIs
<1>5. Queues[w] = <<>>
  <2>1. InHand(w) = <<>> /\ Contents(ring[w]) = <<>>
    BY <1>1, <1>2, EmptyContents DEF InHand
  <2>2. Queues[w] = <<>> \o <<>>
    BY <2>1 DEF Queues
  <2> QED  BY <2>2
<1>6. Queues' = Queues
  BY <1>1, <1>2 DEF Queues, InHand
<1>7. w \notin Closed /\ Closed' = Closed \union {w}
  BY <1>1, <1>2 DEF Closed
<1>8. UNCHANGED <<received, Arriving, started, worker, file, due>>
  BY <1>2 DEF pollVars, uiVars, Arriving
<1> QED  BY <1>4, <1>5, <1>6, <1>7, <1>8 DEF Channel!Close

LEMMA WorkerImplements ==
  ASSUME Inv, ChannelInv, NEW w \in Sessions, Worker(w)
  PROVE  [Channel!SCNext]_(Channel!scVars)
<1>1. /\ pc \in [Sessions -> WorkerSteps] /\ ring \in [Sessions -> Ring]
      /\ popped \in [Sessions -> Stored] /\ Contents(ring[w]) \in Seq(Stored)
  BY QueueIs DEF Inv, TypeOK
<1>2. CASE WriteMessage(w)
  BY <1>2, WriteImplements DEF Channel!SCNext, Sessions
<1>3. CASE TestEmpty(w) /\ pc'[w] = "done"
  BY <1>3, CloseImplements DEF Channel!SCNext, Sessions
<1>4. CASE ~WriteMessage(w) /\ pc'[w] # "done"
  <2>1. /\ UNCHANGED <<pollVars, file, uiVars>> /\ pc[w] # "done"
        /\ \A s \in Sessions \ {w} : pc'[s] = pc[s] /\ ring'[s] = ring[s] /\ popped'[s] = popped[s]
    BY <1>1, <1>4 DEF Worker, TestStop, TestEmpty, ReadSlot, FreeSlot, Goto
  <2>2. Queue(w)' = Queue(w)
    <3>1. CASE FreeSlot(w)
      <4>1. /\ popped' = popped /\ ring'[w] = Freed(ring[w])
            /\ pc[w] \in {"popFree", "drainFree"} /\ pc'[w] \in {"popWrite", "drainWrite"}
        BY <1>1, <3>1 DEF FreeSlot, Goto
      <4>2. ~IsEmpty(ring[w]) /\ popped[w] = Front(ring[w])
        BY <4>1 DEF Inv, HalfwayOK, TakeOK
      <4>3. Contents(ring[w]) = <<Front(ring[w])>> \o Contents(ring'[w])
        BY <1>1, <4>1, <4>2, FreedTakes
      <4>4. InHand(w) = <<>> /\ InHand(w)' = <<Front(ring[w])>>
        BY <4>1, <4>2 DEF InHand
      <4>5. <<>> \o Contents(ring[w]) = Contents(ring[w])
        BY <1>1, ConcatEmptySeq
      <4> QED  BY <4>3, <4>4, <4>5 DEF Queue
    <3>2. CASE ~FreeSlot(w)
      <4>1. /\ ring' = ring
            /\ pc[w] \notin {"popWrite", "drainWrite"} /\ pc'[w] \notin {"popWrite", "drainWrite"}
        BY <1>1, <1>4, <3>2 DEF Worker, TestStop, TestEmpty, ReadSlot, Goto
      <4> QED  BY <4>1 DEF Queue, InHand
    <3> QED  BY <3>1, <3>2
  <2>3. ASSUME NEW s \in Sessions
        PROVE  Queue(s)' = Queue(s)
    BY <2>1, <2>2 DEF Queue, InHand
  <2>4. Queues' = Queues
    BY <2>3, SameQueues
  <2>5. Closed' = Closed /\ Arriving' = Arriving
    BY <1>4, <2>1 DEF Closed, Arriving, pollVars
  <2> QED  BY <2>1, <2>4, <2>5 DEF Channel!scVars, pollVars, uiVars
<1>5. CASE ~TestEmpty(w) /\ pc'[w] = "done"
  BY <1>1, <1>5 DEF Worker, TestStop, ReadSlot, FreeSlot, WriteMessage, Goto
<1> QED  BY <1>2, <1>3, <1>4, <1>5

\* The steps of the UI thread: a session is opened when its worker starts, and ended when the
\* pointer to the worker is cleared.
LEMMA StartImplements ==
  ASSUME Inv, ChannelInv, NEW k \in Kinds, StartLogging(k)
  PROVE  Channel!Open(k)
<1>1. /\ ui = UiIdle /\ current = 0 /\ started < MaxSessions /\ started' = started + 1
      /\ worker' = [worker EXCEPT ![k] = started + 1]
      /\ pc' = [pc EXCEPT ![started + 1] = "testStop"]
      /\ UNCHANGED <<pollVars, ring, popped, file, stop, conn, recording, due>>
  BY DEF StartLogging, IsRecording, Goto
<1>2. pc \in [Sessions -> WorkerSteps] /\ started \in 0 .. MaxSessions
  BY DEF Inv, TypeOK
<1>3. ui.session = 0
  BY <1>1 DEF UiIdle
<1>4. \A s \in Sessions : pc[s] = IF s <= started THEN "done" ELSE "off"
  <2>1. ASSUME NEW s \in Sessions
        PROVE  pc[s] = IF s <= started THEN "done" ELSE "off"
    <3>1. ThreadOK(s) /\ s # 0 /\ s \in Nat /\ started \in Nat
      BY <1>2, SessionsType DEF Inv, EndOK
    <3>2. CASE s <= started
      BY <1>1, <1>3, <3>1, <3>2 DEF ThreadOK
    <3>3. CASE ~(s <= started)
      BY <3>1, <3>3 DEF ThreadOK
    <3> QED  BY <3>2, <3>3
  <2> QED  BY <2>1
<1>5. Closed = 1 .. started
  BY <1>2, <1>4, SessionsType DEF Closed
<1>6. started + 1 \in Sessions /\ pc[started + 1] = "off"
  BY <1>1, <1>2, <1>4, SessionsType
<1>7. Closed' = Closed
  <2>1. \A s \in Sessions : pc'[s] = "done" <=> pc[s] = "done"
    BY <1>1, <1>2, <1>6
  <2> QED  BY <2>1 DEF Closed
<1>8. Queues' = Queues
  <2>1. \A s \in Sessions : InHand(s)' = InHand(s)
    BY <1>1, <1>2, <1>6 DEF InHand
  <2> QED  BY <1>1, <2>1 DEF Queues
<1>9. UNCHANGED <<received, Arriving, file, due>>
  BY <1>1 DEF pollVars, Arriving
<1> QED  BY <1>1, <1>5, <1>7, <1>8, <1>9 DEF Channel!Open

LEMMA ClearImplements ==
  ASSUME Inv, ChannelInv, ClearWorker
  PROVE  \E k \in Kinds : Channel!End(k)
<1>1. /\ current # 0 /\ worker' = [k \in Kinds |-> 0]
      /\ due' = [due EXCEPT ![current] = Len(accepted[current])]
      /\ UNCHANGED <<pollVars, ring, workerVars, stop, conn, started, recording>>
  BY DEF ClearWorker, Inv, EndOK, UiOK
<1>2. PICK k \in Kinds : worker[k] = current
  BY <1>1 DEF ChannelInv
<1>3. current \in Sessions
  BY <1>1, SessionsType DEF Inv, TypeOK
<1>4. Channel!Taken(current) = Len(accepted[current])
  <2>1. Queues[current] = Queue(current)
    BY <1>3 DEF Queues, Queue
  <2> QED  BY <1>3, <2>1, QueueIs DEF Channel!Taken
<1>5. Queues' = Queues
  BY <1>1, QueuesStay DEF workerVars
<1>6. UNCHANGED <<received, Arriving, file, Closed>>
  BY <1>1 DEF pollVars, workerVars, Arriving, Closed
<1>7. Channel!End(k)
  BY <1>1, <1>2, <1>4, <1>5, <1>6 DEF Channel!End
<1> QED  BY <1>7

LEMMA StepImplements ==
  ASSUME Inv, Inv', ChannelInv, ChannelInv', [Next]_vars
  PROVE  [Channel!SCNext]_(Channel!scVars)
<1>1. CASE \E k \in Kinds : StartLogging(k)
  BY <1>1, StartImplements DEF Channel!SCNext
<1>2. CASE ClearWorker
  BY <1>2, ClearImplements DEF Channel!SCNext
<1>3. CASE ClickStop \/ UpdateDbcConfig \/ Subscribe \/ StopLogging \/ SetStop \/ Joined
           \/ UNCHANGED vars
  <2>1. UNCHANGED <<pollVars, ring, workerVars, worker, started, due>>
    BY <1>3 DEF ClickStop, UpdateDbcConfig, Subscribe, StopLogging, SetStop, Joined, vars, uiVars
  <2>2. Queues' = Queues
    BY <2>1, QueuesStay DEF workerVars
  <2> QED  BY <2>1, <2>2 DEF Channel!scVars, pollVars, workerVars, Arriving, Closed
<1> QED  BY <1>1, <1>2, <1>3, PollImplements, WorkerImplements DEF Next, User, UiProceeds

LEMMA InitImplements == Init => Channel!SCInit
<1> SUFFICES ASSUME Init PROVE Channel!SCInit
  OBVIOUS
<1>1. \A s \in Sessions : IsEmpty(ring[s]) /\ ring[s] \in Ring /\ pc[s] = "off"
  BY InitInv DEF Init, Inv, TypeOK, EmptyRing, IsEmpty
<1>2. \A s \in Sessions : InHand(s) \o Contents(ring[s]) = <<>>
  <2>1. \A s \in Sessions : Contents(ring[s]) = <<>> /\ InHand(s) = <<>>
    BY <1>1, EmptyContents DEF InHand
  <2>2. <<>> \o <<>> = <<>>
    OBVIOUS
  <2> QED  BY <2>1, <2>2
<1>3. Queues = [s \in Sessions |-> <<>>] /\ Closed = {}
  BY <1>1, <1>2 DEF Queues, Closed
<1> QED  BY <1>3 DEF Init, Channel!SCInit, Arriving, Sessions

-----------------------------------------------------------------------------
(***************************************************************************)
(* The results.                                                            *)
(***************************************************************************)

\* Every variable keeps its type: no index leaves its ring, no post goes to a session that
\* does not exist.
THEOREM LoggingTypeCorrect == Spec => []TypeOK
<1>1. Inv => TypeOK
  BY DEF Inv
<1>2. QED
  BY InitInv, NextInv, <1>1, PTL DEF Spec

\* In a ring of any size, the polling thread never writes the slot the worker is reading.
THEOREM SlotsStayApart == Spec => []SlotsApart
<1>1. Inv => SlotsApart
  BY DEF Inv, HalfwayOK, TakeOK, SlotsApart, IsEmpty
<1>2. QED
  BY InitInv, NextInv, <1>1, PTL DEF Spec

\* What a ring has accepted is in the file, in the worker's hand or in the ring, in order
\* and once, however the steps of the two threads interleave.
THEOREM AcceptedStaysKept == Spec => []AcceptedIsKept
<1>1. Inv => AcceptedIsKept
  BY DEF Inv, HalfwayOK, Kept, AcceptedIsKept
<1>2. QED
  BY InitInv, NextInv, <1>1, PTL DEF Spec

\* A session that is over has no thread, and its file has every message that had been
\* accepted when it was ended.
THEOREM EndedSessionsComplete == Spec => []EndedIsComplete
<1>1. Inv => EndedIsComplete
  <2> SUFFICES ASSUME Inv, NEW s \in 1 .. started, s # current, s # ui.session
               PROVE  pc[s] = "done" /\ Len(file[s]) >= due[s]
    BY DEF EndedIsComplete
  <2>1. s \in Sessions /\ s <= started
    BY SessionsType DEF Inv, TypeOK
  <2>2. QED
    BY <2>1 DEF Inv, EndOK, ThreadOK
<1>2. QED
  BY InitInv, NextInv, <1>1, PTL DEF Spec

\* Logging implements SessionChannel, for rings of any size and any number of sessions: a
\* session takes a message only while it records its kind, or once more if the post had begun
\* before it was ended; loses one only for want of room; keeps what it took in order and once;
\* and is closed empty.
THEOREM LoggingImplementsChannel == Spec => ImplementsChannel
<1>1. Init => Inv /\ ChannelInv /\ Channel!SCInit
  BY InitInv, ChannelStart, InitImplements
<1>2. Inv /\ [Next]_vars => Inv'
  BY NextInv
<1>3. Inv /\ Inv' /\ ChannelInv /\ [Next]_vars => ChannelInv'
  BY NextChannel
<1>4. Inv /\ Inv' /\ ChannelInv /\ ChannelInv' /\ [Next]_vars
        => [Channel!SCNext]_(Channel!scVars)
  BY StepImplements
<1>5. QED
  BY <1>1, <1>2, <1>3, <1>4, PTL DEF Spec, ImplementsChannel, Channel!SCSpec
=============================================================================
