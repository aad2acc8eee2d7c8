------------------------- MODULE MonitoringModelProofs -------------------------
(***************************************************************************)
(* For any DBCs, window and holding time, whatever frames come and in      *)
(* whatever order: the lists of an entry stay aligned, a frame counts in   *)
(* its own window, once, and is not lost before it is old.  The invariant  *)
(* says this of each entry; what a flush, a frame and the erasing do to    *)
(* one entry are lemmas of their own.                                      *)
(*                                                                         *)
(* And the component around the model: it uses the model as it is meant to *)
(* be used, times stay in order from the socket to the window (OrderInv),  *)
(* list, graphs and overlay follow, and only a driver that is lost tears.  *)
(***************************************************************************)
EXTENDS Reception, SequenceTheorems, WellFoundedInduction, TLAPS

EntryOf(S) ==
  [timestamps   : Seq(Nat),
   signalValues : [S -> Seq(SUBSET Nat)],
   windowStart  : Nat \union {NotOpen},
   window       : [S -> SUBSET Nat]]

\* A frame f of fs counts rightly in a window of signal s of message id that starts at start.
Fits(fs, f, id, s, start) ==
  /\ f \in DOMAIN fs
  /\ fs[f].id = id
  /\ s \in fs[f].signals
  /\ fs[f].stamp < start + Window

EAligned(e, S) == \A s \in S : Len(e.signalValues[s]) = Len(e.timestamps)

EFits(e, S, id, fs) ==
  \A s \in S :
    /\ \A i \in 1 .. Len(e.signalValues[s]) :
         \A f \in e.signalValues[s][i] : Fits(fs, f, id, s, e.timestamps[i])
    /\ \A f \in e.window[s] : Fits(fs, f, id, s, e.windowStart)

EOpen(e, S) == e.windowStart = NotOpen => \A s \in S : e.window[s] = {}

EOnce(e, S) ==
  \A s \in S :
    /\ \A i, j \in 1 .. Len(e.signalValues[s]) :
         \A f \in e.signalValues[s][i] : f \in e.signalValues[s][j] => i = j
    /\ \A i \in 1 .. Len(e.signalValues[s]) :
         \A f \in e.signalValues[s][i] : f \notin e.window[s]

Counts(e, s, f) ==
  \/ f \in e.window[s]
  \/ \E i \in 1 .. Len(e.signalValues[s]) : f \in e.signalValues[s][i]

EKept(e, S, id, fs, t) ==
  \A f \in DOMAIN fs : \A s \in S :
    fs[f].id = id /\ s \in fs[f].signals /\ fs[f].stamp + Holding >= t + Window
      => Counts(e, s, f)

Good(e, S, id, fs, t) ==
  /\ e \in EntryOf(S)
  /\ EAligned(e, S)
  /\ EFits(e, S, id, fs)
  /\ EOpen(e, S)
  /\ EOnce(e, S)
  /\ EKept(e, S, id, fs, t)

\* The signals the entry of a message has.
Has(id) == IF m_currentDbc = NoDbc THEN {} ELSE SignalsOf(m_currentDbc, id)

ModelInv ==
  /\ m_currentDbc \in Dbcs \union {NoDbc}
  /\ now \in Nat
  /\ frames \in Seq(Messages)
  /\ \A f \in DOMAIN frames : frames[f].id \in Slots
  /\ messageValues = [id \in Slots |-> messageValues[id]]
  /\ \A id \in Slots : Good(messageValues[id], Has(id), id, frames, now)

-----------------------------------------------------------------------------
(***************************************************************************)
(* One entry.                                                              *)
(***************************************************************************)

LEMMA NewEntryGood ==
  ASSUME NEW S, NEW id, NEW t
  PROVE  Good(Entry(S), S, id, <<>>, t)
<1>1. Entry(S) \in EntryOf(S)
  BY DEF Entry, EntryOf, NotOpen
<1>2. \A s \in S : Entry(S).signalValues[s] = <<>> /\ Entry(S).window[s] = {}
  BY DEF Entry
<1>3. Entry(S).timestamps = <<>>
  BY DEF Entry
<1>4. EAligned(Entry(S), S) /\ EFits(Entry(S), S, id, <<>>) /\ EOnce(Entry(S), S)
  BY <1>2, <1>3 DEF EAligned, EFits, EOnce
<1>5. EOpen(Entry(S), S) /\ EKept(Entry(S), S, id, <<>>, t)
  BY <1>2 DEF EOpen, EKept
<1>6. QED
  BY <1>1, <1>4, <1>5 DEF Good

\* What a flush does, list by list.
LEMMA FlushShape ==
  ASSUME NEW S, NEW e \in EntryOf(S), e.windowStart \in Nat, NEW n \in Nat \union {NotOpen}
  PROVE  LET x == FlushWindow(e, n)
         IN  /\ x \in EntryOf(S)
             /\ x.windowStart = n
             /\ Len(x.timestamps) = Len(e.timestamps) + 1
             /\ \A i \in 1 .. Len(e.timestamps) : x.timestamps[i] = e.timestamps[i]
             /\ x.timestamps[Len(e.timestamps) + 1] = e.windowStart
             /\ \A s \in S :
                  /\ x.window[s] = {}
                  /\ Len(x.signalValues[s]) = Len(e.signalValues[s]) + 1
                  /\ \A i \in 1 .. Len(e.signalValues[s]) :
                       x.signalValues[s][i] = e.signalValues[s][i]
                  /\ x.signalValues[s][Len(e.signalValues[s]) + 1] = e.window[s]
<1> DEFINE x == FlushWindow(e, n)
<1>1. /\ e.timestamps \in Seq(Nat)
      /\ e.signalValues \in [S -> Seq(SUBSET Nat)]
      /\ e.window \in [S -> SUBSET Nat]
  BY DEF EntryOf
<1>2. x = [timestamps |-> Append(e.timestamps, e.windowStart),
           signalValues |-> [s \in S |-> Append(e.signalValues[s], e.window[s])],
           windowStart |-> n,
           window |-> [s \in S |-> {}]]
  <2>1. DOMAIN e.signalValues = S /\ DOMAIN e.window = S
    BY <1>1
  <2>2. e = [timestamps |-> e.timestamps, signalValues |-> e.signalValues,
             windowStart |-> e.windowStart, window |-> e.window]
    BY DEF EntryOf
  <2>3. x = [e EXCEPT !.timestamps = Append(e.timestamps, e.windowStart),
                      !.signalValues = [s \in S |-> Append(e.signalValues[s], e.window[s])],
                      !.window = [s \in S |-> {}],
                      !.windowStart = n]
    BY <2>1 DEF FlushWindow
  <2> HIDE DEF x
  <2>4. QED
    BY <2>2, <2>3
<1>3. \A s \in S : e.signalValues[s] \in Seq(SUBSET Nat) /\ e.window[s] \in SUBSET Nat
  BY <1>1
<1>4. /\ Append(e.timestamps, e.windowStart) \in Seq(Nat)
      /\ \A s \in S : Append(e.signalValues[s], e.window[s]) \in Seq(SUBSET Nat)
  BY <1>1, <1>3
<1>5. x \in EntryOf(S)
  BY <1>2, <1>4 DEF EntryOf
<1>6. /\ Len(x.timestamps) = Len(e.timestamps) + 1
      /\ \A i \in 1 .. Len(e.timestamps) : x.timestamps[i] = e.timestamps[i]
      /\ x.timestamps[Len(e.timestamps) + 1] = e.windowStart
  BY <1>1, <1>2
<1>7. ASSUME NEW s \in S
      PROVE  /\ x.window[s] = {}
             /\ Len(x.signalValues[s]) = Len(e.signalValues[s]) + 1
             /\ \A i \in 1 .. Len(e.signalValues[s]) :
                  x.signalValues[s][i] = e.signalValues[s][i]
             /\ x.signalValues[s][Len(e.signalValues[s]) + 1] = e.window[s]
  <2>1. x.signalValues[s] = Append(e.signalValues[s], e.window[s]) /\ x.window[s] = {}
    BY <1>2
  <2>2. QED
    BY <1>3, <2>1
<1>8. QED
  BY <1>2, <1>5, <1>6, <1>7

LEMMA FlushGood ==
  ASSUME NEW S, NEW id, NEW fs, NEW t, NEW e, Good(e, S, id, fs, t), e.windowStart \in Nat,
         NEW n \in Nat \union {NotOpen}
  PROVE  /\ Good(FlushWindow(e, n), S, id, fs, t)
         /\ FlushWindow(e, n).windowStart = n
         /\ \A s \in S : FlushWindow(e, n).window[s] = {}
<1> DEFINE x == FlushWindow(e, n)
<1>1. e \in EntryOf(S)
  BY DEF Good
<1>2. /\ x \in EntryOf(S)
      /\ x.windowStart = n
      /\ Len(x.timestamps) = Len(e.timestamps) + 1
      /\ \A i \in 1 .. Len(e.timestamps) : x.timestamps[i] = e.timestamps[i]
      /\ x.timestamps[Len(e.timestamps) + 1] = e.windowStart
      /\ \A s \in S :
           /\ x.window[s] = {}
           /\ Len(x.signalValues[s]) = Len(e.signalValues[s]) + 1
           /\ \A i \in 1 .. Len(e.signalValues[s]) : x.signalValues[s][i] = e.signalValues[s][i]
           /\ x.signalValues[s][Len(e.signalValues[s]) + 1] = e.window[s]
  BY <1>1, FlushShape
<1>3. \A s \in S : Len(e.signalValues[s]) \in Nat /\ Len(e.signalValues[s]) = Len(e.timestamps)
  BY <1>1 DEF Good, EAligned, EntryOf
<1> HIDE DEF x
<1>4. EAligned(x, S)
  BY <1>2, <1>3 DEF EAligned
<1>5. EFits(x, S, id, fs)
  <2>1. ASSUME NEW s \in S, NEW i \in 1 .. Len(x.signalValues[s]), NEW f \in x.signalValues[s][i]
        PROVE  Fits(fs, f, id, s, x.timestamps[i])
    <3>1. CASE i \in 1 .. Len(e.signalValues[s])
      BY <1>2, <1>3, <2>1, <3>1 DEF Good, EFits
    <3>2. CASE i = Len(e.signalValues[s]) + 1
      BY <1>2, <1>3, <2>1, <3>2 DEF Good, EFits
    <3>3. QED
      BY <1>2, <1>3, <2>1, <3>1, <3>2
  <2>2. QED
    BY <1>2, <2>1 DEF EFits
<1>6. EOpen(x, S)
  BY <1>2 DEF EOpen
<1>7. EOnce(x, S)
  <2> SUFFICES ASSUME NEW s \in S, NEW i \in 1 .. Len(x.signalValues[s]),
                      NEW j \in 1 .. Len(x.signalValues[s]),
                      NEW f \in x.signalValues[s][i], f \in x.signalValues[s][j]
               PROVE  i = j
    BY <1>2 DEF EOnce
  <2> DEFINE k == Len(e.signalValues[s])
  <2>1. /\ k \in Nat
        /\ i \in 1 .. k \/ i = k + 1
        /\ j \in 1 .. k \/ j = k + 1
    <3>1. Len(e.signalValues[s]) \in Nat
          /\ Len(x.signalValues[s]) = Len(e.signalValues[s]) + 1
      BY <1>2, <1>3
    <3>2. QED
      BY <3>1
  <2>2. CASE i \in 1 .. k /\ j \in 1 .. k
    <3>1. x.signalValues[s][i] = e.signalValues[s][i] /\ x.signalValues[s][j] = e.signalValues[s][j]
      BY <1>2, <2>2, Zenon
    <3>2. f \in e.signalValues[s][i] /\ f \in e.signalValues[s][j]
      BY <3>1, Zenon
    <3>3. EOnce(e, S)
      BY DEF Good
    <3>4. QED
      BY <2>2, <3>2, <3>3 DEF EOnce
  <2>3. CASE i \in 1 .. k /\ j = k + 1
    BY <1>2, <2>3 DEF Good, EOnce
  <2>4. CASE i = k + 1 /\ j \in 1 .. k
    BY <1>2, <2>4 DEF Good, EOnce
  <2>5. QED
    BY <2>1, <2>2, <2>3, <2>4
<1>8. EKept(x, S, id, fs, t)
  <2> SUFFICES ASSUME NEW s \in S, NEW f, Counts(e, s, f)
               PROVE  Counts(x, s, f)
    BY DEF Good, EKept
  <2>1. CASE f \in e.window[s]
    <3> DEFINE k == Len(e.signalValues[s]) + 1
    <3>1. k \in 1 .. k /\ Len(x.signalValues[s]) = k /\ x.signalValues[s][k] = e.window[s]
      BY <1>2, <1>3
    <3>2. k \in 1 .. Len(x.signalValues[s]) /\ f \in x.signalValues[s][k]
      BY <2>1, <3>1
    <3> HIDE DEF k
    <3>3. QED
      BY <3>2 DEF Counts
  <2>2. ASSUME NEW i \in 1 .. Len(e.signalValues[s]), f \in e.signalValues[s][i]
        PROVE  Counts(x, s, f)
    <3>1. f \in x.signalValues[s][i] /\ i \in 1 .. Len(x.signalValues[s])
      <4>1. x.signalValues[s][i] = e.signalValues[s][i]
        BY <1>2, <2>2, Zenon
      <4>2. Len(e.signalValues[s]) \in Nat /\ Len(x.signalValues[s]) = Len(e.signalValues[s]) + 1
        BY <1>2, <1>3, Zenon
      <4>3. i \in 1 .. Len(x.signalValues[s])
        BY <2>2, <4>2
      <4>4. QED
        BY <2>2, <4>1, <4>3, Zenon
    <3>2. QED
      BY <3>1 DEF Counts
  <2>3. QED
    BY <2>1, <2>2 DEF Counts
<1>9. QED
  BY <1>2, <1>4, <1>5, <1>6, <1>7, <1>8 DEF Good, x

\* What a frame that counts rightly is stays so when another frame is taken in.
LEMMA FitsGrows ==
  ASSUME NEW fs \in Seq(Messages), NEW message \in Messages, NEW f, NEW id, NEW s, NEW start,
         Fits(fs, f, id, s, start)
  PROVE  Fits(Append(fs, message), f, id, s, start)
<1>1. f \in 1 .. Len(fs) /\ Len(fs) \in Nat
  BY DEF Fits
<1>2. Append(fs, message)[f] = fs[f] /\ f \in DOMAIN Append(fs, message)
  BY <1>1
<1>3. QED
  BY <1>2 DEF Fits

LEMMA GrowGood ==
  ASSUME NEW S, NEW e, NEW id, NEW t, NEW fs \in Seq(Messages), NEW message \in Messages,
         Good(e, S, id, fs, t), message.id # id
  PROVE  Good(e, S, id, Append(fs, message), t)
<1>1. EFits(e, S, id, Append(fs, message))
  BY FitsGrows DEF Good, EFits
<1>2. EKept(e, S, id, Append(fs, message), t)
  <2> SUFFICES ASSUME NEW f \in DOMAIN Append(fs, message), NEW s \in S,
                      Append(fs, message)[f].id = id,
                      s \in Append(fs, message)[f].signals,
                      Append(fs, message)[f].stamp + Holding >= t + Window
               PROVE  Counts(e, s, f)
    BY DEF EKept
  <2>1. f \in 1 .. Len(fs) \/ f = Len(fs) + 1
    BY LenProperties
  <2>2. f # Len(fs) + 1
    OBVIOUS
  <2>3. f \in DOMAIN fs /\ Append(fs, message)[f] = fs[f]
    BY <2>1, <2>2
  <2>4. QED
    BY <2>3 DEF Good, EKept
<1>3. QED
  BY <1>1, <1>2 DEF Good

\* The window a frame belongs to is opened and nothing else changes.
LEMMA OpenedGood ==
  ASSUME NEW S, NEW id, NEW fs, NEW t, NEW e, Good(e, S, id, fs, t), NEW stamp \in Nat
  PROVE  LET o == Opened(e, stamp)
         IN  /\ Good(o, S, id, fs, t)
             /\ o.windowStart \in Nat
             /\ stamp < o.windowStart + Window
<1> DEFINE o == Opened(e, stamp)
<1>1. e \in EntryOf(S) /\ e.windowStart \in Nat \union {NotOpen}
  BY DEF Good, EntryOf
<1>2. Window \in Nat \ {0}
  BY ModelAssumption
<1>3. CASE e.windowStart < 0
  <2>1. o = [e EXCEPT !.windowStart = stamp] /\ e.windowStart = NotOpen
    BY <1>1, <1>3 DEF Opened, NotOpen
  <2> HIDE DEF o
  <2>2. /\ o \in EntryOf(S)
        /\ o.windowStart = stamp
        /\ o.timestamps = e.timestamps
        /\ o.signalValues = e.signalValues
        /\ o.window = e.window
    BY <1>1, <2>1 DEF EntryOf
  <2>3. \A s \in S : o.window[s] = {}
    BY <2>1, <2>2 DEF Good, EOpen
  <2>4. EAligned(o, S) /\ EOnce(o, S)
    BY <2>2 DEF Good, EAligned, EOnce
  <2>5. EFits(o, S, id, fs)
    BY <2>2, <2>3 DEF Good, EFits
  <2>6. EOpen(o, S)
    BY <2>3 DEF EOpen
  <2>7. EKept(o, S, id, fs, t)
    BY <2>2 DEF Good, EKept, Counts
  <2>8. Good(o, S, id, fs, t)
    BY <2>2, <2>4, <2>5, <2>6, <2>7 DEF Good
  <2>9. QED
    BY <1>2, <2>2, <2>8 DEF o
<1>4. CASE ~ (e.windowStart < 0) /\ stamp - e.windowStart >= Window
  <2>1. e.windowStart \in Nat /\ o = FlushWindow(e, stamp)
    BY <1>1, <1>4 DEF Opened, NotOpen
  <2>2. Good(FlushWindow(e, stamp), S, id, fs, t) /\ FlushWindow(e, stamp).windowStart = stamp
    BY <2>1, FlushGood
  <2>3. QED
    BY <1>2, <2>1, <2>2
<1>5. CASE ~ (e.windowStart < 0) /\ ~ (stamp - e.windowStart >= Window)
  <2>1. e.windowStart \in Nat /\ o = e
    BY <1>1, <1>5 DEF Opened, NotOpen
  <2>2. stamp < e.windowStart + Window
    BY <1>2, <1>5, <2>1
  <2>3. QED
    BY <2>1, <2>2
<1>6. QED
  BY <1>3, <1>4, <1>5

\* A frame that is taken in counts in the open window of each of its signals.
LEMMA AddedGood ==
  ASSUME NEW S, NEW id, NEW t, NEW fs \in Seq(Messages), NEW message \in Messages,
         message.id = id, NEW e, Good(e, S, id, fs, t)
  PROVE  Good(Added(e, message, Len(fs) + 1), S, id, Append(fs, message), t)
<1> DEFINE n == Len(fs) + 1
           all == Append(fs, message)
           o == Opened(e, message.stamp)
           x == Added(e, message, n)
<1>1. message.stamp \in Nat /\ n \in Nat /\ Len(fs) \in Nat
  BY DEF Messages
<1>2. Good(o, S, id, fs, t) /\ o.windowStart \in Nat /\ message.stamp < o.windowStart + Window
  BY <1>1, OpenedGood
<1>3. x = [o EXCEPT !.window = [s \in DOMAIN o.window |->
                                  IF s \in message.signals THEN o.window[s] \union {n}
                                  ELSE o.window[s]]]
  BY DEF Added
<1>4. all[n] = message /\ n \in DOMAIN all /\ DOMAIN all = 1 .. n
  BY <1>1
<1> HIDE DEF x, o, n, all
<1>5. o \in EntryOf(S)
  BY <1>2 DEF Good
<1>6. /\ o.window \in [S -> SUBSET Nat]
      /\ DOMAIN o.window = S
  BY <1>5 DEF EntryOf
<1>7. /\ x.timestamps = o.timestamps
      /\ x.signalValues = o.signalValues
      /\ x.windowStart = o.windowStart
      /\ x.window = [s \in S |-> IF s \in message.signals THEN o.window[s] \union {n}
                                 ELSE o.window[s]]
  BY <1>3, <1>5, <1>6 DEF EntryOf
<1>8. x \in EntryOf(S)
  <2>1. x.window \in [S -> SUBSET Nat]
    BY <1>1, <1>6, <1>7
  <2>2. x = [timestamps |-> o.timestamps, signalValues |-> o.signalValues,
             windowStart |-> o.windowStart, window |-> x.window]
    BY <1>3, <1>5, <1>7 DEF EntryOf
  <2>3. QED
    BY <1>5, <2>1, <2>2 DEF EntryOf
<1>9. EAligned(x, S)
  BY <1>2, <1>7 DEF Good, EAligned
<1>10. EFits(x, S, id, all)
  <2>1. ASSUME NEW s \in S, NEW i \in 1 .. Len(x.signalValues[s]), NEW f \in x.signalValues[s][i]
        PROVE  Fits(all, f, id, s, x.timestamps[i])
    BY <1>2, <1>7, FitsGrows DEF Good, EFits, all
  <2>2. ASSUME NEW s \in S, NEW f \in x.window[s]
        PROVE  Fits(all, f, id, s, x.windowStart)
    <3>1. CASE f \in o.window[s]
      BY <1>2, <1>7, <3>1, FitsGrows DEF Good, EFits, all
    <3>2. CASE f = n /\ s \in message.signals
      BY <1>2, <1>4, <1>7, <3>2 DEF Fits
    <3>3. QED
      BY <1>7, <2>2, <3>1, <3>2
  <2>3. QED
    BY <2>1, <2>2 DEF EFits
<1>11. EOpen(x, S)
  BY <1>2, <1>7 DEF EOpen, NotOpen
<1>12. EOnce(x, S)
  <2>1. ASSUME NEW s \in S, NEW i \in 1 .. Len(o.signalValues[s]), NEW f \in o.signalValues[s][i]
        PROVE  f \notin x.window[s]
    <3>1. f \in 1 .. Len(fs) /\ f \notin o.window[s]
      BY <1>2 DEF Good, EFits, EOnce, Fits
    <3>2. f # n
      BY <1>1, <3>1 DEF n
    <3>3. QED
      BY <1>7, <3>1, <3>2
  <2>2. QED
    BY <1>2, <1>7, <2>1 DEF Good, EOnce
<1>13. EKept(x, S, id, all, t)
  <2> SUFFICES ASSUME NEW f \in DOMAIN all, NEW s \in S, all[f].id = id, s \in all[f].signals,
                      all[f].stamp + Holding >= t + Window
               PROVE  Counts(x, s, f)
    BY DEF EKept
  <2>1. CASE f = n
    BY <1>4, <1>7, <2>1 DEF Counts
  <2>2. CASE f # n
    <3>1. f \in DOMAIN fs /\ all[f] = fs[f]
      BY <1>1, <1>4, <2>2 DEF all, n
    <3>2. Counts(o, s, f)
      BY <1>2, <3>1 DEF Good, EKept
    <3>3. QED
      BY <1>7, <3>2 DEF Counts
  <2>3. QED
    BY <2>1, <2>2
<1>14. Good(x, S, id, all, t)
  BY <1>8, <1>9, <1>10, <1>11, <1>12, <1>13 DEF Good
<1>15. QED
  BY <1>14 DEF x, n, all

\* A set of numbers that are not too large has a greatest one.
LEMMA Greatest ==
  ASSUME NEW n \in Nat, NEW T \in SUBSET (0 .. n), T # {}
  PROVE  \E m \in T : \A k \in T : k <= m
<1>1. PICK R : /\ IsWellFoundedOn(R, Nat)
               /\ \A a, b \in Nat : a < b => <<a, b>> \in R
  <2>1. IsWellFoundedOn(OpToRel(<, Nat), Nat)
    BY NatLessThanWellFounded
  <2>2. \A a, b \in Nat : a < b => <<a, b>> \in OpToRel(<, Nat)
    BY DEF OpToRel
  <2>3. QED
    BY <2>1, <2>2, Zenon
<1> DEFINE D == {n - k : k \in T}
<1>2. D \subseteq Nat /\ D # {}
  <2>1. \A k \in T : n - k \in Nat
    OBVIOUS
  <2>2. PICK k \in T : TRUE
    OBVIOUS
  <2>3. n - k \in D
    BY <2>2
  <2>4. \A y \in D : y \in Nat
    BY <2>1
  <2>5. QED
    BY <2>3, <2>4
<1>3. PICK x \in D : \A y \in D : ~ (<<y, x>> \in R)
  <2>1. IsWellFoundedOn(R, Nat)
    BY <1>1
  <2> HIDE DEF D
  <2>2. QED
    BY <1>2, <2>1, WFMin, ZenonT(30)
<1>4. PICK m \in T : x = n - m
  OBVIOUS
<1>5. ASSUME NEW k \in T PROVE k <= m
  <2>1. n - k \in D /\ n - k \in Nat /\ n - m \in Nat
    OBVIOUS
  <2>2. ~ (n - k < n - m)
    <3> HIDE DEF D
    <3>1. QED BY <1>1, <1>3, <1>4, <2>1
  <2>3. QED
    BY <2>2
<1>6. QED
  BY <1>5

\* How many timestamps are too old is well defined, and those are too old.
LEMMA OldIsOld ==
  ASSUME NEW S, NEW e \in EntryOf(S), now \in Nat
  PROVE  /\ Old(e) \in 0 .. Len(e.timestamps)
         /\ \A i \in 1 .. Old(e) : e.timestamps[i] + Holding < now
<1> DEFINE isOld(k) == \A i \in 1 .. k : e.timestamps[i] + Holding < now
           n == Len(e.timestamps)
           T == {k \in 0 .. n : isOld(k)}
<1>1. n \in Nat
  BY DEF EntryOf
<1>2. 0 \in T
  BY <1>1
<1>3. PICK m \in T : \A k \in T : k <= m
  <2> HIDE DEF n, T
  <2>1. T \in SUBSET (0 .. n)
    BY DEF T
  <2>2. QED
    BY <1>1, <1>2, <2>1, Greatest
<1>4. m \in 0 .. n /\ isOld(m) /\ \A k \in 0 .. n : isOld(k) => k <= m
  BY <1>3
<1>5. \E k \in 0 .. n : isOld(k) /\ \A j \in 0 .. n : isOld(j) => j <= k
  BY <1>4
<1>6. Old(e) = CHOOSE k \in 0 .. n : isOld(k) /\ \A j \in 0 .. n : isOld(j) => j <= k
  BY DEF Old
<1>7. Old(e) \in 0 .. n /\ isOld(Old(e))
  <2> HIDE DEF isOld, n
  <2>1. QED
    BY <1>5, <1>6
<1>8. QED
  BY <1>7

\* What is left of a list.
LEMMA WithoutShape ==
  ASSUME NEW X, NEW q \in Seq(X), NEW k \in 0 .. Len(q)
  PROVE  /\ Without(q, k) \in Seq(X)
         /\ Len(Without(q, k)) = Len(q) - k
         /\ \A i \in 1 .. Len(q) - k : Without(q, k)[i] = q[i + k]
<1>1. Len(q) \in Nat
  OBVIOUS
<1>2. \A i \in k + 1 .. Len(q) : q[i] \in X
  OBVIOUS
<1>3. Without(q, k) = [i \in 1 .. Len(q) - k |-> q[i + k]]
  BY <1>1, SubSeqProperties DEF Without
<1>4. Without(q, k) \in Seq(X) /\ Len(Without(q, k)) = Len(q) - k
  BY <1>1, <1>2, SubSeqProperties DEF Without
<1>5. QED
  BY <1>3, <1>4

\* The erasing takes the same part off every list, and no frame that is not old with it.
LEMMA ErasedGood ==
  ASSUME NEW S, NEW id, NEW fs \in Seq(Messages), NEW e, now \in Nat, Good(e, S, id, fs, now)
  PROVE  Good(Erased(e), S, id, fs, now)
<1> DEFINE k == Old(e)
           x == Erased(e)
<1>1. e \in EntryOf(S) /\ EAligned(e, S)
  BY DEF Good
<1>2. /\ e.timestamps \in Seq(Nat)
      /\ e.signalValues \in [S -> Seq(SUBSET Nat)]
      /\ DOMAIN e.signalValues = S
  BY <1>1 DEF EntryOf
<1>3. k \in 0 .. Len(e.timestamps) /\ \A i \in 1 .. k : e.timestamps[i] + Holding < now
  BY <1>1, OldIsOld
<1>4. x = [e EXCEPT !.timestamps = Without(e.timestamps, k),
                    !.signalValues = [s \in S |-> Without(e.signalValues[s], k)]]
  BY <1>2 DEF Erased
<1> HIDE DEF x, k
<1>5. /\ x.timestamps = Without(e.timestamps, k)
      /\ x.signalValues = [s \in S |-> Without(e.signalValues[s], k)]
      /\ x.windowStart = e.windowStart
      /\ x.window = e.window
      /\ x = [timestamps |-> x.timestamps, signalValues |-> x.signalValues,
              windowStart |-> e.windowStart, window |-> e.window]
  BY <1>1, <1>4 DEF EntryOf
<1> DEFINE n == Len(e.timestamps)
<1>6. /\ n \in Nat
      /\ x.timestamps \in Seq(Nat)
      /\ Len(x.timestamps) = n - k
      /\ \A i \in 1 .. n - k : x.timestamps[i] = e.timestamps[i + k]
  <2>1. e.timestamps \in Seq(Nat) /\ k \in 0 .. Len(e.timestamps)
    BY <1>2, <1>3
  <2>2. /\ Without(e.timestamps, k) \in Seq(Nat)
        /\ Len(Without(e.timestamps, k)) = Len(e.timestamps) - k
        /\ \A i \in 1 .. Len(e.timestamps) - k : Without(e.timestamps, k)[i] = e.timestamps[i + k]
    BY <2>1, WithoutShape
  <2>3. QED
    BY <1>5, <2>1, <2>2
<1>7. ASSUME NEW s \in S
      PROVE  /\ x.signalValues[s] \in Seq(SUBSET Nat)
             /\ Len(e.signalValues[s]) = n
             /\ Len(x.signalValues[s]) = n - k
             /\ \A i \in 1 .. n - k : x.signalValues[s][i] = e.signalValues[s][i + k]
  <2>1. e.signalValues[s] \in Seq(SUBSET Nat) /\ Len(e.signalValues[s]) = n
    BY <1>1, <1>2 DEF EAligned
  <2>2. x.signalValues[s] = Without(e.signalValues[s], k)
    BY <1>5
  <2>3. k \in 0 .. Len(e.signalValues[s])
    BY <1>3, <2>1
  <2>4. /\ Without(e.signalValues[s], k) \in Seq(SUBSET Nat)
        /\ Len(Without(e.signalValues[s], k)) = Len(e.signalValues[s]) - k
        /\ \A i \in 1 .. Len(e.signalValues[s]) - k :
             Without(e.signalValues[s], k)[i] = e.signalValues[s][i + k]
    BY <2>1, <2>3, WithoutShape
  <2>5. QED
    BY <2>1, <2>2, <2>4
<1>8. x \in EntryOf(S)
  <2>1. x.signalValues \in [S -> Seq(SUBSET Nat)]
    BY <1>5, <1>7
  <2>2. QED
    BY <1>1, <1>5, <1>6, <2>1 DEF EntryOf
<1>9. k \in 0 .. n /\ \A i \in 1 .. n - k : i + k \in 1 .. n
  BY <1>3, <1>6
<1> HIDE DEF n
<1>10. EAligned(x, S)
  BY <1>6, <1>7 DEF EAligned
<1>11. EFits(x, S, id, fs)
  <2>1. ASSUME NEW s \in S, NEW i \in 1 .. Len(x.signalValues[s]), NEW f \in x.signalValues[s][i]
        PROVE  Fits(fs, f, id, s, x.timestamps[i])
    <3>1. i \in 1 .. n - k /\ i + k \in 1 .. Len(e.signalValues[s])
          /\ f \in e.signalValues[s][i + k] /\ x.timestamps[i] = e.timestamps[i + k]
      BY <1>6, <1>7, <1>9, <2>1
    <3>2. QED
      BY <3>1 DEF Good, EFits
  <2>2. QED
    BY <1>5, <2>1 DEF EFits, Good
<1>12. EOpen(x, S)
  BY <1>5 DEF Good, EOpen
<1>13. EOnce(x, S)
  <2>1. ASSUME NEW s \in S, NEW i \in 1 .. Len(x.signalValues[s]),
               NEW j \in 1 .. Len(x.signalValues[s]),
               NEW f \in x.signalValues[s][i], f \in x.signalValues[s][j]
        PROVE  i = j
    <3>1. /\ i \in 1 .. n - k /\ j \in 1 .. n - k
          /\ i + k \in 1 .. Len(e.signalValues[s])
          /\ j + k \in 1 .. Len(e.signalValues[s])
          /\ f \in e.signalValues[s][i + k]
          /\ f \in e.signalValues[s][j + k]
      BY <1>7, <1>9, <2>1
    <3>2. i + k = j + k
      BY <3>1 DEF Good, EOnce
    <3>3. QED
      BY <1>3, <1>9, <3>1, <3>2
  <2>2. ASSUME NEW s \in S, NEW i \in 1 .. Len(x.signalValues[s]), NEW f \in x.signalValues[s][i]
        PROVE  f \notin x.window[s]
    <3>1. i + k \in 1 .. Len(e.signalValues[s]) /\ f \in e.signalValues[s][i + k]
      BY <1>7, <1>9, <2>2
    <3>2. QED
      BY <1>5, <3>1 DEF Good, EOnce
  <2>3. QED
    BY <2>1, <2>2 DEF EOnce
<1>14. EKept(x, S, id, fs, now)
  <2> SUFFICES ASSUME NEW f \in DOMAIN fs, NEW s \in S, fs[f].id = id, s \in fs[f].signals,
                      fs[f].stamp + Holding >= now + Window
               PROVE  Counts(x, s, f)
    BY DEF EKept
  <2>1. Counts(e, s, f)
    BY DEF Good, EKept
  <2>2. CASE f \in e.window[s]
    BY <1>5, <2>2 DEF Counts
  <2>3. ASSUME NEW i \in 1 .. Len(e.signalValues[s]), f \in e.signalValues[s][i]
        PROVE  Counts(x, s, f)
    <3>1. i \in 1 .. n /\ e.timestamps[i] \in Nat
      BY <1>2, <1>7 DEF n
    <3>2. fs[f].stamp < e.timestamps[i] + Window
      BY <2>3 DEF Good, EFits, Fits
    <3>3. fs[f].stamp \in Nat /\ Window \in Nat /\ Holding \in Nat
      <4>1. fs[f] \in Messages
        OBVIOUS
      <4>2. QED
        BY <4>1, ModelAssumption DEF Messages
    <3>4. ~ (e.timestamps[i] + Holding < now)
      BY <3>1, <3>2, <3>3
    <3>5. ~ (i \in 1 .. k)
      BY <1>3, <3>4
    <3>6. i - k \in 1 .. n - k
      BY <1>6, <1>9, <3>1, <3>5
    <3>7. x.signalValues[s][i - k] = e.signalValues[s][(i - k) + k] /\ (i - k) + k = i
      BY <1>7, <1>9, <3>1, <3>6
    <3>8. QED
      BY <1>7, <2>3, <3>6, <3>7 DEF Counts
  <2>4. QED
    BY <2>1, <2>2, <2>3 DEF Counts
<1>15. QED
  BY <1>8, <1>10, <1>11, <1>12, <1>13, <1>14 DEF Good, x

LEMMA LaterGood ==
  ASSUME NEW S, NEW id, NEW fs \in Seq(Messages), NEW e, now \in Nat, Good(e, S, id, fs, now)
  PROVE  Good(e, S, id, fs, now + 1)
<1>1. \A f \in DOMAIN fs : fs[f].stamp \in Nat
  <2>1. \A f \in DOMAIN fs : fs[f] \in Messages
    OBVIOUS
  <2>2. QED
    BY <2>1 DEF Messages
<1>2. Window \in Nat /\ Holding \in Nat
  BY ModelAssumption
<1>3. EKept(e, S, id, fs, now + 1)
  <2> SUFFICES ASSUME NEW f \in DOMAIN fs, NEW s \in S, fs[f].id = id, s \in fs[f].signals,
                      fs[f].stamp + Holding >= now + 1 + Window
               PROVE  Counts(e, s, f)
    BY DEF EKept
  <2>1. fs[f].stamp + Holding >= now + Window
    BY <1>1, <1>2
  <2>2. QED
    BY <2>1 DEF Good, EKept
<1>4. QED
  BY <1>3 DEF Good

-----------------------------------------------------------------------------
(***************************************************************************)
(* The table.                                                              *)
(***************************************************************************)

LEMMA ModelStart == ModelInit => ModelInv
<1> SUFFICES ASSUME ModelInit PROVE ModelInv
  OBVIOUS
<1>1. \A id \in Slots : messageValues[id] = Entry({}) /\ Has(id) = {}
  BY DEF ModelInit, Has
<1>2. frames = <<>> /\ now = 0 /\ m_currentDbc = NoDbc
  BY DEF ModelInit
<1>3. \A id \in Slots : Good(messageValues[id], Has(id), id, frames, now)
  BY <1>1, <1>2, NewEntryGood
<1>4. messageValues = [id \in Slots |-> messageValues[id]]
  BY DEF ModelInit
<1>5. QED
  BY <1>2, <1>3, <1>4 DEF ModelInv

LEMMA FrameKeeps ==
  ASSUME ModelInv, NEW message \in Messages, OnIncomingDbcFrame(message)
  PROVE  ModelInv'
<1>1. CASE ~ (m_currentDbc # NoDbc /\ message.id < TableSize)
  <2>1. UNCHANGED modelVars
    BY <1>1 DEF OnIncomingDbcFrame, modelVars
  <2>2. QED
    BY <2>1 DEF ModelInv, Has, modelVars
<1>2. CASE m_currentDbc # NoDbc /\ message.id < TableSize
  <2>1. /\ frames' = Append(frames, message)
        /\ messageValues' = [messageValues EXCEPT
                               ![message.id] = Added(messageValues[message.id], message,
                                                     Len(frames) + 1)]
        /\ UNCHANGED <<m_currentDbc, now>>
    BY <1>2 DEF OnIncomingDbcFrame
  <2>2. /\ DOMAIN messageValues = Slots
        /\ frames \in Seq(Messages)
        /\ \A f \in DOMAIN frames : frames[f].id \in Slots
        /\ \A id \in Slots : Good(messageValues[id], Has(id), id, frames, now)
    BY DEF ModelInv
  <2>3. ASSUME NEW id \in Slots
        PROVE  Good(messageValues'[id], Has(id), id, Append(frames, message), now)
    <3>1. CASE id = message.id
      <4>1. messageValues'[id] = Added(messageValues[id], message, Len(frames) + 1)
        BY <2>1, <2>2, <3>1
      <4>2. Good(messageValues[id], Has(id), id, frames, now)
        BY <2>2
      <4>3. QED
        BY <2>2, <3>1, <4>1, <4>2, AddedGood
    <3>2. CASE id # message.id
      <4>1. messageValues'[id] = messageValues[id]
        BY <2>1, <2>2, <3>2
      <4>2. QED
        BY <2>2, <3>2, <4>1, GrowGood
    <3>3. QED
      BY <3>1, <3>2
  <2>4. \A id \in Slots : Has(id)' = Has(id)
    BY <2>1 DEF Has
  <2>5. frames' \in Seq(Messages)
    BY <2>1, <2>2
  <2>6. messageValues' = [id \in Slots |-> messageValues'[id]]
    BY <2>1, <2>2
  <2>7. \A f \in DOMAIN frames' : frames'[f].id \in Slots
    <3>1. message.id \in Slots
      BY <1>2, ModelAssumption DEF Messages, Slots
    <3>2. QED
      BY <2>1, <2>2, <3>1
  <2>8. \A id \in Slots : Good(messageValues[id], Has(id), id, frames, now)'
    BY <2>1, <2>3, <2>4
  <2>9. /\ m_currentDbc' \in Dbcs \union {NoDbc}
        /\ now' \in Nat
    BY <2>1 DEF ModelInv
  <2>10. QED
    BY <2>5, <2>6, <2>7, <2>8, <2>9 DEF ModelInv
<1>3. QED
  BY <1>1, <1>2

LEMMA FlushKeeps == ModelInv /\ FlushStaleWindows => ModelInv'
<1> SUFFICES ASSUME ModelInv, FlushStaleWindows PROVE ModelInv'
  OBVIOUS
<1>1. ASSUME NEW id \in Slots
      PROVE  Good(messageValues'[id], Has(id), id, frames, now)
  <2>1. Good(messageValues[id], Has(id), id, frames, now)
    BY DEF ModelInv
  <2>2. \/ messageValues'[id] = messageValues[id]
        \/ /\ messageValues[id].windowStart >= 0
           /\ messageValues'[id] = FlushWindow(messageValues[id], NotOpen)
    BY DEF FlushStaleWindows
  <2>3. messageValues[id].windowStart \in Nat \union {NotOpen}
    BY <2>1 DEF Good, EntryOf
  <2>4. CASE messageValues[id].windowStart >= 0
             /\ messageValues'[id] = FlushWindow(messageValues[id], NotOpen)
    <3>1. messageValues[id].windowStart \in Nat
      BY <2>3, <2>4 DEF NotOpen
    <3>2. NotOpen \in Nat \union {NotOpen}
      OBVIOUS
    <3>3. Good(FlushWindow(messageValues[id], NotOpen), Has(id), id, frames, now)
      BY <2>1, <3>1, <3>2, FlushGood
    <3>4. QED
      BY <2>4, <3>3
  <2>5. QED
    BY <2>1, <2>2, <2>4
<1>2. UNCHANGED <<m_currentDbc, now, frames>>
      /\ messageValues' = [id \in Slots |-> messageValues'[id]]
  BY DEF FlushStaleWindows
<1>3. \A id \in Slots : Has(id)' = Has(id)
  BY <1>2 DEF Has
<1>4. QED
  BY <1>1, <1>2, <1>3 DEF ModelInv

LEMMA DbcKeeps ==
  ASSUME ModelInv, NEW d \in Dbcs, OnDbcChange(d)
  PROVE  ModelInv'
<1>1. /\ m_currentDbc' = d
      /\ frames' = <<>>
      /\ now' = now
      /\ messageValues' = [id \in Slots |-> Entry(SignalsOf(d, id))]
  BY DEF OnDbcChange
<1>2. \A id \in Slots : Has(id)' = SignalsOf(d, id)
  BY <1>1, ModelAssumption DEF Has
<1>3. \A id \in Slots : Good(Entry(SignalsOf(d, id)), SignalsOf(d, id), id, <<>>, now)
  BY NewEntryGood
<1>4. \A id \in Slots : Good(messageValues'[id], Has(id)', id, frames', now')
  BY <1>1, <1>2, <1>3
<1>5. QED
  BY <1>1, <1>4 DEF ModelInv

LEMMA EraseKeeps == ModelInv /\ EraseOldData => ModelInv'
<1> SUFFICES ASSUME ModelInv, EraseOldData PROVE ModelInv'
  OBVIOUS
<1>1. ASSUME NEW id \in Slots
      PROVE  Good(messageValues'[id], Has(id), id, frames, now)
  <2>1. Good(messageValues[id], Has(id), id, frames, now) /\ now \in Nat /\ frames \in Seq(Messages)
    BY DEF ModelInv
  <2>2. messageValues'[id] = Erased(messageValues[id])
    BY DEF EraseOldData
  <2>3. QED
    BY <2>1, <2>2, ErasedGood
<1>2. UNCHANGED <<m_currentDbc, now, frames>>
      /\ messageValues' = [id \in Slots |-> messageValues'[id]]
  BY DEF EraseOldData
<1>3. \A id \in Slots : Has(id)' = Has(id)
  BY <1>2 DEF Has
<1>4. QED
  BY <1>1, <1>2, <1>3 DEF ModelInv

LEMMA TickKeeps == ModelInv /\ Tick => ModelInv'
<1> SUFFICES ASSUME ModelInv, Tick PROVE ModelInv'
  OBVIOUS
<1>1. now' = now + 1 /\ UNCHANGED <<m_currentDbc, messageValues, frames>>
  BY DEF Tick
<1>2. \A id \in Slots : Good(messageValues[id], Has(id), id, frames, now + 1)
  BY LaterGood DEF ModelInv
<1>3. \A id \in Slots : Has(id)' = Has(id)
  BY <1>1 DEF Has
<1>4. QED
  BY <1>1, <1>2, <1>3 DEF ModelInv

LEMMA ModelStep == ModelInv /\ [ModelNext]_modelVars => ModelInv'
<1> SUFFICES ASSUME ModelInv, [ModelNext]_modelVars PROVE ModelInv'
  OBVIOUS
<1>1. CASE UNCHANGED modelVars
  BY <1>1 DEF ModelInv, Has, modelVars
<1>2. QED
  BY <1>1, FrameKeeps, FlushKeeps, DbcKeeps, EraseKeeps, TickKeeps DEF ModelNext

\* What the invariant says of the lists an entry really has.
LEMMA InvShows == ModelInv => Aligned /\ EachInItsWindow /\ SamplesKept
<1> SUFFICES ASSUME ModelInv PROVE Aligned /\ EachInItsWindow /\ SamplesKept
  OBVIOUS
<1>1. \A id \in Slots : /\ Good(messageValues[id], Has(id), id, frames, now)
                        /\ DOMAIN messageValues[id].signalValues = Has(id)
                        /\ \A s \in Has(id) :
                             DOMAIN messageValues[id].signalValues[s] =
                               1 .. Len(messageValues[id].signalValues[s])
  BY DEF ModelInv, Good, EntryOf
<1>2. Aligned
  BY <1>1 DEF Aligned, Good, EAligned
<1>3. EachInItsWindow
  BY <1>1 DEF EachInItsWindow, Good, EFits, Fits, Belongs
<1>4. SamplesKept
  <2> SUFFICES ASSUME NEW f \in DOMAIN frames,
                      NEW s \in frames[f].signals
                                  \intersect DOMAIN messageValues[frames[f].id].signalValues
               PROVE  /\ \A i, j \in WindowsOf(f, frames[f].id, s) : i = j
                      /\ frames[f].stamp + Holding >= now + Window
                           => WindowsOf(f, frames[f].id, s) # {}
    BY DEF SamplesKept
  <2> DEFINE id == frames[f].id
  <2>1. CASE id \in Slots
    <3>1. s \in Has(id)
      BY <1>1, <2>1
    <3>2. \A i, j \in WindowsOf(f, id, s) : i = j
      <4> DEFINE e == messageValues[id]
      <4>1. EOnce(e, Has(id))
        BY <1>1, <2>1 DEF Good
      <4>2. DOMAIN e.signalValues[s] = 1 .. Len(e.signalValues[s])
        BY <1>1, <2>1, <3>1
      <4>3. QED
        BY <3>1, <4>1, <4>2 DEF WindowsOf, EOnce
    <3>3. ASSUME frames[f].stamp + Holding >= now + Window
          PROVE  WindowsOf(f, id, s) # {}
      <4>1. Counts(messageValues[id], s, f)
        BY <1>1, <2>1, <3>1, <3>3 DEF Good, EKept
      <4>2. QED
        BY <1>1, <2>1, <3>1, <4>1 DEF WindowsOf, Counts
    <3>4. QED
      BY <3>2, <3>3
  <2>2. id \in Slots
    BY DEF ModelInv
  <2>3. QED
    BY <2>1, <2>2
<1>5. QED
  BY <1>2, <1>3, <1>4

-----------------------------------------------------------------------------
(***************************************************************************)
(* The theorems of the model.                                              *)
(***************************************************************************)

LEMMA ModelInvariant == ModelSpec => []ModelInv
<1>1. QED
  BY ModelStart, ModelStep, PTL DEF ModelSpec

\* The lists of times and values stay of one length, a frame counts in no window that ended
\* before it came, and it counts once and is not lost before it is old (onIncomingDbcFrame,
\* flushWindow, eraseOldData).
THEOREM AveragesStayRight == ModelSpec => []AveragesAreRight
<1>1. QED
  BY ModelInvariant, InvShows, PTL DEF AveragesAreRight

-----------------------------------------------------------------------------
(***************************************************************************)
(* What reaches the model: the steps of the reception are steps of it.     *)
(***************************************************************************)

BusFrames == [id : Nat, stamp : Nat]

Events ==
  [kind : {"check"}]
    \union [kind : {"frame"}, message : Messages]
    \union [kind : {"dbc"}, dbc : Dbcs]

QueueInv ==
  /\ now \in Nat
  /\ socket \in Seq(BusFrames)
  /\ poll = [pc |-> poll.pc, saw |-> poll.saw, batch |-> poll.batch]
  /\ poll.batch \in Seq(BusFrames)
  /\ handlerDbc \in Dbcs \union {NoDbc}
  /\ parsed = [dbc |-> parsed.dbc, left |-> parsed.left, count |-> parsed.count]
  /\ parsed.left # {} => parsed.dbc \in Dbcs
  /\ uiQueue \in Seq(Events)

LEMMA HeadTail ==
  ASSUME NEW X, NEW q \in Seq(X), q # <<>>
  PROVE  Head(q) \in X /\ Tail(q) \in Seq(X)
  BY HeadTailProperties

\* The event at the head of the queue is of its kind.
LEMMA TakenEvent ==
  ASSUME QueueInv, NEW k, Take(k)
  PROVE  /\ uiQueue' \in Seq(Events)
         /\ k = "frame" => Head(uiQueue).message \in Messages
         /\ k = "dbc" => Head(uiQueue).dbc \in Dbcs
<1>1. /\ uiQueue \in Seq(Events) /\ uiQueue # <<>> /\ Head(uiQueue).kind = k
      /\ uiQueue' = Tail(uiQueue)
  BY DEF QueueInv, Take
<1>2. Head(uiQueue) \in Events /\ Tail(uiQueue) \in Seq(Events)
  BY <1>1, HeadTail
<1>3. k = "frame" => Head(uiQueue).message \in Messages
  BY <1>1, <1>2 DEF Events
<1>4. k = "dbc" => Head(uiQueue).dbc \in Dbcs
  BY <1>1, <1>2 DEF Events
<1>5. QED
  BY <1>1, <1>2, <1>3, <1>4

LEMMA PostedEvent ==
  ASSUME QueueInv, NEW e \in Events, Post(e)
  PROVE  uiQueue' \in Seq(Events)
  BY DEF QueueInv, Post

LEMMA CheckIsEvent == [kind |-> "check"] \in Events
  BY DEF Events

LEMMA ModelStutters ==
  ASSUME QueueInv, Next
  PROVE  [ModelNext]_modelVars
<1>1. CASE Environment
  BY <1>1 DEF Environment, Arrive, Elapse, ModelNext
<1>2. CASE PollStep
  BY <1>2 DEF PollStep, CheckDriver, ReadMessage, UseLostDriver, Deliver, Joined
<1>3. CASE DbcStep
  BY <1>3 DEF DbcStep, ParseDbc, HandlerHears, TabHears
<1>4. CASE Erase
  BY <1>4 DEF Erase, ModelNext
<1>5. CASE UiStep
  <2>1. CASE HandleFrame
    <3>1. Head(uiQueue).message \in Messages
      BY <2>1, TakenEvent DEF HandleFrame
    <3>2. QED
      BY <2>1, <3>1 DEF HandleFrame, ModelNext
  <2>2. CASE HandleDbc
    <3>1. Head(uiQueue).dbc \in Dbcs
      BY <2>2, TakenEvent DEF HandleDbc
    <3>2. QED
      BY <2>2, <3>1 DEF HandleDbc, ModelNext
  <2>3. CASE Refresh
    BY <2>3 DEF Refresh, ModelNext
  <2>4. CASE StartApp \/ StopApp \/ UpdateCanDevice \/ SetOptions \/ HandleCheck
    BY <2>4 DEF StartApp, StopApp, UpdateCanDevice, SetOptions, HandleCheck
  <2>5. CASE \E g \in rows \intersect Plotted : SignalChecked(g)
    BY <2>5 DEF SignalChecked
  <2>6. CASE \E g \in refresh.left : ReadTimes(g) \/ ReadValues(g)
    BY <2>6 DEF ReadTimes, ReadValues
  <2>7. QED
    BY <1>5, <2>1, <2>2, <2>3, <2>4, <2>5, <2>6 DEF UiStep
<1>6. QED
  BY <1>1, <1>2, <1>3, <1>4, <1>5 DEF Next

LEMMA QueueStart == Init => QueueInv
<1>1. QED
  BY DEF Init, ModelInit, QueueInv, Idle

\* What the polling thread does to its queue.
LEMMA PollKeepsQueue ==
  ASSUME QueueInv, PollStep
  PROVE  QueueInv'
<1>1. CASE CheckDriver
  <2>1. poll' = Idle \/ poll' = [poll EXCEPT !.pc = "read", !.saw = driver]
    BY <1>1 DEF CheckDriver
  <2>2. poll' = Idle \/ poll' = [pc |-> "read", saw |-> driver, batch |-> poll.batch]
    BY <2>1 DEF QueueInv
  <2>3. poll' = [pc |-> poll'.pc, saw |-> poll'.saw, batch |-> poll'.batch]
        /\ poll'.batch \in Seq(BusFrames)
    <3>1. CASE poll' = [pc |-> "read", saw |-> driver, batch |-> poll.batch]
      BY <3>1 DEF QueueInv
    <3>2. CASE poll' = [pc |-> "idle", saw |-> Nil, batch |-> <<>>]
      BY <3>2
    <3>3. QED
      BY <2>2, <3>1, <3>2 DEF Idle
  <2>4. UNCHANGED <<now, socket, handlerDbc, parsed, uiQueue>>
    BY <1>1 DEF CheckDriver, modelVars, dbcVars
  <2>5. QED
    BY <2>3, <2>4 DEF QueueInv
<1>2. CASE UseLostDriver
  BY <1>2 DEF UseLostDriver, QueueInv, modelVars, dbcVars
<1>3. CASE Joined
  BY <1>3 DEF Joined, QueueInv, Idle, modelVars, dbcVars
<1>4. CASE ReadMessage
  <2>1. CASE socket # <<>>
    <3>1. Head(socket) \in BusFrames /\ Tail(socket) \in Seq(BusFrames)
      BY <2>1, HeadTail DEF QueueInv
    <3>2. socket' = Tail(socket)
          /\ poll' = [poll EXCEPT !.pc = "check", !.batch = Append(poll.batch, Head(socket))]
      BY <1>4, <2>1 DEF ReadMessage
    <3>3. poll' = [pc |-> "check", saw |-> poll.saw, batch |-> Append(poll.batch, Head(socket))]
      BY <3>2 DEF QueueInv
    <3>4. poll'.batch \in Seq(BusFrames)
      BY <3>1, <3>3 DEF QueueInv
    <3>5. UNCHANGED <<now, handlerDbc, parsed, uiQueue>>
      BY <1>4 DEF ReadMessage, modelVars, dbcVars
    <3>6. QED
      BY <3>1, <3>2, <3>3, <3>4, <3>5 DEF QueueInv
  <2>2. CASE socket = <<>>
    <3>1. PICK order \in [DOMAIN poll.batch -> DOMAIN poll.batch] :
            poll' = [poll EXCEPT !.pc = "deliver",
                                 !.batch = [k \in DOMAIN poll.batch |-> poll.batch[order[k]]]]
      BY <1>4, <2>2 DEF ReadMessage
    <3> DEFINE q == [k \in DOMAIN poll.batch |-> poll.batch[order[k]]]
    <3>2. q \in Seq(BusFrames)
      <4>1. poll.batch \in Seq(BusFrames) /\ DOMAIN poll.batch = 1 .. Len(poll.batch)
            /\ Len(poll.batch) \in Nat
        BY DEF QueueInv
      <4>2. \A k \in 1 .. Len(poll.batch) : poll.batch[order[k]] \in BusFrames
        BY <4>1
      <4>3. q = [k \in 1 .. Len(poll.batch) |-> poll.batch[order[k]]]
        BY <4>1
      <4> HIDE DEF q
      <4>4. QED
        BY <4>1, <4>2, <4>3
    <3> HIDE DEF q
    <3>3. poll' = [pc |-> "deliver", saw |-> poll.saw, batch |-> q]
      BY <3>1 DEF QueueInv, q
    <3>4. UNCHANGED <<now, handlerDbc, parsed, uiQueue, socket>>
      BY <1>4, <2>2 DEF ReadMessage, modelVars, dbcVars
    <3>5. QED
      BY <3>2, <3>3, <3>4 DEF QueueInv
  <2>3. QED
    BY <2>1, <2>2
<1>5. CASE Deliver
  <2>1. UNCHANGED <<now, handlerDbc, parsed, socket>>
    BY <1>5 DEF Deliver, modelVars, dbcVars
  <2>2. CASE poll.batch = <<>>
    <3>1. poll' = Idle /\ UNCHANGED uiQueue
      BY <1>5, <2>2 DEF Deliver
    <3>2. QED
      BY <2>1, <3>1 DEF QueueInv, Idle
  <2>3. CASE poll.batch # <<>>
    <3>1. Head(poll.batch) \in BusFrames /\ Tail(poll.batch) \in Seq(BusFrames)
      BY <2>3, HeadTail DEF QueueInv
    <3>2. poll' = [poll EXCEPT !.batch = Tail(poll.batch)]
      BY <1>5, <2>3 DEF Deliver
    <3>3. poll' = [pc |-> poll.pc, saw |-> poll.saw, batch |-> Tail(poll.batch)]
      BY <3>2 DEF QueueInv
    <3>4. uiQueue' \in Seq(Events)
      <4>1. CASE UNCHANGED uiQueue
        BY <4>1 DEF QueueInv
      <4>2. CASE handlerDbc # NoDbc /\ Head(poll.batch).id \in DOMAIN handlerDbc
                  /\ Head(poll.batch).id < TableSize
        <5>1. PICK present \in SUBSET handlerDbc[Head(poll.batch).id] :
                Post([kind |-> "frame",
                      message |-> [id |-> Head(poll.batch).id, stamp |-> Head(poll.batch).stamp,
                                   signals |-> present, dbc |-> handlerDbc]])
          BY <1>5, <2>3, <4>2 DEF Deliver
        <5>2. handlerDbc \in Dbcs
          BY <4>2 DEF QueueInv
        <5>3. present \in SUBSET Signals
          BY <4>2, <5>2, ModelAssumption
        <5>4. [kind |-> "frame",
               message |-> [id |-> Head(poll.batch).id, stamp |-> Head(poll.batch).stamp,
                            signals |-> present, dbc |-> handlerDbc]] \in Events
          BY <3>1, <5>2, <5>3 DEF BusFrames, Events, Messages
        <5>5. QED
          BY <5>1, <5>4, PostedEvent
      <4>3. QED
        BY <1>5, <2>3, <4>1, <4>2 DEF Deliver
    <3>5. QED
      BY <2>1, <3>1, <3>3, <3>4 DEF QueueInv
  <2>4. QED
    BY <2>2, <2>3
<1>6. QED
  BY <1>1, <1>2, <1>3, <1>4, <1>5 DEF PollStep

LEMMA QueueStep == QueueInv /\ [Next]_vars => QueueInv'
<1> SUFFICES ASSUME QueueInv, [Next]_vars PROVE QueueInv'
  OBVIOUS
<1>1. CASE Environment
  <2>1. ASSUME NEW id \in Ids, Arrive(id)
        PROVE  QueueInv'
    <3>1. PICK stamp \in {0, now} : socket' = Append(socket, [id |-> id, stamp |-> stamp])
      BY <2>1 DEF Arrive
    <3>2. [id |-> id, stamp |-> stamp] \in BusFrames
      BY IdsAssumption DEF BusFrames, QueueInv
    <3>3. socket' \in Seq(BusFrames)
      BY <3>1, <3>2 DEF QueueInv
    <3>4. UNCHANGED <<now, poll, handlerDbc, parsed, uiQueue>>
      BY <2>1 DEF Arrive, modelVars, dbcVars
    <3>5. QED
      BY <3>3, <3>4 DEF QueueInv
  <2>2. CASE Elapse
    BY <2>2 DEF Elapse, Tick, QueueInv, dbcVars
  <2>3. QED
    BY <1>1, <2>1, <2>2 DEF Environment
<1>2. CASE PollStep
  BY <1>2, PollKeepsQueue
<1>3. CASE DbcStep
  <2>1. ASSUME NEW d \in Dbcs, ParseDbc(d)
        PROVE  QueueInv'
    BY <2>1 DEF ParseDbc, QueueInv, modelVars
  <2>2. CASE HandlerHears
    BY <2>2 DEF HandlerHears, QueueInv, modelVars
  <2>3. CASE TabHears
    <3>1. [kind |-> "dbc", dbc |-> parsed.dbc] \in Events /\ parsed.dbc \in Dbcs
      BY <2>3 DEF TabHears, QueueInv, Events
    <3>2. uiQueue' \in Seq(Events)
      BY <2>3, <3>1, PostedEvent DEF TabHears
    <3>3. /\ parsed' = [dbc |-> parsed.dbc, left |-> parsed.left \ {"tab"}, count |-> parsed.count]
          /\ UNCHANGED <<now, socket, poll, handlerDbc>>
      BY <2>3 DEF TabHears, QueueInv, modelVars
    <3>4. QED
      BY <3>1, <3>2, <3>3 DEF QueueInv
  <2>4. QED
    BY <1>3, <2>1, <2>2, <2>3 DEF DbcStep
<1>4. CASE Erase
  BY <1>4 DEF Erase, EraseOldData, QueueInv, dbcVars
<1>5. CASE UiStep
  <2>1. CASE StartApp
    BY <2>1 DEF StartApp, QueueInv, Idle, modelVars, dbcVars
  <2>2. CASE StopApp
    BY <2>2 DEF StopApp, QueueInv, modelVars, dbcVars
  <2>3. CASE UpdateCanDevice
    <3>1. uiQueue' \in Seq(Events) /\ socket' = <<>>
      BY <2>3, PostedEvent, CheckIsEvent DEF UpdateCanDevice, Replace, QueueInv
    <3>2. QED
      BY <2>3, <3>1 DEF UpdateCanDevice, QueueInv, modelVars, dbcVars
  <2>4. CASE SetOptions
    <3>1. uiQueue' \in Seq(Events) /\ socket' \in Seq(BusFrames)
      <4>1. Post([kind |-> "check"])
        BY <2>4 DEF SetOptions
      <4>2. uiQueue' \in Seq(Events)
        BY <4>1, PostedEvent, CheckIsEvent
      <4>3. socket' = socket \/ socket' = <<>>
        BY <2>4 DEF SetOptions, Replace
      <4>4. socket \in Seq(BusFrames) /\ <<>> \in Seq(BusFrames)
        BY DEF QueueInv
      <4>5. socket' \in Seq(BusFrames)
        BY <4>3, <4>4
      <4>6. QED
        BY <4>2, <4>5
    <3>2. QED
      BY <2>4, <3>1 DEF SetOptions, QueueInv, modelVars, dbcVars
  <2>5. CASE HandleCheck
    <3>1. uiQueue' \in Seq(Events)
      BY <2>5, TakenEvent DEF HandleCheck
    <3>2. QED
      BY <2>5, <3>1 DEF HandleCheck, QueueInv, modelVars, dbcVars
  <2>6. CASE HandleFrame
    <3>1. uiQueue' \in Seq(Events) /\ now' = now
      BY <2>6, TakenEvent DEF HandleFrame, OnIncomingDbcFrame
    <3>2. QED
      BY <2>6, <3>1 DEF HandleFrame, QueueInv, dbcVars
  <2>7. CASE HandleDbc
    <3>1. uiQueue' \in Seq(Events) /\ now' = now
      BY <2>7, TakenEvent DEF HandleDbc, OnDbcChange
    <3>2. QED
      BY <2>7, <3>1 DEF HandleDbc, QueueInv, dbcVars
  <2>8. CASE \E g \in rows \intersect Plotted : SignalChecked(g)
    BY <2>8 DEF SignalChecked, QueueInv, modelVars, dbcVars
  <2>9. CASE Refresh
    BY <2>9 DEF Refresh, FlushStaleWindows, QueueInv, dbcVars
  <2>10. CASE \E g \in refresh.left : ReadTimes(g) \/ ReadValues(g)
    BY <2>10 DEF ReadTimes, ReadValues, QueueInv, modelVars, dbcVars
  <2>11. QED
    BY <1>5, <2>1, <2>2, <2>3, <2>4, <2>5, <2>6, <2>7, <2>8, <2>9, <2>10 DEF UiStep
<1>6. CASE UNCHANGED vars
  BY <1>6 DEF vars, modelVars, dbcVars, QueueInv
<1>7. QED
  BY <1>1, <1>2, <1>3, <1>4, <1>5, <1>6 DEF Next

LEMMA QueueInvariant == Spec => []QueueInv
<1>1. QED
  BY QueueStart, QueueStep, PTL DEF Spec

\* Whatever the bus, the polling thread, the user and the parsing thread do, the model sees
\* one of its own operations or nothing.
THEOREM ReceptionIsModel == Spec => ModelSpec
<1>1. Init => ModelInit
  BY DEF Init
<1>2. QueueInv /\ [Next]_vars => [ModelNext]_modelVars
  BY ModelStutters DEF vars, modelVars
<1>3. QED
  BY <1>1, <1>2, QueueInvariant, PTL DEF Spec, ModelSpec

\* So the lists of the tab stay aligned, and its averages take every frame once, in its
\* window, in the running program too.
THEOREM ReceptionKeepsModel == Spec => []AveragesAreRight
<1>1. QED
  BY ReceptionIsModel, AveragesStayRight, PTL

-----------------------------------------------------------------------------
(***************************************************************************)
(* The driver, the views and the overlay.                                  *)
(***************************************************************************)

\* Between its look and its use the polling thread has a driver, and the one it saw as long
\* as no driver was lost.
SawDriver ==
  /\ poll.pc = "read" => poll.saw # Nil /\ (lost \/ driver = poll.saw)
  /\ poll.pc = "torn" => lost

LEMMA SawDriverStep == QueueInv /\ SawDriver /\ [Next]_vars => SawDriver'
<1> SUFFICES ASSUME QueueInv, SawDriver, [Next]_vars PROVE SawDriver'
  OBVIOUS
<1>1. poll = [pc |-> poll.pc, saw |-> poll.saw, batch |-> poll.batch]
  BY DEF QueueInv
<1>2. CASE UNCHANGED <<driver, lost, poll>>
  BY <1>2 DEF SawDriver
<1>3. CASE PollStep
  <2>1. CASE CheckDriver
    <3>1. UNCHANGED <<driver, lost>>
          /\ IF driver = Nil THEN poll' = Idle
             ELSE poll' = [poll EXCEPT !.pc = "read", !.saw = driver]
      BY <2>1 DEF CheckDriver, deviceVars
    <3>2. CASE driver = Nil
      BY <3>1, <3>2 DEF SawDriver, Idle
    <3>3. CASE driver # Nil
      <4>1. poll' = [pc |-> "read", saw |-> driver, batch |-> poll.batch]
        BY <1>1, <3>1, <3>3
      <4>2. QED
        BY <3>1, <3>3, <4>1 DEF SawDriver
    <3>4. QED
      BY <3>2, <3>3
  <2>2. CASE ReadMessage
    <3>1. UNCHANGED <<driver, lost>> /\ poll'.pc \in {"check", "deliver"}
      BY <1>1, <2>2 DEF ReadMessage, deviceVars
    <3>2. QED
      BY <3>1 DEF SawDriver
  <2>3. CASE UseLostDriver
    BY <1>1, <2>3 DEF UseLostDriver, SawDriver, deviceVars
  <2>4. CASE Deliver
    <3>1. UNCHANGED <<driver, lost>> /\ poll'.pc \in {"idle", "deliver"}
      BY <1>1, <2>4 DEF Deliver, deviceVars, Idle
    <3>2. QED
      BY <3>1 DEF SawDriver
  <2>5. CASE Joined
    BY <2>5 DEF Joined, SawDriver, deviceVars, Idle
  <2>6. QED
    BY <1>3, <2>1, <2>2, <2>3, <2>4, <2>5 DEF PollStep
<1>4. CASE UpdateCanDevice \/ SetOptions
  <2>1. poll' = poll
        /\ \/ lost' = lost /\ driver' = driver
           \/ lost' = (lost \/ driver # Nil)
    BY <1>4 DEF UpdateCanDevice, SetOptions, Replace
  <2>2. QED
    BY <2>1 DEF SawDriver
<1>5. CASE StartApp
  BY <1>5 DEF StartApp, SawDriver, deviceVars, Idle
<1>6. CASE Environment \/ DbcStep \/ Erase
  <2>1. UNCHANGED <<driver, lost, poll>>
    BY <1>6 DEF Environment, Arrive, Elapse, DbcStep, ParseDbc, HandlerHears, TabHears, Erase,
                deviceVars
  <2>2. QED
    BY <1>2, <2>1
<1>7. CASE UiStep
  <2>1. CASE StopApp \/ HandleCheck \/ HandleFrame \/ HandleDbc \/ Refresh
    <3>1. UNCHANGED <<driver, lost, poll>>
      BY <2>1 DEF StopApp, HandleCheck, HandleFrame, HandleDbc, Refresh, deviceVars
    <3>2. QED
      BY <1>2, <3>1
  <2>2. CASE \/ \E g \in rows \intersect Plotted : SignalChecked(g)
             \/ \E g \in refresh.left : ReadTimes(g) \/ ReadValues(g)
    <3>1. UNCHANGED <<driver, lost, poll>>
      BY <2>2 DEF SignalChecked, ReadTimes, ReadValues, deviceVars
    <3>2. QED
      BY <1>2, <3>1
  <2>3. QED
    BY <1>4, <1>5, <1>7, <2>1, <2>2 DEF UiStep
<1>8. QED
  BY <1>2, <1>3, <1>6, <1>7 DEF Next, vars, deviceVars

\* The polling thread only runs into a driver that is not there when one is given up while
\* it polls: choosing the first device, at any moment, is safe (checkForCanMessage).
THEOREM OnlyLossOfDriverTears == Spec => []OnlyLossTears
<1>1. Init => SawDriver
  BY DEF Init, SawDriver, Idle
<1>2. SawDriver => OnlyLossTears
  BY DEF SawDriver, OnlyLossTears
<1>3. QED
  BY <1>1, <1>2, SawDriverStep, QueueInvariant, PTL DEF Spec

LEMMA ViewsStep == QueueInv /\ ViewsFollowModel /\ [Next]_vars => ViewsFollowModel'
<1> SUFFICES ASSUME QueueInv, ViewsFollowModel, [Next]_vars PROVE ViewsFollowModel'
  OBVIOUS
<1>1. CASE UNCHANGED <<m_currentDbc, rows, curve>>
  BY <1>1 DEF ViewsFollowModel
<1>2. CASE UNCHANGED <<m_currentDbc, rows>> /\ DOMAIN curve' \subseteq DOMAIN curve \union rows
  BY <1>2 DEF ViewsFollowModel
<1>3. CASE HandleDbc
  <2>1. m_currentDbc' \in Dbcs
    BY <1>3, TakenEvent DEF HandleDbc, OnDbcChange
  <2>2. rows' = RowsOf(m_currentDbc') /\ curve' = <<>>
    BY <1>3 DEF HandleDbc
  <2>3. QED
    BY <2>1, <2>2, ModelAssumption DEF ViewsFollowModel
<1>4. ASSUME NEW g \in rows, SignalChecked(g)
      PROVE  ViewsFollowModel'
  <2>1. UNCHANGED <<m_currentDbc, rows>>
    BY <1>4 DEF SignalChecked, modelVars
  <2>2. DOMAIN curve' \subseteq DOMAIN curve \union {g}
    <3>1. CASE g \in DOMAIN curve
      BY <1>4, <3>1 DEF SignalChecked, Restrict
    <3>2. CASE g \notin DOMAIN curve
      BY <1>4, <3>2 DEF SignalChecked
    <3>3. QED
      BY <3>1, <3>2
  <2>3. QED
    BY <1>2, <2>1, <2>2
<1>5. ASSUME NEW g, ReadTimes(g) \/ ReadValues(g)
      PROVE  ViewsFollowModel'
  <2>1. UNCHANGED <<m_currentDbc, rows>>
    BY <1>5 DEF ReadTimes, ReadValues, modelVars
  <2>2. DOMAIN curve' = DOMAIN curve
    BY <1>5 DEF ReadTimes, ReadValues
  <2>3. QED
    BY <1>2, <2>1, <2>2
<1>6. CASE Environment \/ PollStep \/ DbcStep \/ Erase
  <2>1. UNCHANGED <<m_currentDbc, rows, curve>>
    BY <1>6 DEF Environment, Arrive, Elapse, Tick, PollStep, CheckDriver, ReadMessage, UseLostDriver,
                Deliver, Joined, DbcStep, ParseDbc, HandlerHears, TabHears, Erase, EraseOldData,
                modelVars, viewVars
  <2>2. QED
    BY <1>1, <2>1
<1>7. CASE StartApp \/ StopApp \/ UpdateCanDevice \/ SetOptions \/ HandleCheck
  <2>1. UNCHANGED <<m_currentDbc, rows, curve>>
    BY <1>7 DEF StartApp, StopApp, UpdateCanDevice, SetOptions, HandleCheck, modelVars, viewVars
  <2>2. QED
    BY <1>1, <2>1
<1>8. CASE HandleFrame \/ Refresh
  <2>1. UNCHANGED <<m_currentDbc, rows, curve>>
    BY <1>8 DEF HandleFrame, OnIncomingDbcFrame, Refresh, FlushStaleWindows, viewVars
  <2>2. QED
    BY <1>1, <2>1
<1>9. CASE UNCHANGED vars
  <2>1. UNCHANGED <<m_currentDbc, rows, curve>>
    BY <1>9 DEF vars, modelVars, viewVars
  <2>2. QED
    BY <1>1, <2>1
<1>10. QED
  BY <1>3, <1>4, <1>5, <1>6, <1>7, <1>8, <1>9 DEF Next, UiStep

\* A refresh reads no signal the model does not have: rows and graphs are those of the DBC
\* of the model at every moment (onDbcChange of the model, the list and the graphs).
THEOREM ViewsAlwaysFollow == Spec => []ViewsFollowModel
<1>1. Init => ViewsFollowModel
  BY DEF Init, ModelInit, ViewsFollowModel
<1>2. QED
  BY <1>1, ViewsStep, QueueInvariant, PTL DEF Spec

\* As long as no change of the driver waits to be handled the overlay tells the truth.
OverlayInv ==
  /\ execute => running
  /\ configuring => execute
  /\ (running /\ ~configuring /\ \A i \in DOMAIN uiQueue : uiQueue[i].kind # "check")
       => overlay = (driver = Nil \/ ~m_dbcLoaded)

\* A posted event waits in the queue, and what waited still does.
LEMMA PostedWaits ==
  ASSUME QueueInv, NEW e, Post(e), running
  PROVE  /\ \A i \in DOMAIN uiQueue : i \in DOMAIN uiQueue' /\ uiQueue'[i] = uiQueue[i]
         /\ \E i \in DOMAIN uiQueue' : uiQueue'[i] = e
<1>1. uiQueue \in Seq(Events) /\ uiQueue' = Append(uiQueue, e)
  BY DEF QueueInv, Post
<1>2. Len(uiQueue) \in Nat /\ DOMAIN uiQueue' = 1 .. Len(uiQueue) + 1
  BY <1>1
<1>3. uiQueue'[Len(uiQueue) + 1] = e /\ \A i \in DOMAIN uiQueue : uiQueue'[i] = uiQueue[i]
  BY <1>1
<1>4. QED
  BY <1>1, <1>2, <1>3

\* What stays in the queue when its head is taken.
LEMMA TakenLeaves ==
  ASSUME QueueInv, NEW k, Take(k)
  PROVE  \A i \in DOMAIN uiQueue :
           \/ i = 1 /\ uiQueue[i].kind = k
           \/ i - 1 \in DOMAIN uiQueue' /\ uiQueue'[i - 1] = uiQueue[i]
<1>1. /\ uiQueue \in Seq(Events) /\ uiQueue # <<>> /\ uiQueue' = Tail(uiQueue)
      /\ uiQueue[1].kind = k
  BY DEF QueueInv, Take
<1>2. Len(uiQueue) \in Nat /\ DOMAIN uiQueue' = 1 .. Len(uiQueue) - 1
      /\ DOMAIN uiQueue = 1 .. Len(uiQueue)
  BY <1>1
<1>3. \A i \in 1 .. Len(uiQueue) - 1 : uiQueue'[i] = uiQueue[i + 1]
  BY <1>1
<1>4. ASSUME NEW i \in DOMAIN uiQueue, ~ (i = 1)
      PROVE  i - 1 \in DOMAIN uiQueue' /\ uiQueue'[i - 1] = uiQueue[i]
  <2>1. i - 1 \in 1 .. Len(uiQueue) - 1
    BY <1>2, <1>4
  <2>2. uiQueue'[i - 1] = uiQueue[(i - 1) + 1] /\ (i - 1) + 1 = i
    BY <1>2, <1>3, <2>1
  <2>3. QED
    BY <1>2, <2>1, <2>2
<1>5. \A i \in DOMAIN uiQueue : i = 1 => uiQueue[i].kind = k
  BY <1>1
<1>6. QED
  BY <1>4, <1>5, Zenon

LEMMA OverlayStep == QueueInv /\ OverlayInv /\ [Next]_vars => OverlayInv'
<1> SUFFICES ASSUME QueueInv, OverlayInv, [Next]_vars PROVE OverlayInv'
  OBVIOUS
<1>1. CASE UNCHANGED <<driver, configuring, execute, tabVars, uiQueue>>
  BY <1>1 DEF OverlayInv, tabVars
<1>2. ASSUME UNCHANGED <<driver, configuring, execute, tabVars>>,
             NEW e, Post(e)
      PROVE  OverlayInv'
  <2>1. CASE running
    BY <1>2, <2>1, PostedWaits DEF OverlayInv, tabVars
  <2>2. CASE ~ running
    BY <1>2, <2>2 DEF OverlayInv, tabVars
  <2>3. QED
    BY <2>1, <2>2
<1>3. CASE UpdateCanDevice
  <2>1. execute /\ running /\ UNCHANGED <<execute, tabVars>>
    BY <1>3 DEF UpdateCanDevice, UiFree, OverlayInv
  <2>2. CASE configuring' = TRUE
    BY <2>1, <2>2 DEF OverlayInv, tabVars
  <2>3. CASE Post([kind |-> "check"]) /\ UNCHANGED configuring
    <3>1. \E i \in DOMAIN uiQueue' : uiQueue'[i].kind = "check"
      BY <2>1, <2>3, PostedWaits
    <3>2. QED
      BY <2>1, <2>3, <3>1 DEF OverlayInv, tabVars
  <2>4. QED
    BY <1>3, <2>2, <2>3 DEF UpdateCanDevice
<1>4. CASE SetOptions
  <2>1. execute /\ running /\ UNCHANGED <<execute, tabVars>> /\ configuring' = FALSE
    BY <1>4 DEF SetOptions, OverlayInv
  <2>2. Post([kind |-> "check"])
    BY <1>4 DEF SetOptions
  <2>3. \E i \in DOMAIN uiQueue' : uiQueue'[i].kind = "check"
    BY <2>1, <2>2, PostedWaits
  <2>4. QED
    BY <2>1, <2>3 DEF OverlayInv, tabVars
<1>5. CASE StartApp
  <2>1. overlay' = (driver' = Nil \/ ~m_dbcLoaded') /\ execute' = TRUE /\ running' = TRUE
    BY <1>5 DEF StartApp, CheckDeviceReadiness
  <2>2. QED
    BY <2>1 DEF OverlayInv
<1>6. CASE StopApp
  <2>1. execute /\ running /\ ~configuring
    BY <1>6 DEF StopApp, UiFree, OverlayInv
  <2>2. UNCHANGED <<driver, configuring, m_dbcLoaded, overlay, uiQueue>> /\ execute' = FALSE
    BY <1>6 DEF StopApp, deviceVars
  <2>3. QED
    BY <2>1, <2>2 DEF OverlayInv
<1>7. CASE Joined
  <2>1. ~ execute /\ execute' = execute /\ running' = FALSE /\ configuring' = configuring
    BY <1>7 DEF Joined, deviceVars
  <2>2. QED
    BY <2>1 DEF OverlayInv
<1>8. CASE HandleCheck \/ HandleDbc
  <2>1. overlay' = (driver' = Nil \/ ~m_dbcLoaded') /\ UNCHANGED <<execute, running, configuring>>
    BY <1>8 DEF HandleCheck, HandleDbc, CheckDeviceReadiness
  <2>2. QED
    BY <2>1 DEF OverlayInv
<1>9. CASE HandleFrame
  <2>1. UNCHANGED <<driver, configuring, execute, tabVars>> /\ Take("frame")
    BY <1>9 DEF HandleFrame, deviceVars
  <2>2. (\E i \in DOMAIN uiQueue : uiQueue[i].kind = "check")
          => \E i \in DOMAIN uiQueue' : uiQueue'[i].kind = "check"
    BY <2>1, TakenLeaves
  <2>3. QED
    BY <2>1, <2>2 DEF OverlayInv, tabVars
<1>10. CASE Deliver
  <2>1. UNCHANGED <<driver, configuring, execute, tabVars>>
    BY <1>10 DEF Deliver, deviceVars
  <2>2. UNCHANGED uiQueue \/ \E e : Post(e)
    BY <1>10 DEF Deliver
  <2>3. QED
    BY <1>1, <1>2, <2>1, <2>2
<1>11. CASE TabHears
  BY <1>2, <1>11 DEF TabHears, deviceVars
<1>12. CASE CheckDriver \/ ReadMessage \/ UseLostDriver \/ HandlerHears \/ Erase \/ Refresh
  <2>1. UNCHANGED <<driver, configuring, execute, tabVars, uiQueue>>
    BY <1>12 DEF CheckDriver, ReadMessage, UseLostDriver, HandlerHears, Erase, Refresh, deviceVars
  <2>2. QED
    BY <1>1, <2>1
<1>13. CASE \/ Environment
            \/ \E d \in Dbcs : ParseDbc(d)
            \/ \E g \in rows \intersect Plotted : SignalChecked(g)
            \/ \E g \in refresh.left : ReadTimes(g) \/ ReadValues(g)
  <2>1. UNCHANGED <<driver, configuring, execute, tabVars, uiQueue>>
    BY <1>13 DEF Environment, Arrive, Elapse, ParseDbc, SignalChecked, ReadTimes, ReadValues,
                 deviceVars
  <2>2. QED
    BY <1>1, <2>1
<1>14. CASE UNCHANGED vars
  <2>1. UNCHANGED <<driver, configuring, execute, tabVars, uiQueue>>
    BY <1>14 DEF vars, deviceVars
  <2>2. QED
    BY <1>1, <2>1
<1>15. QED
  BY <1>3, <1>4, <1>5, <1>6, <1>7, <1>8, <1>9, <1>10, <1>11, <1>12, <1>13, <1>14
     DEF Next, PollStep, DbcStep, UiStep

\* The overlay never lies once the tab has handled what was posted, whatever order driver
\* and DBC come in and whatever step of making a driver fails.
THEOREM OverlayIsTrue == Spec => []OverlayTells
<1>1. Init => OverlayInv
  BY DEF Init, OverlayInv
<1>2. QueueInv /\ OverlayInv => OverlayTells
  BY DEF OverlayInv, OverlayTells
<1>3. QED
  BY <1>1, <1>2, OverlayStep, QueueInvariant, PTL DEF Spec

-----------------------------------------------------------------------------
(***************************************************************************)
(* The order of the times.  A frame goes from the socket to the batch of   *)
(* the polling thread, to the queue of the UI thread and into the model.   *)
(* Wherever it is, a frame whose time is known is not before one that is   *)
(* further on the way; and none is later than the clock.                   *)
(***************************************************************************)

\* Everything in a place is of time n or before.
TimesUpTo(n) ==
  \A id \in Slots :
    /\ \A i \in DOMAIN messageValues[id].timestamps : messageValues[id].timestamps[i] <= n
    /\ messageValues[id].windowStart <= n

QueueUpTo(n) ==
  \A i \in DOMAIN uiQueue : uiQueue[i].kind = "frame" => uiQueue[i].message.stamp <= n

BatchUpTo(n) == \A i \in DOMAIN poll.batch : poll.batch[i].stamp <= n

SocketUpTo(n) == \A i \in DOMAIN socket : socket[i].stamp <= n

EntryInOrder(e) ==
  /\ \A i, j \in DOMAIN e.timestamps :
       i < j /\ e.timestamps[j] # 0 => e.timestamps[i] <= e.timestamps[j]
  /\ e.windowStart > 0 => \A i \in DOMAIN e.timestamps : e.timestamps[i] <= e.windowStart

\* A frame on its way whose time is known is not before one that is ahead of it.
QueueInOrder ==
  \A j \in DOMAIN uiQueue : uiQueue[j].kind = "frame" /\ uiQueue[j].message.stamp # 0 =>
    /\ TimesUpTo(uiQueue[j].message.stamp)
    /\ \A i \in DOMAIN uiQueue :
         i < j /\ uiQueue[i].kind = "frame" => uiQueue[i].message.stamp <= uiQueue[j].message.stamp

BatchInOrder ==
  \A j \in DOMAIN poll.batch : poll.batch[j].stamp # 0 =>
    /\ TimesUpTo(poll.batch[j].stamp) /\ QueueUpTo(poll.batch[j].stamp)
    /\ \A i \in DOMAIN poll.batch : i < j => poll.batch[i].stamp <= poll.batch[j].stamp

SocketInOrder ==
  \A j \in DOMAIN socket : socket[j].stamp # 0 =>
    /\ TimesUpTo(socket[j].stamp) /\ QueueUpTo(socket[j].stamp) /\ BatchUpTo(socket[j].stamp)
    /\ \A i \in DOMAIN socket : i < j => socket[i].stamp <= socket[j].stamp

OrderInv ==
  /\ \A id \in Slots : EntryInOrder(messageValues[id])
  /\ QueueInOrder /\ BatchInOrder /\ SocketInOrder
  /\ TimesUpTo(now) /\ QueueUpTo(now) /\ BatchUpTo(now) /\ SocketUpTo(now)

LEMMA StampsAreNat ==
  ASSUME QueueInv
  PROVE  /\ \A i \in DOMAIN uiQueue : uiQueue[i].kind = "frame" => uiQueue[i].message.stamp \in Nat
         /\ \A i \in DOMAIN poll.batch : poll.batch[i].stamp \in Nat
         /\ \A i \in DOMAIN socket : socket[i].stamp \in Nat
<1>1. /\ uiQueue \in Seq(Events) /\ poll.batch \in Seq(BusFrames) /\ socket \in Seq(BusFrames)
  BY DEF QueueInv
<1>2. \A i \in DOMAIN uiQueue : uiQueue[i] \in Events
  BY <1>1
<1>3. \A e \in Events : e.kind = "frame" => e.message.stamp \in Nat
  BY DEF Events, Messages
<1>4. \A i \in DOMAIN poll.batch : poll.batch[i] \in BusFrames
  BY <1>1
<1>5. \A i \in DOMAIN socket : socket[i] \in BusFrames
  BY <1>1
<1>6. QED
  BY <1>2, <1>3, <1>4, <1>5 DEF BusFrames

\* An entry all of whose times are n or before.
EntryUpTo(e, n) == (\A i \in DOMAIN e.timestamps : e.timestamps[i] <= n) /\ e.windowStart <= n

LEMMA FlushInOrder ==
  ASSUME NEW S, NEW e \in EntryOf(S), e.windowStart \in Nat, EntryInOrder(e),
         NEW t \in Nat \union {NotOpen}, t > 0 => EntryUpTo(e, t)
  PROVE  LET x == FlushWindow(e, t)
         IN  /\ EntryInOrder(x)
             /\ \A n \in Nat : EntryUpTo(e, n) /\ t <= n => EntryUpTo(x, n)
<1> DEFINE x == FlushWindow(e, t)
           k == Len(e.timestamps)
<1>1. e.timestamps \in Seq(Nat) /\ k \in Nat /\ DOMAIN e.timestamps = 1 .. k
      /\ \A i \in 1 .. k : e.timestamps[i] \in Nat
  BY DEF EntryOf
<1>2. /\ x \in EntryOf(S) /\ x.windowStart = t /\ Len(x.timestamps) = k + 1
      /\ \A i \in 1 .. k : x.timestamps[i] = e.timestamps[i]
      /\ x.timestamps[k + 1] = e.windowStart
  BY FlushShape
<1> HIDE DEF x, k
<1>3. DOMAIN x.timestamps = 1 .. k + 1
  BY <1>1, <1>2 DEF EntryOf
<1>4. \A i \in 1 .. k + 1 : i \in 1 .. k \/ i = k + 1
  BY <1>1
<1>5. ASSUME NEW n \in Nat, EntryUpTo(e, n), t <= n
      PROVE  EntryUpTo(x, n)
  BY <1>1, <1>2, <1>3, <1>4, <1>5 DEF EntryUpTo
<1>6. ASSUME NEW i \in 1 .. k + 1, NEW j \in 1 .. k + 1, i < j, x.timestamps[j] # 0
      PROVE  x.timestamps[i] <= x.timestamps[j]
  <2>1. i \in 1 .. k
    BY <1>1, <1>6
  <2>2. CASE j \in 1 .. k
    BY <1>1, <1>2, <1>6, <2>1, <2>2 DEF EntryInOrder
  <2>3. CASE j = k + 1
    <3>1. x.timestamps[j] = e.windowStart /\ x.timestamps[i] = e.timestamps[i]
      BY <1>2, <2>1, <2>3
    <3>2. e.windowStart > 0
      BY <1>6, <3>1
    <3>3. e.timestamps[i] <= e.windowStart
      BY <1>1, <2>1, <3>2 DEF EntryInOrder
    <3>4. QED
      BY <3>1, <3>3
  <2>4. QED
    BY <1>4, <2>2, <2>3
<1>7. t > 0 => \A i \in 1 .. k + 1 : x.timestamps[i] <= t
  BY <1>1, <1>2, <1>4 DEF EntryUpTo
<1>8. EntryInOrder(x)
  BY <1>2, <1>3, <1>6, <1>7 DEF EntryInOrder
<1>9. QED
  BY <1>5, <1>8 DEF x

LEMMA OpenedInOrder ==
  ASSUME NEW S, NEW e \in EntryOf(S), EntryInOrder(e), NEW t \in Nat, t # 0 => EntryUpTo(e, t)
  PROVE  LET x == Opened(e, t)
         IN  /\ EntryInOrder(x)
             /\ \A n \in Nat : EntryUpTo(e, n) /\ t <= n => EntryUpTo(x, n)
<1>1. e.windowStart \in Nat \/ e.windowStart < 0
  BY DEF EntryOf, NotOpen
<1>2. CASE e.windowStart < 0
  <2>1. Opened(e, t).windowStart = t /\ Opened(e, t).timestamps = e.timestamps
    BY <1>2 DEF Opened, EntryOf
  <2>2. EntryInOrder(Opened(e, t))
    BY <2>1 DEF EntryInOrder, EntryUpTo
  <2>3. QED
    BY <2>1, <2>2 DEF EntryUpTo
<1>3. CASE e.windowStart \in Nat /\ t - e.windowStart >= Window
  <2>1. Opened(e, t) = FlushWindow(e, t)
    BY <1>3 DEF Opened
  <2>2. t > 0 => EntryUpTo(e, t)
    OBVIOUS
  <2>3. QED
    BY <1>3, <2>1, <2>2, FlushInOrder
<1>4. CASE e.windowStart \in Nat /\ ~(t - e.windowStart >= Window)
  <2>1. Opened(e, t) = e
    BY <1>4 DEF Opened
  <2>2. QED
    BY <2>1
<1>5. QED
  BY <1>1, <1>2, <1>3, <1>4

LEMMA ErasedInOrder ==
  ASSUME NEW S, NEW e \in EntryOf(S), EntryInOrder(e), now \in Nat
  PROVE  /\ EntryInOrder(Erased(e))
         /\ \A n \in Nat : EntryUpTo(e, n) => EntryUpTo(Erased(e), n)
<1> DEFINE k == Old(e)
           x == Erased(e)
           m == Len(e.timestamps)
<1>1. e.timestamps \in Seq(Nat) /\ m \in Nat /\ DOMAIN e.timestamps = 1 .. m
  BY DEF EntryOf
<1>2. k \in 0 .. m
  BY OldIsOld
<1>3. x.timestamps = Without(e.timestamps, k) /\ x.windowStart = e.windowStart
  BY DEF Erased, EntryOf
<1> HIDE DEF x, k
<1>4. /\ Without(e.timestamps, k) \in Seq(Nat)
      /\ Len(Without(e.timestamps, k)) = m - k
      /\ \A i \in 1 .. m - k : Without(e.timestamps, k)[i] = e.timestamps[i + k]
  BY <1>1, <1>2, WithoutShape
<1> HIDE DEF m
<1>5. /\ DOMAIN x.timestamps = 1 .. m - k
      /\ \A i \in 1 .. m - k : i + k \in 1 .. m /\ x.timestamps[i] = e.timestamps[i + k]
  BY <1>1, <1>2, <1>3, <1>4
<1>6. ASSUME NEW i \in 1 .. m - k, NEW j \in 1 .. m - k, i < j, x.timestamps[j] # 0
      PROVE  x.timestamps[i] <= x.timestamps[j]
  <2>1. i + k \in 1 .. m /\ j + k \in 1 .. m /\ i + k < j + k
    BY <1>1, <1>2, <1>5, <1>6
  <2>2. e.timestamps[i + k] <= e.timestamps[j + k]
    BY <1>1, <1>5, <1>6, <2>1 DEF EntryInOrder
  <2>3. QED
    BY <1>5, <2>2
<1>7. e.windowStart > 0 => \A i \in 1 .. m - k : x.timestamps[i] <= e.windowStart
  BY <1>1, <1>5 DEF EntryInOrder
<1>8. EntryInOrder(x)
  BY <1>3, <1>5, <1>6, <1>7 DEF EntryInOrder
<1>9. ASSUME NEW n \in Nat, EntryUpTo(e, n)
      PROVE  EntryUpTo(x, n)
  BY <1>1, <1>3, <1>5, <1>9 DEF EntryUpTo
<1>10. QED
  BY <1>8, <1>9 DEF x

\* What a step of the model does to the times when the frame it takes in, if any, is of time h.
Moved(h) ==
  /\ \A n \in Nat : TimesUpTo(n) /\ h <= n => TimesUpTo(n)'
  /\ \A id \in Slots : EntryInOrder(messageValues[id])'

LEMMA EntriesMove ==
  ASSUME NEW h,
         \A id \in Slots : /\ EntryInOrder(messageValues'[id])
                           /\ \A n \in Nat : EntryUpTo(messageValues[id], n) /\ h <= n
                                               => EntryUpTo(messageValues'[id], n)
  PROVE  Moved(h)
<1>1. ASSUME NEW n \in Nat, TimesUpTo(n), h <= n
      PROVE  TimesUpTo(n)'
  BY <1>1 DEF TimesUpTo, EntryUpTo
<1>2. QED
  BY <1>1 DEF Moved

LEMMA ModelEntries ==
  ASSUME ModelInv
  PROVE  \A id \in Slots : messageValues[id] \in EntryOf(Has(id)) /\ now \in Nat
  BY DEF ModelInv, Good

LEMMA StayedMove ==
  ASSUME \A id \in Slots : EntryInOrder(messageValues[id]), UNCHANGED messageValues
  PROVE  Moved(0)
  BY DEF Moved, TimesUpTo

LEMMA FrameMoves ==
  ASSUME ModelInv, NEW message \in Messages, OnIncomingDbcFrame(message),
         \A id \in Slots : EntryInOrder(messageValues[id]),
         message.stamp # 0 => TimesUpTo(message.stamp)
  PROVE  Moved(message.stamp)
<1> DEFINE h == message.stamp
<1>1. h \in Nat
  BY DEF Messages
<1>2. ASSUME NEW id \in Slots
      PROVE  /\ EntryInOrder(messageValues'[id])
             /\ \A n \in Nat : EntryUpTo(messageValues[id], n) /\ h <= n
                                 => EntryUpTo(messageValues'[id], n)
  <2> DEFINE e == messageValues[id]
  <2>1. e \in EntryOf(Has(id)) /\ EntryInOrder(e) /\ (h # 0 => EntryUpTo(e, h))
    BY ModelEntries DEF TimesUpTo, EntryUpTo
  <2>2. \/ messageValues'[id] = e
        \/ messageValues'[id] = Added(e, message, Len(frames) + 1)
    BY DEF OnIncomingDbcFrame, ModelInv
  <2> HIDE DEF e, h
  <2>3. /\ EntryInOrder(Opened(e, h))
        /\ \A n \in Nat : EntryUpTo(e, n) /\ h <= n => EntryUpTo(Opened(e, h), n)
    BY <1>1, <2>1, OpenedInOrder
  <2>4. CASE messageValues'[id] = Added(e, message, Len(frames) + 1)
    <3>1. /\ Added(e, message, Len(frames) + 1).timestamps = Opened(e, h).timestamps
          /\ Added(e, message, Len(frames) + 1).windowStart = Opened(e, h).windowStart
      BY DEF Added, h
    <3>2. EntryInOrder(Added(e, message, Len(frames) + 1))
      BY <2>3, <3>1 DEF EntryInOrder
    <3>3. \A n \in Nat : EntryUpTo(e, n) /\ h <= n
                           => EntryUpTo(Added(e, message, Len(frames) + 1), n)
      BY <2>3, <3>1 DEF EntryUpTo
    <3>4. QED
      BY <2>4, <3>2, <3>3 DEF e
  <2>5. CASE messageValues'[id] = e
    BY <2>1, <2>5 DEF e
  <2>6. QED
    BY <2>2, <2>4, <2>5
<1> HIDE DEF h
<1>3. Moved(h)
  BY <1>2, EntriesMove
<1>4. QED
  BY <1>3 DEF h

LEMMA FlushMoves ==
  ASSUME ModelInv, FlushStaleWindows, \A id \in Slots : EntryInOrder(messageValues[id])
  PROVE  Moved(0)
<1>1. ASSUME NEW id \in Slots
      PROVE  /\ EntryInOrder(messageValues'[id])
             /\ \A n \in Nat : EntryUpTo(messageValues[id], n) /\ 0 <= n
                                 => EntryUpTo(messageValues'[id], n)
  <2> DEFINE e == messageValues[id]
  <2>1. e \in EntryOf(Has(id)) /\ EntryInOrder(e) /\ e.windowStart \in Nat \union {NotOpen}
    BY ModelEntries DEF EntryOf
  <2>2. \/ messageValues'[id] = e
        \/ e.windowStart >= 0 /\ messageValues'[id] = FlushWindow(e, NotOpen)
    BY DEF FlushStaleWindows
  <2> HIDE DEF e
  <2>3. CASE e.windowStart >= 0 /\ messageValues'[id] = FlushWindow(e, NotOpen)
    <3>1. e.windowStart \in Nat /\ NotOpen \in Nat \union {NotOpen} /\ ~ (NotOpen > 0)
      BY <2>1, <2>3 DEF NotOpen
    <3>2. /\ EntryInOrder(FlushWindow(e, NotOpen))
          /\ \A n \in Nat : EntryUpTo(e, n) /\ NotOpen <= n => EntryUpTo(FlushWindow(e, NotOpen), n)
      BY <2>1, <3>1, FlushInOrder
    <3>3. \A n \in Nat : NotOpen <= n
      BY DEF NotOpen
    <3>4. QED
      BY <2>3, <3>2, <3>3 DEF e
  <2>4. CASE messageValues'[id] = e
    BY <2>1, <2>4 DEF e
  <2>5. QED
    BY <2>2, <2>3, <2>4
<1>2. QED
  BY <1>1, EntriesMove

LEMMA DbcMoves ==
  ASSUME NEW d, OnDbcChange(d)
  PROVE  Moved(0)
<1>1. \A id \in Slots : /\ messageValues'[id].timestamps = <<>>
                        /\ messageValues'[id].windowStart = NotOpen
  BY DEF OnDbcChange, Entry
<1>2. \A id \in Slots : EntryInOrder(messageValues'[id])
  BY <1>1 DEF EntryInOrder, NotOpen
<1>3. \A id \in Slots : \A n \in Nat : EntryUpTo(messageValues'[id], n)
  BY <1>1 DEF EntryUpTo, NotOpen
<1>4. QED
  BY <1>2, <1>3, EntriesMove

LEMMA EraseMoves ==
  ASSUME ModelInv, EraseOldData, \A id \in Slots : EntryInOrder(messageValues[id])
  PROVE  Moved(0)
<1>1. ASSUME NEW id \in Slots
      PROVE  /\ EntryInOrder(messageValues'[id])
             /\ \A n \in Nat : EntryUpTo(messageValues[id], n) /\ 0 <= n
                                 => EntryUpTo(messageValues'[id], n)
  <2>1. messageValues[id] \in EntryOf(Has(id)) /\ EntryInOrder(messageValues[id]) /\ now \in Nat
    BY ModelEntries
  <2>2. messageValues'[id] = Erased(messageValues[id])
    BY DEF EraseOldData
  <2>3. QED
    BY <2>1, <2>2, ErasedInOrder
<1>2. QED
  BY <1>1, EntriesMove

\* What is of time m or before is of time n or before when m is not after n.
LEMMA UpToGrows ==
  ASSUME ModelInv, QueueInv, NEW m \in Nat, NEW n \in Nat, m <= n
  PROVE  /\ TimesUpTo(m) => TimesUpTo(n)
         /\ QueueUpTo(m) => QueueUpTo(n)
         /\ BatchUpTo(m) => BatchUpTo(n)
         /\ SocketUpTo(m) => SocketUpTo(n)
<1>1. \A id \in Slots :
        /\ \A i \in DOMAIN messageValues[id].timestamps : messageValues[id].timestamps[i] \in Nat
        /\ messageValues[id].windowStart \in Nat \union {NotOpen}
  BY ModelEntries DEF EntryOf
<1>2. TimesUpTo(m) => TimesUpTo(n)
  BY <1>1 DEF TimesUpTo, NotOpen
<1>3. QueueUpTo(m) => QueueUpTo(n)
  BY StampsAreNat DEF QueueUpTo
<1>4. BatchUpTo(m) => BatchUpTo(n)
  BY StampsAreNat DEF BatchUpTo
<1>5. SocketUpTo(m) => SocketUpTo(n)
  BY StampsAreNat DEF SocketUpTo
<1>6. QED
  BY <1>2, <1>3, <1>4, <1>5

\* A step takes at most d frames off the queue, drops the batch or what is on the socket, and
\* takes a frame of time h into the model, which is not after one that is still on its way.
QueueMoved(h, d) ==
  \A i \in DOMAIN uiQueue' : uiQueue'[i].kind = "frame" =>
    /\ i + d \in DOMAIN uiQueue /\ uiQueue[i + d] = uiQueue'[i]
    /\ uiQueue'[i].message.stamp # 0 => h <= uiQueue'[i].message.stamp

BatchMoved(h) ==
  \A i \in DOMAIN poll'.batch :
    /\ i \in DOMAIN poll.batch /\ poll.batch[i] = poll'.batch[i]
    /\ poll'.batch[i].stamp # 0 => h <= poll'.batch[i].stamp

SocketMoved(h) ==
  \A i \in DOMAIN socket' :
    /\ i \in DOMAIN socket /\ socket[i] = socket'[i]
    /\ socket'[i].stamp # 0 => h <= socket'[i].stamp

LEMMA OrderMoves ==
  ASSUME ModelInv, QueueInv, QueueInv', OrderInv, NEW h \in Nat, h <= now, now <= now', Moved(h),
         NEW d \in Nat, QueueMoved(h, d), BatchMoved(h), SocketMoved(h)
  PROVE  OrderInv'
<1>1. now \in Nat /\ now' \in Nat
  BY DEF QueueInv
<1>2. TimesUpTo(now') /\ QueueUpTo(now') /\ BatchUpTo(now') /\ SocketUpTo(now')
  BY <1>1, UpToGrows DEF OrderInv
<1>3. ASSUME NEW n \in Nat, QueueUpTo(n)
      PROVE  QueueUpTo(n)'
  BY <1>3 DEF QueueUpTo, QueueMoved
<1>4. ASSUME NEW n \in Nat, BatchUpTo(n)
      PROVE  BatchUpTo(n)'
  BY <1>4 DEF BatchUpTo, BatchMoved
<1>5. ASSUME NEW n \in Nat, SocketUpTo(n)
      PROVE  SocketUpTo(n)'
  BY <1>5 DEF SocketUpTo, SocketMoved
<1>6. \A n \in Nat : TimesUpTo(n) /\ h <= n => TimesUpTo(n)'
  BY DEF Moved
<1>7. TimesUpTo(now)' /\ QueueUpTo(now)' /\ BatchUpTo(now)' /\ SocketUpTo(now)'
  <2>1. PICK n \in Nat : n = now'
    BY <1>1
  <2>2. h <= n
    BY <1>1, <2>1
  <2>3. TimesUpTo(n)' /\ QueueUpTo(n)' /\ BatchUpTo(n)' /\ SocketUpTo(n)'
    BY <1>2, <1>3, <1>4, <1>5, <1>6, <2>1, <2>2
  <2>4. QED
    BY <2>1, <2>3 DEF TimesUpTo, QueueUpTo, BatchUpTo, SocketUpTo
<1>9. QueueInOrder'
  <2>1. ASSUME NEW j \in DOMAIN uiQueue', uiQueue'[j].kind = "frame",
               uiQueue'[j].message.stamp # 0
        PROVE  /\ TimesUpTo(uiQueue[j].message.stamp)'
               /\ \A i \in DOMAIN uiQueue' : i < j /\ uiQueue'[i].kind = "frame"
                    => uiQueue'[i].message.stamp <= uiQueue'[j].message.stamp
    <3>1. PICK n \in Nat : n = uiQueue'[j].message.stamp
      <4>1. j + d \in DOMAIN uiQueue /\ uiQueue[j + d] = uiQueue'[j]
        BY <2>1 DEF QueueMoved
      <4>2. uiQueue'[j].message.stamp \in Nat
        BY <2>1, <4>1, StampsAreNat
      <4>3. QED
        BY <4>2
    <3>2. j + d \in DOMAIN uiQueue /\ uiQueue[j + d] = uiQueue'[j] /\ h <= n
      BY <2>1, <3>1 DEF QueueMoved
    <3>3. TimesUpTo(n)'
      BY <1>6, <2>1, <3>1, <3>2 DEF OrderInv, QueueInOrder
    <3>4. ASSUME NEW i \in DOMAIN uiQueue', i < j, uiQueue'[i].kind = "frame"
          PROVE  uiQueue'[i].message.stamp <= n
      <4>1. i + d \in DOMAIN uiQueue /\ uiQueue[i + d] = uiQueue'[i]
        BY <3>4 DEF QueueMoved
      <4>2. i \in Nat /\ j \in Nat
        BY DEF QueueInv
      <4>3. i + d < j + d
        BY <3>4, <4>2
      <4>4. QED
        BY <2>1, <3>1, <3>2, <3>4, <4>1, <4>3 DEF OrderInv, QueueInOrder
    <3>5. QED
      BY <3>1, <3>3, <3>4 DEF TimesUpTo
  <2>2. QED
    BY <2>1 DEF QueueInOrder
<1>10. BatchInOrder'
  <2>1. ASSUME NEW j \in DOMAIN poll'.batch, poll'.batch[j].stamp # 0
        PROVE  /\ TimesUpTo(poll.batch[j].stamp)' /\ QueueUpTo(poll.batch[j].stamp)'
               /\ \A i \in DOMAIN poll'.batch : i < j
                    => poll'.batch[i].stamp <= poll'.batch[j].stamp
    <3>1. j \in DOMAIN poll.batch /\ poll.batch[j] = poll'.batch[j] /\ h <= poll'.batch[j].stamp
      BY <2>1 DEF BatchMoved
    <3>2. PICK n \in Nat : n = poll'.batch[j].stamp
      BY <3>1, StampsAreNat
    <3>3. TimesUpTo(n)' /\ QueueUpTo(n)'
      BY <1>3, <1>6, <2>1, <3>1, <3>2 DEF OrderInv, BatchInOrder
    <3>4. \A i \in DOMAIN poll'.batch : i < j => poll'.batch[i].stamp <= n
      BY <2>1, <3>1, <3>2 DEF BatchMoved, OrderInv, BatchInOrder
    <3>5. QED
      BY <3>2, <3>3, <3>4 DEF TimesUpTo, QueueUpTo
  <2>2. QED
    BY <2>1 DEF BatchInOrder
<1>11. SocketInOrder'
  <2>1. ASSUME NEW j \in DOMAIN socket', socket'[j].stamp # 0
        PROVE  /\ TimesUpTo(socket[j].stamp)' /\ QueueUpTo(socket[j].stamp)'
               /\ BatchUpTo(socket[j].stamp)'
               /\ \A i \in DOMAIN socket' : i < j => socket'[i].stamp <= socket'[j].stamp
    <3>1. j \in DOMAIN socket /\ socket[j] = socket'[j] /\ h <= socket'[j].stamp
      BY <2>1 DEF SocketMoved
    <3>2. PICK n \in Nat : n = socket'[j].stamp
      BY <3>1, StampsAreNat
    <3>3. TimesUpTo(n)' /\ QueueUpTo(n)' /\ BatchUpTo(n)'
      BY <1>3, <1>4, <1>6, <2>1, <3>1, <3>2 DEF OrderInv, SocketInOrder
    <3>4. \A i \in DOMAIN socket' : i < j => socket'[i].stamp <= n
      BY <2>1, <3>1, <3>2 DEF SocketMoved, OrderInv, SocketInOrder
    <3>5. QED
      BY <3>2, <3>3, <3>4 DEF TimesUpTo, QueueUpTo, BatchUpTo
  <2>2. QED
    BY <2>1 DEF SocketInOrder
<1>12. QED
  BY <1>7, <1>9, <1>10, <1>11 DEF OrderInv, Moved

\* A frame that comes is not before anything that came.
LEMMA ArrivedInOrder ==
  ASSUME ModelInv, QueueInv, OrderInv, NEW f \in BusFrames, f.stamp \in {0, now},
         socket' = Append(socket, f), UNCHANGED <<messageValues, now, uiQueue, poll>>
  PROVE  OrderInv'
<1> DEFINE k == Len(socket)
<1>1. /\ k \in Nat /\ DOMAIN socket = 1 .. k /\ DOMAIN socket' = 1 .. k + 1
      /\ socket'[k + 1] = f /\ \A i \in 1 .. k : socket'[i] = socket[i]
  BY DEF QueueInv
<1> HIDE DEF k
<1>2. f.stamp \in Nat /\ now \in Nat /\ f.stamp <= now
  BY DEF BusFrames, QueueInv
<1>3. \A i \in 1 .. k + 1 : i \in 1 .. k \/ i = k + 1
  BY <1>1
<1>4. SocketUpTo(now)'
  BY <1>1, <1>2, <1>3 DEF OrderInv, SocketUpTo
<1>5. ASSUME NEW j \in 1 .. k + 1, socket'[j].stamp # 0
      PROVE  /\ TimesUpTo(socket[j].stamp)' /\ QueueUpTo(socket[j].stamp)'
             /\ BatchUpTo(socket[j].stamp)'
             /\ \A i \in 1 .. k + 1 : i < j => socket'[i].stamp <= socket'[j].stamp
  <2>1. CASE j = k + 1
    <3>1. socket'[j].stamp = now
      BY <1>1, <1>5, <2>1
    <3>2. TimesUpTo(now)' /\ QueueUpTo(now)' /\ BatchUpTo(now)'
      BY DEF OrderInv, TimesUpTo, QueueUpTo, BatchUpTo
    <3>3. \A i \in 1 .. k + 1 : i < j => socket'[i].stamp <= now
      BY <1>1, <2>1 DEF OrderInv, SocketUpTo
    <3>4. QED
      BY <3>1, <3>2, <3>3 DEF TimesUpTo, QueueUpTo, BatchUpTo
  <2>2. CASE j \in 1 .. k
    <3>1. socket'[j] = socket[j] /\ \A i \in 1 .. k + 1 : i < j => i \in 1 .. k
      BY <1>1, <2>2
    <3>2. /\ TimesUpTo(socket[j].stamp) /\ QueueUpTo(socket[j].stamp) /\ BatchUpTo(socket[j].stamp)
          /\ \A i \in 1 .. k : i < j => socket[i].stamp <= socket[j].stamp
      BY <1>1, <1>5, <2>2, <3>1 DEF OrderInv, SocketInOrder
    <3>3. QED
      BY <1>1, <3>1, <3>2 DEF TimesUpTo, QueueUpTo, BatchUpTo
  <2>3. QED
    BY <1>3, <2>1, <2>2
<1>6. SocketInOrder'
  BY <1>1, <1>5 DEF SocketInOrder
<1>7. QueueInOrder' /\ BatchInOrder'
  BY DEF OrderInv, QueueInOrder, BatchInOrder, TimesUpTo, QueueUpTo
<1>8. QED
  BY <1>4, <1>6, <1>7 DEF OrderInv, TimesUpTo, QueueUpTo, BatchUpTo

\* The frame that is read is not before one of the batch, nor after one that is left.
LEMMA ReadInOrder ==
  ASSUME ModelInv, QueueInv, OrderInv, socket # <<>>, socket' = Tail(socket),
         poll'.batch = Append(poll.batch, Head(socket)), UNCHANGED <<messageValues, now, uiQueue>>
  PROVE  OrderInv'
<1> DEFINE k == Len(socket)
           m == Len(poll.batch)
<1>1. /\ k \in Nat \ {0} /\ DOMAIN socket = 1 .. k /\ DOMAIN socket' = 1 .. k - 1
      /\ Head(socket) = socket[1] /\ \A i \in 1 .. k - 1 : socket'[i] = socket[i + 1]
  BY DEF QueueInv
<1>2. /\ m \in Nat /\ DOMAIN poll.batch = 1 .. m /\ DOMAIN poll'.batch = 1 .. m + 1
      /\ poll'.batch[m + 1] = socket[1] /\ \A i \in 1 .. m : poll'.batch[i] = poll.batch[i]
  BY <1>1, HeadTail DEF QueueInv
<1> HIDE DEF k, m
<1>3. \A i \in 1 .. m + 1 : i \in 1 .. m \/ i = m + 1
  BY <1>2
<1>4. 1 \in 1 .. k /\ \A i \in 1 .. k - 1 : i + 1 \in 1 .. k /\ 1 < i + 1
  BY <1>1
<1>5. ASSUME NEW n \in Nat, BatchUpTo(n), socket[1].stamp <= n
      PROVE  BatchUpTo(n)'
  BY <1>2, <1>3, <1>5 DEF BatchUpTo
<1>6. SocketUpTo(now)' /\ BatchUpTo(now)'
  <2>1. PICK n \in Nat : n = now
    BY DEF QueueInv
  <2>2. socket[1].stamp <= n /\ BatchUpTo(n)
    BY <1>1, <1>4, <2>1 DEF OrderInv, SocketUpTo
  <2>3. BatchUpTo(n)'
    BY <1>5, <2>2
  <2>4. SocketUpTo(now)'
    BY <1>1, <1>4 DEF OrderInv, SocketUpTo
  <2>5. QED
    BY <2>1, <2>3, <2>4 DEF BatchUpTo
<1>7. ASSUME NEW j \in 1 .. m + 1, poll'.batch[j].stamp # 0
      PROVE  /\ TimesUpTo(poll.batch[j].stamp)' /\ QueueUpTo(poll.batch[j].stamp)'
             /\ \A i \in 1 .. m + 1 : i < j => poll'.batch[i].stamp <= poll'.batch[j].stamp
  <2>1. CASE j = m + 1
    <3>1. poll'.batch[j] = socket[1] /\ \A i \in 1 .. m + 1 : i < j => i \in 1 .. m
      BY <1>2, <2>1
    <3>2. TimesUpTo(socket[1].stamp) /\ QueueUpTo(socket[1].stamp) /\ BatchUpTo(socket[1].stamp)
      BY <1>1, <1>4, <1>7, <3>1 DEF OrderInv, SocketInOrder
    <3>3. QED
      BY <1>2, <3>1, <3>2 DEF TimesUpTo, QueueUpTo, BatchUpTo
  <2>2. CASE j \in 1 .. m
    <3>1. poll'.batch[j] = poll.batch[j] /\ \A i \in 1 .. m + 1 : i < j => i \in 1 .. m
      BY <1>2, <2>2
    <3>2. /\ TimesUpTo(poll.batch[j].stamp) /\ QueueUpTo(poll.batch[j].stamp)
          /\ \A i \in 1 .. m : i < j => poll.batch[i].stamp <= poll.batch[j].stamp
      BY <1>2, <1>7, <2>2, <3>1 DEF OrderInv, BatchInOrder
    <3>3. QED
      BY <1>2, <3>1, <3>2 DEF TimesUpTo, QueueUpTo
  <2>3. QED
    BY <1>3, <2>1, <2>2
<1>8. BatchInOrder'
  BY <1>2, <1>7 DEF BatchInOrder
<1>9. ASSUME NEW j \in 1 .. k - 1, socket'[j].stamp # 0
      PROVE  /\ TimesUpTo(socket[j].stamp)' /\ QueueUpTo(socket[j].stamp)'
             /\ BatchUpTo(socket[j].stamp)'
             /\ \A i \in 1 .. k - 1 : i < j => socket'[i].stamp <= socket'[j].stamp
  <2>1. j + 1 \in 1 .. k /\ 1 < j + 1 /\ socket'[j] = socket[j + 1]
    BY <1>1, <1>4
  <2>2. PICK n \in Nat : n = socket'[j].stamp
    BY <1>1, <2>1, StampsAreNat
  <2>3. /\ TimesUpTo(n) /\ QueueUpTo(n) /\ BatchUpTo(n)
        /\ \A i \in 1 .. k : i < j + 1 => socket[i].stamp <= n
    BY <1>1, <1>9, <2>1, <2>2 DEF OrderInv, SocketInOrder
  <2>4. socket[1].stamp <= n
    BY <1>4, <2>1, <2>3
  <2>5. BatchUpTo(n)'
    BY <1>5, <2>3, <2>4
  <2>6. ASSUME NEW i \in 1 .. k - 1, i < j
        PROVE  socket'[i].stamp <= n
    <3>1. i + 1 \in 1 .. k /\ i + 1 < j + 1 /\ socket'[i] = socket[i + 1]
      BY <1>1, <1>4, <2>6
    <3>2. QED
      BY <2>3, <3>1
  <2>7. QED
    BY <2>2, <2>3, <2>5, <2>6 DEF TimesUpTo, QueueUpTo, BatchUpTo
<1>10. SocketInOrder'
  BY <1>1, <1>9 DEF SocketInOrder
<1>11. QueueInOrder'
  BY DEF OrderInv, QueueInOrder, TimesUpTo
<1>12. QED
  BY <1>6, <1>8, <1>10, <1>11 DEF OrderInv, TimesUpTo, QueueUpTo

\* The batch is sorted by time, so what is in order stays so.
LEMMA SortedInOrder ==
  ASSUME ModelInv, QueueInv, OrderInv, UNCHANGED <<messageValues, now, uiQueue, socket>>,
         NEW order \in [DOMAIN poll.batch -> DOMAIN poll.batch], Sorts(order, poll.batch),
         poll'.batch = [k \in DOMAIN poll.batch |-> poll.batch[order[k]]]
  PROVE  OrderInv'
<1>1. /\ DOMAIN poll'.batch = DOMAIN poll.batch
      /\ \A k \in DOMAIN poll.batch :
           order[k] \in DOMAIN poll.batch /\ poll'.batch[k] = poll.batch[order[k]]
  OBVIOUS
<1>2. ASSUME NEW n, BatchUpTo(n)
      PROVE  BatchUpTo(n)'
  BY <1>1, <1>2 DEF BatchUpTo
<1>3. \A k \in DOMAIN poll.batch : poll.batch[k].stamp \in Nat
  BY StampsAreNat
<1>4. ASSUME NEW i \in DOMAIN poll.batch, NEW j \in DOMAIN poll.batch, i < j
      PROVE  poll'.batch[i].stamp <= poll'.batch[j].stamp
  <2>1. Before(poll.batch, order[i], order[j])
    BY <1>4 DEF Sorts
  <2>2. QED
    BY <1>1, <1>3, <2>1 DEF Before
<1>5. ASSUME NEW j \in DOMAIN poll.batch, poll'.batch[j].stamp # 0
      PROVE  TimesUpTo(poll.batch[j].stamp)' /\ QueueUpTo(poll.batch[j].stamp)'
  <2>1. PICK i \in DOMAIN poll.batch : poll'.batch[j] = poll.batch[i]
    BY <1>1
  <2>2. TimesUpTo(poll.batch[i].stamp) /\ QueueUpTo(poll.batch[i].stamp)
    BY <1>5, <2>1 DEF OrderInv, BatchInOrder
  <2>3. QED
    BY <2>1, <2>2 DEF TimesUpTo, QueueUpTo
<1>6. BatchInOrder'
  BY <1>1, <1>4, <1>5 DEF BatchInOrder
<1>7. SocketInOrder'
  <2>1. ASSUME NEW j \in DOMAIN socket, socket[j].stamp # 0
        PROVE  /\ TimesUpTo(socket[j].stamp)' /\ QueueUpTo(socket[j].stamp)'
               /\ BatchUpTo(socket[j].stamp)'
               /\ \A i \in DOMAIN socket : i < j => socket[i].stamp <= socket[j].stamp
    <3>1. PICK n : n = socket[j].stamp
      OBVIOUS
    <3>2. /\ TimesUpTo(n) /\ QueueUpTo(n) /\ BatchUpTo(n)
          /\ \A i \in DOMAIN socket : i < j => socket[i].stamp <= n
      BY <2>1, <3>1 DEF OrderInv, SocketInOrder
    <3>3. BatchUpTo(n)'
      BY <1>2, <3>2
    <3>4. QED
      BY <3>1, <3>2, <3>3 DEF TimesUpTo, QueueUpTo, BatchUpTo
  <2>2. QED
    BY <2>1 DEF SocketInOrder
<1>8. BatchUpTo(now)'
  BY <1>1 DEF OrderInv, BatchUpTo
<1>9. QueueInOrder'
  BY DEF OrderInv, QueueInOrder, TimesUpTo
<1>10. QED
  BY <1>6, <1>7, <1>8, <1>9 DEF OrderInv, TimesUpTo, QueueUpTo, SocketUpTo

\* What is new in the queue is the frame at the head of the batch, at the end.
QueueGot(f) ==
  \A i \in DOMAIN uiQueue' : uiQueue'[i].kind = "frame" =>
    \/ i \in DOMAIN uiQueue /\ uiQueue'[i] = uiQueue[i]
    \/ (\A j \in DOMAIN uiQueue : j < i) /\ i = Len(uiQueue')
       /\ uiQueue'[i].message.stamp = f.stamp

LEMMA DeliveredInOrder ==
  ASSUME ModelInv, QueueInv, QueueInv', OrderInv, UNCHANGED <<messageValues, now, socket>>,
         poll.batch # <<>>, poll'.batch = Tail(poll.batch), QueueGot(Head(poll.batch))
  PROVE  OrderInv'
<1> DEFINE m == Len(poll.batch)
           b == poll.batch[1]
<1>1. /\ m \in Nat \ {0} /\ DOMAIN poll.batch = 1 .. m /\ DOMAIN poll'.batch = 1 .. m - 1
      /\ Head(poll.batch) = b /\ \A i \in 1 .. m - 1 : poll'.batch[i] = poll.batch[i + 1]
  BY DEF QueueInv
<1>2. QueueGot(b)
  BY <1>1
<1>3. DOMAIN uiQueue' = 1 .. Len(uiQueue') /\ Len(uiQueue') \in Nat
  BY DEF QueueInv
<1> HIDE DEF m
<1>4. 1 \in 1 .. m /\ \A i \in 1 .. m - 1 : i + 1 \in 1 .. m /\ 1 < i + 1
  BY <1>1
<1>5. b.stamp \in Nat
  BY <1>1, <1>4, StampsAreNat
<1>6. b.stamp # 0 => TimesUpTo(b.stamp) /\ QueueUpTo(b.stamp)
  BY <1>1, <1>4 DEF OrderInv, BatchInOrder
<1>7. \A i \in 1 .. m - 1 : poll'.batch[i].stamp # 0 => b.stamp <= poll'.batch[i].stamp
  BY <1>1, <1>4 DEF OrderInv, BatchInOrder
<1>8. \A j \in DOMAIN socket : socket[j].stamp # 0 => b.stamp <= socket[j].stamp
  BY <1>1, <1>4 DEF OrderInv, SocketInOrder, BatchUpTo
<1>9. b.stamp <= now
  BY <1>1, <1>4 DEF OrderInv, BatchUpTo
<1> HIDE DEF b
<1>10. ASSUME NEW n, QueueUpTo(n), b.stamp <= n
       PROVE  QueueUpTo(n)'
  BY <1>2, <1>10 DEF QueueUpTo, QueueGot
<1>11. ASSUME NEW n, BatchUpTo(n)
       PROVE  BatchUpTo(n)'
  BY <1>1, <1>4, <1>11 DEF BatchUpTo
<1>12. ASSUME NEW j \in DOMAIN uiQueue', uiQueue'[j].kind = "frame",
              uiQueue'[j].message.stamp # 0
       PROVE  /\ TimesUpTo(uiQueue[j].message.stamp)'
              /\ \A i \in DOMAIN uiQueue' : i < j /\ uiQueue'[i].kind = "frame"
                   => uiQueue'[i].message.stamp <= uiQueue'[j].message.stamp
  <2>1. CASE j \in DOMAIN uiQueue /\ uiQueue'[j] = uiQueue[j]
    <3>1. /\ TimesUpTo(uiQueue[j].message.stamp)
          /\ \A i \in DOMAIN uiQueue : i < j /\ uiQueue[i].kind = "frame"
               => uiQueue[i].message.stamp <= uiQueue[j].message.stamp
      BY <1>12, <2>1 DEF OrderInv, QueueInOrder
    <3>2. ASSUME NEW i \in DOMAIN uiQueue', i < j, uiQueue'[i].kind = "frame"
          PROVE  uiQueue'[i].message.stamp <= uiQueue'[j].message.stamp
      <4>1. j <= Len(uiQueue') /\ i # Len(uiQueue')
        BY <1>3, <3>2
      <4>2. i \in DOMAIN uiQueue /\ uiQueue'[i] = uiQueue[i]
        BY <1>2, <3>2, <4>1 DEF QueueGot
      <4>3. QED
        BY <2>1, <3>1, <3>2, <4>2
    <3>3. QED
      BY <2>1, <3>1, <3>2 DEF TimesUpTo
  <2>2. CASE j = Len(uiQueue') /\ uiQueue'[j].message.stamp = b.stamp
    <3>1. TimesUpTo(b.stamp) /\ QueueUpTo(b.stamp)
      BY <1>6, <1>12, <2>2
    <3>2. \A i \in DOMAIN uiQueue' : uiQueue'[i].kind = "frame"
                                       => uiQueue'[i].message.stamp <= b.stamp
      BY <1>2, <1>5, <3>1 DEF QueueUpTo, QueueGot
    <3>3. QED
      BY <2>2, <3>1, <3>2 DEF TimesUpTo
  <2>3. QED
    BY <1>2, <1>12, <2>1, <2>2 DEF QueueGot
<1>13. QueueInOrder'
  BY <1>12 DEF QueueInOrder
<1>14. ASSUME NEW j \in 1 .. m - 1, poll'.batch[j].stamp # 0
       PROVE  /\ TimesUpTo(poll.batch[j].stamp)' /\ QueueUpTo(poll.batch[j].stamp)'
              /\ \A i \in 1 .. m - 1 : i < j => poll'.batch[i].stamp <= poll'.batch[j].stamp
  <2>1. j + 1 \in 1 .. m /\ poll'.batch[j] = poll.batch[j + 1]
    BY <1>1, <1>4
  <2>2. PICK n \in Nat : n = poll'.batch[j].stamp
    BY <1>1, <2>1, StampsAreNat
  <2>3. /\ TimesUpTo(n) /\ QueueUpTo(n)
        /\ \A i \in 1 .. m : i < j + 1 => poll.batch[i].stamp <= n
    BY <1>1, <1>14, <2>1, <2>2 DEF OrderInv, BatchInOrder
  <2>4. QueueUpTo(n)'
    BY <1>7, <1>10, <1>14, <2>2, <2>3
  <2>5. ASSUME NEW i \in 1 .. m - 1, i < j
        PROVE  poll'.batch[i].stamp <= n
    <3>1. i + 1 \in 1 .. m /\ i + 1 < j + 1 /\ poll'.batch[i] = poll.batch[i + 1]
      BY <1>1, <1>4, <2>5
    <3>2. QED
      BY <2>3, <3>1
  <2>6. QED
    BY <2>2, <2>3, <2>4, <2>5 DEF TimesUpTo, QueueUpTo
<1>15. BatchInOrder'
  BY <1>1, <1>14 DEF BatchInOrder
<1>16. ASSUME NEW j \in DOMAIN socket, socket[j].stamp # 0
       PROVE  /\ TimesUpTo(socket[j].stamp)' /\ QueueUpTo(socket[j].stamp)'
              /\ BatchUpTo(socket[j].stamp)'
              /\ \A i \in DOMAIN socket : i < j => socket[i].stamp <= socket[j].stamp
  <2>1. PICK n : n = socket[j].stamp
    OBVIOUS
  <2>2. /\ TimesUpTo(n) /\ QueueUpTo(n) /\ BatchUpTo(n)
        /\ \A i \in DOMAIN socket : i < j => socket[i].stamp <= n
    BY <1>16, <2>1 DEF OrderInv, SocketInOrder
  <2>3. QueueUpTo(n)' /\ BatchUpTo(n)'
    BY <1>8, <1>10, <1>11, <1>16, <2>1, <2>2
  <2>4. QED
    BY <2>1, <2>2, <2>3 DEF TimesUpTo, QueueUpTo, BatchUpTo
<1>17. SocketInOrder'
  BY <1>16 DEF SocketInOrder
<1>18. QueueUpTo(now)' /\ BatchUpTo(now)'
  <2>1. PICK n : n = now
    OBVIOUS
  <2>2. QueueUpTo(n)' /\ BatchUpTo(n)'
    BY <1>9, <1>10, <1>11, <2>1 DEF OrderInv
  <2>3. QED
    BY <2>1, <2>2 DEF QueueUpTo, BatchUpTo
<1>19. QED
  BY <1>13, <1>15, <1>17, <1>18 DEF OrderInv, TimesUpTo, SocketUpTo

\* Nothing comes into the places a frame is in.
LEMMA NothingNew ==
  ASSUME QueueInv, uiQueue' = uiQueue, poll'.batch = poll.batch \/ poll'.batch = <<>>,
         socket' = socket \/ socket' = <<>>
  PROVE  QueueMoved(0, 0) /\ BatchMoved(0) /\ SocketMoved(0)
<1>1. QueueMoved(0, 0)
  <2>1. \A i \in DOMAIN uiQueue : i + 0 = i
    BY DEF QueueInv
  <2>2. QED
    BY <2>1, StampsAreNat DEF QueueMoved
<1>2. BatchMoved(0)
  BY StampsAreNat DEF BatchMoved
<1>3. SocketMoved(0)
  BY StampsAreNat DEF SocketMoved
<1>4. QED
  BY <1>1, <1>2, <1>3

\* An event that is no frame does not count.
LEMMA PostedMoves ==
  ASSUME QueueInv, NEW e, e.kind # "frame", Post(e)
  PROVE  QueueMoved(0, 0)
<1>1. uiQueue \in Seq(Events) /\ (uiQueue' = uiQueue \/ uiQueue' = Append(uiQueue, e))
  BY DEF QueueInv, Post
<1>2. \A i \in DOMAIN uiQueue : i + 0 = i
  BY <1>1
<1>3. \A i \in DOMAIN uiQueue' : uiQueue'[i] = e \/ (i \in DOMAIN uiQueue /\ uiQueue'[i] = uiQueue[i])
  BY <1>1
<1>4. QED
  BY <1>2, <1>3, StampsAreNat DEF QueueMoved

\* What is left when the head is taken was one place further back.
LEMMA TakenMoves ==
  ASSUME QueueInv, NEW k, Take(k), NEW h,
         \A i \in DOMAIN uiQueue : 1 < i /\ uiQueue[i].kind = "frame" /\ uiQueue[i].message.stamp # 0
                                     => h <= uiQueue[i].message.stamp
  PROVE  QueueMoved(h, 1)
<1>1. uiQueue \in Seq(Events) /\ uiQueue # <<>> /\ uiQueue' = Tail(uiQueue)
  BY DEF QueueInv, Take
<1>2. \A i \in DOMAIN uiQueue' : i + 1 \in DOMAIN uiQueue /\ 1 < i + 1 /\ uiQueue[i + 1] = uiQueue'[i]
  BY <1>1
<1>3. QED
  BY <1>2 DEF QueueMoved

LEMMA OrderPollStep ==
  ASSUME ModelInv, QueueInv, QueueInv', OrderInv, PollStep
  PROVE  OrderInv'
<1>1. UNCHANGED <<messageValues, now>> /\ now \in Nat /\ Moved(0)
  <2>1. UNCHANGED <<messageValues, now>>
    BY DEF PollStep, CheckDriver, ReadMessage, UseLostDriver, Deliver, Joined, modelVars
  <2>2. QED
    BY <2>1, StayedMove DEF QueueInv, OrderInv
<1>2. poll = [pc |-> poll.pc, saw |-> poll.saw, batch |-> poll.batch]
  BY DEF QueueInv
<1>3. ASSUME UNCHANGED <<socket, uiQueue>>, poll'.batch = poll.batch \/ poll'.batch = <<>>
      PROVE  OrderInv'
  <2>1. QueueMoved(0, 0) /\ BatchMoved(0) /\ SocketMoved(0)
    BY <1>3, NothingNew
  <2>2. 0 <= now /\ now <= now'
    BY <1>1
  <2>3. QED
    BY <1>1, <2>1, <2>2, OrderMoves
<1>4. CASE CheckDriver
  <2>1. UNCHANGED <<socket, uiQueue>>
        /\ (poll' = Idle \/ poll' = [poll EXCEPT !.pc = "read", !.saw = driver])
    BY <1>4 DEF CheckDriver
  <2>2. CASE poll' = Idle
    <3>1. poll'.batch = <<>>
      BY <2>2 DEF Idle
    <3>2. QED
      BY <1>3, <2>1, <3>1
  <2>3. CASE poll' = [poll EXCEPT !.pc = "read", !.saw = driver]
    <3>1. poll'.batch = poll.batch
      BY <1>2, <2>3
    <3>2. QED
      BY <1>3, <2>1, <3>1
  <2>4. QED
    BY <2>1, <2>2, <2>3
<1>5. CASE UseLostDriver
  <2>1. UNCHANGED <<socket, uiQueue>> /\ poll'.batch = poll.batch
    BY <1>2, <1>5 DEF UseLostDriver
  <2>2. QED
    BY <1>3, <2>1
<1>6. CASE Joined
  <2>1. UNCHANGED <<socket, uiQueue>> /\ poll'.batch = <<>>
    BY <1>6 DEF Joined, Idle
  <2>2. QED
    BY <1>3, <2>1
<1>7. CASE ReadMessage
  <2>1. UNCHANGED uiQueue
    BY <1>7 DEF ReadMessage
  <2>2. CASE socket # <<>>
    <3>1. socket' = Tail(socket)
          /\ poll' = [poll EXCEPT !.pc = "check", !.batch = Append(poll.batch, Head(socket))]
      BY <1>7, <2>2 DEF ReadMessage
    <3>2. poll'.batch = Append(poll.batch, Head(socket))
      BY <1>2, <3>1
    <3>3. QED
      BY <1>1, <2>1, <2>2, <3>1, <3>2, ReadInOrder
  <2>3. CASE socket = <<>>
    <3>1. UNCHANGED socket
      BY <1>7, <2>3 DEF ReadMessage
    <3>2. PICK order \in [DOMAIN poll.batch -> DOMAIN poll.batch] :
            /\ Sorts(order, poll.batch)
            /\ poll' = [poll EXCEPT !.pc = "deliver",
                                    !.batch = [k \in DOMAIN poll.batch |-> poll.batch[order[k]]]]
      BY <1>7, <2>3 DEF ReadMessage
    <3>3. poll'.batch = [k \in DOMAIN poll.batch |-> poll.batch[order[k]]]
      BY <1>2, <3>2
    <3>4. QED
      BY <1>1, <2>1, <3>1, <3>2, <3>3, SortedInOrder
  <2>4. QED
    BY <2>2, <2>3
<1>8. CASE Deliver
  <2>1. UNCHANGED socket
    BY <1>8 DEF Deliver
  <2>2. CASE poll.batch = <<>>
    <3>1. UNCHANGED uiQueue /\ poll'.batch = <<>>
      BY <1>8, <2>2 DEF Deliver, Idle
    <3>2. QED
      BY <1>3, <2>1, <3>1
  <2>3. CASE poll.batch # <<>>
    <3> DEFINE f == Head(poll.batch)
    <3>1. poll' = [poll EXCEPT !.batch = Tail(poll.batch)]
      BY <1>8, <2>3 DEF Deliver
    <3>2. poll'.batch = Tail(poll.batch)
      BY <1>2, <3>1
    <3>3. UNCHANGED uiQueue
          \/ \E present : Post([kind |-> "frame",
                                message |-> [id |-> f.id, stamp |-> f.stamp,
                                             signals |-> present, dbc |-> handlerDbc]])
      BY <1>8, <2>3 DEF Deliver
    <3>4. UNCHANGED uiQueue \/ \E e : e.message.stamp = f.stamp /\ uiQueue' = Append(uiQueue, e)
      BY <3>3 DEF Post
    <3> HIDE DEF f
    <3>5. QueueGot(f)
      <4>1. CASE UNCHANGED uiQueue
        BY <4>1 DEF QueueGot
      <4>2. ASSUME NEW e, e.message.stamp = f.stamp, uiQueue' = Append(uiQueue, e)
            PROVE  QueueGot(f)
        <5>1. /\ Len(uiQueue) \in Nat /\ DOMAIN uiQueue = 1 .. Len(uiQueue)
              /\ Len(uiQueue') = Len(uiQueue) + 1
              /\ DOMAIN uiQueue' = 1 .. Len(uiQueue) + 1
              /\ uiQueue'[Len(uiQueue) + 1] = e
              /\ \A i \in 1 .. Len(uiQueue) : uiQueue'[i] = uiQueue[i]
          BY <4>2 DEF QueueInv
        <5>2. ASSUME NEW i \in DOMAIN uiQueue'
              PROVE  \/ i \in DOMAIN uiQueue /\ uiQueue'[i] = uiQueue[i]
                     \/ (\A j \in DOMAIN uiQueue : j < i) /\ i = Len(uiQueue') /\ uiQueue'[i] = e
          BY <5>1
        <5>3. QED
          BY <4>2, <5>2 DEF QueueGot
      <4>3. QED
        BY <3>4, <4>1, <4>2
    <3>6. QED
      BY <1>1, <2>1, <2>3, <3>2, <3>5, DeliveredInOrder DEF f
  <2>4. QED
    BY <2>2, <2>3
<1>9. QED
  BY <1>4, <1>5, <1>6, <1>7, <1>8 DEF PollStep

LEMMA OrderStep == ModelInv /\ QueueInv /\ OrderInv /\ [Next]_vars => OrderInv'
<1> SUFFICES ASSUME ModelInv, QueueInv, OrderInv, [Next]_vars PROVE OrderInv'
  OBVIOUS
<1>1. QueueInv' /\ now \in Nat /\ \A id \in Slots : EntryInOrder(messageValues[id])
  BY QueueStep DEF QueueInv, OrderInv
<1>2. ASSUME UNCHANGED <<now, poll>>, Moved(0), socket' = socket \/ socket' = <<>>,
             UNCHANGED uiQueue \/ QueueMoved(0, 0) \/ QueueMoved(0, 1)
      PROVE  OrderInv'
  <2>1. BatchMoved(0) /\ SocketMoved(0)
    BY <1>2, StampsAreNat DEF BatchMoved, SocketMoved
  <2>2. UNCHANGED uiQueue => QueueMoved(0, 0)
    BY <1>2, NothingNew
  <2>3. 0 <= now /\ now <= now' /\ 0 \in Nat /\ 1 \in Nat
    BY <1>1, <1>2
  <2>4. QED
    BY <1>1, <1>2, <2>1, <2>2, <2>3, OrderMoves
<1>3. UNCHANGED messageValues => Moved(0)
  BY <1>1, StayedMove
<1>4. ASSUME NEW k, Take(k)
      PROVE  QueueMoved(0, 1)
  BY <1>4, TakenMoves, StampsAreNat
<1>5. CASE Environment
  <2>1. ASSUME NEW id \in Ids, Arrive(id)
        PROVE  OrderInv'
    <3>1. PICK stamp \in {0, now} : socket' = Append(socket, [id |-> id, stamp |-> stamp])
      BY <2>1 DEF Arrive
    <3>2. [id |-> id, stamp |-> stamp] \in BusFrames
      BY <1>1, IdsAssumption DEF BusFrames
    <3>3. UNCHANGED <<messageValues, now, uiQueue, poll>>
      BY <2>1 DEF Arrive, modelVars
    <3>4. QED
      BY <3>1, <3>2, <3>3, ArrivedInOrder
  <2>2. CASE Elapse
    <3>1. now' = now + 1 /\ UNCHANGED <<messageValues, uiQueue, poll, socket>>
      BY <2>2 DEF Elapse, Tick
    <3>2. QueueMoved(0, 0) /\ BatchMoved(0) /\ SocketMoved(0)
      BY <3>1, NothingNew
    <3>3. 0 <= now /\ now <= now'
      BY <1>1, <3>1
    <3>4. QED
      BY <1>1, <1>3, <3>1, <3>2, <3>3, OrderMoves
  <2>3. QED
    BY <1>5, <2>1, <2>2 DEF Environment
<1>6. CASE PollStep
  BY <1>1, <1>6, OrderPollStep
<1>7. CASE DbcStep
  <2>1. UNCHANGED <<messageValues, now, poll, socket>>
    BY <1>7 DEF DbcStep, ParseDbc, HandlerHears, TabHears, modelVars
  <2>2. UNCHANGED uiQueue \/ Post([kind |-> "dbc", dbc |-> parsed.dbc])
    BY <1>7 DEF DbcStep, ParseDbc, HandlerHears, TabHears
  <2>3. UNCHANGED uiQueue \/ QueueMoved(0, 0)
    BY <2>2, PostedMoves
  <2>4. QED
    BY <1>2, <1>3, <2>1, <2>3
<1>8. CASE Erase
  <2>1. EraseOldData /\ UNCHANGED <<now, socket, poll, uiQueue>>
    BY <1>8 DEF Erase, EraseOldData
  <2>2. QED
    BY <1>1, <1>2, <2>1, EraseMoves
<1>9. CASE UiStep
  <2>1. CASE HandleFrame
    <3> DEFINE message == Head(uiQueue).message
    <3>1. Take("frame") /\ OnIncomingDbcFrame(message) /\ UNCHANGED <<now, poll, socket>>
      BY <2>1 DEF HandleFrame, OnIncomingDbcFrame
    <3>2. /\ message \in Messages /\ message.stamp \in Nat
          /\ 1 \in DOMAIN uiQueue /\ uiQueue[1].kind = "frame" /\ message = uiQueue[1].message
      <4>1. message \in Messages
        BY <3>1, TakenEvent
      <4>2. 1 \in DOMAIN uiQueue /\ Head(uiQueue) = uiQueue[1] /\ Head(uiQueue).kind = "frame"
        BY <3>1 DEF Take, QueueInv
      <4>3. QED
        BY <4>1, <4>2 DEF Messages
    <3> HIDE DEF message
    <3>3. message.stamp # 0 => TimesUpTo(message.stamp)
      BY <3>2 DEF OrderInv, QueueInOrder
    <3>4. Moved(message.stamp)
      BY <1>1, <3>1, <3>2, <3>3, FrameMoves
    <3>5. QueueMoved(message.stamp, 1)
      <4>1. \A i \in DOMAIN uiQueue :
              1 < i /\ uiQueue[i].kind = "frame" /\ uiQueue[i].message.stamp # 0
                => message.stamp <= uiQueue[i].message.stamp
        BY <3>2 DEF OrderInv, QueueInOrder
      <4>2. QED
        BY <3>1, <4>1, TakenMoves
    <3>6. BatchMoved(message.stamp)
      BY <3>1, <3>2 DEF BatchMoved, OrderInv, BatchInOrder, QueueUpTo
    <3>7. SocketMoved(message.stamp)
      BY <3>1, <3>2 DEF SocketMoved, OrderInv, SocketInOrder, QueueUpTo
    <3>8. message.stamp <= now /\ now <= now' /\ 1 \in Nat
      BY <1>1, <3>1, <3>2 DEF OrderInv, QueueUpTo
    <3>9. QED
      BY <1>1, <3>2, <3>4, <3>5, <3>6, <3>7, <3>8, OrderMoves
  <2>2. CASE HandleDbc
    <3>1. Take("dbc") /\ OnDbcChange(Head(uiQueue).dbc) /\ UNCHANGED <<now, poll, socket>>
      BY <2>2 DEF HandleDbc, OnDbcChange
    <3>2. QED
      BY <1>2, <1>4, <3>1, DbcMoves
  <2>3. CASE HandleCheck
    <3>1. Take("check") /\ UNCHANGED <<messageValues, now, poll, socket>>
      BY <2>3 DEF HandleCheck, modelVars
    <3>2. QED
      BY <1>2, <1>3, <1>4, <3>1
  <2>4. CASE Refresh
    <3>1. FlushStaleWindows /\ UNCHANGED <<now, poll, socket, uiQueue>>
      BY <2>4 DEF Refresh, FlushStaleWindows
    <3>2. QED
      BY <1>1, <1>2, <3>1, FlushMoves
  <2>5. CASE UpdateCanDevice \/ SetOptions
    <3>1. /\ UNCHANGED <<messageValues, now, poll>>
          /\ socket' = socket \/ socket' = <<>>
          /\ UNCHANGED uiQueue \/ Post([kind |-> "check"])
      BY <2>5 DEF UpdateCanDevice, SetOptions, Replace, modelVars
    <3>2. UNCHANGED uiQueue \/ QueueMoved(0, 0)
      BY <3>1, PostedMoves
    <3>3. QED
      BY <1>2, <1>3, <3>1, <3>2
  <2>6. CASE StartApp
    <3>1. UNCHANGED <<messageValues, now, socket, uiQueue>> /\ poll'.batch = <<>>
      BY <2>6 DEF StartApp, Idle, modelVars
    <3>2. QueueMoved(0, 0) /\ BatchMoved(0) /\ SocketMoved(0)
      BY <3>1, NothingNew
    <3>3. 0 <= now /\ now <= now'
      BY <1>1, <3>1
    <3>4. QED
      BY <1>1, <1>3, <3>1, <3>2, <3>3, OrderMoves
  <2>7. CASE \/ StopApp
             \/ \E g \in rows \intersect Plotted : SignalChecked(g)
             \/ \E g \in refresh.left : ReadTimes(g) \/ ReadValues(g)
    <3>1. UNCHANGED <<messageValues, now, poll, socket, uiQueue>>
      BY <2>7 DEF StopApp, SignalChecked, ReadTimes, ReadValues, modelVars
    <3>2. QED
      BY <1>2, <1>3, <3>1
  <2>8. QED
    BY <1>9, <2>1, <2>2, <2>3, <2>4, <2>5, <2>6, <2>7 DEF UiStep
<1>10. CASE UNCHANGED vars
  <2>1. UNCHANGED <<messageValues, now, poll, socket, uiQueue>>
    BY <1>10 DEF vars, modelVars
  <2>2. QED
    BY <1>2, <1>3, <2>1
<1>11. QED
  BY <1>5, <1>6, <1>7, <1>8, <1>9, <1>10 DEF Next

LEMMA OrderStart == Init => OrderInv
<1> SUFFICES ASSUME Init PROVE OrderInv
  OBVIOUS
<1>1. /\ uiQueue = <<>> /\ socket = <<>> /\ poll.batch = <<>> /\ now = 0
      /\ \A id \in Slots : messageValues[id] = Entry({})
  BY DEF Init, ModelInit, Idle
<1>2. \A id \in Slots : messageValues[id].timestamps = <<>>
                        /\ messageValues[id].windowStart = NotOpen
  BY <1>1 DEF Entry
<1>3. TimesUpTo(now) /\ \A id \in Slots : EntryInOrder(messageValues[id])
  BY <1>1, <1>2 DEF TimesUpTo, EntryInOrder, NotOpen
<1>4. QED
  BY <1>1, <1>3 DEF OrderInv, QueueInOrder, BatchInOrder, SocketInOrder, QueueUpTo, BatchUpTo,
                    SocketUpTo

\* The times of a graph that are known never go back, for any number of ids, frames and
\* changes of the driver: what the polling thread sorts in a batch, and the order the places
\* on the way keep, is enough (checkForCanMessage, onIncomingDbcFrame, flushWindow).
THEOREM TimesStayInOrder == Spec => []TimesIncrease
<1>1. OrderInv => TimesIncrease
  BY DEF OrderInv, EntryInOrder, TimesIncrease
<1>2. Spec => []ModelInv
  BY ReceptionIsModel, ModelInvariant, PTL
<1>3. QED
  BY <1>1, <1>2, OrderStart, OrderStep, QueueInvariant, PTL DEF Spec
=============================================================================
