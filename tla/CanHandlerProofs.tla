---------------------------- MODULE CanHandlerProofs ----------------------------
(***************************************************************************)
(* The two handlers that know the DBC: CanDbcHandler, which puts signals   *)
(* into frames and reads them, and DbcHandler, which has files parsed.     *)
(*                                                                         *)
(* Reading and writing a signal are proved to be what the DBC says its     *)
(* bits mean, for every width of a frame, every well-formed DBC and every  *)
(* request.  Bit k of a signal is at Address(s, k) of the frame, for the   *)
(* shifts of the code (PlacedBits, ReadBits) and for the walk from the     *)
(* highest bit down that the DBC describes (PositionIsAddress).  The       *)
(* number the bits make is a sum over a finite set, from which any element *)
(* can be taken first (SumRemove); the shifts that extend the sign add     *)
(* what the negative weight of the sign bit takes away (SignedIsSum), and  *)
(* the lowest digits of a number sum to its remainder (LowDigits), so that *)
(* masking loses nothing of a number the signal can hold                   *)
(* (DigitsMeanNumber).  Where an induction is needed the least             *)
(* counterexample is refuted (LeastNumber, SmallestSet).                   *)
(*                                                                         *)
(* For any number of requests and of spurious wake-ups, an event names the *)
(* file it was made from and no parsing thread survives onStop.  The       *)
(* argument is the mutex: the thread holds it from the end of one wait to  *)
(* the beginning of the next (ParsingTypeOK), the UI thread writes the     *)
(* slot only when it is free, so the slot does not change while a file is  *)
(* read and parsed (SlotIsStable).                                         *)
(***************************************************************************)
EXTENDS CanDbcHandler, DbcHandler, FiniteSetTheorems, WellFoundedInduction, TLAPS

-----------------------------------------------------------------------------
(***************************************************************************)
(* Division.                                                               *)
(***************************************************************************)

\* A larger factor gives a larger product: the one nonlinear fact needed here.
LEMMA ProductGrows ==
  ASSUME NEW n \in Nat, NEW p \in Int, NEW q \in Int, p <= q
  PROVE  p * n \in Int /\ q * n \in Int /\ p * n <= q * n
  BY Z3

\* Products of integers.
LEMMA Distributes ==
  ASSUME NEW n \in Int, NEW p \in Int, NEW q \in Int
  PROVE  p * n \in Int /\ n * p = p * n /\ (p + q) * n = p * n + q * n /\ (p - q) * n = p * n - q * n
BY Z3

\* Every number is a quotient times the divisor and a remainder below the divisor.
LEMMA DivisionOf ==
  ASSUME NEW n \in Nat \ {0}, NEW b \in Int
  PROVE  /\ b \div n \in Int
         /\ b % n \in 0 .. n - 1
         /\ b = (b \div n) * n + (b % n)
  BY Z3

\* Quotient and remainder are determined by this.
LEMMA DivisionUnique ==
  ASSUME NEW n \in Nat \ {0}, NEW q \in Int, NEW r \in 0 .. n - 1
  PROVE  (q * n + r) \div n = q /\ (q * n + r) % n = r
<1> DEFINE b == q * n + r
           p == b \div n
<1>1. q * n \in Int /\ b \in Int
  BY Z3
<1>2. p \in Int /\ b % n \in 0 .. n - 1 /\ b = p * n + (b % n) /\ p * n \in Int
  BY <1>1, DivisionOf, Z3
<1> HIDE DEF b, p
<1>3. CASE p < q
  <2>1. (p + 1) * n <= q * n /\ (p + 1) * n = p * n + n
    BY <1>2, <1>3, ProductGrows, Z3
  <2> QED  BY <1>1, <1>2, <2>1, Z3 DEF b
<1>4. CASE q < p
  <2>1. (q + 1) * n <= p * n /\ (q + 1) * n = q * n + n
    BY <1>2, <1>4, ProductGrows, Z3
  <2> QED  BY <1>1, <1>2, <2>1, Z3 DEF b
<1>5. CASE p = q
  BY <1>1, <1>2, <1>5, Z3 DEF b, p
<1> QED  BY <1>2, <1>3, <1>4, <1>5

-----------------------------------------------------------------------------
(***************************************************************************)
(* Finite sums.                                                            *)
(***************************************************************************)

\* A set of numbers has a least one.
LEMMA LeastNumber ==
  ASSUME NEW T \in SUBSET Nat, T # {}
  PROVE  \E m \in T : \A k \in T : m <= k
<1>1. PICK R : /\ IsWellFoundedOn(R, Nat)
               /\ \A a, b \in Nat : a < b => <<a, b>> \in R
  <2>1. IsWellFoundedOn(OpToRel(<, Nat), Nat)
    BY NatLessThanWellFounded
  <2>2. \A a, b \in Nat : a < b => <<a, b>> \in OpToRel(<, Nat)
    BY DEF OpToRel
  <2> QED  BY <2>1, <2>2, Zenon
<1>2. PICK m \in T : \A k \in T : ~ (<<k, m>> \in R)
  <2>1. IsWellFoundedOn(R, Nat) /\ T \subseteq Nat /\ T # {}
    BY <1>1
  <2> QED  BY <2>1, WFMin, ZenonT(30)
<1>3. \A k \in T : ~(k < m)
  BY <1>1, <1>2
<1> QED  BY <1>3

\* A set of finite sets has a smallest one.
LEMMA SmallestSet ==
  ASSUME NEW P, P # {}, \A T \in P : IsFiniteSet(T)
  PROVE  \E T \in P : \A U \in P : Cardinality(T) <= Cardinality(U)
<1> DEFINE N == {Cardinality(T) : T \in P}
<1>1. N \in SUBSET Nat /\ N # {}
  BY FS_CardinalityType
<1>2. PICK m \in N : \A k \in N : m <= k
  <2> HIDE DEF N
  <2> QED  BY <1>1, LeastNumber
<1> QED  BY <1>2

LEMMA PartOfInterval ==
  ASSUME NEW a \in Int, NEW b \in Int, NEW T \in SUBSET (a .. b)
  PROVE  IsFiniteSet(T)
<1>1. IsFiniteSet(a .. b)
  BY FS_Interval
<1> QED  BY <1>1, FS_Subset

\* The sum of f over a finite set S, by the equations MapThenSumSet has.
Any(S) == CHOOSE x \in S : TRUE

IsSum(g, f, S) ==
  g = [T \in SUBSET S |-> IF T = {} THEN 0 ELSE f[Any(T)] + g[T \ {Any(T)}]]

Sum(f, S) == (CHOOSE g : IsSum(g, f, S))[S]

LEMMA AnyOf == ASSUME NEW T, T # {} PROVE Any(T) \in T
BY DEF Any

\* The equations have one solution at most ...
LEMMA SumUnique ==
  ASSUME NEW S, IsFiniteSet(S), NEW f, NEW g, NEW h, NEW T \in SUBSET S,
         IsSum(g, f, S), IsSum(h, f, T)
  PROVE  g[T] = h[T]
<1> SUFFICES ASSUME g[T] # h[T] PROVE FALSE
  OBVIOUS
<1> DEFINE P == {U \in SUBSET T : g[U] # h[U]}
<1>1. PICK U \in P : \A V \in P : Cardinality(U) <= Cardinality(V)
  <2>1. P # {} /\ \A V \in P : IsFiniteSet(V)
    BY FS_Subset
  <2> HIDE DEF P
  <2> QED  BY <2>1, SmallestSet
<1>2. g[U] = (IF U = {} THEN 0 ELSE f[Any(U)] + g[U \ {Any(U)}])
  <2>1. U \in SUBSET S
    BY <1>1
  <2> QED  BY <2>1, Zenon DEF IsSum
<1>3. h[U] = (IF U = {} THEN 0 ELSE f[Any(U)] + h[U \ {Any(U)}])
  <2>1. U \in SUBSET T
    BY <1>1
  <2> QED  BY <2>1, Zenon DEF IsSum
<1>4. U # {}
  BY <1>1, <1>2, <1>3
<1>5. U \ {Any(U)} \in P
  BY <1>1, <1>2, <1>3, <1>4
<1>6. Cardinality(U) \in Nat /\ Cardinality(U \ {Any(U)}) = Cardinality(U) - 1
  <2>1. IsFiniteSet(U) /\ Any(U) \in U
    BY <1>1, <1>4, AnyOf, FS_Subset
  <2> HIDE DEF P
  <2> QED  BY <2>1, FS_RemoveElement, FS_CardinalityType
<1> QED  BY <1>1, <1>5, <1>6

\* Sums of the sets up to a size.
LEMMA SumExists ==
  ASSUME NEW S, IsFiniteSet(S), NEW f
  PROVE  \E g : IsSum(g, f, S)
<1> DEFINE Small(n) == {T \in SUBSET S : Cardinality(T) <= n}
           UpTo(g, n) == g = [T \in Small(n) |-> IF T = {} THEN 0 ELSE f[Any(T)] + g[T \ {Any(T)}]]
           N == {n \in Nat : ~ \E g : UpTo(g, n)}
<1>1. \A T \in SUBSET S : IsFiniteSet(T) /\ Cardinality(T) \in Nat /\ Cardinality(T) <= Cardinality(S)
  BY FS_Subset, FS_CardinalityType
<1>2. Cardinality(S) \in Nat
  BY FS_CardinalityType
<1>3. \A T \in SUBSET S : T # {} => Cardinality(T \ {Any(T)}) = Cardinality(T) - 1 /\ T \ {Any(T)} \in SUBSET S
  BY <1>1, AnyOf, FS_RemoveElement
<1>4. N = {}
  <2> SUFFICES ASSUME N # {} PROVE FALSE
    OBVIOUS
  <2>1. PICK m \in N : \A k \in N : m <= k
    <3>1. N \in SUBSET Nat
      OBVIOUS
    <3> HIDE DEF N
    <3> QED  BY <3>1, LeastNumber
  <2>2. \E g : \A T \in SUBSET S : Cardinality(T) < m =>
                 g[T] = IF T = {} THEN 0 ELSE f[Any(T)] + g[T \ {Any(T)}]
    <3>1. CASE m = 0
      BY <3>1, <1>1
    <3>2. CASE m # 0
      <4>1. m - 1 \in Nat /\ m - 1 \notin N
        <5>1. m \in Nat
          OBVIOUS
        <5> HIDE DEF N
        <5> QED  BY <2>1, <3>2, <5>1
      <4>2. PICK g : UpTo(g, m - 1)
        BY <4>1
      <4>3. \A T \in Small(m - 1) : g[T] = IF T = {} THEN 0 ELSE f[Any(T)] + g[T \ {Any(T)}]
        BY <4>2, Zenon
      <4>4. \A T \in SUBSET S : Cardinality(T) < m => T \in Small(m - 1)
        BY <1>1, <2>1
      <4> QED  BY <4>3, <4>4
    <3> QED  BY <3>1, <3>2
  <2>3. PICK g : \A T \in SUBSET S : Cardinality(T) < m =>
                 g[T] = IF T = {} THEN 0 ELSE f[Any(T)] + g[T \ {Any(T)}]
    BY <2>2
  <2>4. PICK h : h = [T \in Small(m) |-> IF T = {} THEN 0 ELSE f[Any(T)] + g[T \ {Any(T)}]]
    OBVIOUS
  <2>5. \A T \in Small(m) : T # {} => h[T \ {Any(T)}] = g[T \ {Any(T)}]
    <3> TAKE T \in Small(m)
    <3> HAVE T # {}
    <3> DEFINE U == T \ {Any(T)}
    <3>1. U \in SUBSET S /\ Cardinality(U) < m /\ U \in Small(m)
      BY <1>1, <1>3, <2>1
    <3>2. h[U] = IF U = {} THEN 0 ELSE f[Any(U)] + g[U \ {Any(U)}]
      BY <2>4, <3>1, Zenon
    <3>3. g[U] = IF U = {} THEN 0 ELSE f[Any(U)] + g[U \ {Any(U)}]
      BY <2>3, <3>1
    <3> QED  BY <3>2, <3>3
  <2>6. \A T \in Small(m) : (IF T = {} THEN 0 ELSE f[Any(T)] + g[T \ {Any(T)}])
                            = (IF T = {} THEN 0 ELSE f[Any(T)] + h[T \ {Any(T)}])
    BY <2>5
  <2>7. UpTo(h, m)
    <3> HIDE DEF Small
    <3> QED  BY <2>4, <2>6, Zenon
  <2> QED  BY <2>1, <2>7
<1>5. PICK g : UpTo(g, Cardinality(S))
  BY <1>2, <1>4
<1>6. Small(Cardinality(S)) = SUBSET S
  BY <1>1
<1> QED  BY <1>5, <1>6, Zenon DEF IsSum

\* What solves the equations of a sum is the sum.
LEMMA SumBySolution ==
  ASSUME NEW S, IsFiniteSet(S), NEW f, NEW g, IsSum(g, f, S)
  PROVE  g[S] = Sum(f, S)
<1> DEFINE h == CHOOSE h : IsSum(h, f, S)
<1>1. IsSum(h, f, S)
  OBVIOUS
<1> HIDE DEF h
<1>2. g[S] = h[S]
  BY <1>1, SumUnique
<1> QED  BY <1>2 DEF Sum, h

\* So a sum is that of one element and the rest.
LEMMA SumOfPart ==
  ASSUME NEW S, IsFiniteSet(S), NEW f
  PROVE  Sum(f, S) = IF S = {} THEN 0 ELSE f[Any(S)] + Sum(f, S \ {Any(S)})
<1> DEFINE Chosen(T) == CHOOSE g : IsSum(g, f, T)
<1>1. \A T \in SUBSET S : IsFiniteSet(T) /\ IsSum(Chosen(T), f, T)
  <2> TAKE T \in SUBSET S
  <2>1. IsFiniteSet(T)
    BY FS_Subset
  <2>2. \E g : IsSum(g, f, T)
    BY <2>1, SumExists
  <2> QED  BY <2>1, <2>2, Zenon
<1>2. \A T \in SUBSET S : Chosen(S)[T] = Sum(f, T)
  <2> TAKE T \in SUBSET S
  <2>1. Chosen(S)[T] = Chosen(T)[T]
    <3>1. IsSum(Chosen(S), f, S) /\ IsSum(Chosen(T), f, T)
      BY <1>1
    <3> HIDE DEF Chosen
    <3> QED  BY <3>1, SumUnique
  <2> QED  BY <2>1 DEF Sum
<1>3. Chosen(S)[S] = IF S = {} THEN 0 ELSE f[Any(S)] + Chosen(S)[S \ {Any(S)}]
  <2>1. IsSum(Chosen(S), f, S) /\ S \in SUBSET S
    BY <1>1
  <2> HIDE DEF Chosen
  <2> QED  BY <2>1, Zenon DEF IsSum
<1> HIDE DEF Chosen
<1> QED  BY <1>2, <1>3

LEMMA SumType ==
  ASSUME NEW S, IsFiniteSet(S), NEW f, \A x \in S : f[x] \in Int
  PROVE  Sum(f, S) \in Int
<1> SUFFICES ASSUME Sum(f, S) \notin Int PROVE FALSE
  OBVIOUS
<1> DEFINE P == {T \in SUBSET S : Sum(f, T) \notin Int}
<1>1. PICK T \in P : \A U \in P : Cardinality(T) <= Cardinality(U)
  <2>1. P # {} /\ \A V \in P : IsFiniteSet(V)
    BY FS_Subset
  <2> HIDE DEF P
  <2> QED  BY <2>1, SmallestSet
<1>2. IsFiniteSet(T)
  BY <1>1, FS_Subset
<1>3. Sum(f, T) = IF T = {} THEN 0 ELSE f[Any(T)] + Sum(f, T \ {Any(T)})
  BY <1>2, SumOfPart
<1>4. T # {} /\ Any(T) \in T
  BY <1>1, <1>3, AnyOf
<1>5. T \ {Any(T)} \in P
  BY <1>1, <1>3, <1>4
<1>6. Cardinality(T) \in Nat /\ Cardinality(T \ {Any(T)}) = Cardinality(T) - 1
  BY <1>2, <1>4, FS_RemoveElement, FS_CardinalityType
<1> QED  BY <1>1, <1>5, <1>6

\* Any element can be the first.
LEMMA SumRemove ==
  ASSUME NEW S, IsFiniteSet(S), NEW f, \A x \in S : f[x] \in Int, NEW x \in S
  PROVE  Sum(f, S) = f[x] + Sum(f, S \ {x})
<1> DEFINE Bad(T, z) == Sum(f, T) # f[z] + Sum(f, T \ {z})
           P == {T \in SUBSET S : \E z \in T : Bad(T, z)}
<1>1. \A T \in SUBSET S : IsFiniteSet(T) /\ Sum(f, T) \in Int
  <2> TAKE T \in SUBSET S
  <2>1. IsFiniteSet(T) /\ \A z \in T : f[z] \in Int
    BY FS_Subset
  <2> QED  BY <2>1, SumType
<1>2. P = {}
  <2> SUFFICES ASSUME P # {} PROVE FALSE
    OBVIOUS
  <2>1. PICK T \in P : \A U \in P : Cardinality(T) <= Cardinality(U)
    <3>1. \A V \in P : IsFiniteSet(V)
      BY <1>1
    <3> HIDE DEF P
    <3> QED  BY <3>1, SmallestSet
  <2>2. PICK z \in T : Bad(T, z)
    OBVIOUS
  <2>3. PICK y \in T : y = Any(T)
    BY AnyOf, <2>2
  <2>4. T \in SUBSET S /\ IsFiniteSet(T)
    BY <1>1
  <2>5. Sum(f, T) = f[y] + Sum(f, T \ {y})
    BY <2>2, <2>3, <2>4, SumOfPart
  <2>6. y # z
    BY <2>2, <2>5
  <2>7. Cardinality(T) \in Nat /\ Cardinality(T \ {y}) = Cardinality(T) - 1
        /\ Cardinality(T \ {z}) = Cardinality(T) - 1
    <3>1. y \in T /\ z \in T
      OBVIOUS
    <3> HIDE DEF P
    <3> QED  BY <2>4, <3>1, FS_RemoveElement, FS_CardinalityType
  <2>8. T \ {y} \notin P /\ T \ {z} \notin P
    <3> HIDE DEF P
    <3> QED  BY <2>1, <2>7
  <2>9. ~Bad(T \ {y}, z) /\ ~Bad(T \ {z}, y)
    BY <2>4, <2>6, <2>8
  <2>10. (T \ {z}) \ {y} = (T \ {y}) \ {z}
    OBVIOUS
  <2>11. f[y] \in Int /\ f[z] \in Int /\ Sum(f, (T \ {y}) \ {z}) \in Int
    BY <1>1, <2>4
  <2>12. /\ Sum(f, T \ {y}) = f[z] + Sum(f, (T \ {y}) \ {z})
         /\ Sum(f, T \ {z}) = f[y] + Sum(f, (T \ {y}) \ {z})
    BY <2>9, <2>10
  <2>13. Sum(f, T) # f[z] + Sum(f, T \ {z})
    BY <2>2
  <2> HIDE DEF P, Bad
  <2> QED  BY <2>5, <2>11, <2>12, <2>13
<1> QED  BY <1>2

\* A sum is of the values in the set only.
LEMMA SumSame ==
  ASSUME NEW S, IsFiniteSet(S), NEW f, NEW h, \A x \in S : f[x] = h[x]
  PROVE  Sum(f, S) = Sum(h, S)
<1> SUFFICES ASSUME Sum(f, S) # Sum(h, S) PROVE FALSE
  OBVIOUS
<1> DEFINE P == {T \in SUBSET S : Sum(f, T) # Sum(h, T)}
<1>1. PICK T \in P : \A U \in P : Cardinality(T) <= Cardinality(U)
  <2>1. P # {} /\ \A V \in P : IsFiniteSet(V)
    BY FS_Subset
  <2> HIDE DEF P
  <2> QED  BY <2>1, SmallestSet
<1>2. IsFiniteSet(T)
  BY <1>1, FS_Subset
<1>3. /\ Sum(f, T) = IF T = {} THEN 0 ELSE f[Any(T)] + Sum(f, T \ {Any(T)})
      /\ Sum(h, T) = IF T = {} THEN 0 ELSE h[Any(T)] + Sum(h, T \ {Any(T)})
  BY <1>2, SumOfPart
<1>4. T # {} /\ Any(T) \in T
  BY <1>1, <1>3, AnyOf
<1>5. T \ {Any(T)} \in P
  BY <1>1, <1>3, <1>4
<1>6. Cardinality(T) \in Nat /\ Cardinality(T \ {Any(T)}) = Cardinality(T) - 1
  <2> HIDE DEF P
  <2> QED  BY <1>2, <1>4, FS_RemoveElement, FS_CardinalityType
<1> QED  BY <1>1, <1>5, <1>6

-----------------------------------------------------------------------------
(***************************************************************************)
(* Powers of two and binary digits.                                        *)
(***************************************************************************)

\* A power of two is the number of subsets.
LEMMA PowerIsCardinality ==
  ASSUME NEW n \in Nat
  PROVE  IsFiniteSet(SUBSET (1 .. n)) /\ Cardinality(SUBSET (1 .. n)) = 2 ^ n
<1>1. IsFiniteSet(1 .. n) /\ Cardinality(1 .. n) = n
  BY FS_Interval
<1> QED  BY <1>1, FS_SUBSET

LEMMA PowerOfZero == 2 ^ 0 = 1
BY Z3

LEMMA PowerType ==
  ASSUME NEW n \in Nat
  PROVE  2 ^ n \in Nat
BY PowerIsCardinality, FS_CardinalityType

\* It is not zero.
LEMMA PowerIsPositive ==
  ASSUME NEW n \in Nat
  PROVE  2 ^ n \in Nat \ {0}
<1>1. IsFiniteSet(SUBSET (1 .. n)) /\ SUBSET (1 .. n) # {}
  BY PowerIsCardinality
<1>2. Cardinality(SUBSET (1 .. n)) # 0
  BY <1>1, FS_EmptySet
<1> QED  BY <1>2, PowerIsCardinality, PowerType

\* The subsets of 1 .. n + 1 are those of 1 .. n, without n + 1 and with it.
LEMMA PowerDoubles ==
  ASSUME NEW n \in Nat
  PROVE  2 ^ (n + 1) = 2 ^ n + 2 ^ n
<1> DEFINE A == SUBSET (1 .. n)
           B == {T \in SUBSET (1 .. n + 1) : n + 1 \in T}
           f == [T \in A |-> T \union {n + 1}]
<1>1. f \in Bijection(A, B)
  <2>1. f \in [A -> B]
    OBVIOUS
  <2>2. \A T, U \in A : f[T] = f[U] => T = U
    <3> TAKE T, U \in A
    <3>1. T = f[T] \ {n + 1} /\ U = f[U] \ {n + 1}
      OBVIOUS
    <3> QED  BY <3>1
  <2>3. \A V \in B : \E T \in A : f[T] = V
    <3> TAKE V \in B
    <3>1. V \ {n + 1} \in A /\ f[V \ {n + 1}] = V
      OBVIOUS
    <3> QED  BY <3>1
  <2> HIDE DEF f, A, B
  <2> QED  BY <2>1, <2>2, <2>3 DEF Bijection, Injection, Surjection, IsInjective
<1>2. SUBSET (1 .. n + 1) = A \union B /\ A \intersect B = {}
  OBVIOUS
<1> HIDE DEF f, A, B
<1>3. IsFiniteSet(A) /\ Cardinality(A) = 2 ^ n
  BY PowerIsCardinality DEF A
<1>4. IsFiniteSet(B) /\ Cardinality(B) = 2 ^ n
  <2>1. ExistsBijection(A, B)
    BY <1>1 DEF ExistsBijection
  <2> QED  BY <1>3, <2>1, FS_Bijection
<1>5. Cardinality(A \union B) = 2 ^ n + 2 ^ n - Cardinality({})
  BY <1>2, <1>3, <1>4, FS_Union
<1>6. Cardinality(SUBSET (1 .. n + 1)) = 2 ^ (n + 1)
  <2>1. n + 1 \in Nat
    OBVIOUS
  <2> QED  BY <2>1, PowerIsCardinality
<1> QED  BY <1>2, <1>5, <1>6, FS_EmptySet, PowerType

Power == [k \in Nat |-> 2 ^ k]

\* All bits from n to m - 1 make 2^m - 2^n.
LEMMA HighBits ==
  ASSUME NEW n \in Nat, NEW raw \in SUBSET (0 .. n - 1), NEW m \in Nat, n <= m
  PROVE  Sum(Power, raw \union (n .. m - 1)) = Sum(Power, raw) + 2 ^ m - 2 ^ n
<1> DEFINE Upper(i) == raw \union (n .. i - 1)
           N == {i \in Nat : n <= i /\ Sum(Power, Upper(i)) # Sum(Power, raw) + 2 ^ i - 2 ^ n}
<1> SUFFICES ASSUME N # {} PROVE FALSE
  OBVIOUS
<1>1. PICK i \in N : \A j \in N : i <= j
  <2>1. N \in SUBSET Nat
    OBVIOUS
  <2> HIDE DEF N
  <2> QED  BY <2>1, LeastNumber
<1>2. \A j \in Nat : IsFiniteSet(Upper(j)) /\ \A k \in Upper(j) : Power[k] \in Int
  <2> TAKE j \in Nat
  <2>1. Upper(j) \subseteq Nat
    OBVIOUS
  <2>2. IsFiniteSet(n .. j - 1) /\ IsFiniteSet(raw)
    <3>1. n \in Int /\ n - 1 \in Int /\ j - 1 \in Int /\ n .. j - 1 \in SUBSET (n .. j - 1)
      OBVIOUS
    <3>2. IsFiniteSet(n .. j - 1)
      BY <3>1, PartOfInterval
    <3>3. IsFiniteSet(raw)
      <4>1. 0 \in Int /\ raw \in SUBSET (0 .. n - 1)
        OBVIOUS
      <4> QED  BY <3>1, <4>1, PartOfInterval
    <3> QED  BY <3>2, <3>3
  <2>3. IsFiniteSet(Upper(j))
    BY <2>2, FS_Union
  <2> QED  BY <2>1, <2>3, PowerType DEF Power
<1>3. \A j \in Nat : Sum(Power, Upper(j)) \in Int
  <2> HIDE DEF Upper
  <2> QED  BY <1>2, SumType
<1>4. Upper(n) = raw /\ 2 ^ n \in Nat
  BY PowerType
<1>5. i # n
  BY <1>1, <1>3, <1>4
<1>6. i - 1 \in Nat /\ n <= i - 1 /\ i \in Nat
  BY <1>1, <1>5
<1>7. i - 1 \notin N
  <2> HIDE DEF N
  <2> QED  BY <1>1, <1>6
<1>8. Sum(Power, Upper(i - 1)) = Sum(Power, raw) + 2 ^ (i - 1) - 2 ^ n
  BY <1>6, <1>7
<1>9. Upper(i) \ {i - 1} = Upper(i - 1) /\ i - 1 \in Upper(i)
  BY <1>6
<1>10. Sum(Power, Upper(i)) = 2 ^ (i - 1) + Sum(Power, Upper(i - 1))
  <2>1. Power[i - 1] = 2 ^ (i - 1)
    BY <1>6 DEF Power
  <2> HIDE DEF Upper
  <2> QED  BY <1>2, <1>6, <1>9, <2>1, SumRemove
<1>11. 2 ^ i = 2 ^ (i - 1) + 2 ^ (i - 1) /\ 2 ^ (i - 1) \in Nat
  <2>1. (i - 1) + 1 = i
    BY <1>6
  <2>2. 2 ^ ((i - 1) + 1) = 2 ^ (i - 1) + 2 ^ (i - 1) /\ 2 ^ (i - 1) \in Nat
    BY <1>6, PowerDoubles, PowerType
  <2> QED  BY <2>1, <2>2
<1>12. Sum(Power, raw) \in Int
  BY <1>3, <1>4
<1>13. Sum(Power, Upper(i)) # Sum(Power, raw) + 2 ^ i - 2 ^ n
  BY <1>1
<1> HIDE DEF N, Upper
<1> QED  BY <1>4, <1>8, <1>10, <1>11, <1>12, <1>13

\* The next binary digit of a number.
LEMMA NextDigit ==
  ASSUME NEW p \in Nat \ {0}, NEW m \in Int
  PROVE  /\ m % p \in Nat
         /\ m % (p + p) = (m % p) + (IF (m \div p) % 2 = 1 THEN p ELSE 0)
<1> DEFINE q == m \div p
           r == m % p
           h == q \div 2
           c == q % 2
<1>1. q \in Int /\ r \in 0 .. p - 1 /\ m = q * p + r /\ p \in Int
  BY DivisionOf
<1> HIDE DEF q, r
<1>2. h \in Int /\ c \in 0 .. 1 /\ q = h * 2 + c
  <2>1. 2 \in Nat \ {0} /\ 2 - 1 = 1
    OBVIOUS
  <2> QED  BY <1>1, <2>1, DivisionOf
<1> HIDE DEF h, c
<1>3. h * p \in Int /\ c * p \in Int /\ q * p = h * p + h * p + c * p /\ h * (p + p) = h * p + h * p
  <2>1. h * 2 = h + h /\ h + h \in Int /\ c \in Int
    BY <1>2
  <2>2. (h + h) * p = h * p + h * p /\ h * p \in Int /\ c * p \in Int
    BY <1>1, <1>2, <2>1, Distributes
  <2>3. ((h + h) + c) * p = (h + h) * p + c * p
    BY <1>1, <2>1, Distributes
  <2>4. (p + p) * h = p * h + p * h /\ p * h = h * p /\ (p + p) * h = h * (p + p)
    <3>1. p + p \in Int
      BY <1>1
    <3> QED  BY <1>1, <1>2, <3>1, Distributes
  <2> QED  BY <1>2, <2>1, <2>2, <2>3, <2>4
<1>4. c * p = IF c = 1 THEN p ELSE 0
  BY <1>1, <1>2
<1>5. c * p + r \in 0 .. (p + p) - 1 /\ m = h * (p + p) + (c * p + r)
  BY <1>1, <1>2, <1>3, <1>4
<1>6. m % (p + p) = c * p + r
  <2>1. p + p \in Nat \ {0}
    OBVIOUS
  <2> QED  BY <1>2, <1>5, <2>1, DivisionUnique
<1> QED  BY <1>1, <1>2, <1>4, <1>6 DEF q, r, c

\* The n lowest binary digits of a number that are one.
Digits(m, n) == {b \in 0 .. n - 1 : (m \div 2 ^ b) % 2 = 1}

LEMMA DigitsType ==
  ASSUME NEW m \in Int, NEW n \in Nat
  PROVE  /\ IsFiniteSet(Digits(m, n)) /\ Digits(m, n) \in SUBSET Nat
         /\ \A k \in Digits(m, n) : Power[k] \in Int
<1>1. 0 \in Int /\ n - 1 \in Int /\ Digits(m, n) \in SUBSET (0 .. n - 1)
  BY DEF Digits
<1>2. Digits(m, n) \in SUBSET Nat
  BY <1>1
<1>3. IsFiniteSet(Digits(m, n))
  BY <1>1, PartOfInterval
<1>4. \A k \in Digits(m, n) : Power[k] \in Int
  <2>1. \A k \in Nat : Power[k] \in Int
    BY PowerType DEF Power
  <2> QED  BY <1>2, <2>1
<1> QED  BY <1>2, <1>3, <1>4

\* One digit more.
LEMMA MoreDigits ==
  ASSUME NEW m \in Int, NEW j \in Nat
  PROVE  Digits(m, j + 1) = IF (m \div 2 ^ j) % 2 = 1 THEN Digits(m, j) \union {j} ELSE Digits(m, j)
<1>1. \A b : b \in 0 .. (j + 1) - 1 <=> b \in 0 .. j - 1 \/ b = j
  OBVIOUS
<1> DEFINE one(b) == (m \div 2 ^ b) % 2 = 1
<1>2. /\ Digits(m, j + 1) = {b \in 0 .. (j + 1) - 1 : one(b)}
      /\ Digits(m, j) = {b \in 0 .. j - 1 : one(b)}
  BY DEF Digits
<1>3. one(j) <=> (m \div 2 ^ j) % 2 = 1
  OBVIOUS
<1> HIDE DEF one
<1> QED  BY <1>1, <1>2, <1>3, Zenon

\* The lowest digits of a number are its remainder, for negative numbers too.
LEMMA LowDigits ==
  ASSUME NEW m \in Int, NEW n \in Nat
  PROVE  Sum(Power, Digits(m, n)) = m % 2 ^ n
<1> DEFINE N == {i \in Nat : Sum(Power, Digits(m, i)) # m % 2 ^ i}
<1> SUFFICES ASSUME N # {} PROVE FALSE
  OBVIOUS
<1>1. PICK i \in N : \A j \in N : i <= j
  <2>1. N \in SUBSET Nat
    OBVIOUS
  <2> HIDE DEF N
  <2> QED  BY <2>1, LeastNumber
<1>2. i \in Nat /\ Sum(Power, Digits(m, i)) # m % 2 ^ i
  OBVIOUS
<1>3. i # 0
  <2>1. Sum(Power, {}) = 0
    BY SumOfPart, FS_EmptySet
  <2>2. Digits(m, 0) = {}
    BY DEF Digits
  <2>3. m % 1 = 0
    OBVIOUS
  <2> QED  BY <1>2, <2>1, <2>2, <2>3, PowerOfZero
<1>4. i - 1 \in Nat /\ i - 1 \notin N
  <2>1. i - 1 \in Nat
    BY <1>2, <1>3
  <2> HIDE DEF N
  <2> QED  BY <1>1, <1>2, <2>1
<1> DEFINE j == i - 1
           p == 2 ^ j
           low == Digits(m, j)
<1>5. Sum(Power, low) = m % p
  BY <1>4
<1>6. p \in Nat \ {0} /\ 2 ^ i = p + p
  <2>1. j + 1 = i
    BY <1>2
  <2>2. 2 ^ (j + 1) = 2 ^ j + 2 ^ j /\ 2 ^ j \in Nat \ {0}
    BY <1>4, PowerDoubles, PowerIsPositive
  <2> QED  BY <2>1, <2>2
<1>7. (m % p \in Nat) /\ (m % 2 ^ i = (m % p) + (IF (m \div p) % 2 = 1 THEN p ELSE 0))
  <2> HIDE DEF p
  <2> QED  BY <1>6, NextDigit
<1>8. j \notin low
  BY <1>4 DEF Digits
<1>9. Digits(m, i) = IF (m \div p) % 2 = 1 THEN low \union {j} ELSE low
  <2>1. j \in Nat /\ j + 1 = i
    BY <1>2, <1>4
  <2> HIDE DEF j, N
  <2> QED  BY <2>1, MoreDigits
<1>10. CASE (m \div p) % 2 = 1
  <2>1. Digits(m, i) = low \union {j}
    BY <1>9, <1>10
  <2>2. (low \union {j}) \ {j} = low
    BY <1>8
  <2>3. Sum(Power, Digits(m, i)) = Power[j] + Sum(Power, low)
    <3>1. IsFiniteSet(Digits(m, i)) /\ \A k \in Digits(m, i) : Power[k] \in Int
      BY <1>2, DigitsType
    <3>2. j \in Digits(m, i)
      BY <2>1
    <3>3. Sum(Power, Digits(m, i)) = Power[j] + Sum(Power, Digits(m, i) \ {j})
      <4> HIDE DEF j, N
      <4> QED  BY <3>1, <3>2, SumRemove
    <3> QED  BY <2>1, <2>2, <3>3
  <2>4. Power[j] = p
    BY <1>4 DEF Power
  <2> HIDE DEF p, j, low, N
  <2> QED  BY <1>2, <1>5, <1>6, <1>7, <1>10, <2>3, <2>4
<1>11. CASE (m \div p) % 2 # 1
  <2>1. Digits(m, i) = low
    BY <1>9, <1>11
  <2> HIDE DEF p, j, low, N
  <2> QED  BY <1>2, <1>5, <1>7, <1>11, <2>1
<1> QED  BY <1>10, <1>11

-----------------------------------------------------------------------------
(***************************************************************************)
(* Words.                                                                  *)
(***************************************************************************)

LEMMA WidthType == Bytes \in Nat \ {0} /\ ByteSize \in Nat \ {0} /\ W \in Nat
  BY CodecAssumption, Z3 DEF W

\* Swapping the bytes twice changes nothing: a bit is moved within the word, and back.
LEMMA MirroredTwice ==
  ASSUME NEW b \in Bits
  PROVE  Mirrored(b) \in Bits /\ Mirrored(Mirrored(b)) = b
<1> DEFINE q == b \div ByteSize
           r == b % ByteSize
           m == Bytes - 1 - q
<1>1. b \in Int /\ 0 <= b /\ b < Bytes * ByteSize /\ Bytes * ByteSize \in Int
  BY WidthType DEF Bits, W
<1>2. q \in Int /\ r \in 0 .. ByteSize - 1 /\ b = q * ByteSize + r /\ q * ByteSize \in Int
  BY <1>1, WidthType, DivisionOf, Z3
<1> HIDE DEF q, r
<1>3. q >= 0
  <2>1. CASE q <= -1
    <3>1. q * ByteSize <= (-1) * ByteSize
      BY <1>2, <2>1, WidthType, ProductGrows
    <3> QED  BY <1>1, <1>2, <3>1, WidthType, Z3
  <2> QED  BY <1>2, <2>1
<1>4. q <= Bytes - 1
  <2>1. CASE q >= Bytes
    <3>1. Bytes * ByteSize <= q * ByteSize
      BY <1>2, <2>1, WidthType, ProductGrows
    <3> QED  BY <1>1, <1>2, <3>1, WidthType, Z3
  <2> QED  BY <1>2, <2>1, WidthType
<1>5. m \in 0 .. Bytes - 1 /\ m \in Int /\ Bytes - 1 - m = q
  BY <1>2, <1>3, <1>4, WidthType
<1>6. Mirrored(b) = m * ByteSize + r
  BY DEF Mirrored, q, r
<1> HIDE DEF m
<1>7. Mirrored(b) \in Bits
  <2>1. 0 * ByteSize <= m * ByteSize /\ m * ByteSize <= (Bytes - 1) * ByteSize /\ m * ByteSize \in Int
    BY <1>5, WidthType, ProductGrows
  <2>2. (Bytes - 1) * ByteSize = Bytes * ByteSize - ByteSize /\ 0 * ByteSize = 0
    BY WidthType, Z3
  <2> QED  BY <1>1, <1>2, <1>6, <2>1, <2>2, WidthType DEF Bits, W
<1>8. Mirrored(b) \div ByteSize = m /\ Mirrored(b) % ByteSize = r
  BY <1>2, <1>5, <1>6, WidthType, DivisionUnique
<1> QED  BY <1>2, <1>5, <1>7, <1>8 DEF Mirrored

\* A signal that lies in the frame has no bit before the big endian word.
LEMMA LinearStartIsNat ==
  ASSUME NEW s, Fits(s)
  PROVE  LinearStart(s) \in Nat
<1> DEFINE q == s.startBit \div ByteSize
           r == s.startBit % ByteSize
<1>1. s.startBit \in Nat /\ s.startBit \in Int
  BY WidthType DEF Fits, Bits
<1>2. q \in Int /\ r \in 0 .. ByteSize - 1 /\ s.startBit = q * ByteSize + r
  BY <1>1, WidthType, DivisionOf
<1> HIDE DEF q, r
<1>3. q >= 0
  <2>1. CASE q <= -1
    <3>1. q * ByteSize <= (-1) * ByteSize
      BY <1>2, <2>1, WidthType, ProductGrows
    <3> QED  BY <1>1, <1>2, <3>1, WidthType, Z3
  <2> QED  BY <1>2, <2>1
<1>4. ByteSize * q \in Nat
  BY <1>2, <1>3, WidthType, Z3
<1>5. LinearStart(s) = ByteSize * q + (ByteSize - 1 - r)
  <2>1. LinearStart(s) = (W - 1) - ((W - ByteSize) - ByteSize * q + r)
    BY DEF LinearStart, q, r
  <2> QED  BY <1>2, <1>4, <2>1, WidthType, Z3
<1> QED  BY <1>2, <1>4, <1>5, WidthType

\* The number of a word is such a sum ...
LEMMA UnsignedIsSum ==
  ASSUME NEW w \in SUBSET Nat, IsFiniteSet(w)
  PROVE  Unsigned(w) = Sum(Power, w)
<1> DEFINE Solves(g) == g = [T \in SUBSET w |->
                               IF T = {} THEN 0 ELSE 2 ^ (Any(T)) + g[T \ {Any(T)}]]
           h == CHOOSE g : Solves(g)
<1>1. Unsigned(w) = h[w]
  BY DEF Unsigned, MapThenSumSet, MapThenFoldSet, Any
<1>2. \A T \in SUBSET w : T # {} => Power[Any(T)] = 2 ^ Any(T)
  BY AnyOf DEF Power
<1>3. ASSUME NEW g PROVE Solves(g) <=> IsSum(g, Power, w)
  BY <1>2 DEF IsSum
<1>4. Solves(h)
  BY <1>3, SumExists
<1> HIDE DEF h
<1>5. h[w] = Sum(Power, w)
  BY <1>3, <1>4, SumBySolution
<1> QED  BY <1>1, <1>5

\* What the two shifts that extend the sign make of the bits of a signal.
LEMMA SignExtended ==
  ASSUME NEW n \in 1 .. W, NEW raw \in SUBSET (0 .. n - 1)
  PROVE  Sar(Shl(raw, W - n), W - n) = IF n - 1 \in raw THEN raw \union (n .. W - 1) ELSE raw
<1>1. W \in Nat /\ n \in Nat
  BY WidthType
<1>2. \A b \in Bits : b + (W - n) < W <=> b < n
  BY <1>1 DEF Bits
<1>3. \A b \in Bits : b < n => (b + (W - n) \in Shl(raw, W - n) <=> b \in raw)
  BY <1>1 DEF Bits, Shl
<1>4. W - 1 \in Shl(raw, W - n) <=> n - 1 \in raw
  BY <1>1 DEF Bits, Shl
<1>5. Sar(Shl(raw, W - n), W - n) = {b \in Bits : IF b < n THEN b \in raw ELSE n - 1 \in raw}
  BY <1>2, <1>3, <1>4 DEF Sar
<1>6. raw \subseteq Bits
  BY <1>1 DEF Bits
<1>7. \A b \in Bits : b \in Nat /\ (b < n \/ b \in n .. W - 1)
  BY <1>1 DEF Bits
<1>8. \A b \in raw : b < n
  BY <1>1
<1>9. \A b \in n .. W - 1 : b \in Bits /\ ~(b < n)
  BY <1>1 DEF Bits
<1>10. CASE n - 1 \in raw
  BY <1>5, <1>6, <1>7, <1>8, <1>9, <1>10
<1>11. CASE n - 1 \notin raw
  BY <1>5, <1>6, <1>7, <1>8, <1>11
<1> QED  BY <1>10, <1>11

\* The bits that are put into a frame are the lowest digits of the number.
LEMMA MaskedIsDigits ==
  ASSUME NEW m \in Int, NEW n \in 1 .. W
  PROVE  ToWord(m) \intersect Mask(n) = Digits(m, n)
<1>1. \A b : b \in Bits /\ b < n <=> b \in 0 .. n - 1
  BY WidthType DEF Bits
<1> QED  BY <1>1 DEF ToWord, Mask, Digits

-----------------------------------------------------------------------------
(***************************************************************************)
(* The place of a signal.                                                  *)
(***************************************************************************)

\* The bit of the frame that holds bit k of a signal.
Address(s, k) ==
  IF s.byteOrder THEN Mirrored(k + (W - LinearStart(s) - s.signalSize)) ELSE k + s.startBit

LEMMA SignalType ==
  ASSUME NEW s, Fits(s)
  PROVE  /\ s.startBit \in Nat /\ s.signalSize \in 1 .. W
         /\ LinearStart(s) \in Nat
         /\ s.byteOrder => LinearStart(s) + s.signalSize <= W
         /\ ~s.byteOrder => s.startBit + s.signalSize <= W
<1>1. LinearStart(s) \in Nat
  BY LinearStartIsNat
<1>2. s.startBit \in Nat /\ s.signalSize \in 1 .. W
  BY WidthType DEF Fits, Bits
<1> QED  BY <1>1, <1>2 DEF Fits

LEMMA AddressInFrame ==
  ASSUME NEW s, Fits(s), NEW k \in 0 .. s.signalSize - 1
  PROVE  Address(s, k) \in Bits
<1>1. CASE s.byteOrder
  <2>1. k + (W - LinearStart(s) - s.signalSize) \in Bits
    BY <1>1, SignalType, WidthType DEF Bits
  <2> QED  BY <1>1, <2>1, MirroredTwice DEF Address
<1>2. CASE ~s.byteOrder
  BY <1>2, SignalType, WidthType DEF Address, Bits
<1> QED  BY <1>1, <1>2

\* A bit that is placed is at its address.
LEMMA PlacedBits ==
  ASSUME NEW s, Fits(s), NEW raw, NEW k \in 0 .. s.signalSize - 1
  PROVE  Address(s, k) \in Placed(s, raw) <=> k \in raw
<1>1. CASE s.byteOrder
  <2> DEFINE n == W - LinearStart(s) - s.signalSize
             x == k + n
  <2>1. n \in Nat /\ x \in Bits /\ x - n = k
    BY <1>1, SignalType, WidthType DEF Bits
  <2>2. Address(s, k) = Mirrored(x) /\ Placed(s, raw) = SwapBytes(Shl(raw, n))
    BY <1>1 DEF Address, Placed
  <2> HIDE DEF n, x
  <2>3. Mirrored(x) \in SwapBytes(Shl(raw, n)) <=> x \in Shl(raw, n)
    BY <2>1, MirroredTwice DEF SwapBytes
  <2> QED  BY <2>1, <2>2, <2>3 DEF Shl
<1>2. CASE ~s.byteOrder
  <2>1. k + s.startBit \in Bits /\ (k + s.startBit) - s.startBit = k
    BY <1>2, SignalType, WidthType DEF Bits
  <2> QED  BY <1>2, <2>1 DEF Address, Placed, Shl
<1> QED  BY <1>1, <1>2

\* What is read are the bits at the addresses, and nothing else.
LEMMA ReadBits ==
  ASSUME NEW s, Fits(s), NEW data
  PROVE  RawBits(s, data) = {k \in 0 .. s.signalSize - 1 : Address(s, k) \in data}
<1> DEFINE n == W - s.signalSize
<1>1. n \in Nat /\ s.signalSize \in Nat
  BY SignalType, WidthType
<1>2. CASE s.byteOrder
  <2>1. RawBits(s, data) = {b \in Bits : b + n \in Shl(SwapBytes(data), LinearStart(s))}
    BY <1>2 DEF RawBits, Shr
  <2>2. ASSUME NEW b \in Bits
        PROVE  b + n \in Shl(SwapBytes(data), LinearStart(s))
                 <=> b \in 0 .. s.signalSize - 1 /\ Address(s, b) \in data
    <3>1. CASE b \in 0 .. s.signalSize - 1
      <4>1. b + n \in Bits /\ (b + n) - LinearStart(s) = b + (W - LinearStart(s) - s.signalSize)
        BY <1>2, <3>1, SignalType, WidthType DEF Bits
      <4>2. b + (W - LinearStart(s) - s.signalSize) \in Bits
        BY <1>2, <3>1, SignalType, WidthType DEF Bits
      <4> HIDE DEF n
      <4> QED  BY <1>2, <3>1, <4>1, <4>2 DEF Shl, SwapBytes, Address
    <3>2. CASE b \notin 0 .. s.signalSize - 1
      <4>1. b + n \notin Bits
        BY <3>2, SignalType, WidthType DEF Bits
      <4> QED  BY <3>2, <4>1 DEF Shl
    <3> QED  BY <3>1, <3>2
  <2>3. 0 .. s.signalSize - 1 \subseteq Bits
    BY SignalType, WidthType DEF Bits
  <2> HIDE DEF n
  <2> QED  BY <2>1, <2>2, <2>3
<1>3. CASE ~s.byteOrder
  <2>1. RawBits(s, data) = {b \in Bits : b + n \in Shl(data, W - s.startBit - s.signalSize)}
    BY <1>3 DEF RawBits, Shr
  <2>2. ASSUME NEW b \in Bits
        PROVE  b + n \in Shl(data, W - s.startBit - s.signalSize)
                 <=> b \in 0 .. s.signalSize - 1 /\ Address(s, b) \in data
    <3>1. CASE b \in 0 .. s.signalSize - 1
      <4>1. b + n \in Bits /\ (b + n) - (W - s.startBit - s.signalSize) = b + s.startBit
        BY <1>3, <3>1, SignalType, WidthType DEF Bits
      <4> HIDE DEF n
      <4> QED  BY <1>3, <3>1, <4>1 DEF Shl, Address
    <3>2. CASE b \notin 0 .. s.signalSize - 1
      <4>1. b + n \notin Bits
        BY <3>2, SignalType, WidthType DEF Bits
      <4> QED  BY <3>2, <4>1 DEF Shl
    <3> QED  BY <3>1, <3>2
  <2>3. 0 .. s.signalSize - 1 \subseteq Bits
    BY SignalType, WidthType DEF Bits
  <2> HIDE DEF n
  <2> QED  BY <2>1, <2>2, <2>3
<1> QED  BY <1>2, <1>3

\* A signal is put among its own bits.
LEMMA PlacedIsOccupied ==
  ASSUME NEW s, NEW raw, raw \subseteq Mask(s.signalSize)
  PROVE  Placed(s, raw) \subseteq Occupied(s)
<1>1. ASSUME NEW n PROVE Shl(raw, n) \subseteq Shl(Mask(s.signalSize), n)
  BY DEF Shl
<1>2. ASSUME NEW v, NEW w, v \subseteq w PROVE SwapBytes(v) \subseteq SwapBytes(w)
  BY <1>2 DEF SwapBytes
<1>3. CASE s.byteOrder
  BY <1>1, <1>2, <1>3 DEF Placed, Occupied
<1>4. CASE ~s.byteOrder
  BY <1>1, <1>4 DEF Placed, Occupied
<1> QED  BY <1>3, <1>4

\* Going from a bit of the big endian word to the next lower one.
LEMMA BelowMirrored ==
  ASSUME NEW x \in Bits, x # 0
  PROVE  x - 1 \in Bits /\ Below(Mirrored(x)) = Mirrored(x - 1)
<1>1. x \in Int /\ x - 1 \in Bits /\ x - 1 \in Int
  BY WidthType DEF Bits
<1>2. PICK q \in Int, r \in 0 .. ByteSize - 1 : q = x \div ByteSize /\ r = x % ByteSize /\ x = q * ByteSize + r
  BY <1>1, WidthType, DivisionOf
<1> DEFINE m == Bytes - 1 - q
<1>3. m \in Int /\ r \in Int /\ m * ByteSize \in Int /\ q * ByteSize \in Int
  BY <1>2, WidthType, Z3
<1>4. Mirrored(x) = m * ByteSize + r
  BY <1>2 DEF Mirrored
<1> HIDE DEF m
<1>5. Mirrored(x) % ByteSize = r
  <2>1. m \in Int /\ r \in 0 .. ByteSize - 1 /\ ByteSize \in Nat \ {0}
    BY <1>3, WidthType
  <2>2. (m * ByteSize + r) % ByteSize = r
    BY <2>1, DivisionUnique, Zenon
  <2> QED  BY <1>4, <2>2, Zenon
<1>6. CASE r = 0
  <2>1. x - 1 = (q - 1) * ByteSize + (ByteSize - 1)
    BY <1>2, <1>6, WidthType, Z3
  <2>2. (x - 1) \div ByteSize = q - 1 /\ (x - 1) % ByteSize = ByteSize - 1
    <3>1. q - 1 \in Int /\ ByteSize - 1 \in 0 .. ByteSize - 1
      BY <1>2, WidthType
    <3> QED  BY <2>1, <3>1, WidthType, DivisionUnique
  <2>3. Mirrored(x - 1) = (Bytes - 1 - (q - 1)) * ByteSize + (ByteSize - 1)
    BY <2>2 DEF Mirrored
  <2>4. (Bytes - 1 - (q - 1)) * ByteSize = m * ByteSize + ByteSize
    <3>1. Bytes - 1 - (q - 1) = m + 1 /\ 1 * ByteSize = ByteSize
      BY <1>2, WidthType DEF m
    <3>2. (m + 1) * ByteSize = m * ByteSize + 1 * ByteSize
      BY <1>3, WidthType, Distributes
    <3> QED  BY <3>1, <3>2
  <2>5. Below(Mirrored(x)) = m * ByteSize + 2 * ByteSize - 1
    BY <1>3, <1>4, <1>5, <1>6 DEF Below
  <2> QED  BY <1>1, <1>3, <2>3, <2>4, <2>5, WidthType
<1>7. CASE r # 0
  <2>1. x - 1 = q * ByteSize + (r - 1) /\ r - 1 \in 0 .. ByteSize - 1
    BY <1>2, <1>3, <1>7, WidthType
  <2>2. (x - 1) \div ByteSize = q /\ (x - 1) % ByteSize = r - 1
    BY <1>2, <2>1, WidthType, DivisionUnique
  <2>3. Mirrored(x - 1) = m * ByteSize + (r - 1)
    BY <2>2 DEF Mirrored, m
  <2>4. Below(Mirrored(x)) = m * ByteSize + r - 1
    <3>1. Mirrored(x) % ByteSize # 0
      BY <1>5, <1>7
    <3>2. Below(Mirrored(x)) = Mirrored(x) - 1
      BY <3>1 DEF Below
    <3> QED  BY <1>3, <1>4, <3>2
  <2> QED  BY <1>1, <1>2, <1>3, <2>3, <2>4, WidthType
<1> QED  BY <1>6, <1>7

\* The bit at which a big endian signal starts is its highest.
LEMMA StartMirrored ==
  ASSUME NEW s, Fits(s)
  PROVE  Mirrored(W - 1 - LinearStart(s)) = s.startBit
<1>1. s.startBit \in Int
  BY SignalType
<1>2. PICK q \in Int, r \in 0 .. ByteSize - 1 :
        q = s.startBit \div ByteSize /\ r = s.startBit % ByteSize /\ s.startBit = q * ByteSize + r
  BY <1>1, WidthType, DivisionOf
<1> DEFINE m == Bytes - 1 - q
<1>3. q * ByteSize \in Int /\ ByteSize * q = q * ByteSize /\ m \in Int /\ m * ByteSize \in Int
  <2>1. m \in Int /\ ByteSize \in Int
    BY <1>2, WidthType
  <2> HIDE DEF m
  <2> QED  BY <1>2, <2>1, Distributes
<1>4. W - 1 - LinearStart(s) = m * ByteSize + r
  <2>1. LinearStart(s) = (W - 1) - ((W - ByteSize) - ByteSize * q + r)
    BY <1>2 DEF LinearStart
  <2>2. m * ByteSize = W - ByteSize - q * ByteSize
    <3>1. /\ Bytes - 1 \in Int /\ Bytes \in Int /\ ByteSize \in Int /\ 1 * ByteSize = ByteSize
          /\ Bytes * ByteSize \in Int
      BY WidthType, Z3
    <3>2. ((Bytes - 1) - q) * ByteSize = (Bytes - 1) * ByteSize - q * ByteSize
      BY <1>2, <3>1, Distributes
    <3>3. (Bytes - 1) * ByteSize = Bytes * ByteSize - 1 * ByteSize
      BY <3>1, Distributes
    <3> QED  BY <3>1, <3>2, <3>3 DEF W, m
  <2>3. PICK p \in Int : p = q * ByteSize
    BY <1>3
  <2> HIDE DEF m
  <2>4. LinearStart(s) = (W - 1) - ((W - ByteSize) - p + r) /\ m * ByteSize = W - ByteSize - p
    BY <1>3, <2>1, <2>2, <2>3
  <2>5. r \in Int /\ W \in Int /\ ByteSize \in Int
    BY <1>2, WidthType
  <2> QED  BY <2>4, <2>5
<1> HIDE DEF m
<1>5. (W - 1 - LinearStart(s)) \div ByteSize = m /\ (W - 1 - LinearStart(s)) % ByteSize = r
  <2>1. m \in Int /\ r \in 0 .. ByteSize - 1 /\ ByteSize \in Nat \ {0}
    BY <1>3, WidthType
  <2>2. (m * ByteSize + r) \div ByteSize = m /\ (m * ByteSize + r) % ByteSize = r
    BY <2>1, DivisionUnique, Zenon
  <2> QED  BY <1>4, <2>2, Zenon
<1>6. Bytes - 1 - m = q
  BY <1>2, WidthType DEF m
<1> QED  BY <1>2, <1>5, <1>6 DEF Mirrored

\* The walk of Position over the bits of a signal.
Walks(s, d) == d = [i \in 0 .. s.signalSize - 1 |-> IF i = 0 THEN s.startBit ELSE Below(d[i - 1])]

\* It goes through the big endian word one bit at a time.
LEMMA WalkIs ==
  ASSUME NEW s, Fits(s), s.byteOrder, NEW d, Walks(s, d), NEW j \in 0 .. s.signalSize - 1
  PROVE  d[j] = Mirrored(W - 1 - LinearStart(s) - j)
<1> DEFINE at(i) == W - 1 - LinearStart(s) - i
           N == {i \in 0 .. s.signalSize - 1 : d[i] # Mirrored(at(i))}
<1> SUFFICES ASSUME N # {} PROVE FALSE
  OBVIOUS
<1>1. s.signalSize \in Nat /\ LinearStart(s) \in Nat /\ LinearStart(s) + s.signalSize <= W /\ W \in Nat
  BY SignalType, WidthType
<1>2. PICK i \in N : \A k \in N : i <= k
  <2>1. N \in SUBSET Nat
    BY <1>1
  <2> HIDE DEF N
  <2> QED  BY <2>1, LeastNumber
<1>3. d[i] = IF i = 0 THEN s.startBit ELSE Below(d[i - 1])
  BY <1>2, Zenon DEF Walks
<1>4. i # 0
  BY <1>1, <1>2, <1>3, StartMirrored
<1>5. i - 1 \in 0 .. s.signalSize - 1 /\ i - 1 \notin N
  <2>1. i \in 0 .. s.signalSize - 1
    OBVIOUS
  <2> HIDE DEF N
  <2> QED  BY <1>1, <1>2, <1>4, <2>1
<1>6. d[i - 1] = Mirrored(at(i - 1))
  BY <1>5
<1>7. at(i - 1) \in Bits /\ at(i - 1) # 0 /\ at(i - 1) - 1 = at(i)
  BY <1>1, <1>4 DEF Bits
<1>8. Below(d[i - 1]) = Mirrored(at(i))
  <2> HIDE DEF at
  <2> QED  BY <1>6, <1>7, BelowMirrored
<1> QED  BY <1>2, <1>3, <1>4, <1>8

LEMMA WalkExists ==
  ASSUME NEW s, Fits(s), s.byteOrder
  PROVE  \E d : Walks(s, d)
<1> DEFINE at(i) == W - 1 - LinearStart(s) - i
           d == [i \in 0 .. s.signalSize - 1 |-> Mirrored(at(i))]
<1>1. s.signalSize \in Nat /\ LinearStart(s) \in Nat /\ LinearStart(s) + s.signalSize <= W /\ W \in Nat
  BY SignalType, WidthType
<1>2. ASSUME NEW i \in 0 .. s.signalSize - 1
      PROVE  Mirrored(at(i)) = IF i = 0 THEN s.startBit ELSE Below(d[i - 1])
  <2>1. CASE i = 0
    <3>1. at(i) = W - 1 - LinearStart(s)
      BY <1>1, <2>1
    <3> QED  BY <2>1, <3>1, StartMirrored
  <2>2. CASE i # 0
    <3>1. i - 1 \in 0 .. s.signalSize - 1 /\ at(i - 1) \in Bits /\ at(i - 1) # 0
          /\ at(i - 1) - 1 = at(i)
      BY <1>1, <2>2 DEF Bits
    <3>2. d[i - 1] = Mirrored(at(i - 1))
      BY <3>1
    <3> HIDE DEF at, d
    <3> QED  BY <2>2, <3>1, <3>2, BelowMirrored
  <2> QED  BY <2>1, <2>2
<1>3. Walks(s, d)
  BY <1>2 DEF Walks
<1> QED  BY <1>3

\* The bit a DBC names is the bit the code takes.
LEMMA PositionIsAddress ==
  ASSUME NEW s, Fits(s)
  PROVE  Position(s) = [k \in 0 .. s.signalSize - 1 |-> Address(s, k)]
<1>1. s.signalSize \in Nat /\ LinearStart(s) \in Nat /\ W \in Nat /\ s.startBit \in Nat
  BY SignalType, WidthType
<1> DEFINE down == CHOOSE d : Walks(s, d)
<1>2. Position(s) = [k \in 0 .. s.signalSize - 1 |->
                       IF s.byteOrder THEN down[s.signalSize - 1 - k] ELSE s.startBit + k]
  BY Zenon DEF Position, Walks
<1>3. ASSUME NEW k \in 0 .. s.signalSize - 1, s.byteOrder
      PROVE  down[s.signalSize - 1 - k] = Address(s, k)
  <2>1. Walks(s, down)
    BY <1>3, WalkExists
  <2>2. s.signalSize - 1 - k \in 0 .. s.signalSize - 1
        /\ W - 1 - LinearStart(s) - (s.signalSize - 1 - k) = k + (W - LinearStart(s) - s.signalSize)
    BY <1>1
  <2> HIDE DEF down
  <2>3. down[s.signalSize - 1 - k] = Mirrored(W - 1 - LinearStart(s) - (s.signalSize - 1 - k))
    BY <1>3, <2>1, <2>2, WalkIs
  <2> QED  BY <1>3, <2>2, <2>3 DEF Address
<1>4. ASSUME NEW k \in 0 .. s.signalSize - 1, ~s.byteOrder
      PROVE  s.startBit + k = Address(s, k)
  BY <1>1, <1>4 DEF Address
<1> HIDE DEF down
<1> QED  BY <1>2, <1>3, <1>4

\* The bits of a signal are at their addresses.
LEMMA OccupiedHasAddress ==
  ASSUME NEW s, Fits(s), NEW b \in Occupied(s)
  PROVE  b \in Range(Position(s))
<1>1. \E k \in 0 .. s.signalSize - 1 : b = Address(s, k)
  <2>1. CASE s.byteOrder
    <3> DEFINE n == W - LinearStart(s) - s.signalSize
               k == Mirrored(b) - n
    <3>1. b \in Bits /\ Mirrored(b) \in Shl(Mask(s.signalSize), n)
      BY <2>1 DEF Occupied, Placed, SwapBytes
    <3>2. k \in Bits /\ k < s.signalSize /\ Mirrored(b) \in Bits
      BY <3>1 DEF Shl, Mask
    <3>3. k \in 0 .. s.signalSize - 1 /\ k + n = Mirrored(b)
      BY <2>1, <3>2, SignalType, WidthType DEF Bits
    <3>4. Address(s, k) = Mirrored(k + n)
      BY <2>1 DEF Address
    <3> HIDE DEF k
    <3>5. Address(s, k) = b
      BY <3>1, <3>3, <3>4, MirroredTwice
    <3> QED  BY <3>3, <3>5
  <2>2. CASE ~s.byteOrder
    <3> DEFINE k == b - s.startBit
    <3>1. b \in Bits /\ k \in Bits /\ k < s.signalSize
      BY <2>2 DEF Occupied, Placed, Shl, Mask
    <3>2. k \in 0 .. s.signalSize - 1 /\ k + s.startBit = b
      BY <3>1, SignalType, WidthType DEF Bits
    <3>3. Address(s, k) = b
      BY <2>2, <3>2 DEF Address
    <3> QED  BY <3>2, <3>3
  <2> QED  BY <2>1, <2>2
<1>2. PICK k \in 0 .. s.signalSize - 1 : b = Address(s, k)
  BY <1>1
<1>3. k \in DOMAIN Position(s) /\ Position(s)[k] = b
  <2>1. Position(s) = [i \in 0 .. s.signalSize - 1 |-> Address(s, i)]
    BY PositionIsAddress
  <2> QED  BY <1>2, <2>1
<1> QED  BY <1>3 DEF Range

-----------------------------------------------------------------------------
(***************************************************************************)
(* The value of a signal.                                                  *)
(***************************************************************************)

\* The weights of the bits of a signal.
Weight(s) == [k \in Nat |-> IF s.valueType /\ k = s.signalSize - 1 THEN -(2 ^ k) ELSE 2 ^ k]

\* ... and so is the number the DBC gives a signal.
LEMMA MeaningIsSum ==
  ASSUME NEW s, Fits(s), NEW data
  PROVE  Meaning(s, data) = Sum(Weight(s), RawBits(s, data)) * s.factor + s.offset
<1> DEFINE ones == {k \in 0 .. s.signalSize - 1 : Position(s)[k] \in data}
           weight(k) == IF s.valueType /\ k = s.signalSize - 1 THEN -(2 ^ k) ELSE 2 ^ k
           Solves(g) == g = [T \in SUBSET ones |->
                               IF T = {} THEN 0 ELSE weight(Any(T)) + g[T \ {Any(T)}]]
           h == CHOOSE g : Solves(g)
<1>1. Meaning(s, data) = h[ones] * s.factor + s.offset
  BY DEF Meaning, MapThenSumSet, MapThenFoldSet, Any
<1>2. s.signalSize \in Nat /\ ones \in SUBSET Nat /\ IsFiniteSet(ones)
  <2>1. s.signalSize \in Nat
    BY SignalType
  <2>2. IsFiniteSet(0 .. s.signalSize - 1) /\ ones \subseteq 0 .. s.signalSize - 1
    BY <2>1, FS_Interval
  <2> QED  BY <2>1, <2>2, FS_Subset
<1>3. ones = RawBits(s, data)
  <2>1. \A k \in 0 .. s.signalSize - 1 : Position(s)[k] = Address(s, k)
    BY PositionIsAddress
  <2> QED  BY <2>1, ReadBits
<1> HIDE DEF ones
<1>4. \A T \in SUBSET ones : T # {} => Weight(s)[Any(T)] = weight(Any(T))
  BY <1>2, AnyOf DEF Weight
<1> HIDE DEF weight
<1>5. ASSUME NEW g PROVE Solves(g) <=> IsSum(g, Weight(s), ones)
  BY <1>4 DEF IsSum
<1>6. Solves(h)
  BY <1>2, <1>5, SumExists
<1> HIDE DEF h
<1>7. h[ones] = Sum(Weight(s), ones)
  BY <1>2, <1>5, <1>6, SumBySolution
<1> QED  BY <1>1, <1>3, <1>7

\* With the sign extended, the word is the number with the sign in the highest bit.
LEMMA SignedIsSum ==
  ASSUME NEW s, Fits(s), Representable(s), NEW data
  PROVE  RawValue(s, data) = Sum(Weight(s), RawBits(s, data))
<1> DEFINE n == s.signalSize
           raw == RawBits(s, data)
<1>1. n \in Nat /\ n \in 1 .. W /\ W \in Nat /\ n - 1 \in Nat /\ (n - 1) + 1 = n
  BY SignalType, WidthType
<1>2. raw \in SUBSET (0 .. n - 1)
  BY ReadBits
<1>3. \A T \in SUBSET (0 .. W - 1) : IsFiniteSet(T) /\ T \in SUBSET Nat /\ Sum(Power, T) \in Int
                                     /\ Unsigned(T) = Sum(Power, T)
  <2> TAKE T \in SUBSET (0 .. W - 1)
  <2>1. IsFiniteSet(T) /\ T \in SUBSET Nat
    <3>1. 0 \in Int /\ W - 1 \in Int /\ T \in SUBSET (0 .. W - 1)
      BY <1>1
    <3>2. IsFiniteSet(T)
      BY <3>1, PartOfInterval
    <3> QED  BY <3>1, <3>2
  <2>2. \A k \in T : Power[k] \in Int
    BY <2>1, PowerType DEF Power
  <2> QED  BY <2>1, <2>2, SumType, UnsignedIsSum
<1> HIDE DEF raw
<1>4. \A T \in SUBSET raw : T \in SUBSET (0 .. W - 1)
  BY <1>1, <1>2
<1>5. CASE ~s.valueType
  <2>1. RawValue(s, data) = Signed(raw) /\ n < W
    BY <1>5 DEF RawValue, Representable, raw
  <2>2. W - 1 \notin raw
    BY <1>1, <1>2, <2>1
  <2>3. RawValue(s, data) = Sum(Power, raw)
    BY <1>3, <1>4, <2>1, <2>2 DEF Signed
  <2>4. \A k \in raw : Weight(s)[k] = Power[k]
    BY <1>2, <1>5 DEF Weight, Power
  <2> QED  BY <1>3, <1>4, <2>3, <2>4, SumSame DEF raw
<1>6. CASE s.valueType /\ n - 1 \notin raw
  <2>1. RawValue(s, data) = Signed(raw)
    <3>1. RawValue(s, data) = Signed(Sar(Shl(raw, W - n), W - n))
      BY <1>6 DEF RawValue, raw
    <3> QED  BY <1>1, <1>2, <1>6, <3>1, SignExtended
  <2>2. W - 1 \notin raw
    BY <1>1, <1>2, <1>6
  <2>3. RawValue(s, data) = Sum(Power, raw)
    BY <1>3, <1>4, <2>1, <2>2 DEF Signed
  <2>4. \A k \in raw : Weight(s)[k] = Power[k]
    BY <1>2, <1>6 DEF Weight, Power
  <2> QED  BY <1>3, <1>4, <2>3, <2>4, SumSame DEF raw
<1>7. CASE s.valueType /\ n - 1 \in raw
  <2> DEFINE rest == raw \ {n - 1}
             word == raw \union (n .. W - 1)
  <2>1. RawValue(s, data) = Signed(word)
    <3>1. RawValue(s, data) = Signed(Sar(Shl(raw, W - n), W - n))
      BY <1>7 DEF RawValue, raw
    <3> QED  BY <1>1, <1>2, <1>7, <3>1, SignExtended
  <2>2. W - 1 \in word /\ word \in SUBSET (0 .. W - 1)
    <3>1. W - 1 \in word
      <4>1. CASE n = W
        BY <1>7, <4>1
      <4>2. CASE n < W
        <5>1. W - 1 \in n .. W - 1
          BY <1>1, <4>2
        <5> QED  BY <5>1
      <4> QED  BY <1>1, <4>1, <4>2
    <3>2. \A b \in n .. W - 1 : b \in 0 .. W - 1
      BY <1>1
    <3>3. \A b \in raw : b \in 0 .. W - 1
      BY <1>1, <1>2
    <3> QED  BY <3>1, <3>2, <3>3
  <2>3. Unsigned(word) = Sum(Power, raw) + 2 ^ W - 2 ^ n
    <3>1. Unsigned(word) = Sum(Power, word)
      BY <1>3, <2>2
    <3>2. Sum(Power, word) = Sum(Power, raw) + 2 ^ W - 2 ^ n
      BY <1>1, <1>2, HighBits
    <3> QED  BY <3>1, <3>2
  <2>4. RawValue(s, data) = (Sum(Power, raw) + 2 ^ W - 2 ^ n) - 2 ^ W
    BY <2>1, <2>2, <2>3 DEF Signed
  <2>5. rest \in SUBSET raw /\ IsFiniteSet(raw) /\ IsFiniteSet(rest) /\ Sum(Power, rest) \in Int
    BY <1>3, <1>4
  <2>6. \A k \in rest : Weight(s)[k] = Power[k]
    BY <1>2 DEF Weight, Power
  <2>7. Sum(Weight(s), rest) = Sum(Power, rest)
    BY <2>5, <2>6, SumSame
  <2>8. \A k \in raw : Weight(s)[k] \in Int /\ Power[k] \in Int
    <3>1. \A k \in raw : k \in Nat /\ 2 ^ k \in Nat
      BY <1>2, PowerType
    <3> QED  BY <3>1 DEF Weight, Power
  <2>9. Weight(s)[n - 1] = -(2 ^ (n - 1)) /\ Power[n - 1] = 2 ^ (n - 1)
    BY <1>1, <1>7 DEF Weight, Power
  <2> HIDE DEF n, word
  <2>10. Sum(Weight(s), raw) = -(2 ^ (n - 1)) + Sum(Power, rest)
    <3>1. Sum(Weight(s), raw) = Weight(s)[n - 1] + Sum(Weight(s), raw \ {n - 1})
      BY <1>7, <2>5, <2>8, SumRemove
    <3> QED  BY <2>7, <2>9, <3>1
  <2>11. Sum(Power, raw) = 2 ^ (n - 1) + Sum(Power, rest)
    <3>1. Sum(Power, raw) = Power[n - 1] + Sum(Power, raw \ {n - 1})
      BY <1>7, <2>5, <2>8, SumRemove
    <3> QED  BY <2>9, <3>1
  <2>12. 2 ^ n = 2 ^ (n - 1) + 2 ^ (n - 1) /\ 2 ^ (n - 1) \in Nat /\ 2 ^ W \in Nat
    <3>1. 2 ^ ((n - 1) + 1) = 2 ^ (n - 1) + 2 ^ (n - 1)
      BY <1>1, PowerDoubles
    <3> QED  BY <1>1, <3>1, PowerType
  <2> HIDE DEF rest
  <2>13. RawValue(s, data) = Sum(Weight(s), raw)
    BY <2>4, <2>5, <2>10, <2>11, <2>12
  <2> QED  BY <2>13 DEF raw
<1> QED  BY <1>5, <1>6, <1>7

\* The code reads of a signal what the DBC says its bits mean.
LEMMA ReadsMeaning ==
  ASSUME NEW s, Fits(s), Representable(s), NEW data
  PROVE  ParseReceivedSignal(s, data) = Meaning(s, data)
BY MeaningIsSum, SignedIsSum DEF ParseReceivedSignal

\* A number in the range of the bits of a signal is what its bits say.
LEMMA DigitsMeanNumber ==
  ASSUME NEW s, Fits(s), NEW m \in RawMin(s) .. RawMax(s)
  PROVE  Sum(Weight(s), Digits(m, s.signalSize)) = m
<1> DEFINE n == s.signalSize
           j == n - 1
           p == 2 ^ j
           low == Digits(m, j)
<1>1. n \in Nat /\ j \in Nat /\ j + 1 = n
  BY SignalType
<1>2. p \in Nat \ {0} /\ 2 ^ n \in Nat \ {0}
  BY <1>1, PowerIsPositive
<1>3. m \in Int
  BY <1>2 DEF RawMin, RawMax
<1>4. CASE ~s.valueType
  <2>1. m \in 0 .. 2 ^ n - 1
    BY <1>4 DEF RawMin, RawMax
  <2>2. \A k \in Digits(m, n) : Weight(s)[k] = Power[k]
    BY <1>1, <1>3, <1>4, DigitsType DEF Weight, Power
  <2>3. Sum(Weight(s), Digits(m, n)) = Sum(Power, Digits(m, n))
    BY <1>1, <1>3, <2>2, DigitsType, SumSame
  <2>4. m % 2 ^ n = m
    <3>1. 0 * 2 ^ n + m = m
      BY <1>2, <2>1
    <3>2. 0 \in Int
      OBVIOUS
    <3>3. (0 * 2 ^ n + m) % 2 ^ n = m
      BY <1>2, <2>1, <3>2, DivisionUnique
    <3> QED  BY <3>1, <3>3
  <2> QED  BY <1>1, <1>3, <2>3, <2>4, LowDigits
<1>5. CASE s.valueType
  <2>1. m \in (-p) .. p - 1
    BY <1>5 DEF RawMin, RawMax
  <2>2. \A k \in low : Weight(s)[k] = Power[k]
    <3>1. \A k \in 0 .. j - 1 : k \in Nat /\ k # n - 1
      BY <1>1
    <3>2. \A k \in low : k \in 0 .. j - 1
      BY DEF Digits
    <3> QED  BY <3>1, <3>2 DEF Weight, Power
  <2>3. Sum(Weight(s), low) = m % p
    <3>1. Sum(Weight(s), low) = Sum(Power, low)
      <4> HIDE DEF j
      <4> QED  BY <1>1, <1>3, <2>2, DigitsType, SumSame
    <3>2. Sum(Power, low) = m % p
      BY <1>1, <1>3, LowDigits
    <3> QED  BY <3>1, <3>2
  <2>4. CASE m >= 0
    <3>1. m \div p = 0 /\ m % p = m
      <4>1. 0 * p + m = m /\ 0 \in Int /\ m \in 0 .. p - 1
        BY <1>2, <1>3, <2>1, <2>4
      <4>2. (0 * p + m) \div p = 0 /\ (0 * p + m) % p = m
        <5> HIDE DEF p
        <5> QED  BY <1>2, <4>1, DivisionUnique
      <4> QED  BY <4>1, <4>2
    <3>2. Digits(m, n) = low
      <4>1. (m \div 2 ^ j) % 2 # 1
        BY <3>1
      <4> QED  BY <1>1, <1>3, <4>1, MoreDigits
    <3> QED  BY <2>3, <3>1, <3>2
  <2>5. CASE m < 0
    <3>1. m \div p = -1 /\ m % p = m + p
      <4>1. (-1) * p + (m + p) = m /\ -1 \in Int /\ m + p \in 0 .. p - 1
        BY <1>2, <1>3, <2>1, <2>5
      <4>2. ((-1) * p + (m + p)) \div p = -1 /\ ((-1) * p + (m + p)) % p = m + p
        <5> HIDE DEF p
        <5> QED  BY <1>2, <4>1, DivisionUnique
      <4> QED  BY <4>1, <4>2
    <3>2. Digits(m, n) = low \union {j}
      <4>1. (m \div 2 ^ j) % 2 = 1
        BY <3>1
      <4> QED  BY <1>1, <1>3, <4>1, MoreDigits
    <3>3. (low \union {j}) \ {j} = low
      BY <1>1 DEF Digits
    <3>4. Weight(s)[j] = -p
      BY <1>1, <1>5 DEF Weight
    <3>5. \A k \in Digits(m, n) : Weight(s)[k] \in Int
      <4>1. \A k \in Nat : Weight(s)[k] \in Int
        BY PowerType DEF Weight
      <4> QED  BY <1>1, <1>3, <4>1, DigitsType
    <3>6. Sum(Weight(s), Digits(m, n)) = Weight(s)[j] + Sum(Weight(s), Digits(m, n) \ {j})
      <4>1. IsFiniteSet(Digits(m, n)) /\ j \in Digits(m, n)
        BY <1>1, <1>3, <3>2, DigitsType
      <4> HIDE DEF j, n
      <4> QED  BY <3>5, <4>1, SumRemove
    <3>7. Sum(Weight(s), Digits(m, n)) = -p + (m + p)
      BY <2>3, <3>1, <3>2, <3>3, <3>4, <3>6
    <3> HIDE DEF p
    <3> QED  BY <1>2, <1>3, <3>7
  <2> QED  BY <1>3, <2>4, <2>5
<1> QED  BY <1>4, <1>5

\* Rounding is off by half a step at most.
LEMMA RoundedIsNear ==
  ASSUME NEW p \in Int, NEW q \in Int \ {0}
  PROVE  /\ Rounded(p, q) \in Int
         /\ Rounded(p, q) * q \in Int
         /\ 2 * Magnitude(Rounded(p, q) * q - p) <= Magnitude(q)
<1> DEFINE a == Magnitude(p)
           b == Magnitude(q)
           m == (2 * a + b) \div (2 * b)
           r == (2 * a + b) % (2 * b)
<1>1. a \in Nat /\ b \in Nat \ {0}
  BY DEF Magnitude
<1>2. m \in Int /\ r \in 0 .. 2 * b - 1 /\ 2 * a + b = m * (2 * b) + r
  <2>1. 2 * b \in Nat \ {0} /\ 2 * a + b \in Int
    BY <1>1
  <2> HIDE DEF a, b
  <2> QED  BY <2>1, DivisionOf
<1>3. Rounded(p, q) = IF (p < 0) = (q < 0) THEN m ELSE -m
  BY DEF Rounded
<1>4. m * b \in Int /\ m * (2 * b) = 2 * (m * b)
  <2>1. (b + b) * m = b * m + b * m /\ b * m = m * b /\ b * m \in Int /\ (b + b) * m = m * (b + b)
    <3>1. b \in Int /\ b + b \in Int
      BY <1>1
    <3> HIDE DEF b, m
    <3> QED  BY <1>2, <3>1, Distributes
  <2>2. 2 * b = b + b
    BY <1>1
  <2> HIDE DEF b, m
  <2> QED  BY <2>1, <2>2
<1>5. 2 * (m * b) - 2 * a = b - r
  <2> HIDE DEF a, b, m, r
  <2> QED  BY <1>1, <1>2, <1>4
<1>6. 2 * Magnitude(m * b - a) <= b
  <2> HIDE DEF a, b, m, r
  <2> QED  BY <1>1, <1>2, <1>4, <1>5 DEF Magnitude
<1>7. m * q = (IF q < 0 THEN -(m * b) ELSE m * b) /\ (-m) * q = (IF q < 0 THEN m * b ELSE -(m * b))
  <2>1. q = IF q < 0 THEN -b ELSE b
    BY DEF Magnitude
  <2> HIDE DEF b, m
  <2>2. m * (-b) = -(m * b) /\ (-m) * (-b) = m * b /\ (-m) * b = -(m * b)
    BY <1>1, <1>2, Z3
  <2> QED  BY <2>1, <2>2
<1>8. p = IF p < 0 THEN -a ELSE a
  BY DEF Magnitude
<1>9. Rounded(p, q) * q - p = m * b - a \/ Rounded(p, q) * q - p = -(m * b - a)
  <2> HIDE DEF a, b, m
  <2>1. CASE (p < 0) = (q < 0)
    <3>1. Rounded(p, q) * q = m * q
      BY <1>3, <2>1
    <3> QED  BY <1>1, <1>4, <1>7, <1>8, <2>1, <3>1
  <2>2. CASE (p < 0) # (q < 0)
    <3>1. Rounded(p, q) * q = (-m) * q
      BY <1>3, <2>2
    <3> QED  BY <1>1, <1>4, <1>7, <1>8, <2>2, <3>1
  <2> QED  BY <2>1, <2>2
<1>10. Rounded(p, q) * q \in Int
  <2> HIDE DEF b, m
  <2> QED  BY <1>3, <1>4, <1>7
<1>11. Magnitude(m * b - a) = Magnitude(-(m * b - a))
  <2> HIDE DEF a, b, m
  <2> QED  BY <1>1, <1>4 DEF Magnitude
<1>12. Rounded(p, q) \in Int
  BY <1>2, <1>3
<1>13. 2 * Magnitude(Rounded(p, q) * q - p) <= b
  <2> HIDE DEF a, b, m
  <2> QED  BY <1>6, <1>9, <1>11
<1> QED  BY <1>10, <1>12, <1>13

\* What is read of the bits that were put into a frame for a value is close to it.
LEMMA EncodedIsNear ==
  ASSUME NEW s, WellFormed(s), NEW value \in Int, NEW data,
         RawBits(s, data) = SentBits(s, value)
  PROVE  2 * Magnitude(Meaning(s, data) - Clamped(s, value)) <= Magnitude(s.factor)
<1> DEFINE v == Clamped(s, value)
           m == Rounded(v - s.offset, s.factor)
<1>1. Fits(s) /\ s.factor \in Int \ {0} /\ s.offset \in Int
  BY DEF WellFormed
<1>2. v \in s.minimum .. s.maximum /\ v \in Int
  BY DEF WellFormed, Clamped, Least, Greatest
<1>3. m \in RawMin(s) .. RawMax(s)
  <2> HIDE DEF v
  <2> QED  BY <1>2 DEF WellFormed
<1>4. v - s.offset \in Int
  BY <1>1, <1>2
<1> HIDE DEF v
<1>5. m \in Int /\ m * s.factor \in Int
      /\ 2 * Magnitude(m * s.factor - (v - s.offset)) <= Magnitude(s.factor)
  BY <1>1, <1>4, RoundedIsNear
<1>6. SentBits(s, value) = ToWord(m) \intersect Mask(s.signalSize)
  BY DEF SentBits, v
<1> HIDE DEF m
<1>7. SentBits(s, value) = Digits(m, s.signalSize)
  BY <1>1, <1>5, <1>6, SignalType, MaskedIsDigits
<1>8. Meaning(s, data) = m * s.factor + s.offset
  BY <1>1, <1>3, <1>7, MeaningIsSum, DigitsMeanNumber
<1>9. Meaning(s, data) - v = m * s.factor - (v - s.offset)
  BY <1>1, <1>2, <1>5, <1>8
<1> QED  BY <1>5, <1>9 DEF v

-----------------------------------------------------------------------------
(***************************************************************************)
(* A message.                                                              *)
(***************************************************************************)

\* A message of a correct DBC.
WellFormedMessage(message) ==
  LET signals == message.signals
      multiplexors == {n \in DOMAIN signals : signals[n].multiplexer}
  IN  /\ message.messageSize \in Nat
      /\ \A n \in DOMAIN signals : WellFormed(signals[n])
      /\ \A n, m \in multiplexors : n = m
      /\ \A n \in multiplexors :
           signals[n].multiplexedBy = NotMultiplexed /\ Representable(signals[n])

\* What is published of a frame is what the message says.
LEMMA ParsedMeans ==
  ASSUME NEW message, WellFormedMessage(message), NEW data
  PROVE  LET signals == message.signals
             values == Parsed(signals, data)
         IN  /\ DOMAIN values =
                  {n \in DOMAIN signals :
                     \/ signals[n].multiplexedBy = NotMultiplexed
                     \/ \E m \in DOMAIN signals :
                          /\ signals[m].multiplexer
                          /\ Meaning(signals[m], data) = signals[n].multiplexedBy}
             /\ \A n \in DOMAIN values :
                  Representable(signals[n]) => values[n] = Meaning(signals[n], data)
<1> DEFINE signals == message.signals
           selector == MultiplexorValue(signals, data)
           selected == {n \in DOMAIN signals \ Plain(signals) : signals[n].multiplexedBy = selector}
           values == Parsed(signals, data)
<1>1. /\ \A n \in DOMAIN signals : Fits(signals[n])
      /\ \A n, m \in DOMAIN signals : signals[n].multiplexer /\ signals[m].multiplexer => n = m
      /\ \A n \in DOMAIN signals :
           signals[n].multiplexer => n \in Plain(signals) /\ Representable(signals[n])
  BY DEF WellFormedMessage, WellFormed, Plain
<1>2. values = [n \in Plain(signals) \union selected |-> ParseReceivedSignal(signals[n], data)]
  BY DEF Parsed
<1>3. Plain(signals) = {n \in DOMAIN signals : signals[n].multiplexedBy = NotMultiplexed}
  BY DEF Plain
<1> HIDE DEF signals, selector, selected, values
<1>4. \A n \in DOMAIN values : n \in DOMAIN signals /\ values[n] = ParseReceivedSignal(signals[n], data)
  BY <1>2, <1>3 DEF selected
<1>5. \A n \in DOMAIN values : Representable(signals[n]) => values[n] = Meaning(signals[n], data)
  BY <1>1, <1>4, ReadsMeaning
<1>6. \A n \in DOMAIN signals \ Plain(signals) :
        signals[n].multiplexedBy = selector
          <=> \E m \in DOMAIN signals : /\ signals[m].multiplexer
                                        /\ Meaning(signals[m], data) = signals[n].multiplexedBy
  <2>1. CASE \E m \in DOMAIN signals : signals[m].multiplexer
    <3>1. PICK m \in DOMAIN signals : signals[m].multiplexer
      BY <2>1
    <3>2. m \in Plain(signals) /\ Fits(signals[m]) /\ Representable(signals[m])
      BY <1>1, <3>1
    <3>3. (CHOOSE n \in Plain(signals) : signals[n].multiplexer) = m
      <4>1. \A n \in Plain(signals) : signals[n].multiplexer => n = m
        BY <1>1, <1>3, <3>1
      <4> QED  BY <3>1, <3>2, <4>1
    <3>4. selector = ParseReceivedSignal(signals[m], data)
      BY <3>1, <3>2, <3>3 DEF selector, MultiplexorValue
    <3>5. selector = Meaning(signals[m], data)
      BY <3>2, <3>4, ReadsMeaning
    <3> QED  BY <1>1, <3>1, <3>5
  <2>2. CASE \A m \in DOMAIN signals : ~signals[m].multiplexer
    <3>1. selector = NotMultiplexed
      BY <1>3, <2>2 DEF selector, MultiplexorValue, NotMultiplexed
    <3> QED  BY <1>3, <2>2, <3>1
  <2> QED  BY <2>1, <2>2
<1>7. DOMAIN values = {n \in DOMAIN signals :
                         \/ signals[n].multiplexedBy = NotMultiplexed
                         \/ \E m \in DOMAIN signals :
                              /\ signals[m].multiplexer
                              /\ Meaning(signals[m], data) = signals[n].multiplexedBy}
  BY <1>2, <1>3, <1>6 DEF selected
<1> QED  BY <1>5, <1>7 DEF values, signals

\* What is encoded is the data of one frame.
LEMMA EncodedIsWord ==
  ASSUME NEW signals, NEW wanted
  PROVE  Encoded(signals, wanted) \in Word
BY DEF Encoded, Placed, SwapBytes, Shl, Word

\* A signal that shares no bit with the others asked for keeps the bits it was given.
LEMMA EncodedIsRead ==
  ASSUME NEW signals, NEW wanted,
         \A m \in DOMAIN signals : Fits(signals[m]),
         NEW n \in DOMAIN wanted \intersect DOMAIN signals,
         \A m \in (DOMAIN wanted \intersect DOMAIN signals) \ {n} :
           Occupied(signals[n]) \intersect Occupied(signals[m]) = {}
  PROVE  RawBits(signals[n], Encoded(signals, wanted)) = SentBits(signals[n], wanted[n])
<1> DEFINE s == signals[n]
           D == DOMAIN wanted \intersect DOMAIN signals
           raw(m) == SentBits(signals[m], wanted[m])
           data == Encoded(signals, wanted)
<1>1. Fits(s)
  OBVIOUS
<1>2. \A m \in D : raw(m) \subseteq Mask(signals[m].signalSize)
  BY DEF SentBits
<1>3. data = UNION {Placed(signals[m], raw(m)) : m \in D}
  BY DEF Encoded
<1>4. ASSUME NEW k \in 0 .. s.signalSize - 1
      PROVE  Address(s, k) \in data <=> k \in raw(n)
  <2>1. k \in Mask(s.signalSize)
    BY <1>1, SignalType, WidthType DEF Mask, Bits
  <2>2. Address(s, k) \in Occupied(s)
    BY <1>1, <2>1, PlacedBits DEF Occupied
  <2>3. ASSUME NEW m \in D \ {n} PROVE Address(s, k) \notin Placed(signals[m], raw(m))
    <3>1. Placed(signals[m], raw(m)) \subseteq Occupied(signals[m])
      BY <1>2, PlacedIsOccupied
    <3> QED  BY <2>2, <3>1
  <2>4. Address(s, k) \in data <=> Address(s, k) \in Placed(s, raw(n))
    BY <1>3, <2>3
  <2> QED  BY <1>1, <2>4, PlacedBits
<1>5. raw(n) \subseteq 0 .. s.signalSize - 1
  BY <1>1, <1>2, SignalType, WidthType DEF Mask, Bits
<1>6. RawBits(s, data) = {k \in 0 .. s.signalSize - 1 : Address(s, k) \in data}
  BY <1>1, ReadBits
<1> HIDE DEF s, raw, data
<1>7. RawBits(s, data) = raw(n)
  BY <1>4, <1>5, <1>6
<1> QED  BY <1>7 DEF s, raw, data

\* Every bit that is encoded belongs to a signal that was asked for.
LEMMA EncodedInSignals ==
  ASSUME NEW signals, NEW wanted, \A n \in DOMAIN signals : Fits(signals[n])
  PROVE  Encoded(signals, wanted)
           \subseteq UNION {Range(Position(signals[n])) : n \in DOMAIN wanted \intersect DOMAIN signals}
<1> SUFFICES ASSUME NEW n \in DOMAIN wanted \intersect DOMAIN signals,
                    NEW b \in Placed(signals[n], SentBits(signals[n], wanted[n]))
             PROVE  b \in Range(Position(signals[n]))
  BY DEF Encoded
<1>1. SentBits(signals[n], wanted[n]) \subseteq Mask(signals[n].signalSize)
  BY DEF SentBits
<1>2. b \in Occupied(signals[n])
  BY <1>1, PlacedIsOccupied
<1> QED  BY <1>2, OccupiedHasAddress

\* What is encoded for a signal that shares no bit with the others is close to what was asked.
LEMMA AloneIsNear ==
  ASSUME NEW signals, NEW wanted, NEW n, Alone(signals, wanted, n),
         \A m \in DOMAIN signals : WellFormed(signals[m]), wanted[n] \in Int
  PROVE  2 * Magnitude(Meaning(signals[n], Encoded(signals, wanted))
                         - Clamped(signals[n], wanted[n]))
           <= Magnitude(signals[n].factor)
<1>1. \A m \in DOMAIN signals : Fits(signals[m])
  BY DEF WellFormed
<1>2. n \in DOMAIN wanted \intersect DOMAIN signals
  BY DEF Alone
<1>3. ASSUME NEW m \in (DOMAIN wanted \intersect DOMAIN signals) \ {n}
      PROVE  Occupied(signals[n]) \intersect Occupied(signals[m]) = {}
  <2>1. Range(Position(signals[n])) \intersect Range(Position(signals[m])) = {}
    BY DEF Alone, Overlap
  <2>2. /\ \A b \in Occupied(signals[n]) : b \in Range(Position(signals[n]))
        /\ \A b \in Occupied(signals[m]) : b \in Range(Position(signals[m]))
    BY <1>1, <1>2, OccupiedHasAddress
  <2> QED  BY <2>1, <2>2
<1>4. RawBits(signals[n], Encoded(signals, wanted)) = SentBits(signals[n], wanted[n])
  BY <1>1, <1>2, <1>3, EncodedIsRead
<1>5. WellFormed(signals[n])
  BY <1>2
<1> QED  BY <1>4, <1>5, EncodedIsNear

-----------------------------------------------------------------------------
(***************************************************************************)
(* The handler.                                                            *)
(***************************************************************************)

\* The table is that of the DBC that was last handed over, and what became of the last frame
\* or request is what the table makes of it.
TableIsDbc ==
  /\ DOMAIN dbcMessages = Stored(dbc)
  /\ \A id \in Stored(dbc) : dbcMessages[id] = Definition(dbc, id)

ReceivedByTable ==
  last.kind = "received" =>
    /\ last.len \in Lengths
    /\ last.published = IF Accepts(last.id, last.len)
                          THEN {Parsed(dbcMessages[last.id].signals, last.data)}
                          ELSE {}

EncodedByTable ==
  last.kind = "encoded" =>
    /\ last.asked \in Requests
    /\ \A frame \in last.written :
         /\ last.id \in DOMAIN dbcMessages
         /\ frame.data = Encoded(dbcMessages[last.id].signals, last.asked)

Inv == TypeOK /\ TableIsDbc /\ ReceivedByTable /\ EncodedByTable

LEMMA InitEstablishes == Init => Inv
<1> SUFFICES ASSUME Init PROVE Inv
  OBVIOUS
<1>1. Stored(<<>>) = {} /\ DOMAIN <<>> = {}
  BY DEF Stored
<1>2. TypeOK
  BY DEF Init, TypeOK, Nothing
<1>3. TableIsDbc
  BY <1>1 DEF Init, TableIsDbc
<1>4. ReceivedByTable /\ EncodedByTable
  BY DEF Init, ReceivedByTable, EncodedByTable, Nothing
<1> QED  BY <1>2, <1>3, <1>4 DEF Inv

LEMMA NewDbcPreserves ==
  ASSUME Inv, NEW config \in Configs, HandleNewDbc(config)
  PROVE  Inv'
<1>1. DOMAIN dbcMessages' = Stored(config) /\ last' = Nothing /\ dbc' = config
  BY DEF HandleNewDbc, Loaded
<1>2. TypeOK'
  BY <1>1 DEF TypeOK, Stored, Nothing
<1>3. TableIsDbc'
  <2>1. \A id \in Stored(config) : dbcMessages'[id] = Definition(config, id)
    BY DEF HandleNewDbc, Loaded
  <2> QED  BY <1>1, <2>1 DEF TableIsDbc
<1>4. ReceivedByTable' /\ EncodedByTable'
  BY <1>1 DEF ReceivedByTable, EncodedByTable, Nothing
<1> QED  BY <1>2, <1>3, <1>4 DEF Inv

LEMMA ReceivePreserves ==
  ASSUME Inv, NEW id, NEW len \in Lengths, NEW data, ParseReceivedMessage(id, len, data)
  PROVE  Inv'
<1>1. last'.kind = "received" /\ UNCHANGED <<dbcMessages, dbc>>
  BY DEF ParseReceivedMessage
<1>2. TypeOK' /\ TableIsDbc' /\ EncodedByTable'
  BY <1>1 DEF Inv, TypeOK, TableIsDbc, EncodedByTable
<1>3. /\ last'.id = id /\ last'.len = len /\ last'.data = data
      /\ last'.published = IF Accepts(id, len) THEN {Parsed(dbcMessages[id].signals, data)} ELSE {}
  BY DEF ParseReceivedMessage
<1>4. ReceivedByTable'
  BY <1>1, <1>3 DEF ReceivedByTable, Accepts
<1> QED  BY <1>2, <1>4 DEF Inv

LEMMA EncodePreserves ==
  ASSUME Inv, NEW id, NEW wanted \in Requests, HandleEncodeMessage(id, wanted)
  PROVE  Inv'
<1>1. last'.kind = "encoded" /\ last'.id = id /\ last'.asked = wanted /\ UNCHANGED <<dbcMessages, dbc>>
  BY DEF HandleEncodeMessage
<1>2. \A frame \in last'.written :
        id \in DOMAIN dbcMessages /\ frame.data = Encoded(dbcMessages[id].signals, wanted)
  BY DEF HandleEncodeMessage
<1>3. TypeOK'
  BY <1>1, <1>2, EncodedIsWord DEF Inv, TypeOK
<1>4. TableIsDbc' /\ ReceivedByTable'
  BY <1>1 DEF Inv, TableIsDbc, ReceivedByTable
<1>5. EncodedByTable'
  BY <1>1, <1>2 DEF EncodedByTable
<1> QED  BY <1>3, <1>4, <1>5 DEF Inv

LEMMA NextPreserves == Inv /\ [Next]_vars => Inv'
<1> SUFFICES ASSUME Inv, [Next]_vars PROVE Inv'
  OBVIOUS
<1>1. ASSUME NEW config \in Configs, HandleNewDbc(config) PROVE Inv'
  BY <1>1, NewDbcPreserves
<1>2. ASSUME NEW id \in Ids, NEW len \in Lengths, NEW data \in Word,
             ParseReceivedMessage(id, len, data)
      PROVE  Inv'
  BY <1>2, ReceivePreserves
<1>3. ASSUME NEW id \in Ids, NEW wanted \in Requests, HandleEncodeMessage(id, wanted) PROVE Inv'
  BY <1>3, EncodePreserves
<1>4. CASE UNCHANGED vars
  BY <1>4 DEF vars, Inv, TypeOK, TableIsDbc, ReceivedByTable, EncodedByTable, Accepts
<1> QED  BY <1>1, <1>2, <1>3, <1>4 DEF Next

LEMMA InvHolds == Spec => []Inv
BY InitEstablishes, NextPreserves, PTL DEF Spec

-----------------------------------------------------------------------------
(***************************************************************************)
(* The DBC in force.                                                       *)
(***************************************************************************)

\* The messages of the DBC in force are those of a correct DBC.
LEMMA DbcIsWellFormed ==
  ASSUME dbc \in Configs \union {<<>>}, NEW id \in Stored(dbc)
  PROVE  WellFormedMessage(Definition(dbc, id))
<1>1. Stored(<<>>) = {}
  BY DEF Stored
<1>2. dbc \in Configs
  BY <1>1
<1> QED  BY <1>2, ConfigAssumption DEF WellFormedMessage

LEMMA TableIsWellFormed ==
  ASSUME Inv, NEW id \in DOMAIN dbcMessages
  PROVE  WellFormedMessage(dbcMessages[id])
<1>1. id \in Stored(dbc) /\ dbcMessages[id] = Definition(dbc, id)
  BY DEF Inv, TableIsDbc
<1> QED  BY <1>1, DbcIsWellFormed DEF Inv, TypeOK

\* What was published is what this DBC says.
LEMMA ReceivedMeans == Inv => ReceivedIsWhatDbcSays
<1> SUFFICES ASSUME Inv, TypeOK, TableIsDbc, ReceivedByTable, last.kind = "received"
             PROVE  IF ~Described(last.id) \/ last.len < Definition(dbc, last.id).messageSize
                      THEN last.published = {}
                      ELSE LET signals == Signals(last.id)
                               chosen(n) ==
                                 \/ signals[n].multiplexedBy = NotMultiplexed
                                 \/ \E m \in DOMAIN signals :
                                      /\ signals[m].multiplexer
                                      /\ Meaning(signals[m], last.data) = signals[n].multiplexedBy
                           IN  \E values \in last.published :
                                 /\ last.published = {values}
                                 /\ DOMAIN values = {n \in DOMAIN signals : chosen(n)}
                                 /\ \A n \in DOMAIN values :
                                      Representable(signals[n]) =>
                                        values[n] = Meaning(signals[n], last.data)
  BY DEF Inv, ReceivedIsWhatDbcSays
<1>1. CASE ~Described(last.id)
  <2>1. ~Accepts(last.id, last.len)
    BY <1>1 DEF Accepts, TableIsDbc, Described
  <2> QED  BY <1>1, <2>1 DEF ReceivedByTable
<1>2. CASE Described(last.id)
  <2> DEFINE message == Definition(dbc, last.id)
  <2>1. dbcMessages[last.id] = message /\ last.id \in DOMAIN dbcMessages /\ last.id < TableSize
    BY <1>2, FrameAssumption DEF TableIsDbc, Described, Stored
  <2>2. WellFormedMessage(message)
    BY <1>2, DbcIsWellFormed DEF TypeOK, Described
  <2>3. message.messageSize \in Nat /\ last.len \in Nat
    BY <2>2, FrameAssumption DEF WellFormedMessage, ReceivedByTable
  <2>4. Accepts(last.id, last.len) <=> ~(last.len < message.messageSize)
    BY <2>1, <2>3 DEF Accepts
  <2>5. CASE last.len < message.messageSize
    BY <2>4, <2>5 DEF ReceivedByTable
  <2>6. CASE ~(last.len < message.messageSize)
    <3>1. last.published = {Parsed(message.signals, last.data)}
      BY <2>1, <2>4, <2>6 DEF ReceivedByTable
    <3> HIDE DEF message
    <3>2. Signals(last.id) = message.signals
      BY DEF Signals, message
    <3>3. PICK values : values = Parsed(message.signals, last.data)
      OBVIOUS
    <3>4. /\ DOMAIN values =
               {n \in DOMAIN message.signals :
                  \/ message.signals[n].multiplexedBy = NotMultiplexed
                  \/ \E m \in DOMAIN message.signals :
                       /\ message.signals[m].multiplexer
                       /\ Meaning(message.signals[m], last.data)
                            = message.signals[n].multiplexedBy}
          /\ \A n \in DOMAIN values :
               Representable(message.signals[n]) =>
                 values[n] = Meaning(message.signals[n], last.data)
      <4>1. LET v == Parsed(message.signals, last.data)
            IN  /\ DOMAIN v =
                     {n \in DOMAIN message.signals :
                        \/ message.signals[n].multiplexedBy = NotMultiplexed
                        \/ \E m \in DOMAIN message.signals :
                             /\ message.signals[m].multiplexer
                             /\ Meaning(message.signals[m], last.data)
                                  = message.signals[n].multiplexedBy}
                /\ \A n \in DOMAIN v :
                     Representable(message.signals[n]) =>
                       v[n] = Meaning(message.signals[n], last.data)
        BY <2>2, ParsedMeans, Zenon
      <4> QED  BY <3>3, <4>1, Zenon
    <3>5. values \in last.published /\ last.published = {values}
      BY <3>1, <3>3
    <3> QED  BY <1>2, <2>6, <3>2, <3>4, <3>5, ZenonT(60) DEF message
  <2> QED  BY <2>5, <2>6
<1> QED  BY <1>1, <1>2

\* What was written means what was asked for.
LEMMA EncodedMeans == Inv => EncodedMeansAsked
<1> SUFFICES ASSUME Inv, TypeOK, TableIsDbc, EncodedByTable, last.kind = "encoded",
                    NEW frame \in last.written
             PROVE  LET signals == Signals(last.id)
                        names   == DOMAIN last.asked \intersect DOMAIN signals
                    IN  /\ frame.data \subseteq UNION {Range(Position(signals[n])) : n \in names}
                        /\ \A n \in names :
                             LET s      == signals[n]
                                 wanted == IF last.asked[n] < s.minimum THEN s.minimum
                                           ELSE IF last.asked[n] > s.maximum THEN s.maximum
                                           ELSE last.asked[n]
                             IN  Alone(signals, last.asked, n) =>
                                   2 * Magnitude(Meaning(s, frame.data) - wanted) <= Magnitude(s.factor)
  BY DEF Inv, EncodedMeansAsked
<1> DEFINE signals == Signals(last.id)
<1>1. last.id \in Stored(dbc) /\ dbcMessages[last.id] = Definition(dbc, last.id)
  BY DEF EncodedByTable, TableIsDbc
<1>2. frame.data = Encoded(signals, last.asked)
  BY <1>1 DEF EncodedByTable, Signals
<1>3. \A n \in DOMAIN signals : WellFormed(signals[n])
  <2>1. WellFormedMessage(Definition(dbc, last.id))
    BY <1>1, DbcIsWellFormed DEF TypeOK
  <2> QED  BY <2>1 DEF WellFormedMessage, Signals
<1>4. \A n \in DOMAIN last.asked : last.asked[n] \in Int
  BY FrameAssumption DEF EncodedByTable
<1> HIDE DEF signals
<1>5. frame.data \subseteq
        UNION {Range(Position(signals[n])) : n \in DOMAIN last.asked \intersect DOMAIN signals}
  <2>1. \A n \in DOMAIN signals : Fits(signals[n])
    BY <1>3 DEF WellFormed
  <2> QED  BY <1>2, <2>1, EncodedInSignals
<1>6. ASSUME NEW n \in DOMAIN last.asked \intersect DOMAIN signals, Alone(signals, last.asked, n)
      PROVE  2 * Magnitude(Meaning(signals[n], frame.data) - Clamped(signals[n], last.asked[n]))
               <= Magnitude(signals[n].factor)
  BY <1>2, <1>3, <1>4, <1>6, AloneIsNear
<1>7. ASSUME NEW n \in DOMAIN last.asked \intersect DOMAIN signals
      PROVE  Clamped(signals[n], last.asked[n])
               = IF last.asked[n] < signals[n].minimum THEN signals[n].minimum
                 ELSE IF last.asked[n] > signals[n].maximum THEN signals[n].maximum
                 ELSE last.asked[n]
  <2>1. /\ signals[n].minimum \in Int /\ signals[n].maximum \in Int
        /\ signals[n].minimum <= signals[n].maximum /\ last.asked[n] \in Int
    BY <1>3, <1>4 DEF WellFormed
  <2> QED  BY <2>1 DEF Clamped, Least, Greatest
<1> QED  BY <1>5, <1>6, <1>7, ZenonT(30) DEF signals


-----------------------------------------------------------------------------

\* Every id in the table of CanDbcHandler is below its size, and what handleEncodeMessage
\* writes is a word of the width of a frame.
THEOREM CodecTypeCorrect == Spec => []TypeOK
<1>1. Inv => TypeOK
  BY DEF Inv
<1> QED  BY <1>1, InvHolds, PTL

\* For every width of a frame, every well-formed DBC and every request: the bits that
\* parseSendSignal puts into a frame for a signal are those parseReceivedSignal isolates from
\* it, whatever else that shares no bit with the signal is encoded in either byte order.
THEOREM EncodedBitsAreReadHolds == Spec => []EncodedBitsAreRead
<1>1. Inv => EncodedBitsAreRead
  <2> SUFFICES ASSUME Inv, last.kind = "encoded", NEW frame \in last.written
               PROVE  LET signals == dbcMessages[last.id].signals
                          names   == DOMAIN last.asked \intersect DOMAIN signals
                      IN  \A n \in names :
                            (\A m \in names \ {n} :
                               Occupied(signals[n]) \intersect Occupied(signals[m]) = {})
                              => RawBits(signals[n], frame.data)
                                   = SentBits(signals[n], last.asked[n])
    BY DEF EncodedBitsAreRead
  <2> DEFINE signals == dbcMessages[last.id].signals
  <2>1. last.id \in DOMAIN dbcMessages /\ frame.data = Encoded(signals, last.asked)
    BY DEF Inv, EncodedByTable
  <2>2. \A m \in DOMAIN signals : Fits(signals[m])
    BY <2>1, TableIsWellFormed DEF WellFormedMessage, WellFormed
  <2> HIDE DEF signals
  <2> QED  BY <2>1, <2>2, EncodedIsRead DEF signals
<1> QED  BY <1>1, InvHolds, PTL

\* For every width of a frame, every well-formed DBC, every frame and whatever DBCs were
\* loaded before: parseReceivedMessage publishes the signals the DBC in force has for the
\* frame, each with the value the DBC says its bits mean, and a multiplexed one exactly when
\* the multiplexor has its value; nothing when the DBC has no such message or it is too short.
THEOREM ReceivedMeansHolds == Spec => []ReceivedIsWhatDbcSays
BY ReceivedMeans, InvHolds, PTL

\* For every width of a frame, every well-formed DBC and every request: what the DBC says the
\* frame of handleEncodeMessage means is, for a signal that shares no bit with another that
\* was asked for, the value asked for, brought into the range of the signal and off by half a
\* step at most; every other bit is zero.
THEOREM EncodedMeansHolds == Spec => []EncodedMeansAsked
BY EncodedMeans, InvHolds, PTL


-----------------------------------------------------------------------------
(***************************************************************************)
(* The parsing thread.                                                     *)
(***************************************************************************)

\* While the thread works on a file, the slot still holds the request for it.
SlotIsStable == pc \in {"parse", "publish", "fail"} => reading = request

\* There is no thread before onStart, so that onStart does not put another one in its place.
NotStarted == ui = "created" => pc = "none"

ParsingInv == ParsingTypeOK /\ NotStarted /\ SlotIsStable /\ EventNamesItsFile /\ StoppedMeansSilent

LEMMA ParsingStart == ParsingInit => ParsingInv
<1> SUFFICES ASSUME ParsingInit PROVE ParsingInv
  OBVIOUS
<1> USE DEF ParsingInit
<1>1. 0 \in RequestNumbers /\ 0 \in 0 .. MaxSpurious
  BY DbcHandlerAssumption DEF RequestNumbers
<1>2. pc \in {"none"} /\ ui \in {"created"}
  OBVIOUS
<1>3. ParsingTypeOK
  BY <1>1, <1>2 DEF ParsingTypeOK
<1>4. NotStarted /\ SlotIsStable /\ StoppedMeansSilent
  BY DEF NotStarted, SlotIsStable, StoppedMeansSilent
<1>5. EventNamesItsFile
  BY DEF EventNamesItsFile
<1>6. QED
  BY <1>3, <1>4, <1>5 DEF ParsingInv

\* What an event is made of, and that publishing one keeps the type of the events.
LEMMA AnswerType ==
  ASSUME ParsingTypeOK, NEW ok \in BOOLEAN, answers' = answers \union {Answer(ok)}
  PROVE  answers' \subseteq [file : RequestNumbers, path : RequestNumbers, ok : BOOLEAN]
<1>1. Answer(ok) \in [file : RequestNumbers, path : RequestNumbers, ok : BOOLEAN]
  BY DEF ParsingTypeOK, Answer
<1>2. QED
  BY <1>1 DEF ParsingTypeOK

\* A step of the parsing thread, woken or not, keeps the types.
LEMMA ThreadType ==
  ASSUME ParsingTypeOK, Thread \/ WakeUnasked
  PROVE  ParsingTypeOK'
<1> USE DbcHandlerAssumption DEF ParsingTypeOK, RequestNumbers, uiVars
<1>1. CASE FirstWait
  BY <1>1 DEF FirstWait
<1>2. CASE WaitReturns
  BY <1>2 DEF WaitReturns
<1>3. CASE TestStop
  BY <1>3 DEF TestStop
<1>4. CASE ReadFile
  BY <1>4 DEF ReadFile
<1>5. CASE Parse
  BY <1>5 DEF Parse
<1>6. CASE PublishParsed
  <2>1. answers' \subseteq [file : RequestNumbers, path : RequestNumbers, ok : BOOLEAN]
    BY <1>6, AnswerType DEF PublishParsed
  <2>2. QED
    BY <1>6, <2>1 DEF PublishParsed
<1>7. CASE PublishError
  <2>1. answers' \subseteq [file : RequestNumbers, path : RequestNumbers, ok : BOOLEAN]
    BY <1>7, AnswerType DEF PublishError
  <2>2. QED
    BY <1>7, <2>1 DEF PublishError
<1>8. CASE WakeUnasked
  BY <1>8 DEF WakeUnasked
<1>9. QED
  BY <1>1, <1>2, <1>3, <1>4, <1>5, <1>6, <1>7, <1>8 DEF Thread

\* A step of the UI thread keeps the types.
LEMMA UiType ==
  ASSUME ParsingTypeOK, NotStarted, User \/ UiProceeds
  PROVE  ParsingTypeOK'
<1> USE DbcHandlerAssumption DEF ParsingTypeOK, RequestNumbers, threadVars
<1>1. CASE Start
  BY <1>1 DEF Start, NotStarted
<1>2. CASE Request
  BY <1>2 DEF Request
<1>3. CASE StoreRequest
  BY <1>3 DEF StoreRequest
<1>4. CASE NotifyRequest
  BY <1>4 DEF NotifyRequest, Notify
<1>5. CASE BeginStop
  BY <1>5 DEF BeginStop
<1>6. CASE PassMutex
  BY <1>6 DEF PassMutex
<1>7. CASE NotifyStop
  BY <1>7 DEF NotifyStop, Notify
<1>8. CASE Join
  BY <1>8 DEF Join
<1>9. QED
  BY <1>1, <1>2, <1>3, <1>4, <1>5, <1>6, <1>7, <1>8 DEF User, UiProceeds

\* The thread reads the slot anew when it begins, and publishes what it has read.
LEMMA ThreadInv ==
  ASSUME ParsingInv, Thread \/ WakeUnasked
  PROVE  NotStarted' /\ SlotIsStable' /\ EventNamesItsFile' /\ StoppedMeansSilent'
<1> USE DEF ParsingInv, NotStarted, SlotIsStable, EventNamesItsFile, StoppedMeansSilent, uiVars
<1>1. CASE FirstWait
  BY <1>1 DEF FirstWait
<1>2. CASE WaitReturns
  BY <1>2 DEF WaitReturns
<1>3. CASE TestStop
  BY <1>3 DEF TestStop
<1>4. CASE ReadFile
  BY <1>4 DEF ReadFile
<1>5. CASE Parse
  BY <1>5 DEF Parse
<1>6. CASE PublishParsed
  BY <1>6 DEF PublishParsed, Answer
<1>7. CASE PublishError
  BY <1>7 DEF PublishError, Answer
<1>8. CASE WakeUnasked
  BY <1>8 DEF WakeUnasked
<1>9. QED
  BY <1>1, <1>2, <1>3, <1>4, <1>5, <1>6, <1>7, <1>8 DEF Thread

\* The slot is written only when the mutex is free, that is, when no file is being parsed;
\* a stop ends only when the thread is gone, and nothing brings it back.
LEMMA UiInv ==
  ASSUME ParsingInv, User \/ UiProceeds
  PROVE  NotStarted' /\ SlotIsStable' /\ EventNamesItsFile' /\ StoppedMeansSilent'
<1> USE DEF ParsingInv, NotStarted, SlotIsStable, EventNamesItsFile, StoppedMeansSilent, threadVars
<1>1. CASE Start
  BY <1>1 DEF Start
<1>2. CASE Request
  BY <1>2 DEF Request
<1>3. CASE StoreRequest
  <2>1. pc \notin {"parse", "publish", "fail"}
    BY <1>3 DEF StoreRequest, ParsingTypeOK
  <2>2. QED
    BY <1>3, <2>1 DEF StoreRequest
<1>4. CASE NotifyRequest
  BY <1>4 DEF NotifyRequest, Notify
<1>5. CASE BeginStop
  BY <1>5 DEF BeginStop
<1>6. CASE PassMutex
  BY <1>6 DEF PassMutex
<1>7. CASE NotifyStop
  BY <1>7 DEF NotifyStop, Notify
<1>8. CASE Join
  BY <1>8 DEF Join
<1>9. QED
  BY <1>1, <1>2, <1>3, <1>4, <1>5, <1>6, <1>7, <1>8 DEF User, UiProceeds

LEMMA ParsingStep == ParsingInv /\ [ParsingNext]_parsingVars => ParsingInv'
<1> SUFFICES ASSUME ParsingInv, [ParsingNext]_parsingVars PROVE ParsingInv'
  OBVIOUS
<1>1. CASE Thread \/ WakeUnasked
  BY <1>1, ThreadType, ThreadInv DEF ParsingInv
<1>2. CASE User \/ UiProceeds
  BY <1>2, UiType, UiInv DEF ParsingInv
<1>3. CASE UNCHANGED parsingVars
  BY <1>3 DEF parsingVars, threadVars, uiVars, ParsingInv, ParsingTypeOK, NotStarted, SlotIsStable,
              EventNamesItsFile, StoppedMeansSilent
<1>4. QED
  BY <1>1, <1>2, <1>3 DEF ParsingNext

LEMMA ParsingInvariant == ParsingSpec => []ParsingInv
BY ParsingStart, ParsingStep, PTL DEF ParsingSpec

\* The parsing thread holds the mutex exactly when it works on a request, and every
\* variable keeps its type.
THEOREM DbcTypeCorrect == ParsingSpec => []ParsingTypeOK
<1>1. ParsingInv => ParsingTypeOK
  BY DEF ParsingInv
<1>2. QED
  BY <1>1, ParsingInvariant, PTL

\* An event names the file it was made from, although DbcHandler::onStart reads the path
\* of the request twice.
THEOREM EventNamesItsFileHolds == ParsingSpec => []EventNamesItsFile
<1>1. ParsingInv => EventNamesItsFile
  BY DEF ParsingInv
<1>2. QED
  BY <1>1, ParsingInvariant, PTL

\* DbcHandler::onStop returns only when the parsing thread is gone, which stays gone.
THEOREM StoppedMeansSilentHolds == ParsingSpec => []StoppedMeansSilent
<1>1. ParsingInv => StoppedMeansSilent
  BY DEF ParsingInv
<1>2. QED
  BY <1>1, ParsingInvariant, PTL

-----------------------------------------------------------------------------
(***************************************************************************)
(* The register that the handler implements.                               *)
(***************************************************************************)

\* The slot holds the newest of the requests that are stored, and stays empty before onStart;
\* the flag is set when a stop begins; a file that is parsed is not that of the empty path.
RegisterInv ==
  /\ ui = "created" => request = 0 /\ answers = {} /\ ~stopThread
  /\ asked = IF ui = "store" THEN request + 1 ELSE request
  /\ ui \in {"store", "idle", "notify"} => ~stopThread
  /\ pc \in {"parse", "publish"} => request # 0

LEMMA RegisterStart == ParsingInit => RegisterInv /\ Register!NRInit
BY DEF ParsingInit, RegisterInv, Register!NRInit

LEMMA ThreadRegister ==
  ASSUME ParsingInv, RegisterInv, Thread \/ WakeUnasked
  PROVE  RegisterInv' /\ [Register!NRNext]_(Register!nrVars)
<1> USE DEF RegisterInv, uiVars
<1>1. mutex = IF pc \in {"testStop", "read", "parse", "publish", "fail"} THEN "thread" ELSE "free"
  BY DEF ParsingInv, ParsingTypeOK
<1>2. UNCHANGED <<ui, request, asked, stopThread>> /\ ui # "created"
  BY DEF Thread, WakeUnasked, FirstWait, WaitReturns, TestStop, ReadFile, Parse, PublishParsed,
         PublishError, ParsingInv, NotStarted
<1>3. RegisterInv'
  BY <1>2 DEF Thread, WakeUnasked, FirstWait, WaitReturns, TestStop, ReadFile, Parse, PublishParsed,
              PublishError
<1>4. CASE FirstWait \/ WakeUnasked \/ WaitReturns \/ ReadFile \/ Parse
  <2>1. UNCHANGED <<answers, request, stopThread>>
    BY <1>4 DEF FirstWait, WakeUnasked, WaitReturns, ReadFile, Parse
  <2>2. /\ pc \in {"read", "parse", "publish", "fail"} <=> pc' \in {"read", "parse", "publish", "fail"}
        /\ pc \notin {"none", "gone"} /\ pc' \notin {"none", "gone"}
    BY <1>4 DEF FirstWait, WakeUnasked, WaitReturns, ReadFile, Parse
  <2> QED  BY <1>3, <2>1, <2>2 DEF Register!nrVars
<1>5. CASE TestStop
  <2>1. CASE stopThread
    <3>1. Register!Leave
      BY <1>5, <2>1 DEF TestStop, Register!Leave
    <3> QED  BY <1>3, <3>1 DEF Register!NRNext
  <2>2. CASE ~stopThread
    <3>1. Register!Take
      BY <1>5, <2>2 DEF TestStop, Register!Take
    <3> QED  BY <1>3, <3>1 DEF Register!NRNext
  <2> QED  BY <2>1, <2>2
<1>6. CASE PublishParsed
  <2>1. reading = request /\ request # 0
    BY <1>6 DEF PublishParsed, ParsingInv, SlotIsStable
  <2>2. Register!Reply(TRUE)
    BY <1>6, <2>1 DEF PublishParsed, Answer, Register!Reply
  <2> QED  BY <1>3, <2>2 DEF Register!NRNext
<1>7. CASE PublishError
  <2>1. reading = request
    BY <1>7 DEF PublishError, ParsingInv, SlotIsStable
  <2>2. Register!Reply(FALSE)
    BY <1>7, <2>1 DEF PublishError, Answer, Register!Reply
  <2> QED  BY <1>3, <2>2 DEF Register!NRNext
<1> QED  BY <1>4, <1>5, <1>6, <1>7 DEF Thread

LEMMA UiRegister ==
  ASSUME ParsingInv, RegisterInv, User \/ UiProceeds
  PROVE  RegisterInv' /\ [Register!NRNext]_(Register!nrVars)
<1> USE DEF RegisterInv, threadVars
<1>1. /\ mutex = IF pc \in {"testStop", "read", "parse", "publish", "fail"} THEN "thread" ELSE "free"
      /\ request \in Nat /\ stopThread \in BOOLEAN
  BY DEF ParsingInv, ParsingTypeOK, RequestNumbers
<1>2. CASE Start
  <2>1. pc = "none"
    BY <1>2 DEF Start, ParsingInv, NotStarted
  <2>2. Register!Begin
    BY <1>2, <2>1 DEF Start, Register!Begin
  <2>3. RegisterInv'
    BY <1>2 DEF Start
  <2> QED  BY <2>2, <2>3 DEF Register!NRNext
<1>3. CASE StoreRequest
  <2>1. pc \notin {"read", "parse", "publish", "fail"} /\ request' = request + 1
    BY <1>1, <1>3 DEF StoreRequest
  <2>2. Register!Put
    BY <1>3, <2>1 DEF StoreRequest, Register!Put
  <2>3. RegisterInv'
    BY <1>1, <1>3, <2>1 DEF StoreRequest
  <2> QED  BY <2>2, <2>3 DEF Register!NRNext
<1>4. CASE BeginStop
  <2>1. Register!Stop
    BY <1>4 DEF BeginStop, Register!Stop
  <2>2. RegisterInv'
    BY <1>4 DEF BeginStop
  <2> QED  BY <2>1, <2>2 DEF Register!NRNext
<1>5. CASE Request \/ NotifyRequest \/ PassMutex \/ NotifyStop \/ Join
  <2>1. UNCHANGED <<answers, request, stopThread>> /\ (pc' = pc \/ (pc = "waiting" /\ pc' = "woken"))
    BY <1>5 DEF Request, NotifyRequest, PassMutex, NotifyStop, Join, Notify
  <2>2. RegisterInv'
    BY <1>1, <1>5, <2>1 DEF Request, NotifyRequest, PassMutex, NotifyStop, Join
  <2> QED  BY <2>1, <2>2 DEF Register!nrVars
<1> QED  BY <1>2, <1>3, <1>4, <1>5 DEF User, UiProceeds

\* The handler implements NewestRequest: what is answered is the newest request at that time and
\* is answered once for each time it is taken, no request is stored in between, nothing is taken
\* after a stop, and an error ends the service.
THEOREM HandlerImplementsRegister == ParsingSpec => ImplementsRegister
<1>1. ParsingInit => RegisterInv /\ Register!NRInit
  BY RegisterStart
<1>2. ParsingInv /\ RegisterInv /\ [ParsingNext]_parsingVars
        => RegisterInv' /\ [Register!NRNext]_(Register!nrVars)
  <2>1. ASSUME ParsingInv, RegisterInv, UNCHANGED parsingVars
        PROVE  RegisterInv' /\ UNCHANGED Register!nrVars
    BY <2>1 DEF parsingVars, threadVars, uiVars, RegisterInv, Register!nrVars
  <2> QED  BY <2>1, ThreadRegister, UiRegister DEF ParsingNext
<1>3. QED
  BY <1>1, <1>2, ParsingInvariant, PTL DEF ParsingSpec, ImplementsRegister, Register!NRSpec
=============================================================================
