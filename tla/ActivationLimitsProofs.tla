----------------------- MODULE ActivationLimitsProofs -----------------------
(***************************************************************************)
(* Proofs about the limits on activation, for any limits, windows, clock   *)
(* and number of attempts at a time.                                       *)
(*                                                                         *)
(* The theorems of the library that prove by induction take an operator as *)
(* a parameter; here an induction is the least counterexample of a set.    *)
(***************************************************************************)
EXTENDS ActivationLimits, WellFoundedInduction, FiniteSetTheorems, TLAPS

-----------------------------------------------------------------------------
(* Induction.                                                              *)

LEMMA LeastElement ==
    ASSUME NEW I \in SUBSET Nat, I # {}
    PROVE  \E x \in I : \A y \in I : x =< y
<1>1. PICK x \in I : \A y \in I : ~ (<<y, x>> \in OpToRel(<, Nat))
  <2>1. \E x \in I : \A y \in I : ~ (<<y, x>> \in OpToRel(<, Nat))
    BY NatLessThanWellFounded, WFMin
  <2> QED BY <2>1
<1>2. ASSUME NEW y \in I PROVE x =< y
  <2>1. x \in Nat /\ y \in Nat /\ <<y, x>> \in Nat \X Nat
    OBVIOUS
  <2>2. ~ (<<y, x>>[1] < <<y, x>>[2])
    BY <1>1, <2>1 DEF OpToRel
  <2>3. ~ (y < x)
    BY <2>2
  <2> QED BY <2>1, <2>3
<1> QED BY <1>2

-----------------------------------------------------------------------------
(* The filter.                                                             *)

\* What f[i] is to be, with what f[i - 1] is.
Step(f, times, cutoff, i) ==
    IF i = 0 THEN <<>>
    ELSE IF times[i] > cutoff THEN Append(f[i - 1], times[i]) ELSE f[i - 1]

Keeps(f, times, cutoff, n) == f = [i \in 0..n |-> Step(f, times, cutoff, i)]

\* The filter's recursion defines a function.
LEMMA KeptExists ==
    ASSUME NEW times, NEW cutoff, NEW n \in Nat
    PROVE  \E f : Keeps(f, times, cutoff, n)
<1> DEFINE Bad == {m \in Nat : ~ \E f : Keeps(f, times, cutoff, m)}
<1>1. SUFFICES ASSUME Bad # {} PROVE FALSE
  OBVIOUS
<1>2. PICK m \in Bad : \A y \in Bad : m =< y
  <2>1. Bad \in SUBSET Nat
    OBVIOUS
  <2> HIDE DEF Bad
  <2> QED BY <1>1, <2>1, LeastElement
<1>3. m \in Nat
  OBVIOUS
<1>4. CASE m = 0
  <2> DEFINE f == [i \in 0..m |-> <<>>]
  <2>1. \A i \in 0..m : Step(f, times, cutoff, i) = <<>>
    BY <1>4 DEF Step
  <2>2. Keeps(f, times, cutoff, m)
    BY <2>1, Zenon DEF Keeps
  <2> QED BY <2>2
<1>5. CASE m # 0
  <2>1. m - 1 \in Nat /\ ~ (m =< m - 1)
    BY <1>3, <1>5
  <2>2. PICK g : Keeps(g, times, cutoff, m - 1)
    BY <1>2, <2>1
  <2> DEFINE f == [i \in 0..m |-> IF i < m THEN g[i] ELSE Step(g, times, cutoff, m)]
  <2>3. ASSUME NEW i \in 0..m PROVE f[i] = Step(f, times, cutoff, i)
    <3>1. CASE i < m
      <4>1. i \in 0..(m - 1) /\ f[i] = g[i] /\ (i # 0 => i - 1 \in 0..m /\ i - 1 < m)
        BY <1>3, <3>1
      <4>2. i # 0 => f[i - 1] = g[i - 1]
        BY <4>1
      <4>3. g[i] = Step(g, times, cutoff, i)
        BY <2>2, <4>1, Zenon DEF Keeps
      <4> HIDE DEF f
      <4> QED BY <4>1, <4>2, <4>3, Zenon DEF Step
    <3>2. CASE ~ (i < m)
      <4>1. i = m /\ m - 1 \in 0..m /\ m - 1 < m
        BY <1>3, <1>5, <3>2
      <4>2. f[m - 1] = g[m - 1] /\ f[m] = Step(g, times, cutoff, m)
        BY <1>3, <4>1
      <4> HIDE DEF f
      <4> QED BY <1>5, <4>1, <4>2, Zenon DEF Step
    <3> QED BY <3>1, <3>2
  <2>4. Keeps(f, times, cutoff, m)
    <3>1. f = [i \in 0..m |-> f[i]]
      OBVIOUS
    <3> HIDE DEF f
    <3> QED BY <2>3, <3>1, Zenon DEF Keeps
  <2> HIDE DEF f
  <2> QED BY <2>4
<1> QED BY <1>4, <1>5

\* k is where the times end that are not after the cutoff.
Cut(times, cutoff, k) ==
    /\ k \in 0..Len(times)
    /\ \A i \in 1..k : ~ (times[i] > cutoff)
    /\ \A i \in (k + 1)..Len(times) : times[i] > cutoff

Drop(times, k) == [i \in 1..(Len(times) - k) |-> times[i + k]]

\* Of a sequence that is divided so the filter leaves the second part.
LEMMA AfterDrops ==
    ASSUME NEW times \in Seq(Int), NEW cutoff \in Int, NEW k, Cut(times, cutoff, k)
    PROVE  After(times, cutoff) = Drop(times, k)
<1> DEFINE L == Len(times)
           First(n) == [i \in 1..(n - k) |-> times[i + k]]
           f == CHOOSE f : Keeps(f, times, cutoff, L)
<1>0. L \in Nat /\ k \in 0..L /\ k \in Nat
  BY DEF Cut
<1>1. Keeps(f, times, cutoff, L)
  <2> HIDE DEF L
  <2>1. \E g : Keeps(g, times, cutoff, L)
    BY <1>0, KeptExists
  <2> QED BY <2>1, Zenon
<1>2. After(times, cutoff) = f[L]
  BY Zenon DEF After, Keeps, Step
<1> HIDE DEF f
<1>3. \A i \in 0..L : f[i] = Step(f, times, cutoff, i)
  BY <1>1, Zenon DEF Keeps
<1> DEFINE Bad == {n \in 0..L : f[n] # (IF n =< k THEN <<>> ELSE First(n))}
<1>4. Bad = {}
  <2>1. SUFFICES ASSUME Bad # {} PROVE FALSE
    OBVIOUS
  <2>2. PICK n \in Bad : \A y \in Bad : n =< y
    <3>1. Bad \in SUBSET Nat
      BY <1>0
    <3> HIDE DEF Bad
    <3> QED BY <2>1, <3>1, LeastElement
  <2>3. n \in 0..L /\ n \in Nat /\ f[n] # (IF n =< k THEN <<>> ELSE First(n))
    BY <1>0
  <2>4. n # 0
    <3>1. ASSUME n = 0 PROVE FALSE
      <4>1. f[n] = <<>> /\ n =< k
        BY <1>0, <1>3, <2>3, <3>1 DEF Step
      <4> QED BY <2>3, <4>1
    <3> QED BY <3>1
  <2>5. n - 1 \in 0..L /\ n \in 1..L /\ ~ (n =< n - 1)
    BY <1>0, <2>3, <2>4
  <2>6. f[n - 1] = IF n - 1 =< k THEN <<>> ELSE First(n - 1)
    <3>1. n - 1 \notin Bad
      BY <2>2, <2>5
    <3> QED BY <2>5, <3>1
  <2>7. f[n] = IF times[n] > cutoff THEN Append(f[n - 1], times[n]) ELSE f[n - 1]
    BY <1>3, <2>3, <2>4, Zenon DEF Step
  <2>8. CASE n =< k
    <3>1. n \in 1..k /\ n - 1 =< k
      BY <1>0, <2>5, <2>8
    <3>2. ~ (times[n] > cutoff)
      BY <3>1 DEF Cut
    <3> QED BY <2>3, <2>6, <2>7, <2>8, <3>1, <3>2
  <2>9. CASE ~ (n =< k)
    <3>1. times[n] > cutoff
      <4>1. n \in (k + 1)..L
        BY <1>0, <2>5, <2>9
      <4> QED BY <4>1 DEF Cut
    <3>2. f[n] = Append(f[n - 1], times[n])
      BY <2>7, <3>1
    <3>3. f[n - 1] = First(n - 1)
      <4>1. CASE n - 1 =< k
        <5>1. n - 1 = k /\ f[n - 1] = <<>>
          BY <1>0, <2>3, <2>6, <2>9, <4>1
        <5>2. 1..(n - 1 - k) = {}
          BY <1>0, <5>1
        <5> QED BY <5>1, <5>2
      <4> QED BY <2>6, <4>1
    <3>4. Append(First(n - 1), times[n]) = First(n)
      <4>1. \A i \in 1..(n - k) : i + k \in 1..L
        BY <1>0, <2>5
      <4>2. First(n - 1) \in Seq(Int) /\ Len(First(n - 1)) = n - 1 - k
        <5>1. n - 1 - k \in Nat /\ \A i \in 1..(n - 1 - k) : i \in 1..(n - k)
          BY <1>0, <2>3, <2>9
        <5>2. \A i \in 1..(n - 1 - k) : times[i + k] \in Int
          BY <4>1, <5>1
        <5> QED BY <5>1, <5>2
      <4> DEFINE A == Append(First(n - 1), times[n])
      <4>3. A \in Seq(Int) /\ Len(A) = n - k
        <5>1. times[n] \in Int
          BY <2>5
        <5> HIDE DEF First
        <5> QED BY <1>0, <2>3, <4>2, <5>1
      <4>4. \A i \in 1..(n - k) : A[i] = times[i + k]
        <5>1. TAKE i \in 1..(n - k)
        <5>2. CASE i = n - k
          BY <1>0, <2>3, <4>2, <5>2
        <5>3. CASE i # n - k
          <6>1. i \in 1..(n - 1 - k)
            BY <1>0, <2>3, <5>3
          <6>2. A[i] = First(n - 1)[i]
            BY <1>0, <2>3, <4>2, <6>1
          <6> QED BY <6>1, <6>2
        <5> QED BY <5>2, <5>3
      <4> HIDE DEF A
      <4>5. A = [i \in 1..(n - k) |-> A[i]]
        BY <4>3
      <4> QED BY <4>4, <4>5, Zenon DEF A
    <3> QED BY <2>3, <2>9, <3>2, <3>3, <3>4
  <2> QED BY <2>8, <2>9
<1>5. f[L] = IF L =< k THEN <<>> ELSE First(L)
  <2>1. L \in 0..L
    BY <1>0
  <2> HIDE DEF L, First
  <2> QED BY <1>4, <2>1
<1>6. CASE L =< k
  <2>1. 1..(L - k) = {}
    BY <1>0, <1>6
  <2> QED BY <1>2, <1>5, <1>6, <2>1 DEF Drop
<1>7. CASE ~ (L =< k)
  BY <1>2, <1>5, <1>7 DEF Drop
<1> QED BY <1>6, <1>7

-----------------------------------------------------------------------------
(* What the filter does to a bucket, which is in the order of time.        *)

Ordered(times) == \A i, j \in 1..Len(times) : i =< j => times[i] =< times[j]

Upto(times, bound) == \A i \in 1..Len(times) : times[i] =< bound

LEMMA UptoLater ==
    ASSUME NEW times \in Seq(Int), NEW a \in Int, NEW b \in Int, a =< b, Upto(times, a)
    PROVE  Upto(times, b)
<1> SUFFICES ASSUME NEW i \in 1..Len(times) PROVE times[i] =< b
  BY DEF Upto
<1>1. times[i] \in Int /\ times[i] =< a
  BY DEF Upto
<1> QED BY <1>1

LEMMA CutExists ==
    ASSUME NEW times \in Seq(Int), Ordered(times), NEW cutoff \in Int
    PROVE  \E k : Cut(times, cutoff, k)
<1> DEFINE L == Len(times)
           I == {i \in 1..L : times[i] > cutoff}
<1>0. L \in Nat /\ \A i \in 1..L : times[i] \in Int
  OBVIOUS
<1>1. CASE I = {}
  <2>1. L \in 0..L /\ (L + 1)..L = {}
    BY <1>0
  <2>2. \A i \in 1..L : ~ (times[i] > cutoff)
    BY <1>1
  <2>3. Cut(times, cutoff, L)
    BY <2>1, <2>2 DEF Cut
  <2> QED BY <2>3
<1>2. CASE I # {}
  <2>1. PICK m \in I : \A y \in I : m =< y
    <3>1. I \in SUBSET Nat
      BY <1>0
    <3> HIDE DEF I
    <3> QED BY <1>2, <3>1, LeastElement
  <2>2. m \in 1..L /\ m - 1 \in 0..L /\ times[m] > cutoff
    BY <1>0
  <2>3. ASSUME NEW i \in 1..(m - 1) PROVE ~ (times[i] > cutoff)
    <3>1. i \in 1..L /\ ~ (m =< i)
      BY <1>0, <2>2
    <3>2. i \notin I
      BY <2>1, <3>1
    <3> QED BY <3>1, <3>2
  <2>4. ASSUME NEW i \in (m - 1 + 1)..L PROVE times[i] > cutoff
    <3>1. i \in 1..L /\ m =< i
      BY <1>0, <2>2
    <3>2. times[m] =< times[i] /\ times[m] \in Int /\ times[i] \in Int
      BY <1>0, <2>2, <3>1 DEF Ordered
    <3> QED BY <2>2, <3>2
  <2>5. Cut(times, cutoff, m - 1)
    BY <2>2, <2>3, <2>4 DEF Cut
  <2> QED BY <2>5
<1> QED BY <1>1, <1>2

LEMMA DropType ==
    ASSUME NEW T, T \subseteq Int, NEW times \in Seq(T), NEW k \in 0..Len(times)
    PROVE  /\ Drop(times, k) \in Seq(T)
           /\ Len(Drop(times, k)) = Len(times) - k
           /\ \A i \in 1..(Len(times) - k) :
                 i + k \in 1..Len(times) /\ Drop(times, k)[i] = times[i + k]
<1>1. Len(times) - k \in Nat /\ \A i \in 1..(Len(times) - k) : i + k \in 1..Len(times)
  OBVIOUS
<1>2. \A i \in 1..(Len(times) - k) : times[i + k] \in T
  BY <1>1
<1> QED BY <1>1, <1>2 DEF Drop

LEMMA SeqOfInt ==
    ASSUME NEW T, T \subseteq Int, NEW times \in Seq(T)
    PROVE  times \in Seq(Int)
<1>1. times \in [1..Len(times) -> T] /\ Len(times) \in Nat
  OBVIOUS
<1>2. times \in [1..Len(times) -> Int]
  BY <1>1
<1> QED BY <1>1, <1>2

\* The filter keeps a bucket a bucket.
LEMMA AfterType ==
    ASSUME NEW T, T \subseteq Int, NEW times \in Seq(T), Ordered(times), NEW cutoff \in Int
    PROVE  /\ After(times, cutoff) \in Seq(T)
           /\ Len(After(times, cutoff)) =< Len(times)
           /\ Ordered(After(times, cutoff))
           /\ \A b \in Int : Upto(times, b) => Upto(After(times, cutoff), b)
<1>1. times \in Seq(Int)
  BY SeqOfInt
<1>2. PICK k : Cut(times, cutoff, k)
  BY <1>1, CutExists
<1>3. k \in 0..Len(times) /\ k \in Nat /\ Len(times) \in Nat
  BY <1>2 DEF Cut
<1>4. After(times, cutoff) = Drop(times, k)
  BY <1>1, <1>2, AfterDrops
<1>5. Ordered(Drop(times, k))
  <2> SUFFICES ASSUME NEW i \in 1..Len(Drop(times, k)), NEW j \in 1..Len(Drop(times, k)), i =< j
               PROVE  Drop(times, k)[i] =< Drop(times, k)[j]
    BY DEF Ordered
  <2>1. /\ i + k \in 1..Len(times) /\ Drop(times, k)[i] = times[i + k]
        /\ j + k \in 1..Len(times) /\ Drop(times, k)[j] = times[j + k]
    BY <1>3, DropType
  <2>2. i + k =< j + k
    BY <1>3
  <2> QED BY <2>1, <2>2 DEF Ordered
<1>6. ASSUME NEW b \in Int, Upto(times, b) PROVE Upto(Drop(times, k), b)
  <2> SUFFICES ASSUME NEW i \in 1..Len(Drop(times, k)) PROVE Drop(times, k)[i] =< b
    BY DEF Upto
  <2>1. i + k \in 1..Len(times) /\ Drop(times, k)[i] = times[i + k]
    BY <1>3, DropType
  <2> QED BY <1>6, <2>1 DEF Upto
<1>7. Drop(times, k) \in Seq(T) /\ Len(Drop(times, k)) =< Len(times)
  <2>1. Len(times) - k =< Len(times)
    BY <1>3
  <2> QED BY <1>3, <2>1, DropType
<1> QED BY <1>4, <1>5, <1>6, <1>7, Zenon

\* A second, later, cutoff alone counts; an earlier one changes nothing.
LEMMA AfterTwice ==
    ASSUME NEW times \in Seq(Int), Ordered(times), NEW c \in Int, NEW d \in Int
    PROVE  After(After(times, c), d) = IF c =< d THEN After(times, d) ELSE After(times, c)
<1>1. PICK k : Cut(times, c, k)
  BY CutExists
<1>2. PICK m : Cut(times, d, m)
  BY CutExists
<1> DEFINE L == Len(times)
           rest == Drop(times, k)
<1>3. k \in 0..L /\ m \in 0..L /\ L \in Nat /\ \A i \in 1..L : times[i] \in Int
  BY <1>1, <1>2 DEF Cut
<1>4. After(times, c) = rest /\ After(times, d) = Drop(times, m)
  BY <1>1, <1>2, AfterDrops
<1>5. /\ rest \in Seq(Int) /\ Len(rest) = L - k
      /\ \A i \in 1..(L - k) : i + k \in 1..L /\ rest[i] = times[i + k]
  BY <1>3, DropType
<1> HIDE DEF rest
<1>6. CASE c =< d
  <2>1. k =< m
    <3> SUFFICES ASSUME ~ (k =< m) PROVE FALSE
      OBVIOUS
    <3>1. k \in 1..k /\ k \in (m + 1)..L /\ k \in 1..L
      BY <1>3
    <3>2. ~ (times[k] > c) /\ times[k] > d
      BY <1>1, <1>2, <3>1 DEF Cut
    <3> QED BY <1>3, <1>6, <3>1, <3>2
  <2>2. Cut(rest, d, m - k)
    <3>1. m - k \in 0..Len(rest)
      BY <1>3, <1>5, <2>1
    <3>2. ASSUME NEW i \in 1..(m - k) PROVE ~ (rest[i] > d)
      <4>1. i \in 1..(L - k) /\ i + k \in 1..m
        BY <1>3, <2>1
      <4>2. ~ (times[i + k] > d)
        BY <1>2, <4>1 DEF Cut
      <4> QED BY <1>5, <4>1, <4>2
    <3>3. ASSUME NEW i \in (m - k + 1)..Len(rest) PROVE rest[i] > d
      <4>1. i \in 1..(L - k) /\ i + k \in (m + 1)..L
        BY <1>3, <1>5, <2>1
      <4>2. times[i + k] > d
        BY <1>2, <4>1 DEF Cut
      <4> QED BY <1>5, <4>1, <4>2
    <3> QED BY <3>1, <3>2, <3>3 DEF Cut
  <2>3. After(rest, d) = Drop(rest, m - k)
    BY <1>5, <2>2, AfterDrops
  <2>4. Drop(rest, m - k) = Drop(times, m)
    <3>1. Len(rest) - (m - k) = L - m
      BY <1>3, <1>5
    <3>2. ASSUME NEW i \in 1..(L - m) PROVE rest[i + (m - k)] = times[i + m]
      <4>1. i + (m - k) \in 1..(L - k) /\ i + (m - k) + k = i + m
        BY <1>3, <2>1
      <4> QED BY <1>5, <4>1
    <3> QED BY <3>1, <3>2 DEF Drop
  <2> QED BY <1>4, <1>6, <2>3, <2>4
<1>7. CASE ~ (c =< d)
  <2>1. Cut(rest, d, 0)
    <3>1. ASSUME NEW i \in 1..Len(rest) PROVE rest[i] > d
      <4>1. i \in 1..(L - k) /\ i + k \in (k + 1)..L /\ i + k \in 1..L
        BY <1>3, <1>5
      <4>2. times[i + k] > c
        BY <1>1, <4>1 DEF Cut
      <4>3. rest[i] \in Int /\ rest[i] > c
        BY <1>3, <1>5, <4>1, <4>2
      <4> QED BY <1>7, <4>3
    <3>2. 0 \in 0..Len(rest) /\ 1..0 = {} /\ 0 + 1 = 1
      BY <1>3, <1>5
    <3> QED BY <3>1, <3>2 DEF Cut
  <2>2. After(rest, d) = Drop(rest, 0)
    BY <1>5, <2>1, AfterDrops
  <2>3. Drop(rest, 0) = rest
    BY <1>5 DEF Drop
  <2> QED BY <1>4, <1>7, <2>2, <2>3
<1> QED BY <1>6, <1>7

\* All, or nothing, is after the cutoff.
LEMMA AfterAll ==
    ASSUME NEW times \in Seq(Int), NEW cutoff \in Int,
           \A i \in 1..Len(times) : times[i] > cutoff
    PROVE  After(times, cutoff) = times
<1>1. Cut(times, cutoff, 0)
  <2>1. 0 \in 0..Len(times) /\ 1..0 = {} /\ 0 + 1 = 1
    OBVIOUS
  <2> QED BY <2>1 DEF Cut
<1>2. Drop(times, 0) = times
  BY DEF Drop
<1> QED BY <1>1, <1>2, AfterDrops

LEMMA AfterNone ==
    ASSUME NEW times \in Seq(Int), NEW cutoff \in Int, Upto(times, cutoff)
    PROVE  After(times, cutoff) = <<>>
<1>1. Cut(times, cutoff, Len(times))
  <2>1. Len(times) \in 0..Len(times) /\ (Len(times) + 1)..Len(times) = {}
    OBVIOUS
  <2>2. \A i \in 1..Len(times) : ~ (times[i] > cutoff)
    BY DEF Upto
  <2> QED BY <2>1, <2>2 DEF Cut
<1>2. Drop(times, Len(times)) = <<>>
  BY DEF Drop
<1> QED BY <1>1, <1>2, AfterDrops

\* A time that comes last and after the cutoff stays, and last.
LEMMA AfterAppend ==
    ASSUME NEW times \in Seq(Int), Ordered(times), NEW cutoff \in Int,
           NEW t \in Int, t > cutoff, Upto(times, t)
    PROVE  /\ After(Append(times, t), cutoff) = Append(After(times, cutoff), t)
           /\ Ordered(Append(times, t)) /\ Upto(Append(times, t), t)
<1> DEFINE L == Len(times)
           more == Append(times, t)
<1>1. PICK k : Cut(times, cutoff, k)
  BY CutExists
<1>2. k \in 0..L /\ L \in Nat /\ \A i \in 1..L : times[i] \in Int
  BY <1>1 DEF Cut
<1>3. /\ more \in Seq(Int) /\ Len(more) = L + 1 /\ more[L + 1] = t
      /\ \A i \in 1..L : more[i] = times[i]
  OBVIOUS
<1> HIDE DEF more
<1>4. Cut(more, cutoff, k)
  <2>1. k \in 0..Len(more)
    BY <1>2, <1>3
  <2>2. ASSUME NEW i \in 1..k PROVE ~ (more[i] > cutoff)
    <3>1. i \in 1..L /\ ~ (times[i] > cutoff)
      BY <1>1, <1>2 DEF Cut
    <3> QED BY <1>3, <3>1
  <2>3. ASSUME NEW i \in (k + 1)..Len(more) PROVE more[i] > cutoff
    <3>1. CASE i = L + 1
      BY <1>3, <3>1
    <3>2. CASE i # L + 1
      <4>1. i \in 1..L /\ i \in (k + 1)..L
        BY <1>2, <1>3, <3>2
      <4>2. times[i] > cutoff
        BY <1>1, <4>1 DEF Cut
      <4> QED BY <1>3, <4>1, <4>2
    <3> QED BY <3>1, <3>2
  <2> QED BY <2>1, <2>2, <2>3 DEF Cut
<1>5. After(times, cutoff) = Drop(times, k) /\ After(more, cutoff) = Drop(more, k)
  BY <1>1, <1>3, <1>4, AfterDrops
<1>6. Drop(more, k) = Append(Drop(times, k), t)
  <2>1. /\ Drop(times, k) \in Seq(Int) /\ Len(Drop(times, k)) = L - k
        /\ \A i \in 1..(L - k) : i + k \in 1..L /\ Drop(times, k)[i] = times[i + k]
    BY <1>2, DropType
  <2> DEFINE A == Append(Drop(times, k), t)
  <2>2. /\ A \in Seq(Int) /\ Len(A) = L - k + 1 /\ A[L - k + 1] = t
        /\ \A i \in 1..(L - k) : A[i] = Drop(times, k)[i]
    BY <1>2, <2>1
  <2> HIDE DEF A
  <2>3. ASSUME NEW i \in 1..(L + 1 - k) PROVE A[i] = more[i + k]
    <3>1. CASE i = L - k + 1
      <4>1. i + k = L + 1
        BY <1>2, <3>1
      <4> QED BY <1>3, <2>2, <3>1, <4>1
    <3>2. CASE i # L - k + 1
      <4>1. i \in 1..(L - k)
        BY <1>2, <3>2
      <4>2. A[i] = times[i + k] /\ i + k \in 1..L
        BY <2>1, <2>2, <4>1
      <4> QED BY <1>3, <4>2
    <3> QED BY <3>1, <3>2
  <2>4. A = [i \in 1..(L + 1 - k) |-> A[i]]
    <3>1. L - k + 1 = L + 1 - k
      BY <1>2
    <3> QED BY <2>2, <3>1
  <2>5. Drop(more, k) = [i \in 1..(L + 1 - k) |-> more[i + k]]
    <3>1. Len(more) - k = L + 1 - k
      BY <1>2, <1>3
    <3> QED BY <3>1, Zenon DEF Drop
  <2>6. Drop(more, k) = A
    BY <2>3, <2>4, <2>5
  <2> QED BY <2>6 DEF A
<1>7. Upto(more, t)
  <2> SUFFICES ASSUME NEW i \in 1..Len(more) PROVE more[i] =< t
    BY DEF Upto
  <2>1. CASE i = L + 1
    BY <1>3, <2>1
  <2>2. CASE i # L + 1
    BY <1>2, <1>3, <2>2 DEF Upto
  <2> QED BY <2>1, <2>2
<1>8. Ordered(more)
  <2> SUFFICES ASSUME NEW i \in 1..Len(more), NEW j \in 1..Len(more), i =< j
               PROVE  more[i] =< more[j]
    BY DEF Ordered
  <2>1. CASE j = L + 1
    BY <1>3, <1>7, <2>1 DEF Upto
  <2>2. CASE j # L + 1
    <3>1. i \in 1..L /\ j \in 1..L
      BY <1>2, <1>3, <2>2
    <3> QED BY <1>3, <3>1 DEF Ordered
  <2> QED BY <2>1, <2>2
<1> QED BY <1>5, <1>6, <1>7, <1>8 DEF more

-----------------------------------------------------------------------------
(* A bucket and what was recorded in it.                                   *)

\* At time t the bucket, pruned, holds what was recorded in the last window.
Bucket(hits, past, limit, t) ==
    /\ hits \in Times /\ Len(hits) =< limit
    /\ Ordered(hits) /\ Upto(hits, t)
    /\ Recent(hits, t) = past

LEMMA TimesAreInt == 0..MaxNow \subseteq Int /\ \A times \in Times : times \in Seq(Int)
<1>1. 0..MaxNow \subseteq Int
  BY ActivationAssumption
<1>2. ASSUME NEW times \in Times PROVE times \in Seq(Int)
  BY <1>1, SeqOfInt, Zenon DEF Times
<1> QED BY <1>1, <1>2

LEMMA Spans == /\ Window \in Nat /\ MaxAge \in Nat /\ Window > 0 /\ Window =< MaxAge
               /\ MaxNow \in Nat
               /\ \A t \in 0..MaxNow : /\ t \in Int /\ t - Window \in Int /\ t > t - Window
                                       /\ t + 1 - Window \in Int /\ t - Window =< t + 1 - Window
BY LimitsAssumption, ActivationAssumption

LEMMA BucketPast ==
    ASSUME NEW t \in 0..MaxNow, NEW hits, NEW past, NEW limit \in Nat \ {0},
           Bucket(hits, past, limit, t)
    PROVE  /\ past \in Times /\ Ordered(past) /\ Upto(past, t) /\ Len(past) =< limit
           /\ Remaining(hits, limit, t) = limit - Len(past)
           /\ Allows(hits, limit, t) <=> Len(past) < limit
<1>1. hits \in Seq(0..MaxNow) /\ Ordered(hits) /\ past = After(hits, t - Window)
  BY DEF Bucket, Times, Recent
<1>2. /\ past \in Seq(0..MaxNow) /\ Len(past) =< Len(hits) /\ Ordered(past)
      /\ Upto(hits, t) => Upto(past, t)
  BY <1>1, AfterType, TimesAreInt, Spans
<1>3. Len(past) =< limit /\ Len(past) \in Nat
  <2>1. Len(hits) \in Nat /\ Len(past) \in Nat /\ Len(hits) =< limit
    BY <1>1, <1>2 DEF Bucket
  <2> QED BY <1>2, <2>1
<1>4. Remaining(hits, limit, t) = IF Len(past) < limit THEN limit - Len(past) ELSE 0
  BY DEF Bucket, Remaining
<1>5. Remaining(hits, limit, t) = limit - Len(past)
  BY <1>3, <1>4
<1>6. Allows(hits, limit, t) <=> Len(past) < limit
  BY DEF Bucket, Allows
<1> QED BY <1>2, <1>3, <1>5, <1>6 DEF Bucket, Times

LEMMA BucketHit ==
    ASSUME NEW t \in 0..MaxNow, NEW hits, NEW past, NEW limit \in Nat \ {0},
           Bucket(hits, past, limit, t), Allows(hits, limit, t)
    PROVE  Bucket(Hit(hits, limit, t), Append(past, t), limit, t)
<1>1. Hit(hits, limit, t) = Append(past, t)
  BY DEF Hit, Bucket
<1>2. /\ past \in Seq(0..MaxNow) /\ past \in Seq(Int) /\ Ordered(past) /\ Upto(past, t)
      /\ Len(past) < limit
  BY BucketPast, TimesAreInt DEF Times
<1>3. /\ After(Append(past, t), t - Window) = Append(After(past, t - Window), t)
      /\ Ordered(Append(past, t)) /\ Upto(Append(past, t), t)
  BY <1>2, AfterAppend, Spans
<1>4. After(past, t - Window) = past
  <2>1. hits \in Seq(Int) /\ Ordered(hits) /\ past = After(hits, t - Window)
    BY TimesAreInt DEF Bucket, Recent
  <2>2. t - Window \in Int /\ t - Window =< t - Window
    BY Spans
  <2> QED BY <2>1, <2>2, AfterTwice
<1>5. Append(past, t) \in Times /\ Len(Append(past, t)) =< limit
  <2>1. Len(past) \in Nat /\ Len(Append(past, t)) = Len(past) + 1
    BY <1>2
  <2> QED BY <1>2, <2>1 DEF Times
<1> QED BY <1>1, <1>3, <1>4, <1>5 DEF Bucket, Recent

LEMMA BucketTick ==
    ASSUME NEW t \in 0..MaxNow, t < MaxNow, NEW hits, NEW past, NEW limit \in Nat \ {0},
           Bucket(hits, past, limit, t)
    PROVE  Bucket(hits, After(past, t + 1 - Window), limit, t + 1)
<1>1. hits \in Seq(Int) /\ Ordered(hits) /\ past = After(hits, t - Window)
  BY TimesAreInt DEF Bucket, Recent
<1>2. After(past, t + 1 - Window) = After(hits, t + 1 - Window)
  BY <1>1, AfterTwice, Spans
<1>3. Upto(hits, t + 1)
  <2>1. t \in Int /\ t + 1 \in Int /\ t =< t + 1
    OBVIOUS
  <2> QED BY <1>1, <2>1, UptoLater DEF Bucket
<1>4. hits \in Times /\ Len(hits) =< limit /\ Ordered(hits)
  BY Zenon DEF Bucket
<1>5. Recent(hits, t + 1) = After(past, t + 1 - Window)
  <2>1. (t + 1) - Window = t + 1 - Window
    BY Spans
  <2> QED BY <1>2, <2>1, Zenon DEF Recent
<1> QED BY <1>3, <1>4, <1>5, Zenon DEF Bucket

LEMMA BucketSwept ==
    ASSUME NEW t \in 0..MaxNow, NEW hits, NEW past, NEW limit \in Nat \ {0},
           Bucket(hits, past, limit, t)
    PROVE  Bucket(Swept(hits, t), past, limit, t)
<1>1. CASE Swept(hits, t) = hits
  BY <1>1
<1>2. CASE Swept(hits, t) # hits
  <2>1. hits # <<>> /\ hits[Len(hits)] < t - MaxAge /\ Swept(hits, t) = <<>>
    BY <1>2 DEF Swept
  <2>2. hits \in Seq(Int) /\ Ordered(hits) /\ past = After(hits, t - Window)
    BY TimesAreInt DEF Bucket, Recent
  <2>3. Upto(hits, t - Window)
    <3> SUFFICES ASSUME NEW i \in 1..Len(hits) PROVE hits[i] =< t - Window
      BY DEF Upto
    <3>1. Len(hits) \in 1..Len(hits) /\ i =< Len(hits)
      BY <2>2
    <3>2. hits[i] =< hits[Len(hits)] /\ hits[i] \in Int /\ hits[Len(hits)] \in Int
      BY <2>2, <3>1 DEF Ordered
    <3>3. t - MaxAge =< t - Window /\ t - MaxAge \in Int /\ t - Window \in Int
      BY Spans
    <3> QED BY <2>1, <3>2, <3>3
  <2>4. past = <<>>
    BY <2>2, <2>3, AfterNone, Spans
  <2>5. <<>> \in Times /\ <<>> \in Seq(Int) /\ Len(<<>>) = 0
    BY DEF Times
  <2>6. Ordered(<<>>) /\ \A x \in Int : Upto(<<>>, x)
    BY <2>5 DEF Ordered, Upto
  <2>7. After(<<>>, t - Window) = <<>>
    BY <2>5, <2>6, AfterNone, Spans
  <2>8. Len(<<>>) =< limit
    BY <2>5
  <2> QED BY <2>1, <2>4, <2>5, <2>6, <2>7, <2>8, Spans DEF Bucket, Recent
<1> QED BY <1>1, <1>2

-----------------------------------------------------------------------------
(* Types and windows.                                                      *)

BucketInv ==
    /\ \A a \in Addresses : Bucket(addressHits[a], admitted[a], AddressLimit, now)
    /\ Bucket(keyHits, counted, KeyLimit, now)

LimitInv ==
    /\ TypeOK /\ BucketInv
    /\ Ordered(excess) /\ Upto(excess, now)

LEMMA LimitInit == Init => LimitInv
<1> SUFFICES ASSUME Init PROVE LimitInv
  OBVIOUS
<1>1. now \in 0..MaxNow /\ now \in Int
  BY Spans DEF Init
<1>2. <<>> \in Times /\ <<>> \in Seq(Int) /\ Len(<<>>) = 0
  BY DEF Times
<1>3. Ordered(<<>>) /\ Upto(<<>>, now) /\ Upto(<<>>, now - Window)
  BY <1>2 DEF Ordered, Upto
<1>4. Recent(<<>>, now) = <<>>
  BY <1>1, <1>2, <1>3, AfterNone, Spans DEF Recent
<1>5. AddressLimit \in Nat /\ KeyLimit \in Nat
  BY ActivationAssumption
<1>6. Bucket(<<>>, <<>>, AddressLimit, now) /\ Bucket(<<>>, <<>>, KeyLimit, now)
  BY <1>2, <1>3, <1>4, <1>5 DEF Bucket
<1>7. BucketInv
  BY <1>6 DEF Init, BucketInv
<1>8. TypeOK
  BY <1>1, <1>2, <1>5 DEF Init, TypeOK
<1> QED BY <1>3, <1>7, <1>8 DEF LimitInv, Init

\* The buckets and histories have their types by what they hold.
LEMMA TypeByBuckets ==
    ASSUME BucketInv', now' \in 0..MaxNow, waiting' \subseteq Handlers,
           excess' \in Times,
           addressHits' = [a \in Addresses |-> addressHits'[a]],
           admitted' = [a \in Addresses |-> admitted'[a]]
    PROVE  TypeOK'
<1>1. AddressLimit \in Nat \ {0} /\ KeyLimit \in Nat \ {0}
  BY ActivationAssumption
<1>2. ASSUME NEW a \in Addresses
      PROVE  addressHits'[a] \in Times /\ Len(addressHits'[a]) =< AddressLimit
             /\ admitted'[a] \in Times
  <2>1. Bucket(addressHits'[a], admitted'[a], AddressLimit, now')
    BY DEF BucketInv
  <2> QED BY <1>1, <2>1, BucketPast DEF Bucket
<1>3. keyHits' \in Times /\ Len(keyHits') =< KeyLimit /\ counted' \in Times
  <2>1. Bucket(keyHits', counted', KeyLimit, now')
    BY DEF BucketInv
  <2> QED BY <1>1, <2>1, BucketPast DEF Bucket
<1> QED BY <1>2, <1>3 DEF TypeOK

\* What an append, at the present, makes of the failures beyond the limit.
LEMMA ExcessGrows ==
    ASSUME LimitInv
    PROVE  /\ Append(excess, now) \in Times
           /\ Ordered(Append(excess, now)) /\ Upto(Append(excess, now), now)
<1>1. excess \in Seq(0..MaxNow) /\ excess \in Seq(Int) /\ now \in 0..MaxNow
  BY TimesAreInt DEF LimitInv, TypeOK, Times
<1>2. now \in Int /\ now - Window \in Int /\ now > now - Window
  BY <1>1, Spans
<1>3. Append(excess, now) \in Times
  BY <1>1 DEF Times
<1> QED BY <1>1, <1>2, <1>3, AfterAppend DEF LimitInv

LEMMA LimitStep == LimitInv /\ [Next]_vars => LimitInv'
<1> SUFFICES ASSUME LimitInv, [Next]_vars PROVE LimitInv'
  OBVIOUS
<1>0. /\ TypeOK /\ BucketInv /\ Ordered(excess) /\ Upto(excess, now)
      /\ now \in 0..MaxNow /\ AddressLimit \in Nat \ {0} /\ KeyLimit \in Nat \ {0}
      /\ Bucket(keyHits, counted, KeyLimit, now)
      /\ \A a \in Addresses : Bucket(addressHits[a], admitted[a], AddressLimit, now)
      /\ excess \in Times /\ waiting \subseteq Handlers
      /\ addressHits \in [Addresses -> Times] /\ admitted \in [Addresses -> Times]
  BY ActivationAssumption DEF LimitInv, TypeOK, BucketInv
<1>1. ASSUME BucketInv', now' \in 0..MaxNow, waiting' \subseteq Handlers, excess' \in Times,
             Ordered(excess'), Upto(excess', now'),
             addressHits' = [a \in Addresses |-> addressHits'[a]],
             admitted' = [a \in Addresses |-> admitted'[a]]
      PROVE  LimitInv'
  <2>1. TypeOK'
    BY <1>1, TypeByBuckets
  <2> QED BY <1>1, <2>1 DEF LimitInv
<1>2. CASE Tick
  <2>1. /\ now < MaxNow /\ now' = now + 1 /\ now' \in 0..MaxNow
        /\ admitted' = [a \in Addresses |-> After(admitted[a], now + 1 - Window)]
        /\ counted' = After(counted, now + 1 - Window)
        /\ excess' = After(excess, now + 1 - Window)
        /\ UNCHANGED <<addressHits, keyHits, waiting>>
    BY <1>0, <1>2, Spans DEF Tick
  <2>2. BucketInv'
    <3>1. ASSUME NEW a \in Addresses
          PROVE  Bucket(addressHits[a], After(admitted[a], now + 1 - Window), AddressLimit, now + 1)
      BY <1>0, <2>1, BucketTick
    <3>2. Bucket(keyHits, After(counted, now + 1 - Window), KeyLimit, now + 1)
      BY <1>0, <2>1, BucketTick
    <3>3. ASSUME NEW a \in Addresses
          PROVE  Bucket(addressHits'[a], admitted'[a], AddressLimit, now')
      BY <2>1, <3>1, Zenon
    <3>4. Bucket(keyHits', counted', KeyLimit, now')
      BY <2>1, <3>2, Zenon
    <3> QED BY <3>3, <3>4, Zenon DEF BucketInv
  <2>3. excess' \in Times /\ Ordered(excess') /\ Upto(excess', now)
    <3>1. excess \in Seq(0..MaxNow) /\ now + 1 - Window \in Int /\ now \in Int
      BY <1>0, Spans DEF Times
    <3> QED BY <1>0, <2>1, <3>1, AfterType, TimesAreInt DEF Times
  <2>4. Upto(excess', now')
    <3>1. excess' \in Seq(Int) /\ now \in Int /\ now' \in Int /\ now =< now'
      BY <1>0, <2>1, <2>3, TimesAreInt, Spans
    <3> QED BY <2>3, <3>1, UptoLater
  <2> QED BY <1>0, <1>1, <2>1, <2>2, <2>3, <2>4
<1>3. ASSUME NEW h \in Handlers, NEW a \in Addresses, ActivationRequest(h, a) PROVE LimitInv'
  <2>1. /\ Allows(addressHits[a], AddressLimit, now)
        /\ addressHits' = [addressHits EXCEPT ![a] = Hit(@, AddressLimit, now)]
        /\ admitted' = [admitted EXCEPT ![a] = Append(@, now)]
        /\ waiting' \subseteq Handlers
        /\ UNCHANGED <<now, keyHits, counted, excess>>
    BY <1>0, <1>3 DEF ActivationRequest
  <2>2. Bucket(Hit(addressHits[a], AddressLimit, now), Append(admitted[a], now), AddressLimit, now)
    BY <1>0, <2>1, BucketHit
  <2>3. ASSUME NEW b \in Addresses
        PROVE  Bucket(addressHits'[b], admitted'[b], AddressLimit, now)
    BY <1>0, <2>1, <2>2
  <2>4. BucketInv'
    BY <1>0, <2>1, <2>3 DEF BucketInv
  <2>5. /\ addressHits' = [b \in Addresses |-> addressHits'[b]]
        /\ admitted' = [b \in Addresses |-> admitted'[b]]
    BY <1>0, <2>1
  <2> QED BY <1>0, <1>1, <2>1, <2>4, <2>5
<1>4. ASSUME NEW h \in Handlers, Granted(h) PROVE LimitInv'
  BY <1>0, <1>1, <1>4 DEF Granted, BucketInv
<1>5. ASSUME NEW h \in Handlers, Failed(h) PROVE LimitInv'
  <2>1. /\ waiting' \subseteq Handlers /\ keyHits' = Hit(keyHits, KeyLimit, now)
        /\ UNCHANGED <<now, addressHits, admitted>>
    BY <1>0, <1>5 DEF Failed
  <2>2. CASE Allows(keyHits, KeyLimit, now)
    <3>1. counted' = Append(counted, now) /\ excess' = excess
      BY <1>5, <2>2 DEF Failed
    <3>2. Bucket(keyHits', counted', KeyLimit, now)
      BY <1>0, <2>1, <2>2, <3>1, BucketHit
    <3>3. BucketInv'
      BY <1>0, <2>1, <3>2 DEF BucketInv
    <3> QED BY <1>0, <1>1, <2>1, <3>1, <3>3
  <2>3. CASE ~ Allows(keyHits, KeyLimit, now)
    <3>1. counted' = counted /\ excess' = Append(excess, now) /\ keyHits' = keyHits
      BY <1>5, <2>1, <2>3 DEF Failed, Hit
    <3>2. BucketInv'
      BY <1>0, <2>1, <3>1 DEF BucketInv
    <3> QED BY <1>0, <1>1, <2>1, <3>1, <3>2, ExcessGrows
  <2> QED BY <2>2, <2>3
<1>6. CASE Sweep
  <2>1. /\ addressHits' = [a \in Addresses |-> Swept(addressHits[a], now)]
        /\ keyHits' = Swept(keyHits, now)
        /\ UNCHANGED <<now, waiting, admitted, counted, excess>>
    BY <1>6 DEF Sweep
  <2>2. ASSUME NEW a \in Addresses
        PROVE  Bucket(addressHits'[a], admitted[a], AddressLimit, now)
    BY <1>0, <2>1, BucketSwept
  <2>3. Bucket(keyHits', counted, KeyLimit, now)
    BY <1>0, <2>1, BucketSwept
  <2>4. BucketInv'
    BY <2>1, <2>2, <2>3 DEF BucketInv
  <2> QED BY <1>0, <1>1, <2>1, <2>4
<1>7. CASE UNCHANGED vars
  BY <1>0, <1>1, <1>7 DEF vars, BucketInv
<1> QED BY <1>2, <1>3, <1>4, <1>5, <1>6, <1>7 DEF Next

LEMMA LimitInvariance == Spec => []LimitInv
BY LimitInit, LimitStep, PTL DEF Spec

(* Every variable of the limits keeps its type; in particular no bucket     *)
(* grows beyond its limit.                                                  *)
THEOREM LimitsTypeCorrect == Spec => []TypeOK
<1>1. LimitInv => TypeOK
  BY DEF LimitInv
<1> QED BY <1>1, LimitInvariance, PTL

(* A limit is neither exceeded nor applied too soon: at any time the bucket *)
(* leaves just as many requests as the last window has room for, for all    *)
(* that is refused, pruned when a request comes in, or swept.               *)
THEOREM LimitsAreExact == Spec => []WindowsExact
<1>1. LimitInv => WindowsExact
  <2> SUFFICES ASSUME LimitInv PROVE WindowsExact
    OBVIOUS
  <2>1. now \in 0..MaxNow /\ AddressLimit \in Nat \ {0} /\ KeyLimit \in Nat \ {0}
    BY ActivationAssumption DEF LimitInv, TypeOK
  <2>2. ASSUME NEW a \in Addresses
        PROVE  /\ Len(admitted[a]) <= AddressLimit
               /\ Remaining(addressHits[a], AddressLimit, now) = AddressLimit - Len(admitted[a])
    BY <2>1, BucketPast DEF LimitInv, BucketInv
  <2>3. Len(counted) <= KeyLimit /\ Remaining(keyHits, KeyLimit, now) = KeyLimit - Len(counted)
    BY <2>1, BucketPast DEF LimitInv, BucketInv
  <2> QED BY <2>2, <2>3 DEF WindowsExact
<1> QED BY <1>1, LimitInvariance, PTL

-----------------------------------------------------------------------------
(* Failures beyond the limit.                                              *)

\* The handlers that still wait when another has filled the bucket.
Others == Cardinality(Handlers) - 1

\* After any cutoff each recorded failure, and the time before the first, has
\* at most Others failures that were not recorded; while the bucket is full
\* those that are still waiting are among them.
Accounted(x) ==
    LET beyond == Len(After(excess, x))
        share  == (Len(After(counted, x)) + 1) * Others
    IN  /\ beyond =< share
        /\ Len(counted) >= KeyLimit => beyond + Cardinality(waiting) =< share

FailureInv == LimitInv /\ \A x \in Int : Accounted(x)

LEMMA Share ==
    ASSUME NEW c \in Nat, NEW m \in Nat
    PROVE  /\ (c + 1) * m \in Nat
           /\ (c + 1 + 1) * m = (c + 1) * m + m
           /\ (0 + 1) * m = m
           /\ \A k \in Nat : c =< k => (c + 1) * m =< (k + 1) * m
<1>1. (c + 1) * m \in Nat /\ (c + 1 + 1) * m = (c + 1) * m + m /\ (0 + 1) * m = m
  OBVIOUS
<1>2. ASSUME NEW k \in Nat, c =< k PROVE (c + 1) * m =< (k + 1) * m
  <2>1. PICK d \in Nat : k = c + d
    <3>1. k - c \in Nat /\ k = c + (k - c)
      BY <1>2
    <3> QED BY <3>1
  <2>2. (k + 1) * m = (c + 1) * m + d * m /\ d * m \in Nat
    BY <2>1
  <2> QED BY <1>1, <2>2
<1> QED BY <1>1, <1>2

LEMMA Waiting ==
    ASSUME TypeOK
    PROVE  /\ Others \in Nat
           /\ Cardinality(waiting) \in Nat
           /\ \A h \in waiting : /\ Cardinality(waiting \ {h}) = Cardinality(waiting) - 1
                                 /\ Cardinality(waiting \ {h}) \in Nat
                                 /\ Cardinality(waiting \ {h}) =< Others
<1>1. IsFiniteSet(Handlers) /\ Handlers # {} /\ waiting \subseteq Handlers
  BY ActivationAssumption DEF TypeOK
<1>2. Cardinality(Handlers) \in Nat /\ Cardinality(Handlers) # 0
  BY <1>1, FS_CardinalityType, FS_EmptySet
<1>3. IsFiniteSet(waiting) /\ Cardinality(waiting) \in Nat
      /\ Cardinality(waiting) =< Cardinality(Handlers)
  BY <1>1, FS_Subset, FS_CardinalityType
<1>4. ASSUME NEW h \in waiting
      PROVE  /\ Cardinality(waiting \ {h}) = Cardinality(waiting) - 1
             /\ Cardinality(waiting \ {h}) \in Nat
             /\ Cardinality(waiting \ {h}) =< Others
  <2>1. IsFiniteSet(waiting \ {h}) /\ Cardinality(waiting \ {h}) = Cardinality(waiting) - 1
    BY <1>3, FS_RemoveElement
  <2>2. Cardinality(waiting \ {h}) \in Nat
    BY <2>1, FS_CardinalityType
  <2> QED BY <1>2, <1>3, <2>1, <2>2 DEF Others
<1>5. Others \in Nat
  BY <1>2 DEF Others
<1> QED BY <1>3, <1>4, <1>5

\* The histories, and what is left of them after any cutoff.
LEMMA Histories ==
    ASSUME LimitInv
    PROVE  /\ counted \in Seq(Int) /\ Ordered(counted) /\ Upto(counted, now)
           /\ excess \in Seq(Int) /\ Ordered(excess) /\ Upto(excess, now)
           /\ Len(counted) \in Nat /\ Len(counted) =< KeyLimit /\ KeyLimit \in Nat
           /\ now \in Int
           /\ Allows(keyHits, KeyLimit, now) <=> Len(counted) < KeyLimit
           /\ Remaining(keyHits, KeyLimit, now) = KeyLimit - Len(counted)
           /\ \A x \in Int : /\ Len(After(counted, x)) \in Nat
                             /\ Len(After(excess, x)) \in Nat
                             /\ After(counted, x) \in Seq(Int)
                             /\ After(excess, x) \in Seq(Int)
                             /\ Len(After(counted, x)) =< Len(counted)
<1>1. /\ now \in 0..MaxNow /\ KeyLimit \in Nat \ {0} /\ excess \in Times
      /\ Bucket(keyHits, counted, KeyLimit, now) /\ Ordered(excess) /\ Upto(excess, now)
  BY ActivationAssumption DEF LimitInv, TypeOK, BucketInv
<1>2. /\ counted \in Times /\ Ordered(counted) /\ Upto(counted, now) /\ Len(counted) =< KeyLimit
      /\ Remaining(keyHits, KeyLimit, now) = KeyLimit - Len(counted)
      /\ Allows(keyHits, KeyLimit, now) <=> Len(counted) < KeyLimit
  BY <1>1, BucketPast
<1>3. counted \in Seq(Int) /\ excess \in Seq(Int) /\ now \in Int
  BY <1>1, <1>2, TimesAreInt, Spans
<1>4. ASSUME NEW x \in Int
      PROVE  /\ Len(After(counted, x)) \in Nat /\ Len(After(excess, x)) \in Nat
             /\ After(counted, x) \in Seq(Int) /\ After(excess, x) \in Seq(Int)
             /\ Len(After(counted, x)) =< Len(counted)
  <2>1. After(counted, x) \in Seq(Int) /\ Len(After(counted, x)) =< Len(counted)
    BY <1>2, <1>3, AfterType
  <2>2. After(excess, x) \in Seq(Int)
    BY <1>1, <1>3, AfterType
  <2> QED BY <2>1, <2>2
<1>5. Len(counted) \in Nat
  BY <1>3
<1> QED BY <1>1, <1>2, <1>3, <1>4, <1>5

LEMMA FailureInit == Init => FailureInv
<1> SUFFICES ASSUME Init PROVE FailureInv
  OBVIOUS
<1>1. LimitInv
  BY LimitInit
<1>2. counted = <<>> /\ excess = <<>> /\ waiting = {} /\ Cardinality(waiting) = 0
  BY FS_EmptySet DEF Init
<1>3. ASSUME NEW x \in Int PROVE Accounted(x)
  <2>1. <<>> \in Seq(Int) /\ Len(<<>>) = 0 /\ Upto(<<>>, x)
    BY DEF Upto
  <2>2. After(counted, x) = <<>> /\ After(excess, x) = <<>>
    BY <1>2, <2>1, AfterNone
  <2>3. Others \in Nat
    BY <1>1, Waiting DEF LimitInv
  <2>4. (0 + 1) * Others = Others
    BY <2>3, Share
  <2> QED BY <1>2, <2>1, <2>2, <2>3, <2>4 DEF Accounted
<1> QED BY <1>1, <1>3 DEF FailureInv

\* A failure that is recorded.
LEMMA CountedAccounted ==
    ASSUME FailureInv, NEW h \in Handlers, Failed(h), Allows(keyHits, KeyLimit, now),
           NEW x \in Int
    PROVE  Accounted(x)'
<1>1. /\ counted' = Append(counted, now) /\ excess' = excess /\ waiting' = waiting \ {h}
      /\ h \in waiting
  BY DEF Failed
<1>2. LimitInv /\ TypeOK /\ Accounted(x)
  BY DEF FailureInv, LimitInv
<1> DEFINE b == Len(After(excess, x))
           c == Len(After(counted, x))
           w == Cardinality(waiting \ {h})
<1>3. b \in Nat /\ c \in Nat /\ w \in Nat /\ w =< Others /\ Others \in Nat
  BY <1>1, <1>2, Histories, Waiting
<1>4. CASE now > x
  <2>1. After(counted', x) = Append(After(counted, x), now)
    BY <1>1, <1>2, <1>4, Histories, AfterAppend
  <2>2. Len(After(counted', x)) = c + 1
    BY <1>2, <2>1, Histories
  <2>3. b =< (c + 1) * Others
    BY <1>2 DEF Accounted
  <2>4. (c + 1) * Others \in Nat /\ (c + 1 + 1) * Others = (c + 1) * Others + Others
    BY <1>3, Share
  <2>5. b =< (c + 1 + 1) * Others /\ b + w =< (c + 1 + 1) * Others
    <3> DEFINE s == (c + 1) * Others
    <3> HIDE DEF b, c, w, s
    <3>1. s \in Nat /\ b =< s
      BY <2>3, <2>4 DEF s
    <3>2. b =< s + Others /\ b + w =< s + Others
      BY <1>3, <3>1
    <3> QED BY <2>4, <3>2 DEF s
  <2> QED BY <1>1, <2>2, <2>5 DEF Accounted
<1>5. CASE ~ (now > x)
  <2>1. Upto(counted', x) /\ Upto(excess', x) /\ counted' \in Seq(Int) /\ excess' \in Seq(Int)
    <3>1. counted \in Seq(Int) /\ excess \in Seq(Int) /\ now \in Int /\ now =< x
      BY <1>2, <1>5, Histories
    <3>2. Upto(counted, x) /\ Upto(excess, x)
      BY <1>2, <3>1, Histories, UptoLater
    <3>3. counted' \in Seq(Int) /\ Len(counted') = Len(counted) + 1 /\ Len(counted) \in Nat
          /\ counted'[Len(counted) + 1] = now
          /\ \A i \in 1..Len(counted) : counted'[i] = counted[i]
      BY <1>1, <3>1
    <3>4. \A i \in 1..Len(counted') : i \in 1..Len(counted) \/ i = Len(counted) + 1
      BY <3>3
    <3> QED BY <1>1, <3>1, <3>2, <3>3, <3>4 DEF Upto
  <2>2. After(counted', x) = <<>> /\ After(excess', x) = <<>>
    BY <2>1, AfterNone
  <2>3. Len(<<>>) = 0 /\ (0 + 1) * Others = Others
    BY <1>3, Share
  <2> QED BY <1>1, <1>3, <2>2, <2>3 DEF Accounted
<1> QED BY <1>4, <1>5

\* One that is not.
LEMMA ExcessAccounted ==
    ASSUME FailureInv, NEW h \in Handlers, Failed(h), ~ Allows(keyHits, KeyLimit, now),
           NEW x \in Int
    PROVE  Accounted(x)'
<1>1. /\ excess' = Append(excess, now) /\ counted' = counted /\ waiting' = waiting \ {h}
      /\ h \in waiting
  BY DEF Failed
<1>2. LimitInv /\ TypeOK /\ Accounted(x)
  BY DEF FailureInv, LimitInv
<1> DEFINE b == Len(After(excess, x))
           s == (Len(After(counted, x)) + 1) * Others
           w == Cardinality(waiting)
<1>3. /\ b \in Nat /\ w \in Nat /\ Cardinality(waiting \ {h}) = w - 1 /\ w - 1 \in Nat
      /\ s \in Nat
  BY <1>1, <1>2, Histories, Waiting, Share
<1>4. b + w =< s
  <2>1. Len(counted) >= KeyLimit
    BY <1>2, Histories
  <2> QED BY <1>2, <2>1 DEF Accounted
<1>5. Len(After(excess', x)) \in {b, b + 1}
  <2>1. CASE now > x
    <3>1. After(excess', x) = Append(After(excess, x), now)
      BY <1>1, <1>2, <2>1, Histories, AfterAppend
    <3> QED BY <1>2, <3>1, Histories
  <2>2. CASE ~ (now > x)
    <3>1. excess \in Seq(Int) /\ now \in Int /\ now =< x /\ excess' \in Seq(Int)
      BY <1>1, <1>2, <2>2, Histories
    <3>2. Upto(excess, x)
      BY <1>2, <3>1, Histories, UptoLater
    <3>3. Len(excess') = Len(excess) + 1 /\ Len(excess) \in Nat
          /\ excess'[Len(excess) + 1] = now
          /\ \A i \in 1..Len(excess) : excess'[i] = excess[i]
      BY <1>1, <3>1
    <3>4. \A i \in 1..Len(excess') : i \in 1..Len(excess) \/ i = Len(excess) + 1
      BY <3>3
    <3>5. Upto(excess', x)
      BY <3>1, <3>2, <3>3, <3>4 DEF Upto
    <3>6. After(excess', x) = <<>> /\ After(excess, x) = <<>>
      BY <3>1, <3>2, <3>5, AfterNone
    <3> QED BY <3>6
  <2> QED BY <2>1, <2>2
<1>6. Len(After(excess', x)) =< s /\ Len(After(excess', x)) + (w - 1) =< s
  <2> HIDE DEF b, s, w
  <2> QED BY <1>3, <1>4, <1>5
<1> QED BY <1>1, <1>3, <1>6 DEF Accounted

\* The window moves on.
LEMMA TickAccounted ==
    ASSUME FailureInv, Tick, NEW x \in Int
    PROVE  Accounted(x)'
<1> DEFINE c == now + 1 - Window
           z == IF c =< x THEN x ELSE c
<1>1. /\ excess' = After(excess, c) /\ counted' = After(counted, c) /\ waiting' = waiting
  BY DEF Tick
<1>2. LimitInv /\ now \in 0..MaxNow /\ c \in Int /\ z \in Int
  BY Spans DEF FailureInv, LimitInv, TypeOK
<1>3. Accounted(z)
  BY <1>2 DEF FailureInv
<1> HIDE DEF c
<1>4. After(excess', x) = After(excess, z) /\ After(counted', x) = After(counted, z)
  BY <1>1, <1>2, Histories, AfterTwice
<1>5. Len(counted') >= KeyLimit => Len(counted) >= KeyLimit
  BY <1>1, <1>2, Histories
<1> HIDE DEF z
<1> QED BY <1>1, <1>3, <1>4, <1>5 DEF Accounted

LEMMA FailureStep == FailureInv /\ [Next]_vars => FailureInv'
<1> SUFFICES ASSUME FailureInv, [Next]_vars PROVE FailureInv'
  OBVIOUS
<1>0. LimitInv /\ LimitInv' /\ TypeOK
  BY LimitStep DEF FailureInv, LimitInv
<1> SUFFICES ASSUME NEW x \in Int PROVE Accounted(x)'
  BY <1>0 DEF FailureInv
<1>1. Accounted(x)
  BY DEF FailureInv
<1>2. CASE Tick
  BY <1>2, TickAccounted
<1>3. ASSUME NEW h \in Handlers, NEW a \in Addresses, ActivationRequest(h, a) PROVE Accounted(x)'
  <2>1. counted' = counted /\ excess' = excess
    BY <1>3 DEF ActivationRequest
  <2>2. CASE waiting' = waiting
    BY <1>1, <2>1, <2>2 DEF Accounted
  <2>3. CASE Remaining(keyHits, KeyLimit, now) > 0
    <3>1. ~ (Len(counted) >= KeyLimit)
      BY <1>0, <2>3, Histories
    <3> QED BY <1>1, <2>1, <3>1 DEF Accounted
  <2> QED BY <1>3, <2>2, <2>3 DEF ActivationRequest
<1>4. ASSUME NEW h \in Handlers, Granted(h) PROVE Accounted(x)'
  <2>1. counted' = counted /\ excess' = excess /\ waiting' = waiting \ {h} /\ h \in waiting
    BY <1>4 DEF Granted
  <2> DEFINE b == Len(After(excess, x))
             s == (Len(After(counted, x)) + 1) * Others
             w == Cardinality(waiting)
  <2>2. /\ b \in Nat /\ w \in Nat /\ Cardinality(waiting') = w - 1 /\ s \in Nat
    BY <1>0, <2>1, Histories, Waiting, Share
  <2>3. b =< s /\ (Len(counted) >= KeyLimit => b + w =< s)
    BY <1>1 DEF Accounted
  <2>4. b =< s /\ (Len(counted) >= KeyLimit => b + Cardinality(waiting') =< s)
    <3> HIDE DEF b, s, w
    <3> QED BY <2>2, <2>3
  <2> QED BY <2>1, <2>4 DEF Accounted
<1>5. ASSUME NEW h \in Handlers, Failed(h) PROVE Accounted(x)'
  BY <1>5, CountedAccounted, ExcessAccounted
<1>6. CASE Sweep
  BY <1>1, <1>6 DEF Sweep, Accounted
<1>7. CASE UNCHANGED vars
  BY <1>1, <1>7 DEF vars, Accounted
<1> QED BY <1>2, <1>3, <1>4, <1>5, <1>6, <1>7 DEF Next

(* Attempts that overlap fail beyond the limit at most as often as the      *)
(* others can still be waiting each time that one fills the bucket: the     *)
(* failures of any window are bounded by the limit and their number.        *)
THEOREM FailuresAreBounded == Spec => []FailuresBounded
<1>1. FailureInv => FailuresBounded
  <2> SUFFICES ASSUME FailureInv PROVE FailuresBounded
    OBVIOUS
  <2>1. LimitInv /\ TypeOK /\ Accounted(-1)
    BY DEF FailureInv, LimitInv
  <2>2. After(excess, -1) = excess /\ After(counted, -1) = counted
    <3>1. excess \in Times /\ counted \in Times
      BY <2>1 DEF TypeOK
    <3>2. \A times \in Times : \A i \in 1..Len(times) : times[i] > -1
      BY Spans DEF Times
    <3> QED BY <3>1, <3>2, TimesAreInt, AfterAll
  <2>3. /\ Len(counted) \in Nat /\ Len(excess) \in Nat /\ Len(counted) =< KeyLimit
        /\ KeyLimit \in Nat /\ Others \in Nat
    BY <2>1, <2>2, Histories, Waiting
  <2> DEFINE s == (Len(counted) + 1) * Others
             r == (KeyLimit + 1) * Others
  <2>4. Len(excess) =< s
    BY <2>1, <2>2 DEF Accounted
  <2>5. s \in Nat /\ r \in Nat /\ s =< r
    BY <2>3, Share
  <2>6. Len(counted) + Len(excess) =< KeyLimit + r
    <3> HIDE DEF s, r
    <3> QED BY <2>3, <2>4, <2>5
  <2> QED BY <2>6 DEF FailuresBounded, Others
<1> QED BY <1>1, FailureInit, FailureStep, PTL DEF Spec
=============================================================================
