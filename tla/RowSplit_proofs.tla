---------------------------- MODULE RowSplit_proofs ----------------------------
(***************************************************************************)
(* That the split of the rows among a team of threads is a partition, for  *)
(* every number of rows and of threads.                                    *)
(***************************************************************************)
EXTENDS RowSplit, TLAPS

\* Division with remainder.
LEMMA Division ==
  ASSUME NEW a \in Nat, NEW b \in Nat \ {0}
  PROVE  /\ a \div b \in Nat
         /\ a % b \in 0 .. b - 1
         /\ a = b * (a \div b) + (a % b)
  BY SMT

\* A quotient is below a bound on the dividend.
LEMMA QuotientBelow ==
  ASSUME NEW a \in Nat, NEW b \in Nat \ {0}, NEW c \in Nat, a < b * c
  PROVE  a \div b < c
  BY SMT

\* Products grow with their factors.
LEMMA ProductMonotone ==
  ASSUME NEW q \in Nat, NEW a \in Nat, NEW b \in Nat, a <= b
  PROVE  q * a <= q * b
  BY SMT

\* With q lines for everybody and one more for each of the first r threads.
LEMMA SliceBounds ==
  ASSUME NEW T \in Nat \ {0}, NEW t \in 0 .. T - 1
  PROVE  LET q == N \div T
             r == N % T
         IN  /\ t < r  => From(T, t) = q * t + t /\ To(T, t) = q * (t + 1) + t + 1
             /\ t >= r => From(T, t) = q * t + r /\ To(T, t) = q * (t + 1) + r
  <1> DEFINE q == N \div T
             r == N % T
  <1>1. q \in Nat /\ r \in 0 .. T - 1
    BY Division, NAssumption, Zenon
  <1>2. (q + 1) * t = q * t + t /\ q * (t + 1) = q * t + q
    BY <1>1, SMT
  <1>3. /\ t < r    => From(T, t) = (q + 1) * t /\ Lines(T, t) = q + 1
        /\ ~(t < r) => From(T, t) = (q * t) + r /\ Lines(T, t) = q
        /\ To(T, t) = From(T, t) + Lines(T, t)
    BY Zenon DEF From, To, Lines
  <1> HIDE DEF q, r
  <1>4. q * t \in Nat
    BY <1>1, SMT
  <1>5. /\ t < r  => From(T, t) = q * t + t /\ To(T, t) = q * (t + 1) + t + 1
        /\ t >= r => From(T, t) = q * t + r /\ To(T, t) = q * (t + 1) + r
    BY <1>1, <1>2, <1>3, <1>4
  <1> QED
    BY <1>5 DEF q, r

\* The slice of a thread lies within the rows.
LEMMA SliceInRows ==
  ASSUME NEW T \in Nat \ {0}, NEW t \in 0 .. T - 1
  PROVE  /\ From(T, t) \in Nat /\ To(T, t) \in Nat
         /\ From(T, t) <= To(T, t) /\ To(T, t) <= N
         /\ Slice(T, t) \subseteq Rows
  <1> DEFINE q == N \div T
             r == N % T
  <1>1. q \in Nat /\ r \in 0 .. T - 1 /\ N = T * q + r
    BY Division, NAssumption, Zenon
  <1>2. q * t \in Nat /\ q * (t + 1) = q * t + q /\ q * (t + 1) <= q * T
    <2>1. t \in Nat /\ t + 1 \in Nat /\ T \in Nat /\ t + 1 <= T
      OBVIOUS
    <2>2. q * (t + 1) <= q * T
      BY <1>1, <2>1, ProductMonotone
    <2> QED
      BY <1>1, <2>1, <2>2, SMT
  <1>3. q * T = T * q
    BY <1>1, SMT
  <1> HIDE DEF q, r
  <1>4. /\ t < r  => From(T, t) = q * t + t /\ To(T, t) = q * (t + 1) + t + 1
        /\ t >= r => From(T, t) = q * t + r /\ To(T, t) = q * (t + 1) + r
    BY SliceBounds DEF q, r
  <1>5. /\ From(T, t) \in Nat /\ To(T, t) \in Nat
        /\ From(T, t) <= To(T, t) /\ To(T, t) <= N
    BY <1>1, <1>2, <1>3, <1>4, NAssumption
  <1> QED
    BY <1>5, NAssumption DEF Slice, Rows

\* Every row belongs to a thread of the team: none is left out, whatever the
\* number of threads.
LEMMA RowsCovered ==
  ASSUME NEW T \in Nat \ {0}, NEW i \in Rows
  PROVE  \E t \in 0 .. T - 1 : i \in Slice(T, t)
  <1> DEFINE q == N \div T
             r == N % T
  <1>1. q \in Nat /\ r \in 0 .. T - 1 /\ N = T * q + r
    BY Division, NAssumption, Zenon
  <1>2. i \in Nat /\ i < N
    BY NAssumption DEF Rows
  <1> HIDE DEF q, r
  <1>3. CASE i < (q + 1) * r
    <2> DEFINE t == i \div (q + 1)
    <2>1. q + 1 \in Nat \ {0} /\ r \in Nat
      BY <1>1
    <2>2. t \in Nat /\ i % (q + 1) \in 0 .. q /\ i = (q + 1) * t + (i % (q + 1))
      <3>1. /\ t \in Nat /\ i % (q + 1) \in 0 .. (q + 1) - 1
            /\ i = (q + 1) * t + (i % (q + 1))
        BY <2>1, <1>2, Division, Zenon
      <3> QED
        BY <3>1, <1>1
    <2>3. t < r
      BY <2>1, <1>2, <1>3, QuotientBelow, Zenon
    <2> HIDE DEF t
    <2>4. t \in 0 .. T - 1
      BY <2>2, <2>3, <1>1
    <2>5. (q + 1) * t = q * t + t /\ q * (t + 1) = q * t + q /\ q * t \in Nat
      BY <1>1, <2>2, SMT
    <2>6. From(T, t) = q * t + t /\ To(T, t) = q * (t + 1) + t + 1
      BY <2>3, <2>4, SliceBounds DEF q, r
    <2>7. i \in Slice(T, t)
      BY <2>2, <2>5, <2>6, <1>1, <1>2 DEF Slice
    <2> QED
      BY <2>4, <2>7
  <1>4. CASE i >= (q + 1) * r
    <2>1. (q + 1) * r = q * r + r /\ q * r \in Nat
      BY <1>1, SMT
    <2>2. q # 0
      <3>1. ASSUME q = 0 PROVE FALSE
        BY <3>1, <1>1, <1>2, <1>4, <2>1, SMT
      <3> QED
        BY <3>1
    <2> DEFINE t == (i - r) \div q
    <2>3. i - r \in Nat /\ q \in Nat \ {0}
      BY <1>1, <1>2, <1>4, <2>1, <2>2
    <2>4. t \in Nat /\ (i - r) % q \in 0 .. q - 1 /\ i - r = q * t + ((i - r) % q)
      BY <2>3, Division, Zenon
    <2>5. t < T
      <3>1. i - r < q * T
        BY <1>1, <1>2, SMT
      <3> QED
        BY <3>1, <2>3, QuotientBelow, Zenon, Zenon
    <2> HIDE DEF t
    <2>6. t >= r
      <3>1. SUFFICES ASSUME t < r PROVE FALSE
        BY <2>4, <1>1
      <3>2. q * (t + 1) <= q * r /\ q * (t + 1) = q * t + q
        <4>1. t + 1 \in Nat /\ r \in Nat /\ t + 1 <= r
          BY <3>1, <2>4, <1>1
        <4>2. q * (t + 1) <= q * r
          BY <4>1, <1>1, ProductMonotone
        <4> QED
          BY <4>2, <1>1, <2>4, SMT
      <3> QED
        BY <3>2, <2>1, <2>4, <1>1, <1>2, <1>4
    <2>7. t \in 0 .. T - 1
      BY <2>4, <2>5
    <2>8. q * (t + 1) = q * t + q /\ q * t \in Nat
      BY <1>1, <2>4, SMT
    <2>9. From(T, t) = q * t + r /\ To(T, t) = q * (t + 1) + r
      BY <2>6, <2>7, SliceBounds DEF q, r
    <2>10. i \in Slice(T, t)
      BY <2>4, <2>8, <2>9, <1>1, <1>2 DEF Slice
    <2> QED
      BY <2>7, <2>10
  <1> QED
    BY <1>1, <1>2, <1>3, <1>4, SMT

\* No row belongs to two threads.
LEMMA RowsDisjoint ==
  ASSUME NEW T \in Nat \ {0}, NEW t \in 0 .. T - 1, NEW u \in 0 .. T - 1, t # u
  PROVE  Slice(T, t) \cap Slice(T, u) = {}
  <1> DEFINE q == N \div T
             r == N % T
  <1>1. q \in Nat /\ r \in 0 .. T - 1
    BY Division, NAssumption, Zenon
  <1> HIDE DEF q, r
  <1>2. ASSUME NEW a \in 0 .. T - 1, NEW b \in 0 .. T - 1, a < b
        PROVE  To(T, a) <= From(T, b)
    <2>1. q * (a + 1) <= q * b /\ q * (a + 1) \in Nat /\ q * b \in Nat
      <3>1. a + 1 \in Nat /\ b \in Nat /\ a + 1 <= b
        BY <1>2
      <3>2. q * (a + 1) <= q * b
        BY <3>1, <1>1, ProductMonotone
      <3> QED
        BY <3>1, <3>2, <1>1, SMT
    <2>2. /\ a < r  => To(T, a) = q * (a + 1) + a + 1
          /\ a >= r => To(T, a) = q * (a + 1) + r
          /\ b < r  => From(T, b) = q * b + b
          /\ b >= r => From(T, b) = q * b + r
      BY SliceBounds DEF q, r
    <2> QED
      BY <2>1, <2>2, <1>1, <1>2
  <1>3. t < u \/ u < t
    OBVIOUS
  <1>4. /\ From(T, t) \in Nat /\ To(T, t) \in Nat
        /\ From(T, u) \in Nat /\ To(T, u) \in Nat
    BY SliceInRows
  <1> QED
    BY <1>2, <1>3, <1>4 DEF Slice
=============================================================================
