------------------------------ MODULE FoldLemmas ------------------------------
(***************************************************************************)
(* What the proofs about folds over sequences rest on: FoldLeft of the     *)
(* community modules is a recursive function on the subsets of the domain  *)
(* of a sequence.  It exists because a larger set needs only the smaller   *)
(* ones, and its values on 1 .. 0, 1 .. 1, ... are the partial results.    *)
(* Everything is by least counterexample.                                  *)
(***************************************************************************)
EXTENDS Integers, Sequences, SequencesExt, FiniteSets, FiniteSetTheorems,
        WellFoundedInduction, TLAPS

\* A set of numbers that is not empty has a least one.
LEMMA LeastNumber ==
  ASSUME NEW T \in SUBSET Nat, T # {}
  PROVE  \E n \in T : \A m \in T : n <= m
  <1>1. IsWellFoundedOn(OpToRel(<, Nat), Nat)
    BY NatLessThanWellFounded
  <1>2. PICK n \in T : \A m \in T : ~ (<<m, n>> \in OpToRel(<, Nat))
    BY <1>1, WFMin
  <1>3. \A m \in T : ~ (m < n)
    BY <1>2 DEF OpToRel
  <1> QED
    BY <1>3

\* The greatest number of a set belongs to it.
LEMMA MaxOf ==
  ASSUME NEW n \in Nat, NEW s \in SUBSET (1 .. n), s # {}
  PROVE  Max(s) \in s
  <1> DEFINE gaps == {n - x : x \in s}
  <1>1. gaps \in SUBSET Nat /\ gaps # {}
    <2>1. ASSUME NEW x \in s PROVE n - x \in Nat
      OBVIOUS
    <2> QED
      BY <2>1
  <1>2. PICK g \in gaps : \A h \in gaps : g <= h
    BY <1>1, LeastNumber
  <1>3. PICK x \in s : g = n - x
    OBVIOUS
  <1>4. \A y \in s : x >= y
    <2>1. ASSUME NEW y \in s PROVE x >= y
      <3>1. n - y \in gaps
        OBVIOUS
      <3>2. n - x <= n - y
        BY <1>2, <1>3, <3>1
      <3> QED
        BY <3>2
    <2> QED
      BY <2>1
  <1> QED
    BY <1>4 DEF Max

\* The greatest number of 1 .. n is n.
LEMMA MaxOfInterval ==
  ASSUME NEW n \in Nat \ {0}
  PROVE  Max(1 .. n) = n /\ (1 .. n) \ {n} = 1 .. n - 1
  <1>1. Max(1 .. n) \in 1 .. n /\ \A y \in 1 .. n : Max(1 .. n) >= y
    <2>1. \E x \in 1 .. n : \A y \in 1 .. n : x >= y
      <3>1. n \in 1 .. n /\ \A y \in 1 .. n : n >= y
        OBVIOUS
      <3> QED
        BY <3>1
    <2> QED
      BY <2>1 DEF Max
  <1> QED
    BY <1>1

\* What holds at 0 and goes from each number to the next holds up to n.
LEMMA Climb ==
  ASSUME NEW n \in Nat, NEW S, 0 \in S,
         \A i \in 1 .. n : i - 1 \in S => i \in S
  PROVE  \A i \in 0 .. n : i \in S
  <1> DEFINE bad == {i \in 0 .. n : i \notin S}
  <1>1. SUFFICES ASSUME bad # {} PROVE FALSE
    OBVIOUS
  <1>2. bad \in SUBSET Nat
    OBVIOUS
  <1>3. PICK i \in bad : \A j \in bad : i <= j
    BY <1>1, <1>2, LeastNumber, Zenon
  <1>4. i # 0 /\ i - 1 \in 0 .. n /\ i - 1 \notin bad /\ i \in 1 .. n
    BY <1>3
  <1> QED
    BY <1>3, <1>4

\* The equation of a fold over the subsets of D, of a step function.
FoldStep(D, base, step, g) ==
  [s \in SUBSET D |->
    IF s = {} THEN base ELSE step[Max(s)][g[s \ {Max(s)}]]]

\* The recursive function of a fold over 1 .. n exists.
LEMMA FoldExists ==
  \A n \in Nat : \A A : \A base \in A, step \in [1 .. n -> [A -> A]] :
    \E g \in [SUBSET (1 .. n) -> A] : g = FoldStep(1 .. n, base, step, g)
  <1> SUFFICES ASSUME NEW n \in Nat, NEW A, NEW base \in A,
                      NEW step \in [1 .. n -> [A -> A]]
               PROVE  \E g \in [SUBSET (1 .. n) -> A] :
                        g = FoldStep(1 .. n, base, step, g)
    OBVIOUS
  <1> DEFINE D == 1 .. n
             upto(k) == {g \in [SUBSET D -> A] :
               \A s \in SUBSET D : Cardinality(s) <= k => g[s] = FoldStep(D, base, step, g)[s]}
  <1>0. IsFiniteSet(D)
    <2>1. 1 \in Int /\ n \in Int
      OBVIOUS
    <2> QED
      BY <2>1, FS_Interval
  <1>1. \A s \in SUBSET D : IsFiniteSet(s) /\ Cardinality(s) \in Nat
    BY <1>0, FS_Subset, FS_CardinalityType
  <1>2. upto(0) # {}
    <2>1. [s \in SUBSET D |-> base] \in upto(0)
      <3>1. \A s \in SUBSET D : Cardinality(s) <= 0 => s = {}
        BY <1>1, FS_EmptySet
      <3> QED
        BY <3>1 DEF FoldStep
    <2> QED
      BY <2>1
  <1>3. ASSUME NEW k \in Nat, NEW g \in upto(k)
        PROVE  FoldStep(D, base, step, g) \in upto(k + 1)
    <2> DEFINE h == FoldStep(D, base, step, g)
    <2>0. \A s \in SUBSET D : s # {} => Max(s) \in s /\ Max(s) \in D
      BY MaxOf
    <2>1. h \in [SUBSET D -> A]
      <3>1. ASSUME NEW s \in SUBSET D PROVE h[s] \in A
        <4>1. CASE s = {}
          BY <4>1 DEF FoldStep
        <4>2. CASE s # {}
          <5>1. Max(s) \in D /\ g[s \ {Max(s)}] \in A
            BY <2>0, <4>2
          <5>2. h[s] = step[Max(s)][g[s \ {Max(s)}]]
            BY <4>2 DEF FoldStep
          <5> HIDE DEF h, upto
          <5> QED
            BY <5>1, <5>2
        <4> QED
          BY <4>1, <4>2
      <3> QED
        BY <3>1 DEF FoldStep
    <2>2. ASSUME NEW s \in SUBSET D, Cardinality(s) <= k + 1
          PROVE  h[s] = FoldStep(D, base, step, h)[s]
      <3>1. CASE s = {}
        BY <3>1 DEF FoldStep
      <3>2. CASE s # {}
        <4> DEFINE x == Max(s)
        <4>1. x \in s
          BY <2>0, <3>2
        <4>2. /\ h[s] = step[x][g[s \ {x}]]
              /\ FoldStep(D, base, step, h)[s] = step[x][h[s \ {x}]]
          BY <3>2 DEF FoldStep
        <4> HIDE DEF x
        <4>3. Cardinality(s \ {x}) <= k /\ s \ {x} \in SUBSET D
          <5>1. IsFiniteSet(s) /\ Cardinality(s) \in Nat
            BY <1>1
          <5>2. Cardinality(s \ {x}) = IF x \in s THEN Cardinality(s) - 1 ELSE Cardinality(s)
            BY <5>1, FS_RemoveElement, Zenon
          <5>3. Cardinality(s \ {x}) = Cardinality(s) - 1
            BY <4>1, <5>2, Zenon
          <5>4. Cardinality(s) <= k + 1
            BY <2>2
          <5>5. Cardinality(s \ {x}) <= k
            <6> HIDE DEF D, h, upto
            <6> QED
              BY <5>1, <5>3, <5>4
          <5> QED
            BY <5>5
        <4>4. g[s \ {x}] = h[s \ {x}]
          BY <4>3
        <4> QED
          BY <4>2, <4>4
      <3> QED
        BY <3>1, <3>2
    <2> QED
      BY <2>1, <2>2
  <1> HIDE DEF upto
  <1>4. \A k \in Nat : upto(k) # {}
    <2>1. SUFFICES ASSUME {k \in Nat : upto(k) = {}} # {} PROVE FALSE
      OBVIOUS
    <2>2. PICK k \in {m \in Nat : upto(m) = {}} : \A m \in {m \in Nat : upto(m) = {}} : k <= m
      BY <2>1, LeastNumber
    <2>3. k # 0
      BY <1>2, <2>2
    <2>4. k - 1 \in Nat /\ upto(k - 1) # {}
      BY <2>2, <2>3
    <2>5. upto((k - 1) + 1) # {}
      BY <1>3, <2>4
    <2> QED
      BY <2>2, <2>5
  <1>5. PICK g \in upto(Cardinality(D)) : TRUE
    BY <1>1, <1>4
  <1>6. \A s \in SUBSET D : Cardinality(s) <= Cardinality(D)
    BY <1>0, FS_Subset
  <1>7. g \in [SUBSET D -> A] /\ \A s \in SUBSET D : g[s] = FoldStep(D, base, step, g)[s]
    BY <1>6 DEF upto
  <1>8. FoldStep(D, base, step, g) = [s \in SUBSET D |-> FoldStep(D, base, step, g)[s]]
    BY DEF FoldStep
  <1> QED
    BY <1>7, <1>8
=============================================================================
