------------------------ MODULE BlockDistributor_proofs ------------------------
(***************************************************************************)
(* What the content block distributor of task6 keeps true, for every       *)
(* number of groups, of blocks in a group, of known starts, of files and   *)
(* of calls, however rand() falls: proofs about BlockDistributor.          *)
(***************************************************************************)
EXTENDS BlockDistributor, FoldLemmas

-----------------------------------------------------------------------------
(* The lengths of the block pointers of a node.                            *)

\* The partial sums of the lengths of a sequence of block pointers.
Lengths(seq) == FoldLeft(LAMBDA sum, bp : sum + bp.length, 0, seq)

\* The lengths of the block pointers are partial sums.
LEMMA LengthsSummed ==
  ASSUME NEW seq \in Seq(BlockPointer)
  PROVE  \E h \in [0 .. Len(seq) -> Nat] :
           /\ h[0] = 0
           /\ \A i \in 1 .. Len(seq) : h[i] = h[i - 1] + seq[i].length
           /\ Lengths(seq) = h[Len(seq)]
  <1> DEFINE n == Len(seq)
             D == 1 .. n
             step == [i \in D |-> [a \in Nat |-> a + seq[i].length]]
             Eq(g) == [s \in SUBSET D |->
                        IF s = {} THEN 0 ELSE g[s \ {Max(s)}] + seq[Max(s)].length]
             iter == CHOOSE g : g = Eq(g)
             h == [i \in 0 .. n |-> iter[1 .. i]]
  <1>1. n \in Nat /\ DOMAIN seq = D /\ \A i \in D : seq[i].length \in Nat
    <2>1. \A i \in D : seq[i] \in BlockPointer
      OBVIOUS
    <2> QED
      BY <2>1 DEF BlockPointer
  <1>2. Lengths(seq) = iter[D]
    BY <1>1 DEF Lengths, FoldLeft, MapThenFoldSet
  <1>3. step \in [D -> [Nat -> Nat]] /\ 0 \in Nat
    BY <1>1
  <1> HIDE DEF step, n
  <1>4. PICK g \in [SUBSET D -> Nat] : g = FoldStep(D, 0, step, g)
    <2>1. n \in Nat /\ 0 \in Nat /\ step \in [1 .. n -> [Nat -> Nat]]
      BY <1>1, <1>3
    <2>2. \A A : \A base \in A, f \in [1 .. n -> [A -> A]] :
            \E g \in [SUBSET (1 .. n) -> A] : g = FoldStep(1 .. n, base, f, g)
      BY <2>1, FoldExists, Zenon
    <2> QED
      BY <2>1, <2>2, Zenon
  <1>5. g = Eq(g)
    <2>1. ASSUME NEW s \in SUBSET D PROVE FoldStep(D, 0, step, g)[s] = Eq(g)[s]
      <3>1. CASE s = {}
        BY <3>1 DEF FoldStep
      <3>2. CASE s # {}
        <4>1. Max(s) \in D /\ g[s \ {Max(s)}] \in Nat
          BY <1>1, <3>2, MaxOf
        <4>2. step[Max(s)][g[s \ {Max(s)}]] = g[s \ {Max(s)}] + seq[Max(s)].length
          BY <4>1 DEF step
        <4> QED
          BY <3>2, <4>2 DEF FoldStep
      <3> QED
        BY <3>1, <3>2
    <2> QED
      BY <1>4, <2>1 DEF FoldStep
  <1>6. iter = Eq(iter)
    BY <1>5, Zenon
  <1> HIDE DEF iter
  <1>7. h[0] = 0
    BY <1>1, <1>6
  <1>8. ASSUME NEW i \in D PROVE h[i] = h[i - 1] + seq[i].length
    <2>1. Max(1 .. i) = i /\ (1 .. i) \ {i} = 1 .. i - 1
      BY <1>1, MaxOfInterval
    <2>2. 1 .. i \in SUBSET D /\ 1 .. i # {}
      BY <1>1
    <2>3. iter[1 .. i] = iter[1 .. i - 1] + seq[i].length
      BY <1>6, <2>1, <2>2
    <2> QED
      BY <1>1, <2>3
  <1>9. h \in [0 .. n -> Nat]
    <2> DEFINE S == {i \in 0 .. n : h[i] \in Nat}
    <2> HIDE DEF h
    <2>1. 0 \in S
      BY <1>1, <1>7
    <2>2. \A i \in 1 .. n : i - 1 \in S => i \in S
      BY <1>1, <1>8
    <2>3. \A i \in 0 .. n : i \in S
      BY <1>1, <2>1, <2>2, Climb, Zenon
    <2> QED
      BY <2>3 DEF h
  <1>10. Lengths(seq) = h[n]
    BY <1>1, <1>2
  <1> QED
    BY <1>7, <1>8, <1>9, <1>10 DEF n

-----------------------------------------------------------------------------
(* Groups and blocks.                                                      *)

\* Division with remainder.
LEMMA Division ==
  ASSUME NEW a \in Nat, NEW b \in Nat \ {0}
  PROVE  /\ a \div b \in Nat
         /\ a % b \in 0 .. b - 1
         /\ a = b * (a \div b) + (a % b)
  BY SMT

\* A position of a group is a block of the device.
LEMMA WithinProduct ==
  ASSUME NEW n \in Nat \ {0}, NEW w \in Nat \ {0}, NEW g \in 0 .. n - 1, NEW p \in 0 .. w - 1
  PROVE  (g * w) + p \in 0 .. (n * w) - 1
  <1>1. /\ n - 1 \in Nat /\ g \in Nat /\ p \in Nat /\ g <= n - 1 /\ p <= w - 1
        /\ g * w \in Nat /\ (n - 1) * w \in Nat
    OBVIOUS
  <1>2. g * w <= (n - 1) * w
    <2>1. \A a, b, c \in Nat : a <= b => a * c <= b * c
      OBVIOUS
    <2> QED
      BY <1>1, <2>1
  <1>3. (n - 1) * w = (n * w) - w
    OBVIOUS
  <1> QED
    BY <1>1, <1>2, <1>3

\* A block of the device lies in one of the groups.
LEMMA QuotientWithin ==
  ASSUME NEW n \in Nat \ {0}, NEW w \in Nat \ {0}, NEW b \in 0 .. (n * w) - 1
  PROVE  b \div w \in 0 .. n - 1
  BY SMT

\* Every block is at a position of a group.
LEMMA BlockFacts ==
  ASSUME NEW b \in Blocks
  PROVE  GroupOf(b) \in Groups /\ PositionOf(b) \in Positions
  <1>1. b \in 0 .. (NumGroups * W) - 1 /\ b \in Nat
    BY WAssumption, NumGroupsAssumption DEF Blocks
  <1>2. b \div W \in 0 .. NumGroups - 1
    BY <1>1, QuotientWithin, WAssumption, NumGroupsAssumption, Zenon
  <1>3. b % W \in 0 .. W - 1
    BY <1>1, Division, WAssumption, Zenon
  <1> QED
    BY <1>2, <1>3 DEF GroupOf, PositionOf, Groups, Positions

\* A group has as many free blocks as its bits leave; it has all exactly when
\* it is empty.
LEMMA GroupFacts ==
  ASSUME NEW group \in Byte
  PROVE  /\ IsFiniteSet(group) /\ Cardinality(group) \in 0 .. W
         /\ Free(group) \in 0 .. W
         /\ Free(group) = W <=> group = {}
         /\ Free(group) > 0 => FirstFree(group) \in Positions
  <1>1. 0 \in Int /\ W - 1 \in Int /\ W \in Nat \ {0}
    BY WAssumption
  <1>2. IsFiniteSet(Positions) /\ Cardinality(Positions) = W
    <2>1. IsFiniteSet(0 .. W - 1) /\ Cardinality(0 .. W - 1) = IF 0 > W - 1 THEN 0 ELSE W - 1 - 0 + 1
      BY <1>1, FS_Interval, Zenon
    <2> QED
      BY <1>1, <2>1 DEF Positions
  <1>3. group \in SUBSET Positions
    BY DEF Byte
  <1>4. IsFiniteSet(group) /\ Cardinality(group) <= W
    BY <1>2, <1>3, FS_Subset
  <1>5. Cardinality(group) \in Nat
    BY <1>4, FS_CardinalityType
  <1>6. Cardinality(group) = 0 <=> group = {}
    BY <1>4, FS_EmptySet
  <1>7. ASSUME Free(group) > 0 PROVE FirstFree(group) \in Positions
    <2>1. group # Positions
      BY <1>1, <1>2, <1>5, <1>7 DEF Free
    <2> DEFINE open == Positions \ group
    <2>2. open \in SUBSET Nat /\ open # {}
      <3>1. Positions \in SUBSET Nat
        BY <1>1 DEF Positions
      <3> QED
        BY <1>3, <2>1, <3>1
    <2>3. PICK p \in open : \A q \in open : p <= q
      BY <2>2, LeastNumber
    <2>4. /\ p \in 0 .. W /\ p \in Positions /\ p \notin group
          /\ \A q \in Positions : q < p => q \in group
      BY <1>1, <2>3 DEF Positions
    <2> DEFINE first(x) == /\ x \in Positions => x \notin group
                           /\ \A q \in Positions : q < x => q \in group
    <2>5. FirstFree(group) \in 0 .. W /\ first(FirstFree(group))
      BY <2>4 DEF FirstFree
    <2>6. FirstFree(group) # W
      BY <1>1, <2>4, <2>5 DEF Positions
    <2> QED
      BY <1>1, <2>5, <2>6 DEF Positions
  <1> QED
    BY <1>1, <1>4, <1>5, <1>6, <1>7 DEF Free

\* A start is only taken from a group that has a free block.
LEMMA StartFacts ==
  ASSUME NEW map \in [Groups -> Byte], NEW g \in Groups, Free(map[g]) > 0
  PROVE  StartOf(map, g) \in Blocks
  <1>1. FirstFree(map[g]) \in Positions
    BY GroupFacts
  <1>2. (g * W) + FirstFree(map[g]) \in 0 .. (NumGroups * W) - 1
    BY <1>1, WithinProduct, WAssumption, NumGroupsAssumption DEF Groups, Positions
  <1> QED
    BY <1>2 DEF StartOf, Blocks

-----------------------------------------------------------------------------
(* What a call works on.                                                   *)

Starts == {s \in Seq(Blocks) : Len(s) <= NumStarts}

Distributor ==
  [groups : [Groups -> Byte], starts : Starts, bps : Seq(BlockPointer),
   blocks : Nat, ret : Nat \cup {-1},
   fault : {"none", "null_bps", "overrun", "underflow"}]

\* The starts that the draws of reinit_free_start add.
KnownAfter(d, draws) ==
  FoldLeft(LAMBDA known, g : IF Free(d.groups[g]) > 0
                               THEN Append(known, StartOf(d.groups, g))
                               ELSE known,
           <<>>, draws)

\* block_distributor_init leaves blocks of the device as known starts.
LEMMA KnownTyped ==
  ASSUME NEW d, d.groups \in [Groups -> Byte], NEW draws \in [1 .. NumStarts -> Groups]
  PROVE  KnownAfter(d, draws) \in Starts
  <1> DEFINE n == NumStarts
             D == 1 .. n
             A == Seq(Blocks)
             next(known, i) == IF Free(d.groups[draws[i]]) > 0
                                 THEN Append(known, StartOf(d.groups, draws[i]))
                                 ELSE known
             step == [i \in D |-> [known \in A |-> next(known, i)]]
             Eq(g) == [s \in SUBSET D |->
                        IF s = {} THEN <<>> ELSE next(g[s \ {Max(s)}], Max(s))]
             iter == CHOOSE g : g = Eq(g)
  <1>1. n \in Nat /\ DOMAIN draws = D /\ \A i \in D : draws[i] \in Groups
    BY NumStartsAssumption
  <1>2. KnownAfter(d, draws) = iter[D]
    BY <1>1 DEF KnownAfter, FoldLeft, MapThenFoldSet
  <1>3. ASSUME NEW i \in D, NEW known \in A
        PROVE  next(known, i) \in A /\ Len(next(known, i)) <= Len(known) + 1
    <2>1. Free(d.groups[draws[i]]) > 0 => StartOf(d.groups, draws[i]) \in Blocks
      BY <1>1, StartFacts
    <2> QED
      BY <2>1
  <1>4. <<>> \in A /\ Len(<<>>) = 0 /\ \A known \in A : Len(known) \in Nat
    OBVIOUS
  <1> HIDE DEF n, A, next
  <1>5. PICK g \in [SUBSET D -> A] : g = FoldStep(D, <<>>, step, g)
    <2>1. step \in [D -> [A -> A]]
      BY <1>3
    <2> HIDE DEF step
    <2>2. \A B : \A base \in B, f \in [1 .. n -> [B -> B]] :
            \E g \in [SUBSET (1 .. n) -> B] : g = FoldStep(1 .. n, base, f, g)
      BY <1>1, FoldExists, Zenon
    <2>3. <<>> \in A
      BY <1>4
    <2> QED
      BY <2>1, <2>2, <2>3, Zenon
  <1>6. g = Eq(g)
    <2>1. ASSUME NEW s \in SUBSET D, s # {}
          PROVE  step[Max(s)][g[s \ {Max(s)}]] = next(g[s \ {Max(s)}], Max(s))
      <3>1. Max(s) \in D /\ g[s \ {Max(s)}] \in A
        BY <1>1, <2>1, MaxOf
      <3> QED
        BY <3>1, Zenon
    <2> QED
      BY <1>5, <2>1, Zenon DEF FoldStep
  <1>7. iter = Eq(iter)
    BY <1>6, Zenon
  <1> HIDE DEF iter
  <1>8. iter[1 .. 0] = <<>>
    <2>1. 1 .. 0 = {} /\ 1 .. 0 \in SUBSET D
      OBVIOUS
    <2> QED
      BY <1>7, <2>1, Zenon
  <1>9. ASSUME NEW i \in D PROVE iter[1 .. i] = next(iter[1 .. i - 1], i)
    <2>1. Max(1 .. i) = i /\ (1 .. i) \ {i} = 1 .. i - 1
      BY <1>1, MaxOfInterval
    <2>2. 1 .. i \in SUBSET D /\ 1 .. i # {}
      BY <1>1
    <2>3. iter[1 .. i] = next(iter[(1 .. i) \ {Max(1 .. i)}], Max(1 .. i))
      BY <1>7, <2>2, Zenon
    <2> QED
      BY <2>1, <2>3, Zenon
  <1> DEFINE S == {i \in 0 .. n : iter[1 .. i] \in A /\ Len(iter[1 .. i]) <= i}
  <1>10. 0 \in S
    BY <1>1, <1>4, <1>8
  <1>11. ASSUME NEW i \in 1 .. n, i - 1 \in S PROVE i \in S
    <2> DEFINE before == iter[1 .. i - 1]
    <2>1. before \in A /\ Len(before) <= i - 1 /\ i \in 0 .. n
      BY <1>1, <1>11
    <2> HIDE DEF before
    <2>2. next(before, i) \in A /\ Len(next(before, i)) <= Len(before) + 1
      BY <1>3, <2>1
    <2>3. Len(before) \in Nat /\ Len(next(before, i)) \in Nat
      BY <1>4, <2>1, <2>2
    <2>4. Len(next(before, i)) <= i
      BY <1>1, <2>1, <2>2, <2>3
    <2> QED
      BY <1>9, <2>1, <2>2, <2>4, Zenon DEF before
  <1>12. n \in S
    <2>1. \A i \in 0 .. n : i \in S
      BY <1>1, <1>10, <1>11, Climb, Zenon
    <2>2. n \in 0 .. n
      BY <1>1
    <2> QED
      BY <2>1, <2>2, Zenon
  <1> QED
    BY <1>2, <1>12 DEF Starts, A, n

\* What KeepUncovered has kept after the known starts it has looked at.
KeptAfter(known, begin, next) ==
  FoldLeft(LAMBDA kept, start :
             IF kept.skip THEN [seq |-> Append(kept.seq, start), skip |-> FALSE]
             ELSE IF begin < start /\ start < next THEN [kept EXCEPT !.skip = TRUE]
             ELSE [kept EXCEPT !.seq = Append(@, start)],
           [seq |-> <<>>, skip |-> FALSE], known)

\* Known starts stay blocks when those that a range covers are dropped.
LEMMA KeptTyped ==
  ASSUME NEW known \in Starts, NEW begin, NEW end
  PROVE  KeepUncovered(known, begin, end) \in Starts
  <1> DEFINE n == Len(known)
             D == 1 .. n
             A == [seq : Seq(Blocks), skip : BOOLEAN]
             none == [seq |-> <<>>, skip |-> FALSE]
             next(kept, i) ==
               IF kept.skip THEN [seq |-> Append(kept.seq, known[i]), skip |-> FALSE]
               ELSE IF begin < known[i] /\ known[i] < end THEN [kept EXCEPT !.skip = TRUE]
               ELSE [kept EXCEPT !.seq = Append(@, known[i])]
             step == [i \in D |-> [kept \in A |-> next(kept, i)]]
             Eq(g) == [s \in SUBSET D |->
                        IF s = {} THEN none ELSE next(g[s \ {Max(s)}], Max(s))]
             iter == CHOOSE g : g = Eq(g)
  <1>1. n \in Nat /\ DOMAIN known = D /\ \A i \in D : known[i] \in Blocks
    BY DEF Starts
  <1>2. KeptAfter(known, begin, end) = iter[D]
    BY <1>1 DEF KeptAfter, FoldLeft, MapThenFoldSet
  <1>3. ASSUME NEW i \in D, NEW kept \in A
        PROVE  next(kept, i) \in A /\ Len(next(kept, i).seq) <= Len(kept.seq) + 1
    <2>1. known[i] \in Blocks /\ kept.seq \in Seq(Blocks) /\ kept.skip \in BOOLEAN
      BY <1>1
    <2>2. /\ Append(kept.seq, known[i]) \in Seq(Blocks)
          /\ Len(Append(kept.seq, known[i])) = Len(kept.seq) + 1
      BY <2>1
    <2> DEFINE longer == Append(kept.seq, known[i])
    <2>3. /\ [seq |-> longer, skip |-> FALSE] \in A
          /\ [kept EXCEPT !.skip = TRUE] \in A
          /\ [kept EXCEPT !.skip = TRUE].seq = kept.seq
          /\ [kept EXCEPT !.seq = longer] \in A
          /\ [kept EXCEPT !.seq = longer].seq = longer
      <3>1. longer \in Seq(Blocks)
        BY <2>2
      <3> HIDE DEF longer
      <3> QED
        BY <2>1, <3>1
    <2>4. Len(kept.seq) \in Nat
      BY <2>1
    <2> QED
      BY <2>2, <2>3, <2>4
  <1>4. none \in A /\ Len(none.seq) = 0 /\ \A kept \in A : Len(kept.seq) \in Nat
    OBVIOUS
  <1> HIDE DEF n, A, next, none
  <1>5. PICK g \in [SUBSET D -> A] : g = FoldStep(D, none, step, g)
    <2>1. step \in [D -> [A -> A]]
      BY <1>3
    <2> HIDE DEF step
    <2>2. \A B : \A base \in B, f \in [1 .. n -> [B -> B]] :
            \E g \in [SUBSET (1 .. n) -> B] : g = FoldStep(1 .. n, base, f, g)
      BY <1>1, FoldExists, Zenon
    <2>3. none \in A
      BY <1>4
    <2> QED
      BY <2>1, <2>2, <2>3, Zenon
  <1>6. g = Eq(g)
    <2>1. ASSUME NEW s \in SUBSET D, s # {}
          PROVE  step[Max(s)][g[s \ {Max(s)}]] = next(g[s \ {Max(s)}], Max(s))
      <3>1. Max(s) \in D /\ g[s \ {Max(s)}] \in A
        BY <1>1, <2>1, MaxOf
      <3> QED
        BY <3>1, Zenon
    <2> QED
      BY <1>5, <2>1, Zenon DEF FoldStep
  <1>7. iter = Eq(iter)
    BY <1>6, Zenon
  <1> HIDE DEF iter
  <1>8. iter[1 .. 0] = none
    <2>1. 1 .. 0 = {} /\ 1 .. 0 \in SUBSET D
      OBVIOUS
    <2> QED
      BY <1>7, <2>1, Zenon
  <1>9. ASSUME NEW i \in D PROVE iter[1 .. i] = next(iter[1 .. i - 1], i)
    <2>1. Max(1 .. i) = i /\ (1 .. i) \ {i} = 1 .. i - 1
      BY <1>1, MaxOfInterval
    <2>2. 1 .. i \in SUBSET D /\ 1 .. i # {}
      BY <1>1
    <2>3. iter[1 .. i] = next(iter[(1 .. i) \ {Max(1 .. i)}], Max(1 .. i))
      BY <1>7, <2>2, Zenon
    <2> QED
      BY <2>1, <2>3, Zenon
  <1> DEFINE S == {i \in 0 .. n : iter[1 .. i] \in A /\ Len(iter[1 .. i].seq) <= i}
  <1>10. 0 \in S
    BY <1>1, <1>4, <1>8
  <1>11. ASSUME NEW i \in 1 .. n, i - 1 \in S PROVE i \in S
    <2> DEFINE before == iter[1 .. i - 1]
    <2>1. before \in A /\ Len(before.seq) <= i - 1 /\ i \in 0 .. n
      BY <1>1, <1>11
    <2> HIDE DEF before
    <2>2. next(before, i) \in A /\ Len(next(before, i).seq) <= Len(before.seq) + 1
      BY <1>3, <2>1
    <2>3. Len(before.seq) \in Nat /\ Len(next(before, i).seq) \in Nat
      BY <1>4, <2>1, <2>2
    <2>4. Len(next(before, i).seq) <= i
      BY <1>1, <2>1, <2>2, <2>3
    <2> QED
      BY <1>9, <2>1, <2>2, <2>4, Zenon DEF before
  <1>12. n \in S
    <2>1. \A i \in 0 .. n : i \in S
      BY <1>1, <1>10, <1>11, Climb, Zenon
    <2>2. n \in 0 .. n
      BY <1>1
    <2> QED
      BY <2>1, <2>2, Zenon
  <1>13. KeepUncovered(known, begin, end) = KeptAfter(known, begin, end).seq
    BY DEF KeepUncovered, KeptAfter
  <1>14. iter[D] \in [seq : Seq(Blocks), skip : BOOLEAN] /\ Len(iter[D].seq) <= Len(known)
    BY <1>12 DEF A, n
  <1>15. Len(known) \in Nat /\ Len(known) <= NumStarts
    BY DEF Starts
  <1> QED
    BY <1>2, <1>13, <1>14, <1>15, NumStartsAssumption DEF Starts

-----------------------------------------------------------------------------
(* How the sum of the lengths follows the block pointers.                  *)

\* One more pointer adds its length.
LEMMA LengthsOneMore ==
  ASSUME NEW seq \in Seq(BlockPointer), NEW more \in Seq(BlockPointer),
         Len(more) = Len(seq) + 1,
         \A i \in 1 .. Len(seq) : more[i].length = seq[i].length
  PROVE  Lengths(more) = Lengths(seq) + more[Len(more)].length
  <1> DEFINE n == Len(seq)
  <1>1. n \in Nat /\ Len(more) = n + 1
    OBVIOUS
  <1>2. PICK h \in [0 .. n -> Nat] :
               /\ h[0] = 0
               /\ \A i \in 1 .. n : h[i] = h[i - 1] + seq[i].length
               /\ Lengths(seq) = h[n]
    BY LengthsSummed
  <1>3. PICK m \in [0 .. n + 1 -> Nat] :
               /\ m[0] = 0
               /\ \A i \in 1 .. n + 1 : m[i] = m[i - 1] + more[i].length
               /\ Lengths(more) = m[n + 1]
    BY <1>1, LengthsSummed
  <1>4. \A i \in 1 .. n : more[i].length = seq[i].length
    OBVIOUS
  <1> HIDE DEF n
  <1> DEFINE S == {i \in 0 .. n : h[i] = m[i]}
  <1>5. 0 \in S
    BY <1>1, <1>2, <1>3
  <1>6. \A i \in 1 .. n : i - 1 \in S => i \in S
    BY <1>1, <1>2, <1>3, <1>4
  <1>7. \A i \in 0 .. n : i \in S
    BY <1>1, <1>5, <1>6, Climb, Zenon
  <1>8. h[n] = m[n] /\ m[n + 1] = m[n] + more[n + 1].length
    BY <1>1, <1>3, <1>7
  <1> QED
    BY <1>1, <1>2, <1>3, <1>8

\* The lengths add up to a number.
LEMMA LengthsTyped ==
  ASSUME NEW seq \in Seq(BlockPointer)
  PROVE  Lengths(seq) \in Nat
  <1>1. Len(seq) \in 0 .. Len(seq)
    OBVIOUS
  <1> QED
    BY <1>1, LengthsSummed

\* A node without pointers has no blocks.
LEMMA LengthsOfNone == Lengths(<<>>) = 0
  <1>1. <<>> \in Seq(BlockPointer) /\ Len(<<>>) = 0
    OBVIOUS
  <1> QED
    BY <1>1, LengthsSummed

\* A new pointer adds its length.
LEMMA LengthsOfAppend ==
  ASSUME NEW seq \in Seq(BlockPointer), NEW bp \in BlockPointer
  PROVE  /\ Append(seq, bp) \in Seq(BlockPointer)
         /\ Lengths(Append(seq, bp)) = Lengths(seq) + bp.length
  <1> DEFINE more == Append(seq, bp)
  <1>1. /\ more \in Seq(BlockPointer) /\ Len(more) = Len(seq) + 1
        /\ \A i \in 1 .. Len(seq) : more[i] = seq[i]
        /\ more[Len(more)] = bp
    OBVIOUS
  <1> HIDE DEF more
  <1>2. \A i \in 1 .. Len(seq) : more[i].length = seq[i].length
    BY <1>1
  <1>3. Lengths(more) = Lengths(seq) + more[Len(more)].length
    BY <1>1, <1>2, LengthsOneMore
  <1> QED
    BY <1>1, <1>3 DEF more

\* A longer last pointer adds what it gained.
LEMMA LengthsOfLonger ==
  ASSUME NEW seq \in Seq(BlockPointer), seq # <<>>, NEW req \in Nat
  PROVE  LET longer == [seq EXCEPT ![Len(seq)].length = @ + req]
         IN  /\ longer \in Seq(BlockPointer) /\ Len(longer) = Len(seq)
             /\ Lengths(longer) = Lengths(seq) + req
             /\ longer[Len(longer)].begin \in Nat
             /\ longer[Len(longer)].length \in Nat
  <1> DEFINE n == Len(seq) - 1
             longer == [seq EXCEPT ![Len(seq)].length = @ + req]
             front == [i \in 1 .. n |-> seq[i]]
             last == seq[Len(seq)]
             new == [begin |-> last.begin, length |-> last.length + req]
  <1>1. n \in Nat /\ Len(seq) = n + 1 /\ DOMAIN seq = 1 .. n + 1
    OBVIOUS
  <1>2. last \in BlockPointer /\ \A i \in 1 .. n + 1 : seq[i] \in BlockPointer
    BY <1>1
  <1>3. last.begin \in Blocks /\ last.length \in Nat /\ last.begin \in Nat
    <2>1. last.begin \in Blocks /\ last.length \in Nat
      BY <1>2 DEF BlockPointer
    <2> QED
      BY <2>1, WAssumption, NumGroupsAssumption DEF Blocks
  <1>4. [last EXCEPT !.length = @ + req] = new
    BY <1>2 DEF BlockPointer
  <1>5. longer = [seq EXCEPT ![n + 1] = new]
    <2>1. longer = [seq EXCEPT ![Len(seq)] = [last EXCEPT !.length = @ + req]]
      OBVIOUS
    <2> QED
      BY <1>1, <1>4, <2>1, Zenon
  <1>6. new \in BlockPointer
    BY <1>3 DEF BlockPointer
  <1> HIDE DEF new, last
  <1>7. longer \in Seq(BlockPointer) /\ Len(longer) = n + 1 /\ longer[n + 1] = new
        /\ \A i \in 1 .. n : longer[i] = seq[i]
    <2>1. longer \in [1 .. n + 1 -> BlockPointer]
      BY <1>1, <1>2, <1>5, <1>6
    <2> QED
      BY <1>1, <1>5, <1>6, <2>1
  <1>8. front \in Seq(BlockPointer) /\ Len(front) = n /\ \A i \in 1 .. n : front[i] = seq[i]
    BY <1>1, <1>2
  <1>9. new.length = last.length + req /\ new.begin = last.begin
    BY DEF new
  <1> HIDE DEF longer, front, n
  <1>10. Lengths(longer) = Lengths(front) + longer[Len(longer)].length
    <2>1. \A i \in 1 .. Len(front) : longer[i].length = front[i].length
      BY <1>7, <1>8
    <2> QED
      BY <1>7, <1>8, <2>1, LengthsOneMore
  <1>11. Lengths(seq) = Lengths(front) + seq[Len(seq)].length
    <2>1. \A i \in 1 .. Len(front) : seq[i].length = front[i].length
      BY <1>8
    <2> QED
      BY <1>1, <1>8, <2>1, LengthsOneMore
  <1>12. Lengths(front) \in Nat
    BY <1>8, LengthsTyped
  <1>13. longer[Len(longer)] = new /\ seq[Len(seq)] = last
    BY <1>1, <1>7 DEF last
  <1>14. /\ Lengths(longer) = Lengths(seq) + req
         /\ longer[Len(longer)].begin \in Nat /\ longer[Len(longer)].length \in Nat
    BY <1>3, <1>9, <1>10, <1>11, <1>12, <1>13
  <1> QED
    BY <1>1, <1>7, <1>14 DEF longer

-----------------------------------------------------------------------------
(* What every part of a request keeps true of the distributor and a node.  *)

\* e comes from d: it is well formed, no used block of d is free in it, and
\* the node's count moved by as much as the lengths of its pointers.
Grows(d, e) ==
  /\ e \in Distributor
  /\ \A g \in Groups : d.groups[g] \subseteq e.groups[g]
  /\ e.blocks - d.blocks = Lengths(e.bps) - Lengths(d.bps)

\* The bitmap and the node are what they were.
Same(d, e) == e.groups = d.groups /\ e.bps = d.bps /\ e.blocks = d.blocks

\* A call that was not granted, and did not leave defined behaviour either.
Refused(e) == e.ret = -1 /\ e.fault = "none"

\* The fields of the distributor with one node.
LEMMA DistributorFields ==
  ASSUME NEW d \in Distributor
  PROVE  /\ d = [groups |-> d.groups, starts |-> d.starts, bps |-> d.bps,
                 blocks |-> d.blocks, ret |-> d.ret, fault |-> d.fault]
         /\ d.groups \in [Groups -> Byte] /\ d.starts \in Starts
         /\ d.bps \in Seq(BlockPointer) /\ d.blocks \in Nat
         /\ d.ret \in Nat \cup {-1}
         /\ d.fault \in {"none", "null_bps", "overrun", "underflow"}
  BY DEF Distributor

\* The distributor is made of its fields.
LEMMA MakeDistributor ==
  ASSUME NEW m \in [Groups -> Byte], NEW s \in Starts, NEW b \in Seq(BlockPointer),
         NEW n \in Nat, NEW r \in Nat \cup {-1},
         NEW f \in {"none", "null_bps", "overrun", "underflow"}
  PROVE  [groups |-> m, starts |-> s, bps |-> b, blocks |-> n, ret |-> r, fault |-> f]
           \in Distributor
  BY DEF Distributor

\* Assigning one field of a distributor.
LEMMA Assign ==
  ASSUME NEW d \in Distributor
  PROVE  /\ \A m \in [Groups -> Byte] :
              /\ [d EXCEPT !.groups = m] \in Distributor
              /\ [d EXCEPT !.groups = m] =
                   [groups |-> m, starts |-> d.starts, bps |-> d.bps,
                    blocks |-> d.blocks, ret |-> d.ret, fault |-> d.fault]
         /\ \A s \in Starts :
              /\ [d EXCEPT !.starts = s] \in Distributor
              /\ [d EXCEPT !.starts = s] =
                   [groups |-> d.groups, starts |-> s, bps |-> d.bps,
                    blocks |-> d.blocks, ret |-> d.ret, fault |-> d.fault]
         /\ \A b \in Seq(BlockPointer) :
              /\ [d EXCEPT !.bps = b] \in Distributor
              /\ [d EXCEPT !.bps = b] =
                   [groups |-> d.groups, starts |-> d.starts, bps |-> b,
                    blocks |-> d.blocks, ret |-> d.ret, fault |-> d.fault]
         /\ \A n \in Nat :
              /\ [d EXCEPT !.blocks = n] \in Distributor
              /\ [d EXCEPT !.blocks = n] =
                   [groups |-> d.groups, starts |-> d.starts, bps |-> d.bps,
                    blocks |-> n, ret |-> d.ret, fault |-> d.fault]
         /\ \A r \in Nat \cup {-1} :
              /\ [d EXCEPT !.ret = r] \in Distributor
              /\ [d EXCEPT !.ret = r] =
                   [groups |-> d.groups, starts |-> d.starts, bps |-> d.bps,
                    blocks |-> d.blocks, ret |-> r, fault |-> d.fault]
         /\ \A f \in {"null_bps", "overrun", "underflow"} :
              /\ [d EXCEPT !.fault = f] \in Distributor
              /\ [d EXCEPT !.fault = f] =
                   [groups |-> d.groups, starts |-> d.starts, bps |-> d.bps,
                    blocks |-> d.blocks, ret |-> d.ret, fault |-> f]
  <1>1. /\ d = [groups |-> d.groups, starts |-> d.starts, bps |-> d.bps,
                blocks |-> d.blocks, ret |-> d.ret, fault |-> d.fault]
        /\ d.groups \in [Groups -> Byte] /\ d.starts \in Starts
        /\ d.bps \in Seq(BlockPointer) /\ d.blocks \in Nat
        /\ d.ret \in Nat \cup {-1}
        /\ d.fault \in {"none", "null_bps", "overrun", "underflow"}
    BY DistributorFields
  <1> QED
    BY <1>1 DEF Distributor

\* What a node and the bitmap become when blocks were taken for it.
Granted(d, m, b, n, r) == [d EXCEPT !.groups = m, !.bps = b, !.blocks = n, !.ret = r]

\* What a granted request leaves.
LEMMA GrantedFields ==
  ASSUME NEW d \in Distributor, NEW m \in [Groups -> Byte],
         NEW b \in Seq(BlockPointer), NEW n \in Nat, NEW r \in Nat
  PROVE  LET e == Granted(d, m, b, n, r)
         IN  /\ e \in Distributor
             /\ e.groups = m /\ e.bps = b /\ e.blocks = n /\ e.ret = r
  <1> DEFINE x == [d EXCEPT !.groups = m]
             y == [x EXCEPT !.bps = b]
             z == [y EXCEPT !.blocks = n]
             e == [z EXCEPT !.ret = r]
  <1>1. Granted(d, m, b, n, r) = e
    BY DEF Granted
  <1>2. x \in Distributor /\ x = [groups |-> m, starts |-> d.starts, bps |-> d.bps,
                                  blocks |-> d.blocks, ret |-> d.ret, fault |-> d.fault]
    BY Assign
  <1> HIDE DEF x
  <1>3. y \in Distributor /\ y = [groups |-> x.groups, starts |-> x.starts, bps |-> b,
                                  blocks |-> x.blocks, ret |-> x.ret, fault |-> x.fault]
    <2>1. x \in Distributor
      BY <1>2
    <2> QED
      BY <2>1, Assign, Zenon
  <1> HIDE DEF y
  <1>4. z \in Distributor /\ z = [groups |-> y.groups, starts |-> y.starts, bps |-> y.bps,
                                  blocks |-> n, ret |-> y.ret, fault |-> y.fault]
    <2>1. y \in Distributor
      BY <1>3
    <2> QED
      BY <2>1, Assign, Zenon
  <1> HIDE DEF z
  <1>5. e \in Distributor /\ e = [groups |-> z.groups, starts |-> z.starts, bps |-> z.bps,
                                  blocks |-> z.blocks, ret |-> r, fault |-> z.fault]
    <2>1. z \in Distributor
      BY <1>4
    <2>2. r \in Nat \cup {-1}
      OBVIOUS
    <2> QED
      BY <2>1, <2>2, Assign, Zenon
  <1> HIDE DEF e
  <1>6. e.groups = m /\ e.bps = b /\ e.blocks = n /\ e.ret = r
    BY <1>2, <1>3, <1>4, <1>5
  <1> QED
    BY <1>1, <1>5, <1>6

\* Nothing granted is a grant of nothing.
LEMMA GrowsItself ==
  ASSUME NEW d \in Distributor
  PROVE  Grows(d, d)
  <1>1. d.blocks \in Nat /\ Lengths(d.bps) \in Nat
    BY DistributorFields, LengthsTyped
  <1> QED
    BY <1>1 DEF Grows

\* A grant after a grant is a grant.
LEMMA GrowsFurther ==
  ASSUME NEW d \in Distributor, NEW e, NEW f, Grows(d, e), Grows(e, f)
  PROVE  Grows(d, f)
  <1>1. e \in Distributor /\ f \in Distributor
    BY DEF Grows
  <1>2. /\ d.blocks \in Nat /\ Lengths(d.bps) \in Nat
        /\ e.blocks \in Nat /\ Lengths(e.bps) \in Nat
        /\ f.blocks \in Nat /\ Lengths(f.bps) \in Nat
    BY <1>1, DistributorFields, LengthsTyped
  <1>3. f.blocks - d.blocks = Lengths(f.bps) - Lengths(d.bps)
    BY <1>2 DEF Grows
  <1> QED
    BY <1>3 DEF Grows

\* Whatever changes neither the bitmap nor the node.
LEMMA GrowsSame ==
  ASSUME NEW d \in Distributor, NEW e \in Distributor, Same(d, e)
  PROVE  Grows(d, e)
  <1>1. d.blocks \in Nat /\ Lengths(d.bps) \in Nat
    BY DistributorFields, LengthsTyped
  <1> QED
    BY <1>1 DEF Grows, Same

\* Whatever only marks blocks of one group, or of several.
LEMMA GrowsMarked ==
  ASSUME NEW d \in Distributor, NEW m \in [Groups -> Byte],
         \A g \in Groups : d.groups[g] \subseteq m[g]
  PROVE  Grows(d, [d EXCEPT !.groups = m])
  <1>1. d.blocks \in Nat /\ Lengths(d.bps) \in Nat
    BY DistributorFields, LengthsTyped
  <1>2. /\ [d EXCEPT !.groups = m] \in Distributor
        /\ [d EXCEPT !.groups = m] =
             [groups |-> m, starts |-> d.starts, bps |-> d.bps,
              blocks |-> d.blocks, ret |-> d.ret, fault |-> d.fault]
    BY Assign
  <1> QED
    BY <1>1, <1>2 DEF Grows

\* A fault leaves bitmap and account as they were.
LEMMA FaultedKeeps ==
  ASSUME NEW d \in Distributor, NEW f \in {"null_bps", "overrun", "underflow"}
  PROVE  /\ Faulted(d, f) \in Distributor /\ Same(d, Faulted(d, f))
         /\ Faulted(d, f).fault = f /\ Faulted(d, f).ret = d.ret
         /\ Faulted(d, f).starts = d.starts
  <1>1. /\ [d EXCEPT !.fault = f] \in Distributor
        /\ [d EXCEPT !.fault = f] =
             [groups |-> d.groups, starts |-> d.starts, bps |-> d.bps,
              blocks |-> d.blocks, ret |-> d.ret, fault |-> f]
    BY Assign
  <1> QED
    BY <1>1 DEF Faulted, Same

\* A refusal leaves bitmap and account as they were.
LEMMA FailedKeeps ==
  ASSUME NEW d \in Distributor
  PROVE  /\ Failed(d) \in Distributor /\ Same(d, Failed(d))
         /\ Failed(d).fault = d.fault /\ Failed(d).ret = -1
         /\ Failed(d).starts = d.starts
  <1>1. /\ [d EXCEPT !.ret = -1] \in Distributor
        /\ [d EXCEPT !.ret = -1] =
             [groups |-> d.groups, starts |-> d.starts, bps |-> d.bps,
              blocks |-> d.blocks, ret |-> -1, fault |-> d.fault]
    BY Assign
  <1> QED
    BY <1>1 DEF Failed, Same

-----------------------------------------------------------------------------
(* try_block_append                                                        *)

\* A longer last pointer is counted in st_blocks.
LEMMA LengthenGrows ==
  ASSUME NEW d \in Distributor, d.bps # <<>>, NEW req \in Nat
  PROVE  /\ Grows(d, Lengthen(d, req)) /\ Lengthen(d, req).ret = req
         /\ LET long == Lengthen(d, req)
                last == long.bps[Len(long.bps)]
            IN  last.begin \in Nat /\ last.length \in Nat
  <1> DEFINE longer == [d.bps EXCEPT ![Len(d.bps)].length = @ + req]
             long == [groups |-> d.groups, starts |-> d.starts, bps |-> longer,
                      blocks |-> d.blocks + req, ret |-> req, fault |-> d.fault]
  <1>1. /\ d = [groups |-> d.groups, starts |-> d.starts, bps |-> d.bps,
                blocks |-> d.blocks, ret |-> d.ret, fault |-> d.fault]
        /\ d.groups \in [Groups -> Byte] /\ d.starts \in Starts
        /\ d.bps \in Seq(BlockPointer) /\ d.blocks \in Nat
        /\ d.fault \in {"none", "null_bps", "overrun", "underflow"}
    BY DistributorFields
  <1>2. /\ longer \in Seq(BlockPointer)
        /\ Lengths(longer) = Lengths(d.bps) + req
        /\ longer[Len(longer)].begin \in Nat /\ longer[Len(longer)].length \in Nat
    BY <1>1, LengthsOfLonger
  <1>3. Lengthen(d, req) = long
    <2>1. Lengthen(d, req) = [d EXCEPT !.bps = longer, !.blocks = @ + req, !.ret = req]
      BY <1>1, Zenon DEF Lengthen
    <2> HIDE DEF longer
    <2> QED
      BY <1>1, <2>1
  <1>4. Lengths(d.bps) \in Nat
    BY <1>1, LengthsTyped
  <1> HIDE DEF longer
  <1>5. long \in Distributor
    <2>1. d.blocks + req \in Nat /\ req \in Nat \cup {-1}
      BY <1>1
    <2> QED
      BY <1>1, <1>2, <2>1, MakeDistributor
  <1>6. long.groups = d.groups /\ long.bps = longer /\ long.blocks = d.blocks + req
        /\ long.ret = req
    OBVIOUS
  <1> HIDE DEF long
  <1>7. long.blocks - d.blocks = Lengths(long.bps) - Lengths(d.bps)
    BY <1>1, <1>2, <1>4, <1>6
  <1> QED
    BY <1>2, <1>3, <1>5, <1>6, <1>7 DEF Grows

\* A known start is moved to a block.
LEMMA StartMoved ==
  ASSUME NEW s \in Starts, NEW cur, NEW b \in Blocks
  PROVE  [s EXCEPT ![cur] = b] \in Starts
  <1> DEFINE t == [s EXCEPT ![cur] = b]
             n == Len(s)
  <1>1. n \in Nat /\ n <= NumStarts /\ s \in [1 .. n -> Blocks]
    BY DEF Starts
  <1> HIDE DEF n
  <1>2. t \in [1 .. n -> Blocks]
    BY <1>1
  <1> HIDE DEF t
  <1>3. t \in Seq(Blocks) /\ Len(t) = n
    BY <1>1, <1>2
  <1> QED
    BY <1>1, <1>3 DEF Starts, t

\* Renewing the known starts touches neither bitmap nor account.
LEMMA RefreshKeeps ==
  ASSUME NEW d \in Distributor, NEW begin \in Nat, NEW next \in Nat
  PROVE  /\ RefreshStarts(d, begin, next) \in Distributor
         /\ Same(d, RefreshStarts(d, begin, next))
         /\ RefreshStarts(d, begin, next).ret = d.ret
  <1> DEFINE r == RefreshStarts(d, begin, next)
             known == IF ~Used(d.groups, next) THEN [d.starts EXCEPT ![1] = next]
                      ELSE KeepUncovered(d.starts, begin, next)
  <1>1. CASE r = d
    BY <1>1 DEF Same
  <1>2. CASE r = Faulted(d, "overrun")
    BY <1>2, FaultedKeeps
  <1>3. CASE GroupOf(next) \in Groups /\ r = [d EXCEPT !.starts = known]
    <2>1. next \in Blocks
      <3>1. next \div W \in 0 .. NumGroups - 1 /\ next % W \in 0 .. W - 1
            /\ next = W * (next \div W) + (next % W)
        BY <1>3, Division, WAssumption, Zenon DEF GroupOf, Groups
      <3> DEFINE g == next \div W
                 p == next % W
      <3> HIDE DEF g, p
      <3>2. (g * W) + p \in 0 .. (NumGroups * W) - 1
        BY <3>1, WithinProduct, WAssumption, NumGroupsAssumption, Zenon DEF g, p
      <3>3. g \in Nat /\ W \in Nat => W * g = g * W
        OBVIOUS
      <3>4. next = W * g + p /\ g \in Nat
        BY <3>1, NumGroupsAssumption DEF g, p
      <3> QED
        BY <3>2, <3>3, <3>4, WAssumption DEF Blocks
    <2>2. d.starts \in Seq(Blocks) /\ Len(d.starts) <= NumStarts
      BY DistributorFields DEF Starts
    <2>3. [d.starts EXCEPT ![1] = next] \in Starts
      BY <2>1, DistributorFields, StartMoved
    <2>4. KeepUncovered(d.starts, begin, next) \in Starts
      BY DistributorFields, KeptTyped
    <2>5. known \in Starts
      BY <2>3, <2>4
    <2> HIDE DEF known
    <2>6. /\ [d EXCEPT !.starts = known] \in Distributor
          /\ [d EXCEPT !.starts = known] =
               [groups |-> d.groups, starts |-> known, bps |-> d.bps,
                blocks |-> d.blocks, ret |-> d.ret, fault |-> d.fault]
      BY <2>5, Assign
    <2> QED
      BY <1>3, <2>6 DEF Same
  <1>4. \/ r = d \/ r = Faulted(d, "overrun")
        \/ GroupOf(next) \in Groups /\ r = [d EXCEPT !.starts = known]
    BY Zenon DEF RefreshStarts
  <1> QED
    BY <1>1, <1>2, <1>3, <1>4

\* A longer last pointer is counted and grants the request.
LEMMA ExtendGrows ==
  ASSUME NEW d \in Distributor, NEW req \in Nat
  PROVE  Grows(d, ExtendLast(d, req)) /\ ~Refused(ExtendLast(d, req))
  <1>1. CASE d.bps = <<>>
    <2>1. ExtendLast(d, req) = Faulted(d, "null_bps")
      BY <1>1 DEF ExtendLast
    <2>2. /\ Faulted(d, "null_bps") \in Distributor /\ Same(d, Faulted(d, "null_bps"))
          /\ Faulted(d, "null_bps").fault = "null_bps"
      BY FaultedKeeps
    <2> QED
      BY <2>1, <2>2, GrowsSame DEF Refused
  <1>2. CASE d.bps # <<>>
    <2> DEFINE long == Lengthen(d, req)
               last == long.bps[Len(long.bps)]
               new == RefreshStarts(long, last.begin, last.begin + last.length)
    <2>1. Grows(d, long) /\ long.ret = req /\ last.begin \in Nat /\ last.length \in Nat
      BY <1>2, LengthenGrows
    <2>2. long \in Distributor /\ last.begin + last.length \in Nat
      BY <2>1 DEF Grows
    <2>3. ExtendLast(d, req) = new
      BY <1>2, Zenon DEF ExtendLast
    <2> HIDE DEF long
    <2>4. new \in Distributor /\ Same(long, new) /\ new.ret = long.ret
      BY <2>1, <2>2, RefreshKeeps
    <2>5. Grows(d, new)
      BY <2>1, <2>2, <2>4, GrowsSame, GrowsFurther
    <2> QED
      BY <2>1, <2>3, <2>4, <2>5 DEF Refused
  <1> QED
    BY <1>1, <1>2


\* Marking never clears a bit.
LEMMA MarkedGroup ==
  ASSUME NEW group \in Byte, NEW pattern \in SUBSET Positions
  PROVE  Mark(group, pattern) \in Byte /\ group \subseteq Mark(group, pattern)
  BY DEF Mark, Byte

\* The patterns of the shifts are bits of a byte.
LEMMA Patterns ==
  ASSUME NEW p \in 0 .. W, NEW q \in Nat
  PROVE  /\ LowPattern(p) \in SUBSET Positions
         /\ TailPattern(p) \in SUBSET Positions
         /\ FetchPattern(p, q) \in SUBSET Positions
  BY WAssumption DEF LowPattern, TailPattern, FetchPattern, Positions

\* A request that spans groups marks all of them or none, and stores whole
\* bytes only over groups that were free.
LEMMA SpanningGrows ==
  ASSUME NEW d \in Distributor, NEW g \in Groups, NEW local \in Positions,
         NEW more \in Nat, NEW rem \in 0 .. W
  PROVE  LET span == Spanning(d, g, local, more, rem)
         IN  Grows(d, span) /\ (Refused(span) => Same(d, span))
  <1> DEFINE span == Spanning(d, g, local, more, rem)
             fits(i) == GroupFits(d.groups[g + i], rem + ((more - i) * W))
             reached(i) == \A j \in 1 .. i - 1 : fits(j)
             m == [h \in Groups |->
                        IF h = g THEN Mark(d.groups[h], TailPattern(local))
                        ELSE IF g < h /\ h < g + more THEN {}
                        ELSE IF h = g + more THEN Mark(d.groups[h], LowPattern(rem))
                        ELSE d.groups[h]]
  <1>0. /\ d = [groups |-> d.groups, starts |-> d.starts, bps |-> d.bps,
                blocks |-> d.blocks, ret |-> d.ret, fault |-> d.fault]
        /\ d.groups \in [Groups -> Byte]
    BY DistributorFields
  <1>1. \/ span = Faulted(d, "overrun")
        \/ span = Failed(d)
        \/ (\A i \in 1 .. more : fits(i)) /\ span = [d EXCEPT !.ret = 0, !.groups = m]
    BY Zenon DEF Spanning
  <1>2. CASE span = Faulted(d, "overrun")
    <2>1. /\ Faulted(d, "overrun") \in Distributor /\ Same(d, Faulted(d, "overrun"))
      BY FaultedKeeps
    <2> QED
      BY <1>2, <2>1, GrowsSame
  <1>3. CASE span = Failed(d)
    <2>1. Failed(d) \in Distributor /\ Same(d, Failed(d))
      BY FailedKeeps
    <2> QED
      BY <1>3, <2>1, GrowsSame
  <1>4. CASE (\A i \in 1 .. more : fits(i)) /\ span = [d EXCEPT !.ret = 0, !.groups = m]
    <2>1. TailPattern(local) \in SUBSET Positions /\ LowPattern(rem) \in SUBSET Positions
      <3>1. local \in 0 .. W /\ 0 \in Nat
        BY WAssumption DEF Positions
      <3> QED
        BY <3>1, Patterns
    <2>2. ASSUME NEW h \in Groups, g < h, h < g + more
          PROVE  d.groups[h] = {}
      <3> DEFINE i == h - g
                 left == rem + ((more - i) * W)
      <3>1. i \in 1 .. more /\ g + i = h /\ more - i \in Nat \ {0}
        BY <2>2, NumGroupsAssumption DEF Groups
      <3> HIDE DEF i
      <3>2. left >= W
        <4>1. \A a \in Nat \ {0}, b \in Nat \ {0}, c \in Nat : c + (a * b) >= b
          <5>1. \A a \in Nat \ {0}, b \in Nat \ {0} : a * b >= b /\ a * b \in Nat
            OBVIOUS
          <5> QED
            BY <5>1
        <4>2. rem \in Nat
          BY WAssumption
        <4> QED
          BY <3>1, <4>1, <4>2, WAssumption, Zenon
      <3>3. GroupFits(d.groups[h], left)
        BY <1>4, <3>1
      <3>4. Free(d.groups[h]) = W
        BY <3>2, <3>3 DEF GroupFits
      <3> QED
        BY <1>0, <3>4, GroupFacts
    <2>3. ASSUME NEW h \in Groups
          PROVE  m[h] \in Byte /\ d.groups[h] \subseteq m[h]
      <3>1. d.groups[h] \in Byte
        BY <1>0
      <3>2. /\ Mark(d.groups[h], TailPattern(local)) \in Byte
            /\ d.groups[h] \subseteq Mark(d.groups[h], TailPattern(local))
            /\ Mark(d.groups[h], LowPattern(rem)) \in Byte
            /\ d.groups[h] \subseteq Mark(d.groups[h], LowPattern(rem))
        BY <2>1, <3>1, MarkedGroup
      <3>3. {} \in Byte
        BY DEF Byte
      <3> QED
        BY <2>2, <3>1, <3>2, <3>3
    <2>4. m \in [Groups -> Byte] /\ \A h \in Groups : d.groups[h] \subseteq m[h]
      BY <2>3
    <2> HIDE DEF m
    <2> DEFINE e == [d EXCEPT !.ret = 0]
    <2>5. e \in Distributor /\ Same(d, e)
      <3>1. 0 \in Nat \cup {-1}
        OBVIOUS
      <3>2. /\ e \in Distributor
            /\ e = [groups |-> d.groups, starts |-> d.starts, bps |-> d.bps,
                    blocks |-> d.blocks, ret |-> 0, fault |-> d.fault]
        BY <3>1, Assign
      <3> QED
        BY <3>2 DEF Same
    <2>6. span = [e EXCEPT !.groups = m]
      BY <1>4
    <2>7. Grows(d, e)
      BY <2>5, GrowsSame
    <2>8. e.groups = d.groups /\ e.ret = 0
      BY <1>0, <2>5 DEF Same
    <2>9. Grows(e, [e EXCEPT !.groups = m])
      BY <2>4, <2>5, <2>8, GrowsMarked
    <2>10. span.ret = 0
      BY <1>0, <1>4
    <2> HIDE DEF span, e
    <2>11. Grows(d, span) /\ ~Refused(span)
      BY <2>6, <2>7, <2>9, <2>10, GrowsFurther DEF Refused
    <2> QED
      BY <2>11 DEF span
  <1> QED
    BY <1>1, <1>2, <1>3, <1>4


\* The groups after the first that a request reaches, and what is left of it
\* in the last of them.
LEMMA RestOfRequest ==
  ASSUME NEW w \in Nat \ {0}, NEW req \in Nat, NEW tail \in 1 .. w, req >= tail
  PROVE  LET more == (req - tail + w - 1) \div w
         IN  more \in Nat /\ req - tail - ((more - 1) * w) \in 0 .. w
  <1> DEFINE a == req - tail + w - 1
             more == a \div w
             r == a % w
  <1>1. a \in Nat
    OBVIOUS
  <1>2. more \in Nat /\ r \in 0 .. w - 1 /\ a = w * more + r
    BY <1>1, Division, Zenon
  <1>3. req - tail = a - w + 1
    OBVIOUS
  <1> HIDE DEF a, r
  <1> DEFINE k == more
  <1> HIDE DEF more
  <1>4. (k - 1) * w = w * k - w /\ w * k \in Nat
    <2>1. \A x, y \in Nat : (x - 1) * y = y * x - y /\ y * x \in Nat
      OBVIOUS
    <2> QED
      BY <1>2, <2>1
  <1>5. req - tail - ((k - 1) * w) = r + 1
    BY <1>1, <1>2, <1>3, <1>4
  <1> QED
    BY <1>2, <1>5 DEF more, a

\* try_block_append grants, or refuses and changes nothing.
LEMMA TryAppendGrows ==
  ASSUME NEW d \in Distributor, NEW first \in Nat, NEW req \in Nat
  PROVE  LET e == TryAppend(d, first, req)
         IN  Grows(d, e) /\ (Refused(e) => Same(d, e))
  <1> DEFINE e == TryAppend(d, first, req)
             g == GroupOf(first)
             local == PositionOf(first)
             tail == W - local
             more == (req - tail + W - 1) \div W
             rem == req - tail - ((more - 1) * W)
             span == Spanning(d, g, local, more, rem)
             m == [d.groups EXCEPT ![g] = Mark(@, LowPattern(local + req))]
             marked == [d EXCEPT !.groups = m]
  <1>1. \/ e = Faulted(d, "overrun")
        \/ g \in Groups /\ \/ e = Failed(d)
                           \/ req < tail /\ e = ExtendLast(marked, req)
                           \/ ~ (req < tail) /\ (e = ExtendLast(span, req) \/ e = span)
    BY Zenon DEF TryAppend
  <1>2. local \in Positions /\ local \in 0 .. W - 1
    <2>1. first % W \in 0 .. W - 1
      BY Division, WAssumption, Zenon
    <2> QED
      BY <2>1 DEF PositionOf, Positions
  <1>3. CASE e = Faulted(d, "overrun")
    <2>1. Faulted(d, "overrun") \in Distributor /\ Same(d, Faulted(d, "overrun"))
      BY FaultedKeeps
    <2> QED
      BY <1>3, <2>1, GrowsSame
  <1>4. CASE e = Failed(d)
    <2>1. Failed(d) \in Distributor /\ Same(d, Failed(d))
      BY FailedKeeps
    <2> QED
      BY <1>4, <2>1, GrowsSame
  <1>5. CASE g \in Groups /\ req < tail /\ e = ExtendLast(marked, req)
    <2>1. local + req \in 0 .. W
      BY <1>2, <1>5, WAssumption
    <2>2. LowPattern(local + req) \in SUBSET Positions
      <3>1. 0 \in Nat
        OBVIOUS
      <3> QED
        BY <2>1, <3>1, Patterns
    <2>3. d.groups \in [Groups -> Byte]
      BY DistributorFields
    <2>4. /\ Mark(d.groups[g], LowPattern(local + req)) \in Byte
          /\ d.groups[g] \subseteq Mark(d.groups[g], LowPattern(local + req))
      BY <1>5, <2>2, <2>3, MarkedGroup
    <2>5. m \in [Groups -> Byte] /\ \A h \in Groups : d.groups[h] \subseteq m[h]
      BY <1>5, <2>3, <2>4
    <2> HIDE DEF m
    <2>6. Grows(d, marked)
      BY <2>5, GrowsMarked
    <2>7. marked \in Distributor
      BY <2>6 DEF Grows
    <2> HIDE DEF marked
    <2>8. Grows(marked, ExtendLast(marked, req)) /\ ~Refused(ExtendLast(marked, req))
      BY <2>7, ExtendGrows
    <2>9. Grows(d, e) /\ ~Refused(e)
      BY <1>5, <2>6, <2>8, GrowsFurther
    <2> QED
      BY <2>9
  <1>6. CASE g \in Groups /\ ~ (req < tail) /\ (e = ExtendLast(span, req) \/ e = span)
    <2>1. more \in Nat /\ rem \in 0 .. W
      <3>1. tail \in 1 .. W /\ req >= tail
        BY <1>2, <1>6, WAssumption
      <3> HIDE DEF tail
      <3> QED
        BY <3>1, RestOfRequest, WAssumption
    <2> HIDE DEF g, local, more, rem
    <2>2. Grows(d, span) /\ (Refused(span) => Same(d, span))
      BY <1>2, <1>6, <2>1, SpanningGrows
    <2>3. span \in Distributor
      BY <2>2 DEF Grows
    <2> HIDE DEF span
    <2>4. Grows(span, ExtendLast(span, req)) /\ ~Refused(ExtendLast(span, req))
      BY <2>3, ExtendGrows
    <2>5. Grows(d, e) /\ (Refused(e) => Same(d, e))
      BY <1>6, <2>2, <2>4, GrowsFurther
    <2> QED
      BY <2>5
  <1> QED
    BY <1>1, <1>3, <1>4, <1>5, <1>6

-----------------------------------------------------------------------------
(* reinit_free_start and fetch_block_and_append                            *)

\* Drawing new starts touches neither bitmap nor account.
LEMMA ReinitsKeep ==
  ASSUME NEW d \in Distributor, NEW e \in Reinits(d)
  PROVE  e \in Distributor /\ Same(d, e) /\ e.ret = d.ret /\ e.fault = d.fault
  <1>1. PICK draws \in [1 .. NumStarts -> Groups] :
               e = [d EXCEPT !.starts = KnownAfter(d, draws)]
    BY Zenon DEF Reinits, KnownAfter
  <1>2. d.groups \in [Groups -> Byte]
    BY DistributorFields
  <1>3. KnownAfter(d, draws) \in Starts
    BY <1>2, KnownTyped
  <1> DEFINE known == KnownAfter(d, draws)
  <1> HIDE DEF known
  <1>4. /\ [d EXCEPT !.starts = known] \in Distributor
        /\ [d EXCEPT !.starts = known] =
             [groups |-> d.groups, starts |-> known, bps |-> d.bps,
              blocks |-> d.blocks, ret |-> d.ret, fault |-> d.fault]
    BY <1>3, Assign DEF known
  <1> QED
    BY <1>1, <1>4 DEF Same, known

\* Moving a start to the next group touches neither bitmap nor account.
LEMMA AdvanceKeeps ==
  ASSUME NEW d \in Distributor, NEW cur, NEW g \in Groups
  PROVE  LET e == AdvanceStart(d, cur, g)
         IN  e \in Distributor /\ Same(d, e) /\ e.ret = d.ret
  <1> DEFINE e == AdvanceStart(d, cur, g)
             to(h) == [d EXCEPT !.starts[cur] = StartOf(d.groups, h)]
  <1>0. d.groups \in [Groups -> Byte] /\ d.starts \in Starts
    BY DistributorFields
  <1>1. ASSUME NEW h \in Groups, Free(d.groups[h]) > 0
        PROVE  to(h) \in Distributor /\ Same(d, to(h)) /\ to(h).ret = d.ret
    <2> DEFINE b == StartOf(d.groups, h)
               s == [d.starts EXCEPT ![cur] = b]
    <2>1. b \in Blocks
      BY <1>0, <1>1, StartFacts
    <2> HIDE DEF b
    <2>2. s \in Starts
      BY <1>0, <2>1, StartMoved
    <2>3. to(h) = [d EXCEPT !.starts = s]
      BY Zenon DEF b
    <2> HIDE DEF s
    <2>4. /\ [d EXCEPT !.starts = s] \in Distributor
          /\ [d EXCEPT !.starts = s] =
               [groups |-> d.groups, starts |-> s, bps |-> d.bps,
                blocks |-> d.blocks, ret |-> d.ret, fault |-> d.fault]
      BY <2>2, Assign
    <2> QED
      BY <2>3, <2>4 DEF Same
  <1>2. \/ Free(d.groups[g]) > 0 /\ e = to(g)
        \/ e = Faulted(d, "overrun")
        \/ g + 1 \in Groups /\ Free(d.groups[g + 1]) > 0 /\ e = to(g + 1)
        \/ e = d
    BY Zenon DEF AdvanceStart
  <1>3. CASE e = Faulted(d, "overrun")
    BY <1>3, FaultedKeeps
  <1>4. CASE e = d
    BY <1>4 DEF Same
  <1> HIDE DEF to
  <1> QED
    BY <1>1, <1>2, <1>3, <1>4

\* Taking a range from a start marks, counts and grants.
LEMMA TakeFromGrows ==
  ASSUME NEW d \in Distributor, NEW cur \in 1 .. Len(d.starts), NEW req \in Nat
  PROVE  LET e == TakeFrom(d, cur, req)
         IN  Grows(d, e) /\ ~Refused(e)
  <1> DEFINE first == d.starts[cur]
             g == GroupOf(first)
             pattern == FetchPattern(PositionOf(first), req)
             m == [d.groups EXCEPT ![g] = Mark(@, pattern)]
             bp == [begin |-> first, length |-> req]
             longer == Append(d.bps, bp)
             count == d.blocks + req
             taken == Granted(d, m, longer, count, req)
             e == TakeFrom(d, cur, req)
  <1>1. /\ d = [groups |-> d.groups, starts |-> d.starts, bps |-> d.bps,
                blocks |-> d.blocks, ret |-> d.ret, fault |-> d.fault]
        /\ d.groups \in [Groups -> Byte] /\ d.starts \in Starts
        /\ d.bps \in Seq(BlockPointer) /\ d.blocks \in Nat
        /\ d.fault \in {"none", "null_bps", "overrun", "underflow"}
    BY DistributorFields
  <1>2. first \in Blocks
    <2>1. d.starts \in Seq(Blocks)
      BY <1>1 DEF Starts
    <2> QED
      BY <2>1
  <1>3. g \in Groups /\ PositionOf(first) \in Positions
    BY <1>2, BlockFacts
  <1>4. pattern \in SUBSET Positions
    <2>1. PositionOf(first) \in 0 .. W
      BY <1>3, WAssumption DEF Positions
    <2> QED
      BY <2>1, Patterns
  <1>5. bp \in BlockPointer /\ bp.length = req
    BY <1>2 DEF BlockPointer
  <1> HIDE DEF first, g, pattern, bp, e
  <1>7. m \in [Groups -> Byte] /\ \A h \in Groups : d.groups[h] \subseteq m[h]
    <2>1. /\ Mark(d.groups[g], pattern) \in Byte
          /\ d.groups[g] \subseteq Mark(d.groups[g], pattern)
      BY <1>1, <1>3, <1>4, MarkedGroup
    <2> QED
      BY <1>1, <1>3, <2>1
  <1>8. longer \in Seq(BlockPointer) /\ Lengths(longer) = Lengths(d.bps) + req
    BY <1>1, <1>5, LengthsOfAppend
  <1>9. Lengths(d.bps) \in Nat /\ count \in Nat /\ count - d.blocks = req
    BY <1>1, LengthsTyped
  <1>10. e = AdvanceStart(taken, cur, g)
    <2>1. e = AdvanceStart([d EXCEPT !.groups[g] = Mark(@, pattern),
                                     !.bps = longer, !.blocks = @ + req, !.ret = req],
                           cur, g)
      BY Zenon DEF TakeFrom, first, g, pattern, bp, e
    <2>2. [d EXCEPT !.groups[g] = Mark(@, pattern),
                    !.bps = longer, !.blocks = @ + req, !.ret = req] = taken
      BY Zenon DEF Granted
    <2> QED
      BY <2>1, <2>2, Zenon
  <1> HIDE DEF m, longer, count
  <1>11. /\ taken \in Distributor
         /\ taken.groups = m /\ taken.bps = longer /\ taken.blocks = count
         /\ taken.ret = req
    BY <1>7, <1>8, <1>9, GrantedFields, SMTT(30)
  <1> HIDE DEF taken
  <1>12. Grows(d, taken)
    BY <1>1, <1>7, <1>8, <1>9, <1>11 DEF Grows
  <1>13. e \in Distributor /\ Same(taken, e) /\ e.ret = taken.ret
    BY <1>3, <1>10, <1>11, AdvanceKeeps
  <1>14. Grows(d, e) /\ ~Refused(e)
    BY <1>11, <1>12, <1>13, GrowsSame, GrowsFurther DEF Refused
  <1> QED
    BY <1>14 DEF e

\* A try at one start grants, or refuses and changes nothing.
LEMMA TryStartGrows ==
  ASSUME NEW d \in Distributor, NEW cur \in 1 .. Len(d.starts), NEW req \in Nat
  PROVE  LET e == TryStart(d, cur, req)
         IN  Grows(d, e) /\ (Refused(e) => Same(d, e))
  <1> DEFINE e == TryStart(d, cur, req)
  <1>1. \/ e = TakeFrom(d, cur, req)
        \/ e = TryAppend(d, d.starts[cur], req)
        \/ e = Failed(d)
    BY Zenon DEF TryStart
  <1>2. CASE e = TakeFrom(d, cur, req)
    BY <1>2, TakeFromGrows
  <1>3. CASE e = TryAppend(d, d.starts[cur], req)
    <2>1. d.starts \in Seq(Blocks)
      BY DistributorFields DEF Starts
    <2>2. d.starts[cur] \in Nat
      BY <2>1, WAssumption, NumGroupsAssumption DEF Blocks
    <2> QED
      BY <1>3, <2>2, TryAppendGrows
  <1>4. CASE e = Failed(d)
    <2>1. Failed(d) \in Distributor /\ Same(d, Failed(d))
      BY FailedKeeps
    <2> QED
      BY <1>4, <2>1, GrowsSame
  <1> QED
    BY <1>1, <1>2, <1>3, <1>4


\* What a search through the known starts, or a whole request, comes to.
Answers(d, e) == Grows(d, e) /\ (Refused(e) => Same(d, e))

\* A denial is an answer that changes nothing.
LEMMA DeniedAnswers ==
  ASSUME NEW d \in Distributor, NEW req, NEW e \in Denied(d, req)
  PROVE  Answers(d, e)
  <1>1. PICK x \in Reinits(d) : e = Failed(x)
    BY DEF Denied
  <1>2. x \in Distributor /\ Same(d, x)
    BY ReinitsKeep
  <1>3. Failed(x) \in Distributor /\ Same(x, Failed(x))
    BY <1>2, FailedKeeps
  <1>4. Same(d, e)
    BY <1>1, <1>2, <1>3 DEF Same
  <1> QED
    BY <1>1, <1>3, <1>4, GrowsSame DEF Answers

\* Remainders of a number below the divisor, and of one just above.
LEMMA Remainders ==
  ASSUME NEW n \in Nat \ {0}, NEW a \in 0 .. n - 1
  PROVE  a % n = a /\ (a + n) % n = a
  BY SMT

\* The search begins anywhere and comes round to every start.
LEMMA StartsAllTried ==
  ASSUME NEW n \in Nat \ {0}, NEW foo \in 0 .. n - 1, NEW cur \in 1 .. n
  PROVE  \E idx \in 0 .. n - 1 : ((foo + idx) % n) + 1 = cur
  <1> DEFINE c == cur - 1
  <1>1. c \in 0 .. n - 1 /\ c + 1 = cur /\ c % n = c /\ (c + n) % n = c
    <2>1. c \in 0 .. n - 1 /\ c + 1 = cur
      OBVIOUS
    <2> HIDE DEF c
    <2> QED
      BY <2>1, Remainders
  <1> HIDE DEF c
  <1>2. CASE foo <= c
    <2>1. c - foo \in 0 .. n - 1 /\ foo + (c - foo) = c
      BY <1>1, <1>2
    <2> QED
      BY <1>1, <2>1, Zenon
  <1>3. CASE foo > c
    <2>1. c - foo + n \in 0 .. n - 1 /\ foo + (c - foo + n) = c + n
      BY <1>1, <1>3
    <2> QED
      BY <1>1, <2>1, Zenon
  <1>4. foo <= c \/ foo > c
    BY <1>1
  <1> QED
    BY <1>2, <1>3, <1>4

\* The tries at all starts end with a grant or with nothing changed.
LEMMA TryStartsAnswer ==
  ASSUME NEW d \in Distributor, NEW req \in Nat, NEW e \in TryStarts(d, req)
  PROVE  Answers(d, e)
  <1> DEFINE n == Len(d.starts)
             at(foo, idx) == ((foo + idx) % n) + 1
             turn(foo, idx) == TryStart(d, at(foo, idx), req)
             first(foo) == CHOOSE idx \in 0 .. n - 1 :
                             /\ Settled(turn(foo, idx))
                             /\ \A j \in 0 .. idx - 1 : ~Settled(turn(foo, j))
  <1>1. n \in Nat
    <2>1. d.starts \in Seq(Blocks)
      BY DistributorFields DEF Starts
    <2> QED
      BY <2>1
  <1>2. CASE \A cur \in 1 .. n : ~Settled(TryStart(d, cur, req))
    <2>1. e \in Denied(d, req)
      BY <1>2 DEF TryStarts
    <2> QED
      BY <2>1, DeniedAnswers
  <1>3. CASE ~ \A cur \in 1 .. n : ~Settled(TryStart(d, cur, req))
    <2>1. PICK foo \in 0 .. n - 1 : e = turn(foo, first(foo))
      BY <1>3, Zenon DEF TryStarts
    <2>2. PICK cur \in 1 .. n : Settled(TryStart(d, cur, req))
      BY <1>3
    <2> HIDE DEF n
    <2>3. n \in Nat \ {0}
      BY <1>1, <2>2
    <2>4. PICK hit \in 0 .. n - 1 : at(foo, hit) = cur
      BY <2>3, StartsAllTried
    <2> DEFINE hits == {idx \in 0 .. n - 1 : Settled(turn(foo, idx))}
    <2>5. hits \in SUBSET Nat /\ hits # {}
      <3>1. hit \in hits
        BY <2>2, <2>4, Zenon
      <3>2. 0 .. n - 1 \subseteq Nat
        BY <2>3
      <3> QED
        BY <3>1, <3>2, Zenon
    <2>6. PICK idx \in hits : \A j \in hits : idx <= j
      BY <2>5, LeastNumber
    <2>7. idx \in 0 .. n - 1 /\ Settled(turn(foo, idx))
          /\ \A j \in 0 .. idx - 1 : ~Settled(turn(foo, j))
      <3>1. idx \in 0 .. n - 1 /\ Settled(turn(foo, idx))
        BY Zenon
      <3>2. ASSUME NEW j \in 0 .. idx - 1 PROVE ~Settled(turn(foo, j))
        <4>1. j \in 0 .. n - 1 /\ ~ (idx <= j)
          BY <2>3, <3>1
        <4> QED
          BY <2>6, <4>1, Zenon
      <3> QED
        BY <3>1, <3>2
    <2>8. first(foo) \in 0 .. n - 1
      BY <2>7, Zenon
    <2> HIDE DEF first
    <2>9. at(foo, first(foo)) \in 1 .. n
      <3>1. foo + first(foo) \in Nat
        BY <2>3, <2>8
      <3> DEFINE sum == foo + first(foo)
      <3> HIDE DEF sum
      <3>2. sum % n \in 0 .. n - 1
        BY <2>3, <3>1, Division, Zenon DEF sum
      <3> QED
        BY <2>3, <3>2 DEF sum
    <2> DEFINE c == at(foo, first(foo))
    <2> HIDE DEF c
    <2>10. c \in 1 .. Len(d.starts) /\ e = TryStart(d, c, req)
      BY <2>1, <2>9, Zenon DEF n, c
    <2> QED
      BY <2>10, TryStartGrows DEF Answers
  <1> QED
    BY <1>2, <1>3

\* block_distributor_fetch ends with a grant or with nothing changed.
LEMMA FetchAnswers ==
  ASSUME NEW d \in Distributor, NEW req \in Nat, NEW e \in Fetch(d, req)
  PROVE  Answers(d, e)
  <1>1. PICK x \in IF d.starts = <<>> THEN Reinits(d) ELSE {d} : e \in TryStarts(x, req)
    BY DEF Fetch
  <1>2. x \in Distributor /\ Same(d, x)
    <2>1. x = d \/ x \in Reinits(d)
      OBVIOUS
    <2>2. x = d => Same(d, x)
      BY DEF Same
    <2> QED
      BY <2>1, <2>2, ReinitsKeep
  <1>3. Answers(x, e)
    BY <1>1, <1>2, TryStartsAnswer
  <1>4. Grows(d, x)
    BY <1>2, GrowsSame
  <1> QED
    BY <1>2, <1>3, <1>4, GrowsFurther DEF Answers, Same

-----------------------------------------------------------------------------
(* block_distributor_realloc                                               *)

\* block_distributor_realloc ends with a grant or with nothing changed.
LEMMA ReallocAnswers ==
  ASSUME NEW d \in Distributor, NEW n \in Nat, NEW e \in Realloc(d, n)
  PROVE  Answers(d, e)
  <1> DEFINE req == n - d.blocks
             last == d.bps[Len(d.bps)]
             cont == TryAppend(d, last.begin + last.length, req)
  <1>1. \/ req <= 0 /\ e = [d EXCEPT !.ret = 0]
        \/ e \in Fetch(d, n)
        \/ ~ (req <= 0) /\ d.bps # <<>> /\ (e = cont \/ e \in Fetch(d, req))
    BY Zenon DEF Realloc
  <1>2. d.blocks \in Nat /\ d.bps \in Seq(BlockPointer) /\ req \in Int
    BY DistributorFields
  <1>3. CASE req <= 0 /\ e = [d EXCEPT !.ret = 0]
    <2>1. 0 \in Nat \cup {-1}
      OBVIOUS
    <2>2. /\ [d EXCEPT !.ret = 0] \in Distributor
          /\ [d EXCEPT !.ret = 0] =
               [groups |-> d.groups, starts |-> d.starts, bps |-> d.bps,
                blocks |-> d.blocks, ret |-> 0, fault |-> d.fault]
      BY <2>1, Assign
    <2>3. e \in Distributor /\ Same(d, e)
      BY <1>3, <2>2 DEF Same
    <2> QED
      BY <2>3, GrowsSame DEF Answers
  <1>4. CASE e \in Fetch(d, n)
    BY <1>4, FetchAnswers
  <1>5. CASE ~ (req <= 0) /\ d.bps # <<>> /\ (e = cont \/ e \in Fetch(d, req))
    <2>1. req \in Nat
      BY <1>2, <1>5
    <2>2. last \in BlockPointer
      BY <1>2, <1>5
    <2>3. last.begin + last.length \in Nat
      BY <2>2, WAssumption, NumGroupsAssumption DEF BlockPointer, Blocks
    <2> HIDE DEF req, last
    <2>4. CASE e = cont
      BY <2>1, <2>3, <2>4, TryAppendGrows DEF Answers
    <2>5. CASE e \in Fetch(d, req)
      BY <2>1, <2>5, FetchAnswers
    <2> QED
      BY <1>5, <2>4, <2>5
  <1> QED
    BY <1>1, <1>3, <1>4, <1>5

-----------------------------------------------------------------------------
(* block_distributor_free                                                  *)

\* Toggling bits leaves a byte.
LEMMA ToggledGroup ==
  ASSUME NEW group \in Byte, NEW p \in 0 .. W
  PROVE  Toggle(group, LowPattern(p)) \in Byte
  <1>1. LowPattern(p) \in SUBSET Positions
    <2>1. 0 \in Nat
      OBVIOUS
    <2> QED
      BY <2>1, Patterns
  <1> QED
    BY <1>1 DEF Toggle, Byte

\* Freeing one pointer leaves a distributor.
LEMMA FreePointerTyped ==
  ASSUME NEW d \in Distributor, NEW bp \in BlockPointer
  PROVE  FreePointer(d, bp) \in Distributor
  <1> DEFINE g == GroupOf(bp.begin)
             local == PositionOf(bp.begin)
             start == IF W - local < bp.length THEN W - local ELSE bp.length
             rem == bp.begin - start
             whole == rem \div W
             m == [d.groups EXCEPT ![g] = Toggle(@, LowPattern(local + start))]
             first == [d EXCEPT !.groups = m]
             further == [h \in Groups |->
                           IF g < h /\ h <= g + whole THEN {}
                           ELSE IF h = g + whole + 1
                             THEN Toggle(m[h], LowPattern(rem % W))
                           ELSE m[h]]
             e == FreePointer(d, bp)
  <1>1. d.groups \in [Groups -> Byte]
    BY DistributorFields
  <1>2. bp.begin \in Blocks /\ bp.length \in Nat
    BY DEF BlockPointer
  <1>3. bp.begin \in Nat /\ g \in Groups /\ local \in 0 .. W - 1
    <2>1. bp.begin \in Nat
      BY <1>2, WAssumption, NumGroupsAssumption DEF Blocks
    <2>2. g \in Groups /\ local \in Positions
      BY <1>2, BlockFacts
    <2> QED
      BY <2>1, <2>2 DEF Positions
  <1>4. start \in Nat /\ local + start \in 0 .. W /\ rem \in Int
    BY <1>2, <1>3, WAssumption
  <1>5. m \in [Groups -> Byte]
    <2>1. d.groups[g] \in Byte
      BY <1>1, <1>3
    <2>2. Toggle(d.groups[g], LowPattern(local + start)) \in Byte
      BY <1>4, <2>1, ToggledGroup
    <2> HIDE DEF g, local, start
    <2> QED
      BY <1>1, <2>2
  <1>6. first \in Distributor /\ first.groups = m
    <2> HIDE DEF m
    <2>1. /\ [d EXCEPT !.groups = m] \in Distributor
          /\ [d EXCEPT !.groups = m] =
               [groups |-> m, starts |-> d.starts, bps |-> d.bps,
                blocks |-> d.blocks, ret |-> d.ret, fault |-> d.fault]
      BY <1>5, Assign
    <2> QED
      BY <2>1
  <1>7. \/ e = [first EXCEPT !.ret = 0]
        \/ e = Faulted(d, "underflow") \/ e = Faulted(d, "overrun")
        \/ ~ (rem < 0) /\ e = [first EXCEPT !.groups = further]
    <2>1. first = [d EXCEPT !.groups[g] = Toggle(@, LowPattern(local + start))]
      BY Zenon
    <2>2. \/ e = [first EXCEPT !.ret = 0]
          \/ e = Faulted(d, "underflow") \/ e = Faulted(d, "overrun")
          \/ ~ (rem < 0) /\ e = [first EXCEPT !.groups =
               [h \in Groups |-> IF g < h /\ h <= g + whole THEN {}
                                 ELSE IF h = g + whole + 1
                                   THEN Toggle(first.groups[h], LowPattern(rem % W))
                                 ELSE first.groups[h]]]
      BY <2>1, Zenon DEF FreePointer
    <2> HIDE DEF first, m, g, whole, rem, e
    <2> QED
      BY <1>6, <2>2, Zenon
  <1> HIDE DEF g, local, start, m, first, e
  <1>8. ASSUME e = [first EXCEPT !.ret = 0]
        PROVE  e \in Distributor
    <2>1. 0 \in Nat \cup {-1}
      OBVIOUS
    <2>2. first \in Distributor
      BY <1>6
    <2> QED
      BY <1>8, <2>1, <2>2, Assign, Zenon
  <1>9. ASSUME e = Faulted(d, "underflow") \/ e = Faulted(d, "overrun")
        PROVE  e \in Distributor
    BY <1>9, FaultedKeeps
  <1>10. ASSUME ~ (rem < 0), e = [first EXCEPT !.groups = further]
         PROVE  e \in Distributor
    <2>1. rem \in Nat
      BY <1>4, <1>10
    <2>2. rem % W \in 0 .. W
      <3>1. rem % W \in 0 .. W - 1
        BY <2>1, Division, WAssumption, Zenon
      <3> QED
        BY <3>1, WAssumption
    <2>3. further \in [Groups -> Byte]
      <3>1. ASSUME NEW h \in Groups PROVE further[h] \in Byte
        <4>1. m[h] \in Byte /\ {} \in Byte
          BY <1>5 DEF Byte
        <4>2. Toggle(m[h], LowPattern(rem % W)) \in Byte
          BY <2>2, <4>1, ToggledGroup
        <4> QED
          BY <4>1, <4>2
      <3> QED
        BY <3>1
    <2>4. first \in Distributor
      BY <1>6
    <2> HIDE DEF further
    <2> QED
      BY <1>10, <2>3, <2>4, Assign, Zenon
  <1>11. e \in Distributor
    BY <1>7, <1>8, <1>9, <1>10, Zenon
  <1> QED
    BY <1>11 DEF e

\* The pointers that the loop of block_distributor_free has looked at.
FreedAfter(d) ==
  FoldLeft(LAMBDA e, bp : IF Settled(e) THEN e ELSE FreePointer(e, bp),
           Failed(d), d.bps)

\* Freeing a node leaves a distributor.
LEMMA FreedTyped ==
  ASSUME NEW d \in Distributor
  PROVE  FreedAfter(d) \in Distributor
  <1> DEFINE n == Len(d.bps)
             D == 1 .. n
             A == Distributor
             none == Failed(d)
             next(e, i) == IF Settled(e) THEN e ELSE FreePointer(e, d.bps[i])
             step == [i \in D |-> [e \in A |-> next(e, i)]]
             Eq(g) == [s \in SUBSET D |->
                        IF s = {} THEN none ELSE next(g[s \ {Max(s)}], Max(s))]
             iter == CHOOSE g : g = Eq(g)
  <1>1. n \in Nat /\ DOMAIN d.bps = D /\ \A i \in D : d.bps[i] \in BlockPointer
    <2>1. d.bps \in Seq(BlockPointer)
      BY DistributorFields
    <2> QED
      BY <2>1
  <1>2. FreedAfter(d) = iter[D]
    BY <1>1 DEF FreedAfter, FoldLeft, MapThenFoldSet
  <1>3. ASSUME NEW i \in D, NEW e \in A
        PROVE  next(e, i) \in A
    BY <1>1, FreePointerTyped
  <1>4. none \in A
    BY FailedKeeps
  <1> HIDE DEF n, A, next, none
  <1>5. PICK g \in [SUBSET D -> A] : g = FoldStep(D, none, step, g)
    <2>1. step \in [D -> [A -> A]]
      BY <1>3
    <2> HIDE DEF step
    <2>2. \A B : \A base \in B, f \in [1 .. n -> [B -> B]] :
            \E g \in [SUBSET (1 .. n) -> B] : g = FoldStep(1 .. n, base, f, g)
      BY <1>1, FoldExists, Zenon
    <2>3. none \in A
      BY <1>4
    <2> QED
      BY <2>1, <2>2, <2>3, Zenon
  <1>6. g = Eq(g)
    <2>1. ASSUME NEW s \in SUBSET D, s # {}
          PROVE  step[Max(s)][g[s \ {Max(s)}]] = next(g[s \ {Max(s)}], Max(s))
      <3>1. Max(s) \in D /\ g[s \ {Max(s)}] \in A
        BY <1>1, <2>1, MaxOf
      <3> QED
        BY <3>1, Zenon
    <2> QED
      BY <1>5, <2>1, Zenon DEF FoldStep
  <1>7. iter = Eq(iter)
    BY <1>6, Zenon
  <1> HIDE DEF iter
  <1>8. iter[1 .. 0] = none
    <2>1. 1 .. 0 = {} /\ 1 .. 0 \in SUBSET D
      OBVIOUS
    <2> QED
      BY <1>7, <2>1, Zenon
  <1>9. ASSUME NEW i \in D PROVE iter[1 .. i] = next(iter[1 .. i - 1], i)
    <2>1. Max(1 .. i) = i /\ (1 .. i) \ {i} = 1 .. i - 1
      BY <1>1, MaxOfInterval
    <2>2. 1 .. i \in SUBSET D /\ 1 .. i # {}
      BY <1>1
    <2>3. iter[1 .. i] = next(iter[(1 .. i) \ {Max(1 .. i)}], Max(1 .. i))
      BY <1>7, <2>2, Zenon
    <2> QED
      BY <2>1, <2>3, Zenon
  <1> DEFINE S == {i \in 0 .. n : iter[1 .. i] \in A}
  <1>10. 0 \in S
    BY <1>1, <1>4, <1>8
  <1>11. ASSUME NEW i \in 1 .. n, i - 1 \in S PROVE i \in S
    <2>1. iter[1 .. i - 1] \in A /\ i \in 0 .. n
      BY <1>1, <1>11
    <2>2. next(iter[1 .. i - 1], i) \in A
      BY <1>3, <2>1, Zenon
    <2> QED
      BY <1>9, <2>1, <2>2, Zenon
  <1>12. n \in S
    <2>1. \A i \in 0 .. n : i \in S
      BY <1>1, <1>10, <1>11, Climb, Zenon
    <2>2. n \in 0 .. n
      BY <1>1
    <2> QED
      BY <2>1, <2>2, Zenon
  <1> QED
    BY <1>2, <1>12 DEF A

-----------------------------------------------------------------------------
(* The calls of truncate and unlink.                                       *)

\* The distributor and the node of a call.
LEMMA RecordOf ==
  ASSUME TypeOK, NEW f \in Files
  PROVE  /\ Record(f) \in Distributor
         /\ Record(f).groups = groups /\ Record(f).starts = starts
         /\ Record(f).bps = bps[f] /\ Record(f).blocks = blocks[f]
  <1>1. /\ groups \in [Groups -> Byte] /\ starts \in Starts
        /\ bps[f] \in Seq(BlockPointer) /\ blocks[f] \in Nat
    BY DEF TypeOK, Starts
  <1>2. -1 \in Nat \cup {-1}
    OBVIOUS
  <1>3. Record(f) \in Distributor
    BY <1>1, <1>2, MakeDistributor DEF Record
  <1> QED
    BY <1>3 DEF Record

\* truncate of the file is one answer of the distributor.
LEMMA GrowAnswered ==
  ASSUME TypeOK, NEW f \in Files, NEW n \in Sizes, Grow(f, n)
  PROVE  \E e : Answers(Record(f), e) /\ Becomes(f, e)
  <1>1. PICK e \in Realloc(Record(f), n) : Becomes(f, e)
    BY DEF Grow
  <1>2. Record(f) \in Distributor /\ n \in Nat
    BY RecordOf, SizesAssumption
  <1>3. Answers(Record(f), e)
    BY <1>2, ReallocAnswers
  <1> QED
    BY <1>1, <1>3

\* unlink leaves the file without pointers and blocks.
LEMMA UnlinkAnswered ==
  ASSUME TypeOK, NEW f \in Files, Unlink(f)
  PROVE  \E e \in Distributor :
           e.bps = <<>> /\ e.blocks = 0 /\ e.ret = 0 /\ Becomes(f, e)
  <1> DEFINE d == Record(f)
             freed == FreedAfter(d)
             done == [freed EXCEPT !.ret = 0]
             bare == [done EXCEPT !.bps = <<>>]
             e == [bare EXCEPT !.blocks = 0]
  <1>1. freed \in Distributor
    BY RecordOf, FreedTyped
  <1>2. [FreeAll(d) EXCEPT !.bps = <<>>, !.blocks = 0] = e
    <2>1. FreeAll(d) = done
      BY Zenon DEF FreeAll, FreedAfter
    <2> HIDE DEF done
    <2> QED
      BY <2>1
  <1>3. Becomes(f, e)
    BY <1>2, Zenon DEF Unlink
  <1> HIDE DEF freed
  <1>4. done \in Distributor
        /\ done = [groups |-> freed.groups, starts |-> freed.starts, bps |-> freed.bps,
                   blocks |-> freed.blocks, ret |-> 0, fault |-> freed.fault]
    <2>1. 0 \in Nat \cup {-1}
      OBVIOUS
    <2> QED
      BY <1>1, <2>1, Assign, Zenon
  <1> HIDE DEF done
  <1>5. bare \in Distributor
        /\ bare = [groups |-> done.groups, starts |-> done.starts, bps |-> <<>>,
                   blocks |-> done.blocks, ret |-> done.ret, fault |-> done.fault]
    <2>1. <<>> \in Seq(BlockPointer) /\ done \in Distributor
      BY <1>4
    <2> QED
      BY <2>1, Assign, Zenon
  <1> HIDE DEF bare
  <1>6. e \in Distributor
        /\ e = [groups |-> bare.groups, starts |-> bare.starts, bps |-> bare.bps,
                blocks |-> 0, ret |-> bare.ret, fault |-> bare.fault]
    <2>1. 0 \in Nat /\ bare \in Distributor
      BY <1>5
    <2> QED
      BY <2>1, Assign, Zenon
  <1> HIDE DEF e
  <1>7. e.bps = <<>> /\ e.blocks = 0 /\ e.ret = 0
    BY <1>4, <1>5, <1>6
  <1> QED
    BY <1>3, <1>6, <1>7

\* An answer of the distributor is well typed.
LEMMA TypeAfter ==
  ASSUME TypeOK, NEW f \in Files, NEW e \in Distributor, Becomes(f, e),
         calls < MaxCalls, call' \in {"grow", "unlink"}
  PROVE  TypeOK'
  <1>1. /\ e.groups \in [Groups -> Byte] /\ e.starts \in Starts
        /\ e.bps \in Seq(BlockPointer) /\ e.blocks \in Nat
        /\ e.ret \in Nat \cup {-1}
        /\ e.fault \in {"none", "null_bps", "overrun", "underflow"}
    BY DistributorFields
  <1>2. /\ groups' = e.groups /\ starts' = e.starts
        /\ bps' = [bps EXCEPT ![f] = e.bps]
        /\ blocks' = [blocks EXCEPT ![f] = e.blocks]
        /\ ret' = e.ret /\ calls' = calls + 1
        /\ status' = IF e.fault = "none" THEN "ok" ELSE e.fault
    BY DEF Becomes
  <1>3. bps' \in [Files -> Seq(BlockPointer)] /\ blocks' \in [Files -> Nat]
    <2>1. bps \in [Files -> Seq(BlockPointer)] /\ blocks \in [Files -> Nat]
      BY DEF TypeOK
    <2> QED
      BY <1>1, <1>2, <2>1
  <1>4. calls' \in 0 .. MaxCalls
    BY <1>2, MaxCallsAssumption DEF TypeOK
  <1>5. status' \in {"ok", "null_bps", "overrun", "underflow"}
    BY <1>1, <1>2
  <1>6. starts' \in Seq(Blocks) /\ Len(starts') <= NumStarts
    BY <1>1, <1>2 DEF Starts
  <1> QED
    BY <1>1, <1>2, <1>3, <1>4, <1>5, <1>6 DEF TypeOK

\* Every step preserves the types.
LEMMA TypeNext ==
  TypeOK /\ [Next]_vars => TypeOK'
  <1> SUFFICES ASSUME TypeOK, [Next]_vars PROVE TypeOK'
    OBVIOUS
  <1>1. ASSUME NEW f \in Files, NEW n \in Sizes, Grow(f, n) PROVE TypeOK'
    <2>1. PICK e : Answers(Record(f), e) /\ Becomes(f, e)
      BY <1>1, GrowAnswered
    <2>2. e \in Distributor
      BY <2>1 DEF Answers, Grows
    <2> QED
      BY <1>1, <2>1, <2>2, TypeAfter DEF Grow
  <1>2. ASSUME NEW f \in Files, Unlink(f) PROVE TypeOK'
    <2>1. PICK e \in Distributor : Becomes(f, e)
      BY <1>2, UnlinkAnswered
    <2> QED
      BY <1>2, <2>1, TypeAfter DEF Unlink
  <1>3. CASE UNCHANGED vars
    BY <1>3 DEF vars, TypeOK
  <1> QED
    BY <1>1, <1>2, <1>3 DEF Next

\* The initial states are well typed.
LEMMA TypeInit == Init => TypeOK
  <1> SUFFICES ASSUME Init PROVE TypeOK
    OBVIOUS
  <1>1. groups \in [Groups -> Byte]
    BY DEF Init, Byte
  <1>2. starts \in Seq(Blocks) /\ Len(starts) <= NumStarts
    <2>1. ASSUME NEW g \in Groups PROVE g * W \in Blocks
      <3>1. 0 \in 0 .. W - 1 /\ (g * W) + 0 = g * W
        BY WAssumption, NumGroupsAssumption DEF Groups
      <3>2. (g * W) + 0 \in 0 .. (NumGroups * W) - 1
        BY <3>1, WithinProduct, WAssumption, NumGroupsAssumption DEF Groups
      <3> QED
        BY <3>1, <3>2 DEF Blocks
    <2>2. starts \in [1 .. NumStarts -> Blocks]
      BY <2>1 DEF Init
    <2> QED
      BY <2>2, NumStartsAssumption
  <1>3. bps \in [Files -> Seq(BlockPointer)] /\ blocks \in [Files -> Nat]
    BY DEF Init
  <1> QED
    BY <1>1, <1>2, <1>3, MaxCallsAssumption DEF Init, TypeOK

\* The operations of block_distributor.c keep the bitmap a byte for each group,
\* every known start a block of the bitmap and their number at most that of
\* the array free_start, and every block pointer of a node within the bitmap.
THEOREM TypeCorrect == Spec => []TypeOK
  BY TypeInit, TypeNext, PTL DEF Spec

\* What BlocksAccounted adds up.
LEMMA LengthOfIs == \A f \in Files : LengthOf(f) = Lengths(bps[f])
  BY DEF LengthOf, Lengths

\* No file has a block at first.
LEMMA AccountedInit == Init => BlocksAccounted
  BY LengthsOfNone DEF Init, BlocksAccounted, LengthOf, Lengths

\* Every step preserves the account.
LEMMA AccountedNext ==
  TypeOK /\ BlocksAccounted /\ [Next]_vars => BlocksAccounted'
  <1> SUFFICES ASSUME TypeOK, BlocksAccounted, [Next]_vars PROVE BlocksAccounted'
    OBVIOUS
  <1>0. \A f \in Files : LengthOf(f) = Lengths(bps[f]) /\ LengthOf(f)' = Lengths(bps'[f])
    <2>1. (\A f \in Files : LengthOf(f) = Lengths(bps[f]))'
      BY LengthOfIs, PTL
    <2> QED
      BY <2>1, LengthOfIs
  <1>1. ASSUME NEW f \in Files, NEW e, Becomes(f, e), e.blocks = Lengths(e.bps)
        PROVE  BlocksAccounted'
    <2>1. bps' = [bps EXCEPT ![f] = e.bps] /\ blocks' = [blocks EXCEPT ![f] = e.blocks]
      BY <1>1 DEF Becomes
    <2>2. DOMAIN bps = Files /\ DOMAIN blocks = Files
      BY DEF TypeOK
    <2>3. ASSUME NEW h \in Files PROVE blocks'[h] = LengthOf(h)'
      <3>1. CASE h = f
        BY <1>0, <1>1, <2>1, <2>2, <3>1, Zenon
      <3>2. CASE h # f
        <4>1. bps'[h] = bps[h] /\ blocks'[h] = blocks[h]
          BY <2>1, <2>2, <3>2, Zenon
        <4> QED
          BY <1>0, <4>1, Zenon DEF BlocksAccounted
      <3> QED
        BY <3>1, <3>2
    <2> QED
      BY <2>3 DEF BlocksAccounted
  <1>2. ASSUME NEW f \in Files, NEW n \in Sizes, Grow(f, n) PROVE BlocksAccounted'
    <2>1. PICK e : Answers(Record(f), e) /\ Becomes(f, e)
      BY <1>2, GrowAnswered
    <2>2. /\ Record(f).blocks = blocks[f] /\ Record(f).bps = bps[f]
          /\ Record(f) \in Distributor
      BY RecordOf
    <2>3. /\ blocks[f] \in Nat /\ Lengths(bps[f]) \in Nat
          /\ e.blocks \in Nat /\ Lengths(e.bps) \in Nat
      BY <2>1, <2>2, DistributorFields, LengthsTyped DEF Answers, Grows
    <2>4. e.blocks - blocks[f] = Lengths(e.bps) - Lengths(bps[f])
      BY <2>1, <2>2, Zenon DEF Answers, Grows
    <2>5. blocks[f] = Lengths(bps[f])
      BY <1>0, Zenon DEF BlocksAccounted
    <2>6. e.blocks = Lengths(e.bps)
      BY <2>3, <2>4, <2>5
    <2> QED
      BY <1>1, <2>1, <2>6
  <1>3. ASSUME NEW f \in Files, Unlink(f) PROVE BlocksAccounted'
    <2>1. PICK e \in Distributor : e.bps = <<>> /\ e.blocks = 0 /\ Becomes(f, e)
      BY <1>3, UnlinkAnswered
    <2>2. e.blocks = Lengths(e.bps)
      BY <2>1, LengthsOfNone
    <2> QED
      BY <1>1, <2>1, <2>2
  <1>4. CASE UNCHANGED vars
    <2>1. bps' = bps /\ blocks' = blocks
      BY <1>4 DEF vars
    <2> QED
      BY <1>0, <2>1, Zenon DEF BlocksAccounted
  <1> QED
    BY <1>2, <1>3, <1>4 DEF Next

\* st_blocks, from which realloc computes what is missing, is the sum of the
\* lengths of the node's block pointers after every sequence of calls, whether
\* a pointer was added, the last one grew, or the request was refused.
THEOREM Accounted == Spec => []BlocksAccounted
  <1>1. Init => TypeOK /\ BlocksAccounted
    BY TypeInit, AccountedInit
  <1>2. TypeOK /\ BlocksAccounted /\ [Next]_vars => (TypeOK /\ BlocksAccounted)'
    BY TypeNext, AccountedNext
  <1> QED
    BY <1>1, <1>2, PTL DEF Spec

\* A call that is refused changes nothing.
LEMMA FailureStep ==
  TypeOK /\ [Next]_vars =>
    (ret' = -1 /\ status' = "ok" => UNCHANGED <<groups, bps, blocks>>)
  <1> SUFFICES ASSUME TypeOK, [Next]_vars, ret' = -1, status' = "ok"
               PROVE  groups' = groups /\ bps' = bps /\ blocks' = blocks
    OBVIOUS
  <1>1. ASSUME NEW f \in Files, NEW n \in Sizes, Grow(f, n)
        PROVE  groups' = groups /\ bps' = bps /\ blocks' = blocks
    <2>1. PICK e : Answers(Record(f), e) /\ Becomes(f, e)
      BY <1>1, GrowAnswered
    <2>2. /\ groups' = e.groups
          /\ bps' = [bps EXCEPT ![f] = e.bps]
          /\ blocks' = [blocks EXCEPT ![f] = e.blocks]
          /\ ret' = e.ret
          /\ status' = IF e.fault = "none" THEN "ok" ELSE e.fault
      BY <2>1 DEF Becomes
    <2>3. e \in Distributor
      BY <2>1 DEF Answers, Grows
    <2>4. e.fault \in {"none", "null_bps", "overrun", "underflow"}
      BY <2>3, DistributorFields
    <2>5. Refused(e)
      BY <2>2, <2>4 DEF Refused
    <2>6. e.groups = groups /\ e.bps = bps[f] /\ e.blocks = blocks[f]
      BY <2>1, <2>5, RecordOf, Zenon DEF Answers, Same
    <2>7. bps = [bps EXCEPT ![f] = bps[f]] /\ blocks = [blocks EXCEPT ![f] = blocks[f]]
      BY DEF TypeOK
    <2> QED
      BY <2>2, <2>6, <2>7, Zenon
  <1>2. ASSUME NEW f \in Files, Unlink(f) PROVE FALSE
    <2>1. PICK e \in Distributor : e.ret = 0 /\ Becomes(f, e)
      BY <1>2, UnlinkAnswered
    <2>2. ret' = 0
      BY <2>1 DEF Becomes
    <2> QED
      BY <2>2
  <1>3. CASE UNCHANGED vars
    BY <1>3 DEF vars
  <1> QED
    BY <1>1, <1>2, <1>3 DEF Next

\* A realloc that could not grant its blocks, after try_block_append and
\* however many known starts it tried, has changed no byte of the bitmap and
\* nothing in a node.
THEOREM AllOrNothing == Spec => FailureChangesNothing
  <1>1. TypeOK /\ [Next]_vars =>
          [ret' = -1 /\ status' = "ok" => UNCHANGED <<groups, bps, blocks>>]_vars
    BY FailureStep
  <1> QED
    BY <1>1, TypeCorrect, PTL DEF Spec, FailureChangesNothing

\* A call that grows a file clears no bit.
LEMMA GrowStep ==
  TypeOK /\ [Next]_vars =>
    [call' = "grow" => \A g \in Groups : groups[g] \subseteq groups'[g]]_vars
  <1> SUFFICES ASSUME TypeOK, [Next]_vars
               PROVE  \/ call' = "grow" => \A g \in Groups : groups[g] \subseteq groups'[g]
                      \/ UNCHANGED vars
    OBVIOUS
  <1>1. ASSUME NEW f \in Files, NEW n \in Sizes, Grow(f, n)
        PROVE  \A g \in Groups : groups[g] \subseteq groups'[g]
    <2>1. PICK e : Answers(Record(f), e) /\ Becomes(f, e)
      BY <1>1, GrowAnswered
    <2>2. groups' = e.groups
      BY <2>1 DEF Becomes
    <2>3. Record(f).groups = groups
      BY RecordOf
    <2> QED
      BY <2>1, <2>2, <2>3, Zenon DEF Answers, Grows
  <1>2. ASSUME NEW f \in Files, Unlink(f) PROVE call' # "grow"
    BY <1>2 DEF Unlink
  <1> QED
    BY <1>1, <1>2 DEF Next

\* Growing a file never marks a used block as free, although try_block_append
\* stores whole bytes: it stores them only over groups that were free.
THEOREM NeverUnmarks == Spec => GrowNeverUnmarks
  BY GrowStep, TypeCorrect, PTL DEF Spec, GrowNeverUnmarks
=============================================================================
