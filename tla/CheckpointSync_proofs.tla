------------------------- MODULE CheckpointSync_proofs -------------------------
(***************************************************************************)
(* What the checkpoint programs of task3 and task4 leave in the file and   *)
(* on the disk, for every number of rows, pieces, threads, iterations and  *)
(* faults: proofs about CheckpointSync.                                    *)
(***************************************************************************)
EXTENDS CheckpointSync, RowSplit_proofs, FiniteSetTheorems,
        WellFoundedInduction, TLAPS

USE PartsAssumption, MaxThreadsAssumption, MaxIterationsAssumption,
    MaxFaultsAssumption

-----------------------------------------------------------------------------
(* The inductive invariant.                                                *)

\* What t has written, in its iteration, of its rows.
Written(t, i, p) ==
  pc[t] # "loop" /\ (i < row[t] \/ (i = row[t] /\ p < nb[t]))

\* The barriers keep the team together.
SameIteration == \A t, u \in Team : k[t] = k[u]

\* Where a thread is in its rows, by its place in the loop.
PlaceInv ==
  phase # "failed" => \A t \in Team :
    /\ pc[t] # "idle"
    /\ pc[t] = "loop" => k[t] <= iterations + 1
    /\ pc[t] # "loop" => /\ k[t] <= iterations
                         /\ row[t] \in From(threads, t) .. To(threads, t)
    /\ nb[t] > 0 => pc[t] \in {"write", "fsync"} /\ row[t] < To(threads, t)
    /\ pc[t] \in {"barrier", "barrier2"} => row[t] = To(threads, t)
    /\ pc[t] = "fsync" => Synced /\ (SyncsEach \/ row[t] = To(threads, t))
    /\ pc[t] = "barrier2" => program = "optimized"

\* While thread 0 syncs for all, no other thread has left its rows' barrier.
SyncerInv ==
  program = "optimized" /\ phase # "failed" =>
    /\ \A t \in Team : nb[t] = 0
    /\ \A t \in Team : pc[t] \in {"fsync", "barrier2"} =>
         \A u \in Team : pc[u] = "barrier2" \/ (u = 0 /\ pc[u] = "fsync")

\* The file holds this iteration's value where a thread has written, and the
\* last iteration's everywhere else.
CacheInv ==
  phase # "failed" /\ Intact =>
    \A t \in Team : \A i \in Slice(threads, t), p \in 0 .. Parts - 1 :
      cache[<<i, p>>] = IF Written(t, i, p) THEN k[t] ELSE k[t] - 1

\* What t has written is on the disk, unless an fsync failed in this iteration.
Settled(t) ==
  \/ SyncsEach /\ pc[t] \in {"write", "barrier"}
  \/ program = "sync2" /\ pc[t] = "barrier"
  \/ program = "optimized" /\ pc[0] = "barrier2"

DiskInv ==
  phase # "failed" /\ Intact =>
    \A t \in Team : Settled(t) /\ k[t] \notin lapses =>
      \A i \in Slice(threads, t), p \in 0 .. Parts - 1 :
        Written(t, i, p) => disk[<<i, p>>] \subseteq {k[t]}

\* A cell that was written in this iteration is given up only by an fsync that
\* failed in this iteration.
DropInv ==
  phase # "failed" /\ Intact =>
    \A t \in Team : k[t] \notin lapses =>
      \A i \in Slice(threads, t), p \in 0 .. Parts - 1 :
        Written(t, i, p) => <<i, p>> \notin dropped

\* lnb is what the thread has written in full: all its rows in each iteration
\* before, and the rows before row in this one.
RowsDone(t) ==
  Lines(threads, t) * (k[t] - 1)
    + (IF pc[t] = "loop" THEN 0 ELSE row[t] - From(threads, t))

CountInv ==
  phase # "failed" /\ Intact => \A t \in Team : lnb[t] = Parts * RowsDone(t)

EndInv ==
  phase = "ended" => \A t \in Team : pc[t] = "loop" /\ k[t] = iterations + 1

\* exit(EXIT_FAILURE) leaves no thread running.
FailedInv == phase = "failed" => \A t \in Team : pc[t] = "idle"

IInv ==
  /\ TypeOK /\ FailedInv /\ SameIteration /\ PlaceInv /\ SyncerInv
  /\ CacheInv /\ DiskInv /\ DropInv /\ CountInv /\ EndInv
  /\ FileOneIterationApart /\ IterationDurable /\ AllBytesCounted

-----------------------------------------------------------------------------
(* The team and its slices.                                                *)

\* The team is 0 .. threads - 1.
LEMMA TeamFacts ==
  ASSUME TypeOK
  PROVE  /\ threads \in Nat \ {0} /\ Team \subseteq Tids /\ 0 \in Team
         /\ Team = 0 .. threads - 1
  BY DEF TypeOK, Team, Tids

\* The slice of a thread lies within the rows.
LEMMA TeamSlices ==
  ASSUME TypeOK, NEW t \in Team
  PROVE  /\ From(threads, t) \in Nat /\ To(threads, t) \in Nat
         /\ From(threads, t) <= To(threads, t) /\ To(threads, t) <= N
         /\ Slice(threads, t) \subseteq Rows
         /\ Slice(threads, t) = From(threads, t) .. To(threads, t) - 1
         /\ Lines(threads, t) = To(threads, t) - From(threads, t)
         /\ Lines(threads, t) \in Nat
  <1>1. threads \in Nat \ {0} /\ t \in 0 .. threads - 1
    BY TeamFacts
  <1>2. Lines(threads, t) \in Int
    BY <1>1, Division, NAssumption DEF Lines
  <1>3. /\ From(threads, t) \in Nat /\ To(threads, t) \in Nat
        /\ From(threads, t) <= To(threads, t) /\ To(threads, t) <= N
        /\ Slice(threads, t) \subseteq Rows
    BY <1>1, SliceInRows
  <1>4. /\ Slice(threads, t) = From(threads, t) .. To(threads, t) - 1
        /\ To(threads, t) = From(threads, t) + Lines(threads, t)
    BY DEF Slice, To
  <1> QED
    BY <1>2, <1>3, <1>4

\* Every piece of the file belongs to a row of some thread.
LEMMA CellOfTeam ==
  ASSUME TypeOK, NEW c \in Cells
  PROVE  \E t \in Team : \E i \in Slice(threads, t), p \in 0 .. Parts - 1 : c = <<i, p>>
  <1>1. PICK i \in Rows, p \in 0 .. Parts - 1 : c = <<i, p>>
    BY DEF Cells
  <1>2. PICK t \in Team : i \in Slice(threads, t)
    BY TeamFacts, RowsCovered
  <1> QED
    BY <1>1, <1>2

\* No row belongs to two threads.
LEMMA OthersRows ==
  ASSUME TypeOK, NEW t \in Team, NEW u \in Team, t # u, NEW i \in Slice(threads, u)
  PROVE  i \notin Slice(threads, t)
  BY TeamFacts, RowsDisjoint

\* A piece of a row of the slice is a piece of the file.
LEMMA SliceCells ==
  ASSUME TypeOK, NEW t \in Team, NEW i \in Slice(threads, t), NEW p \in 0 .. Parts - 1
  PROVE  <<i, p>> \in Cells /\ i \in Nat /\ i < To(threads, t) /\ From(threads, t) <= i
  BY TeamSlices, NAssumption DEF Cells, Rows

-----------------------------------------------------------------------------
(* What the parts of the invariant come to.                                *)

\* While no thread has given up, the file is one iteration apart at most.
LEMMA CacheApart ==
  TypeOK /\ SameIteration /\ CacheInv /\ phase # "failed" => FileOneIterationApart
  <1>1. SUFFICES ASSUME TypeOK, SameIteration, CacheInv, phase # "failed",
                        Intact, NEW t \in Team, NEW c \in Cells
                 PROVE  cache[c] \in {k[t] - 1, k[t]}
    BY DEF FileOneIterationApart
  <1>2. PICK u \in Team :
               \E i \in Slice(threads, u), p \in 0 .. Parts - 1 : c = <<i, p>>
    BY <1>1, CellOfTeam
  <1>3. cache[c] \in {k[u] - 1, k[u]}
    BY <1>1, <1>2 DEF CacheInv
  <1> QED
    BY <1>1, <1>3 DEF SameIteration

-----------------------------------------------------------------------------
(* The sum over the team.  MapThenSumSet is a recursive function on the    *)
(* subsets of the team: it exists because each larger set needs only the   *)
(* smaller ones, and no other function satisfies its equation.             *)

\* A set of numbers that is not empty has a least one.
LEMMA LeastNumber ==
  ASSUME NEW T \in SUBSET Nat, T # {}
  PROVE  \E n \in T : \A m \in T : n <= m
  <1>1. IsWellFoundedOn(OpToRel(<, Nat), Nat)
    BY NatLessThanWellFounded
  <1>2. PICK n \in T : \A m \in T : ~ (<<m, n>> \in OpToRel(<, Nat))
    BY <1>1, WFMin
  <1>3. \A m \in T : ~ (m < n)
    BY <1>2 DEF OpToRel
  <1> QED
    BY <1>3

SumOver(f, S) == MapThenSumSet(LAMBDA t : f[t], S)

\* The equation of the sum of f over the subsets of S.
SumStep(f, S, g) ==
  [s \in SUBSET S |->
    IF s = {} THEN 0
    ELSE LET x == CHOOSE x \in s : TRUE IN f[x] + g[s \ {x}]]

\* The sum over a finite set is well defined.
LEMMA SumExists ==
  ASSUME NEW S, IsFiniteSet(S), NEW f, \A x \in S : f[x] \in Int
  PROVE  \E g \in [SUBSET S -> Int] : g = SumStep(f, S, g)
  <1> DEFINE upto(n) == {g \in [SUBSET S -> Int] :
               \A s \in SUBSET S : Cardinality(s) <= n => g[s] = SumStep(f, S, g)[s]}
  <1>1. \A s \in SUBSET S : IsFiniteSet(s) /\ Cardinality(s) \in Nat
    BY FS_Subset, FS_CardinalityType
  <1>2. upto(0) # {}
    <2>1. [s \in SUBSET S |-> 0] \in upto(0)
      <3>1. \A s \in SUBSET S : Cardinality(s) <= 0 => s = {}
        BY <1>1, FS_EmptySet
      <3> QED
        BY <3>1 DEF SumStep
    <2> QED
      BY <2>1
  <1>3. ASSUME NEW n \in Nat, NEW g \in upto(n)
        PROVE  SumStep(f, S, g) \in upto(n + 1)
    <2> DEFINE h == SumStep(f, S, g)
    <2>1. h \in [SUBSET S -> Int]
      <3>1. ASSUME NEW s \in SUBSET S PROVE h[s] \in Int
        <4>1. CASE s = {}
          BY <4>1 DEF SumStep
        <4>2. CASE s # {}
          <5>1. (CHOOSE x \in s : TRUE) \in s
            BY <4>2
          <5> QED
            BY <4>2, <5>1 DEF SumStep
        <4> QED
          BY <4>1, <4>2
      <3> QED
        BY <3>1 DEF SumStep
    <2>2. ASSUME NEW s \in SUBSET S, Cardinality(s) <= n + 1
          PROVE  h[s] = SumStep(f, S, h)[s]
      <3>1. CASE s = {}
        BY <3>1 DEF SumStep
      <3>2. CASE s # {}
        <4> DEFINE x == CHOOSE x \in s : TRUE
        <4>1. x \in s
          BY <3>2
        <4>2. h[s] = f[x] + g[s \ {x}] /\ SumStep(f, S, h)[s] = f[x] + h[s \ {x}]
          BY <3>2 DEF SumStep
        <4> HIDE DEF x
        <4>3. Cardinality(s \ {x}) <= n /\ s \ {x} \in SUBSET S
          BY <1>1, <2>2, <4>1, FS_RemoveElement
        <4>4. g[s \ {x}] = h[s \ {x}]
          BY <4>3
        <4> QED
          BY <4>2, <4>4
      <3> QED
        BY <3>1, <3>2
    <2> QED
      BY <2>1, <2>2
  <1> HIDE DEF upto
  <1>4. \A n \in Nat : upto(n) # {}
    <2>1. SUFFICES ASSUME {n \in Nat : upto(n) = {}} # {} PROVE FALSE
      OBVIOUS
    <2>2. PICK n \in {m \in Nat : upto(m) = {}} : \A m \in {m \in Nat : upto(m) = {}} : n <= m
      BY <2>1, LeastNumber
    <2>3. n # 0
      BY <1>2, <2>2
    <2>4. n - 1 \in Nat /\ upto(n - 1) # {}
      BY <2>2, <2>3
    <2>5. upto((n - 1) + 1) # {}
      BY <1>3, <2>4
    <2> QED
      BY <2>2, <2>5
  <1>5. PICK g \in upto(Cardinality(S)) : TRUE
    BY <1>1, <1>4
  <1>6. \A s \in SUBSET S : Cardinality(s) <= Cardinality(S)
    BY FS_Subset
  <1>7. g \in [SUBSET S -> Int] /\ \A s \in SUBSET S : g[s] = SumStep(f, S, g)[s]
    BY <1>6 DEF upto
  <1>8. SumStep(f, S, g) = [s \in SUBSET S |-> SumStep(f, S, g)[s]]
    BY DEF SumStep
  <1> QED
    BY <1>7, <1>8

\* SumOver is that sum.
LEMMA SumIs ==
  ASSUME NEW S, IsFiniteSet(S), NEW f, NEW g \in [SUBSET S -> Int],
         g = SumStep(f, S, g)
  PROVE  SumOver(f, S) = g[S]
  <1> DEFINE iter == CHOOSE h : h = SumStep(f, S, h)
  <1>1. iter = SumStep(f, S, iter)
    BY Zenon
  <1>2. SumOver(f, S) = iter[S]
    BY DEF SumOver, MapThenSumSet, MapThenFoldSet, SumStep
  <1> HIDE DEF iter
  <1> DEFINE bad == {s \in SUBSET S : iter[s] # g[s]}
  <1>3. bad = {}
    <2>1. SUFFICES ASSUME bad # {} PROVE FALSE
      OBVIOUS
    <2>2. IsWellFoundedOn(StrictSubsetOrdering(S), FiniteSubsetsOf(S))
      BY FS_StrictSubsetOrderingWellFounded
    <2>3. bad \subseteq FiniteSubsetsOf(S)
      BY FS_Subset DEF FiniteSubsetsOf
    <2> HIDE DEF bad
    <2>4. PICK s \in bad : \A y \in bad : ~ (<<y, s>> \in StrictSubsetOrdering(S))
      BY <2>1, <2>2, <2>3, WFMin
    <2>5. s \in SUBSET S /\ iter[s] # g[s]
      BY DEF bad
    <2>6. iter[s] = SumStep(f, S, iter)[s] /\ g[s] = SumStep(f, S, g)[s]
      BY <1>1, Zenon
    <2>7. CASE s = {}
      BY <2>5, <2>6, <2>7 DEF SumStep
    <2>8. CASE s # {}
      <3> DEFINE x == CHOOSE x \in s : TRUE
      <3>1. x \in s
        BY <2>8
      <3>2. iter[s] = f[x] + iter[s \ {x}] /\ g[s] = f[x] + g[s \ {x}]
        BY <2>5, <2>6, <2>8 DEF SumStep
      <3> HIDE DEF x
      <3>3. s \ {x} \in SUBSET S /\ <<s \ {x}, s>> \in StrictSubsetOrdering(S)
        BY <2>5, <3>1 DEF StrictSubsetOrdering
      <3>4. iter[s \ {x}] = g[s \ {x}]
        BY <2>4, <3>3 DEF bad
      <3> QED
        BY <2>5, <3>2, <3>4
    <2> QED
      BY <2>7, <2>8
  <1> QED
    BY <1>2, <1>3

\* What the reduction adds up is a number.
LEMMA SumType ==
  ASSUME NEW S, IsFiniteSet(S), NEW f, \A x \in S : f[x] \in Int
  PROVE  SumOver(f, S) \in Int
  <1>1. PICK g \in [SUBSET S -> Int] : g = SumStep(f, S, g)
    BY SumExists
  <1>2. SumOver(f, S) = g[S]
    BY <1>1, SumIs
  <1> QED
    BY <1>2

\* The lines of all threads add up to the rows of the matrix: with q lines for
\* everybody, and one more for each of the first r threads.
LEMMA SumOfLines ==
  ASSUME NEW T \in Nat \ {0}, NEW m \in Nat, NEW f,
         \A t \in 0 .. T - 1 : f[t] = m * Lines(T, t)
  PROVE  SumOver(f, 0 .. T - 1) = m * N
  <1> DEFINE q == N \div T
             r == N % T
             first == 0 .. r - 1
             g == [s \in SUBSET (0 .. T - 1) |->
                    m * (q * Cardinality(s) + Cardinality(s \cap first))]
  <1>1. q \in Nat /\ r \in 0 .. T - 1 /\ N = T * q + r
    BY Division, NAssumption, Zenon
  <1>2. IsFiniteSet(0 .. T - 1) /\ Cardinality(0 .. T - 1) = T
    BY FS_Interval
  <1>3. \A t \in 0 .. T - 1 : Lines(T, t) = IF t \in first THEN q + 1 ELSE q
    BY <1>1 DEF Lines
  <1> HIDE DEF q, r
  <1>4. Cardinality((0 .. T - 1) \cap first) = r
    <2>1. (0 .. T - 1) \cap first = 0 .. r - 1 /\ r \in Nat
      BY <1>1
    <2>2. Cardinality(0 .. r - 1) = r
      <3>1. 0 \in Int /\ r - 1 \in Int
        BY <2>1
      <3>2. Cardinality(0 .. r - 1) = IF 0 > r - 1 THEN 0 ELSE (r - 1) - 0 + 1
        BY <3>1, FS_Interval, Zenon
      <3> QED
        BY <3>2, <2>1
    <2> QED
      BY <2>1, <2>2, Zenon
  <1>5. \A s \in SUBSET (0 .. T - 1) :
          /\ IsFiniteSet(s) /\ Cardinality(s) \in Nat
          /\ IsFiniteSet(s \cap first) /\ Cardinality(s \cap first) \in Nat
    BY <1>2, FS_Subset, FS_CardinalityType
  <1> HIDE DEF first
  <1>6. \A a \in Nat : q * a \in Nat /\ m * a \in Nat
    BY <1>1
  <1>7. g \in [SUBSET (0 .. T - 1) -> Int]
    <2>1. ASSUME NEW s \in SUBSET (0 .. T - 1)
          PROVE  m * (q * Cardinality(s) + Cardinality(s \cap first)) \in Int
      <3>1. q * Cardinality(s) \in Nat
        BY <1>5, <1>6
      <3>2. q * Cardinality(s) + Cardinality(s \cap first) \in Nat
        BY <3>1, <1>5
      <3> QED
        BY <3>2, <1>6
    <2> QED
      BY <2>1
  <1>8. ASSUME NEW s \in SUBSET (0 .. T - 1), NEW x \in s
        PROVE  g[s] = f[x] + g[s \ {x}]
    <2> DEFINE c == Cardinality(s \ {x})
               d == Cardinality((s \ {x}) \cap first)
               e == IF x \in first THEN 1 ELSE 0
    <2>1. s \ {x} \in SUBSET (0 .. T - 1) /\ c \in Nat /\ d \in Nat /\ e \in Nat
      BY <1>5
    <2>2. Cardinality(s) = c + 1
      <3>1. IsFiniteSet(s) /\ Cardinality(s) \in Nat
        BY <1>5
      <3>2. c = IF x \in s THEN Cardinality(s) - 1 ELSE Cardinality(s)
        BY <3>1, FS_RemoveElement, Zenon
      <3> HIDE DEF c
      <3> QED
        BY <3>1, <3>2
    <2>3. Cardinality(s \cap first) = d + e
      <3>1. (s \ {x}) \cap first = (s \cap first) \ {x}
        OBVIOUS
      <3>2. d = IF x \in s \cap first THEN Cardinality(s \cap first) - 1
                                   ELSE Cardinality(s \cap first)
        BY <3>1, <1>5, FS_RemoveElement
      <3>3. Cardinality(s \cap first) \in Nat
        BY <1>5
      <3>4. x \in s \cap first <=> x \in first
        OBVIOUS
      <3> HIDE DEF d
      <3> QED
        BY <3>2, <3>3, <3>4
    <2>4. f[x] = m * (q + e)
      <3>1. x \in 0 .. T - 1
        OBVIOUS
      <3>2. Lines(T, x) = IF x \in first THEN q + 1 ELSE q
        BY <3>1, <1>3
      <3>3. Lines(T, x) = q + e
        BY <3>2, <1>1
      <3> QED
        BY <3>1, <3>3, Zenon
    <2>5. /\ g[s] = m * (q * Cardinality(s) + Cardinality(s \cap first))
          /\ g[s \ {x}] = m * (q * c + d)
      BY <2>1
    <2> HIDE DEF c, d, e, g
    <2>6. q * (c + 1) = q * c + q /\ q * c \in Nat
      BY <2>1, <1>1
    <2>7. m * ((q * c + d) + (q + e)) = m * (q * c + d) + m * (q + e)
      <3>1. \A a, b \in Nat : m * (a + b) = m * a + m * b
        OBVIOUS
      <3>2. q * c + d \in Nat /\ q + e \in Nat
        BY <2>1, <2>6, <1>1
      <3> QED
        BY <3>1, <3>2, Zenon
    <2>8. q * Cardinality(s) + Cardinality(s \cap first) = (q * c + d) + (q + e)
      BY <2>1, <2>2, <2>3, <2>6, <1>1
    <2>9. m * (q * c + d) \in Nat /\ m * (q + e) \in Nat
      BY <2>1, <2>6, <1>1, <1>6
    <2> QED
      BY <2>4, <2>5, <2>7, <2>8, <2>9
  <1>9. g = SumStep(f, 0 .. T - 1, g)
    <2>1. g[{}] = 0
      <3>1. g[{}] = m * (q * Cardinality({}) + Cardinality({} \cap first))
        OBVIOUS
      <3>2. Cardinality({}) = 0 /\ {} \cap first = {}
        BY FS_EmptySet
      <3> QED
        BY <3>1, <3>2, <1>1
    <2>2. ASSUME NEW s \in SUBSET (0 .. T - 1)
          PROVE  g[s] = SumStep(f, 0 .. T - 1, g)[s]
      <3> HIDE DEF g
      <3>1. CASE s = {}
        BY <2>1, <3>1 DEF SumStep
      <3>2. CASE s # {}
        <4>1. (CHOOSE x \in s : TRUE) \in s
          BY <3>2
        <4> QED
          BY <3>2, <4>1, <1>8 DEF SumStep
      <3> QED
        BY <3>1, <3>2
    <2>3. g = [s \in SUBSET (0 .. T - 1) |-> g[s]]
      OBVIOUS
    <2> HIDE DEF g
    <2> QED
      BY <2>2, <2>3 DEF SumStep
  <1>10. g[0 .. T - 1] = m * N
    <2>1. g[0 .. T - 1] = m * (q * T + r)
      BY <1>2, <1>4
    <2> QED
      BY <2>1, <1>1
  <1> QED
    BY <1>2, <1>7, <1>9, <1>10, SumIs

-----------------------------------------------------------------------------
(* The initial states and the types.                                       *)

\* The initial states have the invariant.
LEMMA Initially == Init => IInv
  <1> SUFFICES ASSUME Init PROVE IInv
    OBVIOUS
  <1>1. TypeOK
    <2>1. 1 \in 1 .. MaxIterations + 1 /\ 0 \in 0 .. N /\ 0 \in 0 .. Parts - 1
          /\ 0 \in 0 .. MaxIterations /\ 0 \in 0 .. MaxFaults
      BY NAssumption
    <2> QED
      BY <2>1 DEF Init, TypeOK
  <1>2. \A t \in Team : t \in Tids /\ pc[t] = "loop" /\ k[t] = 1 /\ nb[t] = 0 /\ lnb[t] = 0
    BY <1>1, TeamFacts DEF Init
  <1>3. FailedInv /\ SameIteration /\ PlaceInv /\ SyncerInv /\ EndInv
    BY <1>1, <1>2 DEF Init, TypeOK, FailedInv, SameIteration, PlaceInv, SyncerInv, EndInv
  <1>4. CacheInv /\ DiskInv /\ DropInv /\ IterationDurable
    <2>1. ASSUME NEW t \in Team, NEW i \in Slice(threads, t), NEW p \in 0 .. Parts - 1
          PROVE  cache[<<i, p>>] = 0 /\ disk[<<i, p>>] = {0}
      BY <1>1, SliceCells DEF Init
    <2>2. CacheInv /\ DiskInv /\ DropInv
      BY <1>2, <2>1 DEF CacheInv, DiskInv, DropInv, Written
    <2>3. IterationDurable
      BY <1>2 DEF IterationDurable, Init
    <2> QED
      BY <2>2, <2>3
  <1>5. CountInv
    <2>1. ASSUME NEW t \in Team PROVE lnb[t] = Parts * RowsDone(t)
      BY <1>1, <1>2, TeamSlices DEF RowsDone
    <2> QED
      BY <2>1 DEF CountInv
  <1>6. FileOneIterationApart
    BY <1>1, <1>3, <1>4, CacheApart DEF Init
  <1>7. AllBytesCounted
    BY DEF Init, AllBytesCounted
  <1> QED
    BY <1>1, <1>3, <1>4, <1>5, <1>6, <1>7 DEF IInv

\* Writing a piece leaves cache and disk well typed.
LEMMA StoreType ==
  ASSUME TypeOK, NEW t \in Team, NEW ret, Store(t, ret), k[t] \in 0 .. MaxIterations
  PROVE  /\ cache' \in [Cells -> 0 .. MaxIterations]
         /\ disk' \in [Cells -> SUBSET (0 .. MaxIterations)]
         /\ dropped' \subseteq Cells
  BY DEF TypeOK, Store

\* Every step preserves the types.
LEMMA TypeStep ==
  ASSUME TypeOK, FailedInv, PlaceInv, [Next]_vars
  PROVE  TypeOK'
  <1> USE DEF args, file
  <1>1. Team \subseteq Tids
    BY TeamFacts
  <1>2. ASSUME NEW t \in Team, Compute(t) PROVE TypeOK'
    <2>1. From(threads, t) \in 0 .. N
      BY TeamSlices, NAssumption
    <2> QED
      BY <1>1, <1>2, <2>1 DEF TypeOK, Compute, Goto
  <1>3. ASSUME NEW t \in Team, Write(t), phase # "failed" PROVE TypeOK'
    <2>1. t \in Tids /\ k[t] \in 0 .. MaxIterations
      BY <1>1, <1>3 DEF TypeOK, PlaceInv, Write
    <2>2. PICK ret \in {-1} \cup (1 .. Parts - nb[t]) :
               /\ GoesWrong(ret) => faults < MaxFaults
               /\ faults' = IF GoesWrong(ret) THEN faults + 1 ELSE faults
               /\ Store(t, ret)
               /\ IF RowOver(nb[t] + ret)
                    THEN /\ row' = [row EXCEPT ![t] = @ + 1]
                         /\ nb' = [nb EXCEPT ![t] = 0]
                         /\ lnb' = CountRow(t, ret)
                    ELSE /\ nb' = [nb EXCEPT ![t] = @ + ret]
                         /\ UNCHANGED <<row, lnb>>
      BY <1>3 DEF Write
    <2>3. nb[t] \in 0 .. Parts - 1 /\ ret \in Int /\ row[t] \in 0 .. N /\ lnb[t] \in Int
      BY <2>1 DEF TypeOK
    <2>4. row[t] + 1 \in 0 .. N
      <3>1. row[t] < To(threads, t)
        BY <1>3 DEF Write
      <3> QED
        BY <2>3, <3>1, TeamSlices, NAssumption
    <2>5. ~ RowOver(nb[t] + ret) => nb[t] + ret \in 0 .. Parts - 1
      BY <2>2, <2>3 DEF RowOver
    <2>6. row' \in [Tids -> 0 .. N] /\ nb' \in [Tids -> 0 .. Parts - 1]
          /\ lnb' \in [Tids -> Int]
      BY <2>1, <2>2, <2>3, <2>4, <2>5 DEF TypeOK, CountRow
    <2>7. faults' \in 0 .. MaxFaults
      BY <2>2 DEF TypeOK
    <2>8. /\ cache' \in [Cells -> 0 .. MaxIterations]
          /\ disk' \in [Cells -> SUBSET (0 .. MaxIterations)]
          /\ dropped' \subseteq Cells
      BY <2>1, <2>2, StoreType
    <2> QED
      BY <1>3, <2>6, <2>7, <2>8 DEF TypeOK, Write, Goto
  <1>4. ASSUME NEW t \in Team, RowsWritten(t) PROVE TypeOK'
    BY <1>4 DEF TypeOK, RowsWritten, Goto, AfterRows
  <1>5. ASSUME NEW t \in Team, Fsync(t) PROVE TypeOK'
    BY <1>5 DEF TypeOK, Fsync, Goto, AfterFsync
  <1>14. ASSUME NEW t \in Team, FsyncFails(t), phase # "failed" PROVE TypeOK'
    <2>1. k[t] \in 1 .. MaxIterations /\ pc' \in [Tids -> {"idle", "loop", "write",
                                                          "fsync", "barrier", "barrier2"}]
      BY <1>1, <1>14 DEF TypeOK, PlaceInv, FsyncFails, Goto, AfterFsync
    <2> QED
      BY <1>14, <2>1 DEF TypeOK, FsyncFails
  <1>15. ASSUME NEW t \in Team, FsyncFails(t) PROVE phase # "failed"
    BY <1>15 DEF FailedInv, FsyncFails
  <1>6. ASSUME NEW place \in {"barrier", "barrier2"}, LeaveIteration(place), phase = "team"
        PROVE  TypeOK'
    <2>1. \A t \in Team : k[t] + 1 \in 1 .. MaxIterations + 1
      BY <1>1, <1>6 DEF TypeOK, PlaceInv, LeaveIteration, Arrived
    <2> QED
      BY <1>6, <2>1 DEF TypeOK, LeaveIteration
  <1>7. CASE LeaveBarrier
    BY <1>6, <1>7 DEF LeaveBarrier
  <1>8. CASE LeaveBarrier1
    BY <1>8 DEF TypeOK, LeaveBarrier1
  <1>9. CASE LeaveBarrier2
    BY <1>6, <1>9 DEF LeaveBarrier2
  <1>10. CASE Join
    <2>1. IsFiniteSet(Team)
      <3>1. 0 \in Int /\ threads - 1 \in Int
        BY TeamFacts
      <3>2. IsFiniteSet(0 .. threads - 1)
        BY <3>1, FS_Interval
      <3> QED
        BY <3>2 DEF Team
    <2>2. \A t \in Team : lnb[t] \in Int
      BY <1>1 DEF TypeOK
    <2>3. bytes' = SumOver(lnb, Team)
      BY <1>10, Zenon DEF Join, SumOver
    <2>4. SumOver(lnb, Team) \in Int
      BY <2>1, <2>2, SumType
    <2>5. bytes' \in Int
      BY <2>3, <2>4, Zenon
    <2> QED
      BY <1>10, <2>5 DEF TypeOK, Join
  <1>11. ASSUME NEW t \in Team, GiveUp(t) PROVE TypeOK'
    BY <1>11 DEF TypeOK, GiveUp
  <1>12. ASSUME NEW t \in Team, Write(t) PROVE phase # "failed"
    BY <1>12 DEF FailedInv, Write
  <1>13. CASE UNCHANGED vars
    BY <1>13 DEF TypeOK, vars
  <1> QED
    BY <1>2, <1>3, <1>4, <1>5, <1>7, <1>8, <1>9, <1>10, <1>11, <1>12, <1>13,
     <1>14, <1>15
       DEF Next, ProcessStep, ThreadStep

-----------------------------------------------------------------------------
(* Each action preserves the invariant.                                    *)

\* What a step of the team leaves to show: the types are kept (TypeStep) and
\* the file follows from what the threads have written (CacheApart).
TeamInv ==
  /\ SameIteration /\ FailedInv /\ PlaceInv /\ SyncerInv
  /\ CacheInv /\ DiskInv /\ DropInv /\ CountInv /\ EndInv
  /\ IterationDurable /\ AllBytesCounted

\* Unless the program exited, types and TeamInv are the invariant.
LEMMA TeamStep ==
  ASSUME TypeOK', TeamInv', phase' # "failed"
  PROVE  IInv'
  <1>1. (TypeOK /\ SameIteration /\ CacheInv /\ phase # "failed" => FileOneIterationApart)'
    BY CacheApart, PTL
  <1> QED
    BY <1>1 DEF TeamInv, IInv

\* A thread of the team, with its types and its place.
LEMMA ThreadFacts ==
  ASSUME IInv, NEW t \in Team
  PROVE  /\ t \in Tids /\ iterations \in Nat
         /\ k[t] \in Nat /\ row[t] \in Nat /\ lnb[t] \in Int
         /\ nb[t] \in 0 .. Parts - 1
         /\ From(threads, t) \in Nat /\ To(threads, t) \in Nat
         /\ pc[t] # "idle" => phase # "failed"
         /\ pc[t] \notin {"idle", "loop"} =>
              /\ k[t] <= iterations
              /\ From(threads, t) <= row[t] /\ row[t] <= To(threads, t)
              /\ row[t] = To(threads, t) => nb[t] = 0
  <1>1. TypeOK /\ PlaceInv /\ FailedInv /\ t \in Tids
    BY TeamFacts DEF IInv
  <1>2. /\ k[t] \in Nat /\ row[t] \in Nat /\ lnb[t] \in Int
        /\ nb[t] \in 0 .. Parts - 1 /\ iterations \in Nat
    BY <1>1, NAssumption DEF TypeOK
  <1>3. From(threads, t) \in Nat /\ To(threads, t) \in Nat
    BY <1>1, TeamSlices
  <1> QED
    BY <1>1, <1>2, <1>3 DEF PlaceInv, FailedInv

\* A step that writes nothing, and after which nothing more is to be found on
\* the disk.
LEMMA FileKept ==
  ASSUME IInv, UNCHANGED <<args, file, k, faults, lapses, phase>>,
         \A t \in Team : \A i \in Slice(threads, t), p \in 0 .. Parts - 1 :
           Written(t, i, p)' = Written(t, i, p),
         \A t \in Team :
           \/ Settled(t)' => Settled(t)
           \/ \A i \in Slice(threads, t), p \in 0 .. Parts - 1 : ~ Written(t, i, p)
  PROVE  CacheInv' /\ DiskInv' /\ DropInv' /\ IterationDurable'
  <1>1. /\ phase' = phase /\ k' = k /\ cache' = cache /\ disk' = disk
        /\ faults' = faults /\ lapses' = lapses /\ dropped' = dropped
        /\ program' = program /\ threads' = threads /\ iterations' = iterations
    BY DEF args, file
  <1>2. Team' = Team /\ Intact' = Intact /\ Synced' = Synced
    BY <1>1 DEF Team, Intact, Careful, Synced
  <1>3. \A u \in Team : Slice(threads, u)' = Slice(threads, u)
    BY <1>1
  <1>4. CacheInv'
    <2>1. SUFFICES ASSUME phase # "failed", Intact, NEW t \in Team,
                          NEW i \in Slice(threads, t), NEW p \in 0 .. Parts - 1
                   PROVE  (cache[<<i, p>>] = IF Written(t, i, p) THEN k[t] ELSE k[t] - 1)'
      BY <1>1, <1>2, <1>3 DEF CacheInv
    <2>2. cache[<<i, p>>] = IF Written(t, i, p) THEN k[t] ELSE k[t] - 1
      BY <2>1 DEF IInv, CacheInv
    <2> QED
      BY <1>1, <2>2
  <1>5. DiskInv'
    <2>1. SUFFICES ASSUME phase # "failed", Intact, NEW t \in Team, Settled(t)',
                          NEW i \in Slice(threads, t), NEW p \in 0 .. Parts - 1,
                          Written(t, i, p)', k[t] \notin lapses
                   PROVE  (disk[<<i, p>>] \subseteq {k[t]})'
      BY <1>1, <1>2, <1>3 DEF DiskInv
    <2>2. Settled(t) /\ Written(t, i, p)
      BY <2>1
    <2>3. disk[<<i, p>>] \subseteq {k[t]}
      BY <2>1, <2>2 DEF IInv, DiskInv
    <2> QED
      BY <1>1, <2>3
  <1>6. DropInv'
    <2>1. SUFFICES ASSUME phase # "failed", Intact, NEW t \in Team, k[t] \notin lapses,
                          NEW i \in Slice(threads, t), NEW p \in 0 .. Parts - 1,
                          Written(t, i, p)'
                   PROVE  <<i, p>> \notin dropped
      BY <1>1, <1>2, <1>3 DEF DropInv
    <2> QED
      BY <2>1 DEF IInv, DropInv
  <1>7. IterationDurable'
    BY <1>1, <1>2 DEF IInv, IterationDurable
  <1> QED
    BY <1>4, <1>5, <1>6, <1>7

\* Entering an iteration preserves TeamInv.
LEMMA ComputeStep ==
  ASSUME IInv, NEW t \in Team, Compute(t)
  PROVE  TeamInv'
  <1> USE DEF args, file
  <1>1. TypeOK /\ t \in Tids /\ Team \subseteq Tids
    BY TeamFacts DEF IInv
  <1>2. /\ phase' = phase /\ k' = k /\ nb' = nb /\ lnb' = lnb /\ faults' = faults
        /\ lapses' = lapses /\ dropped' = dropped /\ cache' = cache /\ disk' = disk /\ bytes' = bytes
        /\ program' = program /\ threads' = threads /\ iterations' = iterations
        /\ pc[t] = "loop" /\ pc' = [pc EXCEPT ![t] = "write"] /\ k[t] <= iterations
        /\ row' = [row EXCEPT ![t] = From(threads, t)]
    BY DEF Compute, Goto
  <1>3. Team' = Team /\ Intact' = Intact /\ Synced' = Synced /\ SyncsEach' = SyncsEach
    BY <1>2 DEF Team, Intact, Careful, Synced, SyncsEach
  <1>4. phase # "failed" /\ nb[t] = 0
    BY <1>1, <1>2 DEF IInv, FailedInv, PlaceInv, TypeOK
  <1>5. /\ pc'[t] = "write" /\ row'[t] = From(threads, t)
        /\ \A u \in Team : u # t => pc'[u] = pc[u] /\ row'[u] = row[u]
    BY <1>1, <1>2 DEF TypeOK
  <1>6. \A u \in Team : \A i \in Slice(threads, u), p \in 0 .. Parts - 1 :
          Written(u, i, p)' = Written(u, i, p)
    <2>1. SUFFICES ASSUME NEW u \in Team, NEW i \in Slice(threads, u),
                          NEW p \in 0 .. Parts - 1
                   PROVE  Written(u, i, p)' = Written(u, i, p)
      OBVIOUS
    <2>2. i \in Nat /\ From(threads, u) <= i /\ From(threads, u) \in Nat
      BY <1>1, SliceCells, TeamSlices
    <2>3. CASE u = t
      <3>1. ~ Written(u, i, p)
        BY <1>2, <2>3 DEF Written
      <3>2. row'[u] = From(threads, u) /\ nb'[u] = 0
        BY <1>2, <1>4, <1>5, <2>3
      <3>3. ~ Written(u, i, p)'
        BY <2>2, <3>2 DEF Written
      <3> QED
        BY <3>1, <3>3 DEF Written
    <2>4. CASE u # t
      BY <1>2, <1>5, <2>4 DEF Written
    <2> QED
      BY <2>3, <2>4
  <1>7. SameIteration' /\ FailedInv'
    BY <1>1, <1>2, <1>3, <1>4 DEF IInv, SameIteration, FailedInv
  <1>8. PlaceInv'
    <2>1. From(threads, t) \in From(threads, t) .. To(threads, t)
      BY <1>1, TeamSlices
    <2> QED
      BY <1>2, <1>3, <1>4, <1>5, <2>1 DEF IInv, PlaceInv
  <1>9. SyncerInv' /\ EndInv'
    BY <1>1, <1>2, <1>3, <1>5 DEF IInv, SyncerInv, EndInv, TypeOK
  <1>11. CacheInv' /\ DiskInv' /\ DropInv' /\ IterationDurable'
    <2>1. 0 \in Team /\ (program = "optimized" => (pc'[0] = "barrier2" => pc[0] = "barrier2"))
      BY <1>1, <1>2, <1>5, TeamFacts
    <2>2. \A i \in Slice(threads, t), p \in 0 .. Parts - 1 : ~ Written(t, i, p)
      BY <1>2 DEF Written
    <2>3. \A u \in Team : u # t => (Settled(u)' => Settled(u))
      BY <1>2, <1>3, <1>5, <2>1 DEF Settled
    <2> QED
      BY <1>2, <1>6, <2>2, <2>3, FileKept
  <1>12. CountInv'
    <2>1. \A u \in Team : RowsDone(u)' = RowsDone(u)
      BY <1>1, <1>2, <1>5, TeamSlices DEF RowsDone
    <2> QED
      BY <1>2, <1>3, <2>1 DEF IInv, CountInv
  <1>13. AllBytesCounted'
    BY <1>2, <1>3 DEF IInv, AllBytesCounted
  <1> QED
    BY <1>7, <1>8, <1>9, <1>11, <1>12, <1>13 DEF TeamInv

\* Leaving the loop over the rows preserves TeamInv.
LEMMA RowsWrittenStep ==
  ASSUME IInv, NEW t \in Team, RowsWritten(t)
  PROVE  TeamInv'
  <1> USE DEF args, file
  <1>1. TypeOK /\ t \in Tids /\ Team \subseteq Tids
    BY TeamFacts DEF IInv
  <1>2. /\ phase' = phase /\ k' = k /\ row' = row /\ nb' = nb /\ lnb' = lnb
        /\ faults' = faults /\ lapses' = lapses /\ dropped' = dropped
        /\ cache' = cache /\ disk' = disk /\ bytes' = bytes
        /\ program' = program /\ threads' = threads /\ iterations' = iterations
        /\ pc[t] = "write" /\ row[t] >= To(threads, t)
        /\ pc' = [pc EXCEPT ![t] = AfterRows(t)]
    BY DEF RowsWritten, Goto
  <1>3. Team' = Team /\ Intact' = Intact /\ Synced' = Synced /\ SyncsEach' = SyncsEach
    BY <1>2 DEF Team, Intact, Careful, Synced, SyncsEach
  <1>4. phase # "failed" /\ row[t] = To(threads, t) /\ nb[t] = 0 /\ k[t] <= iterations
    BY <1>2, ThreadFacts
  <1>5. /\ pc'[t] = AfterRows(t) /\ \A u \in Team : u # t => pc'[u] = pc[u]
        /\ AfterRows(t) = (IF program = "sync2" THEN "fsync" ELSE "barrier")
    BY <1>1, <1>2 DEF TypeOK, AfterRows
  <1>6. \A u \in Team : pc'[u] = "loop" <=> pc[u] = "loop"
    BY <1>2, <1>5
  <1>7. \A u \in Team : \A i \in Slice(threads, u), p \in 0 .. Parts - 1 :
          Written(u, i, p)' = Written(u, i, p)
    BY <1>2, <1>6 DEF Written
  <1>8. SameIteration' /\ FailedInv'
    BY <1>1, <1>2, <1>3, <1>4 DEF IInv, SameIteration, FailedInv
  <1>9. PlaceInv'
    BY <1>1, <1>2, <1>3, <1>4, <1>5, TeamSlices DEF IInv, PlaceInv, Synced
  <1>10. SyncerInv' /\ EndInv'
    BY <1>1, <1>2, <1>3, <1>5 DEF IInv, SyncerInv, EndInv, TypeOK
  <1>12. CacheInv' /\ DiskInv' /\ DropInv' /\ IterationDurable'
    <2>1. 0 \in Team /\ (program = "optimized" => (pc'[0] = "barrier2" => pc[0] = "barrier2"))
      BY <1>1, <1>2, <1>5, TeamFacts
    <2>2. \A u \in Team : Settled(u)' => Settled(u)
      BY <1>2, <1>3, <1>5, <2>1 DEF Settled
    <2> QED
      BY <1>2, <1>7, <2>2, FileKept
  <1>13. CountInv'
    <2>1. \A u \in Team : RowsDone(u)' = RowsDone(u)
      BY <1>2, <1>6 DEF RowsDone
    <2> QED
      BY <1>2, <1>3, <2>1 DEF IInv, CountInv
  <1>14. AllBytesCounted'
    BY <1>2, <1>3 DEF IInv, AllBytesCounted
  <1> QED
    BY <1>8, <1>9, <1>10, <1>12, <1>13, <1>14 DEF TeamInv

\* What fsync preserves whether or not it succeeds, for the threads do not ask.
LEMMA AfterFsyncStep ==
  ASSUME IInv, NEW t \in Team, pc[t] = "fsync", Goto(t, AfterFsync),
         UNCHANGED <<args, phase, k, row, nb, lnb, bytes, cache, faults>>
  PROVE  /\ SameIteration' /\ FailedInv' /\ PlaceInv' /\ SyncerInv' /\ EndInv'
         /\ CacheInv' /\ CountInv' /\ AllBytesCounted'
         /\ phase # "failed"
         /\ \A u \in Team : \A i \in Slice(threads, u), p \in 0 .. Parts - 1 :
              Written(u, i, p)' = Written(u, i, p)
  <1> USE DEF args, file
  <1>1. TypeOK /\ t \in Tids /\ Team \subseteq Tids
    BY TeamFacts DEF IInv
  <1> DEFINE next == CASE program = "optimized" -> "barrier2"
                       [] program = "sync2"     -> "barrier"
                       [] OTHER                 -> "write"
  <1>2. /\ phase' = phase /\ k' = k /\ row' = row /\ nb' = nb /\ lnb' = lnb
        /\ faults' = faults /\ cache' = cache /\ bytes' = bytes
        /\ program' = program /\ threads' = threads /\ iterations' = iterations
        /\ pc[t] = "fsync" /\ pc' = [pc EXCEPT ![t] = next]
    BY DEF Goto, AfterFsync
  <1>3. /\ Team' = Team /\ Intact' = Intact /\ Synced' = Synced
        /\ SyncsEach' = SyncsEach /\ Tids' = Tids
    BY <1>2 DEF Team, Intact, Careful, Synced, SyncsEach
  <1>4. phase # "failed" /\ k[t] <= iterations
    BY <1>2, ThreadFacts
  <1>5. pc'[t] = next /\ \A u \in Team : u # t => pc'[u] = pc[u]
    BY <1>1, <1>2 DEF TypeOK
  <1>6. next \in {"barrier", "barrier2", "write"}
    OBVIOUS
  <1>7. \A u \in Team : pc'[u] = "loop" <=> pc[u] = "loop"
    BY <1>2, <1>5, <1>6
  <1>8. \A u \in Team : \A i \in Slice(threads, u), p \in 0 .. Parts - 1 :
          Written(u, i, p)' = Written(u, i, p)
    BY <1>2, <1>7 DEF Written
  <1>9. SameIteration' /\ FailedInv'
    BY <1>1, <1>2, <1>3, <1>4 DEF IInv, SameIteration, FailedInv
  <1>10. PlaceInv'
    <2>1. Synced /\ (SyncsEach \/ row[t] = To(threads, t))
      BY <1>2, <1>4 DEF IInv, PlaceInv
    <2>2. /\ next = "write" => SyncsEach
          /\ next = "barrier2" => program = "optimized"
          /\ next \in {"barrier", "barrier2"} => row[t] = To(threads, t)
      BY <2>1 DEF Synced, SyncsEach
    <2> HIDE DEF next
    <2>3. SUFFICES ASSUME NEW u \in Team
                   PROVE  /\ pc'[u] # "idle"
                          /\ pc'[u] = "loop" => k[u] <= iterations + 1
                          /\ pc'[u] # "loop" =>
                               /\ k[u] <= iterations
                               /\ row[u] \in From(threads, u) .. To(threads, u)
                          /\ nb[u] > 0 => /\ pc'[u] \in {"write", "fsync"}
                                          /\ row[u] < To(threads, u)
                          /\ pc'[u] \in {"barrier", "barrier2"} => row[u] = To(threads, u)
                          /\ pc'[u] = "fsync" =>
                               Synced /\ (SyncsEach \/ row[u] = To(threads, u))
                          /\ pc'[u] = "barrier2" => program = "optimized"
      BY <1>2, <1>3 DEF PlaceInv
    <2>4. CASE u = t
      BY <1>2, <1>4, <1>5, <1>6, <2>2, <2>4, ThreadFacts DEF IInv, PlaceInv
    <2>5. CASE u # t
      BY <1>4, <1>5, <2>5 DEF IInv, PlaceInv
    <2> QED
      BY <2>4, <2>5
  <1>11. SyncerInv' /\ EndInv'
    BY <1>1, <1>2, <1>3, <1>4, <1>5 DEF IInv, SyncerInv, EndInv
  <1>12. CacheInv'
    <2>1. SUFFICES ASSUME Intact, NEW u \in Team, NEW i \in Slice(threads, u),
                          NEW p \in 0 .. Parts - 1
                   PROVE  cache'[<<i, p>>] = IF Written(u, i, p)' THEN k'[u] ELSE k'[u] - 1
      BY <1>2, <1>3 DEF CacheInv
    <2>2. cache[<<i, p>>] = IF Written(u, i, p) THEN k[u] ELSE k[u] - 1
      BY <1>4, <2>1 DEF IInv, CacheInv
    <2> QED
      BY <1>2, <1>8, <2>1, <2>2
  <1>13. CountInv'
    <2>1. \A u \in Team : RowsDone(u)' = RowsDone(u)
      BY <1>2, <1>7 DEF RowsDone
    <2> QED
      BY <1>2, <1>3, <2>1 DEF IInv, CountInv
  <1>14. AllBytesCounted'
    BY <1>2, <1>3 DEF IInv, AllBytesCounted
  <1> QED
    BY <1>4, <1>8, <1>9, <1>10, <1>11, <1>12, <1>13, <1>14

\* An fsync that succeeds preserves TeamInv: unless one failed before it in this
\* iteration, nothing that was written in it has been given up.
LEMMA FsyncStep ==
  ASSUME IInv, NEW t \in Team, Fsync(t)
  PROVE  TeamInv'
  <1>1. /\ phase' = phase /\ k' = k /\ faults' = faults /\ lapses' = lapses
        /\ dropped' = dropped /\ cache' = cache
        /\ program' = program /\ threads' = threads
        /\ disk' = [c \in Cells |-> IF c \in dropped THEN disk[c] ELSE {cache[c]}]
    BY DEF Fsync, args
  <1>2. Team' = Team /\ Intact' = Intact /\ Synced' = Synced
    BY <1>1 DEF Team, Intact, Careful, Synced
  <1>3. /\ SameIteration' /\ FailedInv' /\ PlaceInv' /\ SyncerInv' /\ EndInv'
        /\ CacheInv' /\ CountInv' /\ AllBytesCounted'
        /\ phase # "failed"
        /\ \A u \in Team : \A i \in Slice(threads, u), p \in 0 .. Parts - 1 :
             Written(u, i, p)' = Written(u, i, p)
    BY AfterFsyncStep DEF Fsync
  <1>4. ASSUME NEW u \in Team, NEW i \in Slice(threads, u), NEW p \in 0 .. Parts - 1
        PROVE  Written(u, i, p)' = Written(u, i, p)
    BY <1>3
  <1>5. DiskInv' /\ DropInv'
    <2>1. SUFFICES ASSUME Intact, NEW u \in Team, k[u] \notin lapses,
                          NEW i \in Slice(threads, u), NEW p \in 0 .. Parts - 1,
                          Written(u, i, p)'
                   PROVE  disk'[<<i, p>>] \subseteq {k[u]} /\ <<i, p>> \notin dropped
      BY <1>1, <1>2 DEF DiskInv, DropInv
    <2>2. <<i, p>> \in Cells
      BY SliceCells DEF IInv
    <2>3. <<i, p>> \notin dropped /\ cache[<<i, p>>] = k[u]
      BY <1>3, <1>4, <2>1 DEF IInv, DropInv, CacheInv
    <2> QED
      BY <1>1, <2>2, <2>3
  <1>6. IterationDurable'
    BY <1>1, <1>2 DEF IInv, FileOneIterationApart, IterationDurable
  <1> QED
    BY <1>3, <1>5, <1>6 DEF TeamInv

\* One that fails preserves it as well, for its iteration is not promised.
LEMMA FsyncFailsStep ==
  ASSUME IInv, NEW t \in Team, FsyncFails(t)
  PROVE  TeamInv'
  <1>1. /\ phase' = phase /\ k' = k /\ faults' = faults /\ disk' = disk
        /\ program' = program /\ threads' = threads
        /\ lapses' = lapses \cup {k[t]}
    BY DEF FsyncFails, args
  <1>2. Team' = Team /\ Intact' = Intact /\ Synced' = Synced
    BY <1>1 DEF Team, Intact, Careful, Synced
  <1>3. /\ SameIteration' /\ FailedInv' /\ PlaceInv' /\ SyncerInv' /\ EndInv'
        /\ CacheInv' /\ CountInv' /\ AllBytesCounted'
    BY AfterFsyncStep DEF FsyncFails
  <1>4. \A u \in Team : k[u] \in lapses'
    BY <1>1 DEF IInv, SameIteration
  <1>5. DiskInv' /\ DropInv'
    BY <1>1, <1>2, <1>4 DEF DiskInv, DropInv
  <1>6. IterationDurable'
    BY <1>1, <1>2 DEF IInv, IterationDurable
  <1> QED
    BY <1>3, <1>5, <1>6 DEF TeamInv

\* The first barrier of checkpoint_optimized.c.
LEMMA LeaveBarrier1Step ==
  ASSUME IInv, LeaveBarrier1
  PROVE  TeamInv'
  <1> USE DEF args, file
  <1>1. TypeOK /\ Team \subseteq Tids /\ 0 \in Team
    BY TeamFacts DEF IInv
  <1>2. /\ phase' = phase /\ k' = k /\ row' = row /\ nb' = nb /\ lnb' = lnb
        /\ faults' = faults /\ lapses' = lapses /\ dropped' = dropped
        /\ cache' = cache /\ disk' = disk /\ bytes' = bytes
        /\ program' = program /\ threads' = threads /\ iterations' = iterations
        /\ phase = "team" /\ program = "optimized"
        /\ \A u \in Team : pc[u] = "barrier"
        /\ \A u \in Team : pc'[u] = IF u = 0 THEN "fsync" ELSE "barrier2"
    BY <1>1 DEF LeaveBarrier1, Arrived
  <1>3. /\ Team' = Team /\ Intact' = Intact /\ Synced' = Synced
        /\ SyncsEach' = SyncsEach
    BY <1>2 DEF Team, Intact, Careful, Synced, SyncsEach
  <1>4. \A u \in Team : pc'[u] # "loop" /\ pc[u] # "loop"
    BY <1>2
  <1>5. \A u \in Team : \A i \in Slice(threads, u), p \in 0 .. Parts - 1 :
          Written(u, i, p)' = Written(u, i, p)
    BY <1>2, <1>4 DEF Written
  <1>6. SameIteration' /\ FailedInv' /\ EndInv'
    BY <1>2, <1>3 DEF IInv, SameIteration, FailedInv, EndInv
  <1>7. PlaceInv'
    BY <1>2, <1>3, ThreadFacts DEF IInv, PlaceInv, Synced
  <1>8. SyncerInv'
    BY <1>2, <1>3 DEF IInv, SyncerInv
  <1>9. CacheInv' /\ DiskInv' /\ DropInv' /\ IterationDurable'
    <2>1. \A u \in Team : ~ Settled(u)'
      BY <1>1, <1>2, <1>3 DEF Settled, SyncsEach
    <2> QED
      BY <1>2, <1>5, <2>1, FileKept
  <1>10. CountInv'
    <2>1. \A u \in Team : RowsDone(u)' = RowsDone(u)
      BY <1>2, <1>4 DEF RowsDone
    <2> QED
      BY <1>2, <1>3, <2>1 DEF IInv, CountInv
  <1>11. AllBytesCounted'
    BY <1>2, <1>3 DEF IInv, AllBytesCounted
  <1> QED
    BY <1>6, <1>7, <1>8, <1>9, <1>10, <1>11 DEF TeamInv

\* The barrier at the end of an iteration: all rows are written, and those of
\* the programs that sync are on the disk.
LEMMA LeaveIterationStep ==
  ASSUME IInv, NEW place, LeaveIteration(place), phase = "team",
         \/ program # "optimized" /\ place = "barrier"
         \/ program = "optimized" /\ place = "barrier2"
  PROVE  TeamInv'
  <1> USE DEF args, file
  <1>1. TypeOK /\ Team \subseteq Tids /\ 0 \in Team
    BY TeamFacts DEF IInv
  <1>2. /\ phase' = phase /\ row' = row /\ nb' = nb /\ lnb' = lnb
        /\ faults' = faults /\ lapses' = lapses /\ dropped' = dropped
        /\ cache' = cache /\ disk' = disk /\ bytes' = bytes
        /\ program' = program /\ threads' = threads /\ iterations' = iterations
        /\ \A u \in Team : pc[u] = place /\ pc'[u] = "loop" /\ k'[u] = k[u] + 1
    BY <1>1 DEF LeaveIteration, Arrived
  <1>3. /\ Team' = Team /\ Intact' = Intact /\ Synced' = Synced
        /\ SyncsEach' = SyncsEach
    BY <1>2 DEF Team, Intact, Careful, Synced, SyncsEach
  <1>4. \A u \in Team : row[u] = To(threads, u) /\ nb[u] = 0 /\ k[u] <= iterations
                        /\ k[u] \in Nat
    BY <1>2, ThreadFacts DEF IInv, PlaceInv
  <1>5. \A u \in Team : \A i \in Slice(threads, u), p \in 0 .. Parts - 1 :
          Written(u, i, p)
    BY <1>1, <1>2, <1>4, SliceCells DEF Written
  <1>6. SameIteration' /\ FailedInv' /\ EndInv' /\ SyncerInv'
    BY <1>2, <1>3, <1>4 DEF IInv, SameIteration, FailedInv, EndInv, SyncerInv
  <1>7. PlaceInv'
    <2>1. iterations \in Nat
      BY <1>1, ThreadFacts
    <2> QED
      BY <1>2, <1>3, <1>4, <2>1 DEF PlaceInv
  <1>8. ASSUME NEW u \in Team, NEW i \in Slice(threads, u), NEW p \in 0 .. Parts - 1
        PROVE  ~ Written(u, i, p)'
    BY <1>2 DEF Written
  <1>9. CacheInv' /\ DiskInv' /\ DropInv'
    <2>1. SUFFICES ASSUME Intact, NEW u \in Team, NEW i \in Slice(threads, u),
                          NEW p \in 0 .. Parts - 1
                   PROVE  cache[<<i, p>>] = k'[u] - 1
      BY <1>2, <1>3, <1>8 DEF CacheInv, DiskInv, DropInv
    <2>2. cache[<<i, p>>] = k[u]
      BY <1>2, <1>5, <2>1 DEF IInv, CacheInv
    <2> QED
      BY <1>2, <1>4, <2>2
  <1>10. IterationDurable'
    <2>1. SUFFICES ASSUME Synced, Intact, NEW t \in Team, NEW c \in Cells,
                          k[t] \notin lapses
                   PROVE  disk[c] \subseteq {k[t]}
      BY <1>2, <1>3, <1>4 DEF IterationDurable, Cells
    <2>2. PICK u \in Team :
               \E i \in Slice(threads, u), p \in 0 .. Parts - 1 : c = <<i, p>>
      BY <1>1, CellOfTeam
    <2>3. Settled(u)
      BY <1>1, <1>2, <2>1 DEF Settled, Synced, SyncsEach
    <2>5. k[u] = k[t]
      BY DEF IInv, SameIteration
    <2>4. disk[c] \subseteq {k[u]}
      BY <1>2, <1>5, <2>1, <2>2, <2>3, <2>5 DEF IInv, DiskInv
    <2> QED
      BY <2>4, <2>5
  <1>11. CountInv'
    <2>1. ASSUME NEW u \in Team PROVE RowsDone(u)' = RowsDone(u)
      <3>1. /\ Lines(threads, u) \in Nat /\ From(threads, u) \in Nat
            /\ Lines(threads, u) = To(threads, u) - From(threads, u)
            /\ To(threads, u) \in Nat
        BY <1>1, TeamSlices
      <3>2. RowsDone(u)' = Lines(threads, u) * ((k[u] + 1) - 1) + 0
        BY <1>2 DEF RowsDone
      <3>3. RowsDone(u) = Lines(threads, u) * (k[u] - 1)
                            + (To(threads, u) - From(threads, u))
        BY <1>2, <1>4 DEF RowsDone
      <3>4. \A a \in Nat, b \in Nat : a * ((b + 1) - 1) + 0 = a * (b - 1) + a
        OBVIOUS
      <3>5. RowsDone(u) = Lines(threads, u) * (k[u] - 1) + Lines(threads, u)
        BY <3>1, <3>3, Zenon
      <3> QED
        BY <1>4, <3>1, <3>2, <3>4, <3>5, Zenon
    <2> QED
      BY <1>2, <1>3, <2>1 DEF IInv, CountInv
  <1>12. AllBytesCounted'
    BY <1>2, <1>3 DEF IInv, AllBytesCounted
  <1> QED
    BY <1>6, <1>7, <1>9, <1>10, <1>11, <1>12 DEF TeamInv

\* The end of the program preserves TeamInv.
LEMMA JoinStep ==
  ASSUME IInv, Join
  PROVE  TeamInv'
  <1> USE DEF args, file
  <1>1. TypeOK /\ Team \subseteq Tids /\ 0 \in Team
    BY TeamFacts DEF IInv
  <1>2. /\ pc' = pc /\ k' = k /\ row' = row /\ nb' = nb /\ lnb' = lnb
        /\ faults' = faults /\ lapses' = lapses /\ dropped' = dropped
        /\ cache' = cache /\ disk' = disk
        /\ program' = program /\ threads' = threads /\ iterations' = iterations
        /\ \A u \in Team : pc[u] = "loop" /\ k[u] > iterations
        /\ phase = "team" /\ phase' = "ended"
    BY DEF Join
  <1>3. /\ Team' = Team /\ Intact' = Intact /\ Synced' = Synced
        /\ SyncsEach' = SyncsEach
    BY <1>2 DEF Team, Intact, Careful, Synced, SyncsEach
  <1>4. \A u \in Team : k[u] = iterations + 1
    <2>1. \A u \in Team : k[u] <= iterations + 1
      BY <1>2 DEF IInv, PlaceInv
    <2> QED
      BY <1>2, <2>1, ThreadFacts
  <1>5. SameIteration' /\ FailedInv' /\ EndInv' /\ SyncerInv' /\ PlaceInv'
    BY <1>2, <1>3, <1>4
       DEF IInv, SameIteration, FailedInv, EndInv, SyncerInv, PlaceInv, Synced, SyncsEach
  <1>6. \A u \in Team : \A i \in Slice(threads, u), p \in 0 .. Parts - 1 :
          ~ Written(u, i, p) /\ ~ Written(u, i, p)'
    BY <1>2 DEF Written
  <1>7. CacheInv'
    BY <1>2, <1>3, <1>6 DEF IInv, CacheInv
  <1>8. DiskInv' /\ DropInv'
    BY <1>2, <1>3, <1>6 DEF DiskInv, DropInv
  <1>9. IterationDurable'
    BY <1>2, <1>3 DEF IInv, IterationDurable
  <1>10. CountInv'
    <2>1. \A u \in Team : RowsDone(u)' = RowsDone(u)
      BY <1>2 DEF RowsDone
    <2> QED
      BY <1>2, <1>3, <2>1 DEF IInv, CountInv
  <1>11. AllBytesCounted'
    <2>1. SUFFICES ASSUME Intact PROVE bytes' = N * Parts * iterations
      BY <1>2, <1>3 DEF AllBytesCounted
    <2>2. ASSUME NEW u \in Team
          PROVE  lnb[u] = (Parts * iterations) * Lines(threads, u)
      <3>1. Lines(threads, u) \in Nat /\ iterations \in Nat
        BY <1>1, TeamSlices, ThreadFacts
      <3>2. lnb[u] = Parts * (Lines(threads, u) * ((iterations + 1) - 1) + 0)
        BY <1>2, <1>4, <2>1 DEF IInv, CountInv, RowsDone
      <3>3. \A a, b, c \in Nat : a * (b * ((c + 1) - 1) + 0) = (a * c) * b
        <4>1. SUFFICES ASSUME NEW a \in Nat, NEW b \in Nat, NEW c \in Nat
                       PROVE  a * (b * c) = (a * c) * b
          OBVIOUS
        <4> QED
          OBVIOUS
      <3> QED
        BY <3>1, <3>2, <3>3, PartsAssumption, Zenon
    <2>3. threads \in Nat \ {0} /\ Team = 0 .. threads - 1
      BY <1>1, TeamFacts
    <2>4. Parts * iterations \in Nat /\ iterations \in Nat
      BY <1>1, ThreadFacts
    <2>5. SumOver(lnb, 0 .. threads - 1) = (Parts * iterations) * N
      BY <2>2, <2>3, <2>4, SumOfLines
    <2>6. bytes' = SumOver(lnb, Team)
      BY Zenon DEF Join, SumOver
    <2>7. (Parts * iterations) * N = N * Parts * iterations
      BY <2>4, NAssumption
    <2> QED
      BY <2>3, <2>5, <2>6, <2>7, Zenon
  <1> QED
    BY <1>5, <1>7, <1>8, <1>9, <1>10, <1>11 DEF TeamInv

\* Nothing is asked of a team that has given up but what its file already is.
LEMMA GiveUpStep ==
  ASSUME IInv, NEW t \in Team, GiveUp(t)
  PROVE  TeamInv' /\ FileOneIterationApart'
  <1> USE DEF args, file
  <1>1. Team \subseteq Tids /\ MaxFaults \in Nat /\ faults \in Nat
    BY TeamFacts DEF IInv, TypeOK
  <1>2. /\ phase' = "failed" /\ k' = k /\ row' = row /\ nb' = nb /\ lnb' = lnb
        /\ cache' = cache /\ disk' = disk /\ lapses' = lapses /\ bytes' = bytes
        /\ program' = program /\ threads' = threads /\ iterations' = iterations
        /\ \A u \in Team : pc'[u] = "idle"
        /\ Careful
    BY <1>1 DEF GiveUp
  <1>3. /\ Team' = Team /\ Synced' = Synced /\ Intact /\ Intact'
    BY <1>2 DEF Team, Intact, Careful, Synced
  <1>4. SameIteration' /\ FailedInv' /\ EndInv' /\ SyncerInv' /\ PlaceInv'
    BY <1>2, <1>3 DEF IInv, SameIteration, FailedInv, EndInv, SyncerInv, PlaceInv
  <1>5. CacheInv' /\ DiskInv' /\ DropInv' /\ CountInv'
    BY <1>2 DEF CacheInv, DiskInv, DropInv, CountInv
  <1>6. IterationDurable' /\ FileOneIterationApart' /\ AllBytesCounted'
    BY <1>2, <1>3 DEF IInv, IterationDurable, FileOneIterationApart, AllBytesCounted
  <1> QED
    BY <1>4, <1>5, <1>6 DEF TeamInv

\* What one pwrite does while no fault has spoiled the file: the next pieces of
\* the row are written, and the row is over exactly when it is written in full.
LEMMA WriteEffect ==
  ASSUME IInv, NEW t \in Team, Write(t)
  PROVE  /\ phase' = phase /\ k' = k /\ bytes' = bytes /\ lapses' = lapses
         /\ pc[t] = "write"
         /\ program' = program /\ threads' = threads /\ iterations' = iterations
         /\ phase # "failed" /\ Team' = Team
         /\ row[t] \in Slice(threads, t)
         /\ pc'[t] = IF SyncsEach THEN "fsync" ELSE "write"
         /\ \A u \in Team : u # t =>
              /\ pc'[u] = pc[u] /\ row'[u] = row[u]
              /\ nb'[u] = nb[u] /\ lnb'[u] = lnb[u]
         /\ \/ row'[t] = row[t] + 1 /\ nb'[t] = 0
            \/ row'[t] = row[t] /\ nb'[t] \in Nat /\ program # "optimized"
         /\ Intact' =>
              /\ Intact
              /\ \E ret \in 1 .. Parts - nb[t] :
                   /\ Store(t, ret)
                   /\ \/ /\ nb[t] + ret = Parts
                         /\ row'[t] = row[t] + 1 /\ nb'[t] = 0 /\ lnb'[t] = lnb[t] + Parts
                      \/ /\ nb[t] + ret < Parts
                         /\ row'[t] = row[t] /\ nb'[t] = nb[t] + ret /\ lnb'[t] = lnb[t]
  <1> USE DEF args, file
  <1>1. TypeOK /\ t \in Tids /\ Team \subseteq Tids
    BY TeamFacts DEF IInv
  <1>2. /\ phase' = phase /\ k' = k /\ bytes' = bytes /\ lapses' = lapses
        /\ pc[t] = "write"
        /\ program' = program /\ threads' = threads /\ iterations' = iterations
        /\ row[t] < To(threads, t)
        /\ pc' = [pc EXCEPT ![t] = IF SyncsEach THEN "fsync" ELSE "write"]
    BY DEF Write, Goto
  <1>3. PICK ret \in {-1} \cup (1 .. Parts - nb[t]) :
             /\ ~(ret < 0 /\ Careful)
             /\ faults' = IF GoesWrong(ret) THEN faults + 1 ELSE faults
             /\ Store(t, ret)
             /\ IF RowOver(nb[t] + ret)
                  THEN /\ row' = [row EXCEPT ![t] = @ + 1]
                       /\ nb' = [nb EXCEPT ![t] = 0]
                       /\ lnb' = CountRow(t, ret)
                  ELSE /\ nb' = [nb EXCEPT ![t] = @ + ret]
                       /\ UNCHANGED <<row, lnb>>
    BY DEF Write
  <1>4. /\ k[t] \in Nat /\ row[t] \in Nat /\ lnb[t] \in Int /\ nb[t] \in 0 .. Parts - 1
        /\ From(threads, t) \in Nat /\ To(threads, t) \in Nat
        /\ From(threads, t) <= row[t] /\ phase # "failed"
    BY <1>2, ThreadFacts
  <1>5. row[t] \in Slice(threads, t)
    BY <1>1, <1>2, <1>4, TeamSlices
  <1>6. /\ pc'[t] = IF SyncsEach THEN "fsync" ELSE "write"
        /\ \A u \in Team : u # t =>
             /\ pc'[u] = pc[u] /\ row'[u] = row[u]
             /\ nb'[u] = nb[u] /\ lnb'[u] = lnb[u]
    BY <1>1, <1>2, <1>3 DEF TypeOK, CountRow
  <1>7. CASE RowOver(nb[t] + ret)
    <2>1. row'[t] = row[t] + 1 /\ nb'[t] = 0 /\ lnb'[t] = lnb[t] + nb[t] + ret
      BY <1>1, <1>3, <1>7 DEF TypeOK, CountRow
    <2>2. ASSUME Intact'
          PROVE  Intact /\ ret \in 1 .. Parts - nb[t] /\ nb[t] + ret = Parts
                 /\ lnb'[t] = lnb[t] + Parts
      <3>1. faults \in Nat /\ Careful' = Careful
        BY <1>1, <1>2 DEF TypeOK, Careful
      <3>2. Intact /\ (Careful \/ ~ GoesWrong(ret))
        BY <1>3, <2>2, <3>1 DEF Intact
      <3>3. ret \in 1 .. Parts - nb[t]
        BY <1>3, <3>2 DEF GoesWrong
      <3>4. program = "optimized" => ret >= Parts
        BY <1>4, <3>2, <3>3 DEF GoesWrong, Careful
      <3>5. nb[t] + ret = Parts
        BY <1>4, <1>7, <3>3, <3>4 DEF RowOver
      <3> QED
        BY <1>4, <2>1, <3>2, <3>3, <3>5
    <2> QED
      BY <1>2, <1>3, <1>4, <1>5, <1>6, <2>1, <2>2 DEF Team
  <1>8. CASE ~ RowOver(nb[t] + ret)
    <2>1. row'[t] = row[t] /\ nb'[t] = nb[t] + ret /\ lnb'[t] = lnb[t]
      BY <1>1, <1>3, <1>8 DEF TypeOK
    <2>2. nb[t] + ret \in Nat /\ nb[t] + ret < Parts /\ program # "optimized"
      BY <1>3, <1>4, <1>8 DEF RowOver
    <2>3. ASSUME Intact'
          PROVE  Intact /\ ret \in 1 .. Parts - nb[t]
      <3>1. faults \in Nat /\ Careful' = Careful
        BY <1>1, <1>2 DEF TypeOK, Careful
      <3>2. Intact /\ (Careful \/ ~ GoesWrong(ret))
        BY <1>3, <2>3, <3>1 DEF Intact
      <3> QED
        BY <1>3, <3>2 DEF GoesWrong
    <2> QED
      BY <1>2, <1>3, <1>4, <1>5, <1>6, <2>1, <2>2, <2>3 DEF Team
  <1> QED
    BY <1>7, <1>8

\* What has been written after the pwrite is what was before, and what it stored.
LEMMA WriteCells ==
  ASSUME IInv, NEW t \in Team, Write(t), Intact',
         NEW u \in Team, NEW i \in Slice(threads, u), NEW p \in 0 .. Parts - 1
  PROVE  /\ Written(u, i, p)' /\ ~ Written(u, i, p) =>
              /\ u = t /\ cache'[<<i, p>>] = k[t] /\ <<i, p>> \notin dropped'
              /\ disk'[<<i, p>>] = disk[<<i, p>>] \cup {k[t]}
         /\ Written(u, i, p)' <=> Written(u, i, p) =>
              cache'[<<i, p>>] = cache[<<i, p>>] /\ disk'[<<i, p>>] = disk[<<i, p>>]
         /\ Written(u, i, p) => Written(u, i, p)'
         /\ dropped' \subseteq dropped
  <1>1. TypeOK
    BY DEF IInv
  <1>2. PICK ret \in 1 .. Parts - nb[t] :
             /\ Store(t, ret)
             /\ \/ /\ nb[t] + ret = Parts
                   /\ row'[t] = row[t] + 1 /\ nb'[t] = 0
                \/ /\ nb[t] + ret < Parts
                   /\ row'[t] = row[t] /\ nb'[t] = nb[t] + ret
    BY WriteEffect
  <1>3. <<i, p>> \in Cells /\ i \in Nat /\ p \in Nat /\ p < Parts
    BY <1>1, SliceCells
  <1>4. row[t] \in Nat /\ nb[t] \in 0 .. Parts - 1
    BY ThreadFacts
  <1> DEFINE stored == { <<row[t], q>> : q \in nb[t] .. nb[t] + ret - 1 }
  <1>5. <<i, p>> \in stored <=> i = row[t] /\ nb[t] <= p /\ p < nb[t] + ret
    BY <1>2, <1>3, <1>4
  <1>6. /\ cache'[<<i, p>>] = IF <<i, p>> \in stored THEN k[t] ELSE cache[<<i, p>>]
        /\ disk'[<<i, p>>] = IF <<i, p>> \in stored THEN disk[<<i, p>>] \cup {k[t]}
                                                    ELSE disk[<<i, p>>]
        /\ dropped' = dropped \ stored
    BY <1>2, <1>3 DEF Store
  <1> HIDE DEF stored
  <1>7. CASE u = t
    <2>1. pc[t] = "write" /\ pc'[t] # "loop"
      BY WriteEffect
    <2>2. Written(t, i, p) <=> i < row[t] \/ (i = row[t] /\ p < nb[t])
      BY <2>1 DEF Written
    <2>3. Written(t, i, p)' <=> i < row'[t] \/ (i = row'[t] /\ p < nb'[t])
      BY <2>1 DEF Written
    <2>4. Written(t, i, p)' <=> Written(t, i, p) \/ <<i, p>> \in stored
      BY <1>2, <1>3, <1>4, <1>5, <2>2, <2>3
    <2>5. ~ (Written(t, i, p) /\ <<i, p>> \in stored)
      BY <1>3, <1>4, <1>5, <2>2
    <2> QED
      BY <1>6, <1>7, <2>4, <2>5
  <1>8. CASE u # t
    <2>1. Written(u, i, p)' <=> Written(u, i, p)
      BY <1>8, WriteEffect DEF Written
    <2>2. row[t] \in Slice(threads, t)
      BY WriteEffect
    <2>3. <<i, p>> \notin stored
      BY <1>1, <1>5, <1>8, <2>2, OthersRows
    <2> QED
      BY <1>6, <2>1, <2>3
  <1> QED
    BY <1>7, <1>8

\* A pwrite preserves TeamInv, however much it writes.
LEMMA WriteStep ==
  ASSUME IInv, NEW t \in Team, Write(t)
  PROVE  TeamInv'
  <1>1. TypeOK /\ t \in Tids /\ Team \subseteq Tids /\ 0 \in Team
    BY TeamFacts DEF IInv
  <1>2. /\ phase' = phase /\ k' = k /\ bytes' = bytes /\ lapses' = lapses
        /\ pc[t] = "write"
        /\ program' = program /\ threads' = threads /\ iterations' = iterations
        /\ phase # "failed" /\ Team' = Team
        /\ row[t] \in Slice(threads, t)
        /\ pc'[t] = IF SyncsEach THEN "fsync" ELSE "write"
        /\ \A u \in Team : u # t =>
             /\ pc'[u] = pc[u] /\ row'[u] = row[u]
             /\ nb'[u] = nb[u] /\ lnb'[u] = lnb[u]
        /\ \/ row'[t] = row[t] + 1 /\ nb'[t] = 0
           \/ row'[t] = row[t] /\ nb'[t] \in Nat /\ program # "optimized"
        /\ Intact' => Intact
    BY WriteEffect
  <1>3. Synced' = Synced /\ SyncsEach' = SyncsEach
    BY <1>2 DEF Synced, SyncsEach
  <1>4. /\ row[t] \in Nat /\ lnb[t] \in Int /\ nb[t] \in 0 .. Parts - 1 /\ k[t] <= iterations
        /\ From(threads, t) \in Nat /\ To(threads, t) \in Nat
        /\ From(threads, t) <= row[t] /\ row[t] < To(threads, t)
    BY <1>1, <1>2, ThreadFacts, SliceCells, TeamSlices
  <1>5. phase # "ended"
    BY <1>2 DEF IInv, EndInv
  <1>6. SameIteration' /\ FailedInv' /\ EndInv'
    BY <1>2, <1>5 DEF IInv, SameIteration, FailedInv, EndInv
  <1>7. PlaceInv'
    <2>1. SUFFICES ASSUME NEW u \in Team
                   PROVE  /\ pc'[u] # "idle"
                          /\ pc'[u] = "loop" => k[u] <= iterations + 1
                          /\ pc'[u] # "loop" =>
                               /\ k[u] <= iterations
                               /\ row'[u] \in From(threads, u) .. To(threads, u)
                          /\ nb'[u] > 0 => /\ pc'[u] \in {"write", "fsync"}
                                           /\ row'[u] < To(threads, u)
                          /\ pc'[u] \in {"barrier", "barrier2"} => row'[u] = To(threads, u)
                          /\ pc'[u] = "fsync" =>
                               Synced /\ (SyncsEach \/ row'[u] = To(threads, u))
                          /\ pc'[u] = "barrier2" => program = "optimized"
      BY <1>2, <1>3 DEF PlaceInv
    <2>2. CASE u = t
      <3>1. row'[t] \in From(threads, t) .. To(threads, t)
            /\ (nb'[t] > 0 => row'[t] < To(threads, t))
        BY <1>2, <1>4
      <3> QED
        BY <1>2, <1>4, <2>2, <3>1 DEF Synced, SyncsEach
    <2>3. CASE u # t
      BY <1>2, <2>3 DEF IInv, PlaceInv
    <2> QED
      BY <2>2, <2>3
  <1>8. SyncerInv'
    BY <1>2 DEF IInv, SyncerInv, SyncsEach
  <1>9. CacheInv'
    <2>1. SUFFICES ASSUME Intact', NEW u \in Team, NEW i \in Slice(threads, u),
                          NEW p \in 0 .. Parts - 1
                   PROVE  cache'[<<i, p>>] = IF Written(u, i, p)' THEN k[u] ELSE k[u] - 1
      BY <1>2 DEF CacheInv
    <2>2. cache[<<i, p>>] = IF Written(u, i, p) THEN k[u] ELSE k[u] - 1
      BY <1>2, <2>1 DEF IInv, CacheInv
    <2> QED
      BY <2>1, <2>2, WriteCells
  <1>10. DiskInv'
    <2>1. SUFFICES ASSUME Intact', NEW u \in Team, Settled(u)',
                          NEW i \in Slice(threads, u), NEW p \in 0 .. Parts - 1,
                          Written(u, i, p)', k[u] \notin lapses
                   PROVE  disk'[<<i, p>>] \subseteq {k[u]}
      BY <1>2 DEF DiskInv
    <2>2. u # t /\ Settled(u)
      <3>1. ~ (program = "optimized" /\ pc[0] = "barrier2")
        BY <1>1, <1>2 DEF IInv, SyncerInv
      <3>2. 0 = t \/ pc'[0] = pc[0]
        BY <1>1, <1>2
      <3> QED
        BY <1>2, <1>3, <2>1, <3>1, <3>2 DEF Settled, SyncsEach
    <2>3. Written(u, i, p) /\ disk'[<<i, p>>] = disk[<<i, p>>]
      BY <2>1, <2>2, WriteCells
    <2> QED
      BY <1>2, <2>1, <2>2, <2>3 DEF IInv, DiskInv
  <1>11. IterationDurable'
    <2>1. SUFFICES ASSUME Synced, Intact', NEW u \in Team, NEW c \in Cells,
                          k[u] - 1 \notin lapses
                   PROVE  disk'[c] \subseteq {k[u] - 1, k[u]}
      BY <1>2, <1>3 DEF IterationDurable, Cells
    <2>2. PICK v \in Team :
               \E i \in Slice(threads, v), p \in 0 .. Parts - 1 : c = <<i, p>>
      BY <1>1, CellOfTeam
    <2>3. disk'[c] \subseteq disk[c] \cup {k[t]}
      BY <2>1, <2>2, WriteCells
    <2>4. disk[c] \subseteq {k[u] - 1, k[u]} /\ k[t] = k[u]
      BY <1>2, <2>1 DEF IInv, IterationDurable, SameIteration
    <2> QED
      BY <2>3, <2>4
  <1>12. CountInv'
    <2>1. SUFFICES ASSUME Intact', NEW u \in Team
                   PROVE  lnb'[u] = Parts * RowsDone(u)'
      BY <1>2 DEF CountInv
    <2>2. lnb[u] = Parts * RowsDone(u)
      BY <1>2, <2>1 DEF IInv, CountInv
    <2>3. CASE u = t
      <3> DEFINE before == Lines(threads, t) * (k[t] - 1)
                 a == row[t] - From(threads, t)
      <3>1. before \in Nat /\ a \in Nat
        <4>1. k[t] - 1 \in Nat
          BY <1>1 DEF TypeOK
        <4>2. Lines(threads, t) \in Nat
          BY <1>1, TeamSlices
        <4>3. before \in Nat
          BY <4>1, <4>2
        <4> QED
          BY <1>4, <4>3
      <3>2. RowsDone(t) = before + a /\ RowsDone(t)' = before + (row'[t] - From(threads, t))
        BY <1>2 DEF RowsDone
      <3>3. \/ row'[t] = row[t] + 1 /\ lnb'[t] = lnb[t] + Parts
            \/ row'[t] = row[t] /\ lnb'[t] = lnb[t]
        BY <2>1, WriteEffect
      <3>4. CASE row'[t] = row[t] + 1 /\ lnb'[t] = lnb[t] + Parts
        <4>1. RowsDone(t)' = (before + a) + 1
          BY <1>4, <3>1, <3>2, <3>4
        <4> HIDE DEF before, a
        <4>2. \A b \in Nat : Parts * (b + 1) = Parts * b + Parts
          OBVIOUS
        <4>3. before + a \in Nat
          BY <3>1
        <4>4. RowsDone(t) = before + a
          BY <3>2
        <4>5. lnb'[t] = Parts * (before + a) + Parts
          BY <2>2, <2>3, <3>4, <4>4, Zenon
        <4> QED
          BY <2>3, <4>1, <4>2, <4>3, <4>5, Zenon
      <3>5. CASE row'[t] = row[t] /\ lnb'[t] = lnb[t]
        <4>1. RowsDone(t)' = RowsDone(t)
          BY <3>2, <3>5
        <4> QED
          BY <2>2, <2>3, <3>5, <4>1
      <3> QED
        BY <3>3, <3>4, <3>5
    <2>4. CASE u # t
      <3>1. RowsDone(u)' = RowsDone(u)
        BY <1>2, <2>4 DEF RowsDone
      <3> QED
        BY <1>2, <2>2, <2>4, <3>1
    <2> QED
      BY <2>3, <2>4
  <1>13. AllBytesCounted'
    BY <1>2, <1>5 DEF AllBytesCounted
  <1>14. DropInv'
    <2>1. SUFFICES ASSUME Intact', NEW u \in Team, k[u] \notin lapses,
                          NEW i \in Slice(threads, u), NEW p \in 0 .. Parts - 1,
                          Written(u, i, p)'
                   PROVE  <<i, p>> \notin dropped'
      BY <1>2 DEF DropInv
    <2>2. Written(u, i, p) => <<i, p>> \notin dropped
      BY <1>2, <2>1 DEF IInv, DropInv
    <2> QED
      BY <2>1, <2>2, WriteCells
  <1> QED
    BY <1>6, <1>7, <1>8, <1>9, <1>10, <1>11, <1>12, <1>13, <1>14 DEF TeamInv

\* Every step preserves the invariant.
LEMMA Inductive == IInv /\ [Next]_vars => IInv'
  <1> SUFFICES ASSUME IInv, [Next]_vars PROVE IInv'
    OBVIOUS
  <1>1. TypeOK'
    BY TypeStep DEF IInv
  <1>2. ASSUME NEW t \in Team, ThreadStep(t) PROVE TeamInv' /\ phase' # "failed"
    <2>1. TeamInv'
      BY <1>2, ComputeStep, WriteStep, RowsWrittenStep, FsyncStep,
         FsyncFailsStep DEF ThreadStep
    <2>2. phase' = phase /\ pc[t] # "idle"
      BY <1>2 DEF ThreadStep, Compute, Write, RowsWritten, Fsync, FsyncFails
    <2>3. phase # "failed"
      BY <2>2 DEF IInv, FailedInv
    <2> QED
      BY <2>1, <2>2, <2>3
  <1>3. ASSUME LeaveBarrier \/ LeaveBarrier2 PROVE TeamInv' /\ phase' # "failed"
    <2>1. TeamInv'
      BY <1>3, LeaveIterationStep DEF LeaveBarrier, LeaveBarrier2
    <2>2. phase' = "team"
      BY <1>3 DEF LeaveBarrier, LeaveBarrier2, LeaveIteration
    <2> QED
      BY <2>1, <2>2
  <1>4. ASSUME LeaveBarrier1 \/ Join PROVE TeamInv' /\ phase' # "failed"
    <2>1. TeamInv'
      BY <1>4, LeaveBarrier1Step, JoinStep
    <2>2. phase' \in {"team", "ended"}
      BY <1>4 DEF LeaveBarrier1, Join
    <2> QED
      BY <2>1, <2>2
  <1>5. ASSUME NEW t \in Team, GiveUp(t) PROVE IInv'
    BY <1>1, <1>5, GiveUpStep DEF TeamInv, IInv
  <1>6. CASE UNCHANGED vars
    <2> USE DEF args, file, vars
    <2>1. /\ phase' = phase /\ pc' = pc /\ k' = k /\ row' = row /\ nb' = nb /\ lnb' = lnb
          /\ bytes' = bytes /\ cache' = cache /\ disk' = disk /\ faults' = faults
          /\ lapses' = lapses /\ dropped' = dropped
          /\ program' = program /\ threads' = threads /\ iterations' = iterations
      BY <1>6
    <2>2. /\ Team' = Team /\ Intact' = Intact /\ Synced' = Synced /\ SyncsEach' = SyncsEach
      BY <2>1 DEF Team, Intact, Careful, Synced, SyncsEach
    <2>3. (SameIteration /\ PlaceInv /\ SyncerInv /\ EndInv /\ FailedInv)'
      BY <2>1, <2>2 DEF IInv, SameIteration, PlaceInv, SyncerInv, EndInv, FailedInv
    <2>4. (CacheInv /\ DiskInv /\ DropInv)'
      BY <2>1, <2>2 DEF IInv, CacheInv, DiskInv, DropInv, Written, Settled
    <2>5. CountInv'
      BY <2>1, <2>2 DEF IInv, CountInv, RowsDone
    <2>6. (FileOneIterationApart /\ IterationDurable /\ AllBytesCounted)'
      BY <2>1, <2>2 DEF IInv, FileOneIterationApart, IterationDurable, AllBytesCounted
    <2> QED
      BY <1>1, <2>3, <2>4, <2>5, <2>6 DEF IInv
  <1>7. ASSUME TeamInv', phase' # "failed" PROVE IInv'
    BY <1>1, <1>7, TeamStep
  <1> QED
    BY <1>2, <1>3, <1>4, <1>5, <1>6, <1>7 DEF Next, ProcessStep, ThreadStep

-----------------------------------------------------------------------------
(* The theorems.                                                           *)

\* In every reachable state the parts of the invariant hold: who has written
\* what of its rows, who has synced it, and how many bytes were counted.
THEOREM Invariance == Spec => []IInv
  <1>1. Init => IInv
    BY Initially
  <1>2. IInv /\ [Next]_vars => IInv'
    BY Inductive
  <1> QED
    BY <1>1, <1>2, PTL DEF Spec

\* The variables keep their types for every number of rows, threads, iterations
\* and faults: row and nb never run past the thread's rows and the row's pieces
\* (checkpoint.c of task3 and task4, checkpoint_fsync.c,
\* checkpoint_optimized.c).
THEOREM TypeCorrect == Spec => []TypeOK
  <1>1. IInv => TypeOK
    BY DEF IInv
  <1> QED
    BY <1>1, Invariance, PTL

\* Wherever a program calls fsync -- after each pwrite, once per thread, or by
\* thread 0 between two barriers -- the iteration before the one a thread is in
\* is on the disk in full, as long as no pwrite of task3's programs fails or
\* falls short and no fsync failed in that very iteration.
THEOREM Durable == Spec => []IterationDurable
  <1>1. IInv => IterationDurable
    BY DEF IInv
  <1> QED
    BY <1>1, Invariance, PTL

\* The barrier at the end of each iteration keeps the file that other processes
\* see within two successive iterations.
THEOREM OneIterationApart == Spec => []FileOneIterationApart
  <1>1. IInv => FileOneIterationApart
    BY DEF IInv
  <1> QED
    BY <1>1, Invariance, PTL

\* info->io_bytes, the sum of what the threads count row by row, is the size of
\* the matrix times the iterations, however the rows were divided.
THEOREM BytesCounted == Spec => []AllBytesCounted
  <1>1. IInv => AllBytesCounted
    BY DEF IInv
  <1> QED
    BY <1>1, Invariance, PTL
=============================================================================
