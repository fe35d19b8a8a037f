--------------------------- MODULE Benchmark_proofs ---------------------------
(***************************************************************************)
(* The threads of a benchmark go from barrier to barrier together, their   *)
(* phases never overlap, they fail for a reason and leave nothing behind,  *)
(* for every team, every number of iterations, objects and blocks, and     *)
(* every number of failures: proofs about Benchmark.                       *)
(*                                                                         *)
(* IInv says where the threads are, TypeInv what the variables hold, and   *)
(* RunInv what a run without faults has done so far, step by step of the   *)
(* scripts.                                                                *)
(***************************************************************************)
EXTENDS Benchmark, SequenceTheorems, FiniteSetTheorems, TLAPS

-----------------------------------------------------------------------------
(* Scripts and the barriers in them *)

Ops  == {"barrier", "mkdir", "rmdir", "create", "open", "stat", "unlink", "command",
         "make", "reset", "reopen", "write", "read", "remove"}
Step == [op : Ops, upto : Int]

\* The batches of data.c are a sequence of steps.
LEMMA BatchesType ==
  ASSUME NEW op \in Ops, NEW n \in Nat
  PROVE  Batches(op, n) \in Seq(Step)
  <1> DEFINE L == 2 * ((n + Batch - 1) \div Batch)
             f(s) == IF s % 2 = 1 THEN Loop(op, BatchEnd((s + 1) \div 2, n)) ELSE Barrier
  <1>1. L \in Nat
    <2>1. Batch \in Nat \ {0} /\ n + Batch - 1 \in Nat
      BY BoundsAssumption
    <2>2. (n + Batch - 1) \div Batch \in Nat
      BY <2>1, SMT
    <2> QED
      BY <2>2
  <1>2. \A s \in 1 .. L : f(s) \in Step
    <2> TAKE s \in 1 .. L
    <2>1. (s + 1) \div 2 \in Int
      BY <1>1, SMT
    <2>2. ((s + 1) \div 2) * Batch \in Int
      BY <2>1, BoundsAssumption, SMT
    <2>3. BatchEnd((s + 1) \div 2, n) \in Int
      BY <2>2 DEF BatchEnd
    <2> QED
      BY <2>3 DEF Loop, Barrier, Plain, Step, Ops
  <1> HIDE DEF L, f
  <1>3. [s \in 1 .. L |-> f(s)] \in Seq(Step)
    BY <1>1, <1>2
  <1> QED
    BY <1>3 DEF Batches, L, f

\* The script of a thread is a sequence of steps.
LEMMA ScriptType ==
  ASSUME bench \in {"metadata", "data"}, count \in Counts
  PROVE  Script \in Seq(Step) /\ Len(Script) \in Nat
  <1>1. count \in Nat
    BY BoundsAssumption
  <1>2. MetadataScript(count) \in Seq(Step)
    BY <1>1 DEF MetadataScript, Plain, Loop, Barrier, Step, Ops
  <1>3. DataScript(count) \in Seq(Step)
    <2>1. /\ << Barrier, Plain("make"), Barrier, Plain("reset"), Plain("reopen") >> \in Seq(Step)
          /\ << Barrier, Plain("command"), Barrier, Plain("reset"), Plain("reopen") >>
               \in Seq(Step)
          /\ << Plain("remove") >> \in Seq(Step)
      BY DEF Plain, Barrier, Step, Ops
    <2>2. Batches("write", count) \in Seq(Step) /\ Batches("read", count) \in Seq(Step)
      BY <1>1, BatchesType DEF Ops
    <2> QED
      BY <2>1, <2>2, ConcatProperties DEF DataScript
  <1>4. Script \in Seq(Step)
    BY <1>2, <1>3 DEF Script, Scripts
  <1> QED
    BY <1>4, LenProperties

\* The number of barriers before the next place.
LEMMA RoundNext ==
  ASSUME bench \in {"metadata", "data"}, count \in Counts
  PROVE  /\ Round(1) = 0
         /\ \A i \in 1 .. Len(Script) :
              Round(i + 1) = IF Script[i].op = "barrier" THEN Round(i) + 1 ELSE Round(i)
  <1> DEFINE B(i) == {j \in 1 .. i - 1 : Script[j].op = "barrier"}
  <1>1. Len(Script) \in Nat
    BY ScriptType
  <1>2. \A i \in 1 .. Len(Script) + 1 : Round(i) = Cardinality(B(i))
    BY DEF Round, Rounds, Script
  <1>3. Round(1) = 0
    <2>1. B(1) = {}
      OBVIOUS
    <2> QED
      BY <1>1, <1>2, <2>1, FS_EmptySet
  <1>4. ASSUME NEW i \in 1 .. Len(Script)
        PROVE  Round(i + 1) = IF Script[i].op = "barrier" THEN Round(i) + 1 ELSE Round(i)
    <2>1. IsFiniteSet(B(i))
      <3>1. IsFiniteSet(1 .. i - 1)
        BY <1>1, FS_Interval
      <3> QED
        BY <3>1, FS_Subset
    <2>2. i \notin B(i)
      BY <1>1
    <2>3. B(i + 1) = IF Script[i].op = "barrier" THEN B(i) \cup {i} ELSE B(i)
      BY <1>1
    <2>4. Cardinality(B(i) \cup {i}) = Cardinality(B(i)) + 1
      BY <2>1, <2>2, FS_AddElement
    <2>5. Round(i) = Cardinality(B(i)) /\ Round(i + 1) = Cardinality(B(i + 1))
      BY <1>1, <1>2
    <2> HIDE DEF B
    <2> QED
      BY <2>3, <2>4, <2>5
  <1> QED
    BY <1>3, <1>4

-----------------------------------------------------------------------------
(* What the scripts have in common *)

\* What every step of a script of bench b with n objects or blocks is.
Fits(b, n, step) ==
  /\ step.upto \in 0 .. n
  /\ b = "data" => step.op \notin {"mkdir", "rmdir", "create", "open", "stat", "unlink"}
  /\ b = "metadata" =>
       step.op \notin {"make", "reset", "reopen", "write", "read", "remove"}

\* What is timed ends at a barrier, and the generators are reset before a file
\* is opened again.
Ordered(s) ==
  \A i \in 1 .. Len(s) :
    /\ s[i].op \in Timed => i + 1 <= Len(s) /\ s[i + 1].op = "barrier"
    /\ s[i].op = "reopen" => i > 1 /\ s[i - 1].op = "reset"

Proper(b, n, s) ==
  /\ s \in Seq(Step) /\ Ordered(s)
  /\ \A i \in 1 .. Len(s) : Fits(b, n, s[i])

\* Proper parts make a proper script.
LEMMA ProperConcat ==
  ASSUME NEW b, NEW n \in Nat, NEW s, NEW t, Proper(b, n, s), Proper(b, n, t)
  PROVE  Proper(b, n, s \o t)
  <1>1. s \in Seq(Step) /\ t \in Seq(Step) /\ Len(s) \in Nat /\ Len(t) \in Nat
    BY LenProperties DEF Proper
  <1>2. /\ s \o t \in Seq(Step) /\ Len(s \o t) = Len(s) + Len(t)
        /\ \A i \in 1 .. Len(s) + Len(t) :
             (s \o t)[i] = IF i <= Len(s) THEN s[i] ELSE t[i - Len(s)]
    BY <1>1, ConcatProperties
  <1> DEFINE c == s \o t
  <1> HIDE DEF c
  <1>3. \A i \in 1 .. Len(s) : c[i] = s[i]
    BY <1>1, <1>2 DEF c
  <1>4. \A i \in 1 .. Len(t) : c[Len(s) + i] = t[i]
    BY <1>1, <1>2 DEF c
  <1>5. \A i \in 1 .. Len(c) : i \in 1 .. Len(s) \/ \E j \in 1 .. Len(t) : i = Len(s) + j
    <2> SUFFICES ASSUME NEW i \in 1 .. Len(c), i \notin 1 .. Len(s)
                 PROVE  \E j \in 1 .. Len(t) : i = Len(s) + j
      OBVIOUS
    <2>1. i - Len(s) \in 1 .. Len(t) /\ i = Len(s) + (i - Len(s))
      BY <1>1, <1>2 DEF c
    <2> QED
      BY <2>1
  <1>6. ASSUME NEW i \in 1 .. Len(s)
        PROVE  /\ Fits(b, n, c[i])
               /\ c[i].op \in Timed => i + 1 <= Len(c) /\ c[i + 1].op = "barrier"
               /\ c[i].op = "reopen" => i > 1 /\ c[i - 1].op = "reset"
    <2>1. /\ Fits(b, n, s[i])
          /\ s[i].op \in Timed => i + 1 <= Len(s) /\ s[i + 1].op = "barrier"
          /\ s[i].op = "reopen" => i > 1 /\ s[i - 1].op = "reset"
      BY DEF Proper, Ordered
    <2>2. c[i] = s[i] /\ (i + 1 <= Len(s) => c[i + 1] = s[i + 1])
          /\ (i > 1 => c[i - 1] = s[i - 1])
      BY <1>1, <1>3
    <2> QED
      BY <1>1, <1>2, <2>1, <2>2 DEF c
  <1>7. ASSUME NEW j \in 1 .. Len(t)
        PROVE  LET i == Len(s) + j
               IN  /\ Fits(b, n, c[i])
                   /\ c[i].op \in Timed => i + 1 <= Len(c) /\ c[i + 1].op = "barrier"
                   /\ c[i].op = "reopen" => i > 1 /\ c[i - 1].op = "reset"
    <2>1. /\ Fits(b, n, t[j])
          /\ t[j].op \in Timed => j + 1 <= Len(t) /\ t[j + 1].op = "barrier"
          /\ t[j].op = "reopen" => j > 1 /\ t[j - 1].op = "reset"
      BY DEF Proper, Ordered
    <2>2. /\ c[Len(s) + j] = t[j]
          /\ j + 1 <= Len(t) => c[(Len(s) + j) + 1] = t[j + 1]
          /\ j > 1 => c[(Len(s) + j) - 1] = t[j - 1]
      <3>1. c[Len(s) + j] = t[j]
        BY <1>4
      <3>2. ASSUME j + 1 <= Len(t) PROVE c[(Len(s) + j) + 1] = t[j + 1]
        <4>1. j + 1 \in 1 .. Len(t) /\ (Len(s) + j) + 1 = Len(s) + (j + 1)
          BY <1>1, <3>2
        <4> QED
          BY <4>1, <1>4
      <3>3. ASSUME j > 1 PROVE c[(Len(s) + j) - 1] = t[j - 1]
        <4>1. j - 1 \in 1 .. Len(t) /\ (Len(s) + j) - 1 = Len(s) + (j - 1)
          BY <1>1, <3>3
        <4> QED
          BY <4>1, <1>4
      <3> QED
        BY <3>1, <3>2, <3>3
    <2>3. Len(c) = Len(s) + Len(t)
      BY <1>2 DEF c
    <2>4. /\ j + 1 <= Len(t) => (Len(s) + j) + 1 <= Len(c)
          /\ j > 1 => Len(s) + j > 1
      BY <1>1, <2>3
    <2> QED
      BY <2>1, <2>2, <2>4
  <1>8. Ordered(c) /\ \A i \in 1 .. Len(c) : Fits(b, n, c[i])
    <2>1. SUFFICES ASSUME NEW i \in 1 .. Len(c)
                   PROVE  /\ Fits(b, n, c[i])
                          /\ c[i].op \in Timed => i + 1 <= Len(c) /\ c[i + 1].op = "barrier"
                          /\ c[i].op = "reopen" => i > 1 /\ c[i - 1].op = "reset"
      BY DEF Ordered
    <2>2. CASE i \in 1 .. Len(s)
      BY <1>6, <2>2
    <2>3. CASE i \notin 1 .. Len(s)
      <3>1. PICK j \in 1 .. Len(t) : i = Len(s) + j
        BY <1>5, <2>3
      <3> QED
        BY <1>7, <3>1
    <2> QED
      BY <2>2, <2>3
  <1> QED
    BY <1>2, <1>8 DEF Proper, c

\* The batches of data.c are proper.
LEMMA BatchesProper ==
  ASSUME NEW op \in {"write", "read"}, NEW n \in Nat
  PROVE  Proper("data", n, Batches(op, n))
  <1> DEFINE m == (n + Batch - 1) \div Batch
             s == Batches(op, n)
  <1>1. m \in Nat
    <2>1. Batch \in Nat \ {0} /\ n + Batch - 1 \in Nat
      BY BoundsAssumption
    <2> QED
      BY <2>1, SMT
  <1>2. s \in Seq(Step)
    BY BatchesType DEF Ops
  <1>3. /\ s = [x \in 1 .. 2 * m |->
                  IF x % 2 = 1 THEN Loop(op, BatchEnd((x + 1) \div 2, n)) ELSE Barrier]
        /\ Len(s) = 2 * m
    BY <1>1 DEF Batches
  <1> HIDE DEF m, s
  <1>4. ASSUME NEW i \in 1 .. 2 * m
        PROVE  /\ Fits("data", n, s[i])
               /\ s[i].op \in Timed => i + 1 <= 2 * m /\ s[i + 1].op = "barrier"
               /\ s[i].op # "reopen"
    <2>1. s[i] = IF i % 2 = 1 THEN Loop(op, BatchEnd((i + 1) \div 2, n)) ELSE Barrier
      BY <1>3
    <2>2. CASE i % 2 = 1
      <3>1. (i + 1) \div 2 \in Nat
        BY <1>1, SMT
      <3>2. ((i + 1) \div 2) * Batch \in Nat
        BY <3>1, BoundsAssumption, SMT
      <3>3. BatchEnd((i + 1) \div 2, n) \in 0 .. n
        BY <3>2 DEF BatchEnd
      <3>4. i + 1 \in 1 .. 2 * m /\ (i + 1) % 2 # 1
        BY <1>1, <2>2, SMT
      <3>5. s[i + 1] = Barrier
        BY <1>3, <3>4
      <3>6. s[i].op = op /\ s[i].upto \in 0 .. n
        BY <2>1, <2>2, <3>3 DEF Loop
      <3> QED
        BY <3>4, <3>5, <3>6 DEF Fits, Barrier, Plain
    <2>3. CASE i % 2 # 1
      BY <2>1, <2>3 DEF Fits, Barrier, Plain, Timed
    <2> QED
      BY <2>2, <2>3
  <1>5. Ordered(s) /\ \A i \in 1 .. Len(s) : Fits("data", n, s[i])
    BY <1>3, <1>4 DEF Ordered
  <1> QED
    BY <1>2, <1>5 DEF Proper, s

\* The script of a thread is proper.
LEMMA ScriptProper ==
  ASSUME bench \in {"metadata", "data"}, count \in Counts
  PROVE  Proper(bench, count, Script)
  <1>1. count \in Nat
    BY BoundsAssumption
  <1>2. Proper("metadata", count, MetadataScript(count))
    <2>1. MetadataScript(count) \in Seq(Step) /\ Len(MetadataScript(count)) = 18
      BY <1>1 DEF MetadataScript, Plain, Loop, Barrier, Step, Ops
    <2>2. Ordered(MetadataScript(count))
      BY <1>1 DEF MetadataScript, Plain, Loop, Barrier, Ordered, Timed
    <2>3. \A i \in 1 .. Len(MetadataScript(count)) :
            Fits("metadata", count, MetadataScript(count)[i])
      BY <1>1 DEF MetadataScript, Plain, Loop, Barrier, Fits
    <2> QED
      BY <2>1, <2>2, <2>3 DEF Proper
  <1>3. Proper("data", count, DataScript(count))
    <2> DEFINE a == << Barrier, Plain("make"), Barrier, Plain("reset"), Plain("reopen") >>
               c == << Barrier, Plain("command"), Barrier, Plain("reset"), Plain("reopen") >>
               e == << Plain("remove") >>
    <2>1. Proper("data", count, a) /\ Proper("data", count, c) /\ Proper("data", count, e)
      <3>1. a \in Seq(Step) /\ c \in Seq(Step) /\ e \in Seq(Step)
        BY DEF Plain, Barrier, Step, Ops
      <3>2. Ordered(a) /\ Ordered(c) /\ Ordered(e)
        BY DEF Plain, Barrier, Ordered, Timed
      <3>3. /\ \A i \in 1 .. Len(a) : Fits("data", count, a[i])
            /\ \A i \in 1 .. Len(c) : Fits("data", count, c[i])
            /\ \A i \in 1 .. Len(e) : Fits("data", count, e[i])
        BY <1>1 DEF Plain, Barrier, Fits
      <3> HIDE DEF a, c, e
      <3> QED
        BY <3>1, <3>2, <3>3 DEF Proper
    <2>2. /\ Proper("data", count, Batches("write", count))
          /\ Proper("data", count, Batches("read", count))
      BY <1>1, BatchesProper
    <2> HIDE DEF a, c, e
    <2>3. Proper("data", count, a \o Batches("write", count) \o c
                                  \o Batches("read", count) \o e)
      BY <1>1, <2>1, <2>2, ProperConcat
    <2> QED
      BY <2>3 DEF DataScript, a, c, e
  <1>4. Script = IF bench = "metadata" THEN MetadataScript(count) ELSE DataScript(count)
    BY DEF Script, Scripts
  <1> QED
    BY <1>2, <1>3, <1>4

\* Places of one round are not separated by a barrier.
LEMMA RoundBarrier ==
  ASSUME bench \in {"metadata", "data"}, count \in Counts,
         NEW i \in 1 .. Len(Script) + 1, NEW j \in 1 .. Len(Script) + 1,
         Round(i) = Round(j), NEW l \in 1 .. Len(Script), i <= l, l < j
  PROVE  Script[l].op # "barrier"
  <1> DEFINE B(x) == {y \in 1 .. x - 1 : Script[y].op = "barrier"}
  <1>1. Len(Script) \in Nat
    BY ScriptType
  <1>2. \A x \in 1 .. Len(Script) + 1 : Round(x) = Cardinality(B(x))
    BY DEF Round, Rounds, Script
  <1>3. SUFFICES ASSUME Script[l].op = "barrier" PROVE FALSE
    OBVIOUS
  <1>4. IsFiniteSet(B(j)) /\ IsFiniteSet(B(i))
    <2>1. IsFiniteSet(1 .. j - 1) /\ IsFiniteSet(1 .. i - 1)
      <3>1. 1 \in Int /\ j - 1 \in Int /\ i - 1 \in Int
        BY <1>1
      <3> QED
        BY <3>1, FS_Interval, Zenon
    <2> QED
      BY <2>1, FS_Subset
  <1>5. B(i) \subseteq B(j) \ {l} /\ l \in B(j)
    BY <1>1, <1>3
  <1>6. IsFiniteSet(B(j) \ {l}) /\ Cardinality(B(j) \ {l}) = Cardinality(B(j)) - 1
    BY <1>4, <1>5, FS_RemoveElement
  <1>7. Cardinality(B(i)) <= Cardinality(B(j) \ {l})
    BY <1>5, <1>6, FS_Subset
  <1>8. Cardinality(B(i)) = Cardinality(B(j)) /\ Cardinality(B(j)) \in Nat
    BY <1>2, <1>4, FS_CardinalityType
  <1> QED
    BY <1>6, <1>7, <1>8

-----------------------------------------------------------------------------
(* The invariant *)

Statuses == {"none", "running", "waiting", "returned", "failed"}

\* The shapes of what decides where a thread is.
ShapeInv ==
  /\ bench \in {"metadata", "data"} /\ count \in Counts
  /\ team \in 1 .. MaxTeam
  /\ status \in [Tids -> Statuses]
  /\ at \in [Tids -> 1 .. Len(Script) + 1]
  /\ \A t \in Tids \ Team : status[t] = "none"

\* A thread that waits stands at a barrier.
WaitingInv ==
  \A t \in Tids : status[t] = "waiting" => at[t] <= Len(Script) /\ Here(t).op = "barrier"

\* Until the last thread of a team is spawned, the others have not passed the
\* first barrier, and of the team before nobody is left.
SpawnInv ==
  main = "spawn" =>
    /\ next \in Team
    /\ \A t \in Team : t >= next => status[t] = "none"
    /\ \A t \in Team : Active(t) => Round(at[t]) = 0

\* main has joined the threads before `next`.
JoinInv ==
  main = "join" =>
    /\ next \in Team
    /\ \A t \in Team : t < next => status[t] = "none"

IInv == ShapeInv /\ WaitingInv /\ SpawnInv /\ JoinInv /\ SameRound

\* The team is some of the threads, and at least one.
LEMMA TeamInTids == ASSUME ShapeInv PROVE Team \subseteq Tids /\ team \in Nat /\ team > 0
  BY BoundsAssumption DEF ShapeInv, Team, Tids

\* The initial states have the invariant.
LEMMA InitIInv == Init => IInv
  <1> SUFFICES ASSUME Init PROVE IInv
    OBVIOUS
  <1>1. ShapeInv
    <2>1. bench \in {"metadata", "data"} /\ count \in Counts
      BY DEF Init
    <2>2. Len(Script) \in Nat
      BY <2>1, ScriptType
    <2> QED
      BY <2>1, <2>2 DEF Init, ShapeInv, Statuses
  <1>2. \A t \in Tids : status[t] = "none"
    BY DEF Init
  <1>3. main = "spawn" /\ next = 0
    BY DEF Init
  <1>4. 0 \in Team
    BY <1>1, TeamInTids DEF Team
  <1> QED
    BY <1>1, <1>2, <1>3, <1>4, TeamInTids DEF IInv, WaitingInv, SpawnInv, JoinInv, SameRound, Active

\* A thread that moves on from a place that is no barrier stays in its round.
LEMMA MoveIInv ==
  ASSUME IInv, NEW t \in Tids,
         status[t] = "running", at[t] <= Len(Script), Here(t).op # "barrier",
         at' = [at EXCEPT ![t] = @ + 1],
         UNCHANGED <<options, process, status>>
  PROVE  IInv'
  <1> USE DEF IInv, ShapeInv
  <1>1. Script' = Script /\ Team' = Team /\ bench' = bench /\ count' = count
    BY DEF options, Script, Team
  <1>2. Len(Script) \in Nat
    BY ScriptType
  <1>3. at[t] \in 1 .. Len(Script)
    BY <1>2
  <1>4. Round(at[t] + 1) = Round(at[t])
    BY <1>3, RoundNext DEF Here
  <1>5. \A u \in Tids : Round(at[u])' = Round(at[u])
    <2> SUFFICES ASSUME NEW u \in Tids
                 PROVE  Rounds[bench][count][at'[u]] = Rounds[bench][count][at[u]]
      BY <1>1 DEF Round
    <2>1. CASE u = t
      BY <1>4, <2>1 DEF Round
    <2>2. CASE u # t
      BY <2>2
    <2> QED
      BY <2>1, <2>2
  <1>6. ShapeInv'
    BY <1>1, <1>2, <1>3 DEF options
  <1>7. WaitingInv'
    BY <1>1 DEF WaitingInv, Here
  <1>8. SpawnInv' /\ JoinInv' /\ SameRound'
    <2>1. Team \subseteq Tids
      BY TeamInTids
    <2>2. \A u \in Team : Round(at[u])' = Round(at[u]) /\ (Active(u)' <=> Active(u))
      BY <1>5, <2>1 DEF Active
    <2>3. main' = main /\ next' = next /\ status' = status
      BY DEF process
    <2>4. SpawnInv' /\ JoinInv'
      BY <1>1, <2>2, <2>3 DEF SpawnInv, JoinInv
    <2>5. SameRound'
      BY <1>1, <2>2 DEF SameRound
    <2> QED
      BY <2>4, <2>5
  <1> QED
    BY <1>6, <1>7, <1>8

\* A step that moves no thread and makes none active.
LEMMA RestIInv ==
  ASSUME IInv, UNCHANGED <<options, at>>,
         status' \in [Tids -> Statuses],
         \A u \in Tids : status'[u] \in {"running", "waiting"} => status'[u] = status[u],
         \A u \in Tids : status[u] = "none" => status'[u] = "none",
         main' \notin {"spawn", "join"} \/ UNCHANGED <<main, next>>
  PROVE  IInv'
  <1> USE DEF IInv, ShapeInv
  <1>1. Script' = Script /\ Team' = Team /\ bench' = bench /\ count' = count
    BY DEF options, Script, Team
  <1>2. Team \subseteq Tids
    BY TeamInTids
  <1>3. \A u \in Tids : Active(u)' => Active(u)
    BY DEF Active
  <1>4. ShapeInv'
    BY <1>1 DEF options
  <1>5. WaitingInv'
    BY <1>1 DEF WaitingInv, Here
  <1>6. SpawnInv' /\ JoinInv'
    BY <1>1, <1>2, <1>3 DEF SpawnInv, JoinInv, Round
  <1>7. SameRound'
    BY <1>1, <1>2, <1>3 DEF SameRound, Round
  <1> QED
    BY <1>4, <1>5, <1>6, <1>7

-----------------------------------------------------------------------------
(* The steps of a thread *)

\* A thread that fails preserves it.
LEMMA FailIInv ==
  ASSUME IInv, NEW t \in Tids, Fail(t), status[t] = "running", UNCHANGED options
  PROVE  IInv'
  <1>1. CASE bench = "metadata"
    <2>1. status' = [status EXCEPT ![t] = "failed"] /\ UNCHANGED <<process, at>>
      BY <1>1 DEF Fail
    <2>2. status \in [Tids -> Statuses]
      BY DEF IInv, ShapeInv
    <2>3. status' \in [Tids -> Statuses]
      BY <2>1, <2>2 DEF Statuses
    <2> QED
      BY <2>1, <2>2, <2>3, RestIInv DEF process
  <1>2. CASE bench # "metadata"
    <2>1. main' = "aborted" /\ UNCHANGED <<status, at>>
      BY <1>2 DEF Fail
    <2> QED
      BY <2>1, RestIInv DEF IInv, ShapeInv
  <1> QED
    BY <1>1, <1>2

\* The last thread to arrive finds the whole team at a barrier; they all enter
\* the next round.
LEMMA WaitIInv == ASSUME IInv, NEW t \in Team, Wait(t) PROVE IInv'
  <1> USE DEF IInv, ShapeInv
  <1>1. /\ Script' = Script /\ Team' = Team /\ bench' = bench /\ count' = count
        /\ main' = main /\ next' = next /\ team' = team
    BY DEF Wait, options, process, Script, Team
  <1>2. Len(Script) \in Nat /\ Team \subseteq Tids
    BY ScriptType, TeamInTids
  <1>3. /\ status[t] = "running" /\ at[t] \in 1 .. Len(Script)
        /\ Here(t).op = "barrier"
    BY <1>2 DEF Wait, Runs
  <1>4. CASE OthersWait(t)
    <2>1. /\ status' = [u \in Tids |-> IF status[u] = "waiting" THEN "running" ELSE status[u]]
          /\ at' = [u \in Tids |-> IF u = t \/ status[u] = "waiting" THEN at[u] + 1 ELSE at[u]]
      BY <1>4 DEF Wait
    <2>2. \A u \in Tids : u = t \/ status[u] = "waiting" =>
            at[u] \in 1 .. Len(Script) /\ Here(u).op = "barrier"
      BY <1>2, <1>3 DEF WaitingInv
    <2>3. ShapeInv'
      <3>1. status' \in [Tids -> Statuses]
        BY <2>1 DEF Statuses
      <3>2. at' \in [Tids -> 1 .. Len(Script) + 1]
        BY <1>2, <2>1, <2>2
      <3>3. \A u \in Tids \ Team : status'[u] = "none"
        BY <2>1
      <3> QED
        BY <1>1, <3>1, <3>2, <3>3
    <2>4. WaitingInv'
      BY <2>1 DEF WaitingInv
    <2>5. main # "spawn"
      <3> SUFFICES ASSUME main = "spawn" PROVE FALSE
        OBVIOUS
      <3>1. next \in Team /\ status[next] = "none"
        BY TeamInTids DEF SpawnInv, Team
      <3> QED
        BY <1>3, <1>4, <3>1 DEF OthersWait
    <2>6. JoinInv'
      BY <1>1, <1>2, <2>1, <1>4, <1>3, TeamInTids DEF JoinInv, OthersWait
    <2>7. SameRound'
      <3>1. \A u \in Team : Active(u) /\ (u = t \/ status[u] = "waiting")
        BY <1>3, <1>4 DEF OthersWait, Active
      <3>2. \A u \in Team : Round(at[u])' = Round(at[u]) + 1
        <4> SUFFICES ASSUME NEW u \in Team
                     PROVE  Rounds[bench][count][at'[u]] = Rounds[bench][count][at[u]] + 1
          BY <1>1 DEF Round
        <4>1. at[u] \in 1 .. Len(Script) /\ Script[at[u]].op = "barrier"
          BY <1>2, <2>2, <3>1 DEF Here
        <4>2. at'[u] = at[u] + 1
          BY <1>2, <2>1, <3>1
        <4> QED
          BY <4>1, <4>2, RoundNext DEF Round
      <3>3. \A u, v \in Team : Round(at[u]) = Round(at[v])
        BY <3>1 DEF SameRound
      <3> QED
        BY <1>1, <3>2, <3>3 DEF SameRound
    <2> QED
      BY <1>1, <2>3, <2>4, <2>5, <2>6, <2>7 DEF SpawnInv
  <1>5. CASE ~OthersWait(t)
    <2>1. status' = [status EXCEPT ![t] = "waiting"] /\ at' = at
      BY <1>5 DEF Wait
    <2>2. ShapeInv'
      BY <1>1, <1>2, <2>1 DEF Statuses
    <2>3. WaitingInv'
      BY <1>1, <1>2, <1>3, <2>1 DEF WaitingInv, Here
    <2>4. \A u \in Team : (Active(u)' <=> Active(u)) /\ (status[u] = "none" => status'[u] = "none")
      BY <1>2, <1>3, <2>1 DEF Active
    <2>5. SpawnInv' /\ JoinInv' /\ SameRound'
      BY <1>1, <2>1, <2>4 DEF SpawnInv, JoinInv, SameRound, Round
    <2> QED
      BY <2>2, <2>3, <2>5
  <1> QED
    BY <1>4, <1>5

\* The steps that go on to the next place.
Moves(t) ==
  /\ status[t] = "running" /\ at[t] <= Len(Script) /\ Here(t).op # "barrier"
  /\ Advance(t)
  /\ UNCHANGED options

\* The steps within a loop.
Stays(t) == UNCHANGED <<options, process, status, at>>

Stops(t) == Fail(t) /\ status[t] = "running" /\ UNCHANGED options

\* A step waits, returns, moves on, stays or stops.
LEMMA StepKinds ==
  ASSUME NEW t \in Tids, ThreadStep(t)
  PROVE  Wait(t) \/ Return(t) \/ Moves(t) \/ Stays(t) \/ Stops(t)
  <1>1. CASE Wait(t)
    BY <1>1
  <1>2. CASE Command(t)
    BY <1>2 DEF Command, Runs, Moves
  <1>3. CASE Skip(t)
    BY <1>3 DEF Skip, Runs, Moves
  <1>4. CASE MakeDirectory(t)
    BY <1>4 DEF MakeDirectory, Runs, Moves, Fails, Stops
  <1>5. CASE RemoveDirectory(t)
    BY <1>5 DEF RemoveDirectory, Runs, Moves, Fails, Stops
  <1>6. CASE Operate(t)
    BY <1>6 DEF Operate, Runs, Stays, Fails, Stops
  <1>7. CASE OperationsOver(t)
    BY <1>7 DEF OperationsOver, Runs, Moves
  <1>8. CASE MakeFile(t)
    BY <1>8 DEF MakeFile, Runs, Moves
  <1>9. CASE Reset(t)
    BY <1>9 DEF Reset, Runs, Moves
  <1>10. CASE Reopen(t)
    BY <1>10 DEF Reopen, Runs, Moves, Fails, Stops
  <1>11. CASE Transfer(t)
    BY <1>11 DEF Transfer, Runs, Stays, Fails, Stops
  <1>12. CASE BatchOver(t)
    BY <1>12 DEF BatchOver, Runs, Moves
  <1>13. CASE RemoveFile(t)
    BY <1>13 DEF RemoveFile, Runs, Moves
  <1>14. CASE Return(t)
    BY <1>14
  <1> QED
    BY <1>1, <1>2, <1>3, <1>4, <1>5, <1>6, <1>7, <1>8, <1>9, <1>10, <1>11, <1>12, <1>13,
       <1>14 DEF ThreadStep

\* A step of a thread preserves it.
LEMMA ThreadIInv == ASSUME IInv, NEW t \in Tids, ThreadStep(t) PROVE IInv'
  <1>1. CASE Wait(t)
    <2>1. t \in Team
      BY <1>1 DEF Wait, Runs, IInv, ShapeInv
    <2> QED
      BY <1>1, <2>1, WaitIInv
  <1>2. CASE Return(t)
    <2>1. status' = [status EXCEPT ![t] = "returned"] /\ status[t] = "running"
          /\ UNCHANGED <<options, process, at>>
      BY <1>2 DEF Return
    <2>2. status \in [Tids -> Statuses]
      BY DEF IInv, ShapeInv
    <2>3. status' \in [Tids -> Statuses]
      BY <2>1, <2>2 DEF Statuses
    <2> QED
      BY <2>1, <2>2, <2>3, RestIInv DEF process
  <1>3. CASE Moves(t)
    BY <1>3, MoveIInv DEF Moves, Advance
  <1>4. CASE Stays(t)
    BY <1>4, RestIInv DEF Stays, IInv, ShapeInv, process
  <1>5. CASE Stops(t)
    BY <1>5, FailIInv DEF Stops
  <1> QED
    BY <1>1, <1>2, <1>3, <1>4, <1>5, StepKinds

-----------------------------------------------------------------------------
(* The steps of main *)

\* Nobody is left of the last team, or the threads before `next` are in their
\* first round; the new thread is there, too.
LEMMA SpawnIInv == ASSUME IInv, Spawn PROVE IInv'
  <1> USE DEF IInv, ShapeInv
  <1>1. /\ Script' = Script /\ Team' = Team /\ bench' = bench /\ count' = count
        /\ team' = team /\ main = "spawn"
    BY DEF Spawn, options, Script, Team
  <1>2. Len(Script) \in Nat /\ Team \subseteq Tids /\ team \in Nat /\ team > 0
    BY ScriptType, TeamInTids
  <1>3. next \in Team /\ next \in Nat /\ next < team
    BY <1>1, <1>2 DEF SpawnInv, Team
  <1>4. /\ status' = [status EXCEPT ![next] = "running"]
        /\ at' = [at EXCEPT ![next] = 1]
    BY DEF Spawn
  <1>5. ShapeInv'
    BY <1>1, <1>2, <1>3, <1>4 DEF Statuses
  <1>6. WaitingInv'
    BY <1>1, <1>4 DEF WaitingInv, Here
  <1>7. \A t \in Team : Active(t)' => Round(at[t])' = 0
    <2> SUFFICES ASSUME NEW t \in Team, Active(t)'
                 PROVE  Rounds[bench][count][at'[t]] = 0
      BY <1>1 DEF Round
    <2>1. CASE t = next
      BY <2>1, <1>2, <1>3, <1>4, RoundNext DEF Round
    <2>2. CASE t # next
      BY <2>2, <1>1, <1>2, <1>3, <1>4 DEF SpawnInv, Active, Round
    <2> QED
      BY <2>1, <2>2
  <1>8. SameRound'
    BY <1>1, <1>7 DEF SameRound
  <1>9. SpawnInv'
    <2> SUFFICES ASSUME main' = "spawn"
                 PROVE  next' \in Team /\ \A t \in Team : t >= next' => status'[t] = "none"
      BY <1>1, <1>7 DEF SpawnInv
    <2>1. next' = next + 1 /\ next + 1 # team
      BY DEF Spawn, Last
    <2>2. next' \in Team
      BY <2>1, <1>2, <1>3 DEF Team
    <2>3. ASSUME NEW t \in Team, t >= next' PROVE status'[t] = "none"
      <3>1. t >= next /\ t # next
        BY <2>1, <2>3, <1>2, <1>3 DEF Team
      <3> QED
        BY <3>1, <1>1, <1>2, <1>4 DEF SpawnInv
    <2> QED
      BY <2>2, <2>3
  <1>10. JoinInv'
    <2>1. main' = "join" => next' = 0
      BY <1>1 DEF Spawn
    <2> QED
      BY <2>1, <1>1, <1>2 DEF JoinInv, Team
  <1> QED
    BY <1>5, <1>6, <1>8, <1>9, <1>10

\* Joining a thread preserves it.
LEMMA JoinIInv == ASSUME IInv, Join PROVE IInv'
  <1> USE DEF IInv, ShapeInv
  <1>1. /\ Script' = Script /\ Team' = Team /\ bench' = bench /\ count' = count
        /\ team' = team /\ main = "join" /\ at' = at
    BY DEF Join, options, Script, Team
  <1>2. Team \subseteq Tids /\ team \in Nat /\ team > 0
    BY TeamInTids
  <1>3. next \in Team /\ next \in Nat /\ next < team
    BY <1>1, <1>2 DEF JoinInv, Team
  <1>4. CASE status[next] = "failed"
    <2>1. main' = "destroy" /\ UNCHANGED <<status, at, options>>
      BY <1>4 DEF Join
    <2> QED
      BY <2>1, RestIInv
  <1>5. CASE status[next] = "returned"
    <2>1. status' = [status EXCEPT ![next] = "none"]
      BY <1>5 DEF Join
    <2>2. ShapeInv' /\ WaitingInv'
      BY <1>1, <1>3, <1>2, <2>1 DEF WaitingInv, Here, Statuses
    <2>3. \A t \in Team : Active(t)' => Active(t)
      BY <1>2, <2>1 DEF Active
    <2>4. SameRound'
      BY <1>1, <2>3 DEF SameRound, Round
    <2>5. \A t \in Team : t <= next => status'[t] = "none"
      <3> SUFFICES ASSUME NEW t \in Team, t <= next PROVE status'[t] = "none"
        OBVIOUS
      <3>1. CASE t = next
        BY <3>1, <1>2, <1>3, <2>1
      <3>2. CASE t < next
        BY <3>2, <1>1, <1>2, <2>1 DEF JoinInv
      <3> QED
        BY <3>1, <3>2, <1>2, <1>3 DEF Team
    <2>6. CASE Last
      <3>1. next' = 0 /\ main' # "join"
        BY <2>6, <1>5 DEF Join
      <3>2. \A t \in Team : status'[t] = "none"
        BY <2>5, <2>6, <1>2, <1>3 DEF Last, Team
      <3>3. SpawnInv'
        BY <3>1, <3>2, <1>1, <1>2 DEF SpawnInv, Active, Team
      <3> QED
        BY <2>2, <2>4, <3>1, <3>3 DEF JoinInv
    <2>7. CASE ~Last
      <3>1. next' = next + 1 /\ main' = "join"
        BY <2>7, <1>1, <1>5 DEF Join
      <3>2. next' \in Team
        BY <3>1, <2>7, <1>2, <1>3 DEF Team, Last
      <3>3. \A t \in Team : t < next' => status'[t] = "none"
        BY <3>1, <2>5, <1>2, <1>3 DEF Team
      <3> QED
        BY <2>2, <2>4, <3>1, <3>2, <3>3, <1>1 DEF JoinInv, SpawnInv
    <2> QED
      BY <2>6, <2>7
  <1> QED
    BY <1>4, <1>5 DEF Join

\* Every step preserves it.
LEMMA NextIInv == IInv /\ [Next]_vars => IInv'
  <1> SUFFICES ASSUME IInv, [Next]_vars PROVE IInv'
    OBVIOUS
  <1>1. CASE Spawn
    BY <1>1, SpawnIInv
  <1>2. CASE Join
    BY <1>2, JoinIInv
  <1>3. CASE DestroyBarrier
    <2>1. main' \notin {"spawn", "join"} /\ UNCHANGED <<options, at, status>>
      BY <1>3 DEF DestroyBarrier, threads
    <2> QED
      BY <2>1, RestIInv DEF IInv, ShapeInv
  <1>4. CASE \E t \in Tids : ThreadStep(t)
    BY <1>4, ThreadIInv
  <1>5. CASE UNCHANGED vars
    <2>1. UNCHANGED <<options, at, status, main, next>>
      BY <1>5 DEF vars, threads, process
    <2> QED
      BY <2>1, RestIInv DEF IInv, ShapeInv
  <1> QED
    BY <1>1, <1>2, <1>3, <1>4, <1>5 DEF Next, MainStep

-----------------------------------------------------------------------------
(* The types.  The offset that a thread computes from its generator is one *)
(* of the blocks of the file, for no phase draws more than there are.      *)

\* No more was drawn than the loop has done, and nothing when a file is opened
\* again: reset_rand comes first.
DrawnInv ==
  /\ bench = "metadata" => ~random
  /\ \A t \in Tids :
       /\ drawn[t] <= done[t]
       /\ ~random => drawn[t] = 0
       /\ at[t] <= Len(Script) /\ Here(t).op = "reopen" => drawn[t] = 0

IterationInv == main \in {"spawn", "join"} => iteration <= iterations

TypeInv == TypeOK /\ DrawnInv /\ IterationInv

\* What a step of a thread leaves alone, and the step of the script it is at.
LEMMA ThreadFacts ==
  ASSUME ShapeInv, TypeInv, NEW t \in Tids, ThreadStep(t)
  PROVE  /\ t \in Team /\ Team \subseteq Tids /\ Owner(t) \in Tids /\ Owner(t) \in Team
         /\ UNCHANGED <<options, littered, iteration, next>>
         /\ Script' = Script /\ Team' = Team /\ Len(Script) \in Nat
         /\ count \in Nat /\ team \in Nat \ {0} /\ MaxFaults \in Nat
         /\ Proper(bench, count, Script)
         /\ at[t] \in 1 .. Len(Script) + 1
         /\ at[t] <= Len(Script) => at[t] \in 1 .. Len(Script) /\ Here(t) \in Step
         /\ main \in {"spawn", "join", "destroy", "stuck"} /\ main' \in {main, "aborted"}
  <1>1. UNCHANGED <<options, littered, iteration, next>>
    BY DEF ThreadStep, Wait, Command, Skip, MakeDirectory, RemoveDirectory, Operate,
           OperationsOver, MakeFile, Reset, Reopen, Transfer, BatchOver, RemoveFile,
           Return, Fails, Fail, Advance, process
  <1>2. main' \in {main, "aborted"}
    BY DEF ThreadStep, Wait, Command, Skip, MakeDirectory, RemoveDirectory, Operate,
           OperationsOver, MakeFile, Reset, Reopen, Transfer, BatchOver, RemoveFile,
           Return, Fails, Fail, Advance, process
  <1>3. status[t] = "running" /\ ~Over
    BY DEF ThreadStep, Wait, Command, Skip, MakeDirectory, RemoveDirectory, Operate,
           OperationsOver, MakeFile, Reset, Reopen, Transfer, BatchOver, RemoveFile,
           Return, Runs
  <1>4. t \in Team
    BY <1>3 DEF ShapeInv
  <1>5. /\ bench \in {"metadata", "data"} /\ count \in Counts
        /\ Team \subseteq Tids /\ team \in Nat \ {0}
    BY TeamInTids DEF ShapeInv
  <1>6. Owner(t) \in Team
    BY <1>4, <1>5 DEF Owner, Team
  <1>7. /\ Len(Script) \in Nat /\ Script \in Seq(Step) /\ Proper(bench, count, Script)
        /\ at[t] \in 1 .. Len(Script) + 1
    BY <1>5, ScriptType, ScriptProper DEF ShapeInv
  <1>8. at[t] <= Len(Script) => at[t] \in 1 .. Len(Script) /\ Here(t) \in Step
    BY <1>7, ElementOfSeq DEF Here
  <1>9. Script' = Script /\ Team' = Team
    BY <1>1 DEF options, Script, Team
  <1>10. main \in {"spawn", "join", "destroy", "stuck"}
    BY <1>3 DEF TypeInv, TypeOK, Over
  <1>11. count \in Nat /\ MaxFaults \in Nat
    BY <1>5, BoundsAssumption
  <1> QED
    BY <1>1, <1>2, <1>4, <1>5, <1>6, <1>7, <1>8, <1>9, <1>10, <1>11

\* How far a step takes a thread in its loop and in its generator.
LoopKept(t) ==
  UNCHANGED <<done, drawn>>
    /\ (at' = at \/ (at[t] <= Len(Script) /\ Here(t).op # "reset"))
LoopOn(t) ==
  /\ done' = [done EXCEPT ![t] = @ + 1]
  /\ at[t] <= Len(Script) /\ done[t] < Here(t).upto /\ Here(t).op # "reopen"
  /\ drawn' = [drawn EXCEPT ![t] = IF random THEN @ + 1 ELSE @] \/ drawn' = drawn
  /\ UNCHANGED at
LoopOver(t) ==
  /\ done' = [done EXCEPT ![t] = 0] /\ UNCHANGED drawn
  /\ at[t] <= Len(Script)
  /\ Here(t).op \in {"create", "open", "stat", "unlink", "reopen"}
DrawnOver(t) ==
  /\ drawn' = [drawn EXCEPT ![t] = 0] /\ UNCHANGED done
  /\ at[t] <= Len(Script) /\ Here(t).op = "reset"

\* A step leaves the loop counters, counts on, or starts a loop anew.
LEMMA LoopStep ==
  ASSUME NEW t \in Tids, ThreadStep(t)
  PROVE  LoopKept(t) \/ LoopOn(t) \/ LoopOver(t) \/ DrawnOver(t)
  <1>1. ASSUME Fails(t, TRUE) \/ Fails(t, FALSE) PROVE LoopKept(t)
    BY <1>1 DEF Fails, Fail, LoopKept
  <1>2. CASE Wait(t) \/ Command(t) \/ Skip(t) \/ MakeFile(t) \/ RemoveFile(t) \/ BatchOver(t)
    BY <1>2 DEF Wait, Command, Skip, MakeFile, RemoveFile, BatchOver, Runs, Advance, LoopKept
  <1>3. CASE MakeDirectory(t) \/ RemoveDirectory(t)
    BY <1>3 DEF MakeDirectory, RemoveDirectory, Runs, Fails, Fail, LoopKept
  <1>4. CASE Operate(t)
    BY <1>4 DEF Operate, Runs, Fails, Fail, LoopKept, LoopOn
  <1>5. CASE OperationsOver(t)
    BY <1>5 DEF OperationsOver, Runs, LoopOver
  <1>6. CASE Reset(t)
    BY <1>6 DEF Reset, ResetRand, Runs, DrawnOver
  <1>7. CASE Reopen(t)
    BY <1>7 DEF Reopen, Runs, Fails, Fail, LoopKept, LoopOver
  <1>8. CASE Transfer(t)
    BY <1>8 DEF Transfer, Runs, Fails, Fail, LoopKept, LoopOn
  <1>9. CASE Return(t)
    BY <1>9 DEF Return, LoopKept
  <1> QED
    BY <1>2, <1>3, <1>4, <1>5, <1>6, <1>7, <1>8, <1>9 DEF ThreadStep

\* The loop counters stay within their loops.
LEMMA LoopType ==
  ASSUME ShapeInv, TypeInv, NEW t \in Tids, ThreadStep(t)
  PROVE  done' \in [Tids -> 0 .. count] /\ drawn' \in [Tids -> Nat]
  <1>1. done \in [Tids -> 0 .. count] /\ drawn \in [Tids -> Nat] /\ count \in Nat
    BY ThreadFacts DEF TypeInv, TypeOK
  <1>2. ASSUME LoopOn(t) PROVE done[t] + 1 \in 0 .. count
    <2>1. at[t] \in 1 .. Len(Script) /\ done[t] < Here(t).upto
      BY <1>2, ThreadFacts DEF LoopOn
    <2>2. Here(t).upto \in 0 .. count
      BY <2>1, ThreadFacts DEF Proper, Fits, Here
    <2> QED
      BY <1>1, <2>1, <2>2
  <1>3. CASE LoopKept(t)
    BY <1>1, <1>3 DEF LoopKept
  <1>4. CASE LoopOn(t)
    BY <1>1, <1>2, <1>4 DEF LoopOn
  <1>5. CASE LoopOver(t)
    BY <1>1, <1>5 DEF LoopOver
  <1>6. CASE DrawnOver(t)
    BY <1>1, <1>6 DEF DrawnOver
  <1> QED
    BY <1>3, <1>4, <1>5, <1>6, LoopStep

\* get_offset stays within the blocks of the file.
LEMMA OffsetBelow ==
  ASSUME ShapeInv, TypeInv, NEW t \in Tids, ThreadStep(t),
         at[t] <= Len(Script), done[t] < Here(t).upto
  PROVE  Offset(t) \in 0 .. count * team - 1
  <1> DEFINE i == IF random THEN draw[drawn[t] + 1] % count ELSE done[t]
  <1>1. /\ done[t] \in Nat /\ drawn[t] \in Nat /\ drawn[t] <= done[t]
        /\ draw \in Draws /\ count \in Counts
    BY ThreadFacts DEF TypeInv, TypeOK, DrawnInv
  <1>2. count \in Nat /\ team \in Nat \ {0} /\ t \in 0 .. team - 1
    BY ThreadFacts DEF Team
  <1>3. done[t] < count
    <2>1. Here(t).upto \in 0 .. count
      BY ThreadFacts DEF Proper, Fits, Here
    <2> QED
      BY <1>1, <1>2, <2>1
  <1>4. i \in 0 .. count - 1
    <2>1. CASE random
      <3>1. draw \in Seq(Nat) /\ Len(draw) >= count
        BY <1>1, BoundsAssumption
      <3>2. drawn[t] + 1 \in 1 .. Len(draw)
        BY <1>1, <1>2, <1>3, <3>1
      <3>3. draw[drawn[t] + 1] \in Nat
        BY <3>1, <3>2, ElementOfSeq
      <3>4. count \in Nat \ {0}
        BY <1>1, <1>2, <1>3
      <3>5. draw[drawn[t] + 1] % count \in 0 .. count - 1
        BY <3>3, <3>4, SMT
      <3> QED
        BY <2>1, <3>5
    <2>2. CASE ~ random
      BY <1>1, <1>2, <1>3, <2>2
    <2> QED
      BY <2>1, <2>2
  <1>5. Offset(t) = IF shared THEN i * team + t ELSE i
    BY DEF Offset
  <1> HIDE DEF i
  <1>6. count \in Nat \ {0} /\ i \in Nat /\ i + 1 <= count
    BY <1>2, <1>4
  <1>7. /\ i * team \in Nat /\ i * team + team <= count * team
        /\ count <= count * team
    BY <1>2, <1>6, SMT
  <1> QED
    BY <1>2, <1>5, <1>6, <1>7

\* What the file system holds stays of its type.
LEMMA StorageType ==
  ASSUME ShapeInv, TypeInv, NEW t \in Tids, ThreadStep(t)
  PROVE  /\ dirs' \subseteq Tids /\ files' \subseteq [dir : Tids, of : Tids, index : Nat]
         /\ extent' \in [Tids -> 0 .. count * team]
         /\ faults' \in 0 .. MaxFaults
  <1>1. /\ dirs \subseteq Tids /\ files \subseteq [dir : Tids, of : Tids, index : Nat]
        /\ extent \in [Tids -> 0 .. count * team] /\ faults \in 0 .. MaxFaults
        /\ done[t] \in Nat
    <2>1. done \in [Tids -> 0 .. count] /\ count \in Nat
      BY ThreadFacts DEF TypeInv, TypeOK
    <2>2. done[t] \in Nat
      BY <2>1
    <2> QED
      BY <2>2, Zenon DEF TypeInv, TypeOK
  <1>2. Owner(t) \in Tids /\ MaxFaults \in Nat /\ 0 \in 0 .. count * team
    <2>1. count * team \in Nat
      BY ThreadFacts
    <2> QED
      BY <2>1, ThreadFacts
  <1>3. Object(t) \in [dir : Tids, of : Tids, index : Nat]
        /\ File(t) \in [dir : Tids, of : Tids, index : Nat]
    BY <1>1, <1>2 DEF Object, File
  <1>4. faults' \in 0 .. MaxFaults
    <2>1. faults' = faults \/ Inject
      BY DEF ThreadStep, Wait, Command, Skip, MakeDirectory, RemoveDirectory, Operate,
             OperationsOver, MakeFile, Reset, Reopen, Transfer, BatchOver, RemoveFile,
             Return, Fails
    <2> QED
      BY <1>1, <1>2, <2>1 DEF Inject
  <1>5. dirs' \subseteq dirs \cup {t}
    BY DEF ThreadStep, Wait, Command, Skip, MakeDirectory, RemoveDirectory, Operate,
           OperationsOver, MakeFile, Reset, Reopen, Transfer, BatchOver, RemoveFile,
           Return, Fails, Fail, storage
  <1>6. files' \subseteq files \cup {Object(t), File(t)}
    BY DEF ThreadStep, Wait, Command, Skip, MakeDirectory, RemoveDirectory, Operate,
           OperationsOver, MakeFile, Reset, Reopen, Transfer, BatchOver, RemoveFile,
           Return, Fails, Fail, storage
  <1>7. extent' \in [Tids -> 0 .. count * team]
    <2>1. CASE Transfer(t)
      <3>1. CASE UNCHANGED extent
        BY <1>1, <3>1
      <3>2. CASE ~ UNCHANGED extent
        <4>1. extent' = [extent EXCEPT ![Owner(t)] =
                           IF Here(t).op = "write" /\ Offset(t) >= @ THEN Offset(t) + 1 ELSE @]
              /\ at[t] <= Len(Script) /\ done[t] < Here(t).upto
          BY <2>1, <3>2 DEF Transfer, Fails, Fail, storage, Runs
        <4>2. Offset(t) + 1 \in 0 .. count * team
          <5>1. Offset(t) \in 0 .. count * team - 1 /\ count * team \in Nat
            BY <4>1, OffsetBelow, ThreadFacts
          <5> QED
            BY <5>1
        <4> QED
          BY <1>1, <1>2, <4>1, <4>2
      <3> QED
        BY <3>1, <3>2
    <2>2. CASE RemoveFile(t)
      BY <1>1, <1>2, <2>2 DEF RemoveFile
    <2>3. CASE ~ Transfer(t) /\ ~ RemoveFile(t)
      <3>1. extent' = extent
        BY <2>3 DEF ThreadStep, Wait, Command, Skip, MakeDirectory, RemoveDirectory, Operate,
               OperationsOver, MakeFile, Reset, Reopen, BatchOver, Return, Fails, Fail, storage
      <3> QED
        BY <1>1, <3>1
    <2> QED
      BY <2>1, <2>2, <2>3
  <1> QED
    BY <1>1, <1>3, <1>4, <1>5, <1>6, <1>7

\* A thread goes from place to place; the barrier alone moves others than itself.
LEMMA PlaceStep ==
  ASSUME IInv, NEW t \in Tids, ThreadStep(t), NEW u \in Tids, at'[u] # at[u]
  PROVE  /\ at'[u] = at[u] + 1 /\ at[u] \in 1 .. Len(Script)
         /\ u # t => Script[at[u]].op = "barrier"
  <1>1. /\ at \in [Tids -> 1 .. Len(Script) + 1] /\ Len(Script) \in Nat
        /\ bench \in {"metadata", "data"} /\ count \in Counts
    BY ScriptType DEF IInv, ShapeInv
  <1>2. CASE Wait(t)
    <2>1. /\ at'[u] = IF u = t \/ status[u] = "waiting" THEN at[u] + 1 ELSE at[u]
          /\ at[t] <= Len(Script)
      BY <1>1, <1>2 DEF Wait, Runs
    <2>2. status[u] = "waiting" => at[u] <= Len(Script) /\ Script[at[u]].op = "barrier"
      BY DEF IInv, WaitingInv, Here
    <2> QED
      BY <1>1, <2>1, <2>2
  <1>3. CASE Moves(t)
    <2>1. at' = [at EXCEPT ![t] = @ + 1] /\ at[t] <= Len(Script)
      BY <1>3 DEF Moves, Advance
    <2> QED
      BY <1>1, <2>1
  <1>4. CASE Return(t) \/ Stays(t) \/ Stops(t)
    BY <1>4 DEF Return, Stays, Stops, Fail
  <1> QED
    BY <1>2, <1>3, <1>4, StepKinds

\* A step of a thread preserves DrawnInv.
LEMMA DrawnStep ==
  ASSUME IInv, TypeInv, NEW t \in Tids, ThreadStep(t)
  PROVE  DrawnInv'
  <1>1. ShapeInv /\ UNCHANGED options /\ Script' = Script /\ Proper(bench, count, Script)
    BY ThreadFacts DEF IInv
  <1>2. bench' = bench /\ random' = random
    BY <1>1 DEF options
  <1>3. /\ done \in [Tids -> 0 .. count] /\ drawn \in [Tids -> Nat] /\ count \in Nat
        /\ at \in [Tids -> 1 .. Len(Script) + 1] /\ Len(Script) \in Nat
    BY <1>1, ThreadFacts DEF ShapeInv, TypeInv, TypeOK
  <1>4. /\ bench = "metadata" => ~ random
        /\ \A u \in Tids : /\ drawn[u] <= done[u] /\ drawn[u] \in Nat
                           /\ ~ random => drawn[u] = 0
                           /\ at[u] <= Len(Script) /\ Script[at[u]].op = "reopen" =>
                                drawn[u] = 0
    BY <1>3 DEF TypeInv, DrawnInv, Here
  <1>5. ASSUME NEW u \in Tids, at'[u] # at[u], at'[u] <= Len(Script),
               Script[at'[u]].op = "reopen"
        PROVE  u = t /\ Script[at[t]].op = "reset" /\ at[t] \in 1 .. Len(Script)
    <2>1. /\ at'[u] = at[u] + 1 /\ at[u] \in 1 .. Len(Script)
          /\ u # t => Script[at[u]].op = "barrier"
      BY <1>5, PlaceStep
    <2>2. at'[u] \in 1 .. Len(Script) /\ at'[u] - 1 = at[u]
      BY <1>3, <1>5, <2>1
    <2>3. Script[at[u]].op = "reset"
      BY <1>1, <1>5, <2>2 DEF Proper, Ordered
    <2> QED
      BY <2>1, <2>3
  <1>6. ASSUME NEW u \in Tids
        PROVE  /\ drawn'[u] <= done'[u]
               /\ ~ random => drawn'[u] = 0
               /\ at'[u] <= Len(Script) /\ Script[at'[u]].op = "reopen" => drawn'[u] = 0
    <2>1. CASE LoopKept(t)
      <3>1. drawn'[u] = drawn[u] /\ done'[u] = done[u]
        BY <2>1 DEF LoopKept
      <3>2. ASSUME at'[u] <= Len(Script), Script[at'[u]].op = "reopen" PROVE drawn[u] = 0
        BY <1>4, <1>5, <2>1, <3>2 DEF LoopKept, Here
      <3> QED
        BY <1>4, <3>1, <3>2
    <2>2. CASE LoopOn(t)
      <3>1. /\ u # t => drawn'[u] = drawn[u] /\ done'[u] = done[u]
            /\ done'[t] = done[t] + 1 /\ at' = at
            /\ drawn'[t] = drawn[t] \/ (random /\ drawn'[t] = drawn[t] + 1)
            /\ Script[at[t]].op # "reopen"
        BY <1>3, <2>2 DEF LoopOn, Here
      <3>2. done[t] \in Nat
        BY <1>3
      <3> QED
        BY <1>4, <3>1, <3>2
    <2>3. CASE LoopOver(t)
      <3>1. Script[at[t]].op # "reopen" => bench = "metadata"
        <4>1. at[t] \in 1 .. Len(Script)
          BY <1>3, <2>3 DEF LoopOver
        <4>2. bench \in {"metadata", "data"}
          BY <1>1 DEF ShapeInv
        <4> QED
          BY <1>1, <2>3, <4>1, <4>2 DEF LoopOver, Proper, Fits, Here
      <3>2. drawn[t] = 0
        BY <1>4, <2>3, <3>1 DEF LoopOver
      <3>3. drawn'[u] = drawn[u] /\ (u # t => done'[u] = done[u]) /\ done'[t] = 0
        BY <1>3, <2>3 DEF LoopOver
      <3>4. ASSUME at'[u] <= Len(Script), Script[at'[u]].op = "reopen" PROVE drawn[u] = 0
        BY <1>4, <1>5, <3>2, <3>4
      <3> QED
        BY <1>4, <3>2, <3>3, <3>4
    <2>4. CASE DrawnOver(t)
      <3>1. done'[u] = done[u] /\ (u # t => drawn'[u] = drawn[u]) /\ drawn'[t] = 0
        BY <1>3, <2>4 DEF DrawnOver
      <3>2. done[u] \in Nat
        BY <1>3
      <3>3. ASSUME at'[u] <= Len(Script), Script[at'[u]].op = "reopen" PROVE drawn'[u] = 0
        BY <1>4, <1>5, <3>1, <3>3
      <3> QED
        BY <1>4, <3>1, <3>2, <3>3
    <2> QED
      BY <2>1, <2>2, <2>3, <2>4, LoopStep
  <1> QED
    BY <1>1, <1>2, <1>4, <1>6 DEF DrawnInv, Here

\* The initial states are well typed.
LEMMA TypeInit == Init => TypeInv
  <1> SUFFICES ASSUME Init PROVE TypeInv
    OBVIOUS
  <1>1. ShapeInv
    BY InitIInv DEF IInv
  <1>2. /\ 0 \in Team /\ count \in Nat /\ team \in Nat /\ Len(Script) \in Nat
        /\ 0 \in 0 .. count /\ 0 \in 0 .. count * team /\ 0 \in 0 .. MaxFaults
        /\ iterations \in Nat \ {0}
    <2>1. count \in Nat /\ team \in Nat \ {0} /\ iterations \in Nat \ {0}
      BY <1>1, TeamInTids, BoundsAssumption DEF Init
    <2>2. count * team \in Nat
      BY <2>1
    <2>3. Len(Script) \in Nat
      BY <1>1, ScriptType DEF ShapeInv
    <2> QED
      BY <2>1, <2>2, <2>3, BoundsAssumption DEF Team
  <1>3. TypeOK
    <2>1. /\ done \in [Tids -> 0 .. count] /\ drawn \in [Tids -> Nat]
          /\ dirs \subseteq Tids /\ files \subseteq [dir : Tids, of : Tids, index : Nat]
          /\ extent \in [Tids -> 0 .. count * team] /\ faults \in 0 .. MaxFaults
          /\ littered \in BOOLEAN
      BY <1>2 DEF Init
    <2>2. next \in Team /\ iteration \in 1 .. iterations + 1
      BY <1>2 DEF Init
    <2>3. /\ bench \in {"metadata", "data"} /\ rmdir \in {"removes", "ignored"}
          /\ team \in 1 .. MaxTeam /\ iterations \in 1 .. MaxIterations
          /\ shared \in BOOLEAN /\ random \in BOOLEAN /\ count \in Counts /\ draw \in Draws
          /\ main \in {"spawn", "join", "destroy", "stuck", "ended", "failed", "aborted"}
      BY DEF Init
    <2> QED
      BY <1>1, <2>1, <2>2, <2>3, Zenon DEF TypeOK, ShapeInv, Statuses
  <1>4. DrawnInv /\ IterationInv
    BY <1>2 DEF Init, DrawnInv, IterationInv
  <1> QED
    BY <1>3, <1>4 DEF TypeInv

\* Every step preserves the types.
LEMMA TypeNext ==
  ASSUME IInv, IInv', TypeInv, [Next]_vars
  PROVE  TypeInv'
  <1>1. /\ ShapeInv /\ ShapeInv' /\ JoinInv /\ SpawnInv
        /\ TypeOK /\ DrawnInv /\ IterationInv
    BY DEF IInv, TypeInv
  <1>2. ASSUME NEW t \in Tids, ThreadStep(t) PROVE TypeInv'
    <2>1. /\ UNCHANGED <<options, littered, iteration, next>>
          /\ main \in {"spawn", "join", "destroy", "stuck"} /\ main' \in {main, "aborted"}
          /\ Team' = Team
      BY <1>1, <1>2, ThreadFacts
    <2>2. /\ done' \in [Tids -> 0 .. count] /\ drawn' \in [Tids -> Nat]
          /\ dirs' \subseteq Tids /\ files' \subseteq [dir : Tids, of : Tids, index : Nat]
          /\ extent' \in [Tids -> 0 .. count * team]
          /\ faults' \in 0 .. MaxFaults
      BY <1>1, <1>2, LoopType, StorageType
    <2>3. TypeOK'
      BY <1>1, <2>1, <2>2 DEF TypeOK, ShapeInv, Statuses, options
    <2>4. DrawnInv'
      BY <1>1, <1>2, DrawnStep
    <2>5. IterationInv'
      BY <1>1, <2>1 DEF IterationInv, options
    <2> QED
      BY <2>3, <2>4, <2>5 DEF TypeInv
  <1>3. CASE Spawn
    <2>1. /\ UNCHANGED <<options, iteration, storage, faults>>
          /\ done' = [done EXCEPT ![next] = 0] /\ drawn' = [drawn EXCEPT ![next] = 0]
          /\ at' = [at EXCEPT ![next] = 1]
          /\ main = "spawn" /\ main' \in {"spawn", "join"}
          /\ littered' = IF next = 0 THEN dirs # {} \/ files # {} ELSE littered
      BY <1>3 DEF Spawn
    <2>2. /\ bench' = bench /\ team' = team /\ iterations' = iterations /\ shared' = shared
          /\ random' = random /\ count' = count /\ draw' = draw /\ rmdir' = rmdir
          /\ Script' = Script /\ Team' = Team
      BY <2>1 DEF options, Script, Team
    <2>3. next \in Team /\ next' \in Team
      <3>1. IF Last THEN next' = 0 ELSE next' = next + 1
        BY <1>3 DEF Spawn
      <3>2. team \in Nat \ {0}
        BY <1>1, TeamInTids
      <3> QED
        BY <1>1, <3>1, <3>2 DEF TypeOK, Team, Last
    <2>4. done' \in [Tids -> 0 .. count] /\ drawn' \in [Tids -> Nat] /\ littered' \in BOOLEAN
      <3>1. done \in [Tids -> 0 .. count] /\ drawn \in [Tids -> Nat] /\ count \in Nat
        BY <1>1, BoundsAssumption DEF TypeOK
      <3>2. done' \in [Tids -> 0 .. count] /\ drawn' \in [Tids -> Nat]
        <4>1. done' = [done EXCEPT ![next] = 0] /\ drawn' = [drawn EXCEPT ![next] = 0]
          BY <2>1, Zenon
        <4>2. next \in Tids
          BY <1>1, <2>3, TeamInTids
        <4> QED
          BY <3>1, <4>1, <4>2
      <3>3. littered' \in BOOLEAN
        BY <1>1, <2>1, Zenon DEF TypeOK
      <3> QED
        BY <3>2, <3>3
    <2>5. TypeOK'
      BY <1>1, <2>1, <2>2, <2>3, <2>4 DEF TypeOK, ShapeInv, Statuses, storage
    <2>6. DrawnInv'
      <3>1. done \in [Tids -> 0 .. count] /\ drawn \in [Tids -> Nat]
            /\ at \in [Tids -> 1 .. Len(Script) + 1]
        BY <1>1 DEF TypeOK
      <3> QED
        BY <1>1, <2>1, <2>2, <3>1 DEF DrawnInv, Here
    <2>7. IterationInv'
      BY <1>1, <2>1, <2>2 DEF IterationInv
    <2> QED
      BY <2>5, <2>6, <2>7 DEF TypeInv
  <1>4. CASE Join
    <2>1. /\ UNCHANGED <<options, at, done, drawn, storage, faults, littered>>
          /\ main = "join"
      BY <1>4 DEF Join
    <2>2. /\ bench' = bench /\ team' = team /\ iterations' = iterations /\ shared' = shared
          /\ random' = random /\ count' = count /\ draw' = draw /\ rmdir' = rmdir
          /\ Script' = Script /\ Team' = Team
      BY <2>1 DEF options, Script, Team
    <2>3. /\ iteration \in 1 .. iterations /\ iterations \in Nat
          /\ next \in Team /\ team \in Nat \ {0}
      BY <1>1, <2>1, TeamInTids, BoundsAssumption DEF TypeOK, IterationInv
    <2>4. /\ next' \in Team /\ iteration' \in 1 .. iterations + 1
          /\ main' \in {"spawn", "join", "destroy", "ended"}
          /\ main' \in {"spawn", "join"} => iteration' <= iterations
      BY <1>4, <2>3 DEF Join, Last, Team
    <2>5. TypeOK'
      BY <1>1, <2>1, <2>2, <2>4 DEF TypeOK, ShapeInv, Statuses, storage
    <2>6. DrawnInv' /\ IterationInv'
      BY <1>1, <2>1, <2>2, <2>4 DEF DrawnInv, IterationInv, Here
    <2> QED
      BY <2>5, <2>6 DEF TypeInv
  <1>5. CASE DestroyBarrier \/ UNCHANGED vars
    <2>1. /\ UNCHANGED <<options, iteration, next, threads, storage, faults, littered>>
          /\ main' = main \/ main' \in {"failed", "stuck"}
      BY <1>5 DEF DestroyBarrier, vars, process
    <2>2. /\ bench' = bench /\ team' = team /\ iterations' = iterations /\ shared' = shared
          /\ random' = random /\ count' = count /\ draw' = draw /\ rmdir' = rmdir
          /\ Script' = Script /\ Team' = Team
      BY <2>1 DEF options, Script, Team
    <2>3. TypeOK'
      BY <1>1, <2>1, <2>2 DEF TypeOK, threads, storage
    <2>4. DrawnInv' /\ IterationInv'
      BY <1>1, <2>1, <2>2 DEF DrawnInv, IterationInv, Here, threads
    <2> QED
      BY <2>3, <2>4 DEF TypeInv
  <1> QED
    BY <1>2, <1>3, <1>4, <1>5 DEF Next, MainStep

-----------------------------------------------------------------------------

\* Of all threads that are at work, none has passed more barriers than another,
\* whatever the size of the team, the numbers of iterations and objects, and
\* whoever failed (metadata_posix, small_access_posix and main).
THEOREM TeamTogether == Spec => []SameRound
  <1>1. IInv => SameRound
    BY DEF IInv
  <1> QED
    BY <1>1, InitIInv, NextIInv, PTL DEF Spec


\* While a thread takes the time of a phase, no other thread is in another phase
\* or executes the command between two phases: whatever is timed ends at a
\* barrier, so two threads of one round are at the same place.
THEOREM PhasesNeverMix == Spec => []PhasesApart
  <1>1. ShapeInv /\ SameRound => PhasesApart
    <2>1. SUFFICES ASSUME ShapeInv, SameRound, NEW t \in Team, NEW u \in Team,
                          Runs(t, Timed), Runs(u, Timed)
                   PROVE  Here(t).op = Here(u).op
      BY DEF PhasesApart
    <2>2. /\ bench \in {"metadata", "data"} /\ count \in Counts
          /\ t \in Tids /\ u \in Tids
      BY <2>1, TeamInTids DEF ShapeInv
    <2>3. /\ Len(Script) \in Nat /\ at[t] \in 1 .. Len(Script) /\ at[u] \in 1 .. Len(Script)
          /\ Script[at[t]].op \in Timed /\ Script[at[u]].op \in Timed
          /\ Round(at[t]) = Round(at[u])
      BY <2>1, <2>2, ScriptType DEF ShapeInv, SameRound, Runs, Active, Here
    <2>4. ASSUME NEW i \in 1 .. Len(Script), NEW j \in 1 .. Len(Script), i < j,
                 Script[i].op \in Timed, Script[j].op \in Timed, Round(i) = Round(j)
          PROVE  FALSE
      <3>1. i + 1 \in 1 .. Len(Script) /\ Script[i + 1].op = "barrier"
        BY <2>2, <2>3, <2>4, ScriptProper DEF Proper, Ordered
      <3>2. i + 1 # j
        BY <2>4, <3>1 DEF Timed
      <3>3. i <= i + 1 /\ i + 1 < j
        BY <2>3, <2>4, <3>2
      <3>4. i \in 1 .. Len(Script) + 1 /\ j \in 1 .. Len(Script) + 1
        BY <2>3
      <3> QED
        BY <2>2, <2>4, <3>1, <3>3, <3>4, RoundBarrier
    <2>5. at[t] = at[u]
      BY <2>3, <2>4
    <2> QED
      BY <2>5 DEF Here
  <1>2. IInv => ShapeInv /\ SameRound
    BY DEF IInv
  <1> QED
    BY <1>1, <1>2, InitIInv, NextIInv, PTL DEF Spec


\* Every variable has its type: no loop runs past its bound and no offset past
\* the file (get_offset), because each phase starts with reset_rand and the
\* generator is asked once for each block.
THEOREM TypeCorrect == Spec => []TypeOK
  <1>1. Init => IInv /\ TypeInv
    BY InitIInv, TypeInit
  <1>2. IInv /\ TypeInv /\ [Next]_vars => IInv' /\ TypeInv'
    BY NextIInv, TypeNext
  <1>3. TypeInv => TypeOK
    BY DEF TypeInv
  <1> QED
    BY <1>1, <1>2, <1>3, PTL DEF Spec


-----------------------------------------------------------------------------
(* Where the phases of the two scripts are                                 *)

\* The script of metadata.c, step by step.
LEMMA MetadataPlaces ==
  ASSUME bench = "metadata", count \in Counts
  PROVE  /\ Len(Script) = 18
         /\ \A i \in 1 .. 18 :
              /\ Script[i].op \in {"barrier", "mkdir", "create", "command", "open",
                                   "stat", "unlink", "rmdir"}
              /\ Script[i].op = "barrier" => i \in {1, 3, 5, 7, 9, 11, 13, 15, 17}
              /\ Script[i].op = "command" => i \in {6, 10, 14}
              /\ Script[i].op = "mkdir" => i = 2
              /\ Script[i].op = "create" => i = 4 /\ Script[i].upto = count
              /\ Script[i].op = "open" => i = 8 /\ Script[i].upto = count
              /\ Script[i].op = "stat" => i = 12 /\ Script[i].upto = count
              /\ Script[i].op = "unlink" => i = 16 /\ Script[i].upto = count
              /\ Script[i].op = "rmdir" => i = 18
              /\ i \in {1, 3, 17} => Script[i].op = "barrier"
  <1> DEFINE s == MetadataScript(count)
  <1>1. Script = s
    BY DEF Script, Scripts
  <1>2. Len(s) = 18
    BY DEF MetadataScript
  <1>3. /\ s[1] = Barrier /\ s[2] = Plain("mkdir") /\ s[3] = Barrier
        /\ s[4] = Loop("create", count) /\ s[5] = Barrier /\ s[6] = Plain("command")
        /\ s[7] = Barrier /\ s[8] = Loop("open", count) /\ s[9] = Barrier
        /\ s[10] = Plain("command") /\ s[11] = Barrier /\ s[12] = Loop("stat", count)
        /\ s[13] = Barrier /\ s[14] = Plain("command") /\ s[15] = Barrier
        /\ s[16] = Loop("unlink", count) /\ s[17] = Barrier /\ s[18] = Plain("rmdir")
    BY DEF MetadataScript
  <1> HIDE DEF s
  <1>4. /\ Barrier.op = "barrier" /\ \A op : Plain(op).op = op
        /\ \A op, n : Loop(op, n).op = op /\ Loop(op, n).upto = n
    BY DEF Barrier, Plain, Loop
  <1>5. \A i \in 1 .. 18 : \/ i = 1 \/ i = 2 \/ i = 3 \/ i = 4 \/ i = 5 \/ i = 6 \/ i = 7
                           \/ i = 8 \/ i = 9 \/ i = 10 \/ i = 11 \/ i = 12 \/ i = 13
                           \/ i = 14 \/ i = 15 \/ i = 16 \/ i = 17 \/ i = 18
    OBVIOUS
  <1> QED
    BY <1>1, <1>2, <1>3, <1>4, <1>5

\* How many batches the blocks make.
Parts == (count + Batch - 1) \div Batch

\* The batches cover all blocks.
LEMMA PartsFacts ==
  ASSUME count \in Counts
  PROVE  /\ Parts \in Nat /\ count \in Nat
         /\ Parts = 0 => count = 0
         /\ Parts > 0 => BatchEnd(Parts, count) = count
  <1>1. count \in Nat /\ Batch \in Nat \ {0}
    BY BoundsAssumption
  <1> DEFINE a == count + Batch - 1
             r == a % Batch
  <1>2. a \in Nat
    BY <1>1
  <1>3. Parts \in Nat /\ r \in 0 .. Batch - 1 /\ a = Batch * Parts + r
    <2>1. \A x \in Nat, b \in Nat \ {0} :
            /\ x \div b \in Nat /\ x % b \in 0 .. b - 1
            /\ x = b * (x \div b) + (x % b)
      BY SMT
    <2> HIDE DEF a
    <2>2. a \div Batch \in Nat /\ r \in 0 .. Batch - 1 /\ a = Batch * (a \div Batch) + r
      BY <1>1, <1>2, <2>1
    <2> QED
      BY <2>2 DEF Parts, a
  <1> HIDE DEF r
  <1>4. Parts = 0 => count = 0
    BY <1>1, <1>3
  <1>5. Parts * Batch >= count
    <2> DEFINE p == Batch * Parts
    <2>1. p \in Nat /\ Parts * Batch = p
      BY <1>1, <1>3
    <2>2. count + Batch - 1 = p + r
      BY <1>3
    <2> HIDE DEF p
    <2> QED
      BY <1>1, <1>3, <2>1, <2>2
  <1> QED
    BY <1>1, <1>3, <1>4, <1>5 DEF BatchEnd

\* The script of data.c, step by step.
LEMMA DataPlaces ==
  ASSUME bench = "data", count \in Counts
  PROVE  /\ Parts \in Nat /\ Len(Script) = 11 + 4 * Parts
         /\ \A i \in 1 .. Len(Script) :
              /\ Script[i].op \in {"barrier", "make", "reset", "reopen", "write", "command",
                                   "read", "remove"}
              /\ Script[i].op = "make" => i = 2
              /\ Script[i].op = "reset" => i \in {4, 9 + 2 * Parts}
              /\ Script[i].op = "reopen" => i \in {5, 10 + 2 * Parts}
              /\ Script[i].op = "write" => i \in 6 .. 5 + 2 * Parts
              /\ Script[i].op = "command" => i = 7 + 2 * Parts
              /\ Script[i].op = "read" => i \in 11 + 2 * Parts .. 10 + 4 * Parts
              /\ Script[i].op = "remove" => i = Len(Script)
              /\ Script[i].op = "barrier" =>
                   \/ i \in {1, 3, 6 + 2 * Parts, 8 + 2 * Parts}
                   \/ i \in 7 .. 5 + 2 * Parts
                   \/ i \in 12 + 2 * Parts .. 10 + 4 * Parts
              /\ \/ i \in {1, 3, 6 + 2 * Parts}
                 \/ Parts > 0 /\ i \in {5 + 2 * Parts, 10 + 4 * Parts}
                 => Script[i].op = "barrier"
              /\ Parts > 0 /\ i = 4 + 2 * Parts =>
                   Script[i].op = "write" /\ Script[i].upto = count
  <1> DEFINE a == << Barrier, Plain("make"), Barrier, Plain("reset"), Plain("reopen") >>
             w == Batches("write", count)
             c == << Barrier, Plain("command"), Barrier, Plain("reset"), Plain("reopen") >>
             r == Batches("read", count)
             e == << Plain("remove") >>
             m == Parts
             batch(op, x) == IF x % 2 = 1 THEN Loop(op, BatchEnd((x + 1) \div 2, count))
                                          ELSE Barrier
  <1>0. m \in Nat /\ (m > 0 => BatchEnd(m, count) = count) /\ count \in Nat
    BY PartsFacts
  <1>1. Script = a \o w \o c \o r \o e
    BY DEF Script, Scripts, DataScript
  <1>2. /\ w = [x \in 1 .. 2 * m |-> batch("write", x)]
        /\ r = [x \in 1 .. 2 * m |-> batch("read", x)]
    BY DEF Batches, Parts
  <1>3. /\ a \in Seq(Step) /\ Len(a) = 5 /\ c \in Seq(Step) /\ Len(c) = 5
        /\ e \in Seq(Step) /\ Len(e) = 1
        /\ w \in Seq(Step) /\ r \in Seq(Step)
    BY <1>0, BatchesType DEF Plain, Barrier, Step, Ops
  <1>4. /\ a[1] = Barrier /\ a[2] = Plain("make") /\ a[3] = Barrier
        /\ a[4] = Plain("reset") /\ a[5] = Plain("reopen")
        /\ c[1] = Barrier /\ c[2] = Plain("command") /\ c[3] = Barrier
        /\ c[4] = Plain("reset") /\ c[5] = Plain("reopen")
        /\ e[1] = Plain("remove")
    OBVIOUS
  <1> HIDE DEF m
  <1>5. Len(w) = 2 * m /\ Len(r) = 2 * m
    BY <1>0, <1>2
  <1> HIDE DEF a, c, e, w, r, batch
  <1>6. /\ Len(a \o w \o c \o r \o e) = 11 + 4 * m
        /\ \A i \in 1 .. 11 + 4 * m :
             (a \o w \o c \o r \o e)[i] =
               IF i <= 5 THEN a[i]
               ELSE IF i <= 5 + 2 * m THEN w[i - 5]
               ELSE IF i <= 10 + 2 * m THEN c[i - 5 - 2 * m]
               ELSE IF i <= 10 + 4 * m THEN r[i - 10 - 2 * m]
               ELSE e[1]
    <2> DEFINE aw == a \o w
               awc == aw \o c
               awcr == awc \o r
               all == awcr \o e
    <2>1. /\ aw \in Seq(Step) /\ Len(aw) = 5 + 2 * m
          /\ \A i \in 1 .. 5 + 2 * m : aw[i] = IF i <= 5 THEN a[i] ELSE w[i - 5]
      <3>1. /\ aw \in Seq(Step) /\ Len(aw) = Len(a) + Len(w)
            /\ \A i \in 1 .. Len(a) + Len(w) :
                 aw[i] = IF i <= Len(a) THEN a[i] ELSE w[i - Len(a)]
        BY <1>3, ConcatProperties, Zenon
      <3> HIDE DEF aw
      <3> QED
        BY <1>0, <1>3, <1>5, <3>1
    <2> HIDE DEF aw
    <2>2. /\ awc \in Seq(Step) /\ Len(awc) = 10 + 2 * m
          /\ \A i \in 1 .. 10 + 2 * m : awc[i] = IF i <= 5 + 2 * m THEN aw[i] ELSE c[i - (5 + 2 * m)]
      <3>1. /\ awc \in Seq(Step) /\ Len(awc) = Len(aw) + Len(c)
            /\ \A i \in 1 .. Len(aw) + Len(c) :
                 awc[i] = IF i <= Len(aw) THEN aw[i] ELSE c[i - Len(aw)]
        BY <1>3, <2>1, ConcatProperties, Zenon
      <3>2. Len(aw) = 5 + 2 * m /\ Len(c) = 5 /\ (5 + 2 * m) + 5 = 10 + 2 * m
        BY <1>0, <1>3, <2>1
      <3> HIDE DEF awc
      <3> QED
        BY <3>1, <3>2
    <2> HIDE DEF awc
    <2>3. /\ awcr \in Seq(Step) /\ Len(awcr) = 10 + 4 * m
          /\ \A i \in 1 .. 10 + 4 * m :
               awcr[i] = IF i <= 10 + 2 * m THEN awc[i] ELSE r[i - (10 + 2 * m)]
      <3>1. /\ awcr \in Seq(Step) /\ Len(awcr) = Len(awc) + Len(r)
            /\ \A i \in 1 .. Len(awc) + Len(r) :
                 awcr[i] = IF i <= Len(awc) THEN awc[i] ELSE r[i - Len(awc)]
        BY <1>3, <2>2, ConcatProperties, Zenon
      <3>2. Len(awc) = 10 + 2 * m /\ Len(r) = 2 * m /\ (10 + 2 * m) + 2 * m = 10 + 4 * m
        BY <1>0, <1>5, <2>2
      <3> HIDE DEF awcr
      <3> QED
        BY <3>1, <3>2
    <2> HIDE DEF awcr
    <2>4. /\ Len(all) = 11 + 4 * m
          /\ \A i \in 1 .. 11 + 4 * m :
               all[i] = IF i <= 10 + 4 * m THEN awcr[i] ELSE e[i - (10 + 4 * m)]
      <3>1. /\ Len(all) = Len(awcr) + Len(e)
            /\ \A i \in 1 .. Len(awcr) + Len(e) :
                 all[i] = IF i <= Len(awcr) THEN awcr[i] ELSE e[i - Len(awcr)]
        BY <1>3, <2>3, ConcatProperties, Zenon
      <3>2. Len(awcr) = 10 + 4 * m /\ Len(e) = 1 /\ (10 + 4 * m) + 1 = 11 + 4 * m
        BY <1>0, <1>3, <2>3
      <3> HIDE DEF all
      <3> QED
        BY <3>1, <3>2
    <2> HIDE DEF all
    <2>5. ASSUME NEW i \in 1 .. 11 + 4 * m
          PROVE  all[i] =
               IF i <= 5 THEN a[i]
               ELSE IF i <= 5 + 2 * m THEN w[i - 5]
               ELSE IF i <= 10 + 2 * m THEN c[i - 5 - 2 * m]
               ELSE IF i <= 10 + 4 * m THEN r[i - 10 - 2 * m]
               ELSE e[1]
      <3>1. /\ i - (5 + 2 * m) = i - 5 - 2 * m /\ i - (10 + 2 * m) = i - 10 - 2 * m
            /\ ~(i <= 10 + 4 * m) => i - (10 + 4 * m) = 1
        BY <1>0
      <3>2. CASE i <= 5
        <4>1. i \in 1 .. 5 + 2 * m /\ i \in 1 .. 10 + 2 * m /\ i \in 1 .. 10 + 4 * m
              /\ i <= 5 + 2 * m /\ i <= 10 + 2 * m /\ i <= 10 + 4 * m
          BY <1>0, <3>2
        <4> QED
          BY <2>1, <2>2, <2>3, <2>4, <3>2, <4>1
      <3>3. CASE ~(i <= 5) /\ i <= 5 + 2 * m
        <4>1. i \in 1 .. 5 + 2 * m /\ i \in 1 .. 10 + 2 * m /\ i \in 1 .. 10 + 4 * m
              /\ i <= 10 + 2 * m /\ i <= 10 + 4 * m
          BY <1>0, <3>3
        <4> QED
          BY <2>1, <2>2, <2>3, <2>4, <3>3, <4>1
      <3>4. CASE ~(i <= 5 + 2 * m) /\ i <= 10 + 2 * m
        <4>1. i \in 1 .. 10 + 2 * m /\ i \in 1 .. 10 + 4 * m /\ i <= 10 + 4 * m /\ ~(i <= 5)
          BY <1>0, <3>4
        <4> QED
          BY <2>2, <2>3, <2>4, <3>1, <3>4, <4>1
      <3>5. CASE ~(i <= 10 + 2 * m) /\ i <= 10 + 4 * m
        <4>1. i \in 1 .. 10 + 4 * m /\ ~(i <= 5) /\ ~(i <= 5 + 2 * m)
          BY <1>0, <3>5
        <4> QED
          BY <2>3, <2>4, <3>1, <3>5, <4>1
      <3>6. CASE ~(i <= 10 + 4 * m)
        <4>1. ~(i <= 5) /\ ~(i <= 5 + 2 * m) /\ ~(i <= 10 + 2 * m)
          BY <1>0, <3>6
        <4> QED
          BY <2>4, <3>1, <3>6, <4>1
      <3> QED
        BY <3>2, <3>3, <3>4, <3>5, <3>6
    <2> QED
      BY <2>4, <2>5 DEF all, awcr, awc, aw
  <1>7. /\ Barrier.op = "barrier" /\ \A op : Plain(op).op = op
        /\ \A op, n : Loop(op, n).op = op /\ Loop(op, n).upto = n
    BY DEF Barrier, Plain, Loop
  <1>8. ASSUME NEW op \in {"write", "read"}, NEW x \in 1 .. 2 * m
        PROVE  /\ batch(op, x).op \in {op, "barrier"}
               /\ batch(op, x).op = "barrier" => x >= 2
               /\ x = 2 * m => batch(op, x).op = "barrier"
               /\ x = 2 * m - 1 => batch(op, x).op = op /\ batch(op, x).upto = count
    <2>1. CASE x % 2 = 1
      <3>1. batch(op, x) = Loop(op, BatchEnd((x + 1) \div 2, count))
        BY <2>1 DEF batch
      <3>2. x # 2 * m
        BY <1>0, <2>1
      <3>3. x = 2 * m - 1 => (x + 1) \div 2 = m
        BY <1>0
      <3>4. m > 0
        BY <1>0
      <3> QED
        BY <1>0, <1>7, <3>1, <3>2, <3>3, <3>4
    <2>2. CASE x % 2 # 1
      <3>1. batch(op, x) = Barrier
        BY <2>2 DEF batch
      <3>2. x # 1 /\ x # 2 * m - 1
        BY <1>0, <2>2
      <3> QED
        BY <1>0, <1>7, <3>1, <3>2
    <2> QED
      BY <2>1, <2>2
  <1>9. ASSUME NEW i \in 1 .. 11 + 4 * m
        PROVE  LET s == (a \o w \o c \o r \o e)[i]
               IN  /\ s.op \in {"barrier", "make", "reset", "reopen", "write", "command",
                                "read", "remove"}
                   /\ s.op = "make" => i = 2
                   /\ s.op = "reset" => i \in {4, 9 + 2 * m}
                   /\ s.op = "reopen" => i \in {5, 10 + 2 * m}
                   /\ s.op = "write" => i \in 6 .. 5 + 2 * m
                   /\ s.op = "command" => i = 7 + 2 * m
                   /\ s.op = "read" => i \in 11 + 2 * m .. 10 + 4 * m
                   /\ s.op = "remove" => i = 11 + 4 * m
                   /\ s.op = "barrier" =>
                        \/ i \in {1, 3, 6 + 2 * m, 8 + 2 * m}
                        \/ i \in 7 .. 5 + 2 * m
                        \/ i \in 12 + 2 * m .. 10 + 4 * m
                   /\ \/ i \in {1, 3, 6 + 2 * m}
                      \/ m > 0 /\ i \in {5 + 2 * m, 10 + 4 * m}
                      => s.op = "barrier"
                   /\ m > 0 /\ i = 4 + 2 * m => s.op = "write" /\ s.upto = count
    <2>1. CASE i <= 5
      <3>1. (a \o w \o c \o r \o e)[i] = a[i]
        BY <1>6, <2>1
      <3>2. i = 1 \/ i = 2 \/ i = 3 \/ i = 4 \/ i = 5
        BY <1>0, <2>1
      <3> QED
        BY <1>0, <1>4, <1>7, <3>1, <3>2
    <2>2. CASE ~(i <= 5) /\ i <= 5 + 2 * m
      <3>1. i - 5 \in 1 .. 2 * m /\ i \in 6 .. 5 + 2 * m
        BY <1>0, <2>2
      <3>2. (a \o w \o c \o r \o e)[i] = batch("write", i - 5)
        BY <1>2, <1>6, <2>2, <3>1
      <3> DEFINE b == batch("write", i - 5)
      <3>3. /\ b.op \in {"write", "barrier"}
            /\ b.op = "barrier" => i >= 7
            /\ i = 5 + 2 * m => b.op = "barrier"
            /\ i = 4 + 2 * m => b.op = "write" /\ b.upto = count
        <4>1. /\ b.op \in {"write", "barrier"}
              /\ b.op = "barrier" => i - 5 >= 2
              /\ i - 5 = 2 * m => b.op = "barrier"
              /\ i - 5 = 2 * m - 1 => b.op = "write" /\ b.upto = count
          BY <1>8, <3>1
        <4> HIDE DEF b
        <4> QED
          BY <1>0, <4>1
      <3> HIDE DEF b
      <3> DEFINE s == (a \o w \o c \o r \o e)[i]
      <3>4. s = b
        BY <3>2 DEF b
      <3> HIDE DEF s
      <3>5. /\ i \in 7 .. 5 + 2 * m \/ s.op = "write"
            /\ i \notin {1, 3, 6 + 2 * m}
            /\ m > 0 => i # 10 + 4 * m
            /\ s.op \in {"write", "barrier"}
            /\ i = 5 + 2 * m => s.op = "barrier"
            /\ i = 4 + 2 * m => s.op = "write" /\ s.upto = count
        BY <1>0, <3>1, <3>3, <3>4
      <3> QED
        BY <3>1, <3>5, Zenon DEF s
    <2>3. CASE ~(i <= 5 + 2 * m) /\ i <= 10 + 2 * m
      <3>1. (a \o w \o c \o r \o e)[i] = c[i - 5 - 2 * m]
        <4>1. ~(i <= 5)
          BY <1>0, <2>3
        <4> QED
          BY <1>6, <2>3, <4>1
      <3>2. \/ i = 6 + 2 * m /\ i - 5 - 2 * m = 1
            \/ i = 7 + 2 * m /\ i - 5 - 2 * m = 2
            \/ i = 8 + 2 * m /\ i - 5 - 2 * m = 3
            \/ i = 9 + 2 * m /\ i - 5 - 2 * m = 4
            \/ i = 10 + 2 * m /\ i - 5 - 2 * m = 5
        BY <1>0, <2>3
      <3> QED
        BY <1>0, <1>4, <1>7, <3>1, <3>2
    <2>4. CASE ~(i <= 10 + 2 * m) /\ i <= 10 + 4 * m
      <3>1. i - 10 - 2 * m \in 1 .. 2 * m /\ i \in 11 + 2 * m .. 10 + 4 * m
        BY <1>0, <2>4
      <3>2. (a \o w \o c \o r \o e)[i] = batch("read", i - 10 - 2 * m)
        <4>1. ~(i <= 5) /\ ~(i <= 5 + 2 * m)
          BY <1>0, <2>4
        <4> QED
          BY <1>2, <1>6, <2>4, <3>1, <4>1
      <3> DEFINE b == batch("read", i - 10 - 2 * m)
      <3>3. /\ b.op \in {"read", "barrier"}
            /\ b.op = "barrier" => i \in 12 + 2 * m .. 10 + 4 * m
            /\ i = 10 + 4 * m => b.op = "barrier"
        <4>1. /\ b.op \in {"read", "barrier"}
              /\ b.op = "barrier" => i - 10 - 2 * m >= 2
              /\ i - 10 - 2 * m = 2 * m => b.op = "barrier"
          BY <1>8, <3>1
        <4> HIDE DEF b
        <4> QED
          BY <1>0, <2>4, <4>1
      <3> HIDE DEF b
      <3> DEFINE s == (a \o w \o c \o r \o e)[i]
      <3>4. s = b
        BY <3>2 DEF b
      <3> HIDE DEF s
      <3>5. /\ i \in 12 + 2 * m .. 10 + 4 * m \/ s.op = "read"
            /\ i \notin {1, 3, 6 + 2 * m}
            /\ m > 0 => i # 5 + 2 * m /\ i # 4 + 2 * m
            /\ s.op \in {"read", "barrier"}
            /\ i = 10 + 4 * m => s.op = "barrier"
        BY <1>0, <3>1, <3>3, <3>4
      <3> QED
        BY <3>1, <3>5, Zenon DEF s
    <2>5. CASE ~(i <= 10 + 4 * m)
      <3>1. i = 11 + 4 * m /\ ~(i <= 5) /\ ~(i <= 5 + 2 * m) /\ ~(i <= 10 + 2 * m)
        BY <1>0, <2>5
      <3>2. (a \o w \o c \o r \o e)[i] = e[1]
        BY <1>6, <2>5, <3>1
      <3> QED
        BY <1>0, <1>4, <1>7, <3>1, <3>2
    <2> QED
      BY <2>1, <2>2, <2>3, <2>4, <2>5
  <1> QED
    BY <1>0, <1>1, <1>6, <1>9 DEF m


-----------------------------------------------------------------------------
(* Why a benchmark fails, and what it leaves behind                        *)

\* What FailuresExplained accepts as a reason.
Explained ==
  \/ faults > 0
  \/ bench = "metadata" /\ littered
  \/ bench = "data" /\ shared /\ team > 1 /\ count = 0

\* The team is at work and nothing went wrong so far.
Calm == main = "join" /\ faults = 0 /\ (bench = "metadata" => ~littered)

\* Who is done has reached the end of the script.
EndedInv ==
  main = "join" =>
    \A t \in Team : status[t] \in {"none", "returned"} => at[t] = Len(Script) + 1

\* Nobody passes the first barrier before the whole team is there.
StartInv ==
  main = "spawn" =>
    \A t \in Team : t < next =>
      status[t] \in {"running", "waiting"} /\ at[t] = 1 /\ done[t] = 0

FailInv ==
  \/ main \in {"destroy", "stuck", "failed", "aborted"}
  \/ \E t \in Team : status[t] = "failed"
  => Explained

KindInv == bench = "data" => dirs = {} /\ rmdir = "removes"

\* Between two iterations, and at the end.
FreshInv ==
  main \in {"spawn", "ended"} /\ faults = 0 =>
    /\ files = {}
    /\ rmdir = "removes" => dirs = {}
    /\ dirs # {} => 0 \in dirs
    /\ main = "spawn" /\ next > 0 => (littered <=> dirs # {})

Together == \A t, u \in Team : Round(at[t]) = Round(at[u])
TogetherInv == Calm => Together

\* A directory that is still there from the last iteration stops thread 0,
\* whom main joins first.
LitterInv ==
  main = "join" /\ faults = 0 /\ bench = "metadata" /\ littered =>
    /\ rmdir = "ignored" /\ 0 \in dirs /\ next = 0
    /\ at[0] <= 2 /\ status[0] \in {"running", "waiting", "failed"}

Files == [dir : Tids, of : Tids, index : Nat]

\* The directories and files of the metadata benchmark, by the places of the
\* threads: t made its directory at place 2 and removes it at 18, it creates
\* its files at 4 and removes them at 16.
Made(t) == Manages(t) /\ at[t] > 2 /\ (at[t] <= 18 \/ rmdir = "ignored")
Holds(t, i) ==
  /\ at[t] > 4 \/ (at[t] = 4 /\ i < done[t])
  /\ at[t] < 16 \/ (at[t] = 16 /\ i >= done[t])
DirsThere  == \A t \in Tids : t \in dirs <=> t \in Team /\ Made(t)
FilesThere ==
  \A f \in Files :
    f \in files <=> /\ f.of \in Team /\ f.dir = Owner(f.of) /\ f.index < count
                    /\ Holds(f.of, f.index)
NoLoop == \A t \in Team : at[t] \notin {4, 8, 12, 16} => done[t] = 0
MetaInv == Calm /\ bench = "metadata" => DirsThere /\ FilesThere /\ NoLoop

\* The files of the data benchmark, and how far they reach.
OffsetAt(t, x) ==
  LET i == IF random THEN draw[x + 1] % count ELSE x
  IN  IF shared THEN i * team + t ELSE i
InWrite(t) == at[t] \in 6 .. 5 + 2 * Parts
InRead(t)  == at[t] \in 11 + 2 * Parts .. 10 + 4 * Parts
Written(t, x) == at[t] >= 6 + 2 * Parts \/ (InWrite(t) /\ x < done[t])
FileThere ==
  \A f \in Files :
    f \in files <=> /\ f.of \in Team /\ f.dir = f.of /\ f.index = 0 /\ Manages(f.of)
                    /\ at[f.of] > 2 /\ at[f.of] <= Len(Script)
AllDone(t) == at[t] = 5 + 2 * Parts /\ Parts > 0 => done[t] = count
InStep(t)  == random /\ (InWrite(t) \/ InRead(t)) => drawn[t] = done[t]
Reached(t) ==
  at[Owner(t)] <= Len(Script) =>
    \A x \in 0 .. count - 1 : Written(t, x) => OffsetAt(t, x) < extent[Owner(t)]
DataInv ==
  main = "join" /\ faults = 0 /\ bench = "data" =>
    FileThere /\ \A t \in Team : AllDone(t) /\ InStep(t) /\ Reached(t)

RunInv ==
  /\ EndedInv /\ StartInv /\ FailInv /\ KindInv /\ FreshInv /\ TogetherInv /\ LitterInv
  /\ MetaInv /\ DataInv

\* Threads of one round are on one side of each barrier.
LEMMA SameSide ==
  ASSUME IInv, Together, NEW t \in Team, NEW u \in Team, NEW l \in 1 .. Len(Script),
         Script[l].op = "barrier", at[t] <= l
  PROVE  at[u] <= l
  <1>1. /\ bench \in {"metadata", "data"} /\ count \in Counts /\ Len(Script) \in Nat
        /\ at[t] \in 1 .. Len(Script) + 1 /\ at[u] \in 1 .. Len(Script) + 1
    BY ScriptType, TeamInTids DEF IInv, ShapeInv
  <1>2. Round(at[t]) = Round(at[u])
    BY DEF Together
  <1>3. l < at[u] => Script[l].op # "barrier"
    BY <1>1, <1>2, RoundBarrier
  <1> QED
    BY <1>1, <1>3

\* The team stays between the same two barriers.
LEMMA TogetherStep ==
  ASSUME IInv, Together, NEW t \in Tids, ThreadStep(t), UNCHANGED options
  PROVE  Together'
  <1>1. /\ Script' = Script /\ Team' = Team /\ bench' = bench /\ count' = count
        /\ Team \subseteq Tids /\ Len(Script) \in Nat
        /\ bench \in {"metadata", "data"} /\ count \in Counts
        /\ at \in [Tids -> 1 .. Len(Script) + 1]
    BY ScriptType, TeamInTids DEF IInv, ShapeInv, options, Script, Team
  <1>2. SUFFICES ASSUME NEW u \in Team, NEW v \in Team
                 PROVE  Round(at'[u]) = Round(at'[v])
    BY <1>1 DEF Together, Round
  <1>3. Round(at[u]) = Round(at[v])
    BY DEF Together
  <1>4. CASE \A w \in Team : at'[w] = at[w] \/ (at'[w] = at[w] + 1 /\ at[w] \in 1 .. Len(Script)
                                               /\ Script[at[w]].op # "barrier")
    <2>1. \A w \in Team : Round(at'[w]) = Round(at[w])
      BY <1>1, <1>4, RoundNext
    <2> QED
      BY <1>3, <2>1
  <1>5. CASE \A w \in Team : at'[w] = at[w] + 1 /\ at[w] \in 1 .. Len(Script)
                             /\ Script[at[w]].op = "barrier"
    <2>1. \A w \in Team : Round(at'[w]) = Round(at[w]) + 1
      BY <1>1, <1>5, RoundNext
    <2> QED
      BY <1>3, <2>1
  <1>6. CASE Wait(t)
    <2>1. CASE OthersWait(t)
      <3>1. t \in Team /\ at[t] <= Len(Script) /\ Script[at[t]].op = "barrier"
        BY <1>6 DEF Wait, Runs, Here, IInv, ShapeInv
      <3>2. \A w \in Team : w = t \/ status[w] = "waiting"
        BY <2>1 DEF OthersWait
      <3>3. \A w \in Team : at'[w] = at[w] + 1
        BY <1>1, <1>6, <2>1, <3>2 DEF Wait
      <3>4. \A w \in Team : at[w] <= Len(Script) /\ Script[at[w]].op = "barrier"
        BY <1>1, <3>1, <3>2 DEF IInv, WaitingInv, Here
      <3> QED
        BY <1>1, <1>5, <3>3, <3>4
    <2>2. CASE ~ OthersWait(t)
      BY <1>4, <1>6, <2>2 DEF Wait
    <2> QED
      BY <2>1, <2>2
  <1>7. CASE Moves(t)
    <2>1. /\ at' = [at EXCEPT ![t] = @ + 1] /\ at[t] \in 1 .. Len(Script)
          /\ Script[at[t]].op # "barrier"
      BY <1>1, <1>7 DEF Moves, Advance, Here
    <2> QED
      BY <1>1, <1>4, <2>1
  <1>8. CASE Return(t) \/ Stays(t) \/ Stops(t)
    BY <1>4, <1>8 DEF Return, Stays, Stops, Fail
  <1> QED
    BY <1>6, <1>7, <1>8, StepKinds

\* The first step of both scripts is a barrier.
LEMMA FirstBarrier ==
  ASSUME bench \in {"metadata", "data"}, count \in Counts
  PROVE  Len(Script) > 1 /\ Script[1].op = "barrier"
  <1>1. CASE bench = "metadata"
    <2>1. 1 \in 1 .. 18 /\ 1 \in {1, 3, 17}
      OBVIOUS
    <2>2. Len(Script) = 18 /\ Script[1].op = "barrier"
      BY <1>1, <2>1, MetadataPlaces, Zenon
    <2> QED
      BY <2>2
  <1>2. CASE bench = "data"
    <2>1. Parts \in Nat /\ Len(Script) = 11 + 4 * Parts
      BY <1>2, DataPlaces
    <2>2. 1 \in 1 .. Len(Script) /\ 1 \in {1, 3, 6 + 2 * Parts} /\ Len(Script) > 1
      BY <2>1
    <2> QED
      BY <1>2, <2>2, DataPlaces
  <1> QED
    BY <1>1, <1>2


\* While main spawns the team, the threads only come to the first barrier.
LEMMA SpawnPhase ==
  ASSUME IInv, RunInv, main = "spawn", NEW t \in Tids, ThreadStep(t)
  PROVE  Wait(t) /\ ~ OthersWait(t)
  <1>1. status[t] = "running" /\ t \in Team
    BY DEF ThreadStep, Wait, Command, Skip, MakeDirectory, RemoveDirectory, Operate,
           OperationsOver, MakeFile, Reset, Reopen, Transfer, BatchOver, RemoveFile,
           Return, Runs, IInv, ShapeInv
  <1>2. next \in Team /\ team \in Nat
    BY TeamInTids DEF IInv, SpawnInv
  <1>3. status[next] = "none" /\ t < next
    BY <1>1, <1>2 DEF IInv, SpawnInv, Team
  <1>4. Script[at[t]].op = "barrier" /\ at[t] # Len(Script) + 1
    <2>1. at[t] = 1
      BY <1>1, <1>3 DEF RunInv, StartInv
    <2>2. Len(Script) > 1 /\ Script[1].op = "barrier" /\ Len(Script) \in Nat
      BY FirstBarrier, ScriptType DEF IInv, ShapeInv
    <2> QED
      BY <2>1, <2>2
  <1>5. ~ OthersWait(t)
    BY <1>1, <1>2, <1>3 DEF OthersWait
  <1>6. Wait(t)
    BY <1>4 DEF ThreadStep, Command, Skip, MakeDirectory, RemoveDirectory, Operate,
           OperationsOver, MakeFile, Reset, Reopen, Transfer, BatchOver, RemoveFile,
           Return, Runs, Here
  <1> QED
    BY <1>5, <1>6

\* Steps while main still spawns preserve RunInv.
LEMMA SpawnPhaseStep ==
  ASSUME IInv, TypeInv, RunInv, main = "spawn", NEW t \in Tids, ThreadStep(t)
  PROVE  RunInv'
  <1>1. Wait(t) /\ ~ OthersWait(t)
    BY SpawnPhase
  <1>2. /\ status' = [status EXCEPT ![t] = "waiting"] /\ status[t] = "running"
        /\ UNCHANGED <<options, process, at, done, drawn, storage, faults, littered>>
    BY <1>1 DEF Wait, Runs
  <1>3. /\ bench' = bench /\ team' = team /\ Team' = Team /\ count' = count /\ shared' = shared
        /\ rmdir' = rmdir /\ main' = "spawn" /\ next' = next /\ dirs' = dirs
        /\ files' = files /\ faults' = faults /\ littered' = littered /\ at' = at
        /\ done' = done
    BY <1>2 DEF options, process, storage, Team
  <1>4. Team \subseteq Tids /\ status \in [Tids -> Statuses]
    BY TeamInTids DEF IInv, ShapeInv
  <1>5. StartInv'
    <2>1. \A u \in Team : status[u] \in {"running", "waiting"} =>
                            status'[u] \in {"running", "waiting"}
      BY <1>2, <1>4
    <2> QED
      BY <1>3, <2>1 DEF RunInv, StartInv
  <1>6. FailInv'
    <2>1. \A u \in Team : status'[u] = "failed" => status[u] = "failed"
      BY <1>2, <1>4
    <2> QED
      BY <1>3, <2>1 DEF RunInv, FailInv, Explained
  <1>7. KindInv' /\ FreshInv'
    BY <1>3 DEF RunInv, KindInv, FreshInv
  <1>8. EndedInv' /\ TogetherInv' /\ LitterInv' /\ MetaInv' /\ DataInv'
    BY <1>3 DEF EndedInv, TogetherInv, Calm, LitterInv, MetaInv, DataInv
  <1> QED
    BY <1>5, <1>6, <1>7, <1>8 DEF RunInv

\* What a step of a thread may change, in every benchmark.
LEMMA StepFacts ==
  ASSUME IInv, TypeInv, RunInv, NEW t \in Tids, ThreadStep(t)
  PROVE  /\ faults' \in {faults, faults + 1} /\ faults \in Nat /\ faults' \in Nat
         /\ UNCHANGED options /\ littered' = littered /\ next' = next
         /\ bench' = bench /\ team' = team /\ Team' = Team /\ count' = count
         /\ shared' = shared /\ rmdir' = rmdir /\ random' = random /\ draw' = draw
         /\ Script' = Script /\ Len(Script) \in Nat
         /\ Explained => Explained'
         /\ KindInv'
  <1>1. /\ UNCHANGED <<options, littered, iteration, next>> /\ Script' = Script
        /\ Len(Script) \in Nat /\ Team' = Team
        /\ bench \in {"metadata", "data"} /\ Proper(bench, count, Script)
        /\ at[t] \in 1 .. Len(Script) + 1
    BY ThreadFacts DEF IInv, ShapeInv
  <1>2. faults \in Nat
    BY DEF TypeInv, TypeOK
  <1>3. faults' \in {faults, faults + 1}
    BY DEF ThreadStep, Wait, Command, Skip, MakeDirectory, RemoveDirectory, Operate,
           OperationsOver, MakeFile, Reset, Reopen, Transfer, BatchOver, RemoveFile,
           Return, Fails, Inject
  <1>4. bench = "data" => dirs' = dirs
    <2>1. ASSUME bench = "data", Runs(t, {"mkdir"}) \/ Runs(t, {"rmdir"}) PROVE FALSE
      <3>1. at[t] \in 1 .. Len(Script) /\ Script[at[t]].op \in {"mkdir", "rmdir"}
        BY <1>1, <2>1 DEF Runs, Here
      <3> QED
        BY <1>1, <2>1, <3>1 DEF Proper, Fits
    <2>2. bench = "data" => ~ MakeDirectory(t) /\ ~ RemoveDirectory(t)
      BY <2>1 DEF MakeDirectory, RemoveDirectory
    <2> QED
      BY <2>2 DEF ThreadStep, Wait, Command, Skip, Operate,
           OperationsOver, MakeFile, Reset, Reopen, Transfer, BatchOver, RemoveFile,
           Return, Fails, Fail, storage
  <1>5. /\ bench' = bench /\ team' = team /\ count' = count
        /\ shared' = shared /\ rmdir' = rmdir /\ random' = random /\ draw' = draw
    BY <1>1 DEF options
  <1>6. Explained => Explained'
    BY <1>1, <1>2, <1>3, <1>5 DEF Explained
  <1>7. KindInv'
    BY <1>4, <1>5 DEF RunInv, KindInv
  <1> QED
    BY <1>1, <1>2, <1>3, <1>5, <1>6, <1>7

\* After a failure that main has seen, nothing is claimed but its reason.
LEMMA DestroyPhaseStep ==
  ASSUME IInv, TypeInv, RunInv, NEW t \in Tids, ThreadStep(t),
         main \in {"destroy", "stuck"} \/ (main' # main /\ Explained')
  PROVE  RunInv'
  <1>1. main' \in {main, "aborted"} /\ main \in {"spawn", "join", "destroy", "stuck"}
    BY ThreadFacts DEF IInv
  <1>2. Explained' /\ KindInv'
    BY StepFacts DEF RunInv, FailInv
  <1>3. main' \in {"destroy", "stuck", "aborted"}
    BY <1>1
  <1>4. FailInv'
    BY <1>2 DEF FailInv
  <1>5. /\ EndedInv' /\ StartInv' /\ FreshInv' /\ TogetherInv' /\ LitterInv' /\ MetaInv'
        /\ DataInv'
    BY <1>3 DEF EndedInv, StartInv, FreshInv, TogetherInv, Calm, LitterInv, MetaInv, DataInv
  <1> QED
    BY <1>2, <1>4, <1>5 DEF RunInv

\* A thread that ended has finished its script or failed.
LEMMA EndedStep ==
  ASSUME IInv, RunInv, main = "join", NEW t \in Tids, ThreadStep(t), UNCHANGED options
  PROVE  EndedInv'
  <1>1. /\ Script' = Script /\ Team' = Team /\ Team \subseteq Tids /\ Len(Script) \in Nat
        /\ at \in [Tids -> 1 .. Len(Script) + 1] /\ status \in [Tids -> Statuses]
    BY ScriptType, TeamInTids DEF IInv, ShapeInv, options, Script, Team
  <1>2. \A u \in Team : status[u] \in {"none", "returned"} => at[u] = Len(Script) + 1
    BY DEF RunInv, EndedInv
  <1>3. SUFFICES ASSUME NEW u \in Team, status'[u] \in {"none", "returned"}
                 PROVE  at'[u] = Len(Script) + 1
    BY <1>1 DEF EndedInv
  <1>4. CASE Wait(t)
    <2>1. status[u] \in {"none", "returned"} /\ u # t
      BY <1>1, <1>3, <1>4 DEF Wait, Runs
    <2>2. at'[u] = at[u]
      BY <1>1, <1>4, <2>1 DEF Wait
    <2> QED
      BY <1>2, <2>1, <2>2
  <1>5. CASE Return(t)
    BY <1>1, <1>2, <1>3, <1>5 DEF Return
  <1>6. CASE Moves(t)
    <2>1. status' = status /\ u # t /\ at'[u] = at[u]
      BY <1>1, <1>3, <1>6 DEF Moves, Advance
    <2> QED
      BY <1>2, <1>3, <2>1
  <1>7. CASE Stays(t)
    BY <1>2, <1>3, <1>7 DEF Stays
  <1>8. CASE Stops(t)
    <2>1. at' = at /\ status'[u] = status[u]
      BY <1>1, <1>3, <1>8 DEF Stops, Fail
    <2> QED
      BY <1>2, <1>3, <2>1
  <1> QED
    BY <1>4, <1>5, <1>6, <1>7, <1>8, StepKinds


-----------------------------------------------------------------------------
(* The metadata benchmark at work                                          *)

\* What the proofs below say of the metadata benchmark while main waits for
\* the threads.
AtMeta(t) ==
  /\ IInv /\ TypeInv /\ RunInv /\ main = "join" /\ bench = "metadata"
  /\ t \in Tids /\ ThreadStep(t)

\* The step a thread performs is the one at its place.
LEMMA MetaHere ==
  ASSUME NEW t, AtMeta(t)
  PROVE  /\ t \in Team /\ status[t] = "running"
         /\ Len(Script) = 18 /\ at[t] \in 1 .. 19
         /\ \A ops : Runs(t, ops) => at[t] \in 1 .. 18 /\ Script[at[t]].op \in ops
         /\ count \in Nat /\ done \in [Tids -> 0 .. count]
         /\ Script[3].op = "barrier" /\ Script[17].op = "barrier"
  <1>1. t \in Tids /\ ThreadStep(t) /\ IInv /\ TypeInv /\ bench = "metadata"
    BY DEF AtMeta
  <1>2. ShapeInv /\ count \in Counts /\ TypeOK
    BY <1>1 DEF IInv, ShapeInv, TypeInv
  <1>3. t \in Team /\ Len(Script) = 18 /\ at[t] \in 1 .. Len(Script) + 1 /\ count \in Nat
    BY <1>1, <1>2, ThreadFacts, MetadataPlaces
  <1>4. status[t] = "running"
    BY <1>1 DEF ThreadStep, Wait, Command, Skip, MakeDirectory, RemoveDirectory, Operate,
           OperationsOver, MakeFile, Reset, Reopen, Transfer, BatchOver, RemoveFile,
           Return, Runs
  <1>5. at[t] \in 1 .. 19
    BY <1>3
  <1>6. \A ops : Runs(t, ops) => at[t] \in 1 .. 18 /\ Script[at[t]].op \in ops
    BY <1>3 DEF Runs, Here
  <1>7. 3 \in 1 .. 18 /\ 17 \in 1 .. 18
    OBVIOUS
  <1>8. Script[3].op = "barrier" /\ Script[17].op = "barrier"
    BY <1>1, <1>2, <1>7, MetadataPlaces, Zenon
  <1>9. done \in [Tids -> 0 .. count]
    BY <1>2 DEF TypeOK
  <1> QED
    BY <1>3, <1>4, <1>5, <1>6, <1>8, <1>9

\* The steps of the data benchmark are not taken here.
LEMMA MetaActions ==
  ASSUME NEW t, AtMeta(t)
  PROVE  \/ Wait(t) \/ Command(t) \/ Skip(t) \/ Return(t)
         \/ MakeDirectory(t) \/ RemoveDirectory(t) \/ Operate(t) \/ OperationsOver(t)
  <1>1. count \in Counts /\ bench = "metadata" /\ ThreadStep(t)
    BY DEF AtMeta, IInv, ShapeInv
  <1>2. \A i \in 1 .. 18 : Script[i].op \in {"barrier", "mkdir", "create", "command", "open",
                                   "stat", "unlink", "rmdir"}
    BY <1>1, MetadataPlaces
  <1>3. ~ Runs(t, {"make"}) /\ ~ Runs(t, {"reset"}) /\ ~ Runs(t, {"reopen"})
        /\ ~ Runs(t, {"write", "read"}) /\ ~ Runs(t, {"remove"})
    BY <1>2, MetaHere
  <1> QED
    BY <1>1, <1>3 DEF ThreadStep, MakeFile, Reset, Reopen, Transfer, BatchOver, RemoveFile

\* Nobody makes or removes a directory, nor passes the place where it would.
LEMMA DirsQuiet ==
  ASSUME NEW t, AtMeta(t), Calm, UNCHANGED dirs,
         \A u \in Team :
           at'[u] = at[u] \/ (at'[u] = at[u] + 1 /\ (at[u] \in {2, 18} => ~ Manages(u)))
  PROVE  DirsThere'
  <1>1. IInv /\ TypeInv /\ RunInv /\ t \in Tids /\ ThreadStep(t) /\ bench = "metadata"
    BY DEF AtMeta
  <1>2. /\ Team' = Team /\ shared' = shared /\ rmdir' = rmdir /\ count' = count
    BY <1>1, StepFacts
  <1>3. Team \subseteq Tids /\ at \in [Tids -> 1 .. Len(Script) + 1] /\ Len(Script) = 18
    BY <1>1, TeamInTids, MetaHere DEF IInv, ShapeInv
  <1>4. DirsThere
    BY <1>1 DEF RunInv, MetaInv
  <1>5. \A u : Manages(u)' <=> Manages(u)
    BY <1>2 DEF Owner, Manages
  <1>6. ASSUME NEW u \in Team PROVE Made(u)' <=> Made(u)
    <2>1. at[u] \in 1 .. 19
      BY <1>3
    <2> QED
      BY <1>2, <1>5, <2>1 DEF Made
  <1> QED
    BY <1>2, <1>3, <1>4, <1>6 DEF DirsThere

\* Nobody works on a file, nor passes the place where it would.
LEMMA FilesQuiet ==
  ASSUME NEW t, AtMeta(t), Calm, UNCHANGED <<files, done>>,
         \A u \in Team :
           at'[u] = at[u] \/ (at'[u] = at[u] + 1 /\ at[u] \notin {4, 8, 12, 16})
  PROVE  FilesThere' /\ NoLoop'
  <1>1. IInv /\ TypeInv /\ RunInv /\ t \in Tids /\ ThreadStep(t) /\ bench = "metadata"
    BY DEF AtMeta
  <1>2. /\ Team' = Team /\ shared' = shared /\ rmdir' = rmdir /\ count' = count
    BY <1>1, StepFacts
  <1>3. /\ Team \subseteq Tids /\ at \in [Tids -> 1 .. Len(Script) + 1] /\ Len(Script) = 18
        /\ done \in [Tids -> 0 .. count] /\ count \in Nat
    BY <1>1, TeamInTids, MetaHere DEF IInv, ShapeInv
  <1>4. FilesThere /\ NoLoop
    BY <1>1 DEF RunInv, MetaInv
  <1>5. \A u : Owner(u)' = Owner(u)
    BY <1>2 DEF Owner
  <1>6. ASSUME NEW u \in Team
        PROVE  /\ \A i \in 0 .. count - 1 : Holds(u, i)' <=> Holds(u, i)
               /\ at'[u] \notin {4, 8, 12, 16} => done[u] = 0
    <2>1. at[u] \in 1 .. 19 /\ done[u] \in Nat
      BY <1>3
    <2>2. at[u] \notin {4, 8, 12, 16} => done[u] = 0
      BY <1>4 DEF NoLoop
    <2>3. CASE at'[u] = at[u]
      BY <1>2, <1>5, <2>2, <2>3 DEF Holds
    <2>4. CASE at'[u] = at[u] + 1 /\ at[u] \notin {4, 8, 12, 16}
      <3>1. \A i \in 0 .. count - 1 : Holds(u, i)' <=> Holds(u, i)
        BY <2>1, <2>2, <2>4 DEF Holds
      <3> QED
        BY <2>2, <2>4, <3>1
    <2> QED
      BY <2>3, <2>4
  <1>7. FilesThere'
    <2> SUFFICES ASSUME NEW f \in Files
                 PROVE  f \in files <=> /\ f.of \in Team /\ f.dir = Owner(f.of)
                                        /\ f.index < count /\ Holds(f.of, f.index)'
      BY <1>2, <1>5 DEF FilesThere
    <2>1. f.of \in Team /\ f.index < count => (Holds(f.of, f.index)' <=> Holds(f.of, f.index))
      <3>1. f.index \in Nat
        BY DEF Files
      <3> QED
        BY <1>3, <1>6, <3>1
    <2> QED
      BY <1>4, <2>1 DEF FilesThere
  <1>8. NoLoop'
    BY <1>2, <1>6 DEF NoLoop
  <1> QED
    BY <1>7, <1>8

\* A call that a place allows fails only for an external reason.
LEMMA MetaFails ==
  ASSUME NEW t, AtMeta(t), NEW possible \in BOOLEAN, Fails(t, possible),
         Calm => possible
  PROVE  RunInv'
  <1>1. /\ IInv /\ TypeInv /\ RunInv /\ t \in Tids /\ ThreadStep(t) /\ bench = "metadata"
        /\ main = "join"
    BY DEF AtMeta
  <1>2. /\ faults \in Nat /\ bench' = bench /\ littered' = littered /\ Team' = Team
        /\ rmdir' = rmdir /\ UNCHANGED options /\ faults' \in Nat
        /\ next' = next /\ faults' \in {faults, faults + 1}
    BY <1>1, StepFacts
  <1>3. /\ status' = [status EXCEPT ![t] = "failed"] /\ main' = "join" /\ at' = at
        /\ dirs' = dirs
    BY <1>1 DEF Fails, Fail, process, storage
  <1>4. Explained'
    <2>1. Calm => faults' = faults + 1
      BY DEF Fails, Inject
    <2>2. ~ Calm => Explained
      BY <1>1, <1>2 DEF Calm, Explained
    <2> QED
      BY <1>1, <1>2, <2>1, <2>2, StepFacts DEF Explained
  <1>5. ~ Calm'
    BY <1>1, <1>2, <1>4 DEF Explained, Calm
  <1>6. EndedInv' /\ KindInv'
    BY <1>1, <1>2, EndedStep, StepFacts
  <1>7. LitterInv'
    <2>1. main = "join" /\ faults' = 0 /\ littered' => faults = 0 /\ littered
      BY <1>2
    <2>2. 0 \in Tids /\ status \in [Tids -> Statuses]
      BY <1>1, TeamInTids DEF IInv, ShapeInv, Team, Tids
    <2>3. status'[0] \in {status[0], "failed"}
      BY <1>3, <2>2
    <2> QED
      BY <1>1, <1>2, <1>3, <2>1, <2>3 DEF RunInv, LitterInv
  <1>8. StartInv' /\ FailInv' /\ FreshInv' /\ TogetherInv' /\ MetaInv' /\ DataInv'
    BY <1>1, <1>2, <1>3, <1>4, <1>5 DEF StartInv, FailInv, FreshInv, TogetherInv, MetaInv, DataInv
  <1> QED
    BY <1>6, <1>7, <1>8 DEF RunInv


\* Thread 0 stays before its directory while that is still there.
LEMMA LitterStep ==
  ASSUME NEW t, AtMeta(t), main' = "join"
  PROVE  LitterInv'
  <1>1. /\ IInv /\ TypeInv /\ RunInv /\ t \in Tids /\ ThreadStep(t) /\ bench = "metadata"
        /\ main = "join" /\ count \in Counts
    BY DEF AtMeta, IInv, ShapeInv
  <1>2. /\ faults \in Nat /\ bench' = bench /\ littered' = littered /\ rmdir' = rmdir
        /\ next' = next /\ faults' \in {faults, faults + 1}
    BY <1>1, StepFacts
  <1>3. SUFFICES ASSUME faults' = 0, littered
                 PROVE  /\ rmdir = "ignored" /\ 0 \in dirs' /\ next = 0
                        /\ at'[0] <= 2 /\ status'[0] \in {"running", "waiting", "failed"}
    BY <1>1, <1>2 DEF LitterInv
  <1>4. /\ rmdir = "ignored" /\ 0 \in dirs /\ next = 0 /\ at[0] <= 2
        /\ status[0] \in {"running", "waiting", "failed"}
    BY <1>1, <1>2, <1>3 DEF RunInv, LitterInv
  <1>5. /\ 0 \in Tids /\ at[0] \in 1 .. 19 /\ Len(Script) = 18
        /\ status \in [Tids -> Statuses]
    <2>1. 0 \in Tids /\ at \in [Tids -> 1 .. Len(Script) + 1] /\ Len(Script) = 18
      BY <1>1, TeamInTids, MetaHere DEF IInv, ShapeInv, Team, Tids
    <2>2. 0 \in Tids /\ at[0] \in 1 .. 19
      BY <2>1
    <2> QED
      BY <1>1, <2>1, <2>2 DEF IInv, ShapeInv
  <1>6. \A i \in 1 .. 18 :
          /\ Script[i].op = "barrier" => i \in {1, 3, 5, 7, 9, 11, 13, 15, 17}
          /\ Script[i].op = "command" => i \in {6, 10, 14}
          /\ Script[i].op = "mkdir" => i = 2
          /\ Script[i].op = "create" => i = 4
          /\ Script[i].op = "open" => i = 8
          /\ Script[i].op = "stat" => i = 12
          /\ Script[i].op = "unlink" => i = 16
          /\ Script[i].op = "rmdir" => i = 18
    BY <1>1, MetadataPlaces
  <1>7. CASE Wait(t)
    <2>1. at[t] \in 1 .. 18 /\ Script[at[t]].op = "barrier" /\ dirs' = dirs
          /\ status[t] = "running"
      BY <1>7, MetaHere DEF Wait, storage
    <2>2. at'[0] # at[0] => at'[0] = at[0] + 1 /\ at[0] \in 1 .. 18
                            /\ Script[at[0]].op = "barrier"
      BY <1>1, <1>5, <2>1, PlaceStep DEF AtMeta
    <2>3. at'[0] <= 2
      BY <1>4, <1>5, <1>6, <2>2
    <2>4. status'[0] \in {status[0], "running", "waiting"}
      BY <1>5, <1>7 DEF Wait
    <2> QED
      BY <1>4, <2>1, <2>3, <2>4
  <1>8. CASE t # 0 /\ ~ Wait(t)
    <2>1. at'[0] = at[0] /\ status'[0] = status[0]
      <3>1. at \in [Tids -> 1 .. Len(Script) + 1]
        BY <1>1 DEF IInv, ShapeInv
      <3>2. Return(t) \/ Moves(t) \/ Stays(t) \/ Stops(t)
        BY <1>1, <1>8, StepKinds
      <3> QED
        BY <1>1, <1>5, <1>8, <3>1, <3>2 DEF Moves, Advance, Return, Stays, Stops, Fail
    <2>2. 0 \in dirs'
      <3>1. CASE MakeDirectory(t) \/ RemoveDirectory(t)
        BY <1>4, <3>1 DEF MakeDirectory, RemoveDirectory, Fails, Fail, storage
      <3>2. CASE ~ MakeDirectory(t) /\ ~ RemoveDirectory(t)
        BY <1>4, <1>8, <3>2, MetaActions
           DEF Command, Skip, Return, Operate, OperationsOver, Fails, Fail, storage
      <3> QED
        BY <3>1, <3>2
    <2> QED
      BY <1>4, <2>1, <2>2
  <1>9. CASE t = 0 /\ ~ Wait(t)
    <2>1. MakeDirectory(t)
      <3>1. ~ Command(t) /\ ~ RemoveDirectory(t) /\ ~ Operate(t) /\ ~ OperationsOver(t)
        BY <1>4, <1>6, <1>9, MetaHere DEF Command, RemoveDirectory, Operate, OperationsOver
      <3>2. ~ Skip(t)
        BY <1>9 DEF Skip, Manages, Owner
      <3>3. ~ Return(t)
        BY <1>4, <1>5, <1>9 DEF Return
      <3> QED
        BY <1>9, <3>1, <3>2, <3>3, MetaActions
    <2>2. Fail(t)
      BY <1>4, <1>9, <2>1 DEF MakeDirectory, Fails
    <2>3. at' = at /\ dirs' = dirs /\ status' = [status EXCEPT ![t] = "failed"]
      BY <1>1, <2>2 DEF Fail, storage
    <2>4. status'[0] = "failed"
      BY <1>5, <1>9, <2>3
    <2> QED
      BY <1>4, <2>3, <2>4
  <1> QED
    BY <1>7, <1>8, <1>9

\* A call that succeeds.
LEMMA MetaGoes ==
  ASSUME NEW t, AtMeta(t), UNCHANGED process,
         \A u \in Team : status'[u] = "failed" => status[u] = "failed",
         Calm /\ Calm' => DirsThere' /\ FilesThere' /\ NoLoop'
  PROVE  RunInv'
  <1>1. /\ IInv /\ TypeInv /\ RunInv /\ t \in Tids /\ ThreadStep(t) /\ bench = "metadata"
        /\ main = "join" /\ main' = "join"
    BY DEF AtMeta, process
  <1>2. /\ faults \in Nat /\ bench' = bench /\ littered' = littered /\ Team' = Team
        /\ UNCHANGED options /\ faults' \in {faults, faults + 1} /\ (Explained => Explained')
    BY <1>1, StepFacts
  <1>3. Calm' => Calm
    BY <1>1, <1>2 DEF Calm
  <1>4. EndedInv' /\ KindInv' /\ LitterInv'
    BY <1>1, <1>2, EndedStep, StepFacts, LitterStep
  <1>5. FailInv'
    BY <1>1, <1>2 DEF RunInv, FailInv
  <1>6. TogetherInv'
    BY <1>1, <1>2, <1>3, TogetherStep DEF RunInv, TogetherInv
  <1>7. MetaInv'
    BY <1>3 DEF MetaInv
  <1>8. StartInv' /\ FreshInv' /\ DataInv'
    BY <1>1, <1>2 DEF StartInv, FreshInv, DataInv
  <1> QED
    BY <1>4, <1>5, <1>6, <1>7, <1>8 DEF RunInv

\* The barrier, the command, what the managing thread alone performs, and the
\* end of the thread.
LEMMA MetaWait ==
  ASSUME NEW t, AtMeta(t), Wait(t) \/ Command(t) \/ Skip(t) \/ Return(t)
  PROVE  RunInv'
  <1>1. /\ IInv /\ TypeInv /\ t \in Tids /\ ThreadStep(t) /\ bench = "metadata"
        /\ count \in Counts /\ Team \subseteq Tids
    BY TeamInTids DEF AtMeta, IInv, ShapeInv
  <1>2. UNCHANGED <<process, dirs, files, done>>
    BY DEF Wait, Command, Skip, Return, Advance, process, storage
  <1>3. status \in [Tids -> Statuses] /\ at \in [Tids -> 1 .. Len(Script) + 1]
        /\ Len(Script) = 18
    BY <1>1, MetaHere DEF IInv, ShapeInv
  <1>4. \A u \in Team : status'[u] = "failed" => status[u] = "failed"
    BY <1>1, <1>3 DEF Wait, Command, Skip, Return, Advance
  <1>5. \A i \in 1 .. 18 :
          /\ Script[i].op = "barrier" => i \in {1, 3, 5, 7, 9, 11, 13, 15, 17}
          /\ Script[i].op = "command" => i \in {6, 10, 14}
          /\ Script[i].op = "mkdir" => i = 2
          /\ Script[i].op = "rmdir" => i = 18
          /\ Script[i].op \notin {"make", "remove"}
    BY <1>1, MetadataPlaces
  <1>6. ASSUME NEW u \in Team, at'[u] # at[u]
        PROVE  /\ at'[u] = at[u] + 1 /\ at[u] \notin {4, 8, 12, 16}
               /\ at[u] \in {2, 18} => ~ Manages(u)
    <2>1. at'[u] = at[u] + 1 /\ at[u] \in 1 .. 18 /\ (u # t => Script[at[u]].op = "barrier")
      <3>1. u \in Tids
        BY <1>1
      <3> QED
        BY <1>1, <1>3, <1>6, <3>1, PlaceStep
    <2>2. CASE Script[at[u]].op = "barrier"
      BY <1>5, <2>1, <2>2
    <2>3. CASE u = t /\ Script[at[t]].op # "barrier"
      <3>1. Command(t) \/ Skip(t)
        BY <1>6, <2>3, MetaHere DEF Wait, Return
      <3>2. \/ Script[at[t]].op = "command"
            \/ Script[at[t]].op \in {"mkdir", "rmdir", "make", "remove"} /\ ~ Manages(t)
        BY <3>1, MetaHere DEF Command, Skip
      <3> QED
        BY <1>5, <2>1, <2>3, <3>2
    <2> QED
      BY <2>1, <2>2, <2>3
  <1>7. Calm /\ Calm' => DirsThere' /\ FilesThere' /\ NoLoop'
    BY <1>2, <1>6, DirsQuiet, FilesQuiet
  <1> QED
    BY <1>2, <1>4, <1>7, MetaGoes


\* mkdir is possible, for the thread has not made its directory yet; rmdir, for
\* all files of the directory are removed before the barrier at 17.
LEMMA MetaDirectory ==
  ASSUME NEW t, AtMeta(t), MakeDirectory(t) \/ RemoveDirectory(t)
  PROVE  RunInv'
  <1>1. /\ IInv /\ TypeInv /\ RunInv /\ t \in Tids /\ ThreadStep(t) /\ bench = "metadata"
        /\ count \in Counts /\ Team \subseteq Tids
    BY TeamInTids DEF AtMeta, IInv, ShapeInv
  <1>2. at \in [Tids -> 1 .. Len(Script) + 1] /\ Len(Script) = 18 /\ t \in Team
    BY <1>1, MetaHere DEF IInv, ShapeInv
  <1>3. /\ shared' = shared /\ rmdir' = rmdir /\ Team' = Team
    BY <1>1, StepFacts
  <1>4. Calm => DirsThere /\ FilesThere /\ NoLoop /\ Together
    BY <1>1 DEF RunInv, MetaInv, TogetherInv
  <1>5. \A i \in 1 .. 18 : /\ Script[i].op = "mkdir" => i = 2
                           /\ Script[i].op = "rmdir" => i = 18
    BY <1>1, MetadataPlaces
  <1> DEFINE empty == \A f \in files : f.dir # t
  <1>6. CASE MakeDirectory(t)
    <2>1. at[t] = 2 /\ Manages(t)
      BY <1>5, <1>6, MetaHere DEF MakeDirectory
    <2>2. Calm => t \notin dirs
      BY <1>1, <1>4, <2>1 DEF DirsThere, Made
    <2>3. CASE Fails(t, t \notin dirs)
      BY <1>1, <2>2, <2>3, MetaFails
    <2>4. CASE /\ dirs' = dirs \cup {t} /\ Advance(t)
               /\ UNCHANGED <<options, done, drawn, files, extent, faults, littered>>
      <3>1. /\ at' = [at EXCEPT ![t] = @ + 1] /\ UNCHANGED <<status, process>>
        BY <2>4 DEF Advance
      <3>2. ASSUME Calm PROVE FilesThere' /\ NoLoop'
        <4>1. \A u \in Team : at'[u] = at[u] \/ (at'[u] = at[u] + 1 /\ at[u] \notin {4, 8, 12, 16})
          BY <1>1, <1>2, <2>1, <3>1
        <4> QED
          BY <2>4, <3>2, <4>1, FilesQuiet
      <3>3. ASSUME Calm PROVE DirsThere'
        <4>1. \A u : Manages(u)' <=> Manages(u)
          BY <1>3 DEF Owner, Manages
        <4>2. Made(t)'
          BY <1>1, <1>2, <2>1, <3>1, <4>1 DEF Made
        <4>3. \A u \in Tids \ {t} : Made(u)' <=> Made(u)
          BY <1>2, <1>3, <3>1, <4>1 DEF Made
        <4> QED
          BY <1>2, <1>3, <1>4, <2>4, <3>3, <4>2, <4>3 DEF DirsThere
      <3> QED
        BY <3>1, <3>2, <3>3, MetaGoes
    <2> QED
      BY <1>6, <2>3, <2>4 DEF MakeDirectory
  <1>7. CASE RemoveDirectory(t)
    <2>1. at[t] = 18 /\ Manages(t)
      BY <1>5, <1>7, MetaHere DEF RemoveDirectory
    <2>2. ASSUME Calm PROVE empty
      <3>1. SUFFICES ASSUME NEW f \in files PROVE FALSE
        OBVIOUS
      <3>2. f \in Files /\ f.of \in Team /\ Holds(f.of, f.index)
        <4>1. f \in Files
          BY <1>1 DEF TypeInv, TypeOK, Files
        <4> QED
          BY <1>4, <2>2, <4>1 DEF FilesThere
      <3>3. at[f.of] <= 17
        BY <1>1, <1>2, <3>2 DEF Holds
      <3>4. 17 \in 1 .. Len(Script) /\ Script[17].op = "barrier"
        BY <1>2, MetaHere
      <3>5. at[t] <= 17
        BY <1>1, <1>2, <1>4, <2>2, <3>2, <3>3, <3>4, SameSide
      <3> QED
        BY <2>1, <3>5
    <2> HIDE DEF empty
    <2>3. CASE Fails(t, rmdir = "ignored" \/ empty)
      <3>1. (rmdir = "ignored" \/ empty) \in BOOLEAN
        BY DEF empty
      <3> QED
        BY <1>1, <2>2, <2>3, <3>1, MetaFails
    <2>4. CASE /\ dirs' = IF rmdir = "ignored" THEN dirs ELSE dirs \ {t}
               /\ Advance(t)
               /\ UNCHANGED <<options, done, drawn, files, extent, faults, littered>>
      <3>1. /\ at' = [at EXCEPT ![t] = @ + 1] /\ UNCHANGED <<status, process>>
        BY <2>4 DEF Advance
      <3>2. ASSUME Calm PROVE FilesThere' /\ NoLoop'
        <4>1. \A u \in Team : at'[u] = at[u] \/ (at'[u] = at[u] + 1 /\ at[u] \notin {4, 8, 12, 16})
          BY <1>1, <1>2, <2>1, <3>1
        <4> QED
          BY <2>4, <3>2, <4>1, FilesQuiet
      <3>3. ASSUME Calm PROVE DirsThere'
        <4>1. \A u : Manages(u)' <=> Manages(u)
          BY <1>3 DEF Owner, Manages
        <4>2. Made(t)' <=> rmdir = "ignored"
          BY <1>1, <1>2, <1>3, <2>1, <3>1, <4>1 DEF Made
        <4>3. Made(t)
          BY <2>1 DEF Made
        <4>4. \A u \in Tids \ {t} : Made(u)' <=> Made(u)
          BY <1>2, <1>3, <3>1, <4>1 DEF Made
        <4> QED
          BY <1>2, <1>3, <1>4, <2>4, <3>3, <4>2, <4>3, <4>4 DEF DirsThere
      <3> QED
        BY <3>1, <3>2, <3>3, MetaGoes
    <2> QED
      BY <1>7, <2>3, <2>4 DEF RemoveDirectory, empty
  <1> QED
    BY <1>6, <1>7

\* The place of a loop over the objects.
LEMMA MetaLoop ==
  ASSUME NEW t, AtMeta(t), Runs(t, {"create", "open", "stat", "unlink"})
  PROVE  /\ Here(t).upto = count
         /\ \/ Here(t).op = "create" /\ at[t] = 4
            \/ Here(t).op = "open" /\ at[t] = 8
            \/ Here(t).op = "stat" /\ at[t] = 12
            \/ Here(t).op = "unlink" /\ at[t] = 16
  <1>1. bench = "metadata" /\ count \in Counts
    BY DEF AtMeta, IInv, ShapeInv
  <1>2. at[t] \in 1 .. 18 /\ Here(t).op \in {"create", "open", "stat", "unlink"}
    BY MetaHere DEF Here
  <1> QED
    BY <1>1, <1>2, MetadataPlaces DEF Here

\* The files of the team are all of one directory or each of its own: no two
\* threads have the same.
LEMMA MetaOperate ==
  ASSUME NEW t, AtMeta(t), Operate(t)
  PROVE  RunInv'
  <1>1. /\ IInv /\ TypeInv /\ RunInv /\ t \in Tids /\ ThreadStep(t) /\ bench = "metadata"
        /\ count \in Counts /\ Team \subseteq Tids
    BY TeamInTids DEF AtMeta, IInv, ShapeInv
  <1>2. /\ at \in [Tids -> 1 .. Len(Script) + 1] /\ Len(Script) = 18 /\ t \in Team
        /\ Owner(t) \in Team /\ done \in [Tids -> 0 .. count] /\ count \in Nat
        /\ status \in [Tids -> Statuses]
    BY <1>1, MetaHere, ThreadFacts DEF IInv, ShapeInv
  <1>3. /\ shared' = shared /\ rmdir' = rmdir /\ Team' = Team /\ count' = count
    BY <1>1, StepFacts
  <1>4. Calm => DirsThere /\ FilesThere /\ NoLoop /\ Together
    BY <1>1 DEF RunInv, MetaInv, TogetherInv
  <1>5. /\ done[t] \in Nat /\ done[t] < count
        /\ \/ Here(t).op = "create" /\ at[t] = 4
           \/ Here(t).op = "open" /\ at[t] = 8
           \/ Here(t).op = "stat" /\ at[t] = 12
           \/ Here(t).op = "unlink" /\ at[t] = 16
    BY <1>1, <1>2, MetaLoop DEF Operate
  <1> DEFINE o == Object(t)
  <1>6. o \in Files /\ o.of = t /\ o.dir = Owner(t) /\ o.index = done[t]
    BY <1>1, <1>2, <1>5 DEF Object, Files
  <1>7. \A f \in Files : f.dir = Owner(t) /\ f.of = t /\ f.index = done[t] => f = o
    BY DEF Object, Files
  <1> HIDE DEF o
  <1>8. ASSUME Calm PROVE Possible(t)
    <2>1. CASE Here(t).op = "create"
      <3>1. 3 \in 1 .. Len(Script) /\ Script[3].op = "barrier"
            /\ 17 \in 1 .. Len(Script) /\ Script[17].op = "barrier"
        BY <1>2, MetaHere
      <3>2. at[t] = 4
        BY <1>5, <2>1
      <3>3. at[Owner(t)] <= 17
        BY <1>1, <1>2, <1>4, <1>8, <3>1, <3>2, SameSide
      <3>4. ~ (at[Owner(t)] <= 3)
        <4>1. at[Owner(t)] <= 3 => at[t] <= 3
          BY <1>1, <1>2, <1>4, <1>8, <3>1, SameSide
        <4> QED
          BY <3>2, <4>1
      <3>5. at[Owner(t)] \in 1 .. 19
        BY <1>1, <1>2
      <3>6. Made(Owner(t))
        <4>1. Manages(Owner(t))
          BY DEF Manages, Owner
        <4> QED
          BY <3>3, <3>4, <3>5, <4>1 DEF Made
      <3> QED
        BY <1>1, <1>2, <1>4, <1>8, <2>1, <3>6 DEF Possible, DirsThere
    <2>2. CASE Here(t).op # "create"
      <3>1. Holds(t, done[t])
        BY <1>5, <2>2 DEF Holds
      <3>2. o \in files
        BY <1>2, <1>4, <1>5, <1>6, <1>8, <3>1 DEF FilesThere
      <3> QED
        BY <2>2, <3>2 DEF Possible, o
    <2> QED
      BY <2>1, <2>2
  <1>9. CASE Fails(t, Possible(t))
    <2>1. Possible(t) \in BOOLEAN
      <3>1. CASE Here(t).op = "create"
        BY <3>1 DEF Possible
      <3>2. CASE Here(t).op # "create"
        BY <3>2 DEF Possible
      <3> QED
        BY <3>1, <3>2
    <2> QED
      BY <1>8, <1>9, <2>1, MetaFails
  <1>10. CASE /\ done' = [done EXCEPT ![t] = @ + 1]
              /\ files' = CASE Here(t).op = "create" -> files \cup {o}
                            [] Here(t).op = "unlink" -> files \ {o}
                            [] OTHER -> files
              /\ UNCHANGED <<options, process, status, at, drawn, dirs, extent, faults, littered>>
    <2>1. at' = at /\ dirs' = dirs /\ status' = status /\ UNCHANGED process
      BY <1>10
    <2>2. ASSUME Calm PROVE DirsThere'
      BY <2>1, <2>2, DirsQuiet
    <2>3. done'[t] = done[t] + 1 /\ \A u \in Tids \ {t} : done'[u] = done[u]
      BY <1>1, <1>2, <1>10
    <2>4. ASSUME Calm PROVE NoLoop'
      <3>1. at[t] \in {4, 8, 12, 16}
        BY <1>5
      <3> QED
        BY <1>1, <1>3, <1>4, <2>1, <2>3, <2>4, <3>1 DEF NoLoop
    <2>5. ASSUME Calm PROVE FilesThere'
      <3>1. SUFFICES ASSUME NEW f \in Files
                     PROVE  f \in files' <=> /\ f.of \in Team /\ f.dir = Owner(f.of)
                                             /\ f.index < count /\ Holds(f.of, f.index)'
        BY <1>3 DEF FilesThere, Owner
      <3>2. f \in files <=> /\ f.of \in Team /\ f.dir = Owner(f.of)
                            /\ f.index < count /\ Holds(f.of, f.index)
        BY <1>4, <2>5 DEF FilesThere
      <3>3. f.index \in Nat /\ f.of \in Tids
        BY DEF Files
      <3>4. CASE f.of # t
        <4>1. Holds(f.of, f.index)' <=> Holds(f.of, f.index)
          BY <2>1, <2>3, <3>3, <3>4 DEF Holds
        <4>2. f # o
          BY <1>6, <3>4
        <4>3. f \in files' <=> f \in files
          BY <1>10, <4>2
        <4> QED
          BY <3>2, <4>1, <4>3
      <3>5. CASE f.of = t /\ f.dir = Owner(t)
        <4>1. f = o <=> f.index = done[t]
          BY <1>6, <1>7, <3>5
        <4>2. CASE at[t] = 4
          <5>1. files' = files \cup {o}
            BY <1>5, <1>10, <4>2
          <5>2. Holds(f.of, f.index)' <=> f.index < done[t] + 1
            BY <2>1, <2>3, <3>5, <4>2 DEF Holds
          <5>3. Holds(f.of, f.index) <=> f.index < done[t]
            BY <3>5, <4>2 DEF Holds
          <5> QED
            BY <1>2, <1>5, <3>2, <3>3, <3>5, <4>1, <5>1, <5>2, <5>3
        <4>3. CASE at[t] = 16
          <5>1. files' = files \ {o}
            BY <1>5, <1>10, <4>3
          <5>2. Holds(f.of, f.index)' <=> f.index >= done[t] + 1
            BY <2>1, <2>3, <3>5, <4>3 DEF Holds
          <5>3. Holds(f.of, f.index) <=> f.index >= done[t]
            BY <3>5, <4>3 DEF Holds
          <5> QED
            BY <1>2, <1>5, <3>2, <3>3, <3>5, <4>1, <5>1, <5>2, <5>3
        <4>4. CASE at[t] \in {8, 12}
          <5>1. files' = files
            BY <1>5, <1>10, <4>4
          <5>2. Holds(f.of, f.index)' <=> Holds(f.of, f.index)
            BY <2>1, <3>5, <4>4 DEF Holds
          <5> QED
            BY <3>2, <5>1, <5>2
        <4> QED
          BY <1>5, <4>2, <4>3, <4>4
      <3>6. CASE f.of = t /\ f.dir # Owner(t)
        <4>1. f # o
          BY <1>6, <3>6
        <4>2. f \in files' <=> f \in files
          BY <1>10, <4>1
        <4> QED
          BY <3>2, <3>6, <4>2
      <3> QED
        BY <3>4, <3>5, <3>6
    <2> QED
      BY <2>1, <2>2, <2>4, <2>5, MetaGoes
  <1> QED
    BY <1>9, <1>10 DEF Operate, o

\* A loop ends after its last object: all files are there, or none.
LEMMA MetaOver ==
  ASSUME NEW t, AtMeta(t), OperationsOver(t)
  PROVE  RunInv'
  <1>1. /\ IInv /\ TypeInv /\ RunInv /\ t \in Tids /\ ThreadStep(t) /\ bench = "metadata"
        /\ count \in Counts /\ Team \subseteq Tids
    BY TeamInTids DEF AtMeta, IInv, ShapeInv
  <1>2. /\ at \in [Tids -> 1 .. Len(Script) + 1] /\ Len(Script) = 18 /\ t \in Team
        /\ done \in [Tids -> 0 .. count] /\ count \in Nat
    BY <1>1, MetaHere DEF IInv, ShapeInv
  <1>3. /\ shared' = shared /\ rmdir' = rmdir /\ Team' = Team /\ count' = count
    BY <1>1, StepFacts
  <1>4. Calm => FilesThere /\ NoLoop
    BY <1>1 DEF RunInv, MetaInv
  <1>5. done[t] = count /\ at[t] \in {4, 8, 12, 16}
    BY MetaLoop DEF OperationsOver
  <1>6. /\ at' = [at EXCEPT ![t] = @ + 1] /\ done' = [done EXCEPT ![t] = 0]
        /\ UNCHANGED <<status, process, dirs, files>>
    BY DEF OperationsOver, Advance, storage
  <1>7. /\ at'[t] = at[t] + 1 /\ done'[t] = 0
        /\ \A u \in Tids \ {t} : at'[u] = at[u] /\ done'[u] = done[u]
    BY <1>1, <1>2, <1>6
  <1>8. ASSUME Calm PROVE DirsThere'
    <2>1. \A u \in Team :
            at'[u] = at[u] \/ (at'[u] = at[u] + 1 /\ (at[u] \in {2, 18} => ~ Manages(u)))
      BY <1>1, <1>5, <1>7
    <2> QED
      BY <1>6, <1>8, <2>1, DirsQuiet
  <1>9. ASSUME Calm PROVE NoLoop'
    BY <1>1, <1>3, <1>4, <1>7, <1>9 DEF NoLoop
  <1>10. ASSUME Calm PROVE FilesThere'
    <2>1. SUFFICES ASSUME NEW f \in Files, f.index < count
                   PROVE  Holds(f.of, f.index)' <=> Holds(f.of, f.index)
      BY <1>3, <1>4, <1>6, <1>10 DEF FilesThere, Owner
    <2>2. f.index \in Nat /\ f.of \in Tids
      BY DEF Files
    <2>3. CASE f.of = t
      <3>1. Holds(t, f.index)' <=> at[t] < 16
        BY <1>2, <1>5, <1>7, <2>2 DEF Holds
      <3>2. Holds(t, f.index) <=> at[t] < 16
        BY <1>2, <1>5, <2>1, <2>2 DEF Holds
      <3> QED
        BY <2>3, <3>1, <3>2
    <2>4. CASE f.of # t
      BY <1>7, <2>2, <2>4 DEF Holds
    <2> QED
      BY <2>3, <2>4
  <1> QED
    BY <1>6, <1>8, <1>9, <1>10, MetaGoes

\* Steps of metadata.c preserve RunInv.
LEMMA MetaStep ==
  ASSUME NEW t, AtMeta(t)
  PROVE  RunInv'
  BY MetaActions, MetaWait, MetaDirectory, MetaOperate, MetaOver


-----------------------------------------------------------------------------
(* The data benchmark at work                                              *)

AtData(t) ==
  /\ IInv /\ TypeInv /\ RunInv /\ main = "join" /\ bench = "data"
  /\ t \in Tids /\ ThreadStep(t)

\* Where a running thread of data.c can be.
LEMMA DataHere ==
  ASSUME NEW t, AtData(t)
  PROVE  /\ t \in Team /\ status[t] = "running" /\ Team \subseteq Tids
         /\ Parts \in Nat /\ Len(Script) = 11 + 4 * Parts
         /\ at \in [Tids -> 1 .. 12 + 4 * Parts]
         /\ \A ops : Runs(t, ops) => at[t] \in 1 .. 11 + 4 * Parts /\ Script[at[t]].op \in ops
         /\ count \in Nat /\ done \in [Tids -> 0 .. count] /\ drawn \in [Tids -> Nat]
         /\ (Parts = 0 => count = 0) /\ count \in Counts /\ faults \in Nat
  <1>1. t \in Tids /\ ThreadStep(t) /\ IInv /\ TypeInv /\ bench = "data"
    BY DEF AtData
  <1>2. ShapeInv /\ count \in Counts /\ TypeOK
    BY <1>1 DEF IInv, ShapeInv, TypeInv
  <1>3. /\ t \in Team /\ Team \subseteq Tids /\ Len(Script) = 11 + 4 * Parts
        /\ at \in [Tids -> 1 .. Len(Script) + 1]
        /\ Parts \in Nat /\ count \in Nat /\ (Parts = 0 => count = 0)
    BY <1>1, <1>2, ThreadFacts, DataPlaces, PartsFacts DEF ShapeInv
  <1>4. status[t] = "running"
    BY <1>1 DEF ThreadStep, Wait, Command, Skip, MakeDirectory, RemoveDirectory, Operate,
           OperationsOver, MakeFile, Reset, Reopen, Transfer, BatchOver, RemoveFile,
           Return, Runs
  <1>5. (11 + 4 * Parts) + 1 = 12 + 4 * Parts
    BY <1>3
  <1>6. at \in [Tids -> 1 .. 12 + 4 * Parts]
    BY <1>3, <1>5
  <1>7. \A ops : Runs(t, ops) => at[t] \in 1 .. 11 + 4 * Parts /\ Script[at[t]].op \in ops
    <2>1. at[t] \in 1 .. 12 + 4 * Parts
      BY <1>1, <1>6
    <2> QED
      BY <1>3, <2>1 DEF Runs, Here
  <1>8. done \in [Tids -> 0 .. count] /\ drawn \in [Tids -> Nat] /\ faults \in Nat
    BY <1>2 DEF TypeOK
  <1> QED
    BY <1>2, <1>3, <1>4, <1>6, <1>7, <1>8

\* What a running thread of data.c can do.
LEMMA DataActions ==
  ASSUME NEW t, AtData(t)
  PROVE  \/ Wait(t) \/ Command(t) \/ Skip(t) \/ Return(t)
         \/ MakeFile(t) \/ Reset(t) \/ Reopen(t) \/ Transfer(t) \/ BatchOver(t) \/ RemoveFile(t)
  <1>1. bench = "data" /\ ThreadStep(t) /\ t \in Tids /\ IInv /\ TypeInv
    BY DEF AtData
  <1>2. Proper(bench, count, Script) /\ Len(Script) = 11 + 4 * Parts
    BY <1>1, ThreadFacts, DataHere DEF IInv
  <1>3. \A i \in 1 .. Len(Script) :
          Script[i].op \notin {"mkdir", "rmdir", "create", "open", "stat", "unlink"}
    BY <1>1, <1>2 DEF Proper, Fits
  <1>4. /\ ~ Runs(t, {"mkdir"}) /\ ~ Runs(t, {"rmdir"})
        /\ ~ Runs(t, {"create", "open", "stat", "unlink"})
    BY <1>2, <1>3, DataHere
  <1> QED
    BY <1>1, <1>4 DEF ThreadStep, MakeDirectory, RemoveDirectory, Operate, OperationsOver

\* A failure ends the process; it must have had a reason.
LEMMA DataFails ==
  ASSUME NEW t, AtData(t), NEW possible \in BOOLEAN, Fails(t, possible),
         Explained \/ possible
  PROVE  RunInv'
  <1>1. /\ IInv /\ TypeInv /\ RunInv /\ t \in Tids /\ ThreadStep(t) /\ bench = "data"
        /\ main = "join"
    BY DEF AtData
  <1>2. main' = "aborted"
    BY <1>1 DEF Fails, Fail
  <1>3. Explained'
    <2>1. possible => faults' = faults + 1
      BY DEF Fails, Inject
    <2> QED
      BY <1>1, <2>1, StepFacts DEF Explained
  <1> QED
    BY <1>1, <1>2, <1>3, DestroyPhaseStep

\* What DataInv says of a thread.
Progress(t) == AllDone(t) /\ InStep(t) /\ Reached(t)

\* A call that succeeds.
LEMMA DataGoes ==
  ASSUME NEW t, AtData(t), UNCHANGED process,
         \A u \in Team : status'[u] = "failed" => status[u] = "failed",
         Calm /\ faults' = 0 => FileThere' /\ \A u \in Team : Progress(u)'
  PROVE  RunInv'
  <1>1. /\ IInv /\ TypeInv /\ RunInv /\ t \in Tids /\ ThreadStep(t) /\ bench = "data"
        /\ main = "join" /\ main' = "join"
    BY DEF AtData, process
  <1>2. /\ faults \in Nat /\ bench' = bench /\ Team' = Team
        /\ UNCHANGED options /\ faults' \in {faults, faults + 1} /\ (Explained => Explained')
    BY <1>1, StepFacts
  <1>3. faults' = 0 => Calm
    BY <1>1, <1>2 DEF Calm
  <1>4. EndedInv' /\ KindInv'
    BY <1>1, <1>2, EndedStep, StepFacts
  <1>5. FailInv'
    BY <1>1, <1>2 DEF RunInv, FailInv
  <1>6. TogetherInv'
    <2>1. Calm' => Calm
      BY <1>3 DEF Calm
    <2> QED
      BY <1>1, <1>2, <2>1, TogetherStep DEF RunInv, TogetherInv
  <1>7. DataInv'
    BY <1>2, <1>3 DEF DataInv, Progress
  <1>8. StartInv' /\ FreshInv' /\ LitterInv' /\ MetaInv'
    BY <1>1, <1>2 DEF StartInv, FreshInv, LitterInv, MetaInv
  <1> QED
    BY <1>4, <1>5, <1>6, <1>7, <1>8 DEF RunInv


\* A thread reads and writes at blocks of its file.
LEMMA OffsetType ==
  ASSUME TypeInv, NEW u \in Team, NEW x \in 0 .. count - 1
  PROVE  OffsetAt(u, x) \in Nat
  <1>1. count \in Nat /\ team \in Nat /\ u \in Nat /\ draw \in Draws /\ count \in Counts
    BY BoundsAssumption DEF TypeInv, TypeOK, Team
  <1>2. draw \in Seq(Nat) /\ Len(draw) >= count /\ Len(draw) \in Nat
    BY <1>1, BoundsAssumption, LenProperties
  <1>3. x \in Nat /\ x + 1 \in 1 .. Len(draw) /\ count \in Nat \ {0}
    BY <1>1, <1>2
  <1>4. draw[x + 1] \in Nat
    BY <1>2, <1>3, ElementOfSeq
  <1>5. draw[x + 1] % count \in Nat
    BY <1>3, <1>4, SMT
  <1> DEFINE i == IF random THEN draw[x + 1] % count ELSE x
  <1>6. i \in Nat
    BY <1>3, <1>5
  <1>7. OffsetAt(u, x) = IF shared THEN i * team + u ELSE i
    BY DEF OffsetAt
  <1> HIDE DEF i
  <1>8. i * team + u \in Nat
    BY <1>1, <1>6, SMT
  <1> QED
    BY <1>6, <1>7, <1>8

\* How a thread goes on without a transfer: past places that start no loop, past
\* reset_rand, or into a loop.
Goes(u) ==
  \/ at'[u] = at[u] /\ done'[u] = done[u] /\ drawn'[u] = drawn[u]
  \/ /\ at'[u] = at[u] + 1 /\ at[u] \notin {4, 9 + 2 * Parts, 5, 10 + 2 * Parts}
     /\ at[u] = 4 + 2 * Parts /\ Parts > 0 => done[u] = count
     /\ done'[u] = done[u] /\ drawn'[u] = drawn[u]
  \/ at'[u] = at[u] + 1 /\ at[u] \in {4, 9 + 2 * Parts} /\ done'[u] = done[u]
  \/ at'[u] = at[u] + 1 /\ at[u] \in {5, 10 + 2 * Parts} /\ done'[u] = 0 /\ drawn'[u] = 0

\* A thread that goes on keeps its progress when its file does not shrink.
LEMMA ProgressKept ==
  ASSUME NEW t, AtData(t), NEW u \in Team, Progress(u), Goes(u),
         \/ at'[Owner(u)] > Len(Script)
         \/ /\ extent'[Owner(u)] >= extent[Owner(u)]
            /\ extent[Owner(u)] \in Int /\ extent'[Owner(u)] \in Int
  PROVE  Progress(u)'
  <1> DEFINE m == Parts
             a == at[u]
             b == at'[u]
             d == done[u]
             e == done'[u]
             o == Owner(u)
  <1>1. /\ IInv /\ TypeInv /\ RunInv /\ t \in Tids /\ ThreadStep(t) /\ bench = "data"
    BY DEF AtData
  <1>2. /\ m \in Nat /\ count \in Nat /\ (m = 0 => count = 0) /\ u \in Tids
        /\ a \in 1 .. 12 + 4 * m /\ d \in 0 .. count /\ drawn[u] \in Nat /\ o \in Tids
        /\ Len(Script) = 11 + 4 * m
    <2>1. o \in Tids
      BY <1>1, TeamInTids DEF Owner, IInv, ShapeInv, Tids, Team
    <2> QED
      BY <2>1, DataHere
  <1>3. /\ Script' = Script /\ count' = count /\ shared' = shared /\ random' = random
        /\ draw' = draw /\ team' = team /\ Parts' = Parts
    BY <1>1, StepFacts DEF Parts
  <1>4. at'[o] <= Len(Script) => at[o] <= Len(Script)
    <2>1. at'[o] # at[o] => at[o] \in 1 .. Len(Script)
      BY <1>1, <1>2, PlaceStep
    <2> QED
      BY <1>2, <2>1
  <1>5. \/ b = a /\ e = d /\ drawn'[u] = drawn[u]
        \/ /\ b = a + 1 /\ a \notin {4, 9 + 2 * m, 5, 10 + 2 * m}
           /\ a = 4 + 2 * m /\ m > 0 => d = count
           /\ e = d /\ drawn'[u] = drawn[u]
        \/ b = a + 1 /\ a \in {4, 9 + 2 * m} /\ e = d
        \/ b = a + 1 /\ a \in {5, 10 + 2 * m} /\ e = 0 /\ drawn'[u] = 0
    BY Zenon DEF Goes
  <1>6. /\ a = 5 + 2 * m /\ m > 0 => d = count
        /\ random /\ (a \in 6 .. 5 + 2 * m \/ a \in 11 + 2 * m .. 10 + 4 * m) => drawn[u] = d
        /\ at[o] <= Len(Script) =>
             \A x \in 0 .. count - 1 :
               a >= 6 + 2 * m \/ (a \in 6 .. 5 + 2 * m /\ x < d) => OffsetAt(u, x) < extent[o]
    BY Zenon DEF Progress, AllDone, InStep, Reached, Written, InWrite, InRead
  <1>7. \A x : OffsetAt(u, x)' = OffsetAt(u, x)
    BY <1>3 DEF OffsetAt
  <1>8. \A x \in 0 .. count - 1 : OffsetAt(u, x) \in Nat
    BY <1>1, OffsetType
  <1> HIDE DEF m, a, b, d, e
  <1>9. b = 5 + 2 * m /\ m > 0 => e = count
    <2> SUFFICES ASSUME b = 5 + 2 * m, m > 0 PROVE e = count
      OBVIOUS
    <2>1. m \in Nat /\ a \in Nat
      BY <1>2
    <2>2. CASE b = a /\ e = d
      BY <1>6, <2>2
    <2>3. CASE b = a + 1
      <3>1. a = 4 + 2 * m
        BY <2>1, <2>3
      <3>2. a \notin {4, 9 + 2 * m, 5, 10 + 2 * m}
        BY <2>1, <3>1
      <3> QED
        BY <1>5, <2>1, <2>3, <3>1, <3>2
    <2> QED
      BY <1>5, <2>2, <2>3, Zenon
  <1>10. random /\ (b \in 6 .. 5 + 2 * m \/ b \in 11 + 2 * m .. 10 + 4 * m) => drawn'[u] = e
    BY <1>2, <1>5, <1>6
  <1>11. ASSUME at'[o] <= Len(Script), NEW x \in 0 .. count - 1,
                b >= 6 + 2 * m \/ (b \in 6 .. 5 + 2 * m /\ x < e)
         PROVE  OffsetAt(u, x) < extent'[o]
    <2>1. a >= 6 + 2 * m \/ (a \in 6 .. 5 + 2 * m /\ x < d)
      BY <1>2, <1>5, <1>6, <1>11
    <2>2. OffsetAt(u, x) < extent[o]
      BY <1>4, <1>6, <1>11, <2>1
    <2>3. extent'[o] >= extent[o] /\ extent[o] \in Int /\ extent'[o] \in Int
      <3>1. at'[o] \in Int /\ Len(Script) \in Int
        <4>1. at'[o] = at[o] \/ at'[o] = at[o] + 1
          BY <1>1, <1>2, PlaceStep
        <4>2. at[o] \in Int
          BY <1>2, DataHere
        <4> QED
          BY <1>2, <4>1, <4>2
      <3> QED
        BY <1>11, <3>1
    <2> QED
      BY <1>8, <2>2, <2>3
  <1>12. o' = o
    BY <1>3 DEF Owner
  <1>13. AllDone(u)' /\ InStep(u)'
    BY <1>3, <1>9, <1>10 DEF AllDone, InStep, InWrite, InRead, m, b, e
  <1>14. Reached(u)'
    BY <1>3, <1>7, <1>11, <1>12 DEF Reached, Written, InWrite, m, b, e
  <1> QED
    BY <1>13, <1>14 DEF Progress

\* No managing thread passes the place where it makes or removes its file.
LEMMA FileQuiet ==
  ASSUME NEW t, AtData(t), FileThere, UNCHANGED files,
         \A u \in Team :
           \/ at'[u] = at[u] \/ ~ Manages(u)
           \/ at'[u] = at[u] + 1 /\ at[u] \notin {2, Len(Script)}
  PROVE  FileThere'
  <1>1. IInv /\ TypeInv /\ RunInv /\ t \in Tids /\ ThreadStep(t)
    BY DEF AtData
  <1>2. /\ Script' = Script /\ Team' = Team /\ shared' = shared /\ Len(Script) \in Nat
    BY <1>1, StepFacts
  <1>3. \A u : Manages(u)' <=> Manages(u)
    BY <1>2 DEF Owner, Manages
  <1>4. ASSUME NEW u \in Team, Manages(u)
        PROVE  at'[u] > 2 /\ at'[u] <= Len(Script) <=> at[u] > 2 /\ at[u] <= Len(Script)
    <2>1. at[u] \in Int
      BY DataHere
    <2> QED
      BY <1>2, <1>4, <2>1
  <1> QED
    BY <1>2, <1>3, <1>4 DEF FileThere

\* The barriers of the script are outside of what matters here.
LEMMA DataBarrier ==
  ASSUME NEW t, AtData(t), NEW u \in Team, at[u] \in 1 .. Len(Script),
         Script[at[u]].op = "barrier"
  PROVE  /\ at[u] \notin {2, Len(Script), 4, 9 + 2 * Parts, 5, 10 + 2 * Parts}
         /\ ~ (at[u] = 4 + 2 * Parts /\ Parts > 0)
  <1> DEFINE i == at[u]
             m == Parts
  <1>1. bench = "data" /\ count \in Counts
    BY DEF AtData, IInv, ShapeInv
  <1>2. /\ \/ i \in {1, 3, 6 + 2 * m, 8 + 2 * m}
           \/ i \in 7 .. 5 + 2 * m
           \/ i \in 12 + 2 * m .. 10 + 4 * m
        /\ m > 0 /\ i = 4 + 2 * m => Script[i].op = "write"
    BY <1>1, DataPlaces, Zenon
  <1>3. m \in Nat /\ Len(Script) = 11 + 4 * m
    BY DataHere
  <1> HIDE DEF i, m
  <1>4. i \notin {2, 11 + 4 * m, 4, 9 + 2 * m, 5, 10 + 2 * m} /\ (m > 0 => i # 4 + 2 * m)
    <2>1. Script[i].op = "barrier"
      BY DEF i
    <2> QED
      BY <1>2, <1>3, <2>1
  <1> QED
    BY <1>3, <1>4 DEF i, m


\* A file has an extent.
LEMMA ExtentType ==
  ASSUME NEW t, AtData(t), NEW u \in Team
  PROVE  Owner(u) \in Tids /\ extent[Owner(u)] \in Nat
  <1>1. IInv /\ extent \in [Tids -> 0 .. count * team] /\ count \in Nat /\ team \in Nat
    BY DataHere, TeamInTids DEF AtData, TypeInv, TypeOK, IInv
  <1>2. Owner(u) \in Tids
    BY <1>1, DataHere, TeamInTids DEF Owner, IInv, Team, Tids
  <1>3. \A x \in 0 .. count * team : x \in Nat
    OBVIOUS
  <1> QED
    BY <1>1, <1>2, <1>3

\* Every thread but t goes on through a barrier only, and keeps its loop.
LEMMA OthersGo ==
  ASSUME NEW t, AtData(t), NEW u \in Team \ {t}
  PROVE  Goes(u) /\ (at'[u] = at[u] \/ (at'[u] = at[u] + 1 /\ at[u] \notin {2, Len(Script)}))
  <1>1. /\ IInv /\ TypeInv /\ t \in Tids /\ ThreadStep(t)
        /\ u \in Tids /\ done \in [Tids -> 0 .. count] /\ drawn \in [Tids -> Nat]
    BY DataHere DEF AtData
  <1>2. done'[u] = done[u] /\ drawn'[u] = drawn[u]
    BY <1>1, LoopStep DEF LoopKept, LoopOn, LoopOver, DrawnOver
  <1>3. CASE at'[u] = at[u]
    BY <1>2, <1>3 DEF Goes
  <1>4. CASE at'[u] # at[u]
    <2>1. at'[u] = at[u] + 1 /\ at[u] \in 1 .. Len(Script) /\ Script[at[u]].op = "barrier"
      BY <1>1, <1>4, PlaceStep
    <2>2. /\ at[u] \notin {2, Len(Script), 4, 9 + 2 * Parts, 5, 10 + 2 * Parts}
          /\ ~ (at[u] = 4 + 2 * Parts /\ Parts > 0)
      BY <2>1, DataBarrier
    <2> QED
      BY <1>2, <2>1, <2>2, Zenon DEF Goes
  <1> QED
    BY <1>3, <1>4

\* Nobody loses progress when no file shrinks.
LEMMA AllProgress ==
  ASSUME NEW t, AtData(t), Goes(t), \A u \in Team : Progress(u),
         \A u \in Team : at'[Owner(u)] > Len(Script) \/ extent'[Owner(u)] = extent[Owner(u)]
  PROVE  \A u \in Team : Progress(u)'
  <1> TAKE u \in Team
  <1>1. Goes(u)
    BY OthersGo
  <1>2. \/ at'[Owner(u)] > Len(Script)
        \/ /\ extent'[Owner(u)] >= extent[Owner(u)]
           /\ extent[Owner(u)] \in Int /\ extent'[Owner(u)] \in Int
    <2>1. extent[Owner(u)] \in Nat
      BY ExtentType
    <2> QED
      BY <2>1
  <1> QED
    BY <1>1, <1>2, ProgressKept

\* What is at the places.
LEMMA DataPlace ==
  ASSUME NEW t, AtData(t), at[t] \in 1 .. 11 + 4 * Parts
  PROVE  LET m == Parts
             i == at[t]
             s == Script[i]
         IN  /\ s.op = "make" => i = 2
             /\ s.op = "reset" => i \in {4, 9 + 2 * m}
             /\ s.op = "reopen" => i \in {5, 10 + 2 * m}
             /\ s.op = "write" => i \in 6 .. 5 + 2 * m /\ i # 5 + 2 * m
             /\ s.op = "command" => i = 7 + 2 * m
             /\ s.op = "read" => i \in 11 + 2 * m .. 10 + 4 * m
             /\ s.op = "remove" => i = 11 + 4 * m
             /\ m > 0 /\ i = 4 + 2 * m => s.op = "write" /\ s.upto = count
  <1>1. bench = "data" /\ count \in Counts /\ Len(Script) = 11 + 4 * Parts /\ Parts \in Nat
    BY DataHere DEF AtData, IInv, ShapeInv
  <1>2. at[t] \in 1 .. Len(Script)
    BY <1>1
  <1> DEFINE m == Parts
             i == at[t]
             s == Script[i]
  <1>3. /\ s.op = "make" => i = 2
        /\ s.op = "reset" => i \in {4, 9 + 2 * m}
        /\ s.op = "reopen" => i \in {5, 10 + 2 * m}
        /\ s.op = "write" => i \in 6 .. 5 + 2 * m
        /\ s.op = "command" => i = 7 + 2 * m
        /\ s.op = "read" => i \in 11 + 2 * m .. 10 + 4 * m
        /\ s.op = "remove" => i = Len(Script)
        /\ \/ i \in {1, 3, 6 + 2 * m}
           \/ m > 0 /\ i \in {5 + 2 * m, 10 + 4 * m}
           => s.op = "barrier"
        /\ m > 0 /\ i = 4 + 2 * m => s.op = "write" /\ s.upto = count
    BY <1>1, <1>2, DataPlaces, Zenon
  <1>4. m \in Nat
    BY <1>1
  <1> HIDE DEF m, i, s
  <1>5. s.op = "write" => i \in 6 .. 5 + 2 * m /\ i # 5 + 2 * m
    <2>1. i \in 6 .. 5 + 2 * m /\ i = 5 + 2 * m => m > 0
      BY <1>4
    <2> QED
      BY <1>3, <2>1
  <1>6. Len(Script) = 11 + 4 * m
    BY <1>1 DEF m
  <1> QED
    BY <1>3, <1>5, <1>6, Zenon DEF m, i, s

\* The barrier, the command, what the managing thread alone performs, the end of
\* a batch and of the thread.
LEMMA DataWait ==
  ASSUME NEW t, AtData(t), Wait(t) \/ Command(t) \/ Skip(t) \/ Return(t) \/ BatchOver(t)
  PROVE  RunInv'
  <1>1. IInv /\ TypeInv /\ RunInv /\ t \in Tids /\ ThreadStep(t) /\ main = "join"
        /\ bench = "data"
    BY DEF AtData
  <1>2. UNCHANGED <<process, files, extent, done, drawn>>
    BY DEF Wait, Command, Skip, Return, BatchOver, Advance, process, storage
  <1>3. \A u \in Team : status'[u] = "failed" => status[u] = "failed"
    <2>1. status \in [Tids -> Statuses] /\ Team \subseteq Tids
      BY <1>1, DataHere DEF IInv, ShapeInv
    <2> QED
      BY <1>1, <2>1 DEF Wait, Command, Skip, Return, BatchOver, Advance
  <1>4. /\ t \in Team /\ at \in [Tids -> 1 .. 12 + 4 * Parts] /\ Parts \in Nat
        /\ Len(Script) = 11 + 4 * Parts
    BY DataHere
  <1>6. /\ Goes(t)
        /\ at'[t] = at[t] \/ ~ Manages(t) \/ (at'[t] = at[t] + 1 /\ at[t] \notin {2, Len(Script)})
    <2>1. CASE at'[t] = at[t]
      BY <1>2, <2>1 DEF Goes
    <2>2. CASE at'[t] # at[t]
      <3>1. at'[t] = at[t] + 1 /\ at[t] \in 1 .. Len(Script)
        BY <1>1, <2>2, PlaceStep
      <3>2. /\ at[t] \in 1 .. 11 + 4 * Parts
            /\ \/ Script[at[t]].op = "barrier"
               \/ Script[at[t]].op = "command"
               \/ Script[at[t]].op \in {"mkdir", "rmdir", "make", "remove"} /\ ~ Manages(t)
               \/ Script[at[t]].op \in {"write", "read"} /\ done[t] = Script[at[t]].upto
        <4>1. \A ops : Runs(t, ops) => at[t] \in 1 .. 11 + 4 * Parts /\ Script[at[t]].op \in ops
          BY DataHere, Zenon
        <4>2. CASE Wait(t)
          BY <4>1, <4>2 DEF Wait
        <4>3. CASE Command(t)
          BY <4>1, <4>3 DEF Command
        <4>4. CASE Skip(t)
          BY <4>1, <4>4 DEF Skip
        <4>5. CASE Return(t)
          BY <2>2, <4>5 DEF Return
        <4>6. CASE BatchOver(t)
          BY <4>1, <4>6 DEF BatchOver, Here
        <4> QED
          BY <4>2, <4>3, <4>4, <4>5, <4>6
      <3>3. /\ at[t] \notin {4, 9 + 2 * Parts, 5, 10 + 2 * Parts}
            /\ at[t] = 4 + 2 * Parts /\ Parts > 0 => done[t] = count
            /\ ~ Manages(t) \/ at[t] \notin {2, Len(Script)}
        <4>1. CASE Script[at[t]].op = "barrier"
          BY <1>4, <3>1, <4>1, DataBarrier
        <4>2. CASE Script[at[t]].op # "barrier"
          <5> DEFINE i == at[t]
                     m == Parts
                     s == Script[i]
          <5>1. /\ s.op = "make" => i = 2
                /\ s.op = "write" => i \in 6 .. 5 + 2 * m /\ i # 5 + 2 * m
                /\ s.op = "command" => i = 7 + 2 * m
                /\ s.op = "read" => i \in 11 + 2 * m .. 10 + 4 * m
                /\ s.op = "remove" => i = 11 + 4 * m
                /\ m > 0 /\ i = 4 + 2 * m => s.op = "write" /\ s.upto = count
            BY <3>2, DataPlace
          <5>2. /\ s.op = "command" \/ (s.op \in {"make", "remove"} /\ ~ Manages(t))
                   \/ (s.op \in {"write", "read"} /\ done[t] = s.upto)
                /\ m \in Nat /\ Len(Script) = 11 + 4 * m
            <6>1. s.op \notin {"mkdir", "rmdir"}
              <7>1. bench = "data" /\ count \in Counts
                BY <1>1 DEF IInv, ShapeInv
              <7>2. s.op \in {"barrier", "make", "reset", "reopen", "write", "command",
                              "read", "remove"}
                BY <3>1, <7>1, DataPlaces, Zenon
              <7> QED
                BY <7>2
            <6> QED
              BY <1>4, <3>2, <4>2, <6>1
          <5> HIDE DEF i, m, s
          <5>3. /\ i \notin {4, 9 + 2 * m, 5, 10 + 2 * m}
                /\ i = 4 + 2 * m /\ m > 0 => done[t] = count
                /\ ~ Manages(t) \/ i \notin {2, Len(Script)}
            <6>1. CASE s.op = "command"
              BY <5>1, <5>2, <6>1
            <6>2. CASE s.op = "make"
              BY <5>1, <5>2, <6>2
            <6>3. CASE s.op = "remove"
              BY <5>1, <5>2, <6>3
            <6>4. CASE s.op = "write"
              <7>1. i \in 6 .. 4 + 2 * m
                BY <5>1, <5>2, <6>4
              <7> QED
                BY <5>1, <5>2, <6>4, <7>1
            <6>5. CASE s.op = "read"
              BY <5>1, <5>2, <6>5
            <6> QED
              BY <5>2, <6>1, <6>2, <6>3, <6>4, <6>5
          <5> QED
            BY <5>3, Zenon DEF i, m
        <4> QED
          BY <4>1, <4>2
      <3> QED
        BY <1>2, <3>1, <3>3, Zenon DEF Goes
    <2> QED
      BY <2>1, <2>2
  <1>7. ASSUME Calm PROVE FileThere' /\ \A u \in Team : Progress(u)'
    <2>1. FileThere /\ \A u \in Team : Progress(u)
      BY <1>1, <1>7 DEF RunInv, DataInv, Calm, Progress
    <2>2. \A u \in Team : \/ at'[u] = at[u] \/ ~ Manages(u)
                          \/ at'[u] = at[u] + 1 /\ at[u] \notin {2, Len(Script)}
      BY <1>6, OthersGo
    <2>3. \A u \in Team : Progress(u)'
      BY <1>2, <1>6, <2>1, AllProgress
    <2> QED
      BY <1>2, <2>1, <2>2, <2>3, FileQuiet
  <1> QED
    BY <1>2, <1>3, <1>7, DataGoes


\* open(O_CREAT) and unlink by the managing thread.
LEMMA DataFile ==
  ASSUME NEW t, AtData(t), MakeFile(t) \/ RemoveFile(t)
  PROVE  RunInv'
  <1>1. IInv /\ TypeInv /\ RunInv /\ t \in Tids /\ ThreadStep(t) /\ main = "join"
        /\ bench = "data"
    BY DEF AtData
  <1>2. /\ at' = [at EXCEPT ![t] = @ + 1] /\ UNCHANGED <<status, process, done, drawn>>
        /\ Manages(t) /\ Runs(t, {"make", "remove"})
    BY DEF MakeFile, RemoveFile, Advance, Runs
  <1>3. /\ t \in Team /\ at \in [Tids -> 1 .. 12 + 4 * Parts] /\ Parts \in Nat
        /\ Len(Script) = 11 + 4 * Parts /\ faults \in Nat /\ Team \subseteq Tids
    BY DataHere
  <1>4. /\ Script' = Script /\ Team' = Team /\ shared' = shared
    BY <1>1, StepFacts
  <1>5. at'[t] = at[t] + 1 /\ \A u \in Tids \ {t} : at'[u] = at[u]
    BY <1>1, <1>2, <1>3
  <1>6. /\ MakeFile(t) => at[t] = 2
        /\ RemoveFile(t) => at[t] = Len(Script)
    <2>1. /\ MakeFile(t) => at[t] \in 1 .. 11 + 4 * Parts /\ Script[at[t]].op = "make"
          /\ RemoveFile(t) => at[t] \in 1 .. 11 + 4 * Parts /\ Script[at[t]].op = "remove"
      BY DataHere DEF MakeFile, RemoveFile
    <2>2. at[t] \in 1 .. 11 + 4 * Parts =>
            /\ Script[at[t]].op = "make" => at[t] = 2
            /\ Script[at[t]].op = "remove" => at[t] = 11 + 4 * Parts
      BY DataPlace
    <2> QED
      BY <1>3, <2>1, <2>2
  <1>7. Goes(t)
    <2>1. /\ at[t] \notin {4, 9 + 2 * Parts, 5, 10 + 2 * Parts}
          /\ ~ (at[t] = 4 + 2 * Parts /\ Parts > 0)
      <3> DEFINE m == Parts
      <3>1. m \in Nat /\ at[t] \in {2, 11 + 4 * m}
        BY <1>3, <1>6
      <3> HIDE DEF m
      <3>2. at[t] \notin {4, 9 + 2 * m, 5, 10 + 2 * m} /\ ~ (at[t] = 4 + 2 * m /\ m > 0)
        BY <3>1
      <3> QED
        BY <3>2 DEF m
    <2> QED
      BY <1>2, <1>5, <2>1, Zenon DEF Goes
  <1>8. ASSUME Calm, faults' = 0 PROVE FileThere' /\ \A u \in Team : Progress(u)'
    <2>1. FileThere /\ \A u \in Team : Progress(u)
      BY <1>1, <1>8 DEF RunInv, DataInv, Calm, Progress
    <2>2. faults' # faults + 1
      BY <1>3, <1>8
    <2>3. File(t) \in Files /\ \A f \in Files : f.of = t /\ f.dir = t /\ f.index = 0 <=> f = File(t)
      BY <1>1, <1>2 DEF File, Files, Manages
    <2>4. \A u : Manages(u)' <=> Manages(u)
      BY <1>4 DEF Owner, Manages
    <2>5. CASE MakeFile(t)
      <3>1. files' = files \cup {File(t)} /\ extent' = extent
        BY <2>2, <2>5 DEF MakeFile, Inject
      <3>2. FileThere'
        <4>1. at'[t] > 2 /\ at'[t] <= Len(Script) /\ ~ (at[t] > 2)
          BY <1>3, <1>5, <1>6, <2>5
        <4> QED
          BY <1>2, <1>3, <1>4, <1>5, <2>1, <2>3, <2>4, <3>1, <4>1 DEF FileThere
      <3> QED
        BY <1>7, <2>1, <3>1, <3>2, AllProgress
    <2>6. CASE RemoveFile(t)
      <3>1. files' = files \ {File(t)} /\ extent' = [extent EXCEPT ![t] = 0]
        BY <2>2, <2>6 DEF RemoveFile, Inject
      <3>2. ~ (at'[t] <= Len(Script)) /\ at'[t] > Len(Script)
        BY <1>3, <1>5, <1>6, <2>6
      <3>3. FileThere'
        BY <1>2, <1>3, <1>4, <1>5, <2>1, <2>3, <2>4, <3>1, <3>2 DEF FileThere
      <3>4. \A u \in Team : at'[Owner(u)] > Len(Script) \/ extent'[Owner(u)] = extent[Owner(u)]
        BY <3>1, <3>2
      <3> QED
        BY <1>7, <2>1, <3>3, <3>4, AllProgress
    <2> QED
      BY <2>5, <2>6
  <1> QED
    BY <1>2, <1>8, DataGoes

\* reset_rand.
LEMMA DataReset ==
  ASSUME NEW t, AtData(t), Reset(t)
  PROVE  RunInv'
  <1>1. IInv /\ TypeInv /\ RunInv /\ t \in Tids /\ ThreadStep(t) /\ main = "join"
        /\ bench = "data"
    BY DEF AtData
  <1>2. /\ at' = [at EXCEPT ![t] = @ + 1] /\ UNCHANGED <<status, process, done, files, extent>>
        /\ Runs(t, {"reset"})
    BY DEF Reset, Advance, storage
  <1>3. /\ t \in Team /\ at \in [Tids -> 1 .. 12 + 4 * Parts] /\ Parts \in Nat
        /\ Len(Script) = 11 + 4 * Parts
    BY DataHere
  <1>4. at[t] \in {4, 9 + 2 * Parts} /\ at'[t] = at[t] + 1
    <2>1. at[t] \in 1 .. 11 + 4 * Parts /\ Script[at[t]].op = "reset"
      BY <1>2, DataHere, SMTT(30)
    <2> QED
      BY <1>1, <1>2, <1>3, <2>1, DataPlace
  <1>5. Goes(t)
    BY <1>2, <1>4, Zenon DEF Goes
  <1>6. ASSUME Calm PROVE FileThere' /\ \A u \in Team : Progress(u)'
    <2>1. FileThere /\ \A u \in Team : Progress(u)
      BY <1>1, <1>6 DEF RunInv, DataInv, Calm, Progress
    <2>2. at[t] \notin {2, Len(Script)}
      BY <1>3, <1>4
    <2>3. FileThere'
      BY <1>2, <1>4, <2>1, <2>2, OthersGo, FileQuiet
    <2> QED
      BY <1>2, <1>5, <2>1, <2>3, AllProgress
  <1> QED
    BY <1>2, <1>6, DataGoes

\* The file is there: its owner is past the barrier at 3, and not past the one
\* before the removal if there are blocks.
LEMMA DataReopen ==
  ASSUME NEW t, AtData(t), Reopen(t)
  PROVE  RunInv'
  <1>1. IInv /\ TypeInv /\ RunInv /\ t \in Tids /\ ThreadStep(t) /\ main = "join"
        /\ bench = "data" /\ count \in Counts
    BY DEF AtData, IInv, ShapeInv
  <1> DEFINE m == Parts
             o == Owner(t)
  <1>2. /\ t \in Team /\ at \in [Tids -> 1 .. 12 + 4 * m] /\ m \in Nat
        /\ Len(Script) = 11 + 4 * m /\ (m = 0 => count = 0)
        /\ o \in Team /\ o \in Tids /\ Team \subseteq Tids
    BY <1>1, DataHere, ThreadFacts DEF IInv
  <1>3. at[t] \in {5, 10 + 2 * m}
    <2>1. at[t] \in 1 .. 11 + 4 * Parts /\ Script[at[t]].op = "reopen"
      BY DataHere DEF Reopen
    <2> QED
      BY <2>1, DataPlace
  <1>4. \A i \in 1 .. Len(Script) :
          \/ i \in {1, 3, 6 + 2 * m}
          \/ m > 0 /\ i \in {5 + 2 * m, 10 + 4 * m}
          => Script[i].op = "barrier"
    BY <1>1, DataPlaces, Zenon
  <1>5. /\ done[t] \in Nat /\ drawn[t] = 0
    <2>1. Runs(t, {"reopen"}) /\ done \in [Tids -> 0 .. count] /\ count \in Nat
      BY DataHere DEF Reopen
    <2>2. drawn[t] = 0
      BY <1>1, <2>1 DEF TypeInv, DrawnInv, Runs
    <2>3. \A x \in 0 .. count : x \in Nat
      BY <2>1
    <2> QED
      BY <1>1, <2>1, <2>2, <2>3
  <1> HIDE DEF m, o
  <1>6. ASSUME ~ Explained PROVE File(t) \in files
    <2>1. Calm /\ Together /\ FileThere
      BY <1>1, <1>6, DataHere DEF Explained, Calm, RunInv, TogetherInv, DataInv
    <2>2. at[o] \in Int /\ at[t] \in Int
      BY <1>1, <1>2
    <2>3. ~ (at[o] <= 3)
      <3>1. 3 \in 1 .. Len(Script) /\ Script[3].op = "barrier"
        <4>1. 3 \in 1 .. Len(Script) /\ 3 \in {1, 3, 6 + 2 * m}
          BY <1>2
        <4> QED
          BY <1>4, <4>1, Zenon
      <3>2. at[o] <= 3 => at[t] <= 3
        BY <1>1, <1>2, <2>1, <3>1, SameSide
      <3> QED
        BY <1>2, <1>3, <2>2, <3>2
    <2>4. at[o] <= Len(Script)
      <3>1. CASE m > 0
        <4>1. 10 + 4 * m \in 1 .. Len(Script) /\ Script[10 + 4 * m].op = "barrier"
          <5>1. 10 + 4 * m \in 1 .. Len(Script)
            BY <1>2
          <5> QED
            BY <1>4, <3>1, <5>1, Zenon
        <4>2. at[t] <= 10 + 4 * m
          BY <1>2, <1>3
        <4>3. at[o] <= 10 + 4 * m
          BY <1>1, <1>2, <2>1, <4>1, <4>2, SameSide
        <4> QED
          BY <1>2, <2>2, <4>3
      <3>2. CASE m = 0
        <4>1. o = t
          <5>1. count = 0 /\ team \in Nat
            BY <1>1, <1>2, <3>2, TeamInTids DEF IInv
          <5>2. ~ (shared /\ team > 1)
            BY <1>1, <1>6, <5>1 DEF Explained
          <5> QED
            BY <1>2, <5>1, <5>2 DEF Owner, Team, o
        <4> QED
          BY <1>2, <1>3, <2>2, <3>2, <4>1
      <3> QED
        BY <1>2, <3>1, <3>2
    <2>5. File(t) \in Files /\ File(t).of = o /\ File(t).dir = o /\ File(t).index = 0
      BY <1>2 DEF File, Files, o
    <2>6. Manages(o)
      BY DEF Manages, Owner, o
    <2> QED
      BY <1>2, <2>1, <2>2, <2>3, <2>4, <2>5, <2>6 DEF FileThere
  <1>7. CASE Fails(t, File(t) \in files)
    <2> DEFINE there == File(t) \in files
    <2>1. there \in BOOLEAN /\ Fails(t, there) /\ (~ Explained => there)
      BY <1>6, <1>7
    <2> HIDE DEF there
    <2> QED
      BY <2>1, DataFails
  <1>8. CASE /\ done' = [done EXCEPT ![t] = 0] /\ Advance(t)
             /\ UNCHANGED <<options, drawn, storage, faults, littered>>
    <2>1. /\ at' = [at EXCEPT ![t] = @ + 1] /\ UNCHANGED <<status, process, files, extent>>
          /\ at'[t] = at[t] + 1 /\ done'[t] = 0 /\ drawn'[t] = 0
      <3>1. at' = [at EXCEPT ![t] = @ + 1] /\ UNCHANGED <<status, process, files, extent, drawn>>
        BY <1>8 DEF Advance, storage
      <3>2. at'[t] = at[t] + 1
        BY <1>1, <1>2, <3>1
      <3>3. done'[t] = 0
        BY <1>1, <1>8, DataHere
      <3> QED
        BY <1>5, <3>1, <3>2, <3>3
    <2>2. Goes(t)
      BY <1>3, <2>1, Zenon DEF Goes, m
    <2>3. ASSUME Calm PROVE FileThere' /\ \A u \in Team : Progress(u)'
      <3>1. FileThere /\ \A u \in Team : Progress(u)
        BY <1>1, <2>3 DEF RunInv, DataInv, Calm, Progress
      <3>2. at[t] \notin {2, Len(Script)}
        BY <1>2, <1>3
      <3>3. FileThere'
        BY <2>1, <3>1, <3>2, OthersGo, FileQuiet
      <3> QED
        BY <2>1, <2>2, <3>1, <3>3, AllProgress
    <2> QED
      BY <2>1, <2>3, DataGoes
  <1> QED
    BY <1>7, <1>8 DEF Reopen

\* A thread reads what all threads have written before the barrier: the file
\* reaches past every offset of get_offset, whichever blocks were drawn.
LEMMA DataTransfer ==
  ASSUME NEW t, AtData(t), Transfer(t)
  PROVE  RunInv'
  <1>1. IInv /\ TypeInv /\ RunInv /\ t \in Tids /\ ThreadStep(t) /\ main = "join"
        /\ bench = "data" /\ ShapeInv
    BY DEF AtData, IInv
  <1> DEFINE m == Parts
             o == Owner(t)
             d == done[t]
             x == Offset(t)
  <1>2. /\ t \in Team /\ at \in [Tids -> 1 .. 12 + 4 * m] /\ m \in Nat /\ Team \subseteq Tids
        /\ Len(Script) = 11 + 4 * m /\ o \in Tids /\ extent[o] \in Nat /\ count \in Nat
        /\ done \in [Tids -> 0 .. count] /\ drawn \in [Tids -> Nat]
        /\ extent \in [Tids -> 0 .. count * team]
    BY <1>1, DataHere, ExtentType DEF TypeInv, TypeOK
  <1>3. d \in 0 .. count - 1 /\ x \in Nat
    <2>1. at[t] <= Len(Script) /\ done[t] < Here(t).upto
      BY DEF Transfer, Runs
    <2>2. x \in 0 .. count * team - 1
      BY <1>1, <2>1, OffsetBelow
    <2>3. Here(t).upto \in 0 .. count
      BY <1>1, <2>1, ThreadFacts DEF Proper, Fits, Here
    <2>4. d \in Nat
      BY <1>1, <1>2
    <2>5. team \in Nat
      BY <1>1, TeamInTids
    <2>6. x \in Nat
      BY <2>2
    <2> QED
      BY <1>2, <2>1, <2>3, <2>4, <2>6
  <1>4. /\ Here(t).op = "write" => at[t] \in 6 .. 5 + 2 * m /\ at[t] # 5 + 2 * m
        /\ Here(t).op = "read" => at[t] \in 11 + 2 * m .. 10 + 4 * m
        /\ Here(t).op \in {"write", "read"}
    <2>1. at[t] \in 1 .. 11 + 4 * Parts /\ Here(t).op \in {"write", "read"}
      BY DataHere DEF Transfer, Here
    <2> QED
      BY <2>1, DataPlace DEF Here
  <1>5. ASSUME Calm
        PROVE  /\ FileThere /\ Together /\ \A u \in Team : Progress(u)
               /\ x = OffsetAt(t, d)
    <2>1. FileThere /\ Together /\ \A u \in Team : Progress(u)
      BY <1>1, <1>5 DEF RunInv, DataInv, Calm, Progress, TogetherInv
    <2>2. random => drawn[t] = d
      BY <1>2, <1>4, <2>1 DEF Progress, InStep, InWrite, InRead
    <2>3. x = OffsetAt(t, d)
      BY <2>2 DEF Offset, OffsetAt
    <2> QED
      BY <2>1, <2>3
  <1> DEFINE reads == Here(t).op = "read" => x < extent[o]
  <1>6. ASSUME ~ Explained PROVE reads
    <2>1. SUFFICES ASSUME Here(t).op = "read" PROVE x < extent[o]
      OBVIOUS
    <2>2. Calm
      BY <1>1, <1>6, DataHere DEF Explained, Calm
    <2>3. at[t] \in 11 + 2 * m .. 10 + 4 * m /\ m > 0
      <3>1. at[t] \in 11 + 2 * m .. 10 + 4 * m
        BY <1>4, <2>1
      <3> HIDE DEF m
      <3> QED
        BY <1>2, <3>1
    <2>4. at[o] <= Len(Script)
      <3>1. Script[10 + 4 * m].op = "barrier" /\ 10 + 4 * m \in 1 .. Len(Script)
        <4>1. bench = "data" /\ count \in Counts
          BY <1>1 DEF ShapeInv
        <4>2. 10 + 4 * m \in 1 .. Len(Script)
          BY <1>2
        <4>3. m > 0 /\ 10 + 4 * m \in {5 + 2 * m, 10 + 4 * m}
          BY <2>3
        <4> QED
          BY <4>1, <4>2, <4>3, DataPlaces, Zenon
      <3>2. at[t] <= 10 + 4 * m /\ o \in Team
        BY <1>1, <2>3, ThreadFacts
      <3>3. at[o] <= 10 + 4 * m
        BY <1>1, <1>2, <1>5, <2>2, <3>1, <3>2, SameSide
      <3>4. at[o] \in Int
        BY <1>1, <1>2
      <3> HIDE DEF m, o
      <3> QED
        BY <1>2, <3>3, <3>4
    <2>5. at[t] >= 6 + 2 * m
      <3> HIDE DEF m
      <3> QED
        BY <1>2, <2>3
    <2>6. OffsetAt(t, d) < extent[o]
      BY <1>2, <1>3, <1>5, <2>2, <2>4, <2>5 DEF Progress, Reached, Written
    <2> QED
      BY <1>5, <2>2, <2>6
  <1>7. CASE Fails(t, reads)
    <2>1. reads \in BOOLEAN
      OBVIOUS
    <2> HIDE DEF reads
    <2> QED
      BY <1>6, <1>7, <2>1, DataFails
  <1>8. CASE /\ done' = [done EXCEPT ![t] = @ + 1]
             /\ drawn' = [drawn EXCEPT ![t] = IF random THEN @ + 1 ELSE @]
             /\ extent' = [extent EXCEPT ![o] = IF Here(t).op = "write" /\ x >= @
                                                  THEN x + 1 ELSE @]
             /\ UNCHANGED <<options, process, status, at, dirs, files, faults, littered>>
    <2>1. ASSUME Calm PROVE FileThere'
      BY <1>5, <1>8, <2>1, FileQuiet
    <2>2. \A u \in Team : /\ extent'[Owner(u)] >= extent[Owner(u)]
                          /\ extent[Owner(u)] \in Int /\ extent'[Owner(u)] \in Int
      <3> TAKE u \in Team
      <3>1. extent[Owner(u)] \in Nat /\ Owner(u) \in Tids
        BY ExtentType
      <3>2. extent'[Owner(u)] \in {extent[Owner(u)], x + 1}
            /\ (extent'[Owner(u)] = x + 1 /\ extent'[Owner(u)] # extent[Owner(u)] =>
                  x >= extent[Owner(u)])
        <4> HIDE DEF x, o
        <4> QED
          BY <1>2, <1>8, <3>1
      <3> QED
        BY <1>3, <3>1, <3>2
    <2>3. ASSUME Calm, NEW u \in Team \ {t} PROVE Progress(u)'
      <3>1. Goes(u) /\ Progress(u)
        BY <1>5, <2>3, OthersGo
      <3> QED
        BY <2>2, <3>1, ProgressKept
    <2>4. ASSUME Calm PROVE Progress(t)'
      <3>1. /\ done'[t] = d + 1 /\ at' = at
            /\ random => drawn'[t] = drawn[t] + 1
            /\ Parts' = Parts /\ Script' = Script /\ random' = random /\ count' = count
            /\ Owner(t)' = o /\ \A y : OffsetAt(t, y)' = OffsetAt(t, y)
        <4>1. /\ Parts' = Parts /\ Script' = Script /\ random' = random /\ count' = count
              /\ Owner(t)' = o /\ \A y : OffsetAt(t, y)' = OffsetAt(t, y)
          <5>1. /\ Script' = Script /\ count' = count /\ shared' = shared /\ random' = random
                /\ draw' = draw /\ team' = team
            BY <1>1, StepFacts
          <5> QED
            BY <5>1 DEF Parts, Owner, OffsetAt
        <4> QED
          BY <1>1, <1>2, <1>8, <4>1
      <3>2. Progress(t)
        BY <1>2, <1>5, <2>4
      <3>3. AllDone(t)'
        <4>1. at[t] # 5 + 2 * m
          <5>1. at[t] \in 11 + 2 * m .. 10 + 4 * m => at[t] # 5 + 2 * m
            <6> HIDE DEF m
            <6> QED
              BY <1>2
          <5> QED
            BY <1>4, <5>1
        <4> QED
          BY <3>1, <4>1 DEF AllDone
      <3>4. InStep(t)'
        <4>1. drawn[t] \in Nat /\ d \in Nat
          BY <1>1, <1>2, <1>3
        <4> QED
          BY <3>1, <3>2, <4>1 DEF Progress, InStep, InWrite, InRead
      <3>5. ASSUME at[o] <= Len(Script), NEW y \in 0 .. count - 1,
                   at[t] >= 6 + 2 * m \/ (InWrite(t) /\ y < d + 1)
            PROVE  OffsetAt(t, y) < extent'[o]
        <4>1. extent'[o] >= extent[o] /\ extent'[o] \in Int /\ extent[o] \in Int
          BY <1>2, <2>2
        <4>2. OffsetAt(t, y) \in Nat
          BY <1>1, <1>2, OffsetType
        <4>3. CASE at[t] >= 6 + 2 * m \/ (InWrite(t) /\ y < d)
          <5>1. OffsetAt(t, y) < extent[o]
            BY <3>2, <3>5, <4>3 DEF Progress, Reached, Written
          <5> QED
            BY <4>1, <4>2, <5>1
        <4>4. CASE ~ (at[t] >= 6 + 2 * m) /\ y = d
          <5>1. Here(t).op = "write"
            <6>1. at[t] \in 11 + 2 * m .. 10 + 4 * m => at[t] >= 6 + 2 * m
              <7> HIDE DEF m
              <7> QED
                BY <1>2
            <6> QED
              BY <1>4, <4>4, <6>1
          <5>2. extent'[o] = IF x >= extent[o] THEN x + 1 ELSE extent[o]
            <6> HIDE DEF x, o
            <6> QED
              BY <1>2, <1>8, <5>1
          <5>3. OffsetAt(t, y) = x
            BY <1>5, <2>4, <4>4
          <5> HIDE DEF x, o
          <5> QED
            BY <1>2, <1>3, <5>2, <5>3
        <4> QED
          BY <1>3, <3>5, <4>3, <4>4
      <3>6. Reached(t)'
        BY <3>1, <3>5 DEF Reached, Written, InWrite
      <3> QED
        BY <3>3, <3>4, <3>6 DEF Progress
    <2> QED
      BY <1>8, <2>1, <2>3, <2>4, DataGoes
  <1> QED
    BY <1>7, <1>8 DEF Transfer

\* Steps of data.c preserve RunInv.
LEMMA DataStep ==
  ASSUME NEW t, AtData(t)
  PROVE  RunInv'
  BY DataActions, DataWait, DataFile, DataReset, DataReopen, DataTransfer


-----------------------------------------------------------------------------
(* The whole run                                                           *)

\* A step of a thread preserves RunInv.
LEMMA ThreadRunInv ==
  ASSUME IInv, TypeInv, RunInv, NEW t \in Tids, ThreadStep(t)
  PROVE  RunInv'
  <1>1. /\ main \in {"spawn", "join", "destroy", "stuck"} /\ bench \in {"metadata", "data"}
    BY ThreadFacts DEF IInv, ShapeInv
  <1>2. CASE main = "spawn"
    BY <1>2, SpawnPhaseStep
  <1>3. CASE main \in {"destroy", "stuck"}
    BY <1>3, DestroyPhaseStep
  <1>4. CASE main = "join" /\ bench = "metadata"
    BY <1>4, MetaStep DEF AtMeta
  <1>5. CASE main = "join" /\ bench = "data"
    BY <1>5, DataStep DEF AtData
  <1> QED
    BY <1>1, <1>2, <1>3, <1>4, <1>5

\* All threads begin at the first place, and what they find there decides
\* whether the iteration is littered.
LEMMA SpawnRunInv ==
  ASSUME IInv, TypeInv, RunInv, Spawn
  PROVE  RunInv'
  <1>1. /\ main = "spawn" /\ UNCHANGED <<options, iteration, storage, faults>>
        /\ status' = [status EXCEPT ![next] = "running"]
        /\ at' = [at EXCEPT ![next] = 1] /\ done' = [done EXCEPT ![next] = 0]
        /\ IF Last THEN next' = 0 /\ main' = "join"
                   ELSE next' = next + 1 /\ main' = main
        /\ littered' = IF next = 0 THEN dirs # {} \/ files # {} ELSE littered
    BY DEF Spawn
  <1>2. /\ bench' = bench /\ team' = team /\ Team' = Team /\ count' = count
        /\ shared' = shared /\ rmdir' = rmdir /\ random' = random
        /\ Script' = Script /\ dirs' = dirs /\ files' = files /\ faults' = faults
        /\ Parts' = Parts
    BY <1>1 DEF options, storage, Team, Script, Parts
  <1>3. /\ Team \subseteq Tids /\ next \in Team /\ next \in Nat /\ team \in Nat \ {0}
        /\ status \in [Tids -> Statuses] /\ at \in [Tids -> 1 .. Len(Script) + 1]
        /\ done \in [Tids -> 0 .. count] /\ bench \in {"metadata", "data"} /\ count \in Counts
        /\ faults \in Nat /\ dirs \subseteq Tids /\ files \subseteq Files
        /\ rmdir \in {"removes", "ignored"}
    <2>1. next \in Team /\ team \in Nat \ {0} /\ Team \subseteq Tids
      BY <1>1, TeamInTids DEF IInv, SpawnInv
    <2>2. next \in Nat
      BY <2>1 DEF Team
    <2>3. \A x \in 0 .. MaxFaults : x \in Nat
      OBVIOUS
    <2> QED
      BY <2>1, <2>2, <2>3, Zenon DEF IInv, ShapeInv, TypeInv, TypeOK, Files
  <1>4. /\ status'[next] = "running" /\ at'[next] = 1 /\ done'[next] = 0
        /\ \A u \in Tids \ {next} : status'[u] = status[u] /\ at'[u] = at[u] /\ done'[u] = done[u]
    BY <1>1, <1>3
  <1>5. \A u \in Team : /\ u < next => status[u] \in {"running", "waiting"} /\ at[u] = 1
                                       /\ done[u] = 0
                        /\ u >= next => status[u] = "none"
    BY <1>1 DEF IInv, SpawnInv, RunInv, StartInv
  <1>6. \A u \in Team : u <= next => status'[u] \in {"running", "waiting"} /\ at'[u] = 1
                                     /\ done'[u] = 0
    <2> TAKE u \in Team
    <2>1. u = next \/ (u # next /\ (u <= next => u < next))
      BY <1>3 DEF Team
    <2> QED
      BY <1>3, <1>4, <1>5, <2>1
  <1>7. \A u \in Team : status'[u] # "failed"
    <2> TAKE u \in Team
    <2>1. u < next \/ u >= next
      BY <1>3 DEF Team
    <2> QED
      BY <1>3, <1>4, <1>5, <2>1
  <1>8. KindInv' /\ FailInv'
    <2>1. main' \in {"spawn", "join"}
      BY <1>1
    <2> QED
      BY <1>2, <1>7, <2>1 DEF RunInv, KindInv, FailInv
  <1>9. faults = 0 => /\ files = {} /\ (rmdir = "removes" => dirs = {})
                      /\ dirs # {} => 0 \in dirs
                      /\ littered' <=> dirs # {}
    <2> SUFFICES ASSUME faults = 0
                 PROVE  /\ files = {} /\ (rmdir = "removes" => dirs = {})
                        /\ dirs # {} => 0 \in dirs
                        /\ littered' <=> dirs # {}
      OBVIOUS
    <2>1. /\ files = {} /\ (rmdir = "removes" => dirs = {})
          /\ dirs # {} => 0 \in dirs
          /\ next > 0 => (littered <=> dirs # {})
      BY <1>1 DEF RunInv, FreshInv
    <2>2. next = 0 \/ (next # 0 /\ next > 0)
      BY <1>3
    <2>3. littered' <=> dirs # {}
      <3>1. CASE next = 0
        <4>1. littered' = (dirs # {} \/ files # {})
          BY <1>1, <3>1, Zenon
        <4> QED
          BY <2>1, <4>1, Zenon
      <3>2. CASE next # 0 /\ next > 0
        <4>1. littered' = littered
          BY <1>1, <3>2, Zenon
        <4> QED
          BY <2>1, <3>2, <4>1, Zenon
      <3> QED
        BY <2>2, <3>1, <3>2, Zenon
    <2> QED
      BY <2>1, <2>3, Zenon
  <1>10. CASE ~ Last
    <2>1. main' = "spawn" /\ next' = next + 1
      BY <1>1, <1>10
    <2>2. StartInv'
      <3>1. \A u \in Team : u < next + 1 => u <= next
        BY <1>3 DEF Team
      <3> QED
        BY <1>2, <1>6, <2>1, <3>1 DEF StartInv
    <2>3. FreshInv'
      BY <1>2, <1>9, <2>1 DEF FreshInv
    <2> QED
      BY <1>8, <2>1, <2>2, <2>3
         DEF RunInv, EndedInv, TogetherInv, Calm, LitterInv, MetaInv, DataInv
  <1>11. CASE Last
    <2>1. main' = "join" /\ next' = 0
      BY <1>1, <1>11
    <2>2. \A u \in Team : status'[u] \in {"running", "waiting"} /\ at'[u] = 1 /\ done'[u] = 0
      <3>1. \A u \in Team : u <= next
        BY <1>3, <1>11 DEF Team, Last
      <3> QED
        BY <1>6, <3>1
    <2>3. EndedInv' /\ StartInv' /\ FreshInv'
      BY <1>2, <2>1, <2>2 DEF EndedInv, StartInv, FreshInv
    <2>4. TogetherInv'
      BY <1>2, <2>2 DEF TogetherInv, Together, Round
    <2>5. LitterInv'
      <3>1. 0 \in Team
        BY <1>3 DEF Team
      <3> QED
        BY <1>2, <1>3, <1>9, <2>1, <2>2, <3>1 DEF LitterInv
    <2>6. MetaInv'
      <3>1. SUFFICES ASSUME faults = 0, ~ littered', bench = "metadata"
                     PROVE  DirsThere' /\ FilesThere' /\ NoLoop'
        BY <1>2 DEF MetaInv, Calm
      <3>2. dirs' = {} /\ files' = {}
        BY <1>2, <1>9, <3>1
      <3>3. DirsThere'
        BY <1>2, <2>2, <3>2 DEF DirsThere, Made
      <3>4. FilesThere'
        BY <1>2, <2>2, <3>2 DEF FilesThere, Holds
      <3>5. NoLoop'
        BY <1>2, <2>2 DEF NoLoop
      <3> QED
        BY <3>3, <3>4, <3>5
    <2>7. DataInv'
      <3>1. SUFFICES ASSUME faults = 0, bench = "data"
                     PROVE  FileThere' /\ \A u \in Team : Progress(u)'
        BY <1>2 DEF DataInv, Progress
      <3>2. files' = {} /\ Parts \in Nat
        BY <1>2, <1>3, <1>9, <3>1, PartsFacts
      <3>3. FileThere'
        BY <1>2, <2>2, <3>2 DEF FileThere
      <3>4. ASSUME NEW u \in Team PROVE Progress(u)'
        <4> DEFINE m == Parts
        <4>1. at'[u] = 1 /\ m \in Nat /\ Parts' = m
          BY <1>2, <2>2, <3>2
        <4> HIDE DEF m
        <4>2. /\ ~ (at'[u] >= 6 + 2 * m) /\ at'[u] # 5 + 2 * m
              /\ at'[u] \notin 6 .. 5 + 2 * m /\ at'[u] \notin 11 + 2 * m .. 10 + 4 * m
          BY <4>1
        <4> QED
          BY <4>1, <4>2 DEF Progress, AllDone, InStep, Reached, Written, InWrite, InRead
      <3> QED
        BY <3>3, <3>4
    <2> QED
      BY <1>8, <2>3, <2>4, <2>5, <2>6, <2>7 DEF RunInv
  <1> QED
    BY <1>10, <1>11

\* When main has joined the last thread, all are at the end of the script, where
\* nothing is left.
LEMMA JoinRunInv ==
  ASSUME IInv, TypeInv, RunInv, Join
  PROVE  RunInv'
  <1>1. /\ main = "join"
        /\ UNCHANGED <<options, at, done, drawn, storage, faults, littered>>
    BY DEF Join
  <1>2. /\ bench' = bench /\ team' = team /\ Team' = Team /\ count' = count
        /\ shared' = shared /\ rmdir' = rmdir /\ random' = random /\ draw' = draw
        /\ Script' = Script /\ dirs' = dirs /\ files' = files /\ faults' = faults
        /\ littered' = littered /\ at' = at /\ done' = done /\ drawn' = drawn
        /\ extent' = extent /\ Parts' = Parts
    BY <1>1 DEF options, storage, Team, Script, Parts
  <1>3. /\ Team \subseteq Tids /\ next \in Team /\ next \in Nat /\ team \in Nat \ {0}
        /\ status \in [Tids -> Statuses] /\ 0 \in Team
        /\ bench \in {"metadata", "data"} /\ count \in Counts /\ dirs \subseteq Tids
        /\ files \subseteq Files /\ rmdir \in {"removes", "ignored"}
    <2>1. next \in Team /\ team \in Nat \ {0} /\ Team \subseteq Tids
      BY <1>1, TeamInTids DEF IInv, JoinInv
    <2>2. next \in Nat /\ 0 \in Team
      BY <2>1 DEF Team
    <2> QED
      BY <2>1, <2>2, Zenon DEF IInv, ShapeInv, TypeInv, TypeOK, Files
  <1>4. KindInv'
    BY <1>2 DEF RunInv, KindInv
  <1>5. Explained' <=> Explained
    BY <1>2 DEF Explained
  <1>6. CASE status[next] = "failed"
    <2>1. main' = "destroy"
      BY <1>6 DEF Join
    <2>2. Explained
      BY <1>3, <1>6 DEF RunInv, FailInv
    <2> QED
      BY <1>4, <1>5, <2>1, <2>2
         DEF RunInv, EndedInv, StartInv, FailInv, FreshInv, TogetherInv, Calm, LitterInv,
             MetaInv, DataInv
  <1>7. CASE status[next] = "returned" /\ ~ Last
    <2>1. /\ status' = [status EXCEPT ![next] = "none"] /\ main' = "join"
          /\ next' = next + 1
      BY <1>1, <1>7 DEF Join
    <2>2. \A u \in Team : status'[u] = status[u] \/ (u = next /\ status'[u] = "none")
      BY <1>3, <2>1
    <2>3. EndedInv' /\ FailInv'
      BY <1>1, <1>2, <1>5, <1>7, <2>1, <2>2 DEF RunInv, EndedInv, FailInv
    <2>4. Calm' <=> Calm
      BY <1>1, <1>2, <2>1 DEF Calm
    <2>5. TogetherInv'
      BY <1>2, <2>4 DEF RunInv, TogetherInv, Together, Round
    <2>6. LitterInv'
      <3>1. ~ (faults = 0 /\ bench = "metadata" /\ littered)
        BY <1>1, <1>7 DEF RunInv, LitterInv
      <3> QED
        BY <1>2, <3>1 DEF LitterInv
    <2>7. MetaInv'
      <3>1. /\ DirsThere => DirsThere'
            /\ FilesThere => FilesThere'
            /\ NoLoop => NoLoop'
        BY <1>2 DEF DirsThere, FilesThere, NoLoop, Made, Holds, Manages, Owner
      <3> QED
        BY <1>2, <2>4, <3>1 DEF RunInv, MetaInv
    <2>8. DataInv'
      <3>1. FileThere => FileThere'
        BY <1>2 DEF FileThere, Manages, Owner
      <3>2. \A u \in Team : Progress(u) => Progress(u)'
        BY <1>2 DEF Progress, AllDone, InStep, Reached, Written, InWrite, InRead, OffsetAt, Owner
      <3> QED
        BY <1>1, <1>2, <3>1, <3>2 DEF RunInv, DataInv, Progress
    <2>9. StartInv' /\ FreshInv'
      BY <2>1 DEF StartInv, FreshInv
    <2> QED
      BY <1>4, <2>3, <2>5, <2>6, <2>7, <2>8, <2>9 DEF RunInv
  <1>8. CASE status[next] = "returned" /\ Last
    <2>1. /\ status' = [status EXCEPT ![next] = "none"] /\ next' = 0
          /\ main' \in {"spawn", "ended"}
      BY <1>8 DEF Join
    <2>2. \A u \in Team : status[u] \in {"none", "returned"} /\ at[u] = Len(Script) + 1
      <3>1. \A u \in Team : u = next \/ u < next
        BY <1>3, <1>8 DEF Last, Team
      <3>2. \A u \in Team : status[u] \in {"none", "returned"}
        BY <1>1, <1>8, <3>1 DEF IInv, JoinInv
      <3> QED
        BY <1>1, <3>2 DEF RunInv, EndedInv
    <2>3. FailInv'
      <3>1. \A u \in Team : status'[u] # "failed"
        BY <1>3, <2>1, <2>2
      <3> QED
        BY <1>2, <2>1, <3>1 DEF FailInv
    <2>4. StartInv'
      <3>1. \A u \in Team : ~ (u < 0)
        BY DEF Team
      <3> QED
        BY <1>2, <2>1, <3>1 DEF StartInv
    <2>5. ASSUME faults = 0
          PROVE  files = {} /\ (rmdir = "removes" => dirs = {}) /\ (dirs # {} => 0 \in dirs)
      <3>1. CASE bench = "metadata"
        <4>1. ~ littered
          BY <1>1, <1>3, <2>2, <2>5, <3>1 DEF RunInv, LitterInv
        <4>2. DirsThere /\ FilesThere /\ Len(Script) = 18
          BY <1>1, <1>3, <2>5, <3>1, <4>1, MetadataPlaces DEF RunInv, MetaInv, Calm
        <4>3. \A u \in Team : at[u] = 19
          BY <2>2, <4>2
        <4>4. files = {}
          <5>1. SUFFICES ASSUME NEW f \in files PROVE FALSE
            BY Zenon
          <5>2. f \in Files
            BY <1>3
          <5>3. f.of \in Team /\ Holds(f.of, f.index)
            BY <4>2, <5>2, Zenon DEF FilesThere
          <5>4. at[f.of] = 19
            BY <4>3, <5>3
          <5> QED
            BY <5>3, <5>4 DEF Holds
        <4>5. \A u \in Tids : u \in dirs <=> u \in Team /\ Manages(u) /\ rmdir = "ignored"
          BY <4>2, <4>3 DEF DirsThere, Made
        <4>6. Manages(0)
          BY DEF Manages, Owner
        <4> QED
          BY <1>3, <4>4, <4>5, <4>6
      <3>2. CASE bench = "data"
        <4>1. dirs = {} /\ FileThere
          BY <1>1, <2>5, <3>2 DEF RunInv, KindInv, DataInv
        <4>2. Len(Script) \in Nat
          BY <1>3, ScriptType
        <4>3. files = {}
          <5>1. SUFFICES ASSUME NEW f \in files PROVE FALSE
            BY Zenon
          <5>2. f \in Files
            BY <1>3
          <5>3. f.of \in Team /\ at[f.of] <= Len(Script)
            BY <4>1, <5>2, Zenon DEF FileThere
          <5>4. at[f.of] = Len(Script) + 1
            BY <2>2, <5>3
          <5> QED
            BY <4>2, <5>3, <5>4
        <4> QED
          BY <4>1, <4>3
      <3> QED
        BY <1>3, <3>1, <3>2
    <2>6. FreshInv'
      BY <1>2, <2>1, <2>5 DEF FreshInv
    <2> QED
      BY <1>4, <2>1, <2>3, <2>4, <2>6
         DEF RunInv, EndedInv, TogetherInv, Calm, LitterInv, MetaInv, DataInv
  <1> QED
    BY <1>6, <1>7, <1>8 DEF Join

\* The initial states have RunInv.
LEMMA InitRunInv == Init => RunInv
  <1> SUFFICES ASSUME Init PROVE RunInv
    OBVIOUS
  <1>1. /\ main = "spawn" /\ next = 0 /\ dirs = {} /\ files = {} /\ faults = 0
        /\ \A t \in Tids : status[t] = "none"
        /\ bench = "data" => rmdir = "removes"
    BY DEF Init
  <1>2. Team \subseteq Tids /\ \A u \in Team : ~ (u < next)
    BY <1>1, InitIInv, TeamInTids DEF IInv, Team
  <1> QED
    BY <1>1, <1>2
       DEF RunInv, EndedInv, StartInv, FailInv, KindInv, FreshInv, TogetherInv, Calm, LitterInv,
           MetaInv, DataInv

\* Every step preserves RunInv.
LEMMA NextRunInv == IInv /\ TypeInv /\ RunInv /\ [Next]_vars => RunInv'
  <1> SUFFICES ASSUME IInv, TypeInv, RunInv, [Next]_vars PROVE RunInv'
    OBVIOUS
  <1>1. CASE Spawn
    BY <1>1, SpawnRunInv
  <1>2. CASE Join
    BY <1>2, JoinRunInv
  <1>3. CASE DestroyBarrier
    <2>1. /\ main = "destroy" /\ main' \in {"failed", "stuck"}
          /\ UNCHANGED <<options, threads, storage, faults, littered>>
      BY <1>3 DEF DestroyBarrier
    <2>2. Explained' /\ KindInv'
      BY <2>1 DEF RunInv, FailInv, KindInv, Explained, options, storage
    <2> QED
      BY <2>1, <2>2
         DEF RunInv, EndedInv, StartInv, FailInv, FreshInv, TogetherInv, Calm, LitterInv,
             MetaInv, DataInv
  <1>4. CASE \E t \in Tids : ThreadStep(t)
    BY <1>4, ThreadRunInv
  <1>5. CASE UNCHANGED vars
    <2>1. /\ bench' = bench /\ team' = team /\ shared' = shared /\ random' = random
          /\ count' = count /\ draw' = draw /\ rmdir' = rmdir /\ main' = main /\ next' = next
          /\ status' = status /\ at' = at /\ done' = done /\ drawn' = drawn /\ dirs' = dirs
          /\ files' = files /\ extent' = extent /\ faults' = faults /\ littered' = littered
      BY <1>5 DEF vars, options, process, threads, storage
    <2>2. Script' = Script /\ Team' = Team /\ Parts' = Parts
      BY <2>1 DEF Script, Team, Parts
    <2>3. /\ EndedInv' /\ StartInv' /\ FailInv' /\ KindInv' /\ FreshInv' /\ TogetherInv'
          /\ LitterInv'
      BY <2>1, <2>2 DEF RunInv, EndedInv, StartInv, FailInv, Explained, KindInv, FreshInv,
             TogetherInv, Together, Calm, LitterInv, Round
    <2>4. MetaInv'
      BY <2>1, <2>2 DEF RunInv, MetaInv, Calm, DirsThere, FilesThere, NoLoop, Made, Holds,
             Manages, Owner
    <2>5. DataInv'
      BY <2>1, <2>2 DEF RunInv, DataInv, FileThere, AllDone, InStep, Reached, Written,
             InWrite, InRead, OffsetAt, Manages, Owner
    <2> QED
      BY <2>3, <2>4, <2>5 DEF RunInv
  <1> QED
    BY <1>1, <1>2, <1>3, <1>4, <1>5 DEF Next, MainStep

-----------------------------------------------------------------------------

\* No thread makes a call of another fail, for any team and any numbers of
\* iterations, objects and blocks: mkdir, open, stat and unlink (metadata_posix),
\* open, pread and the assertion on its result (small_access_posix) fail for the
\* named reasons alone.
THEOREM FailsForAReason == Spec => []FailuresExplained
  <1>1. Init => IInv /\ TypeInv /\ RunInv
    BY InitIInv, TypeInit, InitRunInv
  <1>2. IInv /\ TypeInv /\ RunInv /\ [Next]_vars => IInv' /\ TypeInv' /\ RunInv'
    BY NextIInv, TypeNext, NextRunInv
  <1>3. RunInv => FailuresExplained
    BY DEF RunInv, FailInv, FailuresExplained, Explained
  <1> QED
    BY <1>1, <1>2, <1>3, PTL DEF Spec

\* After a run without a failed call no file is left, and no directory if the
\* file system removes them (the end of metadata_posix and small_access_posix,
\* through the last iteration of main).
THEOREM LeavesNothing == Spec => []NothingLeft
  <1>1. Init => IInv /\ TypeInv /\ RunInv
    BY InitIInv, TypeInit, InitRunInv
  <1>2. IInv /\ TypeInv /\ RunInv /\ [Next]_vars => IInv' /\ TypeInv' /\ RunInv'
    BY NextIInv, TypeNext, NextRunInv
  <1>3. RunInv => NothingLeft
    BY DEF RunInv, FreshInv, NothingLeft
  <1> QED
    BY <1>1, <1>2, <1>3, PTL DEF Spec
=============================================================================
