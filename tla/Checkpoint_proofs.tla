-------------------------- MODULE Checkpoint_proofs --------------------------
(***************************************************************************)
(* What the checkpoint file guarantees for every number of rows, threads,  *)
(* iterations and kills, and where the values of the saved rows come from: *)
(* proofs about Checkpoint.                                                *)
(***************************************************************************)
EXTENDS Checkpoint, RowSplit_proofs, SequenceTheorems, TLAPS

-----------------------------------------------------------------------------
\* Abbreviations that every step below may look through.
USE DEF Counts, ghosts

(* The inductive invariant.                                                *)

\* No iteration up to the last one applied is missing.
Gapless(r) == \A j \in 1 .. Level(r) : j \in Applied(r)

\* Where the threads save their rows.
Target == IF program = "checkpoint" THEN buffer ELSE saved

Saving == {"save", "barrier1", "header", "barrier2"}

\* The file, and the header in particular, as every thread may count on it.
FileInv ==
  /\ HeaderBehindRows
  /\ \A i \in Rows : Gapless(matrix[i]) /\ Gapless(buffer[i]) /\ Gapless(saved[i])
  /\ phase # "off" => exit = "none"
  /\ CleanExitMeansComplete

\* The file exists before anything is written to it.
CreatedInv ==
  /\ ~created => completed = 0 /\ total = 0
  /\ phase \in {"total", "team"} => created

\* Before the team starts, its first iteration is the one in the header or the
\* next, and the rows in memory are at most one behind it.
StartInv ==
  phase \in {"open", "total"} =>
    /\ start \in {completed, completed + 1}
    /\ \A i \in Rows : start <= Level(matrix[i]) + 1

\* Only threads of the team run.
PlaceInv ==
  \A t \in Tids : pc[t] = "idle" <=> ~(phase = "team" /\ t \in Team)

\* All threads of the team are in the same iteration, which the header is at
\* most one behind, and the two barriers separate the saving of the rows from
\* the writing of the header.
BarrierInv ==
  phase = "team" =>
    /\ total = iteration
    /\ k[0] \in {completed, completed + 1}
    /\ \A t \in Team :
         /\ k[t] = k[0]
         /\ pc[t] \in Saving => k[0] <= iteration
         /\ pc[t] = "done" => k[0] > iteration
         /\ pc[t] = "header" => t = 0
    /\ (\E t \in Team : pc[t] \in {"header", "barrier2"}) =>
         \A t \in Team : pc[t] \in {"header", "barrier2"}
    /\ pc[0] = "barrier2" => completed = k[0]

\* How far a thread has brought its rows.
RowsOf(t) ==
  /\ pc[t] = "loop" => \A i \in Slice(threads, t) : k[0] <= Level(matrix[i]) + 1
  /\ pc[t] \in Saving => \A i \in Slice(threads, t) : Level(matrix[i]) = k[0]
  /\ pc[t] = "save" =>
       /\ row[t] \in From(threads, t) .. To(threads, t)
       /\ \A i \in Slice(threads, t) : i < row[t] => Level(Target[i]) = k[0]
  /\ pc[t] \in Saving \ {"save"} =>
       \A i \in Slice(threads, t) : Level(Target[i]) = k[0]

RowsInv == phase = "team" => \A t \in Team : RowsOf(t)

IInv ==
  /\ TypeOK
  /\ FileInv
  /\ CreatedInv
  /\ StartInv
  /\ PlaceInv
  /\ BarrierInv
  /\ RowsInv

-----------------------------------------------------------------------------
(* Rows.                                                                   *)

\* The three rows that no iteration was applied to.
LEMMA RowConstants ==
  /\ InitRow \in RowState /\ LostRow \in RowState /\ AbsentRow \in RowState
  /\ Level(InitRow) = 0 /\ Level(LostRow) = 0 /\ Level(AbsentRow) = 0
  /\ Gapless(InitRow) /\ Gapless(LostRow) /\ Gapless(AbsentRow)
  <1>1. <<>> \in Seq(0 .. MaxIteration)
    BY EmptySeq
  <1>2. InitRow \in RowState /\ LostRow \in RowState /\ AbsentRow \in RowState
    BY <1>1 DEF InitRow, LostRow, AbsentRow, RowState
  <1>3. Level(InitRow) = 0 /\ Level(LostRow) = 0 /\ Level(AbsentRow) = 0
    BY DEF InitRow, LostRow, AbsentRow, Level
  <1> QED
    BY <1>2, <1>3 DEF Gapless

\* What Append does to the iterations of a row.
LEMMA AppendFacts ==
  ASSUME NEW s \in Seq(0 .. MaxIteration), NEW j \in 0 .. MaxIteration
  PROVE  /\ Len(Append(s, j)) = Len(s) + 1
         /\ Append(s, j)[Len(s) + 1] = j
         /\ \A i \in 1 .. Len(s) : Append(s, j)[i] = s[i]
         /\ Append(s, j) # <<>>
  <1>1. Len(Append(s, j)) = Len(s) + 1
    OBVIOUS
  <1>2. Append(s, j)[Len(s) + 1] = j
    OBVIOUS
  <1>3. \A i \in 1 .. Len(s) : Append(s, j)[i] = s[i]
    OBVIOUS
  <1>4. Append(s, j) # <<>>
    OBVIOUS
  <1> QED
    BY <1>1, <1>2, <1>3, <1>4

\* An iteration raises the level of a row and leaves no gap.
LEMMA ApplyRow ==
  ASSUME NEW r \in RowState, NEW j \in 0 .. MaxIteration
  PROVE  /\ Level(r) \in 0 .. MaxIteration
         /\ Apply(r, j) \in RowState
         /\ Level(Apply(r, j)) = j
         /\ Gapless(r) /\ j <= Level(r) + 1 => Gapless(Apply(r, j))
  <1>1. /\ r.done \in Seq(0 .. MaxIteration) /\ Len(r.done) \in Nat
        /\ r.done # <<>> => Len(r.done) \in 1 .. Len(r.done)
    BY DEF RowState
  <1>2. Level(r) \in 0 .. MaxIteration
    BY <1>1, MaxIterationAssumption DEF Level
  <1>3. /\ Apply(r, j).done = Append(r.done, j)
        /\ Apply(r, j).seed = r.seed
        /\ Apply(r, j) \in RowState
    <2>1. Append(r.done, j) \in Seq(0 .. MaxIteration)
      BY <1>1
    <2> QED
      BY <2>1 DEF Apply, RowState
  <1>4. /\ Len(Append(r.done, j)) = Len(r.done) + 1
        /\ Append(r.done, j)[Len(r.done) + 1] = j
        /\ \A i \in 1 .. Len(r.done) : Append(r.done, j)[i] = r.done[i]
        /\ Append(r.done, j) # <<>>
    BY <1>1, AppendFacts
  <1>5. Level(Apply(r, j)) = j
    BY <1>3, <1>4 DEF Level
  <1>6. Applied(r) \cup {j} \subseteq Applied(Apply(r, j))
    BY <1>1, <1>3, <1>4 DEF Applied
  <1>7. ASSUME Gapless(r), j <= Level(r) + 1
        PROVE  Gapless(Apply(r, j))
    <2>1. SUFFICES ASSUME NEW m \in 1 .. j
                   PROVE  m \in Applied(Apply(r, j))
      BY <1>5 DEF Gapless
    <2>2. CASE m = j
      BY <2>2, <1>6
    <2>3. CASE m # j
      BY <2>3, <1>2, <1>6, <1>7 DEF Gapless
    <2> QED
      BY <2>2, <2>3
  <1> QED
    BY <1>2, <1>3, <1>5, <1>7

-----------------------------------------------------------------------------
(* The invariant holds initially and is preserved by every action.         *)

\* The initial states have the invariant.
LEMMA InitIInv == Init => IInv
  <1> SUFFICES ASSUME Init PROVE IInv
    OBVIOUS
  <1> USE NAssumption, MaxThreadsAssumption, MaxIterationAssumption, MaxCrashesAssumption
  <1>1. /\ matrix \in [Rows -> RowState] /\ buffer \in [Rows -> RowState]
        /\ saved \in [Rows -> RowState]
    BY RowConstants DEF Init
  <1>2. TypeOK
    <2>1. /\ pc \in [Tids -> {"idle", "loop", "save", "barrier1", "header", "barrier2", "done"}]
          /\ k \in [Tids -> 0 .. MaxIteration + 1]
          /\ row \in [Tids -> 0 .. N]
      BY DEF Init
    <2>2. /\ threads \in 1 .. MaxThreads /\ iteration \in Counts
          /\ start \in 0 .. MaxIteration /\ total \in Counts
          /\ completed \in 0 .. MaxIteration /\ crashes \in 0 .. MaxCrashes
      BY MaxIterationAssumption, MaxThreadsAssumption, MaxCrashesAssumption DEF Init
    <2>3. blank \in BOOLEAN
      BY DEF Init
    <2> QED
      BY <1>1, <2>1, <2>2, <2>3 DEF Init, TypeOK
  <1>3. FileInv
    BY RowConstants DEF Init, FileInv, HeaderBehindRows, CleanExitMeansComplete
  <1>4. CreatedInv /\ StartInv /\ PlaceInv /\ BarrierInv /\ RowsInv
    BY DEF Init, CreatedInv, StartInv, PlaceInv, BarrierInv, RowsInv
  <1> QED
    BY <1>2, <1>3, <1>4 DEF IInv

\* The end of a process, whichever way, leaves only the file.
LEMMA EndIInv ==
  ASSUME IInv, phase # "off", UNCHANGED file, NEW how, End(how),
         how \in {"success", "killed"}, how = "success" => completed >= total,
         crashes' \in 0 .. MaxCrashes, UNCHANGED blank
  PROVE  IInv'
  <1>1. TypeOK'
    BY RowConstants, NAssumption, MaxIterationAssumption
    DEF IInv, TypeOK, End, args, file
  <1>2. FileInv'
    <2>1. HeaderBehindRows' /\ CleanExitMeansComplete'
      BY DEF IInv, FileInv, HeaderBehindRows, CleanExitMeansComplete, End, file, Level
    <2>2. (\A i \in Rows : Gapless(matrix[i]) /\ Gapless(buffer[i]) /\ Gapless(saved[i]))'
      BY RowConstants DEF IInv, FileInv, End, file
    <2> QED
      BY <2>1, <2>2 DEF FileInv, End
  <1>3. CreatedInv' /\ StartInv' /\ PlaceInv' /\ BarrierInv' /\ RowsInv'
    BY DEF IInv, End, file, CreatedInv, StartInv, PlaceInv, BarrierInv, RowsInv
  <1> QED
    BY <1>1, <1>2, <1>3 DEF IInv

\* A launch that runs preserves it.
LEMMA LaunchIInv ==
  ASSUME IInv, NEW p \in Programs, NEW T \in 1 .. MaxThreads, NEW n \in Counts,
         LaunchFresh(p, T, n) \/ LaunchResume(p, T, n)
  PROVE  IInv'
  <1> USE DEF LaunchFresh, LaunchResume, Launch, ResumeAt, team, file
  <1>1. matrix' \in [Rows -> RowState] /\ start' \in 0 .. MaxIteration
    BY RowConstants, MaxIterationAssumption DEF IInv, TypeOK
  <1>2. TypeOK'
    BY <1>1 DEF IInv, TypeOK
  <1>3. \A i \in Rows : Gapless(matrix'[i])
    BY RowConstants DEF IInv, FileInv
  <1>4. FileInv'
    <2>1. HeaderBehindRows' /\ CleanExitMeansComplete'
      BY DEF IInv, FileInv, HeaderBehindRows, CleanExitMeansComplete, Level
    <2>2. (\A i \in Rows : Gapless(matrix[i]) /\ Gapless(buffer[i]) /\ Gapless(saved[i]))'
      BY <1>3 DEF IInv, FileInv
    <2> QED
      BY <2>1, <2>2 DEF FileInv
  <1>5. start' \in {completed, completed + 1}
    BY DEF IInv, CreatedInv, TypeOK
  <1>6. ASSUME NEW i \in Rows PROVE start' <= Level(matrix'[i]) + 1
    <2>1. CASE LaunchFresh(p, T, n)
      BY <2>1, RowConstants
    <2>2. CASE LaunchResume(p, T, n)
      <3>1. Level(saved[i]) \in {completed, completed + 1} /\ completed \in Nat
        BY DEF IInv, FileInv, HeaderBehindRows, TypeOK
      <3>2. Level(matrix'[i]) = Level(saved[i])
        BY <2>2, RowConstants
      <3> QED
        BY <2>2, <3>1, <3>2
    <2> QED
      BY <2>1, <2>2
  <1>7. StartInv'
    BY <1>5, <1>6 DEF StartInv, Level
  <1>8. CreatedInv' /\ PlaceInv' /\ BarrierInv' /\ RowsInv'
    BY DEF IInv, TypeOK, CreatedInv, PlaceInv, BarrierInv, RowsInv
  <1> QED
    BY <1>2, <1>4, <1>7, <1>8 DEF IInv

\* A launch that is refused preserves it.
LEMMA RefusedIInv ==
  ASSUME IInv, NEW n \in Counts, LaunchRefused(n)
  PROVE  IInv'
  <1> USE DEF LaunchRefused, Fulfilled, args, memory, team, file
  <1>1. TypeOK'
    BY DEF IInv, TypeOK
  <1>2. FileInv'
    BY DEF IInv, FileInv, HeaderBehindRows, CleanExitMeansComplete, Gapless, Level, Applied
  <1>3. CreatedInv' /\ StartInv' /\ PlaceInv' /\ BarrierInv' /\ RowsInv'
    BY DEF IInv, CreatedInv, StartInv, PlaceInv, BarrierInv, RowsInv
  <1> QED
    BY <1>1, <1>2, <1>3 DEF IInv

\* open preserves it.
LEMMA OpenFileIInv == ASSUME IInv, OpenFile PROVE IInv'
  <1> USE DEF OpenFile, args, memory, team
  <1>1. TypeOK'
    BY DEF IInv, TypeOK
  <1>2. FileInv'
    BY DEF IInv, FileInv, HeaderBehindRows, CleanExitMeansComplete, Gapless, Level, Applied
  <1>3. CreatedInv' /\ StartInv' /\ PlaceInv' /\ BarrierInv' /\ RowsInv'
    BY DEF IInv, CreatedInv, StartInv, PlaceInv, BarrierInv, RowsInv, Level
  <1> QED
    BY <1>1, <1>2, <1>3 DEF IInv

\* Writing the total preserves it.
LEMMA WriteTotalIInv == ASSUME IInv, WriteTotal PROVE IInv'
  <1> USE DEF WriteTotal, args, memory
  <1>1. Team' = Team /\ Team \subseteq Tids /\ 0 \in Team /\ 0 \in Tids
    BY MaxThreadsAssumption DEF IInv, TypeOK, Team, Tids
  <1>2. TypeOK'
    BY MaxIterationAssumption DEF IInv, TypeOK
  <1>3. FileInv'
    <2>1. HeaderBehindRows' /\ exit' = "none" /\ CleanExitMeansComplete'
      BY DEF IInv, FileInv, HeaderBehindRows, CleanExitMeansComplete, Level
    <2>2. (\A i \in Rows : Gapless(matrix[i]) /\ Gapless(buffer[i]) /\ Gapless(saved[i]))'
      BY DEF IInv, FileInv, Gapless, Level, Applied
    <2> QED
      BY <2>1, <2>2 DEF FileInv
  <1>4. StartInv' /\ CreatedInv'
    BY DEF IInv, StartInv, CreatedInv
  <1>5. PlaceInv'
    BY <1>1 DEF PlaceInv
  <1>6. \A t \in Team : k'[t] = start /\ pc'[t] = "loop"
    BY <1>1
  <1>7. BarrierInv'
    BY <1>1, <1>6, <1>2 DEF IInv, StartInv, BarrierInv, Saving, TypeOK
  <1>8. RowsInv'
    <2>1. SUFFICES ASSUME NEW t \in Team PROVE RowsOf(t)'
      BY <1>1 DEF RowsInv
    <2>2. Slice(threads, t) \subseteq Rows
      BY SliceInRows DEF IInv, TypeOK, Team
    <2>3. \A i \in Rows : start <= Level(matrix[i]) + 1
      BY DEF IInv, StartInv
    <2>4. Slice(threads, t)' = Slice(threads, t)
      BY DEF Slice, From, To, Lines
    <2>5. \A i \in Slice(threads, t) : k'[0] <= Level(matrix'[i]) + 1
      BY <1>1, <1>6, <2>2, <2>3
    <2> QED
      BY <1>6, <2>4, <2>5 DEF RowsOf, Saving, Level
  <1> QED
    BY <1>2, <1>3, <1>4, <1>5, <1>7, <1>8 DEF IInv

\* What a thread that is somewhere in the loop may count on.
LEMMA TeamFacts ==
  ASSUME IInv, NEW t \in Tids, pc[t] # "idle"
  PROVE  /\ phase = "team" /\ t \in Team /\ 0 \in Team /\ Team \subseteq Tids
         /\ threads \in Nat \ {0} /\ Team = 0 .. threads - 1
         /\ k[t] = k[0] /\ k[0] \in Nat /\ completed \in Nat
         /\ Slice(threads, t) \subseteq Rows
         /\ RowsOf(t)
  <1>1. phase = "team" /\ t \in Team
    BY DEF IInv, PlaceInv
  <1>2. /\ threads \in Nat \ {0} /\ Team = 0 .. threads - 1
        /\ 0 \in Team /\ Team \subseteq Tids
    BY MaxThreadsAssumption DEF IInv, TypeOK, Team, Tids
  <1>3. k[t] = k[0] /\ k[0] \in Nat /\ completed \in Nat
    BY <1>1, <1>2 DEF IInv, TypeOK, BarrierInv
  <1>4. Slice(threads, t) \subseteq Rows
    BY <1>1, <1>2, SliceInRows
  <1>5. RowsOf(t)
    BY <1>1 DEF IInv, RowsInv
  <1> QED
    BY <1>1, <1>2, <1>3, <1>4, <1>5

\* Computing a row preserves it.
LEMMA ComputeIInv == ASSUME IInv, NEW t \in Tids, Compute(t) PROVE IInv'
  <1> USE DEF Compute, Unfinished, args, file
  <1>1. /\ phase = "team" /\ t \in Team /\ 0 \in Team /\ Team \subseteq Tids
        /\ threads \in Nat \ {0} /\ Team = 0 .. threads - 1
        /\ k[t] = k[0] /\ k[0] \in Nat /\ completed \in Nat
        /\ Slice(threads, t) \subseteq Rows
        /\ RowsOf(t)
    BY TeamFacts
  <1>2. k[t] \in 0 .. MaxIteration
    BY <1>1, MaxIterationAssumption DEF IInv, TypeOK
  <1>3. \A i \in Rows : matrix[i] \in RowState /\ Gapless(matrix[i])
    BY DEF IInv, TypeOK, FileInv
  <1>4. ASSUME NEW i \in Slice(threads, t)
        PROVE  /\ matrix'[i] \in RowState
               /\ Level(matrix'[i]) = k[0]
               /\ Gapless(matrix'[i])
    <2>1. matrix'[i] = Apply(matrix[i], k[t]) /\ i \in Rows
      BY <1>1
    <2>2. k[t] <= Level(matrix[i]) + 1
      BY <1>1 DEF RowsOf
    <2> QED
      BY <1>1, <1>2, <1>3, <2>1, <2>2, ApplyRow
  <1>5. ASSUME NEW i \in Rows, i \notin Slice(threads, t)
        PROVE  matrix'[i] = matrix[i]
    BY <1>5
  <1>6. From(threads, t) \in 0 .. N
    BY <1>1, SliceInRows, NAssumption
  <1>7. TypeOK'
    <2>1. matrix' \in [Rows -> RowState]
      BY <1>3, <1>4, <1>5
    <2>2. row' \in [Tids -> 0 .. N]
      BY <1>6 DEF IInv, TypeOK
    <2> QED
      BY <2>1, <2>2 DEF IInv, TypeOK
  <1>8. FileInv'
    <2>1. HeaderBehindRows' /\ CleanExitMeansComplete' /\ exit' = "none"
      BY <1>1 DEF IInv, FileInv, HeaderBehindRows, CleanExitMeansComplete, Level
    <2>2. \A i \in Rows : Gapless(matrix'[i]) /\ Gapless(buffer[i]) /\ Gapless(saved[i])
      BY <1>3, <1>4, <1>5 DEF IInv, FileInv
    <2>3. (\A i \in Rows : Gapless(matrix[i]) /\ Gapless(buffer[i]) /\ Gapless(saved[i]))'
      BY <2>2 DEF Gapless, Level, Applied
    <2> QED
      BY <2>1, <2>3 DEF FileInv
  <1>9. CreatedInv' /\ StartInv' /\ PlaceInv'
    BY <1>1 DEF IInv, TypeOK, CreatedInv, StartInv, PlaceInv, Team
  <1>10. BarrierInv'
    BY <1>1 DEF IInv, TypeOK, BarrierInv, Team, Saving
  <1>11. RowsInv'
    <2>1. SUFFICES ASSUME NEW u \in Team PROVE RowsOf(u)'
      BY <1>1 DEF RowsInv, Team
    <2>2. Slice(threads, u)' = Slice(threads, u)
      BY DEF Slice, From, To, Lines
    <2>3. CASE u = t
      <3>1. From(threads, t) <= To(threads, t) /\ From(threads, t) \in Nat
            /\ To(threads, t) \in Nat
        BY <1>1, SliceInRows
      <3>2. row'[t] \in From(threads, t) .. To(threads, t)
            /\ \A i \in Slice(threads, t) : ~(i < row'[t])
        BY <1>1, <3>1 DEF IInv, TypeOK, Slice
      <3>3. (row[t] \in From(threads, t) .. To(threads, t))'
        BY <3>2 DEF From, To, Lines
      <3>4. pc'[t] = "save" /\ k'[0] = k[0]
        BY <1>1 DEF IInv, TypeOK
      <3> QED
        BY <2>2, <2>3, <3>2, <3>3, <3>4, <1>4 DEF RowsOf, Saving, Level
    <2>4. CASE u # t
      <3>1. \A i \in Slice(threads, u) : matrix'[i] = matrix[i]
        <4>1. Slice(threads, u) \cap Slice(threads, t) = {} /\ Slice(threads, u) \subseteq Rows
          BY <1>1, <2>4, RowsDisjoint, SliceInRows
        <4> QED
          BY <4>1, <1>5
      <3>2. RowsOf(u)
        BY <1>1 DEF IInv, RowsInv
      <3>3. pc'[u] = pc[u] /\ row'[u] = row[u] /\ k'[0] = k[0] /\ Target' = Target
        BY <1>1, <2>4 DEF IInv, TypeOK, Target
      <3>4. From(threads, u)' = From(threads, u) /\ To(threads, u)' = To(threads, u)
        BY DEF From, To, Lines
      <3> QED
        BY <2>2, <3>1, <3>2, <3>3, <3>4 DEF RowsOf, Level
    <2> QED
      BY <2>3, <2>4
  <1> QED
    BY <1>7, <1>8, <1>9, <1>10, <1>11 DEF IInv

\* Saving a row preserves it.
LEMMA SaveRowIInv == ASSUME IInv, NEW t \in Tids, SaveRow(t) PROVE IInv'
  <1> USE DEF SaveRow, args
  <1>1. /\ phase = "team" /\ t \in Team /\ 0 \in Team /\ Team \subseteq Tids
        /\ threads \in Nat \ {0} /\ Team = 0 .. threads - 1
        /\ k[t] = k[0] /\ k[0] \in Nat /\ completed \in Nat
        /\ Slice(threads, t) \subseteq Rows
        /\ RowsOf(t)
    BY TeamFacts
  <1>0. /\ From(threads, t) \in Nat /\ To(threads, t) \in Nat /\ To(threads, t) <= N
    BY <1>1, SliceInRows
  <1>2. /\ row[t] \in Slice(threads, t) /\ row[t] \in Rows
        /\ row[t] \in Nat /\ From(threads, t) <= row[t]
    BY <1>1, <1>0 DEF RowsOf, Slice
  <1>3. Level(matrix[row[t]]) = k[0]
    BY <1>1, <1>2 DEF RowsOf, Saving
  <1>4. matrix[row[t]] \in RowState /\ Gapless(matrix[row[t]])
    BY <1>2 DEF IInv, TypeOK, FileInv
  <1>5. k[0] \in {completed, completed + 1}
    BY <1>1 DEF IInv, BarrierInv
  <1>6. /\ To(threads, t) <= N /\ To(threads, t) \in Nat
        /\ row[t] + 1 \in From(threads, t) .. To(threads, t)
    BY <1>2, <1>0
  <1>7. TypeOK'
    <2>1. row' \in [Tids -> 0 .. N]
      BY <1>2, <1>6, NAssumption DEF IInv, TypeOK
    <2>2. buffer' \in [Rows -> RowState] /\ saved' \in [Rows -> RowState]
      BY <1>4 DEF IInv, TypeOK
    <2> QED
      BY <2>1, <2>2 DEF IInv, TypeOK
  <1>8. \A i \in Rows : /\ buffer'[i] \in {buffer[i], matrix[row[t]]}
                        /\ saved'[i] \in {saved[i], matrix[row[t]]}
    BY DEF IInv, TypeOK
  <1>9. FileInv'
    <2>1. \A i \in Rows : Level(saved'[i]) \in {completed, completed + 1}
      BY <1>3, <1>5, <1>8 DEF IInv, FileInv, HeaderBehindRows
    <2>2. HeaderBehindRows'
      BY <2>1 DEF HeaderBehindRows, Level
    <2>3. CleanExitMeansComplete' /\ exit' = "none"
      BY <1>1 DEF IInv, FileInv, CleanExitMeansComplete
    <2>4. \A i \in Rows : Gapless(matrix[i]) /\ Gapless(buffer'[i]) /\ Gapless(saved'[i])
      BY <1>4, <1>8 DEF IInv, FileInv
    <2>5. (\A i \in Rows : Gapless(matrix[i]) /\ Gapless(buffer[i]) /\ Gapless(saved[i]))'
      BY <2>4 DEF Gapless, Level, Applied
    <2> QED
      BY <2>2, <2>3, <2>5 DEF FileInv
  <1>10. CreatedInv' /\ StartInv' /\ PlaceInv' /\ BarrierInv'
    BY <1>1 DEF IInv, CreatedInv, StartInv, PlaceInv, BarrierInv, Team
  <1>11. Target' = [Target EXCEPT ![row[t]] = matrix[row[t]]]
    BY DEF Target
  <1>12. RowsInv'
    <2>1. SUFFICES ASSUME NEW u \in Team PROVE RowsOf(u)'
      BY <1>1 DEF RowsInv, Team
    <2>2. Slice(threads, u)' = Slice(threads, u)
      BY DEF Slice, From, To, Lines
    <2>3. From(threads, u)' = From(threads, u) /\ To(threads, u)' = To(threads, u)
      BY DEF From, To, Lines
    <2>4. RowsOf(u) /\ Slice(threads, u) \subseteq Rows
      BY <1>1, SliceInRows DEF IInv, RowsInv
    <2>5. \A i \in Rows : Target'[i] = IF i = row[t] THEN matrix[row[t]] ELSE Target[i]
      BY <1>11 DEF IInv, TypeOK, Target
    <2>6. \A i \in Rows : Level(Target[i]) = k[0] => Level(Target'[i]) = k[0]
      BY <1>3, <2>5
    <2>7. CASE u = t
      <3>1. row'[t] = row[t] + 1 /\ pc[t] = "save"
        BY DEF IInv, TypeOK
      <3>2. \A i \in Slice(threads, t) : i < row'[t] => Level(Target'[i]) = k[0]
        BY <1>1, <1>2, <1>3, <2>5, <2>6, <3>1 DEF RowsOf, Rows, Slice
      <3>3. row'[t] \in From(threads, t) .. To(threads, t)
        BY <1>6, <3>1
      <3> QED
        BY <2>2, <2>3, <2>4, <2>7, <3>1, <3>2, <3>3 DEF RowsOf, Saving, Level
    <2>8. CASE u # t
      <3>1. row'[u] = row[u]
        BY <1>1, <2>8 DEF IInv, TypeOK
      <3> QED
        BY <2>2, <2>3, <2>4, <2>6, <3>1 DEF RowsOf, Level
    <2> QED
      BY <2>7, <2>8
  <1> QED
    BY <1>7, <1>9, <1>10, <1>12 DEF IInv

\* Steps that change nothing but the places of the threads leave the rows
\* where they are.
LEMMA PlacesOnly ==
  ASSUME IInv, phase = "team",
         UNCHANGED <<phase, exit, args, memory, row, file, crashes>>
  PROVE  /\ Team' = Team
         /\ FileInv' /\ CreatedInv' /\ StartInv'
         /\ \A u \in Team :
              /\ Slice(threads, u)' = Slice(threads, u)
              /\ From(threads, u)' = From(threads, u)
              /\ To(threads, u)' = To(threads, u)
         /\ Target' = Target
  <1> USE DEF args, memory, file
  <1>1. FileInv'
    BY DEF IInv, FileInv, HeaderBehindRows, CleanExitMeansComplete, Gapless, Level, Applied
  <1>2. CreatedInv' /\ StartInv'
    BY DEF IInv, CreatedInv, StartInv
  <1> QED
    BY <1>1, <1>2 DEF Team, Slice, From, To, Lines, Target

\* Reaching a barrier preserves it.
LEMMA ReachBarrierIInv == ASSUME IInv, NEW t \in Tids, ReachBarrier(t) PROVE IInv'
  <1> USE DEF ReachBarrier, args, memory, file
  <1>1. /\ phase = "team" /\ t \in Team /\ 0 \in Team /\ Team \subseteq Tids
        /\ threads \in Nat \ {0} /\ Team = 0 .. threads - 1
        /\ k[t] = k[0] /\ k[0] \in Nat /\ completed \in Nat
        /\ Slice(threads, t) \subseteq Rows
        /\ RowsOf(t)
    BY TeamFacts
  <1>2. /\ From(threads, t) \in Nat /\ To(threads, t) \in Nat
    BY <1>1, SliceInRows
  <1>3. /\ Team' = Team
        /\ FileInv' /\ CreatedInv' /\ StartInv'
        /\ \A u \in Team : Slice(threads, u)' = Slice(threads, u)
                           /\ From(threads, u)' = From(threads, u)
                           /\ To(threads, u)' = To(threads, u)
        /\ Target' = Target
    BY <1>1, PlacesOnly
  <1>4. TypeOK'
    BY DEF IInv, TypeOK
  <1>5. \A u \in Tids : pc'[u] = IF u = t THEN "barrier1" ELSE pc[u]
    BY DEF IInv, TypeOK
  <1>6. PlaceInv' /\ BarrierInv'
    BY <1>1, <1>3, <1>5 DEF IInv, PlaceInv, BarrierInv, Saving
  <1>7. RowsInv'
    <2>1. SUFFICES ASSUME NEW u \in Team PROVE RowsOf(u)'
      BY <1>3 DEF RowsInv
    <2>2. RowsOf(u)
      BY <1>1 DEF IInv, RowsInv
    <2>3. CASE u = t
      <3>1. \A i \in Slice(threads, t) : Level(Target[i]) = k[0]
        BY <1>1, <1>2 DEF RowsOf, Slice
      <3>2. \A i \in Slice(threads, t) : Level(matrix[i]) = k[0]
        BY <1>1 DEF RowsOf, Saving
      <3>3. pc'[u] = "barrier1"
        BY <1>5, <2>3
      <3> QED
        BY <1>3, <2>3, <3>1, <3>2, <3>3 DEF RowsOf, Saving, Level
    <2>4. CASE u # t
      BY <1>1, <1>3, <1>5, <2>2, <2>4 DEF RowsOf, Level
    <2> QED
      BY <2>3, <2>4
  <1> QED
    BY <1>3, <1>4, <1>6, <1>7 DEF IInv

\* The end of the loop preserves it.
LEMMA LeaveLoopIInv == ASSUME IInv, NEW t \in Tids, LeaveLoop(t) PROVE IInv'
  <1> USE DEF LeaveLoop, Unfinished, args, memory, file
  <1>1. /\ phase = "team" /\ t \in Team /\ 0 \in Team /\ Team \subseteq Tids
        /\ threads \in Nat \ {0} /\ Team = 0 .. threads - 1
        /\ k[t] = k[0] /\ k[0] \in Nat /\ completed \in Nat
        /\ Slice(threads, t) \subseteq Rows
        /\ RowsOf(t)
    BY TeamFacts
  <1>2. /\ Team' = Team
        /\ FileInv' /\ CreatedInv' /\ StartInv'
        /\ \A u \in Team : Slice(threads, u)' = Slice(threads, u)
                           /\ From(threads, u)' = From(threads, u)
                           /\ To(threads, u)' = To(threads, u)
        /\ Target' = Target
    BY <1>1, PlacesOnly
  <1>3. TypeOK'
    BY DEF IInv, TypeOK
  <1>4. \A u \in Tids : pc'[u] = IF u = t THEN "done" ELSE pc[u]
    BY DEF IInv, TypeOK
  <1>5. PlaceInv'
    BY <1>1, <1>2, <1>4 DEF IInv, PlaceInv
  <1>6. BarrierInv'
    <2>1. iteration \in Int /\ k[0] > iteration
      BY <1>1 DEF IInv, TypeOK
    <2> QED
      BY <1>1, <1>2, <1>4, <2>1 DEF IInv, BarrierInv, Saving
  <1>7. RowsInv'
    <2>1. SUFFICES ASSUME NEW u \in Team PROVE RowsOf(u)'
      BY <1>2 DEF RowsInv
    <2>2. RowsOf(u)
      BY <1>1 DEF IInv, RowsInv
    <2>3. pc'[u] = "done" \/ pc'[u] = pc[u]
      BY <1>1, <1>4
    <2> QED
      BY <1>2, <2>2, <2>3 DEF RowsOf, Level, Saving
  <1> QED
    BY <1>2, <1>3, <1>5, <1>6, <1>7 DEF IInv

\* The first barrier preserves it.
LEMMA LeaveBarrier1IInv == ASSUME IInv, LeaveBarrier1 PROVE IInv'
  <1> USE DEF LeaveBarrier1, Arrived, args, memory, file
  <1>1. 0 \in Team /\ Team \subseteq Tids
    BY MaxThreadsAssumption DEF IInv, TypeOK, Team, Tids
  <1>2. /\ Team' = Team
        /\ FileInv' /\ CreatedInv' /\ StartInv'
        /\ \A u \in Team : Slice(threads, u)' = Slice(threads, u)
                           /\ From(threads, u)' = From(threads, u)
                           /\ To(threads, u)' = To(threads, u)
        /\ Target' = Target
    BY PlacesOnly
  <1>3. \A u \in Team : pc[u] = "barrier1" /\ pc'[u] = IF u = 0 THEN "header" ELSE "barrier2"
    BY <1>1
  <1>4. TypeOK'
    BY DEF IInv, TypeOK
  <1>5. PlaceInv'
    BY <1>1, <1>2, <1>3 DEF IInv, PlaceInv
  <1>6. BarrierInv'
    BY <1>1, <1>2, <1>3 DEF IInv, BarrierInv, Saving
  <1>7. RowsInv'
    <2>1. SUFFICES ASSUME NEW u \in Team PROVE RowsOf(u)'
      BY <1>2 DEF RowsInv
    <2>2. RowsOf(u)
      BY DEF IInv, RowsInv
    <2> QED
      BY <1>2, <1>3, <2>2 DEF RowsOf, Level, Saving
  <1> QED
    BY <1>2, <1>4, <1>5, <1>6, <1>7 DEF IInv

\* The second barrier preserves it.
LEMMA LeaveBarrier2IInv == ASSUME IInv, LeaveBarrier2 PROVE IInv'
  <1> USE DEF LeaveBarrier2, Arrived, args, memory, file
  <1>1. 0 \in Team /\ Team \subseteq Tids
    BY MaxThreadsAssumption DEF IInv, TypeOK, Team, Tids
  <1>2. /\ Team' = Team
        /\ FileInv' /\ CreatedInv' /\ StartInv'
        /\ \A u \in Team : Slice(threads, u)' = Slice(threads, u)
                           /\ From(threads, u)' = From(threads, u)
                           /\ To(threads, u)' = To(threads, u)
        /\ Target' = Target
    BY PlacesOnly
  <1>3. /\ \A u \in Team : pc[u] = "barrier2" /\ pc'[u] = "loop" /\ k'[u] = k[0] + 1
        /\ \A u \in Tids \ Team : pc'[u] = pc[u] /\ k'[u] = k[u]
        /\ k[0] = completed /\ k[0] <= iteration /\ k[0] \in Nat
        /\ iteration \in Counts
    BY <1>1 DEF IInv, TypeOK, BarrierInv, Saving
  <1>4. TypeOK'
    <2>1. k' \in [Tids -> 0 .. MaxIteration + 1]
      <3>1. k[0] + 1 \in 0 .. MaxIteration + 1
        BY <1>3, MaxIterationAssumption
      <3>2. \A u \in Tids : k'[u] \in 0 .. MaxIteration + 1
        BY <1>1, <1>3, <3>1 DEF IInv, TypeOK
      <3>3. k' = [u \in Tids |-> k'[u]]
        OBVIOUS
      <3> QED
        BY <3>2, <3>3
    <2>2. pc' \in [Tids -> {"idle", "loop", "save", "barrier1", "header", "barrier2", "done"}]
      BY DEF IInv, TypeOK
    <2> QED
      BY <2>1, <2>2 DEF IInv, TypeOK
  <1>5. PlaceInv'
    BY <1>1, <1>2, <1>3 DEF IInv, PlaceInv
  <1>6. BarrierInv'
    BY <1>1, <1>2, <1>3 DEF IInv, BarrierInv, Saving
  <1>7. RowsInv'
    <2>1. SUFFICES ASSUME NEW u \in Team PROVE RowsOf(u)'
      BY <1>2 DEF RowsInv
    <2>2. RowsOf(u)
      BY DEF IInv, RowsInv
    <2>3. \A i \in Slice(threads, u) : k'[0] <= Level(matrix[i]) + 1
      BY <1>1, <1>3, <2>2 DEF RowsOf, Saving
    <2> QED
      BY <1>2, <1>3, <2>3 DEF RowsOf, Level, Saving
  <1> QED
    BY <1>2, <1>4, <1>5, <1>6, <1>7 DEF IInv

\* At the header the whole team stands between the barriers: every row is
\* saved with the iteration that the header is about to name.
LEMMA HeaderFacts ==
  ASSUME IInv, WriteHeader
  PROVE  /\ phase = "team" /\ 0 \in Team /\ 0 \in Tids /\ Team \subseteq Tids
         /\ k[0] \in 0 .. MaxIteration
         /\ \A t \in Team : pc[t] \in {"header", "barrier2"}
         /\ \A i \in Rows : Level(Target[i]) = k[0]
  <1> USE DEF WriteHeader
  <1>1. 0 \in Tids
    BY MaxThreadsAssumption DEF Tids
  <1>2. /\ phase = "team" /\ 0 \in Team /\ Team \subseteq Tids
        /\ threads \in Nat \ {0} /\ Team = 0 .. threads - 1
        /\ k[0] \in Nat
    BY <1>1, TeamFacts
  <1>3. \A t \in Team : pc[t] \in {"header", "barrier2"}
    BY <1>2 DEF IInv, BarrierInv
  <1>4. k[0] \in 0 .. MaxIteration
    BY <1>2, MaxIterationAssumption DEF IInv, TypeOK, BarrierInv, Saving
  <1>5. ASSUME NEW i \in Rows PROVE Level(Target[i]) = k[0]
    <2>1. PICK t \in Team : i \in Slice(threads, t)
      BY <1>2, RowsCovered
    <2>2. RowsOf(t)
      BY <1>2 DEF IInv, RowsInv
    <2> QED
      BY <1>3, <2>1, <2>2 DEF RowsOf, Saving
  <1> QED
    BY <1>1, <1>2, <1>3, <1>4, <1>5

\* Writing the header preserves it.
LEMMA WriteHeaderIInv == ASSUME IInv, WriteHeader PROVE IInv'
  <1>1. /\ phase = "team" /\ 0 \in Team /\ 0 \in Tids /\ Team \subseteq Tids
        /\ k[0] \in 0 .. MaxIteration
        /\ \A t \in Team : pc[t] \in {"header", "barrier2"}
        /\ \A i \in Rows : Level(Target[i]) = k[0]
    BY HeaderFacts
  <1> USE DEF WriteHeader, args, memory
  <1>2. saved' = Target /\ completed' = k[0] /\ Target' = Target
    BY DEF Target
  <1>3. TypeOK'
    BY <1>1 DEF IInv, TypeOK
  <1>4. FileInv'
    <2>1. HeaderBehindRows'
      BY <1>1, <1>2 DEF HeaderBehindRows, Level
    <2>2. CleanExitMeansComplete' /\ exit' = "none"
      BY <1>1 DEF IInv, FileInv, CleanExitMeansComplete
    <2>3. \A i \in Rows : Gapless(matrix[i]) /\ Gapless(buffer[i]) /\ Gapless(saved'[i])
      BY DEF IInv, FileInv
    <2>4. (\A i \in Rows : Gapless(matrix[i]) /\ Gapless(buffer[i]) /\ Gapless(saved[i]))'
      BY <2>3 DEF Gapless, Level, Applied
    <2> QED
      BY <2>1, <2>2, <2>4 DEF FileInv
  <1>5. \A u \in Tids : pc'[u] = IF u = 0 THEN "barrier2" ELSE pc[u]
    BY <1>1 DEF IInv, TypeOK
  <1>6. CreatedInv' /\ StartInv' /\ PlaceInv'
    BY <1>1, <1>5 DEF IInv, CreatedInv, StartInv, PlaceInv, Team
  <1>7. BarrierInv'
    <2>1. k'[0] \in {completed', completed' + 1}
      BY <1>2
    <2>2. Team' = Team
      BY DEF Team
    <2> QED
      BY <1>1, <1>2, <1>5, <2>1, <2>2 DEF IInv, BarrierInv, Saving
  <1>8. RowsInv'
    <2>1. SUFFICES ASSUME NEW u \in Team PROVE RowsOf(u)'
      BY DEF RowsInv, Team
    <2>2. RowsOf(u) /\ pc'[u] \in {"header", "barrier2"}
      BY <1>1, <1>5 DEF IInv, RowsInv
    <2>3. Slice(threads, u)' = Slice(threads, u)
      BY DEF Slice, From, To, Lines
    <2> QED
      BY <1>1, <1>2, <2>2, <2>3 DEF RowsOf, Saving, Level
  <1> QED
    BY <1>3, <1>4, <1>6, <1>7, <1>8 DEF IInv

\* The end of the process preserves it.
LEMMA JoinIInv == ASSUME IInv, Join PROVE IInv'
  <1>1. 0 \in Team /\ phase = "team" /\ pc[0] = "done"
    BY MaxThreadsAssumption DEF Join, Arrived, IInv, TypeOK, Team
  <1>2. k[0] > iteration /\ total = iteration /\ k[0] \in {completed, completed + 1}
    BY <1>1 DEF IInv, BarrierInv
  <1>3. completed >= total
    <2>1. completed \in Int /\ total \in Int /\ k[0] \in Int
      BY <1>2 DEF IInv, TypeOK
    <2> QED
      BY <1>2, <2>1
  <1>4. End("success") /\ UNCHANGED <<file, blank>> /\ crashes' \in 0 .. MaxCrashes
    BY DEF Join, IInv, TypeOK
  <1> QED
    BY <1>1, <1>3, <1>4, EndIInv

\* A kill preserves it.
LEMMA CrashIInv == ASSUME IInv, Crash PROVE IInv'
  <1>1. crashes' \in 0 .. MaxCrashes
    BY MaxCrashesAssumption DEF Crash, IInv, TypeOK
  <1> QED
    BY <1>1, EndIInv DEF Crash

\* A step that changes nothing preserves it.
LEMMA StutterIInv == ASSUME IInv, UNCHANGED vars PROVE IInv'
  <1> USE DEF vars, args, memory, team, file
  <1>1. TypeOK'
    BY DEF IInv, TypeOK
  <1>2. FileInv'
    BY DEF IInv, FileInv, HeaderBehindRows, CleanExitMeansComplete, Gapless, Level, Applied
  <1>3. CreatedInv' /\ StartInv' /\ PlaceInv' /\ BarrierInv' /\ RowsInv'
    BY DEF IInv, CreatedInv, StartInv, PlaceInv, BarrierInv, RowsInv, RowsOf, Target, Team,
           Slice, From, To, Lines, Level
  <1> QED
    BY <1>1, <1>2, <1>3 DEF IInv

\* Every step preserves it.
LEMMA NextIInv == IInv /\ [Next]_vars => IInv'
  <1> SUFFICES ASSUME IInv, [Next]_vars PROVE IInv'
    OBVIOUS
  <1>1. CASE LaunchAny
    BY <1>1, LaunchIInv, RefusedIInv DEF LaunchAny
  <1>2. CASE OpenFile
    BY <1>2, OpenFileIInv
  <1>3. CASE WriteTotal
    BY <1>3, WriteTotalIInv
  <1>4. ASSUME NEW t \in Tids, ThreadStep(t) PROVE IInv'
    BY <1>4, ComputeIInv, SaveRowIInv, ReachBarrierIInv, LeaveLoopIInv DEF ThreadStep
  <1>5. CASE LeaveBarrier1
    BY <1>5, LeaveBarrier1IInv
  <1>6. CASE WriteHeader
    BY <1>6, WriteHeaderIInv
  <1>7. CASE LeaveBarrier2
    BY <1>7, LeaveBarrier2IInv
  <1>8. CASE Join
    BY <1>8, JoinIInv
  <1>9. CASE Crash
    BY <1>9, CrashIInv
  <1>10. CASE UNCHANGED vars
    BY <1>10, StutterIInv
  <1> QED
    BY <1>1, <1>2, <1>3, <1>4, <1>5, <1>6, <1>7, <1>8, <1>9, <1>10
    DEF Next, ProcessStep

\* The inductive invariant holds in every reachable state.
THEOREM Invariance == Spec => []IInv
  BY InitIInv, NextIInv, PTL DEF Spec

-----------------------------------------------------------------------------
(* What follows from it.                                                   *)

\* The state stays well typed for every number of rows, threads, iterations
\* and kills: no thread runs out of the matrix.
THEOREM TypeCorrectness == Spec => []TypeOK
  BY Invariance, PTL DEF IInv

\* No kill leaves a header that claims an iteration some saved row has not
\* had, whichever of the two programs ran before.
THEOREM HeaderNeverAhead == Spec => []HeaderBehindRows
  BY Invariance, PTL DEF IInv, FileInv

\* Every iteration up to the one in the header was applied to every saved row,
\* however often the computation was interrupted and resumed.
THEOREM NothingSkipped == Spec => []NoIterationSkipped
  <1>1. IInv => NoIterationSkipped
    <2> SUFFICES ASSUME IInv, NEW i \in Rows, NEW j \in 1 .. completed
                 PROVE  j \in Applied(saved[i])
      BY DEF NoIterationSkipped
    <2>1. Level(saved[i]) \in {completed, completed + 1} /\ Gapless(saved[i])
      BY DEF IInv, FileInv, HeaderBehindRows
    <2>2. completed \in Nat
      BY DEF IInv, TypeOK
    <2>3. j \in 1 .. Level(saved[i])
      BY <2>1, <2>2
    <2> QED
      BY <2>1, <2>3 DEF Gapless
  <1> QED
    BY <1>1, Invariance, PTL

\* A process that ends by itself, refused or done, leaves a complete file.
THEOREM CleanExit == Spec => []CleanExitMeansComplete
  BY Invariance, PTL DEF IInv, FileInv

\* The header word only ever advances, and by one.
THEOREM HeaderAdvances == Spec => CheckpointAdvancesByOne
  <1>1. IInv /\ [Next]_vars => completed' \in {completed, completed + 1}
    <2> SUFFICES ASSUME IInv, [Next]_vars
                 PROVE  completed' \in {completed, completed + 1}
      OBVIOUS
    <2>1. CASE WriteHeader
      BY <2>1, HeaderFacts DEF IInv, BarrierInv, WriteHeader
    <2>2. CASE ~WriteHeader
      BY <2>2 DEF vars, file, Next, LaunchAny, LaunchFresh, LaunchResume, Launch,
           LaunchRefused, ProcessStep, OpenFile, WriteTotal, ThreadStep, Compute, SaveRow,
           ReachBarrier, LeaveBarrier1, LeaveBarrier2, LeaveLoop, Join, Crash
    <2> QED
      BY <2>1, <2>2
  <1> QED
    BY <1>1, Invariance, PTL DEF Spec, CheckpointAdvancesByOne

\* Where only checkpoint.c runs, the header names exactly the iteration that
\* every saved row ends with: the rows reach the file with the header, never
\* before it.
THEOREM HeaderExact == Spec => []HeaderMatchesRows
  <1>1. Init => HeaderMatchesRows
    BY RowConstants DEF Init, HeaderMatchesRows
  <1>2. IInv /\ HeaderMatchesRows /\ [Next]_vars => HeaderMatchesRows'
    <2> SUFFICES ASSUME IInv, HeaderMatchesRows, [Next]_vars, Programs = {"checkpoint"}
                 PROVE  (\A i \in Rows : Level(saved[i]) = completed)'
      BY DEF HeaderMatchesRows
    <2>1. CASE WriteHeader
      <3>1. \A i \in Rows : Level(Target[i]) = k[0]
        BY <2>1, HeaderFacts
      <3>2. saved' = Target /\ completed' = k[0]
        BY <2>1 DEF WriteHeader, Target
      <3> QED
        BY <3>1, <3>2 DEF Level
    <2>2. CASE ~WriteHeader
      <3>1. UNCHANGED <<saved, completed>>
        BY <2>2 DEF IInv, TypeOK, vars, file, Next, LaunchAny, LaunchFresh, LaunchResume,
             Launch, LaunchRefused, ProcessStep, OpenFile, WriteTotal, ThreadStep, Compute,
             SaveRow, ReachBarrier, LeaveBarrier1, LeaveBarrier2, LeaveLoop, Join, Crash
      <3> QED
        BY <3>1 DEF HeaderMatchesRows, Level
    <2> QED
      BY <2>1, <2>2
  <1> QED
    BY <1>1, <1>2, Invariance, PTL DEF Spec

-----------------------------------------------------------------------------
(* Rows that were never filled                                             *)

\* No accident has happened that a lost row could come from.
Unharmed == crashes = 0 /\ ~blank

\* As long as none has, what is in memory was filled, and the file of a process
\* that ended has at least one checkpoint.  A process that was not killed leaves
\* a file, so that only the first launch is a fresh one.
FilledInv ==
  /\ Unharmed =>
       /\ \A i \in Rows : saved[i].seed = "init" \/ saved[i] = AbsentRow
       /\ \A i \in Rows : buffer[i].seed = "init" \/ buffer[i] = LostRow
       /\ phase # "off" => start >= 1 /\ \A i \in Rows : matrix[i].seed = "init"
       /\ phase # "off" => completed >= 1 \/ iteration >= 1
       /\ phase = "team" => k[0] >= 1
       /\ phase = "off" /\ created => completed >= 1
  /\ crashes = 0 /\ phase = "off" /\ ~created => ~blank

\* There is no file at first.
LEMMA InitFilled == Init => FilledInv
  BY DEF Init, FilledInv, Unharmed

\* A launch without an accident before it finds filled rows, and it is the only
\* fresh one.
LEMMA LaunchFilled ==
  ASSUME IInv, FilledInv, NEW p, NEW T, NEW n \in Counts,
         LaunchFresh(p, T, n) \/ LaunchResume(p, T, n)
  PROVE  FilledInv'
  <1> USE DEF Launch, team, file
  <1>1. SUFFICES ASSUME Unharmed' PROVE FilledInv'
    BY DEF FilledInv, LaunchFresh, LaunchResume
  <1>2. Unharmed
    BY <1>1 DEF Unharmed, FilledInv, LaunchFresh, LaunchResume
  <1>3. CASE LaunchFresh(p, T, n)
    <2>1. n >= 1
      BY <1>1, <1>3 DEF LaunchFresh, Unharmed
    <2>2. \A i \in Rows : matrix'[i].seed = "init"
      BY <1>3 DEF LaunchFresh, InitRow
    <2>3. /\ phase' = "open" /\ start' = 1 /\ iteration' = n
          /\ saved' = saved /\ buffer' = buffer
      BY <1>3 DEF LaunchFresh
    <2> QED
      BY <1>2, <2>1, <2>2, <2>3 DEF FilledInv
  <1>4. CASE LaunchResume(p, T, n)
    <2>1. completed >= 1 /\ completed \in Nat
      BY <1>2, <1>4 DEF LaunchResume, FilledInv, IInv, TypeOK
    <2>2. ASSUME NEW i \in Rows PROVE matrix'[i].seed = "init"
      <3>1. Level(saved[i]) \in {completed, completed + 1}
        BY DEF IInv, FileInv, HeaderBehindRows
      <3>2. saved[i] # AbsentRow
        BY <2>1, <3>1, RowConstants
      <3> QED
        BY <1>2, <1>4, <3>2 DEF LaunchResume, FilledInv
    <2>3. start' = completed
      BY <1>4 DEF LaunchResume, ResumeAt
    <2> QED
      BY <1>2, <1>4, <2>1, <2>2, <2>3 DEF FilledInv, LaunchResume
  <1> QED
    BY <1>3, <1>4

\* A thread keeps filled rows filled.
LEMMA ThreadFilled ==
  ASSUME IInv, FilledInv, NEW t \in Tids, ThreadStep(t)
  PROVE  FilledInv'
  <1>1. pc[t] # "idle" /\ UNCHANGED <<phase, ghosts>>
    BY DEF ThreadStep, Compute, SaveRow, ReachBarrier, LeaveLoop
  <1>2. phase = "team" /\ t \in Team /\ threads \in Nat \ {0} /\ Team = 0 .. threads - 1
    BY <1>1, TeamFacts
  <1> SUFFICES ASSUME Unharmed PROVE FilledInv'
    BY <1>1, <1>2 DEF FilledInv, Unharmed, ghosts
  <1> USE DEF args, memory, file, ghosts
  <1>3. CASE Compute(t)
    <2>1. ASSUME NEW i \in Rows PROVE matrix'[i].seed = "init"
      <3>1. matrix[i].seed = "init" /\ matrix[i] \in RowState
        BY <1>2 DEF FilledInv, IInv, TypeOK
      <3>2. Apply(matrix[i], k[t]).seed = matrix[i].seed
        BY <3>1 DEF Apply, RowState
      <3>3. matrix'[i] = matrix[i] \/ matrix'[i] = Apply(matrix[i], k[t])
        BY <1>3 DEF Compute
      <3> QED
        BY <3>1, <3>2, <3>3
    <2> QED
      BY <1>2, <1>3, <2>1 DEF FilledInv, Compute
  <1>4. CASE SaveRow(t)
    <2>1. \A i \in Rows : matrix[i].seed = "init"
      BY <1>2 DEF FilledInv
    <2>2. row[t] \in Rows
      <3>1. /\ RowsOf(t) /\ Slice(threads, t) \subseteq Rows /\ pc[t] = "save"
            /\ From(threads, t) \in Nat /\ To(threads, t) \in Nat
            /\ row[t] < To(threads, t)
        BY <1>1, <1>2, <1>4, TeamFacts, SliceInRows DEF SaveRow
      <3> QED
        BY <3>1 DEF RowsOf, Slice
    <2>3. \A i \in Rows : /\ buffer'[i] = buffer[i] \/ buffer'[i] = matrix[row[t]]
                          /\ saved'[i] = saved[i] \/ saved'[i] = matrix[row[t]]
      BY <1>4 DEF SaveRow, IInv, TypeOK
    <2> QED
      BY <1>2, <1>4, <2>1, <2>2, <2>3 DEF FilledInv, SaveRow
  <1>5. CASE ReachBarrier(t)
    BY <1>5 DEF FilledInv, ReachBarrier
  <1>6. CASE LeaveLoop(t)
    BY <1>6 DEF FilledInv, LeaveLoop
  <1> QED
    BY <1>3, <1>4, <1>5, <1>6 DEF ThreadStep

\* The first header comes after all rows.
LEMMA HeaderFilled == ASSUME IInv, FilledInv, WriteHeader PROVE FilledInv'
  <1> SUFFICES ASSUME Unharmed PROVE FilledInv'
    BY HeaderFacts DEF FilledInv, Unharmed, WriteHeader, ghosts
  <1>1. phase = "team" /\ k[0] >= 1 /\ \A i \in Rows : Level(Target[i]) = k[0]
    BY HeaderFacts DEF FilledInv
  <1>2. saved' = Target
    BY DEF WriteHeader, Target
  <1>3. ASSUME NEW i \in Rows PROVE Target[i].seed = "init"
    <2>1. Target[i] # LostRow /\ Target[i] # AbsentRow
      BY <1>1, RowConstants
    <2> QED
      BY <2>1 DEF Target, FilledInv
  <1> QED
    BY <1>1, <1>2, <1>3 DEF FilledInv, WriteHeader, args, memory, ghosts

\* A process that ends leaves a checkpoint.
LEMMA JoinFilled == ASSUME IInv, FilledInv, Join PROVE FilledInv'
  <1> SUFFICES ASSUME Unharmed PROVE FilledInv'
    BY DEF FilledInv, Unharmed, Join, IInv, CreatedInv, file, ghosts
  <1>1. 0 \in Team /\ phase = "team" /\ pc[0] = "done"
    BY MaxThreadsAssumption DEF Join, Arrived, IInv, TypeOK, Team
  <1>2. k[0] > iteration /\ k[0] \in {completed, completed + 1}
    BY <1>1 DEF IInv, BarrierInv
  <1>3. completed >= 1
    <2>1. /\ completed \in Nat /\ k[0] \in Int /\ iteration \in Int
          /\ completed >= 1 \/ iteration >= 1
      BY <1>1, <1>2 DEF IInv, TypeOK, FilledInv, Counts
    <2> QED
      BY <1>2, <2>1
  <1> QED
    BY <1>3 DEF FilledInv, Unharmed, Join, End, file, ghosts

\* The other steps do not touch the rows.
LEMMA RestFilled ==
  ASSUME IInv, FilledInv,
         \/ \E n : LaunchRefused(n)
         \/ OpenFile \/ WriteTotal \/ LeaveBarrier1 \/ LeaveBarrier2 \/ Crash
         \/ UNCHANGED vars
  PROVE  FilledInv'
  <1> USE DEF FilledInv, Unharmed, args, memory, team, file, ghosts
  <1>1. ASSUME NEW n, LaunchRefused(n) PROVE FilledInv'
    BY <1>1 DEF LaunchRefused
  <1>2. CASE OpenFile
    BY <1>2 DEF OpenFile
  <1>3. CASE WriteTotal
    <2>1. 0 \in Tids /\ k'[0] = start
      BY <1>3, MaxThreadsAssumption DEF WriteTotal, Tids
    <2> QED
      BY <1>3, <2>1 DEF WriteTotal
  <1>4. CASE LeaveBarrier1
    BY <1>4 DEF LeaveBarrier1
  <1>5. CASE LeaveBarrier2
    <2>1. 0 \in Tids /\ k[0] \in Nat /\ (k'[0] = k[0] \/ k'[0] = k[0] + 1)
      BY <1>5, MaxThreadsAssumption, MaxIterationAssumption DEF LeaveBarrier2, Tids, IInv, TypeOK
    <2> QED
      BY <1>5, <2>1 DEF LeaveBarrier2
  <1>6. CASE Crash
    BY <1>6, MaxCrashesAssumption DEF Crash, End, IInv, TypeOK
  <1>7. CASE UNCHANGED vars
    BY <1>7 DEF vars
  <1> QED
    BY <1>1, <1>2, <1>3, <1>4, <1>5, <1>6, <1>7

\* No row is saved that was never filled, unless a process was killed or the
\* file was started with nothing to compute.
THEOREM LostForAReason == Spec => []RowsLostForAReason
  <1>1. IInv /\ FilledInv /\ [Next]_vars => FilledInv'
    <2> SUFFICES ASSUME IInv, FilledInv, [Next]_vars PROVE FilledInv'
      OBVIOUS
    <2>1. CASE LaunchAny
      BY <2>1, LaunchFilled, RestFilled DEF LaunchAny
    <2>2. ASSUME NEW t \in Tids, ThreadStep(t) PROVE FilledInv'
      BY <2>2, ThreadFilled
    <2> QED
      BY <2>1, <2>2, HeaderFilled, JoinFilled, RestFilled DEF Next, ProcessStep
  <1>2. IInv /\ FilledInv => RowsLostForAReason
    BY DEF IInv, TypeOK, FilledInv, Unharmed, RowsLostForAReason, AbsentRow
  <1> QED
    BY <1>1, <1>2, InitFilled, Invariance, PTL DEF Spec

-----------------------------------------------------------------------------
(* The refinement of AtomicCheckpoint                                      *)

\* The row that continues what is saved of row i.
Continues(s, i) == [seed |-> s, done |-> saved[i].done]
Advances(s, i) == [seed |-> s, done |-> Append(saved[i].done, k[0])]

\* Thread t has applied the iteration that the header does not have yet.
HasNext(t) ==
  \/ pc[t] \in {"save", "barrier1", "header"}
  \/ pc[t] = "barrier2" /\ pc[0] = "header"

\* Rows that are saved are of one origin, and a file that does not exist has none.
SavedAlike(s) ==
  /\ (\A i \in Rows : saved[i] = AbsentRow) \/ (\A i \in Rows : saved[i].seed = s)
  /\ ~created => \A i \in Rows : saved[i] = AbsentRow

\* Row i of thread t is what is saved, or that and one iteration; cooler_matrix
\* has it once the thread has copied it.
RowAlike(s, t, i) ==
  /\ HasNext(t) => matrix[i] = Advances(s, i)
  /\ ~HasNext(t) => matrix[i] = Continues(s, i)
  /\ pc[t] = "save" /\ i < row[t] => buffer[i] = matrix[i]
  /\ pc[t] \in Saving \ {"save"} => buffer[i] = matrix[i]

OneHistory(s) ==
  /\ SavedAlike(s)
  /\ phase \in {"open", "total"} => \A i \in Rows : matrix[i] = Continues(s, i)
  /\ phase = "team" => \A t \in Team : \A i \in Slice(threads, t) : RowAlike(s, t, i)

Origins == {"init", "lost"}

HistoryInv == \E s \in Origins : OneHistory(s)

\* There is no history at first.
LEMMA InitHistory == Init => HistoryInv
  <1> SUFFICES ASSUME Init PROVE OneHistory("init")
    BY DEF HistoryInv, Origins
  <1> QED
    BY DEF Init, OneHistory, SavedAlike

\* A launch starts with the saved rows or with fresh ones.
LEMMA LaunchHistory ==
  ASSUME IInv, HistoryInv, NEW p, NEW T, NEW n,
         LaunchFresh(p, T, n) \/ LaunchResume(p, T, n)
  PROVE  HistoryInv'
  <1> USE DEF Launch, file
  <1>1. PICK s \in Origins : OneHistory(s)
    BY DEF HistoryInv
  <1>2. \A i \in Rows : saved[i] \in RowState
    BY DEF IInv, TypeOK
  <1>3. CASE LaunchFresh(p, T, n)
    <2>1. \A i \in Rows : saved'[i] = AbsentRow /\ matrix'[i] = InitRow
      BY <1>1, <1>3 DEF OneHistory, SavedAlike, LaunchFresh
    <2>2. OneHistory("init")'
      BY <1>3, <2>1 DEF OneHistory, SavedAlike, Continues, LaunchFresh, InitRow, AbsentRow
    <2> QED
      BY <2>2 DEF HistoryInv, Origins
  <1>4. CASE LaunchResume(p, T, n)
    <2>1. CASE \A i \in Rows : saved[i] = AbsentRow
      <3>1. \A i \in Rows : saved'[i] = AbsentRow /\ matrix'[i] = LostRow
        BY <1>4, <2>1 DEF LaunchResume
      <3>2. OneHistory("lost")'
        BY <1>4, <3>1 DEF OneHistory, SavedAlike, Continues, LaunchResume, LostRow, AbsentRow
      <3> QED
        BY <3>2 DEF HistoryInv, Origins
    <2>2. CASE \A i \in Rows : saved[i].seed = s
      <3>1. ASSUME NEW i \in Rows
            PROVE  matrix'[i] = saved[i] /\ saved[i] = Continues(s, i)
        <4>1. saved[i].seed = s /\ s # "absent" /\ saved[i] # AbsentRow
          BY <1>1, <2>2 DEF Origins, AbsentRow
        <4> QED
          BY <1>2, <1>4, <4>1 DEF LaunchResume, Continues, RowState
      <3>2. created' /\ saved' = saved /\ phase' = "open"
        BY <1>4 DEF LaunchResume
      <3>3. OneHistory(s)'
        BY <2>2, <3>1, <3>2 DEF OneHistory, SavedAlike, Continues
      <3> QED
        BY <1>1, <3>3 DEF HistoryInv
    <2> QED
      BY <1>1, <2>1, <2>2 DEF OneHistory, SavedAlike
  <1> QED
    BY <1>3, <1>4

\* The rows of a thread stay its own while no process is launched.
LEMMA SliceKept ==
  ASSUME UNCHANGED threads, NEW t
  PROVE  Slice(threads, t)' = Slice(threads, t) /\ Team' = Team
  BY DEF Slice, From, To, Lines, Team

\* A step of one thread that leaves the file alone.
LEMMA ThreadHistory ==
  ASSUME IInv, NEW s, OneHistory(s), UNCHANGED <<phase, threads, created, saved, k>>,
         NEW t \in Team, phase = "team",
         \A u \in Team \ {t} : pc'[u] = pc[u] /\ row'[u] = row[u],
         \A i \in Rows : i \notin Slice(threads, t) =>
                           matrix'[i] = matrix[i] /\ buffer'[i] = buffer[i],
         pc[0] # "header", pc'[0] # "header",
         \A i \in Slice(threads, t) : RowAlike(s, t, i)'
  PROVE  OneHistory(s)'
  <1>1. /\ threads \in Nat \ {0} /\ Team = 0 .. threads - 1
        /\ Team' = Team /\ \A u \in Team : Slice(threads, u)' = Slice(threads, u)
    BY MaxThreadsAssumption, SliceKept DEF IInv, TypeOK, Team
  <1>2. ASSUME NEW u \in Team, u # t, NEW i \in Slice(threads, u)
        PROVE  RowAlike(s, u, i)'
    <2>1. i \in Rows /\ i \notin Slice(threads, t)
      BY <1>1, <1>2, RowsDisjoint, SliceInRows
    <2>2. RowAlike(s, u, i)
      BY DEF OneHistory
    <2>3. /\ matrix'[i] = matrix[i] /\ buffer'[i] = buffer[i]
          /\ pc'[u] = pc[u] /\ row'[u] = row[u]
      BY <1>2, <2>1
    <2>4. HasNext(u)' <=> HasNext(u)
      BY <2>3 DEF HasNext
    <2> QED
      BY <2>2, <2>3, <2>4 DEF RowAlike, Continues, Advances
  <1>3. SavedAlike(s)'
    BY DEF OneHistory, SavedAlike
  <1> QED
    BY <1>1, <1>2, <1>3 DEF OneHistory

\* Apply appends the iteration and keeps the origin.
LEMMA ApplyAppends ==
  ASSUME NEW r \in RowState, NEW j \in 0 .. MaxIteration
  PROVE  Apply(r, j) = [seed |-> r.seed, done |-> Append(r.done, j)]
  <1>1. Append(r.done, j) \in Seq(0 .. MaxIteration)
    BY DEF RowState
  <1>2. /\ Apply(r, j).done = Append(r.done, j) /\ Apply(r, j).seed = r.seed
        /\ Apply(r, j) \in RowState
    BY <1>1 DEF Apply, RowState
  <1> QED
    BY <1>2 DEF RowState

\* Computing applies the next iteration to a row in memory.
LEMMA ComputeHistory ==
  ASSUME IInv, NEW s, OneHistory(s), NEW t \in Tids, Compute(t)
  PROVE  OneHistory(s)'
  <1> USE DEF Compute, args, file
  <1>1. /\ phase = "team" /\ t \in Team /\ 0 \in Team /\ Team \subseteq Tids
        /\ k[t] = k[0] /\ Slice(threads, t) \subseteq Rows /\ threads \in Nat \ {0}
        /\ Team = 0 .. threads - 1
    BY TeamFacts
  <1>2. pc[0] # "header"
    BY <1>1 DEF IInv, BarrierInv
  <1>3. \A u \in Tids : /\ u # t => pc'[u] = pc[u] /\ row'[u] = row[u]
                        /\ pc'[t] = "save" /\ row'[t] = From(threads, t)
    BY DEF IInv, TypeOK
  <1>4. ASSUME NEW i \in Slice(threads, t) PROVE RowAlike(s, t, i)'
    <2>1. i \in Rows /\ i >= From(threads, t) /\ From(threads, t) \in Nat /\ i \in Nat
      BY <1>1, SliceInRows, NAssumption DEF Slice, Rows
    <2>2. matrix[i] = Continues(s, i)
      BY <1>1 DEF OneHistory, RowAlike, HasNext
    <2>3. matrix'[i] = Apply(matrix[i], k[0])
      BY <1>1, <2>1
    <2>4. matrix'[i] = Advances(s, i)'
      <3>1. matrix[i] \in RowState /\ k[0] \in 0 .. MaxIteration
        BY <1>1, <2>1, MaxIterationAssumption DEF Unfinished, IInv, TypeOK
      <3>2. /\ matrix[i].seed = s /\ matrix[i].done = saved[i].done
            /\ Advances(s, i)' = Advances(s, i)
        BY <2>2 DEF Continues, Advances
      <3> QED
        BY <2>3, <3>1, <3>2, ApplyAppends DEF Advances
    <2>5. HasNext(t)' /\ pc'[t] = "save" /\ ~(i < row'[t])
      BY <1>1, <1>3, <2>1 DEF HasNext
    <2> QED
      BY <2>4, <2>5 DEF RowAlike, Saving
  <1>5. pc'[0] # "header"
    BY <1>1, <1>2, <1>3
  <1>6. \A u \in Team \ {t} : pc'[u] = pc[u] /\ row'[u] = row[u]
    BY <1>1, <1>3
  <1>7. \A i \in Rows : i \notin Slice(threads, t) =>
                           matrix'[i] = matrix[i] /\ buffer'[i] = buffer[i]
    OBVIOUS
  <1> QED
    BY <1>1, <1>2, <1>4, <1>5, <1>6, <1>7, ThreadHistory

\* checkpoint.c copies a row to cooler_matrix.
LEMMA SaveRowHistory ==
  ASSUME IInv, Programs = {"checkpoint"}, NEW s, OneHistory(s),
         NEW t \in Tids, SaveRow(t)
  PROVE  OneHistory(s)'
  <1> USE DEF SaveRow, args
  <1>1. /\ phase = "team" /\ t \in Team /\ 0 \in Team /\ Team \subseteq Tids
        /\ Slice(threads, t) \subseteq Rows /\ threads \in Nat \ {0}
        /\ Team = 0 .. threads - 1 /\ RowsOf(t)
    BY TeamFacts
  <1>2. pc[0] # "header"
    BY <1>1 DEF IInv, BarrierInv
  <1>3. program = "checkpoint"
    BY DEF IInv, TypeOK
  <1>4. row[t] \in Slice(threads, t) /\ row[t] \in Rows
    <2>1. /\ row[t] \in From(threads, t) .. To(threads, t) /\ row[t] < To(threads, t)
          /\ From(threads, t) \in Nat /\ To(threads, t) \in Nat
      BY <1>1, SliceInRows DEF RowsOf
    <2> QED
      BY <1>1, <2>1 DEF Slice
  <1>5. /\ saved' = saved
        /\ buffer'[row[t]] = matrix[row[t]]
        /\ \A i \in Rows : i # row[t] => buffer'[i] = buffer[i]
        /\ row'[t] = row[t] + 1
        /\ \A u \in Tids : u # t => row'[u] = row[u]
    BY <1>3, <1>4 DEF IInv, TypeOK
  <1>6. ASSUME NEW i \in Slice(threads, t) PROVE RowAlike(s, t, i)'
    <2>1. i \in Rows /\ i \in Nat /\ row[t] \in Nat
      BY <1>1, <1>4, NAssumption DEF Rows
    <2>2. matrix[i] = Advances(s, i) /\ (i < row[t] => buffer[i] = matrix[i])
      BY <1>1 DEF OneHistory, RowAlike, HasNext
    <2>3. i < row'[t] => buffer'[i] = matrix[i]
      BY <1>5, <2>1, <2>2
    <2>4. HasNext(t)' /\ pc'[t] = "save" /\ Advances(s, i)' = Advances(s, i)
      BY <1>5 DEF HasNext, Advances
    <2> QED
      BY <2>2, <2>3, <2>4 DEF RowAlike, Saving
  <1>7. \A u \in Team \ {t} : pc'[u] = pc[u] /\ row'[u] = row[u]
    BY <1>1, <1>5
  <1>8. \A i \in Rows : i \notin Slice(threads, t) =>
                           matrix'[i] = matrix[i] /\ buffer'[i] = buffer[i]
    BY <1>4, <1>5
  <1> QED
    BY <1>1, <1>2, <1>5, <1>6, <1>7, <1>8, ThreadHistory

\* Reaching a barrier preserves the one history.
LEMMA ReachBarrierHistory ==
  ASSUME IInv, NEW s, OneHistory(s), NEW t \in Tids, ReachBarrier(t)
  PROVE  OneHistory(s)'
  <1> USE DEF ReachBarrier, args, memory, file
  <1>1. /\ phase = "team" /\ t \in Team /\ 0 \in Team /\ Team \subseteq Tids
        /\ Slice(threads, t) \subseteq Rows /\ threads \in Nat \ {0}
        /\ Team = 0 .. threads - 1 /\ RowsOf(t)
    BY TeamFacts
  <1>2. pc[0] # "header"
    BY <1>1 DEF IInv, BarrierInv
  <1>3. pc'[t] = "barrier1" /\ \A u \in Tids : u # t => pc'[u] = pc[u]
    BY DEF IInv, TypeOK
  <1>4. ASSUME NEW i \in Slice(threads, t) PROVE RowAlike(s, t, i)'
    <2>1. i < row[t]
      <3>1. /\ row[t] \in From(threads, t) .. To(threads, t) /\ row[t] >= To(threads, t)
            /\ From(threads, t) \in Nat /\ To(threads, t) \in Nat
        BY <1>1, SliceInRows DEF RowsOf
      <3> QED
        BY <3>1 DEF Slice
    <2>2. matrix[i] = Advances(s, i) /\ buffer[i] = matrix[i]
      BY <1>1, <2>1 DEF OneHistory, RowAlike, HasNext
    <2>3. HasNext(t)' /\ Advances(s, i)' = Advances(s, i)
      BY <1>3 DEF HasNext, Advances
    <2> QED
      BY <1>3, <2>2, <2>3 DEF RowAlike
  <1>5. pc'[0] # "header"
    BY <1>1, <1>2, <1>3
  <1>6. \A u \in Team \ {t} : pc'[u] = pc[u] /\ row'[u] = row[u]
    BY <1>1, <1>3
  <1> QED
    BY <1>1, <1>2, <1>4, <1>5, <1>6, ThreadHistory

\* The end of the loop preserves the one history.
LEMMA LeaveLoopHistory ==
  ASSUME IInv, NEW s, OneHistory(s), NEW t \in Tids, LeaveLoop(t)
  PROVE  OneHistory(s)'
  <1> USE DEF LeaveLoop, args, memory, file
  <1>1. /\ phase = "team" /\ t \in Team /\ 0 \in Team /\ Team \subseteq Tids
    BY TeamFacts
  <1>2. pc[0] # "header"
    BY <1>1 DEF IInv, BarrierInv
  <1>3. pc'[t] = "done" /\ \A u \in Tids : u # t => pc'[u] = pc[u]
    BY DEF IInv, TypeOK
  <1>4. ASSUME NEW i \in Slice(threads, t) PROVE RowAlike(s, t, i)'
    <2>1. matrix[i] = Continues(s, i)
      BY <1>1 DEF OneHistory, RowAlike, HasNext
    <2> QED
      BY <1>3, <2>1 DEF RowAlike, HasNext, Saving, Continues
  <1>5. pc'[0] # "header"
    BY <1>1, <1>2, <1>3
  <1>6. \A u \in Team \ {t} : pc'[u] = pc[u] /\ row'[u] = row[u]
    BY <1>1, <1>3
  <1> QED
    BY <1>1, <1>2, <1>4, <1>5, <1>6, ThreadHistory

\* The barriers move the team without a change of rows or file.
LEMMA BarrierHistory ==
  ASSUME IInv, NEW s, OneHistory(s), LeaveBarrier1 \/ LeaveBarrier2
  PROVE  OneHistory(s)'
  <1> USE DEF args, memory, file
  <1>1. /\ phase = "team" /\ 0 \in Team /\ Team \subseteq Tids
        /\ UNCHANGED <<phase, threads, created, saved, matrix, buffer>>
    BY MaxThreadsAssumption DEF LeaveBarrier1, LeaveBarrier2, IInv, TypeOK, Team, Tids
  <1>2. Team' = Team /\ \A t \in Team : Slice(threads, t)' = Slice(threads, t)
    BY <1>1, SliceKept
  <1>3. ASSUME NEW t \in Team, NEW i \in Slice(threads, t) PROVE RowAlike(s, t, i)'
    <2>1. RowAlike(s, t, i)
      BY <1>1 DEF OneHistory
    <2>2. CASE LeaveBarrier1
      <3>1. pc[t] = "barrier1"
        BY <2>2 DEF LeaveBarrier1, Arrived
      <3>2. pc'[0] = "header" /\ pc'[t] \in {"header", "barrier2"}
        BY <1>1, <2>2 DEF LeaveBarrier1
      <3>3. matrix[i] = Advances(s, i) /\ buffer[i] = matrix[i]
        BY <2>1, <3>1 DEF RowAlike, HasNext, Saving
      <3>4. HasNext(t)' /\ Advances(s, i)' = Advances(s, i)
        BY <1>1, <2>2, <3>2 DEF HasNext, Advances, LeaveBarrier1
      <3> QED
        BY <1>1, <3>2, <3>3, <3>4 DEF RowAlike
    <2>3. CASE LeaveBarrier2
      <3>1. pc[t] = "barrier2" /\ pc[0] = "barrier2"
        BY <1>1, <2>3 DEF LeaveBarrier2, Arrived
      <3>2. pc'[t] = "loop"
        BY <1>1, <2>3 DEF LeaveBarrier2
      <3>3. matrix[i] = Continues(s, i)
        BY <2>1, <3>1 DEF RowAlike, HasNext
      <3>4. ~HasNext(t)' /\ Continues(s, i)' = Continues(s, i)
        BY <1>1, <3>2 DEF HasNext, Continues
      <3> QED
        BY <1>1, <3>2, <3>3, <3>4 DEF RowAlike, Saving
    <2> QED
      BY <2>2, <2>3
  <1>4. SavedAlike(s)'
    BY <1>1 DEF OneHistory, SavedAlike
  <1> QED
    BY <1>1, <1>2, <1>3, <1>4 DEF OneHistory

\* The pwrite of checkpoint.c saves the next iteration of every row.
LEMMA HeaderSaves ==
  ASSUME IInv, Programs = {"checkpoint"}, NEW s, OneHistory(s), WriteHeader
  PROVE  /\ saved' = buffer /\ completed' = k[0]
         /\ \A i \in Rows : buffer[i] = Advances(s, i) /\ matrix[i] = Advances(s, i)
  <1>1. saved' = buffer /\ completed' = k[0]
    BY DEF WriteHeader, IInv, TypeOK
  <1>2. /\ phase = "team" /\ \A t \in Team : pc[t] \in {"header", "barrier2"}
        /\ pc[0] = "header" /\ 0 \in Tids
    BY HeaderFacts DEF WriteHeader
  <1>3. threads \in Nat \ {0} /\ Team = 0 .. threads - 1
    BY <1>2, TeamFacts
  <1>4. ASSUME NEW i \in Rows PROVE buffer[i] = Advances(s, i) /\ matrix[i] = Advances(s, i)
    <2>1. PICK t \in Team : i \in Slice(threads, t)
      BY <1>3, RowsCovered
    <2>2. RowAlike(s, t, i)
      BY <1>2, <2>1 DEF OneHistory
    <2>3. pc[t] \in {"header", "barrier2"}
      BY <1>2
    <2> QED
      BY <1>2, <2>2, <2>3 DEF RowAlike, HasNext, Saving
  <1> QED
    BY <1>1, <1>4

\* checkpoint.c saves all rows of cooler_matrix with the header.
LEMMA HeaderHistory ==
  ASSUME IInv, Programs = {"checkpoint"}, NEW s \in Origins, OneHistory(s), WriteHeader
  PROVE  OneHistory(s)'
  <1> USE DEF args, memory
  <1>1. /\ phase = "team" /\ 0 \in Team /\ 0 \in Tids /\ Team \subseteq Tids
        /\ \A t \in Team : pc[t] \in {"header", "barrier2"}
    BY HeaderFacts
  <1>2. UNCHANGED <<phase, threads, created, matrix, buffer, k>>
    BY DEF WriteHeader
  <1>3. /\ Team' = Team /\ \A t \in Team : Slice(threads, t)' = Slice(threads, t)
        /\ \A t \in Team : Slice(threads, t) \subseteq Rows
    BY <1>2, SliceKept, SliceInRows DEF IInv, TypeOK, Team
  <1>4. \A t \in Team : pc'[t] = "barrier2"
    BY <1>1 DEF WriteHeader, IInv, TypeOK, BarrierInv
  <1>5. ASSUME NEW i \in Rows
        PROVE  saved'[i] = matrix[i] /\ buffer[i] = matrix[i] /\ matrix[i].seed = s
    <2>1. saved' = buffer /\ buffer[i] = Advances(s, i) /\ matrix[i] = Advances(s, i)
      BY HeaderSaves
    <2>2. Advances(s, i).seed = s
      BY DEF Advances
    <2> QED
      BY <2>1, <2>2
  <1>6. created
    BY <1>1 DEF IInv, CreatedInv
  <1>7. ASSUME NEW i \in Rows PROVE matrix'[i] = Continues(s, i)'
    <2>1. matrix[i] \in RowState
      BY DEF IInv, TypeOK
    <2> QED
      BY <1>2, <1>5, <2>1 DEF Continues, RowState
  <1>8. ASSUME NEW t \in Team, NEW i \in Slice(threads, t) PROVE RowAlike(s, t, i)'
    <2>1. i \in Rows
      BY <1>3
    <2>2. ~HasNext(t)' /\ pc'[t] = "barrier2"
      BY <1>1, <1>4 DEF HasNext
    <2> QED
      BY <1>2, <1>5, <1>7, <2>1, <2>2 DEF RowAlike
  <1>9. SavedAlike(s)'
    BY <1>2, <1>5, <1>6 DEF SavedAlike
  <1> QED
    BY <1>1, <1>2, <1>3, <1>8, <1>9 DEF OneHistory

\* The other steps preserve the one history.
LEMMA RestHistory ==
  ASSUME IInv, NEW s, OneHistory(s),
         \/ \E n : LaunchRefused(n)
         \/ OpenFile \/ WriteTotal \/ Join \/ Crash
         \/ UNCHANGED vars
  PROVE  OneHistory(s)'
  <1> USE DEF args, memory, team, file
  <1>1. SavedAlike(s)'
    BY DEF OneHistory, SavedAlike, LaunchRefused, OpenFile, WriteTotal, Join, Crash, vars
  <1>2. ASSUME NEW n, LaunchRefused(n) PROVE OneHistory(s)'
    BY <1>1, <1>2 DEF OneHistory, LaunchRefused
  <1>3. CASE OpenFile
    BY <1>1, <1>3 DEF OneHistory, OpenFile, Continues
  <1>4. CASE WriteTotal
    <2>1. /\ phase = "total" /\ phase' = "team" /\ UNCHANGED <<threads, matrix, saved>>
          /\ Team \subseteq Tids /\ 0 \in Team
          /\ \A t \in Tids : pc'[t] = IF t \in Team THEN "loop" ELSE "idle"
      BY <1>4, MaxThreadsAssumption DEF WriteTotal, IInv, TypeOK, Team, Tids
    <2>2. /\ Team' = Team /\ \A t \in Team : Slice(threads, t)' = Slice(threads, t)
          /\ \A t \in Team : Slice(threads, t) \subseteq Rows
      BY <2>1, SliceKept, SliceInRows DEF IInv, TypeOK, Team
    <2>3. ASSUME NEW t \in Team, NEW i \in Slice(threads, t) PROVE RowAlike(s, t, i)'
      <3>1. i \in Rows /\ pc'[t] = "loop"
        BY <2>1, <2>2
      <3>2. matrix'[i] = Continues(s, i)'
        BY <2>1, <3>1 DEF OneHistory, Continues
      <3> QED
        BY <3>1, <3>2 DEF RowAlike, HasNext, Saving
    <2> QED
      BY <1>1, <2>1, <2>2, <2>3 DEF OneHistory
  <1>5. CASE Join
    BY <1>1, <1>5 DEF OneHistory, Join, End
  <1>6. CASE Crash
    BY <1>1, <1>6 DEF OneHistory, Crash, End
  <1>7. CASE UNCHANGED vars
    <2>1. UNCHANGED <<phase, threads, created, saved, matrix, buffer, pc, k, row>>
      BY <1>7 DEF vars
    <2>2. Team' = Team /\ \A t \in Team : Slice(threads, t)' = Slice(threads, t)
      BY <2>1, SliceKept
    <2> QED
      BY <1>1, <2>1, <2>2 DEF OneHistory, RowAlike, HasNext, Continues, Advances
  <1> QED
    BY <1>2, <1>3, <1>4, <1>5, <1>6, <1>7

\* Every step preserves HistoryInv.
LEMMA NextHistory ==
  ASSUME Programs = {"checkpoint"}, IInv, HistoryInv, [Next]_vars
  PROVE  HistoryInv'
  <1>1. PICK s \in Origins : OneHistory(s)
    BY DEF HistoryInv
  <1>2. CASE LaunchAny
    <2>1. ASSUME NEW p, NEW T, NEW n, LaunchFresh(p, T, n) \/ LaunchResume(p, T, n)
          PROVE  HistoryInv'
      BY <2>1, LaunchHistory
    <2>2. ASSUME NEW n, LaunchRefused(n) PROVE HistoryInv'
      BY <1>1, <2>2, RestHistory DEF HistoryInv
    <2> QED
      BY <1>2, <2>1, <2>2 DEF LaunchAny
  <1>3. ASSUME NEW t \in Tids, ThreadStep(t) PROVE OneHistory(s)'
    BY <1>1, <1>3, ComputeHistory, SaveRowHistory, ReachBarrierHistory, LeaveLoopHistory
       DEF ThreadStep
  <1>4. CASE LeaveBarrier1 \/ LeaveBarrier2
    BY <1>1, <1>4, BarrierHistory DEF HistoryInv
  <1>5. CASE WriteHeader
    BY <1>1, <1>5, HeaderHistory DEF HistoryInv
  <1>6. CASE OpenFile \/ WriteTotal \/ Join \/ Crash \/ UNCHANGED vars
    BY <1>1, <1>6, RestHistory DEF HistoryInv
  <1> QED
    BY <1>1, <1>2, <1>3, <1>4, <1>5, <1>6 DEF HistoryInv, Next, ProcessStep

\* Only the pwrite of header and rows changes what a later launch reads, and
\* to it the file is saved at once, by one iteration.
LEMMA NextSaves ==
  ASSUME Programs = {"checkpoint"}, IInv, HistoryInv, [Next]_vars
  PROVE  [Atomic!Save]_<<completed, saved>>
  <1>1. PICK s \in Origins : OneHistory(s)
    BY DEF HistoryInv
  <1>2. CASE WriteHeader
    <2>1. /\ saved' = buffer /\ completed' = k[0]
          /\ \A i \in Rows : buffer[i] = Advances(s, i)
      BY <1>1, <1>2, HeaderSaves
    <2>2. buffer = [i \in Rows |-> [seed |-> s, done |-> Append(saved[i].done, completed')]]
      <3>1. buffer = [i \in Rows |-> buffer[i]]
        BY DEF IInv, TypeOK
      <3>2. \A i \in Rows :
              buffer[i] = [seed |-> s, done |-> Append(saved[i].done, completed')]
        BY <2>1 DEF Advances
      <3> QED
        BY <3>1, <3>2, Zenon
    <2>3. \A i \in Rows : saved[i].seed \in {s, "absent"}
      BY <1>1 DEF OneHistory, SavedAlike, AbsentRow
    <2>4. completed' \in {completed, completed + 1}
      BY <1>2, <2>1, HeaderFacts DEF IInv, BarrierInv
    <2>5. Atomic!Save
      BY <1>1, <2>1, <2>2, <2>3, <2>4 DEF Atomic!Save, Origins
    <2> QED
      BY <2>5
  <1>3. CASE ~WriteHeader
    <2>1. program = "checkpoint"
      BY DEF IInv, TypeOK
    <2>2. UNCHANGED <<completed, saved>>
      BY <1>3, <2>1 DEF Next, ProcessStep, LaunchAny, LaunchFresh, LaunchResume, LaunchRefused,
           Launch, OpenFile, WriteTotal, ThreadStep, Compute, SaveRow, ReachBarrier, LeaveLoop,
           LeaveBarrier1, LeaveBarrier2, Join, Crash, file, vars
    <2> QED
      BY <2>2
  <1> QED
    BY <1>2, <1>3

\* checkpoint.c implements the atomic checkpoint: through every interleaving,
\* kill and resume, header and rows of the file change together, by one
\* iteration, and the saved rows have one history.
THEOREM Refinement ==
  ASSUME Programs = {"checkpoint"}
  PROVE  Spec => AtomicCheckpointing
  <1>1. Init => Atomic!Init
    BY DEF Init, Atomic!Init, AbsentRow, Atomic!Absent
  <1>2. IInv /\ HistoryInv /\ [Next]_vars => HistoryInv'
    BY NextHistory
  <1>3. IInv /\ HistoryInv /\ [Next]_vars => [Atomic!Save]_<<completed, saved>>
    BY NextSaves
  <1> QED
    BY <1>1, <1>2, <1>3, InitHistory, Invariance, PTL
       DEF Spec, AtomicCheckpointing, Atomic!Spec
=============================================================================
