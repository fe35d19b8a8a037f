------------------------------ MODULE Checkpoint ------------------------------
(***************************************************************************)
(* The checkpointed matrix computation of task2/checkpoint.                *)
(*                                                                         *)
(* A program is launched with a number of threads and of iterations.  Its  *)
(* OpenMP team splits the rows, applies iteration after iteration to them  *)
(* and saves the matrix and a header after each one, so that a later       *)
(* launch on the same file resumes.  Two programs share the file format:   *)
(* checkpoint.c collects the rows in cooler_matrix and saves header and    *)
(* rows with one pwrite, checkpoint_parallel.c saves every row by itself   *)
(* and the header last.  The process may be killed between any two system  *)
(* calls; one pwrite is taken to be atomic with respect to that, the way   *)
(* task2/checkpoint-answers.txt takes it.                                  *)
(*                                                                         *)
(* The floating point arithmetic is abstracted to the history of a row:    *)
(* where its values came from and which iterations were applied to it.     *)
(***************************************************************************)
EXTENDS RowSplit, Sequences

CONSTANTS
  MaxThreads,     \* bound on the <threads> argument
  MaxIteration,   \* bound on the <iterations> argument
  MaxCrashes,     \* bound on the number of times a process is killed
  Programs        \* the binaries that are launched on the file

ASSUME MaxThreadsAssumption == MaxThreads \in Nat \ {0}
ASSUME MaxIterationAssumption == MaxIteration \in Nat \ {0}
ASSUME MaxCrashesAssumption == MaxCrashes \in Nat
ASSUME ProgramsAssumption == Programs \subseteq {"checkpoint", "parallel"}

VARIABLES
  phase,       \* where the main thread is
  exit,        \* how the last process ended, "none" while one runs
  program,     \* the binary that runs
  threads, iteration, start,   \* struct MatrixInfo
  matrix,      \* the rows in memory
  buffer,      \* the rows in cooler_matrix
  pc, k, row,  \* of each thread: its place, the loop variables k and i
  created, total, completed, saved,   \* the file: header and rows
  \* auxiliary, for a bound and the properties
  crashes,     \* the processes that were killed
  blank        \* the launch that started the file had no iteration to compute

args   == <<program, threads, iteration, start>>
memory == <<matrix, buffer>>
team   == <<pc, k, row>>
file   == <<created, total, completed, saved>>
ghosts == <<crashes, blank>>
vars   == <<phase, exit, args, memory, team, file, ghosts>>

Tids == 0 .. MaxThreads - 1

\* The <iterations> argument is whatever sscanf's %d reads.  Below 1 there is
\* nothing to compute, and the file is created all the same.
Counts == -1 .. MaxIteration

-----------------------------------------------------------------------------
(* A row is the origin of its values and the iterations applied since.     *)

RowState == [seed : {"init", "lost", "absent"}, done : Seq(0 .. MaxIteration)]

InitRow   == [seed |-> "init",   done |-> <<>>]  \* filled by init_matrix
LostRow   == [seed |-> "lost",   done |-> <<>>]  \* malloc'ed or hole, never filled
AbsentRow == [seed |-> "absent", done |-> <<>>]  \* beyond what was saved

\* The four rounds over l, for one value of the loop variable k.
Apply(r, j) == [r EXCEPT !.done = Append(@, j)]

\* The iteration applied last.
Level(r) == IF r.done = <<>> THEN 0 ELSE r.done[Len(r.done)]

Applied(r) == {r.done[i] : i \in 1 .. Len(r.done)}

-----------------------------------------------------------------------------
(* The team, its barriers and its loop.                                    *)

Team == 0 .. threads - 1

\* Slips: a barrier that the first thread passes, one that counts the cores
\* and not the team.
ArrivedOne(place) == \E t \in Team : pc[t] = place
ArrivedEveryone(place) == \A t \in Tids : pc[t] = place
\* An OpenMP barrier opens when the whole team stands at it.
Arrived(place) == \A t \in Team : pc[t] = place

\* Slips: the loop ends an iteration early, an iteration late.
UnfinishedShort(t) == k[t] < iteration
UnfinishedLong(t) == k[t] <= iteration + 1
\* The loop condition of the iterations.
Unfinished(t) == k[t] <= iteration

-----------------------------------------------------------------------------

Init ==
  /\ phase = "off" /\ exit = "none" /\ crashes = 0 /\ blank = FALSE
  /\ program \in Programs
  /\ threads = 1 /\ iteration = 1 /\ start = 1
  /\ matrix = [i \in Rows |-> LostRow]
  /\ buffer = [i \in Rows |-> LostRow]
  /\ pc = [t \in Tids |-> "idle"]
  /\ k = [t \in Tids |-> 0]
  /\ row = [t \in Tids |-> 0]
  /\ created = FALSE /\ total = 0 /\ completed = 0
  /\ saved = [i \in Rows |-> AbsentRow]

\* The process ends and its memory is gone.
End(how) ==
  /\ phase' = "off" /\ exit' = how
  /\ matrix' = [i \in Rows |-> LostRow]
  /\ buffer' = [i \in Rows |-> LostRow]
  /\ pc' = [t \in Tids |-> "idle"]
  /\ k' = [t \in Tids |-> 0]
  /\ row' = [t \in Tids |-> 0]
  /\ UNCHANGED args

-----------------------------------------------------------------------------
(* main: the arguments, then init_matrix or read_matrix.                   *)

Launch(p, T, n) ==
  /\ phase = "off"
  /\ phase' = "open" /\ exit' = "none"
  /\ program' = p /\ threads' = T /\ iteration' = n
  /\ UNCHANGED <<buffer, team, file, crashes>>

LaunchFresh(p, T, n) ==
  /\ ~created
  /\ Launch(p, T, n)
  /\ start' = 1
  /\ matrix' = [i \in Rows |-> InitRow]
  /\ blank' \in BOOLEAN /\ (blank' <=> n < 1)

\* read_matrix has nothing left to compute.
Fulfilled(n) == completed >= total /\ n <= total

\* Slip: the wrong header word.
ResumeAtTotal == total
ResumeAt == completed

\* A short read is no error: the rows that are not in the file keep whatever
\* the allocation held.
LaunchResume(p, T, n) ==
  /\ created /\ ~Fulfilled(n)
  /\ Launch(p, T, n)
  /\ start' = ResumeAt
  /\ matrix' = [i \in Rows |->
                  IF saved[i] = AbsentRow THEN LostRow ELSE saved[i]]
  /\ UNCHANGED blank

LaunchRefused(n) ==
  /\ phase = "off" /\ created /\ Fulfilled(n)
  /\ exit' = "invalid_param"
  /\ UNCHANGED <<phase, args, memory, team, file, ghosts>>

-----------------------------------------------------------------------------
(* calculate: O_CREAT, the two header words, the team.                     *)

OpenFile ==
  /\ phase = "open"
  /\ phase' = "total" /\ created' = TRUE
  /\ UNCHANGED <<exit, args, memory, team, total, completed, saved, ghosts>>

WriteTotal ==
  /\ phase = "total"
  /\ phase' = "team" /\ total' = iteration
  /\ pc' = [t \in Tids |-> IF t \in Team THEN "loop" ELSE "idle"]
  /\ k' = [t \in Tids |-> start]
  /\ UNCHANGED <<exit, args, memory, row, created, completed, saved, ghosts>>

Compute(t) ==
  /\ pc[t] = "loop" /\ Unfinished(t)
  /\ matrix' = [i \in Rows |-> IF i \in Slice(threads, t)
                                 THEN Apply(matrix[i], k[t]) ELSE matrix[i]]
  /\ pc' = [pc EXCEPT ![t] = "save"]
  /\ row' = [row EXCEPT ![t] = From(threads, t)]
  /\ UNCHANGED <<phase, exit, args, buffer, k, file, ghosts>>

\* One row into cooler_matrix, or one pwrite of it.
SaveRow(t) ==
  /\ pc[t] = "save" /\ row[t] < To(threads, t)
  /\ IF program = "checkpoint"
       THEN /\ buffer' = [buffer EXCEPT ![row[t]] = matrix[row[t]]]
            /\ UNCHANGED saved
       ELSE /\ saved' = [saved EXCEPT ![row[t]] = matrix[row[t]]]
            /\ UNCHANGED buffer
  /\ row' = [row EXCEPT ![t] = @ + 1]
  /\ UNCHANGED <<phase, exit, args, matrix, pc, k, created, total, completed, ghosts>>

ReachBarrier(t) ==
  /\ pc[t] = "save" /\ row[t] >= To(threads, t)
  /\ pc' = [pc EXCEPT ![t] = "barrier1"]
  /\ UNCHANGED <<phase, exit, args, memory, k, row, file, ghosts>>

\* The barrier before the header: only thread 0 has something to write.
LeaveBarrier1 ==
  /\ phase = "team"
  /\ Arrived("barrier1")
  /\ pc' = [t \in Tids |-> IF t \notin Team THEN pc[t]
                           ELSE IF t = 0 THEN "header" ELSE "barrier2"]
  /\ UNCHANGED <<phase, exit, args, memory, k, row, file, ghosts>>

WriteHeader ==
  /\ pc[0] = "header"
  /\ completed' = k[0]
  /\ saved' = IF program = "checkpoint" THEN buffer ELSE saved
  /\ pc' = [pc EXCEPT ![0] = "barrier2"]
  /\ UNCHANGED <<phase, exit, args, memory, k, row, created, total, ghosts>>

\* The barrier after the header, and k++.
LeaveBarrier2 ==
  /\ phase = "team"
  /\ Arrived("barrier2")
  /\ pc' = [t \in Tids |-> IF t \in Team THEN "loop" ELSE pc[t]]
  /\ k' = [t \in Tids |-> IF t \in Team THEN k[t] + 1 ELSE k[t]]
  /\ UNCHANGED <<phase, exit, args, memory, row, file, ghosts>>

LeaveLoop(t) ==
  /\ pc[t] = "loop" /\ ~Unfinished(t)
  /\ pc' = [pc EXCEPT ![t] = "done"]
  /\ UNCHANGED <<phase, exit, args, memory, k, row, file, ghosts>>

\* The join at the end of the parallel region; main returns 0.
Join ==
  /\ phase = "team"
  /\ Arrived("done")
  /\ End("success")
  /\ UNCHANGED <<file, ghosts>>

\* The process is killed, or leaves by exit(COULD_NOT_WRITE).
Crash ==
  /\ phase # "off" /\ crashes < MaxCrashes
  /\ crashes' = crashes + 1
  /\ End("killed")
  /\ UNCHANGED <<file, blank>>

-----------------------------------------------------------------------------

LaunchAny ==
  \E p \in Programs, T \in 1 .. MaxThreads, n \in Counts :
     \/ LaunchFresh(p, T, n)
     \/ LaunchResume(p, T, n)
     \/ LaunchRefused(n)

ThreadStep(t) ==
  \/ Compute(t) \/ SaveRow(t) \/ ReachBarrier(t) \/ LeaveLoop(t)

ProcessStep ==
  \/ OpenFile \/ WriteTotal
  \/ \E t \in Tids : ThreadStep(t)
  \/ LeaveBarrier1 \/ WriteHeader \/ LeaveBarrier2 \/ Join

Next == LaunchAny \/ ProcessStep \/ Crash

Spec == Init /\ [][Next]_vars

\* A process that is not killed keeps running; nobody has to launch one.
FairSpec == Spec /\ WF_vars(ProcessStep)

-----------------------------------------------------------------------------
(* Properties *)

\* Every variable keeps its type: the header words stay in the range of the
\* arguments and no thread leaves the rows it was given.
TypeOK ==
  /\ phase \in {"off", "open", "total", "team"}
  /\ exit \in {"none", "success", "invalid_param", "killed"}
  /\ program \in Programs
  /\ threads \in 1 .. MaxThreads
  /\ iteration \in Counts
  /\ start \in 0 .. MaxIteration
  /\ matrix \in [Rows -> RowState] /\ buffer \in [Rows -> RowState]
  /\ pc \in [Tids -> {"idle", "loop", "save", "barrier1", "header", "barrier2", "done"}]
  /\ k \in [Tids -> 0 .. MaxIteration + 1]
  /\ row \in [Tids -> 0 .. N]
  /\ created \in BOOLEAN
  /\ total \in Counts /\ completed \in 0 .. MaxIteration
  /\ saved \in [Rows -> RowState]
  /\ crashes \in 0 .. MaxCrashes /\ blank \in BOOLEAN

\* Whenever the process is killed, in whichever of the two programs, no saved
\* row is behind the iteration that the header claims, and none is more than
\* the one iteration in progress ahead of it: the header word is written after
\* the rows, between the two barriers.
HeaderBehindRows ==
  \A i \in Rows : Level(saved[i]) \in {completed, completed + 1}

\* With checkpoint.c's single pwrite the header names exactly the iteration
\* that every saved row ends with.
HeaderMatchesRows ==
  Programs = {"checkpoint"} => \A i \in Rows : Level(saved[i]) = completed

\* However often the computation is interrupted and resumed, no iteration up to
\* the one in the header is missing from the history of a saved row.
NoIterationSkipped ==
  \A i \in Rows : 1 .. completed \subseteq Applied(saved[i])

\* A process that returns 0, and one that is refused because there is nothing
\* left to do (exit code INVALID_PARAM), leave a file whose header reports all
\* the iterations of its total as completed.
CleanExitMeansComplete ==
  exit \in {"success", "invalid_param"} => completed >= total

\* The completed word of the header never moves back and never jumps, over
\* resumes, kills and thread counts.
CheckpointAdvancesByOne ==
  [][completed' \in {completed, completed + 1}]_vars

\* A saved row was computed from memory that was never filled only after one of
\* two accidents, over any number of launches: a process was killed, for
\* instance between open(O_CREAT) and its first checkpoint, or the file was
\* started with fewer than one iteration to compute.  Both leave a file without
\* rows, on which the next launch does not call init_matrix.
RowsLostForAReason ==
  (\E i \in Rows : saved[i].seed = "lost") => crashes > 0 \/ blank

\* checkpoint.c refines the atomic checkpoint: header and rows of the file
\* change in one step, all rows with the same history.
Atomic == INSTANCE AtomicCheckpoint WITH Rows <- Rows, completed <- completed, saved <- saved
AtomicCheckpointing == Atomic!Spec

\* A launched process that is not killed reaches the end of main: no thread
\* waits at a barrier that the rest of the team never reaches, the threads
\* without rows (more threads than rows) included.
RunEnds == (phase # "off") ~> (phase = "off")
=============================================================================
