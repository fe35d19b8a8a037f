---------------------------- MODULE CheckpointSync ----------------------------
(***************************************************************************)
(* What the checkpoint programs of task3 and task4 leave on the disk.      *)
(*                                                                         *)
(* The programs share one loop: a thread computes its rows, writes them to *)
(* matrix.out and waits for the others at a barrier.  They differ in where *)
(* they call fsync and in what they make of a pwrite that fails or writes  *)
(* less than a row:                                                        *)
(*                                                                         *)
(*   plain       task3/checkpoint.c            never                       *)
(*   fsync       task3/checkpoint_fsync.c      after each pwrite           *)
(*   optimized   task3/checkpoint_optimized.c  thread 0, after a barrier   *)
(*   sync0       task4/checkpoint.c, sync=0    never                       *)
(*   sync1       task4/checkpoint.c, sync=1    after each pwrite           *)
(*   sync2       task4/checkpoint.c, sync=2    each thread, after its rows *)
(*                                                                         *)
(* A row is written in Parts pieces.  A cell, one piece of one row, holds  *)
(* the number of the iteration it was written in, 0 for what the file held *)
(* before.  cache is the file that processes see; disk gives for each cell *)
(* the values that may be found after a power failure, for the kernel      *)
(* writes a cell back whenever it likes.  No program looks at what fsync   *)
(* returns.  When it fails, the kernel forgets that the cells it could not *)
(* write were dirty: only a cell that is written again is tried again.     *)
(***************************************************************************)
EXTENDS RowSplit, FiniteSets, FiniteSetsExt

CONSTANTS
  Parts,          \* pieces of a row
  MaxThreads,     \* bound on the <threads> argument
  MaxIterations,  \* bound on the <iterations> argument
  MaxFaults,      \* bound on the pwrites that go wrong, and on the iterations
                  \* in which an fsync fails
  Programs        \* the programs that are run

ASSUME PartsAssumption == Parts \in Nat \ {0}
ASSUME MaxThreadsAssumption == MaxThreads \in Nat \ {0}
ASSUME MaxIterationsAssumption == MaxIterations \in Nat \ {0}
ASSUME MaxFaultsAssumption == MaxFaults \in Nat
ASSUME ProgramsAssumption ==
  Programs \subseteq {"plain", "fsync", "optimized", "sync0", "sync1", "sync2"}

VARIABLES
  program, threads, iterations,   \* what is run
  phase,       \* "team", "ended" or, after exit(EXIT_FAILURE), "failed"
  pc, k, row,  \* of each thread: its place, the loop variables k and i
  nb, lnb,     \* of each thread: written of this row, written so far
  bytes,       \* info->io_bytes, reported at the end
  cache, disk,
  dropped,     \* cells that the next fsync leaves alone, for one failed on them
  faults,
  \* auxiliary, for the properties
  lapses       \* the iterations in which an fsync failed

args == <<program, threads, iterations>>
file == <<cache, disk, dropped>>
vars == <<args, phase, pc, k, row, nb, lnb, bytes, file, faults, lapses>>

Tids  == 0 .. MaxThreads - 1
Team  == 0 .. threads - 1
Cells == Rows \X (0 .. Parts - 1)

SyncsEach == program \in {"fsync", "sync1"}
Synced    == program \in {"fsync", "optimized", "sync1", "sync2"}
Careful   == program \in {"sync0", "sync1", "sync2"}   \* a failed pwrite is fatal

Goto(t, l) == pc' = [pc EXCEPT ![t] = l]

Init ==
  /\ program \in Programs
  /\ threads \in 1 .. MaxThreads /\ iterations \in 1 .. MaxIterations
  /\ phase = "team"
  /\ pc = [t \in Tids |-> "loop"]
  /\ k = [t \in Tids |-> 1]
  /\ row = [t \in Tids |-> 0]
  /\ nb = [t \in Tids |-> 0] /\ lnb = [t \in Tids |-> 0] /\ bytes = 0
  /\ cache = [c \in Cells |-> 0] /\ disk = [c \in Cells |-> {0}]
  /\ dropped = {} /\ faults = 0 /\ lapses = {}

Compute(t) ==
  /\ pc[t] = "loop" /\ k[t] <= iterations
  /\ row' = [row EXCEPT ![t] = From(threads, t)]
  /\ Goto(t, "write")
  /\ UNCHANGED <<args, phase, k, nb, lnb, bytes, file, faults, lapses>>

-----------------------------------------------------------------------------
(* pwrite and fsync *)

\* checkpoint_optimized.c does not go on with a row that was written in part.
GoesWrong(ret) == ret < 0 \/ (program = "optimized" /\ ret < Parts)

\* ret pieces of the row reach the cache, from piece nb on.
Store(t, ret) ==
  LET stored == { <<row[t], p>> : p \in nb[t] .. nb[t] + ret - 1 }
  IN  /\ cache' = [c \in Cells |-> IF c \in stored THEN k[t] ELSE cache[c]]
      /\ disk' = [c \in Cells |-> IF c \in stored THEN disk[c] \cup {k[t]} ELSE disk[c]]
      /\ dropped' = dropped \ stored

\* Slips: the row counts as written after the first pwrite; nb is signed.
RowOverAtOnce(at) == TRUE
RowOverSigned(at) == program = "optimized" \/ at >= Parts
\* The loop over the row ends.  nb is unsigned: -1 is larger than any length.
RowOver(at) == program = "optimized" \/ at < 0 \/ at >= Parts

\* Slip: what the last pwrite wrote is counted, not what the row has come to.
CountLast(t, ret) == [lnb EXCEPT ![t] = @ + ret]
CountRow(t, ret)  == [lnb EXCEPT ![t] = @ + nb[t] + ret]

Write(t) ==
  /\ pc[t] = "write" /\ row[t] < To(threads, t)
  /\ \E ret \in {-1} \cup (1 .. Parts - nb[t]) :
       /\ GoesWrong(ret) => faults < MaxFaults
       /\ ~(ret < 0 /\ Careful)
       /\ faults' = IF GoesWrong(ret) THEN faults + 1 ELSE faults
       /\ Store(t, ret)
       /\ IF RowOver(nb[t] + ret)
            THEN /\ row' = [row EXCEPT ![t] = @ + 1]
                 /\ nb' = [nb EXCEPT ![t] = 0]
                 /\ lnb' = CountRow(t, ret)
            ELSE /\ nb' = [nb EXCEPT ![t] = @ + ret]
                 /\ UNCHANGED <<row, lnb>>
  /\ Goto(t, IF SyncsEach THEN "fsync" ELSE "write")
  /\ UNCHANGED <<args, phase, k, bytes, lapses>>

\* exit(EXIT_FAILURE) takes the whole team with it.
GiveUp(t) ==
  /\ phase = "team"
  /\ pc[t] = "write" /\ row[t] < To(threads, t) /\ Careful
  /\ faults < MaxFaults /\ faults' = faults + 1
  /\ phase' = "failed"
  /\ pc' = [u \in Tids |-> "idle"]
  /\ UNCHANGED <<args, k, row, nb, lnb, bytes, file, lapses>>

\* Slip: one thread syncs for all, as soon as its own rows are written.
AfterRowsOne(t) == IF program = "sync2" /\ t = 0 THEN "fsync" ELSE "barrier"
AfterRows(t)    == IF program = "sync2" THEN "fsync" ELSE "barrier"

RowsWritten(t) ==
  /\ pc[t] = "write" /\ row[t] >= To(threads, t)
  /\ Goto(t, AfterRows(t))
  /\ UNCHANGED <<args, phase, k, row, nb, lnb, bytes, file, faults, lapses>>

AfterFsync == CASE program = "optimized" -> "barrier2"
                [] program = "sync2"     -> "barrier"
                [] OTHER                 -> "write"

\* Everything that was written to the file reaches the disk, by whichever
\* thread it was written, but for what an earlier fsync has failed on.
Fsync(t) ==
  /\ pc[t] = "fsync"
  /\ disk' = [c \in Cells |-> IF c \in dropped THEN disk[c] ELSE {cache[c]}]
  /\ Goto(t, AfterFsync)
  /\ UNCHANGED <<args, phase, k, row, nb, lnb, bytes, cache, dropped, faults, lapses>>

\* The thread goes on as if it had succeeded.
FsyncFails(t) ==
  /\ pc[t] = "fsync"
  /\ Cardinality(lapses \cup {k[t]}) <= MaxFaults
  /\ dropped' = dropped \cup {c \in Cells : disk[c] # {cache[c]}}
  /\ lapses' = lapses \cup {k[t]}
  /\ Goto(t, AfterFsync)
  /\ UNCHANGED <<args, phase, k, row, nb, lnb, bytes, cache, disk, faults>>

-----------------------------------------------------------------------------
(* The barriers and the end of the parallel region *)

\* Slip: the barrier waits for one thread.
ArrivedOne(place) == \E t \in Team : pc[t] = place
\* Slip: the barrier counts threads that were not started.
ArrivedEveryone(place) == \A t \in Tids : pc[t] = place
Arrived(place) == \A t \in Team : pc[t] = place

\* The barrier that ends an iteration, and k++.
LeaveIteration(place) ==
  /\ Arrived(place)
  /\ pc' = [t \in Tids |-> IF t \in Team THEN "loop" ELSE pc[t]]
  /\ k' = [t \in Tids |-> IF t \in Team THEN k[t] + 1 ELSE k[t]]
  /\ UNCHANGED <<args, phase, row, nb, lnb, bytes, file, faults, lapses>>

LeaveBarrier == phase = "team" /\ program # "optimized" /\ LeaveIteration("barrier")

\* checkpoint_optimized.c has two barriers, and thread 0 syncs between them.
LeaveBarrier1 ==
  /\ phase = "team" /\ program = "optimized"
  /\ Arrived("barrier")
  /\ pc' = [t \in Tids |-> IF t \notin Team THEN pc[t]
                           ELSE IF t = 0 THEN "fsync" ELSE "barrier2"]
  /\ UNCHANGED <<args, phase, k, row, nb, lnb, bytes, file, faults, lapses>>

LeaveBarrier2 == phase = "team" /\ program = "optimized" /\ LeaveIteration("barrier2")

\* The team is joined and the reduction adds up lnb.
Join ==
  /\ phase = "team"
  /\ \A t \in Team : pc[t] = "loop" /\ k[t] > iterations
  /\ phase' = "ended"
  /\ bytes' = MapThenSumSet(LAMBDA t : lnb[t], Team)
  /\ UNCHANGED <<args, pc, k, row, nb, lnb, file, faults, lapses>>

ThreadStep(t) ==
  /\ t \in Team
  /\ Compute(t) \/ Write(t) \/ RowsWritten(t) \/ Fsync(t) \/ FsyncFails(t)

ProcessStep ==
  \/ \E t \in Tids : ThreadStep(t)
  \/ LeaveBarrier \/ LeaveBarrier1 \/ LeaveBarrier2 \/ Join

Next == ProcessStep \/ \E t \in Team : GiveUp(t)

Spec == Init /\ [][Next]_vars

\* A process that is not killed keeps running.
FairSpec == Spec /\ WF_vars(ProcessStep)

-----------------------------------------------------------------------------
(* Properties *)

TypeOK ==
  /\ program \in Programs
  /\ threads \in 1 .. MaxThreads /\ iterations \in 1 .. MaxIterations
  /\ phase \in {"team", "ended", "failed"}
  /\ pc \in [Tids -> {"idle", "loop", "write", "fsync", "barrier", "barrier2"}]
  /\ k \in [Tids -> 1 .. MaxIterations + 1]
  /\ row \in [Tids -> 0 .. N]
  /\ nb \in [Tids -> 0 .. Parts - 1] /\ lnb \in [Tids -> Int] /\ bytes \in Int
  /\ cache \in [Cells -> 0 .. MaxIterations]
  /\ disk \in [Cells -> SUBSET (0 .. MaxIterations)]
  /\ dropped \subseteq Cells /\ lapses \subseteq 1 .. MaxIterations
  /\ faults \in 0 .. MaxFaults

\* What a failed or short pwrite cannot spoil: the programs of task4 stop at a
\* failure and go on with a rest, those of task3 need every pwrite to succeed.
Intact == faults = 0 \/ Careful

\* "ensure that the iteration is written to the disk" (task3/analysis.txt:6):
\* while a thread is in iteration k, iteration k - 1 of every row is on the
\* disk in full, whatever the kernel has written back of iteration k, and for
\* each of the four ways to place fsync.  It takes an fsync that failed in
\* iteration k - 1, in any thread, to lose it; one that failed earlier does no
\* harm, for the iterations after it write and sync every row again.
IterationDurable ==
  Synced /\ Intact =>
    \A t \in Team, c \in Cells :
      k[t] - 1 \notin lapses => disk[c] \subseteq {k[t] - 1, k[t]}

\* The file that another process reads never mixes more than two successive
\* iterations, with or without fsync: no thread writes while another one is
\* still to finish the iteration before.
FileOneIterationApart ==
  Intact => \A t \in Team, c \in Cells : cache[c] \in {k[t] - 1, k[t]}

\* The throughput that the programs print is computed from what they wrote:
\* however the rows were divided and however many pieces a row took, the
\* reduction comes to every row once for each iteration.
AllBytesCounted ==
  phase = "ended" /\ Intact => bytes = N * Parts * iterations

\* The run comes to its end: no thread is left at a barrier, the ones without
\* rows and the one that syncs for all included.
RunEnds == <>(phase # "team")
=============================================================================
