------------------------------- MODULE Benchmark -------------------------------
(***************************************************************************)
(* The two benchmarks of a mounted file system: task5/metadata.c creates,  *)
(* opens, inspects and removes files, task6/data.c writes and reads the    *)
(* blocks of a file.  main spawns a team of threads, which pass from phase *)
(* to phase through one POSIX barrier, and joins them in order.            *)
(*                                                                         *)
(* What a thread does is its Script; `at` is its place there.  A directory *)
(* or a file is named after the thread that manages it.  Names, times and  *)
(* statistics are left out.  A system call may fail without a reason in    *)
(* the program (disk full, permissions): MaxFaults bounds that.            *)
(***************************************************************************)
EXTENDS Integers, Sequences, FiniteSets

CONSTANTS
  MaxTeam,        \* bound on --threads
  MaxIterations,  \* bound on --iterations
  Counts,         \* values of --objects and --block-count
  Batch,          \* the blocks between two barriers, 1000 in data.c
  Draws,          \* what the generator of a thread may return, from its seed on
  MaxFaults

ASSUME BoundsAssumption ==
  /\ MaxTeam \in Nat \ {0} /\ MaxIterations \in Nat \ {0}
  /\ Batch \in Nat \ {0} /\ MaxFaults \in Nat
  /\ Counts \subseteq Nat /\ Draws \subseteq Seq(Nat)
  /\ \A d \in Draws, n \in Counts : Len(d) >= n   \* one for each block

VARIABLES
  bench, team, iterations, shared, random, count, draw, rmdir,  \* options
  main, iteration, next,   \* main: its place, the loop variables i and j
  status, at, done, drawn, \* of each thread
  dirs, files, extent,     \* the file system; extent is st_size in blocks
  faults,                  \* injected so far
  littered                 \* the iteration began with a directory or file in place

options == <<bench, team, iterations, shared, random, count, draw, rmdir>>
process == <<main, iteration, next>>
threads == <<status, at, done, drawn>>
storage == <<dirs, files, extent>>
vars    == <<options, process, threads, storage, faults, littered>>

Tids == 0 .. MaxTeam - 1
Team == 0 .. team - 1

-----------------------------------------------------------------------------
(* The scripts *)

Plain(op)      == [op |-> op, upto |-> 0]
Loop(op, n)    == [op |-> op, upto |-> n]
Barrier        == Plain("barrier")

\* Slips: no barrier between the command and the phase that follows, no
\* barrier between the last phase and the removal of the directory.
MetadataOneBarrier(n) ==
  << Barrier, Plain("mkdir"), Barrier, Loop("create", n),
     Barrier, Plain("command"), Loop("open", n),
     Barrier, Plain("command"), Barrier, Loop("stat", n),
     Barrier, Plain("command"), Barrier, Loop("unlink", n),
     Barrier, Plain("rmdir") >>
MetadataNoEnd(n) ==
  << Barrier, Plain("mkdir"), Barrier, Loop("create", n),
     Barrier, Plain("command"), Barrier, Loop("open", n),
     Barrier, Plain("command"), Barrier, Loop("stat", n),
     Barrier, Plain("command"), Barrier, Loop("unlink", n), Plain("rmdir") >>
\* metadata_posix
MetadataScript(n) ==
  << Barrier, Plain("mkdir"), Barrier, Loop("create", n),
     Barrier, Plain("command"), Barrier, Loop("open", n),
     Barrier, Plain("command"), Barrier, Loop("stat", n),
     Barrier, Plain("command"), Barrier, Loop("unlink", n),
     Barrier, Plain("rmdir") >>

\* A loop over n blocks that waits for the team after every Batch of them.
BatchEnd(b, n) == IF b * Batch < n THEN b * Batch ELSE n
Batches(op, n) ==
  [ s \in 1 .. 2 * ((n + Batch - 1) \div Batch) |->
      IF s % 2 = 1 THEN Loop(op, BatchEnd((s + 1) \div 2, n)) ELSE Barrier ]

\* small_access_posix
DataScript(n) ==
     << Barrier, Plain("make"), Barrier, Plain("reset"), Plain("reopen") >>
  \o Batches("write", n)
  \o << Barrier, Plain("command"), Barrier, Plain("reset"), Plain("reopen") >>
  \o Batches("read", n)
  \o << Plain("remove") >>

Scripts == [ metadata |-> [n \in Counts |-> MetadataScript(n)],
             data     |-> [n \in Counts |-> DataScript(n)] ]
Script == Scripts[bench][count]

-----------------------------------------------------------------------------

Init ==
  /\ bench \in {"metadata", "data"}
  /\ team \in 1 .. MaxTeam /\ iterations \in 1 .. MaxIterations
  /\ shared \in BOOLEAN /\ count \in Counts
  /\ random \in BOOLEAN /\ draw \in Draws /\ rmdir \in {"removes", "ignored"}
  /\ bench = "metadata" => ~random /\ draw = CHOOSE d \in Draws : TRUE
  /\ bench = "data" => rmdir = "removes"
  /\ main = "spawn" /\ iteration = 1 /\ next = 0
  /\ status = [t \in Tids |-> "none"]
  /\ at = [t \in Tids |-> 1]
  /\ done = [t \in Tids |-> 0]
  /\ drawn = [t \in Tids |-> 0]
  /\ dirs = {} /\ files = {} /\ extent = [f \in Tids |-> 0]
  /\ faults = 0 /\ littered = FALSE

\* The thread that creates and removes what thread t works on: manage_directory,
\* manage_file and the names.
Owner(t) == IF shared THEN 0 ELSE t
Manages(t) == Owner(t) = t

Over  == main \in {"ended", "failed", "aborted"}
Here(t) == Script[at[t]]
Runs(t, ops) ==
  /\ ~Over /\ status[t] = "running"
  /\ at[t] <= Len(Script) /\ Here(t).op \in ops

\* On to the next step.
Advance(t) ==
  /\ at' = [at EXCEPT ![t] = @ + 1]
  /\ UNCHANGED <<status, process>>

\* goto error, or g_error and g_assert, which end the process.
Fail(t) ==
  /\ IF bench = "metadata"
       THEN status' = [status EXCEPT ![t] = "failed"] /\ UNCHANGED process
       ELSE main' = "aborted" /\ UNCHANGED <<iteration, next, status>>
  /\ UNCHANGED <<at, done, drawn, storage>>

Inject == faults < MaxFaults /\ faults' = faults + 1

\* A system call that fails when it is not possible, or for an external reason.
Fails(t, possible) ==
  /\ IF possible THEN Inject ELSE UNCHANGED faults
  /\ Fail(t)
  /\ UNCHANGED <<options, littered>>

-----------------------------------------------------------------------------
(* The steps of a thread *)

\* Slip: the barrier was made for one thread less.
OthersWaitBut1(t) ==
  Cardinality({u \in Team \ {t} : status[u] = "waiting"}) >= team - 2
\* The barrier was made for opt_threads threads.
OthersWait(t) == \A u \in Team \ {t} : status[u] = "waiting"

Wait(t) ==
  /\ Runs(t, {"barrier"})
  /\ IF OthersWait(t)
       THEN /\ status' = [u \in Tids |-> IF status[u] = "waiting" THEN "running"
                                                                  ELSE status[u]]
            /\ at' = [u \in Tids |-> IF u = t \/ status[u] = "waiting"
                                       THEN at[u] + 1 ELSE at[u]]
       ELSE status' = [status EXCEPT ![t] = "waiting"] /\ UNCHANGED at
  /\ UNCHANGED <<options, process, done, drawn, storage, faults, littered>>

\* Only thread 0 executes the command, the others go on.
Command(t) ==
  /\ Runs(t, {"command"})
  /\ Advance(t)
  /\ UNCHANGED <<options, done, drawn, storage, faults, littered>>

\* Slip: the barrier after the step belongs to the managing thread, too.
SkipBarrier(t) ==
  /\ Runs(t, {"mkdir"}) /\ ~Manages(t)
  /\ at' = [at EXCEPT ![t] = @ + 2]
  /\ UNCHANGED <<status, process, options, done, drawn, storage, faults, littered>>
\* A step that only the managing thread performs.
Skip(t) ==
  /\ Runs(t, {"mkdir", "rmdir", "make", "remove"}) /\ ~Manages(t)
  /\ Advance(t)
  /\ UNCHANGED <<options, done, drawn, storage, faults, littered>>

MakeDirectory(t) ==
  /\ Runs(t, {"mkdir"}) /\ Manages(t)
  /\ \/ /\ t \notin dirs
        /\ dirs' = dirs \cup {t} /\ Advance(t)
        /\ UNCHANGED <<options, done, drawn, files, extent, faults, littered>>
     \/ Fails(t, t \notin dirs)

\* rmdir of the file systems of task5 and task6 returns 0 and does nothing.
RemoveDirectory(t) ==
  /\ Runs(t, {"rmdir"}) /\ Manages(t)
  /\ LET empty == \A f \in files : f.dir # t
     IN  \/ /\ rmdir = "ignored" \/ empty
            /\ dirs' = IF rmdir = "ignored" THEN dirs ELSE dirs \ {t}
            /\ Advance(t)
            /\ UNCHANGED <<options, done, drawn, files, extent, faults, littered>>
         \/ Fails(t, rmdir = "ignored" \/ empty)

Object(t) == [dir |-> Owner(t), of |-> t, index |-> done[t]]

\* open(O_CREAT) needs the directory, the other calls the file.
Possible(t) ==
  IF Here(t).op = "create" THEN Owner(t) \in dirs ELSE Object(t) \in files

Operate(t) ==
  /\ Runs(t, {"create", "open", "stat", "unlink"}) /\ done[t] < Here(t).upto
  /\ \/ /\ Possible(t)
        /\ done' = [done EXCEPT ![t] = @ + 1]
        /\ files' = CASE Here(t).op = "create" -> files \cup {Object(t)}
                      [] Here(t).op = "unlink" -> files \ {Object(t)}
                      [] OTHER -> files
        /\ UNCHANGED <<options, process, status, at, drawn, dirs, extent, faults, littered>>
     \/ Fails(t, Possible(t))

\* Slip: the loop variable keeps its value.
OperationsOverKept(t) ==
  /\ Runs(t, {"create", "open", "stat", "unlink"}) /\ done[t] = Here(t).upto
  /\ Advance(t)
  /\ UNCHANGED <<options, done, drawn, storage, faults, littered>>
\* The timer is read and the loop variable is gone.
OperationsOver(t) ==
  /\ Runs(t, {"create", "open", "stat", "unlink"}) /\ done[t] = Here(t).upto
  /\ done' = [done EXCEPT ![t] = 0]
  /\ Advance(t)
  /\ UNCHANGED <<options, drawn, storage, faults, littered>>

File(t) == [dir |-> Owner(t), of |-> Owner(t), index |-> 0]

\* That open(O_CREAT) failed is only printed.
MakeFile(t) ==
  /\ Runs(t, {"make"}) /\ Manages(t)
  /\ Advance(t)
  /\ \/ files' = files \cup {File(t)} /\ UNCHANGED faults
     \/ Inject /\ UNCHANGED files
  /\ UNCHANGED <<options, done, drawn, dirs, extent, littered>>

\* Slip: the generator goes on where the last phase left it.
ResetNothing(t) == UNCHANGED drawn
\* reset_rand; without --random nothing was drawn.
ResetRand(t) == drawn' = [drawn EXCEPT ![t] = 0]

Reset(t) ==
  /\ Runs(t, {"reset"})
  /\ ResetRand(t)
  /\ Advance(t)
  /\ UNCHANGED <<options, done, storage, faults, littered>>

\* open, and the loop over the blocks starts.
Reopen(t) ==
  /\ Runs(t, {"reopen"})
  /\ \/ /\ File(t) \in files
        /\ done' = [done EXCEPT ![t] = 0] /\ Advance(t)
        /\ UNCHANGED <<options, drawn, storage, faults, littered>>
     \/ Fails(t, File(t) \in files)

\* get_offset, in blocks.
Offset(t) ==
  LET i == IF random THEN draw[drawn[t] + 1] % count ELSE done[t]
  IN  IF shared THEN i * team + t ELSE i

\* pwrite extends the file; pread is short at its end, which the assertion
\* does not accept.
Transfer(t) ==
  /\ Runs(t, {"write", "read"}) /\ done[t] < Here(t).upto
  /\ \/ /\ Here(t).op = "read" => Offset(t) < extent[Owner(t)]
        /\ done' = [done EXCEPT ![t] = @ + 1]
        /\ drawn' = [drawn EXCEPT ![t] = IF random THEN @ + 1 ELSE @]
        /\ extent' = [extent EXCEPT ![Owner(t)] =
                        IF Here(t).op = "write" /\ Offset(t) >= @ THEN Offset(t) + 1 ELSE @]
        /\ UNCHANGED <<options, process, status, at, dirs, files, faults, littered>>
     \/ Fails(t, Here(t).op = "read" => Offset(t) < extent[Owner(t)])

BatchOver(t) ==
  /\ Runs(t, {"write", "read"}) /\ done[t] = Here(t).upto
  /\ Advance(t)
  /\ UNCHANGED <<options, done, drawn, storage, faults, littered>>

\* The result of unlink is not looked at.
RemoveFile(t) ==
  /\ Runs(t, {"remove"}) /\ Manages(t)
  /\ Advance(t)
  /\ \/ /\ files' = files \ {File(t)}
        /\ extent' = [extent EXCEPT ![t] = 0]
        /\ UNCHANGED faults
     \/ Inject /\ UNCHANGED <<files, extent>>
  /\ UNCHANGED <<options, done, drawn, dirs, littered>>

Return(t) ==
  /\ ~Over /\ status[t] = "running" /\ at[t] = Len(Script) + 1
  /\ status' = [status EXCEPT ![t] = "returned"]
  /\ UNCHANGED <<options, process, at, done, drawn, storage, faults, littered>>

ThreadStep(t) ==
  \/ Wait(t) \/ Command(t) \/ Skip(t) \/ MakeDirectory(t) \/ RemoveDirectory(t)
  \/ Operate(t) \/ OperationsOver(t) \/ MakeFile(t) \/ Reset(t) \/ Reopen(t)
  \/ Transfer(t) \/ BatchOver(t) \/ RemoveFile(t) \/ Return(t)

-----------------------------------------------------------------------------
(* main *)

\* Slip: one thread too many.
LastLate == next = team
\* The loops over the threads end.
Last == next + 1 = team

\* g_thread_new for each thread.
Spawn ==
  /\ main = "spawn"
  /\ status' = [status EXCEPT ![next] = "running"]
  /\ at' = [at EXCEPT ![next] = 1]
  /\ done' = [done EXCEPT ![next] = 0]
  /\ drawn' = [drawn EXCEPT ![next] = 0]
  /\ IF Last THEN next' = 0 /\ main' = "join"
             ELSE next' = next + 1 /\ UNCHANGED main
  /\ littered' = IF next = 0 THEN dirs # {} \/ files # {} ELSE littered
  /\ UNCHANGED <<options, iteration, storage, faults>>

\* g_thread_join in order; the first NULL leads to the error label.
Join ==
  /\ main = "join"
  /\ \/ /\ status[next] = "failed"
        /\ main' = "destroy"
        /\ UNCHANGED <<iteration, next, status>>
     \/ /\ status[next] = "returned" /\ ~Last
        /\ status' = [status EXCEPT ![next] = "none"]
        /\ next' = next + 1
        /\ UNCHANGED <<main, iteration>>
     \/ /\ status[next] = "returned" /\ Last
        /\ status' = [status EXCEPT ![next] = "none"]
        /\ next' = 0 /\ iteration' = iteration + 1
        /\ main' = IF iteration < iterations THEN "spawn" ELSE "ended"
  /\ UNCHANGED <<options, at, done, drawn, storage, faults, littered>>

\* pthread_barrier_destroy with threads at the barrier is undefined: it returns
\* or waits for them.
DestroyBarrier ==
  /\ main = "destroy"
  /\ \/ main' = "failed"
     \/ (\E t \in Team : status[t] = "waiting") /\ main' = "stuck"
  /\ UNCHANGED <<options, iteration, next, threads, storage, faults, littered>>

MainStep == Spawn \/ Join \/ DestroyBarrier

Next == MainStep \/ \E t \in Tids : ThreadStep(t)

Spec == Init /\ [][Next]_vars

\* The operating system keeps running every thread that can run.
FairSpec == Spec /\ WF_vars(MainStep) /\ \A t \in Tids : WF_vars(ThreadStep(t))

-----------------------------------------------------------------------------

\* Every variable has its type.
TypeOK ==
  /\ bench \in {"metadata", "data"} /\ rmdir \in {"removes", "ignored"}
  /\ team \in 1 .. MaxTeam /\ iterations \in 1 .. MaxIterations
  /\ shared \in BOOLEAN /\ random \in BOOLEAN /\ count \in Counts /\ draw \in Draws
  /\ main \in {"spawn", "join", "destroy", "stuck", "ended", "failed", "aborted"}
  /\ iteration \in 1 .. iterations + 1 /\ next \in Team
  /\ status \in [Tids -> {"none", "running", "waiting", "returned", "failed"}]
  /\ at \in [Tids -> 1 .. Len(Script) + 1]
  /\ done \in [Tids -> 0 .. count] /\ drawn \in [Tids -> Nat]
  /\ dirs \subseteq Tids /\ files \subseteq [dir : Tids, of : Tids, index : Nat]
  /\ extent \in [Tids -> 0 .. count * team]
  /\ faults \in 0 .. MaxFaults /\ littered \in BOOLEAN

Active(t) == status[t] \in {"running", "waiting"}
\* How many barriers lie before each place of a script.
Rounds ==
  [ b \in {"metadata", "data"} |-> [ n \in Counts |->
      [ i \in 1 .. Len(Scripts[b][n]) + 1 |->
          Cardinality({j \in 1 .. i - 1 : Scripts[b][n][j].op = "barrier"}) ] ] ]
Round(i) == Rounds[bench][count][i]

\* Threads that are at work have passed the same barriers, through every
\* iteration, however many have returned or failed meanwhile (barrier, and the
\* loops of main around it).
SameRound ==
  \A t, u \in Team : Active(t) /\ Active(u) => Round(at[t]) = Round(at[u])

Timed == {"create", "open", "stat", "unlink", "write", "read", "command"}

\* What one thread measures is not disturbed by another phase of another
\* thread, nor by the command between the phases.
PhasesApart ==
  \A t, u \in Team :
    Runs(t, Timed) /\ Runs(u, Timed) => Here(t).op = Here(u).op

\* No step of one thread makes a call of another fail: a benchmark fails only
\* when a system call does, when the last iteration or run left something
\* behind, and, in shared mode without blocks, when thread 0 removes the file
\* before another thread opened it for reading (data.c:282 and :313).
FailuresExplained ==
  main = "aborted" \/ (\E t \in Team : status[t] = "failed") =>
    \/ faults > 0
    \/ bench = "metadata" /\ littered
    \/ bench = "data" /\ shared /\ team > 1 /\ count = 0

\* A benchmark that returns 0 leaves nothing behind, except directories that
\* the file system did not remove and the file when unlink failed.
NothingLeft ==
  main = "ended" /\ faults = 0 => files = {} /\ (rmdir = "removes" => dirs = {})

\* The program ends, unless a thread failed while others wait for it at the
\* barrier, which metadata_posix's error label does not reach.
RunEnds ==
  \/ <>Over
  \/ <>[](\E t, u \in Team : status[t] = "failed" /\ status[u] = "waiting")
=============================================================================
