# A verification project for parallel-storage-systems

TLA+ models of the programs in this repository, TLC configurations that check
them on small instances, and theorems that TLAPS checks for every instance.
Paths below are relative to the root of the repository (`src/` in
`PROJECT.json`).

1. [The system](#1-the-system) - components, state, interactions, hazards
2. [The modules](#2-the-modules) - what models what, and how
3. [The runs](#3-the-runs) - what is checked, bounds, fairness
4. [The proofs](#4-the-proofs) - theorems, invariants, assumptions
5. [What the code does and its documents do not say](#5-findings)
6. [What is not modelled](#6-what-is-not-modelled)
7. [Plan](#7-plan)

## 1. The system

The repository is the work of a course on parallel storage systems. It holds
two lines of programs that carry logic of their own: an OpenMP matrix
computation that checkpoints itself (task2, task3, task4) and a FUSE file system
(task4 `dummyfs`, task5 `memoryfs`, task6 `pssfs`), with benchmarks for the file
systems.

| Component | State | Operations | Talks to |
|---|---|---|---|
| `task2/checkpoint/checkpoint.c` | matrix, `cooler_matrix`, header (threads, total, completed) and rows of the file; per thread `k`, `i` | launch fresh, resume (`read_matrix`), refuse, iterate, checkpoint with one `pwrite` | the file; an earlier or later process through it |
| `task2/checkpoint/checkpoint_parallel.c` | the same without `cooler_matrix` | the same, one `pwrite` per row, header last | the same file format |
| `task3/checkpoint*.c`, `task4/checkpoint.c` | matrix, `matrix.out`, page cache, disk, byte counts | iterate, write rows, `fsync` in one of six placements | the file; no resume |
| content block distributor (`task6/src/block_distributor.c`) | bitmap `block_groups`, up to 32 known `free_start`s; the nodes' `bps` and `st_blocks` | init, realloc (append to the last pointer, or fetch a new range), free | called by write, truncate, unlink |
| meta block distributor (same file) | bitmap | init, get_next_free, free (no caller) | called by create, mkdir |
| `pssfs` handlers (`task6/src/pssfs.c`) | `inode_map`, `entry_map`, `cur_inode`, nodes with a spin lock each, a spin lock of the file system | create, mkdir, unlink, rename, readdir, read, write, truncate, getattr, open; chmod, chown, link, rmdir, statfs, utimens do nothing | called by libfuse threads; distributor, block writer, serializers |
| block writer (`task6/include/block_writer.h`) | locals of the copy loop | blockwrite, blockread | called by write and read with the node locked |
| serializers (`task6/include/serializers.h`) | the mapped device | entry, inode table, bitmaps, header | called by the handlers after they unlock |
| deserializers | - | never called | - |
| `task5/memoryfs.c` | `inode_map`, `entry_map`, `cur_inode`, nodes with a spin lock each, `total_bytes` | create, mkdir, unlink, rename (both kinds), write, truncate; read, readdir, getattr change nothing; chmod, chown, link, rmdir, utimens do nothing | libfuse |
| `task4/dummyfs.c` | an array of up to 256 nodes below the root, `cur_inode`, 5 MiB of contents each | create, unlink, write, truncate; the rest changes nothing | libfuse |
| `task5/metadata.c`, `task6/data.c` | options, one POSIX barrier, threads with a result each | spawn a team per iteration; phases of system calls between barriers; join | a mounted file system |

What is hard, and for each component the properties that make it correct:

* **Checkpointing.** A team of threads shares one file and one header; the
  process can be killed between any two system calls, and the next launch may use
  another thread count, another iteration count and the other program. Correct
  means: the header never claims an iteration that some row lacks, a resumed
  computation loses nothing, a clean exit leaves a complete file, no thread
  waits at a barrier for ever. The iteration count is what `sscanf` makes of the
  argument: zero and negative counts are accepted.
* **Synchronisation with the disk.** `fsync` by one thread covers what the
  others have written *so far*, and may fail, which no program looks at. Correct means: when the team enters an
  iteration, the one before is on the disk in full, for every placement of
  `fsync` that claims it.
* **Block distribution.** Bit patterns over bytes, several ways to grant a
  request, a search over groups that may fail half way, stale known starts.
  Correct means: accounts agree with the block pointers, a failure changes
  nothing, granting never unmarks a block, a block has one owner.
* **File system calls.** Handlers run on many threads and use two kinds of
  spin locks; lookups happen before the lock is taken and serialisation after
  it is released. A read computes how much there is to read only once it has the
  lock, when a truncate may have cut the file behind its offset. Correct means: mutual
  exclusion per node, reads return what was written, the device ends up with what is in memory, every call returns.
* **Name space.** Three containers (paths to inodes, inodes to nodes, children of
  nodes), an inode counter, a count and a bitmap of meta blocks, and a table of them
  on the device. Only the lock of one directory is held when they change, and none
  when the table is written, in pssfs and memoryfs, and none in
  dummyfs. Correct means: the containers describe one tree, a call changes it by
  one entry, moving a directory moves what is below it, no number or block is
  given twice, the inode table on the device is the one in memory.
* **Memory.** memoryfs keeps three sizes per file and a total, and no caller looks
  at whether an allocation was refused. Correct means: contents end within their
  buffer, the buffers within the total, and the process ends only when the memory is
  really used up.
* **Benchmarks.** What a thread measures must not overlap with another phase of
  another thread, an error must have a cause outside the benchmark, nothing is
  left behind, and the program ends.

The hazards, each with its line and the properties aimed at it, are listed in
`PROJECT.json`.

## 2. The modules

```
RowSplit <--- Checkpoint -- refines --> AtomicCheckpoint
   ^              ^--------- Checkpoint_proofs
   +--------- CheckpointSync <--- CheckpointSync_proofs
   +--------- RowSplit_proofs   (used by the two modules of proofs above)

BlockGroup <--- BlockDistributor <--- MCBlockDistributor
   ^                 ^--------- BlockDistributor_proofs
   +--------- BlockGroupBits    (used by MCBlockDistributor)

PssfsFiles <--- MCPssfsFiles
     ^--------- PssfsFiles_proofs

FsNames <--- MCFsNames
  |  ^--------- FsNames_proofs
  +-- refines --> NameSpace

Benchmark <--- MCBenchmark
     ^--------- Benchmark_proofs

FoldLemmas    (used by BlockDistributor_proofs, PssfsFiles_proofs, FsNames_proofs)
```

**RowSplit** is the division of the rows among the team that all six programs
compute with the same three assignments.

**Checkpoint** models both programs of task2 (`program` is the binary that
runs). A row is abstracted to its *history*: where its values came from
(`init_matrix`, memory that was never filled, not in the file) and the
iterations that were applied to it; the arithmetic is not modelled. The file is
`created`, the header words `total` and `completed`, and the rows `saved`. Each
system call is an action: `OpenFile`, `WriteTotal`, `SaveRow` (a `pwrite` of one
row in the parallel program, a copy to `cooler_matrix` in the other),
`WriteHeader`. An iteration count is any number up to `MaxIteration`, of which
those below zero differ in nothing (`Counts`); with none to compute, a launch creates
the file, saves nothing and exits 0, which the ghost `blank` remembers of the launch
that created the file. The two OpenMP barriers are actions of the whole team. `Crash`
kills the process anywhere; it also stands for the `exit`s on failed writes,
which leave the same file. The two system calls that write the header's thread
count and total are one action, because nothing reads the thread count except
to print a warning. One `pwrite` is atomic with respect to a kill, which is what
`task2/checkpoint-answers.txt` assumes too.

**AtomicCheckpoint** is what `checkpoint.c` promises: a checkpoint is one step
that saves header and rows together, all rows with the same history.
`Checkpoint` refines it for `Programs = {"checkpoint"}`.

**CheckpointSync** models the four programs of task3 and task4, six variants
with the values of `sync`. A row is written in pieces, `pwrite` may write fewer
than asked or fail, and the program does about it what the code does: add -1
to an unsigned count (task3), not look (`checkpoint_optimized.c`), or exit
(task4). For each piece `disk` is the *set* of values that a power failure may
leave: a `pwrite` adds one, an `fsync` leaves the value in the cache. All the
kernel's write-back orders are thereby covered without an action for them. `fsync`
may fail (`FsyncFails`), which no program looks at: the thread goes on, and the cells
that were still to be written are `dropped`, that is, the kernel takes them for clean
and no later `fsync` writes them until a `pwrite` has changed them again. The ghost
`lapses` has the iterations in which that happened.

**BlockGroup** describes the byte operations of the distributor on *sets* of
positions. **BlockGroupBits** writes the C expressions (shifts, masks,
truncations) with bitwise operators and states that the two agree for every
byte and every argument the code passes; TLC evaluates that as an assumption of
`MCBlockDistributor`.

**BlockDistributor** gives each function of `block_distributor.c` as an
operator on a record of the distributor and one node: `TryAppend`, `Fetch`
(the set of outcomes over `rand()`), `Realloc`, `FreeAll`. Control is kept
branch by branch, including the branches that look wrong. Where the code leaves
the bitmap, dereferences NULL or wraps below zero the outcome is a `fault`,
after which the model stops. `block_distributor_init` draws the starts before it
clears the bitmap; the memory is a fresh large `malloc`, which is zero, so all
starts are the first blocks of groups. `Grow` and `Unlink` call the operators the
way `dummyfs_truncate` and `dummyfs_unlink` do, one call at a time.

**PssfsFiles** models create, unlink, readdir, read, write and truncate on the
files of one directory, by any number of libfuse threads. The spin on
`node->busy`, the spin on `fs->busy`, each piece that `blockwrite` or
`blockread` copies, and the two halves of `serialize_entry` are separate steps
(`Lock`, `LockDir`, `LockFs`, `Copy`, `Save`, `SaveBps`). Sizes and offsets count
blocks. The contents of a block are who wrote it for which position. A read or a write
has a range `from` .. `to`; how much a read copies (`Asked`) is computed under the
lock as the code does it, in unsigned arithmetic: behind the end of a file that was
cut while the read waited, `st_size - offset` wraps around (`SizeSpace` stands for
2^64 bytes) and `blockread` copies what the block pointers hold, past the buffer of
the caller. The ghost `overrun` remembers that; the process may have ended, or goes
on as the model does. Each
block of a file has one owner here: `BlockDistributor` shows that the distributor does
grant blocks twice (`distributor_owned`), and whatever is said of contents here is said
up to that. `last` is a ghost, the value that each position was last written with, and
so is `placed`, the positions for which that write had not lost its place in its
buffer. `Admitted` is external: which calls the
Linux VFS lets into a file system at the same time (it holds the directory for
create and unlink, and the file for write, truncate and unlink, but not for
read). The proofs do not use it.

**FsNames** models the names of all three file systems (`program` is the one that is
mounted). A path is a sequence of names. `inode_map` leads from a path to a *cell*,
the heap object that holds the inode number, `entry_map` from a cell to a node;
`children` of a node are node pointers in memoryfs and cells in pssfs, where a child
is therefore looked up through `entry_map`. The calls are cut
at every read and write of what two directories share. For `create` and `mkdir`: the
search of the meta bitmap and the marking, the reading and writing of `cur_inode` and
of `inode_count` (`Load`, `Store`), the entry in the maps and the parent (`Add`), the
walk of `serialize_inodes` over the map and the writing of what it found (`Walk`,
`Save`). For `unlink` of pssfs: the erased entry, `inode_count--` in its read and its
write (`LoadCount`, `StoreCount`), and the same `Walk` and `Save`. For `rename` of
pssfs: what it changes in the tree, then `Walk` and `Save`. The rest is one step each:
unlink and rename of the other two, which share nothing else, exchange, write and
truncate. `unlink` of pssfs locks the removed node too, but nobody reaches that node
once the path is gone, so its lock is left out. The ghost `lost` names what an update
of was overwritten: a counter, or the table on the device; `exchanged` is true after a
`RENAME_EXCHANGE` that left names and paths different. After such an exchange, or
after two cells got the same number, no further call is modelled: the maps are
then keyed by equal keys and what they do is outside this repository (the hash map
is a submodule). For the same reason `EntryMaps` is a set of outcomes.
`rename_subdirs` goes down the children, puts paths together from their names and moves
each path it comes to; in the model `Leads` says which nodes it comes to by which
names, `Below` which paths those are, and `Moved` moves them all. The code would end at a
path that is missing from `inode_map`; `PathsAgree` says that there is none.
`write` and `truncate` carry the account of memory of memoryfs: `size` is
`st_size`, `allocated` is `allocated_size`, `room` what the buffer really has,
`total` is `total_bytes`. `Budget` is the limit of `dummyfs_allocate`, `EntrySize` what
the inode, the key, the node and the name of a new entry take from it, `KeySize` a new
key of a rename (`NoMemory`). No caller looks at a refusal: an entry or a key without
memory ends the process, and a file of memoryfs whose first kilobyte is refused exists
without it (`bare`). `malloc` itself is taken to succeed within the limit. `Admitted` is
external, as in `PssfsFiles`: the VFS holds
the directories of an entry that is made, removed or renamed, and libfuse locks
the path.

**NameSpace** is what a file system promises: a tree that changes by one entry, by
one moved subtree, or by an exchange of two objects, at a time. The tree of
`FsNames` consists of the paths whose node has links; `FsNames` refines `NameSpace`
as long as no number was given twice and no exchange left names apart.

**Benchmark** models `metadata.c` and `data.c` (`bench`). A thread's work is a
script of steps (`MetadataScript`, `DataScript`), the loops over objects and blocks
and the barriers in them. The loop of `data.c` that stops at the barrier after
every 1000 blocks is unrolled by `Batches`. `Wait` is the POSIX barrier with the
team's size as its count. A system call fails when the file system cannot do it
(no directory, directory not empty, no file, read behind the end) or when a fault
is injected; `metadata.c` then leaves the thread, `data.c` asserts and aborts the
process. The file system below is `dirs`, `files` and `extent`; `rmdir` is "ignored"
for the file systems of this repository, whose rmdir returns 0 without doing it.
`DestroyBarrier` is what `main` does after a failed thread: destroying a barrier
that threads wait at is undefined, so it returns or never does.

The definitions marked *Slip* are plausible mistakes in the definition below
them (a dropped remainder, a missing lock, an examination of the last group only). They are not part
of any specification; each is put in place of the definition it is a slip of,
to see that the property fails.

## 3. The runs

| Run | Module, configuration | Question | States |
|---|---|---|---|
| `checkpoint_single` | Checkpoint, `Checkpoint_single.cfg` | Is `checkpoint.c` an atomic checkpoint, through kills, resumes and counts without iterations? | 270,937 |
| `checkpoint_mixed` | Checkpoint, `Checkpoint_mixed.cfg` | Can both programs share a file? | 1,243,297 |
| `checkpoint_sync` | CheckpointSync, `CheckpointSync.cfg` | Is an iteration on the disk when it should be, whatever fails? | 218,222 |
| `distributor` | MCBlockDistributor, `BlockDistributor.cfg` | Are bitmap and accounts kept, through every branch? | 119,397 |
| `files` | MCPssfsFiles, `PssfsFiles.cfg` | Do concurrent calls on files exclude each other, return, and reach the device? | 281,413 |
| `files_content` | MCPssfsFiles, `PssfsFiles_content.cfg` | Do reads of parts of a file return what was written, through truncates, denials and several block pointers? | 1,470,093 |
| `names` | MCFsNames, `FsNames.cfg` | Are the three name spaces trees that change by one entry, do numbers, counts, blocks and the device agree with them, are contents backed by memory? | about 226,500 |
| `benchmark` | MCBenchmark, `Benchmark.cfg` | Do phases stay apart, do failures have a cause, is nothing left, does the program end? | 146,438 |
| `distributor_owned`, `files_busy`, `files_alone`, `files_readback` | | the statements of section 5 | violated |

**Properties.** *Checkpoint*: `HeaderBehindRows` (every saved row has reached
the header's iteration, and at most one more), `HeaderMatchesRows` (exactly, for
`checkpoint.c`), `NoIterationSkipped`, `CleanExitMeansComplete`,
`RowsLostForAReason` (rows are computed from memory that was never filled only after a
kill, or when the file was created by a launch with no iteration to compute),
`CheckpointAdvancesByOne`, the refinement
`AtomicCheckpointing`, and `RunEnds`. *CheckpointSync*: `IterationDurable`,
`FileOneIterationApart`, `AllBytesCounted`, `RunEnds`. *BlockDistributor*:
`BlocksAccounted`, `FailureChangesNothing`, `GrowNeverUnmarks`. *PssfsFiles*:
`NodeExclusive`, `ReadsInPlace` (a read returns what was written last, wherever it and
that write kept their places in their buffers), `DeviceCurrent`, `CallsEnd`. *FsNames*:
`PathsAgree` (the three containers describe one tree), `CountersAgree` (inode
numbers and meta blocks are never given twice, the count is the number of rows but for
the calls that have yet to count theirs), `ImageCurrent` (the
device has the table and the bitmap), `ContentsBacked`, `BusyHeldOrDenied`,
`FaultExplained`, and the refinement `ChangesOneEntry`. *Benchmark*:
`SameRound`, `PhasesApart`, `FailuresExplained`, `NothingLeft`, `RunEnds`. One type
invariant each.

**Bounds.** *Checkpoint*: 3 rows with up to 4 threads gives even and uneven
splits and a thread without rows; 3 iterations and 2 kills allow to resume a
resumed run and to raise the iteration count; counts -1 and 0 have nothing to compute.
The mixed run has 2 threads and
2 iterations. *CheckpointSync*: 2 rows, 3 threads, 2 pieces, 2 iterations: the
second iteration is the first that can be torn from another; two faults, so that
two `pwrite`s fail, and `fsync` fails in each of the iterations (`MaxFaults` bounds the `pwrite`s that go wrong, and the iterations with a failed
`fsync`). *BlockDistributor*: bytes of 8 as in the code, 4 groups,
2 known starts, two interchangeable files, sizes 1, 5, 8, 11 and 20: within a
byte, a whole byte, over two, over three. Five calls reach every branch and
every fault. *PssfsFiles*: two threads,
two files, at most 4 calls in all; two blocks per file, so that a write covers
one block pointer or two, and reads of the second block, which a truncate to one
can overtake. `files_content`: one file of four blocks and 5 calls, so that two
truncates and a write make three block pointers and a write or a read after that lies
in one, two or three of them. The thread count matters little: `Exclusion` is proved
for every number. *FsNames*: two threads, two names, paths of up to three
names, so that a rename moves a directory with a directory with a file; four meta
blocks, so that they run out within four calls; three children, of which two are
there from the start; sizes of half a kilobyte, one and a half, and
two and a half against a limit of two per file, and three in all, of which
each entry and each key takes a half, so that
each of `memoryfs.c`'s two refusals happens alone, a file is created without its
first kilobyte, and an entry or the keys of a rename find no memory. Threads and names are interchangeable and TLC uses that (the number of
states then varies a little from run to run). *Benchmark*: three threads, two
iterations, 0, 1 or 2 objects or blocks with a barrier after each block, two
generators that draw differently in each phase, one injected fault.

**Conditions.** `IterationDurable` and `FileOneIterationApart` are stated for
task3 for runs in which no `pwrite` fails or, in `checkpoint_optimized.c`, falls short:
those programs skip the row, and the properties do not hold (`Intact`). For task4 a
failing or short `pwrite` needs no condition. For all programs, an iteration in which
an `fsync` failed may be lost, as the code does not look (`task4/checkpoint.c:164`,
`:176`, `checkpoint_fsync.c:177`, `checkpoint_optimized.c:210`); `IterationDurable`
excepts exactly that iteration and holds again for those that follow. `RowsLostForAReason`
has the two ways in which rows are lost as its condition.
`ReadsInPlace` excepts what `blockwrite` and `blockread` move out of place, which is what
comes to a third block pointer, and positions for which there was no block when they
were written, because the blocks were counted twice (`files_readback`) or denied.
`CallsEnd` excepts runs in which a read went behind its buffer.
The run `files` lets the distributor grant every request, and neither passing run asks
for more than `MAX_FILE_SIZE`, for a refused write locks the file for good
(section 5). The invariants of `FsNames` hold unless an update of exactly the counter
they speak about was lost between two calls in different directories, creates or
unlinks, and that of the device unless one thread's save overtook another's; an update
that is lost of one counter excuses nothing about another. That is the strongest
statement that the code keeps, as nothing but the directory's lock is held
(`dummyfs_inode_add`, `pssfs.c:718`), and none at all by `serialize_inodes`. `FailuresExplained` has a condition for each cause that the
run found: a fault, something left by the iteration or the run before, and the file
that thread 0 of `data.c` removes while another has yet to open it, with 0
blocks. `RunEnds` of `Benchmark` excepts the threads that wait for a failed one. The timed
`open` and `close` of `data.c` are left out of `Timed`: thread 0 may remove a file while
others still close theirs.

**Fairness.** The checkpoint programs: weak fairness of the process's next
step, that is, a process that is not killed keeps running, and no more: which
thread runs is left open, and nothing makes anyone launch a process.
`PssfsFiles`: weak fairness of each thread's step. The operating system schedules
a thread that spins or copies again and again, but a test-and-set spin lock gives
no bound on how often another thread gets in first; `CallsEnd` therefore speaks of
a bounded number of calls (`MaxCalls`), where the competition ends. `Benchmark`:
weak fairness of `main` and of each thread, which block in joins and barriers and
never spin, so that the scheduler runs each as long as it can. `FsNames` has safety
properties only; that calls on nodes return is the subject of `PssfsFiles`. Deadlock is
checked in the `Checkpoint` runs; elsewhere a run stops when the calls are used
up, a fault has occurred or the program has ended, and the liveness properties
say that nothing stops early.

## 4. The proofs

All theorems hold for every value of the constants that satisfies the
assumptions next to their declaration (`NAssumption`, `BoundsAssumption`, ...),
which say no more than that counts are numbers, that limits are not zero
and that programs are among those modelled. Two are of another
kind: `Threads` of `FsNames` is finite, because threads are counted, and a
generator of `Benchmark` draws at least as many numbers as there are blocks
(`GRand` never runs dry). `Refinement` and `HeaderExact` are about
`Programs = {"checkpoint"}`, as the statement is.

Every safety property of the passing runs is proved, both refinements included.

| Module | Theorem: property |
|---|---|
| `Checkpoint_proofs` | `TypeCorrectness`: `TypeOK`; `HeaderNeverAhead`: `HeaderBehindRows`; `NothingSkipped`: `NoIterationSkipped`; `CleanExit`: `CleanExitMeansComplete`; `HeaderAdvances`: `CheckpointAdvancesByOne`; `HeaderExact`: `HeaderMatchesRows`; `LostForAReason`: `RowsLostForAReason`; `Refinement`: `AtomicCheckpointing` |
| `CheckpointSync_proofs` | `TypeCorrect`: `TypeOK`; `Durable`: `IterationDurable`; `OneIterationApart`: `FileOneIterationApart`; `BytesCounted`: `AllBytesCounted` |
| `BlockDistributor_proofs` | `TypeCorrect`: `TypeOK`; `Accounted`: `BlocksAccounted`; `AllOrNothing`: `FailureChangesNothing`; `NeverUnmarks`: `GrowNeverUnmarks` |
| `PssfsFiles_proofs` | `TypeCorrect`: `TypeOK`; `Exclusion`: `NodeExclusive`; `DeviceFollows`: `DeviceCurrent`; `WritesReadBack`: `ReadsInPlace` |
| `FsNames_proofs` | `TypeCorrect`: `TypeOK`; `TreesAgree`: `PathsAgree`; `NumbersApart`: `CountersAgree`; `DeviceCurrent`: `ImageCurrent`; `LocksHeld`: `BusyHeldOrDenied`; `EndsForAReason`: `FaultExplained`; `BuffersCounted`: `ContentsBacked`; `NameSpaceRefined`: `ChangesOneEntry` |
| `Benchmark_proofs` | `TypeCorrect`: `TypeOK`; `TeamTogether`: `SameRound`; `PhasesNeverMix`: `PhasesApart`; `FailsForAReason`: `FailuresExplained`; `LeavesNothing`: `NothingLeft` |

`RowSplit_proofs` and `FoldLemmas` hold what they share: that the slices of the
threads are disjoint and cover the rows, and that a fold over a sequence is the last
of its partial results. `FoldLeft` is defined by a recursive function on subsets; that
it exists (`FoldExists`) and that a fact climbs from 0 to n (`Climb`) is shown by
least counterexample, since the induction theorems of the library are out of the
provers' reach.

**Checkpoint.** None of the properties is inductive. The invariant `IInv` is a
conjunction of named parts: `FileInv` (rows and header, and that no history of a row
has a gap below its level), `CreatedInv` (a file that does not exist is empty),
`StartInv` (before the team starts, the first iteration is the header's or the next,
and the rows in memory are at most one behind it), `PlaceInv` (only threads of the
team run), `BarrierInv` (the team agrees on `k`, and the two barriers separate the
saving of rows from the writing of the header), `RowsInv` (how far each thread has
brought its rows, relative to its `k` and `i`). The step that needs the rest is
`WriteHeader`: `BarrierInv` says that no thread is saving any more, `RowsInv` that
then every row has reached `k[0]`. `LostForAReason` adds `FilledInv`: without a kill
and with an iteration to compute for the launch that creates it (`Unharmed`), a
file that exists between two processes has a checkpoint, so that every launch finds
its rows filled, those included whose count is zero. `Refinement` adds `HistoryInv`: all saved rows stem from one origin,
a row in memory is the saved one or the saved one with one iteration, depending on
where its thread is between the barriers (`RowAlike`), and `cooler_matrix` has it once
it was copied. With it `WriteHeader` is `Atomic!Save` and every other step leaves the
file as it is.

**CheckpointSync.** The barrier keeps the team in one iteration (`SameIteration`).
`CacheInv` says of each thread which pieces of its rows the file has from this
iteration and which from the last, `SyncerInv` that no other thread leaves the barrier
while thread 0 syncs for all of them (`checkpoint_optimized`), `DiskInv` that what a
thread has written is on the disk in one value only once it was synced (`Settled`),
`DropInv` that a cell that a thread has written in this iteration is given up only by
an `fsync` that failed in this iteration. The step that matters is the pass of the barrier: it
lies behind the `fsync` of every thread (task3 `checkpoint_fsync`, task4) or between
the last write and the one `fsync` (`checkpoint_optimized`). `CountInv` counts the
bytes of a thread from its place in the loops; that the sum over the team is the
whole file as often as there were iterations is the partition of the rows.

**BlockDistributor.** `Grows(d, e)` says what a granted request may do: marks stay,
the sum of the pointers' lengths and `st_blocks` grow by the same; `Answers(d, e)` that
a call grows or refuses, and leaves bitmap, pointers and count as they were if it
refuses. Each function of the distributor is shown to keep to it, from the byte
operations up to `Realloc`, in the branches that look wrong as well; `Fetch` may try
starts that are stale or drawn twice. That different files get different blocks is
*not* among the results, because it is false (`distributor_owned`).

**PssfsFiles.** `Exclusion` from `LockInv`: shapes of the variables, which places
belong to which call (`PlaceInv`), and that a lock that a thread holds is set
(`HeldInv`). What the kernel serialises is not used: the spin locks are enough by
themselves. `DeviceFollows` from `DeviceInv`: entry and image agree, or some thread
still owes the copy. The argument has to hold for an entry that two threads copy at
once after they unlocked it. `TypeCorrect` needs the places too: `CopyInv` says of a thread that
writes that what it has done and what is left lie within the request, and that the
request was checked against `MAX_FILE_SIZE` before.

`WritesReadBack` is `Spec => []ReadsInPlace`: with any ranges of reads and writes, any
truncates, creates and unlinks, and any answers of the distributor, denials and blocks
that are counted twice included, a read that comes to at most two block pointers
(`InPlace`) returns what was written last at every position for which that write had
come to at most two on its way there and found a block. It holds also for a read that
waits while the file is cut or extended. What it does not say: what comes to a
third block pointer is out of place, and a block that the distributor grants to two
files (`distributor_owned`) is overwritten. The invariant is `ContentInv`:

* `CallInv` says where each thread is in its copy:
  `At` that the block pointer and the offset at which it stands are the position in
  the file up to which it has copied, and that the position in the buffer is the same up
  to the second block pointer (`Place3`; there the code's assignment and the addition it
  should be agree); `Moved` that up to there the blocks, or the
  buffer of a read, have the right contents.
* `KeptInv` says that the blocks hold what
  was written last, except at positions that some thread is overwriting at the moment.

Both outlast the steps of others because of `NodeExclusive`: only the holder of a
node's lock changes its block pointers or blocks. A read that is done holds that
lock, so nobody is overwriting anything, and what it moved was written last. Block
pointers are only appended or extended at their end, so what was stored keeps its place
(`ExtendedKeeps`), and a copy that has lost its place does not find it again
(`InPlaceLost`).

**FsNames.** The invariant `IInv` has a part for each thing that calls share.

* `TypeInv`, `ThreadInv`, `ApartInv` (no two threads make, remove or move entries in one
  directory or one below the other's), `OwnerInv` (the directory of an unfinished call
  exists, leads to its own node, and no number that is drawn or about to be drawn is its
  number), `InjectiveInv` (no two paths lead to one cell). These hold also when numbers
  were given twice; the others need them to say where an entry ends up.
* `NumberInv`, `BlockInv`, `CountInv`: what `dummyfs_inode_add` and `inode_count--` have
  read, not yet written or already drawn, for each counter, unless an update of that one
  was lost. The count differs from the table by the rows that a call has added or erased
  and not yet counted (`Uncounted`).
  `MetaInv` bounds the marked meta blocks by the objects that were made.
* `TreeInv` is `PathsAgree` said of single paths: `Above` (a path hangs in its front's
  node under its last name), `Beneath` (a child's path is there and leads to it).
* `IdInv` (a node keeps the cell it was made for, through exchanges too), `RoomInv`
  (`size`, `allocated` and `room` of each file, and that the charges of all files sum up to
  `total` at most; a charge is the buffer, less the first kilobyte of a file that got
  none), `ImageInv` (who still owes the device which part: somebody has yet to walk, or somebody
  is about to write what is in memory), `BitmapInv`, `LockInv`, `Causes`.

The hard step is `rename`. `TreeInv` says that the names along any path below the old
one lead from child to child to its node (`LeadsThere`), so `rename_subdirs` finds
every such path (`AllBelow`), and the map afterwards leads from every path, relocated
or not, to the cell it led to before (`MovedIs`). What is above and beneath a path then
carries over path by path, and only the two parents and the moved entry itself are
looked at. The admission of calls by the kernel (`Admitted`) is used: without it
`create` would add to a directory while it is moved.

`NameSpaceRefined` maps a state to the tree of the paths whose node has links, each
with its kind and its identity (`id`). While no number was given twice a path's entry is
the cell that `inode_map` has for it, which says what the tree is without `entry_map`
(`TreeForm`), and by `IdInv` a new object's identity is not in the tree yet. A step that
leaves paths, and kinds, identities and link counts of the nodes, as they are shows
nothing (`TreeStays`): everything that a create does before its entry is in the maps and
after, and all that unlink and rename of pssfs do after theirs. `LinksInv` says that directories never lose their
last link, so only files disappear. The insertion in `dummyfs_inode_add` is
`Make`, an unlink is `Delete`, a rename is `Move` with the paths of `MovedIs`, or
nothing if the file had been removed before (`memoryfs` and `dummyfs` keep its path); an
exchange is `Exchange`, or `Move` if one of the two had been removed. After an
exchange of unlike objects, or once a number was drawn twice, the abstract
specification promises nothing (`Sound`).

**Benchmark.** `IInv` is `ShapeInv` (the shapes of the variables that say where a thread
is), `WaitingInv` (who waits stands at a barrier), `SpawnInv` (while `main` spawns, nobody
has passed the first barrier, and nobody of the last iteration is left) and `JoinInv`
(who was joined is gone). A barrier opens when all others wait, and `SameRound` before
the step says that they wait at the same one. `PhasesApart` follows, because in both
scripts a barrier follows each timed step, so that no two phases share a round
(`ScriptProper`). `FailsForAReason` and `LeavesNothing` rest on `RunInv`: in a run
without faults and leftovers, which files and directories exist is determined by the
place of each thread in its script, and what the thread needs for its next call is
there. For `data.c` this includes that every position that a thread has written lies
within its file (`Reached`), which may be the file of thread 0, and that the reading phase
draws the same positions again (`reset_rand`).

**Only model-checked.** Liveness (`RunEnds` three times, `CallsEnd`), which the prover
does not reach, and `BlockGroupBits`, a finite table. The violated statements of section 5
are about the instances in their configurations.

## 5. Findings

Each run marked *violation* checks one statement of the repository's documents
or tests that the code does not keep.

* `distributor_owned`: two files get the same block (known starts that are
  duplicated or used up, and a shift by a negative count that marks nothing,
  `block_distributor.c:143-159`).
* `files_busy`: `-ENOSPC` returns from write and truncate without clearing
  `node->busy` (`pssfs.c:763-766`, `:660-663`).
* `files_alone`: truncate and unlink change the distributor without `fs->busy`
  (`pssfs.c:669`, `:719`).
* `files_readback`: blocks are counted twice (`pssfs.c:777`), so the second
  extending write allocates nothing; `blockwrite`'s -1 is not looked at.

Met on the way and not given a run: a kill between `open(O_CREAT)` and the first
checkpoint makes the next launch compute on memory that was never filled, and so does a
first launch with an iteration count below one, which creates the file, saves nothing
and exits 0 (these are the conditions of `RowsLostForAReason`); `threads = 0` divides by zero;
the branch for `block_change == 0` (`pssfs.c:773`) is dead, because
the distributor denies with -1; freeing computes the rest of a range from its
first block (`block_distributor.c:263`) and stops after the first pointer that
lies within a group (`:260`).

`blockwrite` and `blockread` set the position in the buffer to the length of the last
piece instead of adding it (`block_writer.h:27`, `:49`). With two block pointers that
is the same. A file that was truncated to one block and to two, each time with
blocks of their own, and is then written whole, has three, and its last part is
wrong although all blocks are there: `ReadsWritten` is violated with `MaxSize = 4`,
the one write from 0 to 4, `Truncations = {1, 2}` and `Outcomes = {"append"}`
(`ReadsInPlace`, which `files_content` checks there, says what is left). A read that a
truncate overtakes computes `st_size - offset` below zero (`pssfs.c:461`) and copies what
the block pointers hold, which may be more than it was asked for.

An `fsync` that fails goes unnoticed in every program of task3 and task4: the iteration
is not on the disk, and the program continues as if it were.

In the name spaces: memoryfs and dummyfs keep a removed file's path, so that it can
never be created again (`memoryfs.c:315`, `dummyfs.c:190` return `-EEXIST`), while
`task4/structure.txt:118-119` says that the content is then cleared and the metadata
reset; dummyfs never gives a removed child's place to another, so 256 creates
overrun the array. pssfs's unlink erases `entry_map` with a key of 4 of its 8 bytes
and never frees the meta block, so that creating and removing files in turn ends in
`exit(13)`. Two unlinks in different directories, or an unlink and a create, can lose an
update of `inode_count` (`pssfs.c:718`), and two calls that save at once leave a stale
table on the device (`serializers.h:124`). memoryfs and pssfs write to inodes, keys, nodes
and names without a look at whether they were allocated (`memoryfs.c:77-80`, `:119-123`,
`:173-177`). A file shows the inode number that the next object will get
(`memoryfs.c:132`, `pssfs.c:119`). `RENAME_EXCHANGE` swaps whole nodes, names and
children included, and does not touch the paths below them. The count and number
in the header on the device are those of `dummyfs_init` (`pssfs.c:237`). rename with
flags 0, rmdir, and dummyfs's mkdir return 0 and do nothing. The array for the path of
a new object is one byte short unless its parent is the root (`memoryfs.c:112`).

In the benchmarks: a thread of `metadata.c` that fails leaves the others at the
barrier (`metadata.c:373`), and `main` then destroys a barrier that is in use.

## 6. What is not modelled

* The byte layout of the serialised structures, and the deserializers, which
  nothing calls. Of the serializers the order relative to the calls is modelled, for
  entries, the inode table and the meta bitmap. A restart is not modelled: `dummyfs_init` exits on a device that
  carries its magic number.
* In `FsNames`, interleavings *within* what unlink and rename change of the tree (they
  have their directories for themselves, by the VFS), within the walk of one
  `serialize_inodes` (a second that overlaps it is in `lost`), and within write and
  truncate, which hold the node's lock. The entries of the directories that unlink and
  rename serialise last are the subject of `PssfsFiles`. Interleavings
  within a hash map operation: the hash map is a submodule that is not here.
* The arithmetic of the matrix, timers, statistics other than the byte count,
  logging, plots, scripts.
* The exercises of task1 and `task2/simple`: straight-line code without state
  that lives on.
* Concurrent memory accesses inside the distributor: `files_alone` shows that
  two threads can be in it at once; what they then do to the bitmap is undefined
  behaviour and is left there.

## 7. Plan

1. Done: `RowSplit`, `Checkpoint`, `AtomicCheckpoint`, `CheckpointSync`,
   `BlockGroup`, `BlockGroupBits`, `BlockDistributor`, `PssfsFiles`, `NameSpace`,
   `FsNames`, `Benchmark`, and the proofs of section 4.
2. With a larger budget of runs: the path that cannot be created again
   (section 5) as a statement that `FsNames` violates.
