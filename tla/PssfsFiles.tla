------------------------------ MODULE PssfsFiles ------------------------------
(***************************************************************************)
(* The calls of task6/src/pssfs.c on the files of one directory, with the  *)
(* FUSE threads interleaved at every spin lock and at every memcpy.        *)
(*                                                                         *)
(* Sizes and offsets count blocks.  A block holds Stale (whatever its last *)
(* owner left there) or a value [tag, at]: the thread that wrote it and    *)
(* the position of the file it wrote it for.  The node of an unlinked file *)
(* is never reached again: node[f] is the node of the present file f.      *)
(*                                                                         *)
(* The block distributor is seen from outside: Outcomes says whether it    *)
(* extends the last block pointer, appends one or denies the request.      *)
(* What it grants is in no other file; BlockDistributor shows that it does *)
(* grant blocks twice, and what is said of contents is said up to that.    *)
(* Calls on a path that does not exist, and create on one that does,       *)
(* return before they change anything and are left out.                    *)
(***************************************************************************)
EXTENDS Integers, Sequences, FiniteSets, SequencesExt

CONSTANTS
  Threads, Files,
  Dir,          \* the node of the parent directory
  MaxSize,      \* MAX_FILE_SIZE
  Writes,       \* the ranges [from, to] that are written
  Reads,        \* the ranges that are read
  SizeSpace,    \* 2^64 bytes in blocks: where a size_t wraps around
  Truncations,  \* the sizes that are truncated to
  Outcomes,     \* of a request to the distributor
  MaxCalls      \* bound on the number of calls

ASSUME DirAssumption == Dir \notin Files
ASSUME MaxSizeAssumption == MaxSize \in Nat \ {0}
ASSUME WritesAssumption ==
  Writes \subseteq { w \in [from : Nat, to : Nat] : w.from < w.to }
ASSUME ReadsAssumption ==
  /\ Reads \subseteq { r \in [from : Nat, to : Nat] : r.from < r.to }
  /\ SizeSpace \in Nat /\ \A r \in Reads : r.from <= SizeSpace
ASSUME TruncationsAssumption == Truncations \subseteq Nat
ASSUME OutcomesAssumption == Outcomes \subseteq {"extend", "append", "deny"}
ASSUME MaxCallsAssumption == MaxCalls \in Nat

VARIABLES
  \* memory of the file system
  paths,     \* inode_map, entry_map and the children of the directory
  node,      \* st_size, st_blocks and the lengths of the block pointers
  store,     \* the allocated blocks of a file, in the order of its pointers
  busy,      \* the spin lock of each node
  fsBusy,    \* the spin lock of the file system
  \* device
  image,     \* the serialised entry of each file
  dirImage,  \* the serialised children of the directory
  \* the threads
  pc, call,
  cursor,    \* the locals of blockwrite and blockread
  buf,       \* what a read has copied
  calls,     \* how many calls there were
  \* what the file system was asked to keep
  last,      \* for each position the value last written, None if unspecified
  placed,    \* the positions where that write had not lost its place
  overrun    \* a read has copied more than it was asked for

memory  == <<paths, node, store>>
locks   == <<busy, fsBusy>>
device  == <<image, dirImage>>
asked   == <<last, placed>>
vars    == <<memory, locks, device, pc, call, cursor, buf, calls, asked, overrun>>

Nodes     == Files \cup {Dir}
Positions == 0 .. MaxSize - 1

EmptyNode == [size |-> 0, blocks |-> 0, segs |-> <<>>]
Stale     == [tag |-> "stale", at |-> 0]
None      == [tag |-> "none", at |-> 0]
Unwritten == [p \in Positions |-> None]
NoCursor  == [seg |-> 1, offset |-> 0, done |-> 0, left |-> 0]

Calls ==
       [op : {"create", "unlink"}, file : Files]
  \cup [op : {"readdir"}, file : {Dir}]
  \cup [op : {"truncate"}, file : Files, to : Truncations]
  \cup { [op |-> "write", file |-> f, from |-> w.from, to |-> w.to] :
         f \in Files, w \in Writes }
  \cup { [op |-> "read", file |-> f, from |-> r.from, to |-> r.to] :
         f \in Files, r \in Reads }

NoCall == [op |-> "none", file |-> Dir]

OnFile(t)     == call[t].op \in {"read", "write", "truncate", "unlink"}
OnDir(t)      == call[t].op \in {"create", "unlink", "readdir"}

Goto(t, l) == pc' = [pc EXCEPT ![t] = l] /\ UNCHANGED call
\* The call is over and its locals are gone.
Return(t) ==
  /\ pc' = [pc EXCEPT ![t] = "idle"]
  /\ call' = [call EXCEPT ![t] = NoCall]
  /\ cursor' = [cursor EXCEPT ![t] = NoCursor]
  /\ buf' = [buf EXCEPT ![t] = Unwritten]

\* What the kernel and libfuse let into the handlers at the same time: they
\* hold a directory while its entries change, and a file while it is written,
\* truncated or removed, but not while it is read.
Changes(c)   == c.op \in {"create", "unlink"}
Admitted(c, d) ==
  /\ Changes(c) => ~Changes(d) /\ d.op # "readdir" /\ d.file # c.file
  /\ c.op = "readdir" => ~Changes(d)
  /\ Changes(d) => c.file # d.file
  /\ c.op \in {"write", "truncate"} /\ d.op \in {"write", "truncate"}
       => c.file # d.file

Begin(t) ==
  /\ pc[t] = "idle" /\ calls < MaxCalls
  /\ \E c \in Calls :
       /\ c.op # "readdir" => (c.op = "create" <=> c.file \notin paths)
       /\ \A u \in Threads \ {t} : pc[u] # "idle" => Admitted(c, call[u])
       /\ call' = [call EXCEPT ![t] = c]
       /\ pc' = [pc EXCEPT ![t] =
                    IF c.op \in {"create", "readdir"} THEN "lockdir" ELSE "lock"]
  /\ calls' = calls + 1
  /\ UNCHANGED <<memory, locks, device, cursor, buf, asked, overrun>>

\* Slip: the flag is set whatever it was.
Barge(n) == busy' = [busy EXCEPT ![n] = TRUE]
\* while (atomic_flag_test_and_set(&node->busy)) {}
Acquire(n) == ~busy[n] /\ busy' = [busy EXCEPT ![n] = TRUE]

Lock(t) ==
  /\ pc[t] = "lock"
  /\ Acquire(call[t].file)
  /\ Goto(t, IF call[t].op = "unlink" THEN "lockdir" ELSE "check")
  /\ UNCHANGED <<memory, fsBusy, device, cursor, buf, calls, asked, overrun>>

LockDir(t) ==
  /\ pc[t] = "lockdir"
  /\ Acquire(Dir)
  /\ Goto(t, CASE call[t].op = "create" -> "add"
               [] call[t].op = "unlink" -> "remove"
               [] OTHER -> "unlock")
  /\ UNCHANGED <<memory, fsBusy, device, cursor, buf, calls, asked, overrun>>

-----------------------------------------------------------------------------
(* block_distributor_realloc, seen by its callers *)

\* The node and the return value for each outcome, for a size of n blocks.
Granted(nd, req, outcome) ==
  IF outcome = "extend" /\ nd.segs # <<>>
    THEN [nd EXCEPT !.segs[Len(nd.segs)] = @ + req, !.blocks = @ + req]
    ELSE [nd EXCEPT !.segs = Append(@, req), !.blocks = @ + req]

Realloc(nd, n) ==
  LET req == IF nd.segs = <<>> THEN n ELSE n - nd.blocks
  IN  IF n <= nd.blocks THEN { [node |-> nd, ret |-> 0] }
      ELSE { IF outcome = "deny" THEN [node |-> nd, ret |-> -1]
             ELSE [node |-> Granted(nd, req, outcome), ret |-> req] :
             outcome \in Outcomes }

\* The blocks that came to a file keep what they held.
Extended(content, ret) ==
  IF ret > 0 THEN content \o [i \in 1 .. ret |-> Stale] ELSE content

-----------------------------------------------------------------------------
(* write and read *)

\* n_size > st_blocks * BLOCK_SIZE, in unsigned arithmetic.
Needs(nd, n) == nd.blocks >= 0 /\ n > nd.blocks

StartCopy(t, offset, n) ==
  cursor' = [cursor EXCEPT ![t] = [seg |-> 1, offset |-> offset, done |-> 0, left |-> n]]

\* An early return leaves node->busy set.
CheckWrite(t) ==
  LET c == call[t]  nd == node[c.file]
  IN  /\ pc[t] = "check" /\ c.op = "write"
      /\ IF c.to > nd.size /\ c.to > MaxSize
           THEN /\ Return(t)
                /\ UNCHANGED node
         ELSE IF c.to > nd.size /\ Needs(nd, c.to)
           THEN /\ Goto(t, "fslock")
                /\ UNCHANGED <<node, cursor, buf>>
         ELSE /\ node' = [node EXCEPT ![c.file].size = IF c.to > @ THEN c.to ELSE @]
              /\ StartCopy(t, c.from, c.to - c.from)
              /\ Goto(t, "copy")
              /\ UNCHANGED buf
      /\ UNCHANGED <<paths, store, locks, device, calls, asked, overrun>>

LockFs(t) ==
  /\ pc[t] = "fslock" /\ ~fsBusy /\ fsBusy' = TRUE
  /\ Goto(t, "alloc")
  /\ UNCHANGED <<memory, busy, device, cursor, buf, calls, asked, overrun>>

\* The distributor adds what it granted to st_blocks, and so does write, a
\* denial included.  It never returns 0 here, the one value write tests for.
Alloc(t) ==
  LET c == call[t]
  IN  /\ pc[t] = "alloc"
      /\ \E r \in Realloc(node[c.file], c.to) :
           /\ node' = [node EXCEPT ![c.file] =
                         [r.node EXCEPT !.blocks = @ + r.ret, !.size = c.to]]
           /\ store' = [store EXCEPT ![c.file] = Extended(@, r.ret)]
      /\ fsBusy' = FALSE
      /\ StartCopy(t, c.from, c.to - c.from)
      /\ Goto(t, "copy")
      /\ UNCHANGED <<paths, busy, device, buf, calls, asked, overrun>>

\* How much is read: up to st_size, less the offset, in unsigned arithmetic: for
\* a file that has become shorter than the offset it is nearly 2^64.
Asked(size, from, to) ==
  IF to <= size THEN to - from
  ELSE IF from <= size THEN size - from
  ELSE SizeSpace - (from - size)

CheckRead(t) ==
  LET c == call[t]
  IN  /\ pc[t] = "check" /\ c.op = "read"
      /\ StartCopy(t, c.from, Asked(node[c.file].size, c.from, c.to))
      /\ buf' = [buf EXCEPT ![t] = Unwritten]
      /\ Goto(t, "copy")
      /\ UNCHANGED <<memory, locks, device, calls, asked, overrun>>

\* Where the allocated blocks of segment seg begin.
BaseOf(segs, seg) == FoldLeft(LAMBDA a, b : a + b, 0, SubSeq(segs, 1, seg - 1))

\* Slip: the length is not clamped.
WholePiece(segs, cur) == segs[cur.seg] - cur.offset
\* How much of segment seg is copied.
Piece(segs, cur) ==
  IF cur.left < segs[cur.seg] - cur.offset THEN cur.left ELSE segs[cur.seg] - cur.offset

\* Slip: every piece is copied from the beginning of the buffer.
AdvanceInPlace(segs, cur) ==
  IF segs[cur.seg] <= cur.offset
    THEN [cur EXCEPT !.offset = @ - segs[cur.seg], !.seg = @ + 1]
    ELSE [cur EXCEPT !.offset = 0, !.seg = @ + 1, !.left = @ - Piece(segs, cur)]
\* One turn of the loop of blockwrite and blockread.  The position in the
\* buffer is set to the length of the piece, not increased by it.
Advance(segs, cur) ==
  IF segs[cur.seg] <= cur.offset
    THEN [cur EXCEPT !.offset = @ - segs[cur.seg], !.seg = @ + 1]
    ELSE [cur EXCEPT !.offset = 0, !.seg = @ + 1,
                     !.done = Piece(segs, cur), !.left = @ - Piece(segs, cur)]

\* What is copied behind the end of a read's buffer is not kept.  The process
\* may end there, or go on as it does here.
Copy(t) ==
  LET c    == call[t]
      segs == node[c.file].segs
      cur  == cursor[t]
      base == BaseOf(segs, cur.seg) + cur.offset
      len  == Piece(segs, cur)
      hit  == segs[cur.seg] > cur.offset
  IN  /\ pc[t] = "copy" /\ cur.seg <= Len(segs)
      /\ cursor' = [cursor EXCEPT ![t] = Advance(segs, cur)]
      /\ IF hit /\ c.op = "write"
           THEN store' = [store EXCEPT ![c.file] =
                  [i \in DOMAIN @ |->
                     IF base < i /\ i <= base + len
                       THEN [tag |-> t, at |-> c.from + cur.done + i - base - 1]
                       ELSE @[i]]]
           ELSE UNCHANGED store
      /\ IF hit /\ c.op = "read"
           THEN buf' = [buf EXCEPT ![t] =
                  [p \in Positions |->
                     IF cur.done <= p /\ p < cur.done + len
                       THEN store[c.file][base + p - cur.done + 1]
                       ELSE @[p]]]
           ELSE UNCHANGED buf
      /\ overrun' = (overrun \/ (hit /\ c.op = "read" /\ cur.done + len > c.to - c.from))
      /\ Goto(t, IF hit /\ Advance(segs, cur).left = 0 THEN "unlock" ELSE "copy")
      /\ UNCHANGED <<paths, node, locks, device, calls, asked>>

\* The pointers are exhausted: -1, which neither caller looks at.
CopyEnds(t) ==
  /\ pc[t] = "copy" /\ cursor[t].seg > Len(node[call[t].file].segs)
  /\ Goto(t, "unlock")
  /\ UNCHANGED <<memory, locks, device, cursor, buf, calls, asked, overrun>>

-----------------------------------------------------------------------------
(* truncate *)

CheckTruncate(t) ==
  /\ pc[t] = "check" /\ call[t].op = "truncate"
  /\ IF call[t].to > MaxSize THEN Return(t)
     ELSE Goto(t, "realloc") /\ UNCHANGED <<cursor, buf>>
  /\ UNCHANGED <<memory, locks, device, calls, asked, overrun>>

\* Without fs->busy, and for at least one block.  A denial is not noticed.
Truncate(t) ==
  LET c == call[t]
  IN  /\ pc[t] = "realloc"
      /\ \E r \in Realloc(node[c.file], IF c.to < 1 THEN 1 ELSE c.to) :
           /\ node' = [node EXCEPT ![c.file] = [r.node EXCEPT !.size = c.to]]
           /\ store' = [store EXCEPT ![c.file] = Extended(@, r.ret)]
      /\ last' = [last EXCEPT ![c.file] =
                    [p \in Positions |-> IF p < c.to THEN @[p] ELSE None]]
      /\ Goto(t, "unlock")
      /\ UNCHANGED <<paths, locks, device, cursor, buf, calls, placed, overrun>>

-----------------------------------------------------------------------------
(* create and unlink *)

\* The new node is the EmptyNode that node[f] is as long as f does not exist.
Add(t) ==
  /\ pc[t] = "add"
  /\ paths' = paths \cup {call[t].file}
  /\ Goto(t, "unlock")
  /\ UNCHANGED <<node, store, locks, device, cursor, buf, calls, asked, overrun>>

RemoveEntry(t) ==
  LET f == call[t].file
  IN  /\ pc[t] = "remove"
      /\ paths' = paths \ {f}
      /\ node' = [node EXCEPT ![f] = EmptyNode]
      /\ store' = [store EXCEPT ![f] = <<>>]
      /\ last' = [last EXCEPT ![f] = Unwritten]
      /\ Goto(t, "unlock")
      /\ UNCHANGED <<locks, device, cursor, buf, calls, placed, overrun>>

-----------------------------------------------------------------------------
(* The end of every call *)

\* Slip: unlink forgets the lock of the directory.
ReleasesOne(c) == IF c.op \in {"create", "readdir"} THEN {Dir} ELSE {c.file}
\* The nodes whose lock a call clears at its end.
Releases(c) ==
  (IF c.op \in {"create", "unlink", "readdir"} THEN {Dir} ELSE {})
  \cup (IF c.op \in {"create", "readdir"} THEN {} ELSE {c.file})

Keep(t) ==
  LET c == call[t]
  IN  [last EXCEPT ![c.file] =
         [p \in Positions |-> IF c.from <= p /\ p < c.to
                                THEN [tag |-> t, at |-> p] ELSE @[p]]]

Begins(segs) == {BaseOf(segs, i) : i \in 1 .. Len(segs)}
\* A copy of the positions from .. to - 1 comes to two block pointers at most, for
\* which it keeps its place in the buffer.
InPlace(segs, from, to) ==
  ~ \E a, b \in Begins(segs) : from < a /\ a < b /\ b < to

Place(t) ==
  LET c == call[t]
  IN  [placed EXCEPT ![c.file] =
         {p \in Positions :
            IF c.from <= p /\ p < c.to
              THEN p < Len(store[c.file]) /\ InPlace(node[c.file].segs, c.from, p + 1)
              ELSE p \in @}]

Unlock(t) ==
  /\ pc[t] = "unlock"
  /\ busy' = [n \in Nodes |-> busy[n] /\ n \notin Releases(call[t])]
  /\ last' = IF call[t].op = "write" THEN Keep(t) ELSE last
  /\ placed' = IF call[t].op = "write" THEN Place(t) ELSE placed
  /\ IF call[t].op = "readdir" THEN Return(t)
     ELSE Goto(t, "save") /\ UNCHANGED <<cursor, buf>>
  /\ UNCHANGED <<memory, fsBusy, device, calls, overrun>>

\* Slip: truncate returns once the lock is cleared.
SavesAllButTruncated(c) == c.op \in {"read", "write"}
SavesFile(c) == c.op \in {"read", "write", "truncate"}
SavesDir(c)  == c.op \in {"create", "unlink"}

\* serialize_entry copies the metadata first, with no lock held.
Save(t) ==
  LET c == call[t]
  IN  /\ pc[t] = "save"
      /\ image' = IF SavesFile(c)
                    THEN [image EXCEPT ![c.file].size = node[c.file].size,
                                       ![c.file].blocks = node[c.file].blocks]
                  ELSE IF c.op = "create" THEN [image EXCEPT ![c.file] = node[c.file]]
                  ELSE image
      /\ dirImage' = IF SavesDir(c) THEN paths ELSE dirImage
      /\ IF SavesFile(c) THEN Goto(t, "savebps") /\ UNCHANGED <<cursor, buf>>
         ELSE Return(t)
      /\ UNCHANGED <<memory, locks, calls, asked, overrun>>

\* ... and the block pointers after it.
SaveBps(t) ==
  LET f == call[t].file
  IN  /\ pc[t] = "savebps"
      /\ image' = [image EXCEPT ![f].segs = node[f].segs]
      /\ Return(t)
      /\ UNCHANGED <<memory, locks, dirImage, calls, asked, overrun>>

-----------------------------------------------------------------------------
\* The files have been created.
Init ==
  /\ paths = Files
  /\ node = [f \in Files |-> EmptyNode] /\ store = [f \in Files |-> <<>>]
  /\ busy = [n \in Nodes |-> FALSE] /\ fsBusy = FALSE
  /\ image = node /\ dirImage = paths
  /\ pc = [t \in Threads |-> "idle"] /\ call = [t \in Threads |-> NoCall]
  /\ cursor = [t \in Threads |-> NoCursor] /\ buf = [t \in Threads |-> Unwritten]
  /\ calls = 0
  /\ last = [f \in Files |-> Unwritten] /\ placed = [f \in Files |-> {}]
  /\ overrun = FALSE

Step(t) ==
  \/ Lock(t) \/ LockDir(t)
  \/ CheckWrite(t) \/ LockFs(t) \/ Alloc(t)
  \/ CheckRead(t) \/ Copy(t) \/ CopyEnds(t)
  \/ CheckTruncate(t) \/ Truncate(t)
  \/ Add(t) \/ RemoveEntry(t)
  \/ Unlock(t) \/ Save(t) \/ SaveBps(t)

Next == \E t \in Threads : Begin(t) \/ Step(t)

Spec == Init /\ [][Next]_vars

\* A thread that spins or copies is scheduled again and again.
FairSpec == Spec /\ \A t \in Threads : WF_vars(Step(t))
-----------------------------------------------------------------------------
(* Properties *)

\* The nodes a thread is working on, between its spin loop and its clear.
HeldBy(t) ==
  { n \in Nodes :
      \/ /\ n = call[t].file /\ OnFile(t)
         /\ pc[t] \in {"check", "fslock", "alloc", "copy", "realloc",
                       "lockdir", "remove", "unlock"}
      \/ n = Dir /\ OnDir(t) /\ pc[t] \in {"add", "remove", "unlock"} }

Values == {Stale, None} \cup [tag : Threads, at : Positions]

Node == [size : Nat, blocks : Int, segs : Seq(Nat)]

TypeOK ==
  /\ paths \subseteq Files /\ dirImage \subseteq Files
  /\ node \in [Files -> Node] /\ image \in [Files -> Node]
  /\ \A f \in Files : node[f].size <= MaxSize
  /\ store \in [Files -> Seq(Values)]
  /\ busy \in [Nodes -> BOOLEAN] /\ fsBusy \in BOOLEAN
  /\ pc \in [Threads -> {"idle", "lock", "lockdir", "check", "fslock", "alloc",
                         "copy", "realloc", "add", "remove", "unlock", "save",
                         "savebps"}]
  /\ call \in [Threads -> Calls \cup {NoCall}]
  /\ cursor \in [Threads -> [seg : Nat, offset : Nat, done : Nat, left : Nat]]
  /\ buf \in [Threads -> [Positions -> Values]]
  /\ calls \in 0 .. MaxCalls
  /\ last \in [Files -> [Positions -> Values]]
  /\ placed \in [Files -> SUBSET Positions] /\ overrun \in BOOLEAN

\* No two threads are inside the same node, and no two writes that need more
\* blocks are inside the distributor.
NodeExclusive ==
  \A t, u \in Threads : t # u =>
    /\ HeldBy(t) \cap HeldBy(u) = {}
    /\ ~(pc[t] = "alloc" /\ pc[u] = "alloc")

\* What t has read of the positions that count: those that its call asked for,
\* that the file has and that were written since the file grew to them.
Returned(t, p) ==
  LET c == call[t]
  IN  /\ pc[t] = "unlock" /\ c.op = "read"
      /\ c.from <= p /\ p < c.to /\ p < node[c.file].size /\ last[c.file][p] # None

\* A read returns what was written last: whole writes, in their place, however
\* many block pointers the file has (task6/test.sh:14 expects it).
ReadsWritten ==
  \A t \in Threads, p \in Positions :
    Returned(t, p) => buf[t][p - call[t].from] = last[call[t].file][p]

\* A read that comes to at most two block pointers, and so keeps its place in the
\* buffer, returns what was written last at every position for which that write
\* had kept its place: whatever else was written, cut off, denied or left without
\* blocks, and however the file changed while the read waited.
ReadsInPlace ==
  \A t \in Threads, p \in Positions :
    LET c == call[t]  nd == node[c.file]
    IN  /\ Returned(t, p)
        /\ p \in placed[c.file]
        /\ InPlace(nd.segs, c.from, IF c.to < nd.size THEN c.to ELSE nd.size)
        => buf[t][p - c.from] = last[c.file][p]

\* When no call is under way, the device holds the entries that are in memory,
\* although they are copied to it after the lock is cleared and in two pieces.
DeviceCurrent ==
  /\ \A f \in paths :
       (\A t \in Threads : call[t].file # f) => image[f] = node[f]
  /\ (\A t \in Threads : ~OnDir(t)) => dirImage = paths

\* Finitely many calls all return: no lock is leaked and none is taken in an
\* order that lets two calls wait for each other, as long as no read has gone
\* behind its buffer, after which the process may have ended.
CallsEnd == \A t \in Threads : pc[t] # "idle" ~> (pc[t] = "idle" \/ overrun)

\* "Locking has been implemented to allow for parallel access on the filesystem
\* on shared directories or files" (task6/design.md:85): a node is busy only
\* while some thread works on it.
BusyMeansHeld ==
  \A n \in Nodes : busy[n] => \E t \in Threads : n \in HeldBy(t)

InDistributor(t) ==
  \/ pc[t] \in {"alloc", "realloc"}
  \/ pc[t] = "remove" /\ node[call[t].file].segs # <<>>

\* "not more than one actor may modify this state", the state of the block
\* distributor (task6/design.md:193).
DistributorAlone ==
  \A t, u \in Threads : t # u => ~(InDistributor(t) /\ InDistributor(u))
=============================================================================
