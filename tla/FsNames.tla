-------------------------------- MODULE FsNames --------------------------------
(***************************************************************************)
(* The name spaces of the three FUSE file systems: task4/dummyfs.c,        *)
(* task5/memoryfs.c and task6/src/pssfs.c, and what the first two allocate *)
(* for the contents of files.                                              *)
(*                                                                         *)
(* A path is a sequence of names, the root is <<>>.  inode_map leads from  *)
(* a path to a cell (the heap object that holds the inode number; in pssfs *)
(* the struct inode_info), entry_map from a cell to a node.  Cell e and    *)
(* node e are made together.  In dummyfs, which searches the children of   *)
(* the root by name, inode_map stands for that search.                     *)
(*                                                                         *)
(* create and mkdir, and unlink and rename of pssfs are interleaved with   *)
(* other calls between every read and write of the counters and of the     *)
(* device; what they change of the tree is one step, as are the other      *)
(* calls and one operation of the hash maps.  Calls that return at a check *)
(* change nothing and are left out, and so are rename with flags 0, rmdir, *)
(* and mkdir of dummyfs, which return 0 and do nothing.  Sizes are in half *)
(* kilobytes.                                                              *)
(***************************************************************************)
EXTENDS Integers, Sequences, FiniteSets, SequencesExt

CONSTANTS
  Programs,     \* of "dummyfs", "memoryfs", "pssfs"
  Threads,
  Names,
  MaxDepth,     \* bound on the length of the path of a call
  MetaBlocks,   \* 8 * 2048 in block_distributor.c
  MaxChildren,  \* 256 in dummyfs.c
  MaxFile,      \* TEN_MIB, FIVE_MIB in dummyfs.c
  Budget,       \* FOUR_GB (in pssfs FS_SIZE), less what the root directory took
  EntrySize,    \* of the inode, the key, the node and the name of a new entry
  KeySize,      \* of the key of a path that an entry is moved to
  Sizes,        \* that files are written and truncated to
  MaxCalls      \* bound on the number of calls

ASSUME BoundsAssumption ==
  /\ Programs \subseteq {"dummyfs", "memoryfs", "pssfs"}
  /\ {MaxDepth, MetaBlocks, MaxChildren, MaxFile} \subseteq Nat \ {0}
  /\ MaxFile > 1 /\ IsFiniteSet(Threads)
  /\ {Budget, EntrySize, KeySize, MaxCalls} \subseteq Nat /\ Sizes \subseteq Nat \ {0}

VARIABLES
  program,
  cur_inode, inode_count,  \* struct dummyfs
  inode_map, cell, entry_map, node,
  meta,                    \* the meta blocks that are marked
  total,                   \* total_bytes
  image,                   \* the inode table and the meta bitmap on the device
  pc, path, origin, kind,  \* of each thread: its place, the paths it works on
  counter, read, got,      \* (one, or two of a rename), what it makes, the
  walked,                  \* counter it is at, what it read from that, what
                           \* it got for its cell, what it is about to save
  fault, calls,
  lost,                    \* what an update was lost of
  exchanged                \* an exchange left names and paths different

tables  == <<inode_map, cell, entry_map, node>>
numbers == <<cur_inode, inode_count, meta>>
thread  == <<pc, path, origin, kind, counter, read, got, walked>>
ghosts  == <<lost, exchanged>>
vars    == <<program, tables, numbers, total, image, thread, fault, calls, ghosts>>

Root     == <<>>
KB       == 2
NewPaths == UNION {[1 .. n -> Names] : n \in 1 .. MaxDepth}
Paths    == DOMAIN inode_map
Cells    == DOMAIN cell

\* dummyfs_entry_search(fs, dummyfs_inode_search(fs, p))
Entry(p) == entry_map[inode_map[p]]
IsDir(p) == p \in Paths /\ node[Entry(p)].kind = "dir"
IsFile(p) == p \in Paths /\ node[Entry(p)].kind = "file"
\* The children are node pointers in memoryfs and inode pointers in pssfs.
Child(c) == IF program = "pssfs" THEN entry_map[c] ELSE c
\* The inode table: a path, a number and a meta block per row.
Rows(map) == [p \in DOMAIN map |-> cell[map[p]]]
Table == Rows(inode_map)

\* busy is the spin lock.  denied: it was not released; bare: there was no
\* memory for the first kilobyte; id: which object this is.
NewNode(name, k, id) ==
  [ name |-> name, kind |-> k, nlink |-> IF k = "dir" THEN 2 ELSE 1,
    children |-> <<>>, size |-> 0, allocated |-> 0, room |-> 0,
    busy |-> FALSE, denied |-> FALSE, bare |-> FALSE, id |-> id ]

\* The files that dummyfs starts with.
FirstFiles == IF program = "dummyfs" THEN << "matrix.out", "hello" >> ELSE <<>>

Init ==
  /\ program \in Programs
  /\ LET n == Len(FirstFiles)
     IN  /\ cur_inode = IF program = "dummyfs" THEN n ELSE 1
         /\ inode_map = [p \in {Root} \cup {<<FirstFiles[i]>> : i \in 1 .. n} |->
                           IF p = Root THEN 1
                           ELSE 1 + CHOOSE i \in 1 .. n : FirstFiles[i] = p[1]]
         /\ cell = [e \in 1 .. n + 1 |-> [number |-> e - 1, block |-> 0]]
         /\ entry_map = [e \in 1 .. n + 1 |-> e]
         /\ node = [e \in 1 .. n + 1 |->
                      IF e = 1
                        THEN [NewNode("/", "dir", 1) EXCEPT
                                !.children = [i \in 1 .. n |-> i + 1]]
                        ELSE [NewNode(FirstFiles[e - 1], "file", e) EXCEPT
                                !.room = MaxFile]]
  /\ inode_count = 1 /\ meta = {0} /\ total = 0
  /\ image = [table |-> Table, count |-> 1, meta |-> {0}]
  /\ pc = [t \in Threads |-> "idle"]
  /\ path = [t \in Threads |-> Root] /\ origin = [t \in Threads |-> Root]
  /\ kind = [t \in Threads |-> "none"]
  /\ counter = [t \in Threads |-> 1] /\ read = [t \in Threads |-> 0]
  /\ got = [t \in Threads |-> [number |-> 0, block |-> 0]]
  /\ walked = [t \in Threads |-> << >>]
  /\ fault = "none" /\ calls = 0
  /\ lost = {} /\ exchanged = FALSE

-----------------------------------------------------------------------------

\* A call begins.  After an exchange that left names and paths different, and
\* after two cells got the same number, no further call is modelled.
Call ==
  /\ fault = "none" /\ calls < MaxCalls /\ calls' = calls + 1
  /\ ~exchanged /\ "number" \notin lost

\* External: the kernel holds a directory while an entry of it is made, removed
\* or renamed, and libfuse the paths that lead there.
Admitted(p) ==
  \A t \in Threads : pc[t] # "idle" =>
    \A q \in {path[t], origin[t]} :
      Front(q) # Front(p) /\ ~IsPrefix(p, q) /\ ~IsPrefix(q, p)

-----------------------------------------------------------------------------
(* create and mkdir *)

\* The call returns and its local variables are gone.
Return(t) ==
  /\ pc' = [pc EXCEPT ![t] = "idle"]
  /\ path' = [path EXCEPT ![t] = Root] /\ origin' = [origin EXCEPT ![t] = Root]
  /\ kind' = [kind EXCEPT ![t] = "none"]
  /\ counter' = [counter EXCEPT ![t] = 1] /\ walked' = [walked EXCEPT ![t] = << >>]
  /\ got' = [got EXCEPT ![t] = [number |-> 0, block |-> 0]]

\* The checks, and the spin lock of the directory.
Begin(t) ==
  /\ Call
  /\ pc[t] = "idle"
  /\ \E p \in NewPaths \ Paths, k \in {"file", "dir"} :
       /\ IsDir(Front(p)) /\ Admitted(p)
       /\ program = "dummyfs" => k = "file"
       /\ ~node[Entry(Front(p))].busy
       /\ node' = [node EXCEPT ![Entry(Front(p))].busy = program # "dummyfs"]
       /\ path' = [path EXCEPT ![t] = p] /\ origin' = [origin EXCEPT ![t] = p]
       /\ kind' = [kind EXCEPT ![t] = k]
  /\ pc' = [pc EXCEPT ![t] = "load"]
  /\ UNCHANGED <<program, inode_map, cell, entry_map, numbers, total, image, counter,
                 read, got, walked, fault, ghosts>>

\* What inode_add reads and writes back, in this order.
Counters == IF program = "pssfs" THEN << "block", "number", "count" >> ELSE << "number" >>
Counter(t) == Counters[counter[t]]

\* Slips: the search goes one block too far; it ends one block too early.
FreeBlocksOneMore == (0 .. MetaBlocks) \ meta
FreeBlocksButLast == (0 .. MetaBlocks - 2) \ meta
FreeBlocks == (0 .. MetaBlocks - 1) \ meta
FirstFree  == CHOOSE b \in FreeBlocks : \A c \in FreeBlocks : b <= c

\* exit(13) when no meta block is free.
Load(t) ==
  /\ fault = "none" /\ pc[t] = "load"
  /\ \/ /\ Counter(t) = "block" /\ FreeBlocks = {}
        /\ fault' = "exit"
        /\ UNCHANGED <<pc, read>>
     \/ /\ Counter(t) = "block" => FreeBlocks # {}
        /\ read' = [read EXCEPT ![t] = CASE Counter(t) = "block"  -> FirstFree
                                          [] Counter(t) = "number" -> cur_inode
                                          [] Counter(t) = "count"  -> inode_count]
        /\ pc' = [pc EXCEPT ![t] = "store"]
        /\ UNCHANGED fault
  /\ UNCHANGED <<program, tables, numbers, total, image, path, origin, kind, counter, got,
                 walked, calls, ghosts>>

\* Another thread has read this and will write back what it makes of it.
Stale(t, what) ==
  \E u \in Threads \ {t} :
    \/ pc[u] = "store" /\ Counter(u) = what
    \/ pc[u] = "sub" /\ what = "count"
    \/ pc[u] = "write" /\ what = "table"
Updated(t, what) == IF Stale(t, what) THEN {what} ELSE {}

\* Slip: the block is found and not marked.
StoreUnmarked(t) ==
  /\ cur_inode' = IF Counter(t) = "number" THEN read[t] + 1 ELSE cur_inode
  /\ inode_count' = IF Counter(t) = "count" THEN read[t] + 1 ELSE inode_count
  /\ UNCHANGED meta
WriteBack(t) ==
  /\ cur_inode' = IF Counter(t) = "number" THEN read[t] + 1 ELSE cur_inode
  /\ inode_count' = IF Counter(t) = "count" THEN read[t] + 1 ELSE inode_count
  /\ meta' = IF Counter(t) = "block" THEN meta \cup {read[t]} ELSE meta

\* dummyfs increments first and then reads the number.
Store(t) ==
  /\ fault = "none" /\ pc[t] = "store"
  /\ WriteBack(t)
  /\ got' = CASE Counter(t) = "block"  -> [got EXCEPT ![t].block = read[t]]
              [] Counter(t) = "number" -> [got EXCEPT ![t].number =
                                             IF program = "dummyfs" THEN read[t] + 1 ELSE read[t]]
              [] Counter(t) = "count"  -> got
  /\ lost' = lost \cup Updated(t, Counter(t))
  /\ read' = [read EXCEPT ![t] = 0]
  /\ IF counter[t] = Len(Counters)
       THEN pc' = [pc EXCEPT ![t] = "add"] /\ UNCHANGED counter
       ELSE /\ pc' = [pc EXCEPT ![t] = "load"]
            /\ counter' = [counter EXCEPT ![t] = @ + 1]
  /\ UNCHANGED <<program, tables, total, image, path, origin, kind, walked, fault, calls,
                 exchanged>>

\* The keys of entry_map are 8 bytes at the cell, of which the last 4 are not
\* initialised.  With another cell of the same number they may be equal; what
\* the map then does is not in this repository.
EntryMaps(c) ==
  LET e    == Len(cell) + 1
      same == {d \in Cells : cell[d].number = c.number}
  IN  {[d \in Cells \cup {e} |-> IF d \in new \cup {e} THEN e ELSE entry_map[d]] :
          new \in SUBSET same}
      \cup {[d \in Cells \cup {e} |-> IF d = e THEN entry_map[f] ELSE entry_map[d]] :
          f \in same}

\* dummyfs_allocate refuses, which no caller checks.
NoMemory(size) == program # "dummyfs" /\ total + size > Budget

\* The contents of a new file: malloc(FIVE_MIB), dummyfs_allocate(ONE_KB) after
\* the other objects, or none.
Contents(t) ==
  CASE kind[t] = "dir" \/ program = "pssfs" -> [room |-> 0, allocated |-> 0, bare |-> FALSE]
    [] kind[t] = "file" /\ program = "dummyfs" ->
         [room |-> MaxFile, allocated |-> 0, bare |-> FALSE]
    [] kind[t] = "file" /\ program = "memoryfs" ->
         IF NoMemory(EntrySize + KB) THEN [room |-> 0, allocated |-> KB, bare |-> TRUE]
                                ELSE [room |-> KB, allocated |-> KB, bare |-> FALSE]

\* Slip: mkdir leaves the directory locked.
ClearedByCreate(t) == kind[t] = "dir"
\* atomic_flag_clear of the parent's lock.
Cleared(t) == FALSE

\* dummyfs has 256 children and never uses the place of a removed one again.  An
\* inode, key, node or name for which there is no memory is written to at NULL.
Add(t) ==
  /\ fault = "none" /\ pc[t] = "add"
  /\ LET e      == Len(cell) + 1
         parent == Entry(Front(path[t]))
         c      == Contents(t)
     IN  \/ /\ program = "dummyfs" /\ Len(node[parent].children) = MaxChildren
            /\ fault' = "overrun"
            /\ UNCHANGED <<tables, total, pc, path, origin, kind, counter, got, walked>>
         \/ /\ NoMemory(EntrySize)
            /\ fault' = "segv"
            /\ UNCHANGED <<tables, total, pc, path, origin, kind, counter, got, walked>>
         \/ /\ ~NoMemory(EntrySize)
            /\ program = "dummyfs" => Len(node[parent].children) < MaxChildren
            /\ inode_map' = [p \in Paths \cup {path[t]} |->
                               IF p = path[t] THEN e ELSE inode_map[p]]
            /\ cell' = Append(cell, got[t])
            /\ entry_map' \in EntryMaps(got[t])
            /\ node' = Append([node EXCEPT ![parent].children = Append(@, e),
                                           ![parent].busy = Cleared(t)],
                              [NewNode(Last(path[t]), kind[t], e) EXCEPT
                                 !.room = c.room, !.allocated = c.allocated, !.bare = c.bare])
            /\ total' = IF program = "dummyfs" THEN total ELSE total + EntrySize + c.room
            /\ IF program = "pssfs"
                 THEN /\ pc' = [pc EXCEPT ![t] = "save"]
                      /\ UNCHANGED <<path, origin, kind, counter, got, walked>>
                 ELSE Return(t)
            /\ UNCHANGED fault
  /\ UNCHANGED <<program, numbers, image, read, calls, ghosts>>

\* serialize_inodes walks over inode_map and then has written it.
Walk(t) ==
  /\ fault = "none" /\ pc[t] = "save"
  /\ walked' = [walked EXCEPT ![t] = <<Table, inode_count>>]
  /\ pc' = [pc EXCEPT ![t] = "write"]
  /\ UNCHANGED <<program, tables, numbers, total, image, path, origin, kind, counter, read, got,
                 fault, calls, ghosts>>

\* Slip: the meta bitmap is not serialised.
WrittenTable(t) == [image EXCEPT !.table = walked[t][1], !.count = walked[t][2]]
\* Calls that make nothing do not serialise the meta bitmap.
Written(t) == [table |-> walked[t][1], count |-> walked[t][2],
               meta |-> IF kind[t] = "none" THEN image.meta ELSE meta]

\* The table and the meta bitmap are on the device; the call returns.
Save(t) ==
  /\ fault = "none" /\ pc[t] = "write"
  /\ image' = Written(t)
  /\ lost' = lost \cup Updated(t, "table")
  /\ Return(t)
  /\ UNCHANGED <<program, tables, numbers, total, read, fault, calls, exchanged>>

-----------------------------------------------------------------------------
(* The other calls *)

\* What a call that runs alone on a path needs.
Alone(p) == Call /\ Admitted(p)

\* A thread that was idle is at a place in a call that works on two paths.
Enters(t, place, new, old) ==
  /\ pc[t] = "idle"
  /\ pc' = [pc EXCEPT ![t] = place]
  /\ path' = [path EXCEPT ![t] = new] /\ origin' = [origin EXCEPT ![t] = old]
  /\ UNCHANGED <<kind, counter, read, got, walked>>

\* memoryfs and dummyfs keep everything of a removed file but its link count.
UnlinkKept(p) ==
  /\ program \in {"memoryfs", "dummyfs"}
  /\ node' = [node EXCEPT ![Entry(p)].nlink = 0]
  /\ UNCHANGED <<inode_map, thread>>

\* pssfs erases the path; it does not find the entry, for which it searches with
\* a key of 4 bytes, and never frees a meta block.
UnlinkErased(p) ==
  /\ program = "pssfs"
  /\ ~node[Entry(Front(p))].busy
  /\ node' = [node EXCEPT ![Entry(p)].nlink = 0,
                         ![Entry(Front(p))].children = RemoveFirst(@, inode_map[p]),
                         ![Entry(Front(p))].busy = TRUE]
  /\ inode_map' = [q \in Paths \ {p} |-> inode_map[q]]
  /\ \E t \in Threads : Enters(t, "dec", p, p)

Unlink ==
  \E p \in Paths :
    /\ IsFile(p) /\ Alone(p)
    /\ ~node[Entry(p)].busy /\ node[Entry(p)].nlink > 0
    /\ UnlinkKept(p) \/ UnlinkErased(p)
    /\ UNCHANGED <<program, cell, entry_map, numbers, total, image, fault, ghosts>>

\* inode_count-- of unlink, which reads ...
LoadCount(t) ==
  /\ fault = "none" /\ pc[t] = "dec"
  /\ read' = [read EXCEPT ![t] = inode_count]
  /\ pc' = [pc EXCEPT ![t] = "sub"]
  /\ UNCHANGED <<program, tables, numbers, total, image, path, origin, kind, counter, got,
                 walked, fault, calls, ghosts>>

\* ... and writes back, before the directory is unlocked and the table saved.
StoreCount(t) ==
  /\ fault = "none" /\ pc[t] = "sub"
  /\ inode_count' = read[t] - 1
  /\ lost' = lost \cup Updated(t, "count")
  /\ read' = [read EXCEPT ![t] = 0]
  /\ node' = [node EXCEPT ![Entry(Front(path[t]))].busy = Cleared(t)]
  /\ pc' = [pc EXCEPT ![t] = "save"]
  /\ UNCHANGED <<program, inode_map, cell, entry_map, cur_inode, meta, total, image, path,
                 origin, kind, counter, got, walked, fault, calls, exchanged>>

\* Slip: the old path stays.
ReboundKept(map, old, new) ==
  [p \in DOMAIN map \cup {new} |-> IF p = new THEN map[old] ELSE map[p]]
\* inode_add_explicit of the new path and erase of the old one.
Rebound(map, old, new) ==
  [p \in (DOMAIN map \ {old}) \cup {new} |-> IF p = new THEN map[old] ELSE map[p]]

\* The names r lead from node e to a child, from that to a child, ...
Leads(e, r) ==
  \E at \in [0 .. Len(r) -> Cells] :
    /\ at[0] = e
    /\ \A i \in 1 .. Len(r) :
         /\ at[i] \in {Child(c) : c \in Range(node[at[i - 1]].children)}
         /\ node[at[i]].name = r[i]

Rest(p, old) == SubSeq(p, Len(old) + 1, Len(p))
Relocated(p, old, new) == new \o Rest(p, old)
Below(map, e, old) == {p \in DOMAIN map : IsStrictPrefix(old, p) /\ Leads(e, Rest(p, old))}
Moved(map, below, old, new) ==
  [p \in (DOMAIN map \ below) \cup {Relocated(q, old, new) : q \in below} |->
     IF IsPrefix(new, p) /\ Relocated(p, new, old) \in below
       THEN map[Relocated(p, new, old)] ELSE map[p]]

\* Slip: no recursion.
RenameSubdirsOnce(map, e, old, new) ==
  Moved(map, {p \in Below(map, e, old) : Len(p) = Len(old) + 1}, old, new)
\* rename_subdirs: what is found below node e, by the names of its children and of
\* theirs, leaves `old` for `new`.  Where the containers disagree the code stops
\* at a path that is not there; PathsAgree says that this does not happen.
RenameSubdirs(map, e, old, new) == Moved(map, Below(map, e, old), old, new)

\* With RENAME_NOREPLACE.  Every path that moves takes memory for its new key.
Rename ==
  \E old \in Paths \ {Root}, new \in NewPaths \ Paths :
    /\ program \in {"memoryfs", "pssfs"}
    /\ IsDir(Front(new)) /\ ~IsPrefix(old, new)
    /\ Alone(old) /\ Admitted(new)
    /\ LET o    == Entry(old)
           ref  == IF program = "pssfs" THEN inode_map[old] ELSE o
           keys == KeySize * (1 + Cardinality(Below(Rebound(inode_map, old, new), o, old)))
           removed  == [node EXCEPT ![Entry(Front(old))].children = RemoveFirst(@, ref)]
           appended == [removed EXCEPT ![Entry(Front(new))].children = Append(@, ref)]
       IN  \/ /\ NoMemory(keys)
              /\ fault' = "segv"
              /\ UNCHANGED <<node, inode_map, total, thread>>
           \/ /\ ~NoMemory(keys)
              /\ node' = [appended EXCEPT ![o].name = Last(new)]
              /\ inode_map' = RenameSubdirs(Rebound(inode_map, old, new), o, old, new)
              /\ total' = total + keys
              /\ \/ program = "memoryfs" /\ UNCHANGED thread
                 \/ program = "pssfs" /\ \E t \in Threads : Enters(t, "save", new, old)
              /\ UNCHANGED fault
    /\ UNCHANGED <<program, cell, entry_map, numbers, image, ghosts>>

\* With RENAME_EXCHANGE the nodes are swapped as they are, the names of the two
\* objects and the children included.
Exchange ==
  \E p, q \in Paths \ {Root} :
    /\ program \in {"memoryfs", "pssfs"}
    /\ ~IsPrefix(p, q) /\ ~IsPrefix(q, p)
    /\ Alone(p) /\ Admitted(q)
    /\ node' = [node EXCEPT ![Entry(p)] = node[Entry(q)], ![Entry(q)] = node[Entry(p)]]
    /\ exchanged' = \/ Last(p) # Last(q)
                    \/ node[Entry(p)].children # <<>> \/ node[Entry(q)].children # <<>>
    /\ UNCHANGED <<program, inode_map, cell, entry_map, numbers, total, image, thread, fault,
                   lost>>

-----------------------------------------------------------------------------
(* write and truncate of dummyfs and memoryfs; in pssfs they change no names *)

Larger(a, b) == IF a < b THEN b ELSE a

\* dummyfs_reallocate refuses.
Refused(old, size) == size > old /\ total + size - old > Budget

\* Slip: what is given back is not what was counted.
ReallocatedRoom(e, size, n) ==
  /\ node' = [node EXCEPT ![e].room = n, ![e].allocated = n, ![e].size = size]
  /\ total' = IF n > node[e].allocated THEN total + n - node[e].allocated
                                       ELSE total - node[e].allocated
\* dummyfs_reallocate: allocated_size, which may differ from the room there is,
\* goes to the account.
Reallocated(e, size, n) ==
  /\ node' = [node EXCEPT ![e].room = n, ![e].allocated = n, ![e].size = size]
  /\ total' = total + n - node[e].allocated

\* The call returns an error with the node locked.
Deny(e) ==
  /\ node' = [node EXCEPT ![e].busy = TRUE, ![e].denied = TRUE]
  /\ UNCHANGED <<total, fault>>

\* Beyond st_size only: a write within it moves no size.  allocated_size becomes
\* the size also when the buffer is larger, and a buffer that could not be
\* allocated is written to.
WriteMemory(e, to) ==
  /\ program = "memoryfs" /\ node[e].nlink > 0 /\ to > node[e].size
  /\ LET old == node[e].allocated
     IN  \/ /\ to > MaxFile \/ Refused(old, to)
            /\ Deny(e)
         \/ /\ to <= MaxFile /\ to > old /\ ~Refused(old, to)
            /\ Reallocated(e, to, to) /\ UNCHANGED fault
         \/ /\ to <= MaxFile /\ to <= old
            /\ node' = [node EXCEPT ![e].allocated = to, ![e].size = to]
            /\ fault' = IF node[e].room = 0 THEN "segv" ELSE fault
            /\ UNCHANGED total

TruncateMemory(e, to) ==
  /\ program = "memoryfs"
  /\ LET n == Larger(to, KB)
     IN  \/ /\ to > MaxFile \/ Refused(node[e].allocated, n)
            /\ Deny(e)
         \/ /\ to <= MaxFile /\ ~Refused(node[e].allocated, n)
            /\ Reallocated(e, to, n) /\ UNCHANGED fault

\* dummyfs checks no limit when it writes.
WriteDummy(e, to) ==
  /\ program = "dummyfs" /\ node[e].nlink > 0 /\ to > node[e].size
  /\ IF to > node[e].room
       THEN fault' = "overrun" /\ UNCHANGED node
       ELSE node' = [node EXCEPT ![e].size = to] /\ UNCHANGED fault
  /\ UNCHANGED total

TruncateDummy(e, to) ==
  /\ program = "dummyfs" /\ to <= node[e].size
  /\ node' = [node EXCEPT ![e].size = to]
  /\ UNCHANGED <<total, fault>>

Resize ==
  \E p \in Paths, to \in Sizes :
    /\ Call
    /\ IsFile(p) /\ ~node[Entry(p)].busy
    /\ \A t \in Threads : pc[t] # "idle" => path[t] # p
    /\ \/ WriteMemory(Entry(p), to) \/ TruncateMemory(Entry(p), to)
       \/ WriteDummy(Entry(p), to) \/ TruncateDummy(Entry(p), to)
    /\ UNCHANGED <<program, inode_map, cell, entry_map, numbers, image, thread, ghosts>>

-----------------------------------------------------------------------------

Next ==
  \/ \E t \in Threads : Begin(t) \/ Load(t) \/ Store(t) \/ Add(t) \/ Walk(t) \/ Save(t)
  \/ \E t \in Threads : LoadCount(t) \/ StoreCount(t)
  \/ Unlink \/ Rename \/ Exchange \/ Resize

Spec == Init /\ [][Next]_vars

-----------------------------------------------------------------------------

\* Every variable has its type.
TypeOK ==
  /\ program \in Programs /\ cur_inode \in Nat /\ inode_count \in Int
  /\ Len(cell) = Len(node) /\ DOMAIN entry_map = Cells
  /\ \A e \in Cells : cell[e].number \in Nat /\ cell[e].block \in 0 .. MetaBlocks - 1
  /\ \A p \in Paths : inode_map[p] \in Cells /\ entry_map[inode_map[p]] \in Cells
  /\ \A e \in Cells : \A i \in DOMAIN node[e].children : node[e].children[i] \in Cells
  /\ \A e \in Cells : {node[e].size, node[e].allocated, node[e].room} \subseteq 0 .. MaxFile
  /\ \A e \in Cells : node[e].kind = "file" => node[e].children = <<>>
  /\ meta \subseteq 0 .. MetaBlocks - 1 /\ image.meta \subseteq 0 .. MetaBlocks - 1
  /\ total \in Nat
  /\ \A t \in Threads :
       /\ pc[t] \in {"idle", "load", "store", "add", "dec", "sub", "save", "write"}
       /\ {path[t], origin[t]} \subseteq Seq(Names \cup {"/", "matrix.out", "hello"})
       /\ kind[t] \in {"none", "file", "dir"}
       /\ counter[t] \in 1 .. Len(Counters) /\ read[t] \in Int
  /\ fault \in {"none", "exit", "overrun", "segv"}
  /\ calls \in 0 .. MaxCalls
  /\ lost \subseteq {"block", "number", "count", "table"} /\ exchanged \in BOOLEAN

Listed(p) == {Append(p, node[Child(node[Entry(p)].children[i])].name) :
                i \in DOMAIN node[Entry(p)].children}

\* The three containers describe the same tree: what a path leads to has the
\* last name of the path and is the child of what its parent path leads to,
\* once, and each child is found under its name.  rename keeps this for whole
\* subtrees (rename_subdirs); RENAME_EXCHANGE of objects with different names
\* or with children does not, nor do two creates that draw the same number.
PathsAgree ==
  exchanged \/ "number" \in lost \/
    \A p \in Paths :
      /\ p # Root =>
           /\ IsDir(Front(p)) /\ p \in Listed(Front(p))
           /\ node[Entry(p)].name = Last(p)
      /\ Listed(p) \subseteq Paths
      /\ \A i \in DOMAIN node[Entry(p)].children :
           Child(node[Entry(p)].children[i])
             = Entry(Append(p, node[Child(node[Entry(p)].children[i])].name))
      /\ IsInjective(node[Entry(p)].children)

\* Inode numbers are never given twice, nor are meta blocks, also not those of
\* removed files, and the count of the inode table is the number of its rows,
\* save for the rows that a call has added or erased and not yet counted, unless
\* two threads in different directories lost an update of just that
\* (dummyfs_inode_add, and inode_count-- of dummyfs_unlink).
CountersAgree ==
  /\ "number" \in lost \/ \A d, e \in Cells : cell[d].number = cell[e].number => d = e
  /\ program = "pssfs" =>
       /\ "block" \in lost \/
            /\ \A d, e \in Cells : cell[d].block = cell[e].block => d = e
            /\ \A e \in Cells : cell[e].block \in meta
       /\ "count" \in lost \/
            inode_count = Cardinality(Paths) +
                            Cardinality({t \in Threads : pc[t] \in {"add", "dec", "sub"}})

\* When no call is under way, the device holds the inode table and the meta
\* bitmap that are in memory, unless one thread saved between another's walk
\* over the map and the end of its writing (serialize_inodes has no lock).
ImageCurrent ==
  program = "pssfs" /\ fault = "none" /\ (\A t \in Threads : pc[t] = "idle") =>
    "table" \in lost \/ image = [table |-> Table, count |-> inode_count, meta |-> meta]

Rooms == FoldLeft(LAMBDA sum, x : sum + x.room, 0, node)

\* The contents of a file never end behind its buffer, and all buffers are
\* within what was counted, whatever allocated_size says (memoryfs.c:718),
\* except for the first kilobyte of a file that was created without one.
ContentsBacked ==
  /\ fault = "none" => \A e \in Cells : node[e].size <= node[e].room
  /\ program = "memoryfs" =>
       Rooms <= total + KB * Cardinality({e \in Cells : node[e].bare})

\* A node is locked only by the thread that makes or removes something in it, or for ever
\* after write or truncate returned with an error (memoryfs.c:623, 633, 706, 712).
BusyHeldOrDenied ==
  \A e \in Cells : node[e].busy =>
    \/ node[e].denied
    \/ \E t \in Threads : /\ pc[t] \in {"load", "store", "add", "dec", "sub"}
                          /\ e = Entry(Front(path[t]))

\* pssfs gives up only when as many objects were made as there are meta blocks,
\* removed ones included (pssfs.c:67).  An allocation that nobody checks ends
\* a process only when the memory is used up for a new entry or for the keys of
\* the paths that move, at most all of them (memoryfs.c:77-91, 119, 173), or in
\* memoryfs when a file was made without its first kilobyte (memoryfs.c:126).
FaultExplained ==
  /\ fault = "exit" =>
       Len(cell) + Cardinality({t \in Threads : pc[t] \in {"load", "store", "add"}})
         > MetaBlocks
  /\ fault = "segv" =>
       \/ NoMemory(EntrySize) \/ NoMemory(KeySize * Cardinality(Paths))
       \/ program = "memoryfs" /\ \E e \in Cells : node[e].bare

-----------------------------------------------------------------------------
(* What this is a name space of *)

Live == {p \in Paths : node[Entry(p)].nlink > 0}
Tree == [p \in Live |-> [id |-> node[Entry(p)].id, kind |-> node[Entry(p)].kind]]

AsTree == INSTANCE NameSpace WITH
           Root <- Root, tree <- Tree, sound <- ~exchanged /\ "number" \notin lost

\* Every call of the three file systems changes the tree that paths lead to by
\* one entry or one subtree, in one step, or not at all (create, mkdir, unlink,
\* rename), while the promises of PathsAgree hold.
ChangesOneEntry == AsTree!Spec
=============================================================================
