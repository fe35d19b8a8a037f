--------------------------- MODULE PssfsFiles_proofs ---------------------------
(***************************************************************************)
(* Proofs about PssfsFiles, for any threads, files, sizes and outcomes of  *)
(* the distributor: the locks, what reaches the device, the types (the     *)
(* copy loop stays within the file), and what a read returns: what was     *)
(* written last, wherever the read and that write kept their place in      *)
(* their buffers.                                                          *)
(***************************************************************************)
EXTENDS PssfsFiles, FoldLemmas, TLAPS

USE DEF asked

FileCalls == {"read", "write", "truncate"}

Places == {"idle", "lock", "lockdir", "check", "fslock", "alloc", "copy",
           "realloc", "add", "remove", "unlock", "save", "savebps"}

\* What a call can be.
LEMMA CallShape ==
  \A c \in Calls \cup {NoCall} :
    /\ c.file \in Nodes
    /\ c.op \in FileCalls \cup {"unlink", "create"} => c.file \in Files
    /\ c.op \in {"create", "unlink", "readdir", "read", "write", "truncate", "none"}
    /\ c.op = "readdir" => c.file = Dir
BY DEF Calls, NoCall, Nodes, FileCalls

-----------------------------------------------------------------------------
(* The locks.  PlaceInv says which calls come to which place, so that the  *)
(* locks a call clears are the ones it took.                               *)

PlaceInv(t) ==
  /\ pc[t] = "lock" => OnFile(t)
  /\ pc[t] \in {"check", "fslock", "alloc", "copy", "realloc"}
       => call[t].op \in FileCalls
  /\ pc[t] = "lockdir" => OnDir(t)
  /\ pc[t] = "add" => call[t].op = "create"
  /\ pc[t] = "remove" => call[t].op = "unlink"
  /\ pc[t] = "unlock" => OnFile(t) \/ OnDir(t)

HeldInv(t) ==
  /\ \A n \in HeldBy(t) : busy[n]
  /\ pc[t] = "alloc" => fsBusy

LockInv ==
  /\ pc \in [Threads -> Places]
  /\ call \in [Threads -> Calls \cup {NoCall}]
  /\ busy \in [Nodes -> BOOLEAN] /\ fsBusy \in BOOLEAN
  /\ \A t \in Threads : PlaceInv(t)
  /\ \A t \in Threads : HeldInv(t)
  /\ NodeExclusive

\* No lock is held at first.
LEMMA InitLock == Init => LockInv
<1> SUFFICES ASSUME Init PROVE LockInv
  OBVIOUS
<1>1. \A t \in Threads : pc[t] = "idle" /\ call[t] = NoCall
  BY DEF Init
<1>2. \A t \in Threads : HeldBy(t) = {}
  BY <1>1 DEF HeldBy
<1>3. pc \in [Threads -> Places] /\ call \in [Threads -> Calls \cup {NoCall}]
  BY DEF Init, Places
<1>4. busy \in [Nodes -> BOOLEAN] /\ fsBusy \in BOOLEAN
  BY DEF Init
<1>5. \A t \in Threads : PlaceInv(t) /\ HeldInv(t)
  BY <1>1, <1>2 DEF PlaceInv, HeldInv
<1>6. NodeExclusive
  BY <1>1, <1>2 DEF NodeExclusive
<1> QED
  BY <1>3, <1>4, <1>5, <1>6 DEF LockInv

\* What a step of one thread has to show about that thread alone: it comes to
\* hold only what was free, and frees only what it held.
LEMMA Frame ==
  ASSUME LockInv, NEW t \in Threads, NEW l \in Places, NEW c \in Calls \cup {NoCall},
         pc' = [pc EXCEPT ![t] = l], call' = [call EXCEPT ![t] = c],
         busy' \in [Nodes -> BOOLEAN], fsBusy' \in BOOLEAN,
         PlaceInv(t)',
         \A n \in HeldBy(t)' : busy'[n] /\ (n \in HeldBy(t) \/ ~busy[n]),
         \A n \in Nodes : busy[n] => busy'[n] \/ n \in HeldBy(t),
         l = "alloc" => fsBusy' /\ ~fsBusy,
         fsBusy => fsBusy' \/ pc[t] = "alloc"
  PROVE  LockInv'
<1>1. pc' \in [Threads -> Places] /\ call' \in [Threads -> Calls \cup {NoCall}]
  BY DEF LockInv
<1>2. pc'[t] = l /\ call'[t] = c
  BY DEF LockInv
<1>3. ASSUME NEW u \in Threads, u # t
      PROVE  pc'[u] = pc[u] /\ call'[u] = call[u]
  BY <1>3 DEF LockInv
<1>4. ASSUME NEW u \in Threads, u # t
      PROVE  HeldBy(u)' = HeldBy(u) /\ PlaceInv(u)'
  BY <1>3, <1>4 DEF HeldBy, PlaceInv, OnFile, OnDir, LockInv
<1>5. ASSUME NEW u \in Threads, u # t
      PROVE  HeldBy(u) \cap HeldBy(t) = {} /\ ~(pc[u] = "alloc" /\ pc[t] = "alloc")
  BY <1>5 DEF LockInv, NodeExclusive
<1>6. ASSUME NEW u \in Threads, u # t
      PROVE  HeldInv(u)'
  <2>1. HeldInv(u) /\ HeldBy(u) \subseteq Nodes
    BY DEF LockInv, HeldBy
  <2> QED
    BY <1>3, <1>4, <1>5, <1>6, <2>1 DEF HeldInv
<1>7. HeldInv(t)'
  BY <1>2 DEF HeldInv
<1>8. ASSUME NEW u \in Threads, u # t
      PROVE  /\ HeldBy(u)' \cap HeldBy(t)' = {}
             /\ ~(pc'[u] = "alloc" /\ pc'[t] = "alloc")
  <2>1. HeldInv(u)
    BY DEF LockInv
  <2> QED
    BY <1>2, <1>3, <1>4, <1>5, <1>8, <2>1 DEF HeldInv
<1>9. ASSUME NEW u \in Threads, NEW v \in Threads, u # v
      PROVE  /\ HeldBy(u)' \cap HeldBy(v)' = {}
             /\ ~(pc'[u] = "alloc" /\ pc'[v] = "alloc")
  <2>1. CASE u = t
    BY <1>8, <1>9, <2>1
  <2>2. CASE v = t
    BY <1>8, <1>9, <2>2
  <2>3. CASE u # t /\ v # t
    BY <1>3, <1>4, <1>9, <2>3 DEF LockInv, NodeExclusive
  <2> QED
    BY <2>1, <2>2, <2>3
<1>10. NodeExclusive'
  BY <1>9 DEF NodeExclusive
<1>11. \A u \in Threads : PlaceInv(u)' /\ HeldInv(u)'
  BY <1>4, <1>6, <1>7
<1> QED
  BY <1>1, <1>10, <1>11 DEF LockInv

\* A step that leaves the locks alone and comes to hold nothing.
LEMMA Quiet ==
  ASSUME LockInv, NEW t \in Threads, NEW l \in Places \ {"alloc"},
         NEW c \in Calls \cup {NoCall},
         pc' = [pc EXCEPT ![t] = l], call' = [call EXCEPT ![t] = c],
         UNCHANGED locks, PlaceInv(t)', HeldBy(t)' \subseteq HeldBy(t)
  PROVE  LockInv'
<1>1. /\ busy' \in [Nodes -> BOOLEAN] /\ fsBusy' \in BOOLEAN
      /\ \A n \in Nodes : busy[n] => busy'[n] \/ n \in HeldBy(t)
      /\ fsBusy => fsBusy'
  BY DEF LockInv, locks
<1>2. \A n \in HeldBy(t)' : busy'[n] /\ (n \in HeldBy(t) \/ ~busy[n])
  BY DEF LockInv, HeldInv, locks
<1> QED
  BY <1>1, <1>2, Frame DEF Places

\* The same for a step that stays in its call.
LEMMA QuietGoto ==
  ASSUME LockInv, NEW t \in Threads, NEW l \in Places \ {"alloc"},
         Goto(t, l), UNCHANGED locks, PlaceInv(t)', HeldBy(t)' \subseteq HeldBy(t)
  PROVE  LockInv'
<1>1. call' = [call EXCEPT ![t] = call[t]] /\ call[t] \in Calls \cup {NoCall}
  BY DEF LockInv, Goto
<1> QED
  BY <1>1, Quiet DEF Goto

\* A return that touches no lock preserves LockInv.
LEMMA QuietReturn ==
  ASSUME LockInv, NEW t \in Threads, Return(t), UNCHANGED locks
  PROVE  LockInv'
<1>1. pc'[t] = "idle"
  BY DEF Return, LockInv
<1>2. PlaceInv(t)' /\ HeldBy(t)' = {}
  BY <1>1 DEF PlaceInv, HeldBy
<1>3. "idle" \in Places \ {"alloc"}
  BY DEF Places
<1> QED
  BY <1>2, <1>3, Quiet DEF Return

\* Taking a free lock preserves LockInv.
LEMMA Acquired ==
  ASSUME LockInv, NEW t \in Threads, NEW n \in Nodes, NEW l \in Places \ {"alloc"},
         Acquire(n), Goto(t, l), UNCHANGED fsBusy,
         PlaceInv(t)', HeldBy(t)' \subseteq HeldBy(t) \cup {n}
  PROVE  LockInv'
<1>1. call' = [call EXCEPT ![t] = call[t]] /\ call[t] \in Calls \cup {NoCall}
  BY DEF LockInv, Goto
<1>2. /\ busy' \in [Nodes -> BOOLEAN] /\ fsBusy' \in BOOLEAN
      /\ \A m \in Nodes : busy[m] => busy'[m]
      /\ fsBusy => fsBusy'
  BY DEF LockInv, Acquire
<1>3. HeldBy(t) \subseteq Nodes
  BY DEF HeldBy
<1>4. \A m \in HeldBy(t)' : busy'[m] /\ (m \in HeldBy(t) \/ ~busy[m])
  BY <1>3 DEF LockInv, HeldInv, Acquire
<1> QED
  BY <1>1, <1>2, <1>4, Frame DEF Places, Goto

\* A step of a thread preserves LockInv.
LEMMA StepLock ==
  ASSUME LockInv, NEW t \in Threads, Begin(t) \/ Step(t)
  PROVE  LockInv'
<1>0. /\ call[t] \in Calls \cup {NoCall} /\ pc[t] \in Places
      /\ PlaceInv(t)
      /\ call[t].file \in Nodes
  BY CallShape DEF LockInv
<1>p. \A l : Goto(t, l) => pc'[t] = l /\ call'[t] = call[t]
  BY DEF Goto, LockInv
<1>1. CASE Begin(t)
  <2>1. PICK c \in Calls :
          /\ call' = [call EXCEPT ![t] = c]
          /\ pc' = [pc EXCEPT ![t] =
                      IF c.op \in {"create", "readdir"} THEN "lockdir" ELSE "lock"]
    BY <1>1 DEF Begin
  <2>2. call'[t] = c /\ pc'[t] = IF c.op \in {"create", "readdir"} THEN "lockdir" ELSE "lock"
    BY <2>1 DEF LockInv
  <2>3. c.op \in {"create", "unlink", "readdir", "read", "write", "truncate"}
    BY DEF Calls
  <2>4. PlaceInv(t)'
    BY <2>2, <2>3 DEF PlaceInv, OnFile, OnDir
  <2>5. HeldBy(t)' = {}
    BY <2>2, <2>3 DEF HeldBy, OnFile
  <2>6. UNCHANGED locks
    BY <1>1 DEF Begin
  <2>7. "lock" \in Places \ {"alloc"} /\ "lockdir" \in Places \ {"alloc"}
    BY DEF Places
  <2>8. CASE c.op \in {"create", "readdir"}
    <3>1. pc' = [pc EXCEPT ![t] = "lockdir"]
      BY <2>1, <2>8
    <3> QED
      BY <2>1, <2>4, <2>5, <2>6, <2>7, <3>1, Quiet
  <2>9. CASE c.op \notin {"create", "readdir"}
    <3>1. pc' = [pc EXCEPT ![t] = "lock"]
      BY <2>1, <2>9
    <3> QED
      BY <2>1, <2>4, <2>5, <2>6, <2>7, <3>1, Quiet
  <2> QED
    BY <2>8, <2>9
<1>2. CASE Lock(t)
  <2> DEFINE l == IF call[t].op = "unlink" THEN "lockdir" ELSE "check"
  <2>1. pc[t] = "lock" /\ Acquire(call[t].file) /\ Goto(t, l) /\ UNCHANGED fsBusy
    BY <1>2 DEF Lock
  <2>2. OnFile(t) /\ pc'[t] = l /\ call'[t] = call[t]
    BY <1>0, <1>p, <2>1 DEF PlaceInv
  <2>3. PlaceInv(t)'
    BY <2>2 DEF PlaceInv, OnFile, OnDir, FileCalls
  <2>4. HeldBy(t)' \subseteq HeldBy(t) \cup {call[t].file}
    BY <2>2 DEF HeldBy
  <2>5. l \in Places \ {"alloc"}
    BY DEF Places
  <2> HIDE DEF l
  <2> QED
    BY <1>0, <2>1, <2>3, <2>4, <2>5, Acquired
<1>3. CASE LockDir(t)
  <2> DEFINE l == CASE call[t].op = "create" -> "add"
                    [] call[t].op = "unlink" -> "remove"
                    [] OTHER -> "unlock"
  <2>1. pc[t] = "lockdir" /\ Acquire(Dir) /\ Goto(t, l) /\ UNCHANGED fsBusy
    BY <1>3 DEF LockDir
  <2>2. OnDir(t) /\ pc'[t] = l /\ call'[t] = call[t]
    BY <1>0, <1>p, <2>1 DEF PlaceInv
  <2>3. PlaceInv(t)'
    BY <2>2 DEF PlaceInv, OnFile, OnDir, FileCalls
  <2>4. HeldBy(t)' \subseteq HeldBy(t) \cup {Dir}
    BY <2>1, <2>2 DEF HeldBy, OnFile, OnDir
  <2>5. l \in Places \ {"alloc"} /\ Dir \in Nodes
    BY DEF Places, Nodes
  <2> HIDE DEF l
  <2> QED
    BY <2>1, <2>3, <2>4, <2>5, Acquired
<1>4. CASE CheckWrite(t)
  <2>1. CASE Return(t)
    BY <1>4, <2>1, QuietReturn DEF CheckWrite
  <2>2. CASE Goto(t, "fslock") \/ Goto(t, "copy")
    <3>1. PICK l \in {"fslock", "copy"} : Goto(t, l)
      BY <2>2
    <3>2. pc[t] = "check" /\ call[t].op = "write" /\ UNCHANGED locks
      BY <1>4 DEF CheckWrite
    <3>3. PlaceInv(t)'
      BY <1>p, <3>1, <3>2 DEF PlaceInv, FileCalls
    <3>4. HeldBy(t)' \subseteq HeldBy(t)
      BY <1>p, <3>1, <3>2 DEF HeldBy, OnFile, OnDir
    <3> QED
      BY <3>1, <3>2, <3>3, <3>4, QuietGoto DEF Places
  <2> QED
    BY <1>4, <2>1, <2>2 DEF CheckWrite
<1>5. CASE LockFs(t)
  <2>1. pc[t] = "fslock" /\ ~fsBusy /\ fsBusy' /\ busy' = busy /\ Goto(t, "alloc")
    BY <1>5 DEF LockFs
  <2>2. pc'[t] = "alloc" /\ call'[t] = call[t] /\ call[t].op \in FileCalls
    BY <1>0, <1>p, <2>1 DEF PlaceInv
  <2>3. PlaceInv(t)'
    BY <2>2 DEF PlaceInv
  <2>4. HeldBy(t)' \subseteq HeldBy(t)
    BY <2>1, <2>2 DEF HeldBy, OnFile, OnDir
  <2>5. \A n \in HeldBy(t)' : busy'[n] /\ n \in HeldBy(t)
    BY <2>1, <2>4 DEF LockInv, HeldInv
  <2>6. /\ call' = [call EXCEPT ![t] = call[t]] /\ fsBusy' \in BOOLEAN
        /\ busy' \in [Nodes -> BOOLEAN] /\ pc' = [pc EXCEPT ![t] = "alloc"]
    BY <1>5, <2>1 DEF LockInv, Goto, LockFs
  <2>7. "alloc" \in Places
    BY DEF Places
  <2> QED
    BY <1>0, <2>1, <2>3, <2>5, <2>6, <2>7, Frame
<1>6. CASE Alloc(t)
  <2>1. pc[t] = "alloc" /\ fsBusy' = FALSE /\ busy' = busy /\ Goto(t, "copy")
    BY <1>6 DEF Alloc
  <2>2. pc'[t] = "copy" /\ call'[t] = call[t] /\ call[t].op \in FileCalls
    BY <1>0, <1>p, <2>1 DEF PlaceInv
  <2>3. PlaceInv(t)'
    BY <2>2 DEF PlaceInv
  <2>4. HeldBy(t)' \subseteq HeldBy(t)
    BY <2>1, <2>2 DEF HeldBy, OnFile, OnDir
  <2>5. \A n \in HeldBy(t)' : busy'[n] /\ n \in HeldBy(t)
    BY <2>1, <2>4 DEF LockInv, HeldInv
  <2>6. /\ call' = [call EXCEPT ![t] = call[t]]
        /\ busy' \in [Nodes -> BOOLEAN] /\ pc' = [pc EXCEPT ![t] = "copy"]
    BY <2>1 DEF LockInv, Goto
  <2>7. "copy" \in Places
    BY DEF Places
  <2> QED
    BY <1>0, <2>1, <2>3, <2>5, <2>6, <2>7, Frame
<1>7. CASE CheckRead(t) \/ Copy(t) \/ CopyEnds(t)
  <2>1. /\ pc[t] \in {"check", "copy"} /\ UNCHANGED locks
        /\ Goto(t, "copy") \/ Goto(t, "unlock")
    BY <1>7 DEF CheckRead, Copy, CopyEnds
  <2>2. PICK l \in {"copy", "unlock"} : Goto(t, l)
    BY <2>1
  <2>3. pc'[t] = l /\ call'[t] = call[t] /\ call[t].op \in FileCalls
    BY <1>0, <1>p, <2>1, <2>2 DEF PlaceInv
  <2>4. PlaceInv(t)'
    BY <2>3 DEF PlaceInv, OnFile, FileCalls
  <2>5. HeldBy(t)' \subseteq HeldBy(t)
    BY <2>1, <2>3 DEF HeldBy, OnFile, OnDir, FileCalls
  <2> QED
    BY <2>1, <2>2, <2>4, <2>5, QuietGoto DEF Places
<1>8. CASE CheckTruncate(t) \/ Truncate(t)
  <2>1. CASE Return(t)
    BY <1>8, <2>1, QuietReturn DEF CheckTruncate, Truncate, locks
  <2>2. CASE Goto(t, "realloc") \/ Goto(t, "unlock")
    <3>1. PICK l \in {"realloc", "unlock"} : Goto(t, l)
      BY <2>2
    <3>2. pc[t] \in {"check", "realloc"} /\ UNCHANGED locks
      BY <1>8 DEF CheckTruncate, Truncate
    <3>3. pc'[t] = l /\ call'[t] = call[t] /\ call[t].op \in FileCalls
      BY <1>0, <1>p, <3>1, <3>2 DEF PlaceInv
    <3>4. PlaceInv(t)'
      BY <3>3 DEF PlaceInv, OnFile, FileCalls
    <3>5. HeldBy(t)' \subseteq HeldBy(t)
      BY <3>2, <3>3 DEF HeldBy, OnFile, OnDir, FileCalls
    <3> QED
      BY <3>1, <3>2, <3>4, <3>5, QuietGoto DEF Places
  <2> QED
    BY <1>8, <2>1, <2>2 DEF CheckTruncate, Truncate
<1>9. CASE Add(t) \/ RemoveEntry(t)
  <2>1. pc[t] \in {"add", "remove"} /\ Goto(t, "unlock") /\ UNCHANGED locks
    BY <1>9 DEF Add, RemoveEntry
  <2>2. pc'[t] = "unlock" /\ call'[t] = call[t] /\ OnDir(t)
    BY <1>0, <1>p, <2>1 DEF PlaceInv, OnDir
  <2>3. PlaceInv(t)'
    BY <2>2 DEF PlaceInv, OnDir
  <2>4. HeldBy(t)' \subseteq HeldBy(t)
    BY <1>0, <2>1, <2>2 DEF HeldBy, OnFile, OnDir, PlaceInv
  <2> QED
    BY <2>1, <2>3, <2>4, QuietGoto DEF Places
<1>10. CASE Unlock(t)
  <2>1. /\ pc[t] = "unlock" /\ UNCHANGED fsBusy
        /\ busy' = [n \in Nodes |-> busy[n] /\ n \notin Releases(call[t])]
        /\ Return(t) \/ Goto(t, "save")
    BY <1>10 DEF Unlock
  <2>2. Releases(call[t]) \subseteq HeldBy(t)
    BY <1>0, <2>1, CallShape DEF Releases, HeldBy, PlaceInv, OnFile, OnDir, Nodes, FileCalls
  <2>3. /\ busy' \in [Nodes -> BOOLEAN]
        /\ \A n \in Nodes : busy[n] => busy'[n] \/ n \in HeldBy(t)
    BY <2>1, <2>2 DEF LockInv
  <2>4. PICK l \in {"idle", "save"}, c \in Calls \cup {NoCall} :
          pc' = [pc EXCEPT ![t] = l] /\ call' = [call EXCEPT ![t] = c]
    <3>1. CASE Return(t)
      BY <3>1 DEF Return
    <3>2. CASE Goto(t, "save")
      <4>1. call' = [call EXCEPT ![t] = call[t]]
        BY <3>2 DEF Goto, LockInv
      <4> QED
        BY <1>0, <3>2, <4>1 DEF Goto
    <3> QED
      BY <2>1, <3>1, <3>2
  <2>5. pc'[t] = l
    BY <2>4 DEF LockInv
  <2>6. PlaceInv(t)' /\ HeldBy(t)' = {}
    BY <2>5 DEF PlaceInv, HeldBy
  <2>7. l \in Places /\ l # "alloc" /\ fsBusy' \in BOOLEAN
    BY <2>1 DEF Places, LockInv
  <2> QED
    BY <2>1, <2>3, <2>4, <2>6, <2>7, Frame
<1>11. CASE Save(t) \/ SaveBps(t)
  <2>1. CASE Return(t)
    BY <1>11, <2>1, QuietReturn DEF Save, SaveBps
  <2>2. CASE Goto(t, "savebps")
    <3>1. pc'[t] = "savebps" /\ UNCHANGED locks
      BY <1>p, <1>11, <2>2 DEF Save, SaveBps
    <3>2. PlaceInv(t)' /\ HeldBy(t)' = {}
      BY <3>1 DEF PlaceInv, HeldBy
    <3> QED
      BY <2>2, <3>1, <3>2, QuietGoto DEF Places
  <2> QED
    BY <1>11, <2>1, <2>2 DEF Save, SaveBps
<1> QED
  BY <1>1, <1>2, <1>3, <1>4, <1>5, <1>6, <1>7, <1>8, <1>9, <1>10, <1>11 DEF Step

\* A step that changes nothing preserves LockInv.
LEMMA StutterLock == LockInv /\ UNCHANGED vars => LockInv'
BY DEF LockInv, PlaceInv, HeldInv, NodeExclusive, HeldBy, OnFile, OnDir, vars, locks

\* In every reachable state a thread is at a place of its call, and a lock that
\* it holds is set.
THEOREM LocksHold == Spec => []LockInv
<1>1. LockInv /\ [Next]_vars => LockInv'
  BY StepLock, StutterLock DEF Next
<1> QED
  BY InitLock, <1>1, PTL DEF Spec

\* No two threads ever work on the same node and no two writes are in the
\* distributor at once, for any number of threads and any sequence of calls,
\* the calls that leak a lock included.
THEOREM Exclusion == Spec => []NodeExclusive
<1>1. LockInv => NodeExclusive
  BY DEF LockInv
<1> QED
  BY LocksHold, <1>1, PTL

-----------------------------------------------------------------------------
(* The device.  An entry that differs from its node is owed by a thread    *)
(* that has still to copy it: the metadata by one that comes to Save, the  *)
(* block pointers by one that comes to Save or SaveBps.                    *)

OwesMeta(t, f) ==
  /\ call[t].file = f /\ call[t].op \in FileCalls \cup {"create"}
  /\ pc[t] \in {"copy", "unlock", "save"}

OwesBps(t, f) ==
  \/ OwesMeta(t, f)
  \/ call[t].file = f /\ pc[t] = "savebps"

OwesDir(t) == call[t].op \in {"create", "unlink"} /\ pc[t] \in {"unlock", "save"}

IsNode(x) == x = [size |-> x.size, blocks |-> x.blocks, segs |-> x.segs]

SameMeta(f) == image[f].size = node[f].size /\ image[f].blocks = node[f].blocks
SameBps(f)  == image[f].segs = node[f].segs

EntryInv(f) ==
  /\ SameMeta(f) \/ \E t \in Threads : OwesMeta(t, f)
  /\ SameBps(f) \/ \E t \in Threads : OwesBps(t, f)

DeviceInv ==
  /\ DOMAIN node = Files /\ DOMAIN image = Files
  /\ \A f \in Files : IsNode(node[f]) /\ IsNode(image[f])
  /\ \A f \in paths : f \in Files /\ EntryInv(f)
  /\ dirImage = paths \/ \E t \in Threads : OwesDir(t)

\* The device agrees with memory at first.
LEMMA InitDevice == Init => DeviceInv
BY DEF Init, DeviceInv, EntryInv, SameMeta, SameBps, IsNode, EmptyNode


\* What the distributor returns is a node.
LEMMA ReallocIsNode ==
  ASSUME NEW nd, IsNode(nd), NEW n, NEW r \in Realloc(nd, n)
  PROVE  IsNode(r.node)
<1>1. ASSUME NEW req, NEW outcome PROVE IsNode(Granted(nd, req, outcome))
  <2>1. CASE outcome = "extend" /\ nd.segs # <<>>
    <3>1. Granted(nd, req, outcome) =
            [nd EXCEPT !.segs[Len(nd.segs)] = @ + req, !.blocks = @ + req]
      BY <2>1 DEF Granted
    <3> QED
      BY <3>1 DEF IsNode
  <2>2. CASE ~(outcome = "extend" /\ nd.segs # <<>>)
    <3>1. Granted(nd, req, outcome) =
            [nd EXCEPT !.segs = Append(@, req), !.blocks = @ + req]
      BY <2>2 DEF Granted
    <3> QED
      BY <3>1 DEF IsNode
  <2> QED
    BY <2>1, <2>2
<1>2. \/ r.node = nd
      \/ \E req, outcome : r.node = Granted(nd, req, outcome)
  BY DEF Realloc
<1> QED
  BY <1>1, <1>2

\* What a step of thread t has to show: an entry is in step afterwards, or t
\* owes it, or it was out of step before and is owed by another thread.
LEMMA DeviceFrame ==
  ASSUME LockInv, DeviceInv, NEW t \in Threads, NEW l, NEW c,
         pc' = [pc EXCEPT ![t] = l], call' = [call EXCEPT ![t] = c],
         DOMAIN node' = Files, DOMAIN image' = Files,
         \A f \in Files : IsNode(node[f])' /\ IsNode(image[f])',
         \A f \in paths' :
           /\ f \in Files
           /\ \/ SameMeta(f)' \/ OwesMeta(t, f)'
              \/ f \in paths /\ ~SameMeta(f) /\ ~OwesMeta(t, f)
           /\ \/ SameBps(f)' \/ OwesBps(t, f)'
              \/ f \in paths /\ ~SameBps(f) /\ ~OwesBps(t, f),
         \/ dirImage' = paths' \/ OwesDir(t)'
         \/ dirImage # paths /\ ~OwesDir(t)
  PROVE  DeviceInv'
<1>1. ASSUME NEW u \in Threads, u # t
      PROVE  /\ \A f : OwesMeta(u, f)' = OwesMeta(u, f) /\ OwesBps(u, f)' = OwesBps(u, f)
             /\ OwesDir(u)' = OwesDir(u)
  <2>1. pc'[u] = pc[u] /\ call'[u] = call[u]
    BY <1>1 DEF LockInv
  <2> QED
    BY <2>1 DEF OwesMeta, OwesBps, OwesDir
<1>2. ASSUME NEW f \in paths' PROVE f \in Files /\ EntryInv(f)'
  <2>1. SameMeta(f)' \/ \E u \in Threads : OwesMeta(u, f)'
    <3>1. CASE f \in paths /\ ~SameMeta(f) /\ ~OwesMeta(t, f)
      <4>1. PICK u \in Threads : OwesMeta(u, f)
        BY <3>1 DEF DeviceInv, EntryInv
      <4> QED
        BY <1>1, <3>1, <4>1
    <3> QED
      BY <3>1
  <2>2. SameBps(f)' \/ \E u \in Threads : OwesBps(u, f)'
    <3>1. CASE f \in paths /\ ~SameBps(f) /\ ~OwesBps(t, f)
      <4>1. PICK u \in Threads : OwesBps(u, f)
        BY <3>1 DEF DeviceInv, EntryInv
      <4> QED
        BY <1>1, <3>1, <4>1
    <3> QED
      BY <3>1
  <2> QED
    BY <2>1, <2>2 DEF EntryInv
<1>3. dirImage' = paths' \/ \E u \in Threads : OwesDir(u)'
  <2>1. CASE dirImage # paths /\ ~OwesDir(t)
    <3>1. PICK u \in Threads : OwesDir(u)
      BY <2>1 DEF DeviceInv
    <3> QED
      BY <1>1, <2>1, <3>1
  <2> QED
    BY <2>1
<1> QED
  BY <1>2, <1>3 DEF DeviceInv

\* A step that changes neither the nodes nor the device, and owes afterwards
\* what it owed before.
LEMMA DeviceQuiet ==
  ASSUME LockInv, DeviceInv, NEW t \in Threads, NEW l, NEW c,
         pc' = [pc EXCEPT ![t] = l], call' = [call EXCEPT ![t] = c],
         UNCHANGED <<paths, node, device>>,
         \A f : OwesMeta(t, f) => OwesMeta(t, f)',
         \A f : OwesBps(t, f) => OwesBps(t, f)',
         OwesDir(t) => OwesDir(t)'
  PROVE  DeviceInv'
<1>1. node' = node /\ image' = image /\ paths' = paths /\ dirImage' = dirImage
  BY DEF device
<1>2. /\ DOMAIN node' = Files /\ DOMAIN image' = Files
      /\ \A f \in Files : IsNode(node[f])' /\ IsNode(image[f])'
      /\ \A f \in paths : f \in Files
      /\ \A f : SameMeta(f)' = SameMeta(f) /\ SameBps(f)' = SameBps(f)
  BY <1>1 DEF DeviceInv, IsNode, SameMeta, SameBps
<1> QED
  BY <1>1, <1>2, DeviceFrame

\* A step that changes the node of its own call, which it owes afterwards.
LEMMA DeviceOwed ==
  ASSUME LockInv, DeviceInv, NEW t \in Threads, NEW l, NEW f0,
         Goto(t, l), UNCHANGED <<paths, device>>, DOMAIN node' = Files,
         \A f \in Files : IsNode(node[f])' /\ (f # f0 => node'[f] = node[f]),
         OwesMeta(t, f0)', ~OwesDir(t),
         \A f : ~OwesMeta(t, f) /\ ~OwesBps(t, f)
  PROVE  DeviceInv'
<1>1. image' = image /\ paths' = paths /\ dirImage' = dirImage
  BY DEF device
<1>2. DOMAIN image' = Files /\ \A f \in Files : IsNode(image[f])'
  BY <1>1 DEF DeviceInv, IsNode
<1>3. call' = [call EXCEPT ![t] = call[t]]
  BY DEF LockInv, Goto
<1>4. \A f \in paths : f \in Files
  BY DEF DeviceInv
<1>5. ASSUME NEW f \in paths, f # f0
      PROVE  SameMeta(f)' = SameMeta(f) /\ SameBps(f)' = SameBps(f)
  BY <1>1, <1>4, <1>5 DEF SameMeta, SameBps
<1>6. OwesBps(t, f0)'
  BY DEF OwesBps
<1> QED
  BY <1>1, <1>2, <1>3, <1>4, <1>5, <1>6, DeviceFrame DEF Goto

\* A step of a thread preserves DeviceInv.
LEMMA StepDevice ==
  ASSUME LockInv, DeviceInv, NEW t \in Threads, Begin(t) \/ Step(t)
  PROVE  DeviceInv'
<1> PICK f0 : f0 = call[t].file
  OBVIOUS
<1>0. /\ call[t] \in Calls \cup {NoCall} /\ pc[t] \in Places /\ PlaceInv(t)
      /\ call[t].op \in FileCalls \cup {"create", "unlink"} => f0 \in Files
  BY CallShape DEF LockInv
<1>g. \A l : Goto(t, l) => /\ pc'[t] = l /\ call'[t] = call[t]
                           /\ call' = [call EXCEPT ![t] = call[t]]
                           /\ pc' = [pc EXCEPT ![t] = l]
  BY DEF Goto, LockInv
<1>r. Return(t) => /\ pc' = [pc EXCEPT ![t] = "idle"]
                   /\ call' = [call EXCEPT ![t] = NoCall]
  BY DEF Return
<1>1. CASE pc[t] \notin {"copy", "unlock", "save", "savebps"}
           /\ UNCHANGED <<paths, node, device>>
  <2>1. PICK l, c : pc' = [pc EXCEPT ![t] = l] /\ call' = [call EXCEPT ![t] = c]
    <3>1. CASE Begin(t)
      BY <3>1 DEF Begin
    <3>2. CASE Step(t)
      <4>1. Return(t) \/ \E l : Goto(t, l)
        BY <3>2 DEF Step, Lock, LockDir, CheckWrite, LockFs, Alloc, CheckRead, Copy,
             CopyEnds, CheckTruncate, Truncate, Add, RemoveEntry, Unlock, Save, SaveBps
      <4> QED
        BY <1>g, <1>r, <4>1
    <3> QED
      BY <3>1, <3>2
  <2>2. /\ \A f : ~OwesMeta(t, f) /\ ~OwesBps(t, f)
        /\ ~OwesDir(t)
    BY <1>1 DEF OwesMeta, OwesBps, OwesDir
  <2> QED
    BY <1>1, <2>1, <2>2, DeviceQuiet
<1>2. CASE CheckWrite(t) /\ node' # node
  <2>1. /\ pc[t] = "check" /\ call[t].op = "write" /\ UNCHANGED <<paths, device>>
        /\ Goto(t, "copy")
        /\ \E n : node' = [node EXCEPT ![f0].size = n]
    BY <1>2 DEF CheckWrite, device
  <2>2. PICK n : node' = [node EXCEPT ![f0].size = n]
    BY <2>1
  <2>3. f0 \in Files
    BY <1>0, <2>1 DEF FileCalls
  <2>4. /\ DOMAIN node' = Files
        /\ \A f \in Files : f # f0 => node'[f] = node[f]
        /\ node'[f0] = [node[f0] EXCEPT !.size = n]
    BY <2>2, <2>3 DEF DeviceInv
  <2>5. \A f \in Files : IsNode(node[f])'
    BY <2>3, <2>4 DEF DeviceInv, IsNode
  <2>6. OwesMeta(t, f0)'
    BY <1>g, <2>1 DEF OwesMeta, FileCalls
  <2>7. /\ \A f : ~OwesMeta(t, f) /\ ~OwesBps(t, f)
        /\ ~OwesDir(t)
    BY <2>1 DEF OwesMeta, OwesBps, OwesDir
  <2> QED
    BY <2>1, <2>4, <2>5, <2>6, <2>7, DeviceOwed
<1>3. CASE Alloc(t)
  <2>1. /\ pc[t] = "alloc" /\ UNCHANGED <<paths, device>> /\ Goto(t, "copy")
    BY <1>3 DEF Alloc
  <2>2. PICK r \in Realloc(node[f0], call[t].to) :
          node' = [node EXCEPT ![f0] = [r.node EXCEPT !.blocks = @ + r.ret,
                                                      !.size = call[t].to]]
    BY <1>3 DEF Alloc
  <2>3. call[t].op \in FileCalls /\ f0 \in Files
    BY <1>0, <2>1 DEF PlaceInv
  <2>4. /\ DOMAIN node' = Files
        /\ \A f \in Files : f # f0 => node'[f] = node[f]
        /\ node'[f0] = [r.node EXCEPT !.blocks = @ + r.ret, !.size = call[t].to]
    BY <2>2, <2>3 DEF DeviceInv
  <2>5. IsNode(r.node)
    <3>1. IsNode(node[f0])
      BY <2>3 DEF DeviceInv
    <3> QED
      BY <3>1, ReallocIsNode
  <2>6. IsNode(node[f0])'
    <3> DEFINE x == r.node
    <3>1. x = [size |-> x.size, blocks |-> x.blocks, segs |-> x.segs]
      BY <2>5 DEF IsNode
    <3>2. node'[f0] = [x EXCEPT !.blocks = @ + r.ret, !.size = call[t].to]
      BY <2>4
    <3> HIDE DEF x
    <3>3. DOMAIN x = {"size", "blocks", "segs"}
      BY <3>1
    <3>4. node'[f0] = [size |-> call[t].to, blocks |-> node'[f0].blocks, segs |-> x.segs]
      BY <3>1, <3>2
    <3> QED
      BY <3>4 DEF IsNode
  <2>7. \A f \in Files : IsNode(node[f])'
    BY <2>4, <2>6 DEF DeviceInv, IsNode
  <2>8. OwesMeta(t, f0)'
    BY <1>g, <2>1, <2>3 DEF OwesMeta
  <2>9. /\ \A f : ~OwesMeta(t, f) /\ ~OwesBps(t, f)
        /\ ~OwesDir(t)
    BY <2>1 DEF OwesMeta, OwesBps, OwesDir
  <2> QED
    BY <2>1, <2>4, <2>7, <2>8, <2>9, DeviceOwed
<1>4. CASE Truncate(t)
  <2>1. /\ pc[t] = "realloc" /\ UNCHANGED <<paths, device>> /\ Goto(t, "unlock")
    BY <1>4 DEF Truncate
  <2>2. PICK r \in Realloc(node[f0], IF call[t].to < 1 THEN 1 ELSE call[t].to) :
          node' = [node EXCEPT ![f0] = [r.node EXCEPT !.size = call[t].to]]
    BY <1>4 DEF Truncate
  <2>3. call[t].op \in FileCalls /\ f0 \in Files
    BY <1>0, <2>1 DEF PlaceInv
  <2>4. /\ DOMAIN node' = Files
        /\ \A f \in Files : f # f0 => node'[f] = node[f]
        /\ node'[f0] = [r.node EXCEPT !.size = call[t].to]
    BY <2>2, <2>3 DEF DeviceInv
  <2>5. IsNode(r.node)
    <3>1. IsNode(node[f0])
      BY <2>3 DEF DeviceInv
    <3> QED
      BY <3>1, ReallocIsNode
  <2>6. IsNode(node[f0])'
    <3> DEFINE x == r.node
    <3>1. x = [size |-> x.size, blocks |-> x.blocks, segs |-> x.segs]
      BY <2>5 DEF IsNode
    <3>2. node'[f0] = [x EXCEPT !.size = call[t].to]
      BY <2>4
    <3> HIDE DEF x
    <3>3. DOMAIN x = {"size", "blocks", "segs"}
      BY <3>1
    <3>4. node'[f0] = [size |-> call[t].to, blocks |-> node'[f0].blocks, segs |-> x.segs]
      BY <3>1, <3>2
    <3> QED
      BY <3>4 DEF IsNode
  <2>7. \A f \in Files : IsNode(node[f])'
    BY <2>4, <2>6 DEF DeviceInv, IsNode
  <2>8. OwesMeta(t, f0)'
    BY <1>g, <2>1, <2>3 DEF OwesMeta
  <2>9. /\ \A f : ~OwesMeta(t, f) /\ ~OwesBps(t, f)
        /\ ~OwesDir(t)
    BY <2>1 DEF OwesMeta, OwesBps, OwesDir
  <2> QED
    BY <2>1, <2>4, <2>7, <2>8, <2>9, DeviceOwed
<1>5. CASE Copy(t) \/ CopyEnds(t)
  <2>1. /\ pc[t] = "copy" /\ UNCHANGED <<paths, node, device>>
        /\ Goto(t, "copy") \/ Goto(t, "unlock")
    BY <1>5 DEF Copy, CopyEnds, memory
  <2>2. PICK l \in {"copy", "unlock"} : Goto(t, l)
    BY <2>1
  <2>3. pc'[t] = l /\ call'[t] = call[t]
    BY <1>g, <2>2
  <2>4. /\ \A f : OwesMeta(t, f) => OwesMeta(t, f)'
        /\ \A f : OwesBps(t, f) => OwesBps(t, f)'
        /\ OwesDir(t) => OwesDir(t)'
    BY <2>1, <2>3 DEF OwesMeta, OwesBps, OwesDir
  <2> QED
    BY <1>g, <2>1, <2>2, <2>4, DeviceQuiet
<1>6. CASE Add(t) \/ RemoveEntry(t)
  <2>1. pc[t] \in {"add", "remove"} /\ Goto(t, "unlock") /\ UNCHANGED device
    BY <1>6 DEF Add, RemoveEntry
  <2>2. /\ call[t].op \in {"create", "unlink"} /\ f0 \in Files
        /\ pc[t] = "add" <=> call[t].op = "create"
    BY <1>0, <2>1 DEF PlaceInv
  <2>3. pc'[t] = "unlock" /\ call'[t] = call[t]
    BY <1>g, <2>1
  <2>4. OwesDir(t)' /\ (pc[t] = "add" => OwesMeta(t, f0)' /\ OwesBps(t, f0)')
    BY <2>2, <2>3 DEF OwesDir, OwesMeta, OwesBps
  <2>5. /\ \A f : ~OwesMeta(t, f) /\ ~OwesBps(t, f)
        /\ image' = image
    BY <2>1 DEF OwesMeta, OwesBps, device
  <2>6. /\ DOMAIN node' = Files
        /\ \A f \in Files : f # f0 => node'[f] = node[f]
        /\ node'[f0] \in {node[f0], EmptyNode}
    BY <1>6, <2>2 DEF Add, RemoveEntry, DeviceInv
  <2>7. \A f \in Files : IsNode(node[f])' /\ IsNode(image[f])'
    BY <2>2, <2>5, <2>6 DEF DeviceInv, IsNode, EmptyNode
  <2>8. ASSUME NEW f \in paths'
        PROVE  f \in Files /\ (f = f0 => pc[t] = "add") /\ (f # f0 => f \in paths)
    BY <1>6, <2>2 DEF Add, RemoveEntry, DeviceInv
  <2>9. ASSUME NEW f \in paths', f # f0
        PROVE  SameMeta(f)' = SameMeta(f) /\ SameBps(f)' = SameBps(f)
    BY <2>5, <2>6, <2>8, <2>9 DEF SameMeta, SameBps
  <2>10. DOMAIN image' = Files
    BY <2>5 DEF DeviceInv
  <2> QED
    BY <1>g, <2>1, <2>4, <2>5, <2>6, <2>7, <2>8, <2>9, <2>10, DeviceFrame
<1>7. CASE Unlock(t)
  <2>1. /\ pc[t] = "unlock" /\ UNCHANGED <<paths, node, device>>
        /\ \/ Return(t) /\ call[t].op = "readdir"
           \/ Goto(t, "save")
    BY <1>7 DEF Unlock, memory
  <2>2. CASE Return(t) /\ call[t].op = "readdir"
    <3>1. /\ \A f : ~OwesMeta(t, f) /\ ~OwesBps(t, f)
          /\ ~OwesDir(t)
      BY <2>1, <2>2 DEF OwesMeta, OwesBps, OwesDir, FileCalls
    <3> QED
      BY <1>r, <2>1, <2>2, <3>1, DeviceQuiet
  <2>3. CASE Goto(t, "save")
    <3>1. pc'[t] = "save" /\ call'[t] = call[t]
      BY <1>g, <2>3
    <3>2. /\ \A f : OwesMeta(t, f) => OwesMeta(t, f)'
          /\ \A f : OwesBps(t, f) => OwesBps(t, f)'
          /\ OwesDir(t) => OwesDir(t)'
      BY <2>1, <3>1 DEF OwesMeta, OwesBps, OwesDir
    <3> QED
      BY <1>g, <2>1, <2>3, <3>2, DeviceQuiet
  <2> QED
    BY <2>1, <2>2, <2>3
<1>8. CASE Save(t)
  <2>1. pc[t] = "save" /\ UNCHANGED <<paths, node>>
    BY <1>8 DEF Save, memory
  <2>2. CASE SavesFile(call[t])
    <3>1. /\ image' = [image EXCEPT ![f0].size = node[f0].size,
                                   ![f0].blocks = node[f0].blocks]
          /\ dirImage' = dirImage /\ Goto(t, "savebps")
      BY <1>8, <2>2 DEF Save, SavesFile, SavesDir
    <3>2. call[t].op \in FileCalls /\ f0 \in Files
      BY <1>0, <2>2 DEF SavesFile, FileCalls
    <3>3. /\ DOMAIN image' = Files
          /\ \A f \in Files : f # f0 => image'[f] = image[f]
          /\ image'[f0] = [image[f0] EXCEPT !.size = node[f0].size,
                                           !.blocks = node[f0].blocks]
          /\ IsNode(image[f0])
      BY <3>1, <3>2 DEF DeviceInv
    <3>4. /\ image'[f0].size = node[f0].size /\ image'[f0].blocks = node[f0].blocks
          /\ IsNode(image[f0])'
      BY <3>3 DEF IsNode
    <3>5. \A f \in Files : IsNode(node[f])' /\ IsNode(image[f])'
      BY <2>1, <3>3, <3>4 DEF DeviceInv, IsNode
    <3>6. SameMeta(f0)' /\ OwesBps(t, f0)' /\ ~OwesDir(t)
      BY <1>g, <2>1, <3>1, <3>2, <3>4 DEF SameMeta, OwesBps, OwesDir, FileCalls
    <3>7. ASSUME NEW f \in Files, f # f0
          PROVE  /\ SameMeta(f)' = SameMeta(f) /\ SameBps(f)' = SameBps(f)
                 /\ ~OwesMeta(t, f) /\ ~OwesBps(t, f)
      BY <2>1, <3>3, <3>7 DEF SameMeta, SameBps, OwesMeta, OwesBps
    <3>8. DOMAIN node' = Files /\ \A f \in paths' : f \in paths /\ f \in Files
      BY <2>1 DEF DeviceInv
    <3>9. \A f \in paths' :
            /\ f \in Files
            /\ \/ SameMeta(f)' \/ OwesMeta(t, f)'
               \/ f \in paths /\ ~SameMeta(f) /\ ~OwesMeta(t, f)
            /\ \/ SameBps(f)' \/ OwesBps(t, f)'
               \/ f \in paths /\ ~SameBps(f) /\ ~OwesBps(t, f)
      BY <3>6, <3>7, <3>8, SMTT(30)
    <3>10. \/ dirImage' = paths' \/ OwesDir(t)'
           \/ dirImage # paths /\ ~OwesDir(t)
      BY <2>1, <3>1, <3>6
    <3>11. DOMAIN node' = Files /\ DOMAIN image' = Files
      BY <3>3, <3>8
    <3>12. PICK c : call' = [call EXCEPT ![t] = c]
      BY <1>g, <3>1
    <3>13. pc' = [pc EXCEPT ![t] = "savebps"]
      BY <1>g, <3>1
    <3> QED
      BY <3>5, <3>9, <3>10, <3>11, <3>12, <3>13, DeviceFrame
  <2>3. CASE call[t].op = "create"
    <3>1. /\ image' = [image EXCEPT ![f0] = node[f0]]
          /\ dirImage' = paths' /\ Return(t)
      BY <1>8, <2>1, <2>3 DEF Save, SavesFile, SavesDir
    <3>2. f0 \in Files
      BY <1>0, <2>3
    <3>3. /\ DOMAIN image' = Files /\ DOMAIN node' = Files
          /\ \A f \in Files : f # f0 => image'[f] = image[f]
          /\ image'[f0] = node[f0]
          /\ \A f \in paths' : f \in paths /\ f \in Files
      BY <2>1, <3>1, <3>2 DEF DeviceInv
    <3>4. \A f \in Files : IsNode(node[f])' /\ IsNode(image[f])'
      BY <2>1, <3>2, <3>3 DEF DeviceInv, IsNode
    <3>5. SameMeta(f0)' /\ SameBps(f0)'
      BY <2>1, <3>3 DEF SameMeta, SameBps
    <3>6. ASSUME NEW f \in Files, f # f0
          PROVE  /\ SameMeta(f)' = SameMeta(f) /\ SameBps(f)' = SameBps(f)
                 /\ ~OwesMeta(t, f) /\ ~OwesBps(t, f)
      BY <2>1, <3>3, <3>6 DEF SameMeta, SameBps, OwesMeta, OwesBps
    <3> QED
      BY <1>r, <3>1, <3>3, <3>4, <3>5, <3>6, DeviceFrame
  <2>4. CASE ~SavesFile(call[t]) /\ call[t].op # "create"
    <3>1. /\ image' = image /\ Return(t)
          /\ dirImage' = IF call[t].op = "unlink" THEN paths' ELSE dirImage
      BY <1>8, <2>1, <2>4 DEF Save, SavesDir
    <3>2. /\ \A f : ~OwesMeta(t, f) /\ ~OwesBps(t, f)
          /\ call[t].op # "unlink" => ~OwesDir(t)
      BY <2>1, <2>4 DEF OwesMeta, OwesBps, OwesDir, SavesFile, FileCalls
    <3>3. /\ DOMAIN image' = Files /\ DOMAIN node' = Files
          /\ \A f \in Files : IsNode(node[f])' /\ IsNode(image[f])'
          /\ \A f \in paths' : f \in paths /\ f \in Files
          /\ \A f : SameMeta(f)' = SameMeta(f) /\ SameBps(f)' = SameBps(f)
      BY <2>1, <3>1 DEF DeviceInv, IsNode, SameMeta, SameBps
    <3>4. \/ dirImage' = paths' \/ OwesDir(t)'
          \/ dirImage # paths /\ ~OwesDir(t)
      BY <2>1, <3>1, <3>2
    <3> QED
      BY <1>r, <3>1, <3>2, <3>3, <3>4, DeviceFrame
  <2> QED
    BY <2>2, <2>3, <2>4
<1>9. CASE SaveBps(t)
  <2>1. /\ pc[t] = "savebps" /\ UNCHANGED <<paths, node, dirImage>> /\ Return(t)
        /\ image' = [image EXCEPT ![f0].segs = node[f0].segs]
    BY <1>9 DEF SaveBps, memory
  <2>2. /\ \A f : ~OwesMeta(t, f)
        /\ \A f : f # f0 => ~OwesBps(t, f)
        /\ ~OwesDir(t)
    BY <2>1 DEF OwesMeta, OwesBps, OwesDir
  <2>3. /\ DOMAIN image' = Files /\ DOMAIN node' = Files
        /\ \A f \in Files : f # f0 => image'[f] = image[f]
        /\ f0 \in Files => image'[f0] = [image[f0] EXCEPT !.segs = node[f0].segs]
        /\ f0 \in Files => IsNode(image[f0])
        /\ \A f \in paths' : f \in paths /\ f \in Files
    BY <2>1 DEF DeviceInv
  <2>4. f0 \in Files => /\ IsNode(image[f0])' /\ image'[f0].segs = node[f0].segs
                       /\ image'[f0].size = image[f0].size
                       /\ image'[f0].blocks = image[f0].blocks
    BY <2>3 DEF IsNode
  <2>5. \A f \in Files : IsNode(node[f])' /\ IsNode(image[f])'
    BY <2>1, <2>3, <2>4 DEF DeviceInv, IsNode
  <2>6. ASSUME NEW f \in Files
        PROVE  /\ SameMeta(f)' = SameMeta(f)
               /\ f = f0 => SameBps(f)'
               /\ f # f0 => SameBps(f)' = SameBps(f)
    BY <2>1, <2>3, <2>4 DEF SameMeta, SameBps
  <2>7. \/ dirImage' = paths' \/ dirImage # paths
    BY <2>1
  <2> QED
    BY <1>r, <2>1, <2>2, <2>3, <2>5, <2>6, <2>7, DeviceFrame
<1>10. \/ /\ pc[t] \notin {"copy", "unlock", "save", "savebps"}
          /\ UNCHANGED <<paths, node, device>>
       \/ CheckWrite(t) /\ node' # node
       \/ Alloc(t) \/ Truncate(t) \/ Copy(t) \/ CopyEnds(t) \/ Add(t)
       \/ RemoveEntry(t) \/ Unlock(t) \/ Save(t) \/ SaveBps(t)
  BY DEF Step, Begin, Lock, LockDir, CheckWrite, LockFs, CheckRead, CheckTruncate, memory
<1> QED
  BY <1>1, <1>2, <1>3, <1>4, <1>5, <1>6, <1>7, <1>8, <1>9, <1>10

\* A step that changes nothing preserves DeviceInv.
LEMMA StutterDevice == DeviceInv /\ UNCHANGED vars => DeviceInv'
BY DEF DeviceInv, EntryInv, SameMeta, SameBps, IsNode, OwesMeta, OwesBps, OwesDir,
       vars, memory, device

\* Whenever no call on a file is under way its entry on the device is the node
\* in memory, and whenever no call on the directory is its children are, for
\* any threads: the late and unlocked serialisation loses no update.
THEOREM DeviceFollows == Spec => []DeviceCurrent
<1>1. LockInv /\ DeviceInv /\ [Next]_vars => DeviceInv'
  BY StepDevice, StutterDevice DEF Next
<1>2. LockInv /\ DeviceInv => DeviceCurrent
  <2> SUFFICES ASSUME LockInv, DeviceInv PROVE DeviceCurrent
    OBVIOUS
  <2>1. ASSUME NEW f \in paths, \A t \in Threads : call[t].file # f
        PROVE  image[f] = node[f]
    <3>1. \A t \in Threads : ~OwesMeta(t, f) /\ ~OwesBps(t, f)
      BY <2>1 DEF OwesMeta, OwesBps
    <3>2. SameMeta(f) /\ SameBps(f) /\ IsNode(node[f]) /\ IsNode(image[f])
      BY <3>1 DEF DeviceInv, EntryInv
    <3> QED
      BY <3>2 DEF SameMeta, SameBps, IsNode
  <2>2. (\A t \in Threads : ~OnDir(t)) => dirImage = paths
    BY DEF DeviceInv, OwesDir, OnDir
  <2> QED
    BY <2>1, <2>2 DEF DeviceCurrent
<1> QED
  BY InitDevice, LocksHold, <1>1, <1>2, PTL DEF Spec


-----------------------------------------------------------------------------
(* Types.  A copy stays inside the blocks of its file because a file has   *)
(* as many blocks as its pointers count, and inside the positions because  *)
(* what is done and what is left never exceed what the call asked for.     *)

\* The blocks that a file has, by its block pointers.
BlocksOf(segs) == FoldLeft(LAMBDA a, b : a + b, 0, segs)

\* The blocks of a file are partial sums of its block pointers.
LEMMA BlocksSummed ==
  ASSUME NEW segs \in Seq(Nat)
  PROVE  \E h \in [0 .. Len(segs) -> Nat] :
           /\ h[0] = 0
           /\ \A i \in 1 .. Len(segs) : h[i] = h[i - 1] + segs[i]
           /\ BlocksOf(segs) = h[Len(segs)]
  <1> DEFINE n == Len(segs)
             D == 1 .. n
             step == [i \in D |-> [a \in Nat |-> a + segs[i]]]
             Eq(g) == [s \in SUBSET D |->
                        IF s = {} THEN 0 ELSE g[s \ {Max(s)}] + segs[Max(s)]]
             iter == CHOOSE g : g = Eq(g)
             h == [i \in 0 .. n |-> iter[1 .. i]]
  <1>1. n \in Nat /\ DOMAIN segs = D /\ \A i \in D : segs[i] \in Nat
    OBVIOUS
  <1>2. BlocksOf(segs) = iter[D]
    BY <1>1 DEF BlocksOf, FoldLeft, MapThenFoldSet
  <1>3. step \in [D -> [Nat -> Nat]] /\ 0 \in Nat
    BY <1>1
  <1> HIDE DEF step, n
  <1>4. PICK g \in [SUBSET D -> Nat] : g = FoldStep(D, 0, step, g)
    <2>1. n \in Nat /\ 0 \in Nat /\ step \in [1 .. n -> [Nat -> Nat]]
      BY <1>1, <1>3
    <2>2. \A A : \A base \in A, f \in [1 .. n -> [A -> A]] :
            \E g \in [SUBSET (1 .. n) -> A] : g = FoldStep(1 .. n, base, f, g)
      BY <2>1, FoldExists, Zenon
    <2> QED
      BY <2>1, <2>2, Zenon
  <1>5. g = Eq(g)
    <2>1. ASSUME NEW s \in SUBSET D PROVE FoldStep(D, 0, step, g)[s] = Eq(g)[s]
      <3>1. CASE s = {}
        BY <3>1 DEF FoldStep
      <3>2. CASE s # {}
        <4>1. Max(s) \in D /\ g[s \ {Max(s)}] \in Nat
          BY <1>1, <3>2, MaxOf
        <4>2. step[Max(s)][g[s \ {Max(s)}]] = g[s \ {Max(s)}] + segs[Max(s)]
          BY <4>1 DEF step
        <4> QED
          BY <3>2, <4>2 DEF FoldStep
      <3> QED
        BY <3>1, <3>2
    <2> QED
      BY <1>4, <2>1 DEF FoldStep
  <1>6. iter = Eq(iter)
    BY <1>5, Zenon
  <1> HIDE DEF iter
  <1>7. h[0] = 0
    BY <1>1, <1>6
  <1>8. ASSUME NEW i \in D PROVE h[i] = h[i - 1] + segs[i]
    <2>1. Max(1 .. i) = i /\ (1 .. i) \ {i} = 1 .. i - 1
      BY <1>1, MaxOfInterval
    <2>2. 1 .. i \in SUBSET D /\ 1 .. i # {}
      <3>1. \A j \in 1 .. i : j \in D
        BY <1>1
      <3>2. 1 \in 1 .. i
        BY <1>1
      <3> QED
        BY <3>1, <3>2, Zenon
    <2>3. iter[1 .. i] = iter[1 .. i - 1] + segs[i]
      BY <1>6, <2>1, <2>2
    <2> QED
      BY <1>1, <2>3
  <1>9. h \in [0 .. n -> Nat]
    <2> DEFINE S == {i \in 0 .. n : h[i] \in Nat}
    <2> HIDE DEF h
    <2>1. 0 \in S
      BY <1>1, <1>7
    <2>2. \A i \in 1 .. n : i - 1 \in S => i \in S
      BY <1>1, <1>8
    <2>3. \A i \in 0 .. n : i \in S
      BY <1>1, <2>1, <2>2, Climb, Zenon
    <2> QED
      BY <2>3 DEF h
  <1>10. BlocksOf(segs) = h[n]
    BY <1>1, <1>2
  <1> QED
    BY <1>7, <1>8, <1>9, <1>10 DEF n

\* Of two sequences with a common beginning, the blocks in that beginning
\* count the same, and the longer sequence has them and what it adds.
LEMMA BlocksOfLonger ==
  ASSUME NEW segs \in Seq(Nat), NEW more \in Seq(Nat),
         Len(more) = Len(segs) + 1,
         \A i \in 1 .. Len(segs) : more[i] = segs[i]
  PROVE  BlocksOf(more) = BlocksOf(segs) + more[Len(more)]
  <1> DEFINE n == Len(segs)
  <1>1. n \in Nat /\ Len(more) = n + 1
    OBVIOUS
  <1>2. PICK h \in [0 .. n -> Nat] :
               /\ h[0] = 0
               /\ \A i \in 1 .. n : h[i] = h[i - 1] + segs[i]
               /\ BlocksOf(segs) = h[n]
    BY BlocksSummed
  <1>3. PICK m \in [0 .. n + 1 -> Nat] :
               /\ m[0] = 0
               /\ \A i \in 1 .. n + 1 : m[i] = m[i - 1] + more[i]
               /\ BlocksOf(more) = m[n + 1]
    BY <1>1, BlocksSummed
  <1>4. \A i \in 1 .. n : more[i] = segs[i]
    OBVIOUS
  <1> HIDE DEF n
  <1> DEFINE S == {i \in 0 .. n : h[i] = m[i]}
  <1>5. 0 \in S
    BY <1>1, <1>2, <1>3
  <1>6. \A i \in 1 .. n : i - 1 \in S => i \in S
    BY <1>1, <1>2, <1>3, <1>4
  <1>7. \A i \in 0 .. n : i \in S
    BY <1>1, <1>5, <1>6, Climb, Zenon
  <1>8. h[n] = m[n] /\ m[n + 1] = m[n] + more[n + 1]
    BY <1>1, <1>3, <1>7
  <1> QED
    BY <1>1, <1>2, <1>3, <1>8

\* The blocks of a file are a number.
LEMMA BlocksTyped ==
  ASSUME NEW segs \in Seq(Nat)
  PROVE  BlocksOf(segs) \in Nat /\ (segs = <<>> => BlocksOf(segs) = 0)
  <1>1. Len(segs) \in 0 .. Len(segs) /\ (segs = <<>> => Len(segs) = 0)
    OBVIOUS
  <1> QED
    BY <1>1, BlocksSummed

\* Segment k ends within the blocks of the file.
LEMMA BaseWithin ==
  ASSUME NEW segs \in Seq(Nat), NEW k \in 1 .. Len(segs)
  PROVE  /\ BaseOf(segs, k) \in Nat
         /\ BaseOf(segs, k) + segs[k] <= BlocksOf(segs)
  <1> DEFINE n == Len(segs)
             first(i) == SubSeq(segs, 1, i)
             S == {i \in 0 .. n - k :
                     /\ BlocksOf(first(k + i)) \in Nat
                     /\ BlocksOf(first(k)) <= BlocksOf(first(k + i))}
  <1>0. n \in Nat /\ k \in Nat /\ k <= n /\ n - k \in Nat /\ 0 <= k - 1 /\ k - 1 \in Nat
    OBVIOUS
  <1>1. ASSUME NEW i \in 0 .. n
        PROVE  /\ first(i) \in Seq(Nat) /\ Len(first(i)) = i
               /\ \A j \in 1 .. i : first(i)[j] = segs[j]
    OBVIOUS
  <1> HIDE DEF first
  <1>2. ASSUME NEW i \in 1 .. n
        PROVE  /\ BlocksOf(first(i)) = BlocksOf(first(i - 1)) + segs[i]
               /\ BlocksOf(first(i)) \in Nat /\ BlocksOf(first(i - 1)) \in Nat
               /\ segs[i] \in Nat
    <2>1. i - 1 \in 0 .. n /\ i \in 0 .. n /\ i \in 1 .. i /\ segs[i] \in Nat
      OBVIOUS
    <2>2. /\ first(i) \in Seq(Nat) /\ Len(first(i)) = i /\ first(i)[i] = segs[i]
          /\ \A j \in 1 .. i : first(i)[j] = segs[j]
      BY <1>1, <2>1
    <2>3. /\ first(i - 1) \in Seq(Nat) /\ Len(first(i - 1)) = i - 1
          /\ \A j \in 1 .. i - 1 : first(i - 1)[j] = segs[j]
      BY <1>1, <2>1
    <2>4. /\ Len(first(i)) = Len(first(i - 1)) + 1
          /\ \A j \in 1 .. Len(first(i - 1)) : first(i)[j] = first(i - 1)[j]
      <3>1. Len(first(i)) = Len(first(i - 1)) + 1
        BY <2>2, <2>3
      <3>2. ASSUME NEW j \in 1 .. i - 1 PROVE first(i)[j] = first(i - 1)[j]
        <4>1. j \in 1 .. i
          OBVIOUS
        <4> QED
          BY <2>2, <2>3, <4>1
      <3> QED
        BY <2>3, <3>1, <3>2
    <2>5. BlocksOf(first(i)) = BlocksOf(first(i - 1)) + first(i)[Len(first(i))]
      BY <2>2, <2>3, <2>4, BlocksOfLonger
    <2> QED
      BY <2>1, <2>2, <2>3, <2>5, BlocksTyped
  <1>3. 0 \in S
    <2>1. k \in 1 .. n /\ k + 0 = k
      OBVIOUS
    <2>2. BlocksOf(first(k)) \in Nat
      BY <1>2, <2>1
    <2> QED
      BY <1>0, <2>1, <2>2
  <1>4. \A i \in 1 .. n - k : i - 1 \in S => i \in S
    <2> SUFFICES ASSUME NEW i \in 1 .. n - k, i - 1 \in S PROVE i \in S
      OBVIOUS
    <2>1. k + i \in 1 .. n /\ k + i - 1 = k + (i - 1) /\ i \in 0 .. n - k
      BY <1>0
    <2>2. /\ BlocksOf(first(k + i)) = BlocksOf(first(k + (i - 1))) + segs[k + i]
          /\ BlocksOf(first(k + i)) \in Nat /\ BlocksOf(first(k + (i - 1))) \in Nat
          /\ segs[k + i] \in Nat
      BY <1>2, <2>1
    <2>3. BlocksOf(first(k)) \in Nat
      BY <1>2
    <2>4. BlocksOf(first(k)) <= BlocksOf(first(k + (i - 1)))
      OBVIOUS
    <2> QED
      BY <2>1, <2>2, <2>3, <2>4
  <1>5. \A i \in 0 .. n - k : i \in S
    <2> HIDE DEF S
    <2> QED
      BY <1>0, <1>3, <1>4, Climb, Zenon
  <1>6. BlocksOf(first(k)) <= BlocksOf(first(n))
    <2>1. n - k \in 0 .. n - k /\ k + (n - k) = n
      BY <1>0
    <2> QED
      BY <1>5, <2>1
  <1>7. first(n) = segs
    BY DEF first
  <1>8. BaseOf(segs, k) = BlocksOf(first(k - 1))
    BY DEF BaseOf, BlocksOf, first
  <1> QED
    BY <1>2, <1>6, <1>7, <1>8


Length(nd, content) == Len(content) = BlocksOf(nd.segs)

\* The fields of a node.
LEMMA NodeFields ==
  ASSUME NEW nd \in Node
  PROVE  /\ nd = [size |-> nd.size, blocks |-> nd.blocks, segs |-> nd.segs]
         /\ nd.size \in Nat /\ nd.blocks \in Int /\ nd.segs \in Seq(Nat)
         /\ \A i \in 1 .. Len(nd.segs) : nd.segs[i] \in Nat
  BY DEF Node

\* A node is made of its fields.
LEMMA MakeNode ==
  ASSUME NEW size \in Nat, NEW blocks \in Int, NEW segs \in Seq(Nat)
  PROVE  [size |-> size, blocks |-> blocks, segs |-> segs] \in Node
  BY DEF Node

\* What an assignment to one field leaves.
LEMMA NodeExcept ==
  ASSUME NEW nd \in Node, NEW v
  PROVE  /\ [nd EXCEPT !.size = v] = [size |-> v, blocks |-> nd.blocks, segs |-> nd.segs]
         /\ [nd EXCEPT !.blocks = v] = [size |-> nd.size, blocks |-> v, segs |-> nd.segs]
         /\ [nd EXCEPT !.segs = v] = [size |-> nd.size, blocks |-> nd.blocks, segs |-> v]
  BY DEF Node

\* A new node is well typed.
LEMMA EmptyTyped ==
  EmptyNode \in Node /\ EmptyNode.size <= MaxSize /\ Length(EmptyNode, <<>>)
  <1>1. <<>> \in Seq(Nat) /\ Len(<<>>) = 0 /\ BlocksOf(<<>>) = 0
    <2>1. <<>> \in Seq(Nat) /\ Len(<<>>) = 0
      OBVIOUS
    <2> QED
      BY <2>1, BlocksTyped
  <1>2. EmptyNode.size = 0 /\ EmptyNode.segs = <<>>
    BY DEF EmptyNode
  <1>3. EmptyNode \in Node
    BY <1>1 DEF EmptyNode, Node
  <1> QED
    BY <1>1, <1>2, <1>3, MaxSizeAssumption DEF Length

\* What the distributor grants lengthens the last pointer or adds one.
LEMMA GrantedTyped ==
  ASSUME NEW nd \in Node, NEW req \in Nat, NEW outcome
  PROVE  /\ Granted(nd, req, outcome) \in Node
         /\ Granted(nd, req, outcome).size = nd.size
         /\ BlocksOf(Granted(nd, req, outcome).segs) = BlocksOf(nd.segs) + req
  <1> DEFINE n == Len(nd.segs)
  <1>0. /\ nd = [size |-> nd.size, blocks |-> nd.blocks, segs |-> nd.segs]
        /\ nd.size \in Nat /\ nd.blocks \in Int /\ nd.segs \in Seq(Nat)
        /\ nd.blocks + req \in Int
    BY NodeFields
  <1>1. CASE outcome = "extend" /\ nd.segs # <<>>
    <2> DEFINE longer == [nd.segs EXCEPT ![n] = @ + req]
               front == [i \in 1 .. n - 1 |-> nd.segs[i]]
    <2>1. Granted(nd, req, outcome) =
            [size |-> nd.size, blocks |-> nd.blocks + req, segs |-> longer]
      <3>1. Granted(nd, req, outcome) =
              [nd EXCEPT !.segs[n] = @ + req, !.blocks = @ + req]
        BY <1>1 DEF Granted
      <3> QED
        BY <1>0, <3>1
    <2>2. n \in Nat /\ n - 1 \in Nat /\ n = (n - 1) + 1 /\ n \in 1 .. n
      BY <1>0, <1>1
    <2>3. \A i \in 1 .. n : nd.segs[i] \in Nat
      BY NodeFields
    <2>4. /\ longer \in Seq(Nat) /\ Len(longer) = n
          /\ longer[n] = nd.segs[n] + req
          /\ \A i \in 1 .. n - 1 : longer[i] = nd.segs[i]
      <3>1. longer \in [1 .. n -> Nat]
        BY <1>0, <2>2, <2>3
      <3> QED
        BY <1>0, <2>2, <3>1
    <2>5. /\ front \in Seq(Nat) /\ Len(front) = n - 1
          /\ \A i \in 1 .. n - 1 : front[i] = nd.segs[i]
      BY <2>2, <2>3
    <2> HIDE DEF longer, front, n
    <2>6. BlocksOf(longer) = BlocksOf(front) + longer[n]
      <3>1. Len(longer) = Len(front) + 1 /\ \A i \in 1 .. Len(front) : longer[i] = front[i]
        BY <2>2, <2>4, <2>5
      <3> QED
        BY <2>4, <2>5, <3>1, BlocksOfLonger
    <2>7. BlocksOf(nd.segs) = BlocksOf(front) + nd.segs[n]
      <3>1. Len(nd.segs) = Len(front) + 1 /\ \A i \in 1 .. Len(front) : nd.segs[i] = front[i]
        BY <2>2, <2>5 DEF n
      <3> QED
        BY <1>0, <2>5, <3>1, BlocksOfLonger DEF n
    <2>8. BlocksOf(front) \in Nat /\ nd.segs[n] \in Nat
      BY <2>2, <2>3, <2>5, BlocksTyped
    <2>9. BlocksOf(longer) = BlocksOf(nd.segs) + req
      BY <2>4, <2>6, <2>7, <2>8
    <2> QED
      BY <1>0, <2>1, <2>4, <2>9, MakeNode
  <1>2. CASE ~(outcome = "extend" /\ nd.segs # <<>>)
    <2> DEFINE more == Append(nd.segs, req)
    <2>1. Granted(nd, req, outcome) =
            [size |-> nd.size, blocks |-> nd.blocks + req, segs |-> more]
      <3>1. Granted(nd, req, outcome) =
              [nd EXCEPT !.segs = Append(@, req), !.blocks = @ + req]
        BY <1>2 DEF Granted
      <3> QED
        BY <1>0, <3>1
    <2>2. /\ more \in Seq(Nat) /\ Len(more) = n + 1 /\ more[n + 1] = req
          /\ \A i \in 1 .. n : more[i] = nd.segs[i]
      BY <1>0
    <2> HIDE DEF more
    <2>3. BlocksOf(more) = BlocksOf(nd.segs) + more[Len(more)]
      BY <1>0, <2>2, BlocksOfLonger
    <2> QED
      BY <1>0, <2>1, <2>2, <2>3, MakeNode
  <1> QED
    BY <1>1, <1>2

\* After a request the node counts the blocks that the file then has.
LEMMA ReallocTyped ==
  ASSUME NEW nd \in Node, NEW n \in Nat \ {0}, NEW r \in Realloc(nd, n),
         NEW content \in Seq(Values), Length(nd, content)
  PROVE  /\ r.node \in Node /\ r.ret \in Int /\ r.node.size = nd.size
         /\ Extended(content, r.ret) \in Seq(Values)
         /\ Length(r.node, Extended(content, r.ret))
  <1> DEFINE req == IF nd.segs = <<>> THEN n ELSE n - nd.blocks
  <1>0. nd.blocks \in Int /\ BlocksOf(nd.segs) \in Nat /\ Stale \in Values
    BY NodeFields, BlocksTyped DEF Values
  <1>1. CASE r = [node |-> nd, ret |-> 0] \/ r = [node |-> nd, ret |-> -1]
    <2>1. r.node = nd /\ r.ret \in {0, -1}
      BY <1>1
    <2>2. Extended(content, r.ret) = content
      BY <2>1 DEF Extended
    <2> QED
      BY <2>1, <2>2
  <1>2. CASE n > nd.blocks /\ \E outcome : r = [node |-> Granted(nd, req, outcome), ret |-> req]
    <2>1. req \in Nat \ {0}
      BY <1>0, <1>2
    <2> HIDE DEF req
    <2>2. PICK outcome : r = [node |-> Granted(nd, req, outcome), ret |-> req]
      BY <1>2
    <2>3. r.node = Granted(nd, req, outcome) /\ r.ret = req /\ req > 0
      BY <2>1, <2>2
    <2> DEFINE fresh == [i \in 1 .. req |-> Stale]
    <2>4. Extended(content, req) = content \o fresh
      BY <2>3 DEF Extended
    <2>5. fresh \in Seq(Values) /\ Len(fresh) = req
      BY <1>0, <2>1
    <2> HIDE DEF fresh
    <2>6. content \o fresh \in Seq(Values) /\ Len(content \o fresh) = Len(content) + req
      BY <2>5
    <2> QED
      BY <2>1, <2>3, <2>4, <2>6, GrantedTyped DEF Length
  <1>3. \/ r = [node |-> nd, ret |-> 0] \/ r = [node |-> nd, ret |-> -1]
        \/ n > nd.blocks /\ \E outcome : r = [node |-> Granted(nd, req, outcome), ret |-> req]
    BY <1>0 DEF Realloc
  <1> QED
    BY <1>1, <1>2, <1>3


Cursor == [seg : Nat \ {0}, offset : Nat, done : Nat, left : Nat]

\* The calls that come to the distributor and to the copy have a size that
\* the file system allows, and a write copies no more than it was asked to.
CopyInv(t) ==
  /\ pc[t] \in {"fslock", "alloc"} => call[t].op = "write" /\ call[t].to <= MaxSize
  /\ pc[t] = "realloc" => call[t].op = "truncate" /\ call[t].to <= MaxSize
  /\ pc[t] = "copy" =>
       \/ call[t].op = "read"
       \/ /\ call[t].op = "write" /\ call[t].to <= MaxSize
          /\ cursor[t].done + cursor[t].left <= call[t].to - call[t].from

FilesInv ==
  /\ node \in [Files -> Node] /\ image \in [Files -> Node]
  /\ store \in [Files -> Seq(Values)]
  /\ \A f \in Files : node[f].size <= MaxSize /\ Length(node[f], store[f])

LocalsInv ==
  /\ cursor \in [Threads -> Cursor]
  /\ \A t \in Threads : CopyInv(t)

ValuesInv ==
  /\ buf \in [Threads -> [Positions -> Values]]
  /\ last \in [Files -> [Positions -> Values]]
  /\ placed \in [Files -> SUBSET Positions]

SetsInv ==
  /\ paths \subseteq Files /\ dirImage \subseteq Files
  /\ calls \in 0 .. MaxCalls
  /\ overrun \in BOOLEAN

DataInv == FilesInv /\ LocalsInv /\ ValuesInv /\ SetsInv

\* The initial states have DataInv.
LEMMA InitData == Init => DataInv
  <1> SUFFICES ASSUME Init PROVE DataInv
    OBVIOUS
  <1>1. EmptyNode \in Node /\ EmptyNode.size <= MaxSize /\ Length(EmptyNode, <<>>)
    BY EmptyTyped
  <1>2. FilesInv
    <2>1. <<>> \in Seq(Values)
      OBVIOUS
    <2> QED
      BY <1>1, <2>1 DEF Init, FilesInv
  <1>3. NoCursor \in Cursor
    BY DEF NoCursor, Cursor
  <1>4. LocalsInv
    BY <1>3 DEF Init, LocalsInv, CopyInv
  <1>5. Unwritten \in [Positions -> Values]
    BY DEF Unwritten, Values
  <1>6. SetsInv
    <2>1. 0 \in 0 .. MaxCalls
      BY MaxCallsAssumption
    <2>2. calls \in 0 .. MaxCalls
      BY <2>1 DEF Init
    <2>3. paths \subseteq Files /\ dirImage \subseteq Files
      BY DEF Init
    <2>4. overrun \in BOOLEAN
      BY DEF Init
    <2>5. CASE TRUE
      BY <2>2, <2>3, <2>4 DEF Init, SetsInv
    <2> QED
      BY <2>5
  <1>7. ValuesInv
    <2>1. {} \in SUBSET Positions
      OBVIOUS
    <2>2. placed \in [Files -> SUBSET Positions]
      BY <2>1 DEF Init
    <2>3. last \in [Files -> [Positions -> Values]]
      BY <1>5 DEF Init
    <2>4. buf \in [Threads -> [Positions -> Values]]
      BY <1>5 DEF Init
    <2> QED
      BY <2>2, <2>3, <2>4 DEF ValuesInv
  <1> QED
    BY <1>2, <1>4, <1>6, <1>7 DEF DataInv

\* The fields of the calls that have a size.
LEMMA CallSizes ==
  \A c \in Calls \cup {NoCall} :
    /\ c.op = "truncate" => c.to \in Nat
    /\ c.op \in {"read", "write"} => c.from \in Nat /\ c.to \in Nat /\ c.from < c.to
    /\ c.op = "read" => c.from <= SizeSpace
  <1> SUFFICES ASSUME NEW c \in Calls \cup {NoCall}
               PROVE  /\ c.op = "truncate" => c.to \in Nat
                      /\ c.op \in {"read", "write"}
                           => c.from \in Nat /\ c.to \in Nat /\ c.from < c.to
                      /\ c.op = "read" => c.from <= SizeSpace
    OBVIOUS
  <1>1. CASE c.op = "truncate"
    <2>1. c \in [op : {"truncate"}, file : Files, to : Truncations]
      BY <1>1 DEF Calls, NoCall
    <2> QED
      BY <1>1, <2>1, TruncationsAssumption
  <1>2. CASE c.op = "write"
    <2>1. PICK f \in Files, w \in Writes :
            c = [op |-> "write", file |-> f, from |-> w.from, to |-> w.to]
      BY <1>2 DEF Calls, NoCall
    <2>2. w.from \in Nat /\ w.to \in Nat /\ w.from < w.to
      BY WritesAssumption
    <2> QED
      BY <1>2, <2>1, <2>2
  <1>3. CASE c.op = "read"
    <2>1. PICK f \in Files, r \in Reads :
            c = [op |-> "read", file |-> f, from |-> r.from, to |-> r.to]
      BY <1>3 DEF Calls, NoCall
    <2>2. r.from \in Nat /\ r.to \in Nat /\ r.from < r.to /\ r.from <= SizeSpace
      BY ReadsAssumption
    <2> QED
      BY <1>3, <2>1, <2>2
  <1> QED
    BY <1>1, <1>2, <1>3

\* How much a read is to copy: at most what it asked for, and no more than the
\* file has, unless the file ends before it.
LEMMA AskedTyped ==
  ASSUME NEW size \in Nat, NEW from \in Nat, NEW to \in Nat, from < to, from <= SizeSpace
  PROVE  /\ Asked(size, from, to) \in Nat
         /\ to <= size => from + Asked(size, from, to) = to
         /\ ~(to <= size) /\ from <= size => from + Asked(size, from, to) = size
  BY ReadsAssumption DEF Asked

-----------------------------------------------------------------------------
(* The nodes, their blocks and their images.                               *)

\* Another value for one file is well typed.
LEMMA FilesSet ==
  ASSUME FilesInv, NEW f \in Files, NEW nd \in Node, NEW content \in Seq(Values),
         nd.size <= MaxSize, Length(nd, content),
         node' = [node EXCEPT ![f] = nd], store' = [store EXCEPT ![f] = content],
         UNCHANGED image
  PROVE  FilesInv'
  <1>1. node' \in [Files -> Node] /\ store' \in [Files -> Seq(Values)]
    BY DEF FilesInv
  <1>2. ASSUME NEW g \in Files
        PROVE  node'[g].size <= MaxSize /\ Length(node'[g], store'[g])
    <2>1. CASE g = f
      BY <2>1 DEF FilesInv
    <2>2. CASE g # f
      BY <2>2 DEF FilesInv
    <2> QED
      BY <2>1, <2>2
  <1> QED
    BY <1>1, <1>2 DEF FilesInv

\* A write to the device is well typed.
LEMMA FilesImage ==
  ASSUME FilesInv, UNCHANGED <<node, store>>, image' \in [Files -> Node]
  PROVE  FilesInv'
  BY DEF FilesInv

\* Steps that leave the files alone leave them well typed.
LEMMA FilesSame ==
  ASSUME FilesInv, UNCHANGED <<node, store, image>>
  PROVE  FilesInv'
  BY DEF FilesInv

\* A step of a thread leaves files well typed.
LEMMA StepFiles ==
  ASSUME LockInv, FilesInv, LocalsInv, NEW t \in Threads, Begin(t) \/ Step(t)
  PROVE  FilesInv'
  <1> DEFINE c == call[t]
             f == c.file
             nd == node[f]
  <1>0. /\ c \in Calls \cup {NoCall} /\ pc[t] \in Places /\ PlaceInv(t)
        /\ c.op \in FileCalls \cup {"create", "unlink"} => f \in Files
        /\ f \in Files => /\ nd \in Node /\ nd.size <= MaxSize
                          /\ store[f] \in Seq(Values) /\ Length(nd, store[f])
        /\ c.op = "truncate" => c.to \in Nat
        /\ c.op = "write" => c.from \in Nat /\ c.to \in Nat /\ c.from < c.to
        /\ CopyInv(t) /\ MaxSize \in Nat \ {0}
    BY CallShape, CallSizes, MaxSizeAssumption DEF LockInv, FilesInv, LocalsInv
  <1>1. CASE \/ Begin(t) \/ Lock(t) \/ LockDir(t) \/ LockFs(t) \/ CheckRead(t)
             \/ CopyEnds(t) \/ CheckTruncate(t) \/ Add(t) \/ Unlock(t)
    <2>1. UNCHANGED <<node, store, image>>
      BY <1>1 DEF Begin, Lock, LockDir, LockFs, CheckRead, CopyEnds, CheckTruncate,
                  Add, Unlock, memory, device
    <2> QED
      BY <2>1, FilesSame
  <1>2. CASE CheckWrite(t)
    <2>1. c.op = "write" /\ f \in Files /\ UNCHANGED <<store, image>>
      BY <1>0, <1>2 DEF CheckWrite, device, FileCalls
    <2>2. CASE node' = node
      BY <2>1, <2>2, FilesSame
    <2>3. CASE /\ ~(c.to > nd.size /\ c.to > MaxSize)
               /\ node' = [node EXCEPT ![f].size = IF c.to > @ THEN c.to ELSE @]
      <3> DEFINE size == IF c.to > nd.size THEN c.to ELSE nd.size
                 new == [size |-> size, blocks |-> nd.blocks, segs |-> nd.segs]
      <3>1. nd.size \in Nat /\ nd = [size |-> nd.size, blocks |-> nd.blocks, segs |-> nd.segs]
            /\ nd.blocks \in Int /\ nd.segs \in Seq(Nat)
        BY <1>0, <2>1, NodeFields
      <3>2. size \in Nat /\ size <= MaxSize
        BY <1>0, <2>1, <2>3, <3>1
      <3>3. node' = [node EXCEPT ![f] = new]
        <4>1. node' = [node EXCEPT ![f] = [nd EXCEPT !.size = size]]
          BY <2>3
        <4>2. [nd EXCEPT !.size = size] = new
          BY <3>1
        <4> QED
          BY <4>1, <4>2, Zenon
      <3>4. new \in Node /\ new.size <= MaxSize /\ Length(new, store[f])
        <4>1. new.size = size /\ new.segs = nd.segs
          OBVIOUS
        <4>2. Length(nd, store[f])
          BY <1>0, <2>1
        <4>3. new \in Node
          BY <3>1, <3>2, MakeNode
        <4> HIDE DEF new, nd
        <4> QED
          BY <3>2, <4>1, <4>2, <4>3 DEF Length
      <3>5. store' = [store EXCEPT ![f] = store[f]] /\ store[f] \in Seq(Values)
        BY <2>1 DEF FilesInv
      <3> HIDE DEF new, size, f
      <3> QED
        BY <2>1, <3>3, <3>4, <3>5, FilesSet
    <2> QED
      BY <1>2, <2>2, <2>3 DEF CheckWrite
  <1>3. CASE Alloc(t)
    <2>1. /\ c.op = "write" /\ f \in Files /\ c.to \in Nat \ {0} /\ c.to <= MaxSize
          /\ UNCHANGED image
      <3>1. pc[t] = "alloc" /\ UNCHANGED image
        BY <1>3 DEF Alloc, device
      <3>2. c.op = "write" /\ c.to <= MaxSize
        BY <1>0, <3>1 DEF CopyInv
      <3>3. c.to \in Nat /\ c.from < c.to /\ c.from \in Nat
        BY <1>0, <3>2
      <3> QED
        BY <1>0, <3>1, <3>2, <3>3 DEF FileCalls
    <2>2. PICK r \in Realloc(nd, c.to) :
            /\ node' = [node EXCEPT ![f] =
                          [r.node EXCEPT !.blocks = @ + r.ret, !.size = c.to]]
            /\ store' = [store EXCEPT ![f] = Extended(@, r.ret)]
      BY <1>3 DEF Alloc
    <2> DEFINE content == Extended(store[f], r.ret)
               new == [size |-> c.to, blocks |-> r.node.blocks + r.ret, segs |-> r.node.segs]
    <2>3. /\ r.node \in Node /\ r.ret \in Int /\ r.node.size = nd.size
          /\ content \in Seq(Values) /\ Length(r.node, content)
      BY <1>0, <2>1, <2>2, ReallocTyped
    <2>4. /\ r.node = [size |-> r.node.size, blocks |-> r.node.blocks, segs |-> r.node.segs]
          /\ r.node.blocks \in Int /\ r.node.segs \in Seq(Nat)
      BY <2>3, NodeFields
    <2>5. [r.node EXCEPT !.blocks = @ + r.ret, !.size = c.to] = new
      <3> DEFINE x == r.node
                 blocks == x.blocks + r.ret
                 y == [size |-> x.size, blocks |-> blocks, segs |-> x.segs]
      <3>0. x \in Node
        BY <2>3
      <3>1. [x EXCEPT !.blocks = blocks] = y
        <4> HIDE DEF x, blocks
        <4> QED
          BY <3>0, NodeExcept, Zenon
      <3>2. y \in Node /\ y.blocks = blocks /\ y.segs = x.segs
        <4>1. x.size \in Nat /\ blocks \in Int /\ x.segs \in Seq(Nat)
          BY <2>3, <2>4, <3>0, NodeFields
        <4> HIDE DEF x, blocks
        <4> QED
          BY <4>1, MakeNode
      <3>3. [y EXCEPT !.size = c.to] = new
        <4> HIDE DEF y
        <4>1. [y EXCEPT !.size = c.to] = [size |-> c.to, blocks |-> y.blocks, segs |-> y.segs]
          BY <3>2, NodeExcept, Zenon
        <4> QED
          BY <3>2, <4>1
      <3>4. [x EXCEPT !.blocks = @ + r.ret, !.size = c.to] =
              [[x EXCEPT !.blocks = blocks] EXCEPT !.size = c.to]
        OBVIOUS
      <3> QED
        BY <3>1, <3>3, <3>4, Zenon
    <2>6. new \in Node /\ new.size <= MaxSize /\ Length(new, content)
      <3>1. new.size = c.to /\ new.segs = r.node.segs /\ r.node.blocks + r.ret \in Int
        BY <2>3, <2>4
      <3>2. new \in Node
        BY <2>1, <2>4, <3>1, MakeNode
      <3> HIDE DEF new, content
      <3> QED
        BY <2>1, <2>3, <3>1, <3>2 DEF Length
    <2>7. node' = [node EXCEPT ![f] = new] /\ store' = [store EXCEPT ![f] = content]
      BY <2>2, <2>5
    <2> HIDE DEF new, content, f
    <2> QED
      BY <2>1, <2>3, <2>6, <2>7, FilesSet
  <1>4. CASE Truncate(t)
    <2>1. /\ f \in Files /\ c.to \in Nat /\ c.to <= MaxSize
          /\ UNCHANGED image
      <3>1. pc[t] = "realloc" /\ UNCHANGED image
        BY <1>4 DEF Truncate, device
      <3>2. c.op = "truncate" /\ c.to <= MaxSize
        BY <1>0, <3>1 DEF CopyInv
      <3> QED
        BY <1>0, <3>1, <3>2 DEF FileCalls
    <2> DEFINE n == IF c.to < 1 THEN 1 ELSE c.to
    <2>2. PICK r \in Realloc(nd, n) :
            /\ node' = [node EXCEPT ![f] = [r.node EXCEPT !.size = c.to]]
            /\ store' = [store EXCEPT ![f] = Extended(@, r.ret)]
      BY <1>4 DEF Truncate
    <2>3. n \in Nat \ {0}
      BY <2>1
    <2> DEFINE content == Extended(store[f], r.ret)
               new == [size |-> c.to, blocks |-> r.node.blocks, segs |-> r.node.segs]
    <2> HIDE DEF n
    <2>4. /\ r.node \in Node /\ r.ret \in Int /\ r.node.size = nd.size
          /\ content \in Seq(Values) /\ Length(r.node, content)
      BY <1>0, <2>1, <2>2, <2>3, ReallocTyped
    <2>5. /\ r.node = [size |-> r.node.size, blocks |-> r.node.blocks, segs |-> r.node.segs]
          /\ r.node.blocks \in Int /\ r.node.segs \in Seq(Nat)
      BY <2>4, NodeFields
    <2>6. [r.node EXCEPT !.size = c.to] = new
      BY <2>5
    <2>7. new \in Node /\ new.size <= MaxSize /\ Length(new, content)
      <3>1. new.size = c.to /\ new.segs = r.node.segs
        OBVIOUS
      <3>2. new \in Node
        BY <2>1, <2>5, MakeNode
      <3> HIDE DEF new, content
      <3> QED
        BY <2>1, <2>4, <3>1, <3>2 DEF Length
    <2>8. node' = [node EXCEPT ![f] = new] /\ store' = [store EXCEPT ![f] = content]
      BY <2>2, <2>6
    <2> HIDE DEF new, content, f
    <2> QED
      BY <2>1, <2>4, <2>7, <2>8, FilesSet
  <1>5. CASE Copy(t)
    <2>1. pc[t] = "copy" /\ UNCHANGED <<node, image>>
      BY <1>5 DEF Copy, device
    <2>2. CASE store' = store
      BY <2>1, <2>2, FilesSame
    <2>3. CASE store' # store
      <3> DEFINE segs == nd.segs
                 cur == cursor[t]
                 base == BaseOf(segs, cur.seg) + cur.offset
                 len == Piece(segs, cur)
                 content == [i \in DOMAIN store[f] |->
                     IF base < i /\ i <= base + len
                       THEN [tag |-> t, at |-> c.from + cur.done + i - base - 1]
                       ELSE store[f][i]]
      <3>1. /\ c.op = "write" /\ store' = [store EXCEPT ![f] = content]
            /\ segs[cur.seg] > cur.offset /\ cur.seg <= Len(segs)
        BY <1>5, <2>3 DEF Copy
      <3>0. cur.seg <= Len(segs)
        BY <3>1
      <3>2. /\ c.from \in Nat /\ c.to \in Nat /\ c.to <= MaxSize /\ f \in Files
            /\ cur.done + cur.left <= c.to - c.from
        BY <1>0, <2>1, <3>1 DEF CopyInv, FileCalls
      <3>3. /\ cur.done \in Nat /\ cur.left \in Nat /\ cur.offset \in Nat
            /\ cur.seg \in Nat \ {0}
        BY DEF LocalsInv, Cursor
      <3>4. /\ segs \in Seq(Nat) /\ cur.seg \in 1 .. Len(segs) /\ segs[cur.seg] \in Nat
            /\ BaseOf(segs, cur.seg) \in Nat
        <4>1. segs \in Seq(Nat) /\ \A i \in 1 .. Len(segs) : segs[i] \in Nat
          BY <1>0, <3>2, NodeFields
        <4>2. cur.seg \in 1 .. Len(segs)
          BY <3>0, <3>3, <4>1, SMTT(30)
        <4> QED
          BY <4>1, <4>2, BaseWithin
      <3>5. base \in Nat /\ len \in Nat /\ len <= cur.left
        <4> DEFINE o == cur.offset
                   s == segs[cur.seg]
                   l == cur.left
        <4>1. o \in Nat /\ s \in Nat /\ l \in Nat /\ s > o
          BY <3>1, <3>3, <3>4
        <4>2. len = IF l < s - o THEN l ELSE s - o
          BY DEF Piece
        <4>3. base \in Nat
          BY <3>3, <3>4
        <4> HIDE DEF o, s, l, len
        <4> QED
          BY <4>1, <4>2, <4>3 DEF l
      <3> HIDE DEF base, len, cur, segs, c, nd
      <3>6. ASSUME NEW i \in 1 .. Len(store[f])
            PROVE  content[i] \in Values
        <4>1. i \in DOMAIN store[f] /\ store[f][i] \in Values
          BY <3>2 DEF FilesInv
        <4>2. CASE base < i /\ i <= base + len
          <5>1. c.from + cur.done + i - base - 1 \in Positions
            <6> DEFINE from == c.from
                       to == c.to
                       done == cur.done
                       left == cur.left
            <6>1. /\ from \in Nat /\ to \in Nat /\ to <= MaxSize /\ done \in Nat
                  /\ left \in Nat /\ done + left <= to - from
              BY <3>2, <3>3
            <6>2. /\ MaxSize \in Nat /\ i \in Nat /\ base \in Nat /\ len \in Nat
                  /\ len <= left /\ base < i /\ i <= base + len
              BY <1>0, <3>5, <4>2
            <6> HIDE DEF from, to, done, left
            <6>3. from + done + i - base - 1 \in 0 .. MaxSize - 1
              BY <6>1, <6>2
            <6> QED
              BY <6>3 DEF Positions, from, done
          <5> QED
            BY <4>1, <4>2, <5>1 DEF Values
        <4>3. CASE ~(base < i /\ i <= base + len)
          BY <4>1, <4>3
        <4> QED
          BY <4>2, <4>3
      <3>7. content \in Seq(Values) /\ Len(content) = Len(store[f])
        <4>1. DOMAIN content = 1 .. Len(store[f]) /\ Len(store[f]) \in Nat
          BY <3>2 DEF FilesInv
        <4>2. content \in [1 .. Len(store[f]) -> Values]
          BY <3>6, <4>1
        <4> HIDE DEF content
        <4>3. \A k \in Nat : \A x \in [1 .. k -> Values] : x \in Seq(Values) /\ Len(x) = k
          OBVIOUS
        <4> QED
          BY <4>1, <4>2, <4>3, Zenon
      <3>8. Length(nd, content)
        BY <1>0, <3>2, <3>7 DEF Length
      <3>9. node' = [node EXCEPT ![f] = nd] /\ image' = image
        BY <2>1, <3>2 DEF FilesInv, nd
      <3> HIDE DEF content, f
      <3> QED
        BY <1>0, <3>1, <3>2, <3>7, <3>8, <3>9, FilesSet
    <2> QED
      BY <2>2, <2>3
  <1>6. CASE RemoveEntry(t)
    <2>1. /\ f \in Files /\ node' = [node EXCEPT ![f] = EmptyNode]
          /\ store' = [store EXCEPT ![f] = <<>>] /\ UNCHANGED image
      BY <1>0, <1>6 DEF RemoveEntry, PlaceInv, device
    <2>2. EmptyNode \in Node /\ EmptyNode.size <= MaxSize /\ Length(EmptyNode, <<>>)
      BY EmptyTyped
    <2>3. <<>> \in Seq(Values)
      OBVIOUS
    <2> QED
      BY <2>1, <2>2, <2>3, FilesSet
  <1>7. CASE Save(t)
    <2>1. UNCHANGED <<node, store>>
      BY <1>7 DEF Save, memory
    <2>2. image' \in [Files -> Node]
      <3>1. CASE /\ SavesFile(c)
                 /\ image' = [image EXCEPT ![f].size = nd.size, ![f].blocks = nd.blocks]
        <4>1. f \in Files
          BY <1>0, <3>1 DEF SavesFile, FileCalls
        <4> DEFINE im == image[f]
                   new == [size |-> nd.size, blocks |-> nd.blocks, segs |-> im.segs]
        <4>2. /\ im = [size |-> im.size, blocks |-> im.blocks, segs |-> im.segs]
              /\ im.segs \in Seq(Nat)
          <5>1. im \in Node
            BY <4>1 DEF FilesInv
          <5> QED
            BY <5>1, NodeFields
        <4>3. nd.size \in Nat /\ nd.blocks \in Int
          BY <1>0, <4>1, NodeFields
        <4>4. new \in Node
          BY <4>2, <4>3, MakeNode
        <4>5. image' = [image EXCEPT ![f] = new]
          <5>1. image' = [image EXCEPT ![f] = [[im EXCEPT !.size = nd.size] EXCEPT !.blocks = nd.blocks]]
            <6>1. DOMAIN image = Files
              BY DEF FilesInv
            <6> QED
              BY <3>1, <4>1, <6>1
          <5> DEFINE y == [size |-> nd.size, blocks |-> im.blocks, segs |-> im.segs]
          <5>2. [im EXCEPT !.size = nd.size] = y
            <6>1. im \in Node
              BY <4>1 DEF FilesInv
            <6> QED
              BY <6>1, NodeExcept, Zenon
          <5>3. y \in Node /\ y.size = nd.size /\ y.segs = im.segs
            <6>1. im.blocks \in Int
              BY <4>1, NodeFields DEF FilesInv
            <6> QED
              BY <4>2, <4>3, <6>1, MakeNode
          <5>4. [y EXCEPT !.blocks = nd.blocks] = new
            <6> HIDE DEF y
            <6>1. [y EXCEPT !.blocks = nd.blocks] =
                    [size |-> y.size, blocks |-> nd.blocks, segs |-> y.segs]
              BY <5>3, NodeExcept, ZenonT(30)
            <6> QED
              BY <5>3, <6>1
          <5> QED
            BY <5>1, <5>2, <5>4, Zenon
        <4> QED
          BY <4>4, <4>5 DEF FilesInv
      <3>2. CASE c.op = "create" /\ image' = [image EXCEPT ![f] = node[f]]
        BY <1>0, <3>2 DEF FilesInv
      <3>3. CASE image' = image
        BY <3>3 DEF FilesInv
      <3> QED
        BY <1>7, <3>1, <3>2, <3>3 DEF Save
    <2> QED
      BY <2>1, <2>2, FilesImage
  <1>8. CASE SaveBps(t)
    <2>1. UNCHANGED <<node, store>> /\ image' = [image EXCEPT ![f].segs = nd.segs]
      BY <1>8 DEF SaveBps, memory
    <2>2. image' \in [Files -> Node]
      <3>1. CASE f \in Files
        <4> DEFINE im == image[f]
                   new == [size |-> im.size, blocks |-> im.blocks, segs |-> nd.segs]
        <4>1. /\ im = [size |-> im.size, blocks |-> im.blocks, segs |-> im.segs]
              /\ im.size \in Nat /\ im.blocks \in Int
          <5>1. im \in Node
            BY <3>1 DEF FilesInv
          <5> QED
            BY <5>1, NodeFields
        <4>2. nd.segs \in Seq(Nat)
          BY <1>0, <3>1, NodeFields
        <4>3. new \in Node
          BY <4>1, <4>2, MakeNode
        <4>4. image' = [image EXCEPT ![f] = new]
          <5>1. image' = [image EXCEPT ![f] = [im EXCEPT !.segs = nd.segs]]
            BY <2>1
          <5>2. [im EXCEPT !.segs = nd.segs] = new
            BY <4>1
          <5> QED
            BY <5>1, <5>2, Zenon
        <4> QED
          BY <4>3, <4>4 DEF FilesInv
      <3>2. CASE f \notin Files
        <4>1. DOMAIN image = Files
          BY DEF FilesInv
        <4>2. image' = image
          <5>1. image = [g \in Files |-> image[g]]
            BY DEF FilesInv
          <5>2. image' = [g \in Files |-> image[g]]
            <6>1. image' = [g \in Files |-> IF g = f THEN image'[g] ELSE image[g]]
              BY <2>1, <4>1
            <6> QED
              BY <3>2, <6>1
          <5> QED
            BY <5>1, <5>2
        <4> QED
          BY <4>2 DEF FilesInv
      <3> QED
        BY <3>1, <3>2
    <2> QED
      BY <2>1, <2>2, FilesImage
  <1> QED
    BY <1>1, <1>2, <1>3, <1>4, <1>5, <1>6, <1>7, <1>8 DEF Step


-----------------------------------------------------------------------------
(* The locals of a thread.                                                 *)

\* What a step of thread t has to show about t alone.
LEMMA LocalsFrame ==
  ASSUME LockInv, LocalsInv, NEW t \in Threads, NEW l, NEW c, NEW cur \in Cursor,
         pc' = [pc EXCEPT ![t] = l], call' = [call EXCEPT ![t] = c],
         cursor' = [cursor EXCEPT ![t] = cur], CopyInv(t)'
  PROVE  LocalsInv'
  <1>1. cursor' \in [Threads -> Cursor]
    BY DEF LocalsInv
  <1>2. ASSUME NEW u \in Threads, u # t PROVE CopyInv(u)'
    <2>1. pc'[u] = pc[u] /\ call'[u] = call[u] /\ cursor'[u] = cursor[u]
      BY <1>2 DEF LockInv, LocalsInv
    <2>2. CopyInv(u)
      BY DEF LocalsInv
    <2> QED
      BY <2>1, <2>2 DEF CopyInv
  <1>3. \A u \in Threads : CopyInv(u)'
    BY <1>2
  <1> QED
    BY <1>1, <1>3 DEF LocalsInv

\* A step that goes on in its call and leaves the cursor alone.
LEMMA LocalsGoto ==
  ASSUME LockInv, LocalsInv, NEW t \in Threads, NEW l,
         Goto(t, l), UNCHANGED cursor, CopyInv(t)'
  PROVE  LocalsInv'
  <1>1. /\ call' = [call EXCEPT ![t] = call[t]]
        /\ cursor' = [cursor EXCEPT ![t] = cursor[t]] /\ cursor[t] \in Cursor
        /\ pc' = [pc EXCEPT ![t] = l]
    BY DEF LockInv, LocalsInv, Goto
  <1> QED
    BY <1>1, LocalsFrame

\* A return leaves the locals well typed.
LEMMA LocalsReturn ==
  ASSUME LockInv, LocalsInv, NEW t \in Threads, Return(t)
  PROVE  LocalsInv'
  <1>1. /\ pc' = [pc EXCEPT ![t] = "idle"] /\ call' = [call EXCEPT ![t] = NoCall]
        /\ cursor' = [cursor EXCEPT ![t] = NoCursor]
    BY DEF Return
  <1>2. NoCursor \in Cursor
    BY DEF NoCursor, Cursor
  <1>3. CopyInv(t)'
    <2>1. pc'[t] = "idle"
      BY <1>1 DEF LockInv
    <2> QED
      BY <2>1 DEF CopyInv
  <1> QED
    BY <1>1, <1>2, <1>3, LocalsFrame

\* A copy begins with everything left.
LEMMA LocalsCopy ==
  ASSUME LockInv, LocalsInv, NEW t \in Threads, NEW offset \in Nat, NEW n \in Nat,
         Goto(t, "copy"), StartCopy(t, offset, n),
         \/ call[t].op = "read"
         \/ /\ call[t].op = "write" /\ call[t].to <= MaxSize
            /\ n <= call[t].to - call[t].from
  PROVE  LocalsInv'
  <1> DEFINE cur == [seg |-> 1, offset |-> offset, done |-> 0, left |-> n]
  <1>1. /\ pc' = [pc EXCEPT ![t] = "copy"] /\ call' = [call EXCEPT ![t] = call[t]]
        /\ cursor' = [cursor EXCEPT ![t] = cur] /\ cur \in Cursor
    BY DEF Goto, StartCopy, Cursor, LockInv
  <1>2. pc'[t] = "copy" /\ call'[t] = call[t] /\ cursor'[t] = cur
    BY <1>1 DEF LockInv, LocalsInv
  <1>3. cur.done + cur.left = n
    OBVIOUS
  <1> HIDE DEF cur
  <1>4. CopyInv(t)'
    BY <1>2, <1>3 DEF CopyInv
  <1> QED
    BY <1>1, <1>4, LocalsFrame

\* The fields of the cursor of the copy loop.
LEMMA CursorFields ==
  ASSUME NEW cur \in Cursor
  PROVE  /\ cur = [seg |-> cur.seg, offset |-> cur.offset,
                   done |-> cur.done, left |-> cur.left]
         /\ cur.seg \in Nat \ {0} /\ cur.offset \in Nat
         /\ cur.done \in Nat /\ cur.left \in Nat
  BY DEF Cursor

\* One turn of the loop takes from what is left what it adds to the buffer.
LEMMA AdvanceTyped ==
  ASSUME NEW cur \in Cursor, NEW segs \in Seq(Nat), cur.seg <= Len(segs)
  PROVE  /\ Advance(segs, cur) \in Cursor
         /\ Advance(segs, cur).done + Advance(segs, cur).left <= cur.done + cur.left
  <1> DEFINE s == segs[cur.seg]
             k == cur.seg
             o == cur.offset
             d == cur.done
             l == cur.left
             p == IF l < s - o THEN l ELSE s - o
  <1>1. /\ cur = [seg |-> k, offset |-> o, done |-> d, left |-> l]
        /\ k \in Nat \ {0} /\ o \in Nat /\ d \in Nat /\ l \in Nat
    BY CursorFields
  <1>2. s \in Nat
    <2>1. k \in 1 .. Len(segs)
      BY <1>1
    <2> QED
      BY <2>1
  <1>3. CASE s <= o
    <2>1. Advance(segs, cur) = [seg |-> k + 1, offset |-> o - s, done |-> d, left |-> l]
      <3>1. Advance(segs, cur) = [cur EXCEPT !.offset = @ - segs[cur.seg], !.seg = @ + 1]
        BY <1>3 DEF Advance
      <3> QED
        BY <1>1, <3>1
    <2>2. o - s \in Nat /\ k + 1 \in Nat \ {0}
      BY <1>1, <1>2, <1>3
    <2> HIDE DEF s, k, o, d, l
    <2>3. [seg |-> k + 1, offset |-> o - s, done |-> d, left |-> l] \in Cursor
      BY <1>1, <2>2 DEF Cursor
    <2> QED
      BY <1>1, <2>1, <2>3 DEF d, l
  <1>4. CASE ~(s <= o)
    <2>1. Advance(segs, cur) = [seg |-> k + 1, offset |-> 0, done |-> p, left |-> l - p]
      <3>1. Advance(segs, cur) = [cur EXCEPT !.offset = 0, !.seg = @ + 1,
                     !.done = Piece(segs, cur), !.left = @ - Piece(segs, cur)]
        BY <1>4 DEF Advance
      <3>2. Piece(segs, cur) = p
        BY DEF Piece
      <3> HIDE DEF p
      <3> QED
        BY <1>1, <3>1, <3>2
    <2> HIDE DEF s, k, o, d, l
    <2>2. p \in Nat /\ l - p \in Nat /\ p + (l - p) <= d + l /\ k + 1 \in Nat \ {0}
      BY <1>1, <1>2, <1>4
    <2> HIDE DEF p
    <2>3. [seg |-> k + 1, offset |-> 0, done |-> p, left |-> l - p] \in Cursor
      BY <2>2 DEF Cursor
    <2> QED
      BY <2>1, <2>2, <2>3 DEF d, l
  <1> QED
    BY <1>3, <1>4

\* A step of a thread leaves the locals well typed.
LEMMA StepLocals ==
  ASSUME LockInv, FilesInv, LocalsInv, NEW t \in Threads, Begin(t) \/ Step(t)
  PROVE  LocalsInv'
  <1> DEFINE c == call[t]
             nd == node[c.file]
  <1>0. /\ c \in Calls \cup {NoCall} /\ PlaceInv(t) /\ CopyInv(t)
        /\ c.op \in FileCalls => c.file \in Files /\ nd \in Node /\ nd.size <= MaxSize
        /\ c.op = "truncate" => c.to \in Nat
        /\ c.op \in {"read", "write"} => /\ c.from \in Nat /\ c.to \in Nat /\ c.from < c.to
                             /\ c.to - c.from \in Nat
        /\ c.op = "read" => c.from <= SizeSpace
        /\ cursor[t] \in Cursor /\ MaxSize \in Nat \ {0}
    BY CallShape, CallSizes, MaxSizeAssumption DEF LockInv, FilesInv, LocalsInv
  <1>g. \A l : Goto(t, l) => pc'[t] = l /\ call'[t] = c
    BY DEF Goto, LockInv
  <1>1. CASE Begin(t)
    <2>1. PICK d \in Calls, l \in {"lock", "lockdir"} :
            /\ pc' = [pc EXCEPT ![t] = l] /\ call' = [call EXCEPT ![t] = d]
            /\ UNCHANGED cursor
      <3>1. PICK d \in Calls :
              /\ call' = [call EXCEPT ![t] = d]
              /\ pc' = [pc EXCEPT ![t] =
                          IF d.op \in {"create", "readdir"} THEN "lockdir" ELSE "lock"]
        BY <1>1 DEF Begin
      <3>2. UNCHANGED cursor
        BY <1>1 DEF Begin
      <3> QED
        BY <3>1, <3>2
    <2>2. cursor' = [cursor EXCEPT ![t] = cursor[t]]
      BY <2>1 DEF LocalsInv
    <2>3. CopyInv(t)'
      <3>1. pc'[t] = l
        BY <2>1 DEF LockInv
      <3> QED
        BY <3>1 DEF CopyInv
    <2> QED
      BY <1>0, <2>1, <2>2, <2>3, LocalsFrame
  <1>2. CASE Return(t)
    BY <1>2, LocalsReturn
  <1>3. CASE /\ \E l \in {"lockdir", "check", "add", "remove", "unlock", "save", "savebps"} : Goto(t, l)
             /\ UNCHANGED cursor
    <2>1. PICK l \in {"lockdir", "check", "add", "remove", "unlock", "save", "savebps"} : Goto(t, l)
      BY <1>3
    <2>2. CopyInv(t)'
      BY <1>g, <2>1 DEF CopyInv
    <2> QED
      BY <1>3, <2>1, <2>2, LocalsGoto
  <1>4. CASE CheckWrite(t) /\ ~Return(t)
    <2>1. c.op = "write" /\ c.file \in Files /\ nd.size \in Nat /\ nd.size <= MaxSize
      BY <1>0, <1>4, NodeFields DEF CheckWrite, FileCalls
    <2>2. c.to <= MaxSize
      BY <1>0, <1>4, <2>1 DEF CheckWrite
    <2>3. CASE Goto(t, "fslock") /\ UNCHANGED cursor
      <3>1. CopyInv(t)'
        BY <1>g, <2>1, <2>2, <2>3 DEF CopyInv
      <3> QED
        BY <2>3, <3>1, LocalsGoto
    <2>4. CASE Goto(t, "copy") /\ StartCopy(t, c.from, c.to - c.from)
      <3>1. c.to - c.from <= call[t].to - call[t].from
        BY <1>0, <2>1
      <3> QED
        BY <1>0, <2>1, <2>2, <2>4, <3>1, LocalsCopy
    <2> QED
      BY <1>4, <2>3, <2>4 DEF CheckWrite
  <1>5. CASE LockFs(t)
    <2>1. pc[t] = "fslock" /\ Goto(t, "alloc") /\ UNCHANGED cursor
      BY <1>5 DEF LockFs
    <2>2. CopyInv(t)'
      BY <1>0, <1>g, <2>1 DEF CopyInv
    <2> QED
      BY <2>1, <2>2, LocalsGoto
  <1>6. CASE Alloc(t)
    <2>1. pc[t] = "alloc" /\ Goto(t, "copy") /\ StartCopy(t, c.from, c.to - c.from)
      BY <1>6 DEF Alloc
    <2>2. c.op = "write" /\ c.to <= MaxSize
      BY <1>0, <2>1 DEF CopyInv
    <2>3. c.to - c.from <= call[t].to - call[t].from
      BY <1>0, <2>2
    <2> QED
      BY <1>0, <2>1, <2>2, <2>3, LocalsCopy
  <1>7. CASE CheckRead(t)
    <2>1. /\ c.op = "read" /\ Goto(t, "copy")
          /\ StartCopy(t, c.from, Asked(nd.size, c.from, c.to))
      BY <1>7 DEF CheckRead
    <2>2. nd.size \in Nat /\ c.from \in Nat
      BY <1>0, <2>1, NodeFields DEF FileCalls
    <2>3. Asked(nd.size, c.from, c.to) \in Nat
      BY <1>0, <2>1, <2>2, AskedTyped
    <2> QED
      BY <2>1, <2>2, <2>3, LocalsCopy
  <1>8. CASE Copy(t)
    <2> DEFINE cur == Advance(nd.segs, cursor[t])
    <2>1. /\ pc[t] = "copy" /\ cursor[t].seg <= Len(nd.segs)
          /\ cursor' = [cursor EXCEPT ![t] = cur]
          /\ Goto(t, "copy") \/ Goto(t, "unlock")
      BY <1>8 DEF Copy
    <2>2. PICK l \in {"copy", "unlock"} : Goto(t, l)
      BY <2>1
    <2>3. nd.segs \in Seq(Nat)
      BY <1>0, <2>1, NodeFields DEF PlaceInv
    <2>4. /\ cur \in Cursor
          /\ cur.done + cur.left <= cursor[t].done + cursor[t].left
      BY <1>0, <2>1, <2>3, AdvanceTyped
    <2> HIDE DEF cur
    <2>5. CopyInv(t)'
      <3>1. pc'[t] = l /\ call'[t] = c /\ cursor'[t] = cur
        BY <1>g, <2>1, <2>2 DEF LocalsInv
      <3>2. CASE l = "unlock"
        BY <3>1, <3>2 DEF CopyInv
      <3>3. CASE l = "copy" /\ c.op = "read"
        BY <3>1, <3>3 DEF CopyInv
      <3>4. CASE l = "copy" /\ c.op = "write"
        <4> DEFINE now == cursor[t].done + cursor[t].left
                   then == cur.done + cur.left
                   want == c.to - c.from
        <4>1. now <= want /\ c.to <= MaxSize
          BY <1>0, <2>1, <3>4 DEF CopyInv
        <4>2. now \in Nat /\ then \in Nat /\ want \in Nat /\ then <= now
          BY <1>0, <2>4, <3>4, CursorFields
        <4> HIDE DEF now, then, want
        <4>3. then <= want
          BY <4>1, <4>2
        <4>4. cursor'[t].done + cursor'[t].left <= call'[t].to - call'[t].from
          BY <3>1, <4>3 DEF then, want
        <4> QED
          BY <3>1, <3>4, <4>1, <4>4 DEF CopyInv
      <3> QED
        BY <1>0, <2>1, <3>2, <3>3, <3>4 DEF CopyInv
    <2>6. pc' = [pc EXCEPT ![t] = l] /\ call' = [call EXCEPT ![t] = c]
      BY <2>2 DEF Goto, LockInv
    <2> QED
      BY <2>1, <2>4, <2>5, <2>6, LocalsFrame
  <1>9. CASE CheckTruncate(t) /\ ~Return(t)
    <2>1. /\ pc[t] = "check" /\ c.op = "truncate" /\ ~(c.to > MaxSize)
          /\ Goto(t, "realloc") /\ UNCHANGED cursor
      BY <1>9 DEF CheckTruncate
    <2>2. c.to <= MaxSize
      BY <1>0, <2>1
    <2>3. CopyInv(t)'
      BY <1>g, <2>1, <2>2 DEF CopyInv
    <2> QED
      BY <2>1, <2>3, LocalsGoto
  <1>10. \/ Begin(t) \/ Return(t) \/ CheckWrite(t) \/ LockFs(t) \/ Alloc(t)
         \/ CheckRead(t) \/ Copy(t) \/ CheckTruncate(t)
         \/ /\ \E l \in {"lockdir", "check", "add", "remove", "unlock", "save", "savebps"} : Goto(t, l)
            /\ UNCHANGED cursor
    BY DEF Step, Lock, LockDir, CopyEnds, Truncate, Add, RemoveEntry, Unlock, Save, SaveBps
  <1> QED
    BY <1>1, <1>2, <1>3, <1>4, <1>5, <1>6, <1>7, <1>8, <1>9, <1>10

-----------------------------------------------------------------------------
(* What is read and what is to be kept.                                    *)

\* A step of a thread leaves buffers and last written values well typed.
LEMMA StepValues ==
  ASSUME LockInv, FilesInv, LocalsInv, ValuesInv, NEW t \in Threads, Begin(t) \/ Step(t)
  PROVE  ValuesInv'
  <1> DEFINE c == call[t]
             f == c.file
             segs == node[f].segs
             cur == cursor[t]
  <1>0. /\ c \in Calls \cup {NoCall} /\ PlaceInv(t) /\ cur \in Cursor
        /\ c.op \in FileCalls \cup {"unlink"} => f \in Files /\ node[f] \in Node
        /\ c.op = "write" => c.from \in Nat /\ c.to \in Nat
    BY CallShape, CallSizes DEF LockInv, FilesInv, LocalsInv
  <1>u. Unwritten \in [Positions -> Values] /\ None \in Values
    BY DEF Unwritten, Values
  <1>1. buf' \in [Threads -> [Positions -> Values]]
    <2>1. CASE buf' = buf
      BY <2>1 DEF ValuesInv
    <2>2. CASE buf' = [buf EXCEPT ![t] = Unwritten]
      BY <1>u, <2>2 DEF ValuesInv
    <2>3. CASE Copy(t) /\ buf' # buf
      <3> DEFINE base == BaseOf(segs, cur.seg) + cur.offset
                 len == Piece(segs, cur)
                 new == [p \in Positions |->
                     IF cur.done <= p /\ p < cur.done + len
                       THEN store[f][base + p - cur.done + 1]
                       ELSE buf[t][p]]
      <3>1. /\ pc[t] = "copy" /\ cur.seg <= Len(segs) /\ segs[cur.seg] > cur.offset
            /\ buf' = [buf EXCEPT ![t] = new]
        BY <2>3 DEF Copy
      <3>0. cur.seg <= Len(segs) /\ segs[cur.seg] > cur.offset
        BY <3>1
      <3>2. /\ f \in Files /\ segs \in Seq(Nat) /\ store[f] \in Seq(Values)
            /\ Len(store[f]) = BlocksOf(segs)
        <4>1. c.op \in FileCalls
          BY <1>0, <3>1 DEF PlaceInv
        <4> QED
          BY <1>0, <4>1, NodeFields DEF FilesInv, Length
      <3>3. /\ cur.seg \in Nat \ {0} /\ cur.offset \in Nat
            /\ cur.done \in Nat /\ cur.left \in Nat
        BY <1>0, CursorFields
      <3>4. /\ cur.seg \in 1 .. Len(segs) /\ segs[cur.seg] \in Nat
            /\ BaseOf(segs, cur.seg) \in Nat
            /\ BaseOf(segs, cur.seg) + segs[cur.seg] <= Len(store[f])
        <4>1. cur.seg \in 1 .. Len(segs)
          BY <3>0, <3>2, <3>3, SMTT(30)
        <4>2. segs[cur.seg] \in Nat
          BY <3>2, <4>1
        <4> QED
          BY <3>2, <4>1, <4>2, BaseWithin
      <3>5. /\ base \in Nat /\ len \in Nat /\ base + len <= Len(store[f])
        <4> DEFINE s == segs[cur.seg]
                   o == cur.offset
                   l == cur.left
                   b == BaseOf(segs, cur.seg)
                   n == Len(store[f])
        <4>1. /\ s \in Nat /\ o \in Nat /\ l \in Nat /\ b \in Nat /\ n \in Nat
              /\ b + s <= n /\ s > o
          BY <3>0, <3>2, <3>3, <3>4, SMTT(30)
        <4>2. len = IF l < s - o THEN l ELSE s - o
          BY DEF Piece
        <4>3. base = b + o
          OBVIOUS
        <4> HIDE DEF s, o, l, b, n, base, len
        <4>4. base \in Nat /\ len \in Nat /\ base + len <= n
          BY <4>1, <4>2, <4>3
        <4> QED
          BY <4>4 DEF n
      <3> HIDE DEF base, len
      <3>6. ASSUME NEW p \in Positions, cur.done <= p, p < cur.done + len
            PROVE  store[f][base + p - cur.done + 1] \in Values
        <4> DEFINE n == Len(store[f])
                   d == cur.done
        <4>1. p \in Nat /\ d \in Nat /\ n \in Nat /\ d <= p /\ p < d + len /\ base + len <= n
          BY <3>2, <3>3, <3>5, <3>6, MaxSizeAssumption DEF Positions
        <4> HIDE DEF n, d
        <4>2. base + p - d + 1 \in 1 .. n
          BY <3>5, <4>1
        <4> QED
          BY <3>2, <4>2 DEF n, d
      <3>7. new \in [Positions -> Values]
        <4>1. \A p \in Positions : buf[t][p] \in Values
          BY DEF ValuesInv
        <4> HIDE DEF cur, f
        <4> QED
          BY <3>6, <4>1
      <3> HIDE DEF new
      <3> QED
        BY <3>1, <3>7 DEF ValuesInv
    <2> QED
      BY <2>1, <2>2, <2>3 DEF Begin, Step, Lock, LockDir, CheckWrite, LockFs, Alloc,
           CheckRead, CopyEnds, CheckTruncate, Truncate, Add, RemoveEntry, Unlock,
           Save, SaveBps, Return
  <1>2. last' \in [Files -> [Positions -> Values]]
    <2>1. CASE last' = last
      BY <2>1 DEF ValuesInv
    <2>2. CASE last' = [last EXCEPT ![f] = Unwritten]
      BY <1>u, <2>2 DEF ValuesInv
    <2>3. CASE last' = [last EXCEPT ![f] =
                          [p \in Positions |-> IF p < c.to THEN @[p] ELSE None]]
      <3> DEFINE new == [p \in Positions |-> IF p < c.to THEN last[f][p] ELSE None]
      <3>1. f \in Files => new \in [Positions -> Values]
        BY <1>u DEF ValuesInv
      <3>2. last' = [last EXCEPT ![f] = new]
        BY <2>3
      <3> HIDE DEF new
      <3> QED
        BY <3>1, <3>2 DEF ValuesInv
    <2>4. CASE last' = Keep(t)
      <3> DEFINE new == [p \in Positions |->
                           IF c.from <= p /\ p < c.to THEN [tag |-> t, at |-> p] ELSE last[f][p]]
      <3>1. f \in Files => new \in [Positions -> Values]
        <4>1. \A p \in Positions : [tag |-> t, at |-> p] \in Values
          BY DEF Values
        <4> QED
          BY <4>1 DEF ValuesInv
      <3>2. last' = [last EXCEPT ![f] = new]
        BY <2>4 DEF Keep
      <3> HIDE DEF new
      <3> QED
        BY <3>1, <3>2 DEF ValuesInv
    <2> QED
      BY <2>1, <2>2, <2>3, <2>4 DEF Begin, Step, Lock, LockDir, CheckWrite, LockFs, Alloc,
           CheckRead, Copy, CopyEnds, CheckTruncate, Truncate, Add, RemoveEntry, Unlock,
           Save, SaveBps
  <1>3. placed' \in [Files -> SUBSET Positions]
    <2>1. placed' = placed \/ placed' = Place(t)
      BY DEF Begin, Step, Lock, LockDir, CheckWrite, LockFs, Alloc, CheckRead, Copy,
             CopyEnds, CheckTruncate, Truncate, Add, RemoveEntry, Unlock, Save, SaveBps
    <2> QED
      BY <2>1 DEF ValuesInv, Place
  <1> QED
    BY <1>1, <1>2, <1>3 DEF ValuesInv

\* A step of a thread leaves the names and the number of calls well typed.
LEMMA StepSets ==
  ASSUME LockInv, SetsInv, NEW t \in Threads, Begin(t) \/ Step(t)
  PROVE  SetsInv'
  <1>1. paths' \subseteq Files /\ dirImage' \subseteq Files
    <2>1. CASE Add(t)
      <3>1. call[t].file \in Files /\ paths' = paths \cup {call[t].file} /\ dirImage' = dirImage
        BY <2>1, CallShape DEF Add, LockInv, PlaceInv, device
      <3> QED
        BY <3>1 DEF SetsInv
    <2>2. CASE paths' \in {paths, paths \ {call[t].file}} /\ dirImage' \in {dirImage, paths}
      BY <2>2 DEF SetsInv
    <2> QED
      BY <2>1, <2>2 DEF Begin, Step, Lock, LockDir, CheckWrite, LockFs, Alloc, CheckRead,
           Copy, CopyEnds, CheckTruncate, Truncate, RemoveEntry, Unlock, Save,
           SaveBps, memory, device
  <1>2. calls' \in 0 .. MaxCalls
    <2>1. calls' = calls \/ (calls < MaxCalls /\ calls' = calls + 1)
      BY DEF Begin, Step, Lock, LockDir, CheckWrite, LockFs, Alloc, CheckRead, Copy,
             CopyEnds, CheckTruncate, Truncate, Add, RemoveEntry, Unlock, Save, SaveBps
    <2> QED
      BY <2>1, MaxCallsAssumption DEF SetsInv
  <1>3. overrun' \in BOOLEAN
    <2>1. overrun' = overrun \/ overrun' \in BOOLEAN
      BY DEF Begin, Step, Lock, LockDir, CheckWrite, LockFs, Alloc, CheckRead, Copy,
             CopyEnds, CheckTruncate, Truncate, Add, RemoveEntry, Unlock, Save, SaveBps
    <2> QED
      BY <2>1 DEF SetsInv
  <1> QED
    BY <1>1, <1>2, <1>3 DEF SetsInv

\* A step that changes nothing preserves DataInv.
LEMMA StutterData == DataInv /\ UNCHANGED vars => DataInv'
  BY DEF DataInv, FilesInv, LocalsInv, CopyInv, ValuesInv, SetsInv, Length,
         vars, memory, device

\* The types, and that a file has as many blocks as its pointers count, always
\* hold.
LEMMA DataHolds == Spec => []DataInv
  <1>1. LockInv /\ DataInv /\ [Next]_vars => DataInv'
    <2> SUFFICES ASSUME LockInv, DataInv, [Next]_vars PROVE DataInv'
      OBVIOUS
    <2>1. CASE UNCHANGED vars
      BY <2>1, StutterData
    <2>2. CASE Next
      <3>1. PICK t \in Threads : Begin(t) \/ Step(t)
        BY <2>2 DEF Next
      <3> QED
        BY <3>1, StepFiles, StepLocals, StepValues, StepSets DEF DataInv
    <2> QED
      BY <2>1, <2>2
  <1> QED
    BY LocksHold, InitData, <1>1, PTL DEF Spec

\* Every variable stays within its type, for any threads, files and sizes: no
\* write is kept past the end of the positions, a copy never reads or writes
\* outside the blocks of its file, whatever block pointers it has, and no file
\* grows beyond MAX_FILE_SIZE, although a denied request moves st_blocks.
THEOREM TypeCorrect == Spec => []TypeOK
  <1>1. LockInv /\ DataInv => TypeOK
    <2> SUFFICES ASSUME LockInv, DataInv PROVE TypeOK
      OBVIOUS
    <2>1. cursor \in [Threads -> [seg : Nat, offset : Nat, done : Nat, left : Nat]]
      BY DEF DataInv, LocalsInv, Cursor
    <2> QED
      BY <2>1 DEF DataInv, FilesInv, ValuesInv, SetsInv, LockInv, Places, TypeOK
  <1> QED
    BY LocksHold, DataHolds, <1>1, PTL

-----------------------------------------------------------------------------
(* What is read.  A call copies the positions from Start(t) to End(t), one *)
(* block pointer after the other.  In the first two block pointers it      *)
(* comes to, the place in the buffer, which each piece sets to its own     *)
(* length, is still how much has been copied; in a third it is not.        *)

Start(t) == call[t].from
End(t) ==
  IF call[t].op = "write" THEN call[t].to
  ELSE call[t].from + Asked(node[call[t].file].size, call[t].from, call[t].to)

\* The copy is in its first piece, in its second, or has lost its place.
Place3(cur, segs, from, pos) ==
  \/ cur.done = 0 /\ pos = from
  \/ cur.done = pos - from /\ from < pos /\ cur.offset = 0
  \/ ~ InPlace(segs, from, pos + 1)
  \/ cur.seg > Len(segs)

\* Where a copy of the positions from .. to - 1 is in the blocks of a file.
At(cur, segs, from, to) ==
  /\ cur.seg <= Len(segs) + 1
  /\ cur.left <= to - from
  /\ BaseOf(segs, cur.seg) + cur.offset = to - cur.left
  /\ Place3(cur, segs, from, to - cur.left)

\* What t has copied, up to position n, as far as it has kept its place: a piece
\* that a read puts in the wrong place may hide an earlier one.
Moved(t, n) ==
  LET f == call[t].file
  IN  \A p \in Positions :
        /\ Start(t) <= p /\ p < n /\ p < Len(store[f])
        /\ InPlace(node[f].segs, Start(t), IF call[t].op = "write" THEN p + 1 ELSE End(t))
        => IF call[t].op = "write" THEN store[f][p + 1] = [tag |-> t, at |-> p]
           ELSE buf[t][p - Start(t)] = store[f][p + 1]

CallInv(t) ==
  /\ pc[t] = "copy" => /\ At(cursor[t], node[call[t].file].segs, Start(t), End(t))
                       /\ Moved(t, End(t) - cursor[t].left)
  /\ pc[t] = "unlock" /\ call[t].op \in {"read", "write"} => Moved(t, End(t))

Writing(t, f) ==
  pc[t] \in {"copy", "unlock"} /\ call[t].op = "write" /\ call[t].file = f

\* The blocks hold what was written last, where that write kept its place and
\* where it is not being overwritten.
KeptInv(f) ==
  \A p \in Positions : p \in placed[f] /\ last[f][p] # None =>
    /\ p < Len(store[f])
    /\ \/ store[f][p + 1] = last[f][p]
       \/ \E t \in Threads : Writing(t, f) /\ call[t].from <= p /\ p < call[t].to

ContentInv ==
  /\ \A t \in Threads : CallInv(t)
  /\ \A f \in Files : KeptInv(f)

\* Where the block pointers of a file begin and end in its blocks.
LEMMA BaseSteps ==
  ASSUME NEW segs \in Seq(Nat)
  PROVE  /\ BaseOf(segs, 1) = 0
         /\ BaseOf(segs, Len(segs) + 1) = BlocksOf(segs)
         /\ \A k \in 1 .. Len(segs) :
              /\ BaseOf(segs, k) \in Nat
              /\ BaseOf(segs, k + 1) = BaseOf(segs, k) + segs[k]
  <1> DEFINE n == Len(segs)
             first(i) == SubSeq(segs, 1, i)
  <1>0. n \in Nat
    OBVIOUS
  <1>1. ASSUME NEW i \in 0 .. n
        PROVE  /\ first(i) \in Seq(Nat) /\ Len(first(i)) = i
               /\ \A j \in 1 .. i : first(i)[j] = segs[j]
    OBVIOUS
  <1>2. first(n) = segs /\ first(0) = <<>>
    OBVIOUS
  <1>3. \A k : BaseOf(segs, k) = BlocksOf(first(k - 1))
    BY DEF BaseOf, BlocksOf
  <1> HIDE DEF first
  <1>4. BaseOf(segs, 1) = 0
    <2>1. 1 - 1 = 0 /\ <<>> \in Seq(Nat)
      OBVIOUS
    <2>2. BlocksOf(<<>>) = 0
      BY <2>1, BlocksTyped
    <2> QED
      BY <1>2, <1>3, <2>1, <2>2
  <1>5. BaseOf(segs, n + 1) = BlocksOf(segs)
    <2>1. (n + 1) - 1 = n
      BY <1>0
    <2> QED
      BY <1>2, <1>3, <2>1
  <1>6. ASSUME NEW k \in 1 .. n
        PROVE  /\ BaseOf(segs, k) \in Nat
               /\ BaseOf(segs, k + 1) = BaseOf(segs, k) + segs[k]
    <2>1. k - 1 \in 0 .. n /\ k \in 0 .. n /\ k \in 1 .. k /\ (k + 1) - 1 = k
      OBVIOUS
    <2>2. /\ first(k) \in Seq(Nat) /\ Len(first(k)) = k /\ first(k)[k] = segs[k]
          /\ \A j \in 1 .. k : first(k)[j] = segs[j]
      BY <1>1, <2>1
    <2>3. /\ first(k - 1) \in Seq(Nat) /\ Len(first(k - 1)) = k - 1
          /\ \A j \in 1 .. k - 1 : first(k - 1)[j] = segs[j]
      BY <1>1, <2>1
    <2>4. /\ Len(first(k)) = Len(first(k - 1)) + 1
          /\ \A j \in 1 .. Len(first(k - 1)) : first(k)[j] = first(k - 1)[j]
      <3>1. Len(first(k)) = Len(first(k - 1)) + 1
        BY <2>2, <2>3
      <3>2. ASSUME NEW j \in 1 .. k - 1 PROVE first(k)[j] = first(k - 1)[j]
        <4>1. j \in 1 .. k
          OBVIOUS
        <4> QED
          BY <2>2, <2>3, <4>1
      <3> QED
        BY <2>3, <3>1, <3>2
    <2>5. BlocksOf(first(k)) = BlocksOf(first(k - 1)) + first(k)[Len(first(k))]
      BY <2>2, <2>3, <2>4, BlocksOfLonger
    <2> QED
      BY <1>3, <2>1, <2>2, <2>3, <2>5, BlocksTyped
  <1> QED
    BY <1>4, <1>5, <1>6

\* Where the block pointers begin, for those that begin behind `from`.
LEMMA InPlaceLost ==
  ASSUME NEW segs \in Seq(Nat), NEW from \in Nat, NEW k \in 1 .. Len(segs),
         k + 1 <= Len(segs), from < BaseOf(segs, k), segs[k] > 0
  PROVE  ~ InPlace(segs, from, BaseOf(segs, k + 1) + 1)
  <1>1. k + 1 \in 1 .. Len(segs) /\ segs[k] \in Nat
    OBVIOUS
  <1>2. /\ BaseOf(segs, k) \in Nat /\ BaseOf(segs, k + 1) \in Nat
        /\ BaseOf(segs, k + 1) = BaseOf(segs, k) + segs[k]
    BY <1>1, BaseSteps
  <1>3. BaseOf(segs, k) \in Begins(segs) /\ BaseOf(segs, k + 1) \in Begins(segs)
    BY <1>1 DEF Begins
  <1>4. BaseOf(segs, k) < BaseOf(segs, k + 1) /\ BaseOf(segs, k + 1) < BaseOf(segs, k + 1) + 1
    BY <1>1, <1>2
  <1> QED
    BY <1>3, <1>4 DEF InPlace

\* A copy that comes to more positions does not come to fewer block pointers.
LEMMA InPlaceLess ==
  ASSUME NEW segs \in Seq(Nat), NEW from \in Nat, NEW n \in Int, NEW m \in Int, n <= m,
         InPlace(segs, from, m)
  PROVE  InPlace(segs, from, n)
  <1>1. \A b \in Begins(segs) : b \in Nat
    BY BaseSteps DEF Begins
  <1> QED
    BY <1>1 DEF InPlace

\* One turn of the copy loop: the piece lies where the copy has come to in the
\* blocks, and in the buffer unless the copy has come to a third block pointer.
LEMMA AdvanceMoves ==
  ASSUME NEW cur \in Cursor, NEW segs \in Seq(Nat),
         cur.seg <= Len(segs), NEW from \in Nat, NEW to \in Nat,
         At(cur, segs, from, to)
  PROVE  /\ segs[cur.seg] <= cur.offset \/ Advance(segs, cur).left # 0
              => At(Advance(segs, cur), segs, from, to)
         /\ Advance(segs, cur).left \in Nat
         /\ segs[cur.seg] <= cur.offset => Advance(segs, cur).left = cur.left
         /\ segs[cur.seg] > cur.offset =>
              /\ Advance(segs, cur).left = cur.left - Piece(segs, cur)
              /\ Piece(segs, cur) \in Nat
              /\ BaseOf(segs, cur.seg) + cur.offset = to - cur.left
              /\ \/ cur.done = (to - cur.left) - from
                 \/ ~ InPlace(segs, from, (to - cur.left) + 1)
  <1> DEFINE s == segs[cur.seg]
             k == cur.seg
             o == cur.offset
             d == cur.done
             l == cur.left
             p == IF l < s - o THEN l ELSE s - o
             b == BaseOf(segs, k)
             e == BaseOf(segs, k + 1)
             n == Len(segs)
             lost == ~ InPlace(segs, from, (to - l) + 1)
  <1>1. /\ cur = [seg |-> k, offset |-> o, done |-> d, left |-> l]
        /\ k \in Nat \ {0} /\ o \in Nat /\ d \in Nat /\ l \in Nat /\ n \in Nat
    BY CursorFields
  <1>2. k \in 1 .. n
    BY <1>1
  <1>3. s \in Nat /\ b \in Nat /\ e = b + s
    BY <1>2, BaseSteps
  <1>4. /\ l <= to - from /\ b + o = to - l /\ k <= n
        /\ \/ d = 0 /\ to - l = from
           \/ d = (to - l) - from /\ from < to - l /\ o = 0
           \/ lost
    BY <1>1, <1>2 DEF At, Place3
  <1>5. Piece(segs, cur) = p
    BY DEF Piece
  <1>6. CASE s <= o
    <2> DEFINE new == [seg |-> k + 1, offset |-> o - s, done |-> d, left |-> l]
    <2>1. Advance(segs, cur) = new
      <3>1. Advance(segs, cur) = [cur EXCEPT !.offset = @ - segs[cur.seg], !.seg = @ + 1]
        BY <1>6 DEF Advance
      <3> QED
        BY <1>1, <3>1
    <2>2. /\ new.seg = k + 1 /\ new.offset = o - s /\ new.done = d /\ new.left = l
      OBVIOUS
    <2> HIDE DEF s, k, o, d, l, p, b, e, n, new, lost
    <2>3. /\ k + 1 <= n + 1 /\ l <= to - from /\ e + (o - s) = to - l
          /\ \/ d = 0 /\ to - l = from
             \/ d = (to - l) - from /\ from < to - l /\ o - s = 0
             \/ lost
      BY <1>1, <1>2, <1>3, <1>4, <1>6
    <2>4. Place3(new, segs, from, to - l)
      BY <2>2, <2>3 DEF Place3, lost
    <2>5. At(new, segs, from, to)
      BY <2>2, <2>3, <2>4 DEF At, e, n
    <2> QED
      BY <1>1, <1>6, <2>1, <2>2, <2>5, SMTT(30) DEF s, o, l
  <1>7. CASE ~(s <= o)
    <2> DEFINE new == [seg |-> k + 1, offset |-> 0, done |-> p, left |-> l - p]
    <2>1. Advance(segs, cur) = new
      <3>1. Advance(segs, cur) = [cur EXCEPT !.offset = 0, !.seg = @ + 1,
                     !.done = Piece(segs, cur), !.left = @ - Piece(segs, cur)]
        BY <1>7 DEF Advance
      <3> HIDE DEF p
      <3> QED
        BY <1>1, <1>5, <3>1
    <2>2. /\ new.seg = k + 1 /\ new.offset = 0 /\ new.done = p /\ new.left = l - p
      OBVIOUS
    <2>l. ASSUME from < b, k + 1 <= n PROVE ~ InPlace(segs, from, e + 1)
      <3>1. segs[k] > 0
        BY <1>1, <1>3, <1>7
      <3> QED
        BY <1>2, <2>l, <3>1, InPlaceLost
    <2> HIDE DEF s, k, o, d, l, b, e, n, new, lost
    <2>3. p \in Nat /\ l - p \in Nat /\ s > o /\ (d = (to - l) - from \/ lost)
      BY <1>1, <1>3, <1>4, <1>7
    <2>4. ASSUME l - p # 0 PROVE At(new, segs, from, to)
      <3>1. p = s - o
        BY <1>1, <1>3, <2>4
      <3>2. /\ k + 1 <= n + 1 /\ l - p <= to - from /\ e + 0 = to - (l - p)
            /\ to - (l - p) = e /\ (to - l) + 1 <= e + 1 /\ e \in Nat /\ to - l \in Int
        BY <1>1, <1>3, <1>4, <1>7, <3>1
      <3>3. Place3(new, segs, from, e)
        <4>1. CASE d = 0 /\ to - l = from
          <5>1. p = e - from /\ from < e
            BY <1>1, <1>3, <1>4, <1>7, <3>1, <3>2, <4>1
          <5> QED
            BY <2>2, <5>1 DEF Place3
        <4>2. CASE d = (to - l) - from /\ from < to - l /\ o = 0
          <5>1. CASE k + 1 <= n
            <6>1. from < b
              BY <1>1, <1>3, <1>4, <4>2
            <6> QED
              BY <2>l, <5>1, <6>1 DEF Place3
          <5>2. CASE ~(k + 1 <= n)
            <6>1. k + 1 > n
              BY <1>1, <5>2
            <6> QED
              BY <2>2, <6>1 DEF Place3, n
          <5> QED
            BY <5>1, <5>2
        <4>3. CASE lost
          <5>1. ~ InPlace(segs, from, e + 1)
            <6>1. (to - l) + 1 \in Int /\ e + 1 \in Int
              BY <3>2
            <6> QED
              BY <3>2, <4>3, <6>1, InPlaceLess DEF lost
          <5> QED
            BY <5>1 DEF Place3
        <4> QED
          BY <1>4, <4>1, <4>2, <4>3
      <3> QED
        BY <2>2, <3>2, <3>3 DEF At, e, n
    <2> HIDE DEF p
    <2> QED
      BY <1>4, <1>5, <1>7, <2>1, <2>2, <2>3, <2>4 DEF s, o, l, d, b, k, lost
  <1> QED
    BY <1>6, <1>7

\* A copy that has come to the end of the block pointers has come to the end of
\* the blocks.
LEMMA CopyOver ==
  ASSUME NEW cur \in Cursor, NEW segs \in Seq(Nat), cur.seg > Len(segs),
         NEW from \in Nat, NEW to \in Nat, At(cur, segs, from, to)
  PROVE  BlocksOf(segs) <= to - cur.left
  <1> DEFINE o == cur.offset
             l == cur.left
             b == BlocksOf(segs)
  <1>1. o \in Nat /\ l \in Nat /\ b \in Nat /\ cur.seg \in Nat /\ Len(segs) \in Nat
    BY CursorFields, BlocksTyped
  <1>2. cur.seg = Len(segs) + 1
    BY <1>1 DEF At
  <1>3. b + o = to - l
    BY <1>2, BaseSteps DEF At
  <1> HIDE DEF o, l, b
  <1>4. b <= to - l
    BY <1>1, <1>3
  <1> QED
    BY <1>4 DEF l, b

\* Blocks that come to a file leave the others where they are.
LEMMA ExtendedKeeps ==
  ASSUME NEW content \in Seq(Values), NEW ret \in Int, NEW i \in 1 .. Len(content)
  PROVE  Extended(content, ret)[i] = content[i]
  <1>1. CASE ret > 0
    <2> DEFINE fresh == [j \in 1 .. ret |-> Stale]
    <2>1. fresh \in Seq(Values) /\ Extended(content, ret) = content \o fresh
      BY <1>1 DEF Extended, Values
    <2> HIDE DEF fresh
    <2> QED
      BY <2>1
  <1>2. CASE ~(ret > 0)
    BY <1>2 DEF Extended
  <1> QED
    BY <1>1, <1>2

\* Blocks that come to a file do not make it shorter.
LEMMA ExtendedLonger ==
  ASSUME NEW content \in Seq(Values), NEW ret \in Int
  PROVE  /\ Len(Extended(content, ret)) \in Nat /\ Len(content) \in Nat
         /\ Len(content) <= Len(Extended(content, ret))
  <1>1. CASE ret > 0
    <2> DEFINE fresh == [j \in 1 .. ret |-> Stale]
    <2>1. fresh \in Seq(Values) /\ Extended(content, ret) = content \o fresh
      BY <1>1 DEF Extended, Values
    <2> HIDE DEF fresh
    <2> QED
      BY <2>1
  <1>2. CASE ~(ret > 0)
    BY <1>2 DEF Extended
  <1> QED
    BY <1>1, <1>2

\* A step of thread t on file f does not disturb the calls of other threads,
\* because t has the lock of f if it changes anything of f.
LEMMA OthersKeep ==
  ASSUME LockInv, NEW t \in Threads, NEW f, NEW u \in Threads, u # t, CallInv(u),
         pc'[u] = pc[u], call'[u] = call[u], cursor'[u] = cursor[u], buf'[u] = buf[u],
         \A g \in Files : g # f => node'[g] = node[g] /\ store'[g] = store[g],
         f \in HeldBy(t) \/ (node' = node /\ store' = store)
  PROVE  CallInv(u)'
  <1> PICK g : g = call[u].file
    OBVIOUS
  <1>0. /\ PlaceInv(u) /\ pc[u] \in Places
        /\ call[u].op \in FileCalls => g \in Files /\ g \in Nodes
    BY CallShape DEF LockInv
  <1>1. CASE /\ pc[u] \in {"fslock", "alloc", "copy", "unlock"}
             /\ call[u].op \in FileCalls
    <2>1. g \in HeldBy(u)
      BY <1>0, <1>1 DEF HeldBy, OnFile, FileCalls
    <2>2. node'[g] = node[g] /\ store'[g] = store[g]
      <3>1. CASE f \in HeldBy(t)
        <4>1. f # g
          BY <2>1, <3>1 DEF LockInv, NodeExclusive
        <4> QED
          BY <1>0, <1>1, <4>1
      <3> QED
        BY <3>1
    <2>3. Start(u)' = Start(u) /\ End(u)' = End(u)
      BY <2>2 DEF Start, End
    <2>5. /\ Moved(u, End(u))' = Moved(u, End(u))
          /\ Moved(u, End(u) - cursor[u].left)' = Moved(u, End(u) - cursor[u].left)
      BY <2>2, <2>3 DEF Moved
    <2>6. At(cursor[u], node[call[u].file].segs, Start(u), End(u))'
            = At(cursor[u], node[call[u].file].segs, Start(u), End(u))
      BY <2>2, <2>3 DEF At
    <2> QED
      BY <2>2, <2>5, <2>6 DEF CallInv
  <1>2. CASE ~ /\ pc[u] \in {"fslock", "alloc", "copy", "unlock"}
               /\ call[u].op \in FileCalls
    BY <1>0, <1>2 DEF CallInv, PlaceInv, FileCalls
  <1> QED
    BY <1>1, <1>2

\* What a file keeps it still keeps after a step that changes its blocks only
\* where they are being written.
LEMMA KeptStays ==
  ASSUME NEW t \in Threads, NEW f \in Files, KeptInv(f),
         \A u \in Threads \ {t} : pc'[u] = pc[u] /\ call'[u] = call[u],
         last'[f] = last[f], placed'[f] = placed[f],
         Len(store[f]) \in Nat, Len(store'[f]) \in Nat, Len(store[f]) <= Len(store'[f]),
         \A p \in Positions : p < Len(store[f]) =>
            \/ store'[f][p + 1] = store[f][p + 1]
            \/ Writing(t, f)' /\ call'[t].from <= p /\ p < call'[t].to,
         Writing(t, f) => Writing(t, f)' /\ call'[t] = call[t]
  PROVE  KeptInv(f)'
  <1> SUFFICES ASSUME NEW p \in Positions, p \in placed[f], last[f][p] # None
               PROVE  /\ p < Len(store'[f])
                      /\ \/ store'[f][p + 1] = last[f][p]
                         \/ \E u \in Threads :
                              Writing(u, f)' /\ call'[u].from <= p /\ p < call'[u].to
    BY DEF KeptInv
  <1>1. p \in Int /\ p < Len(store[f])
    BY MaxSizeAssumption DEF KeptInv, Positions
  <1>2. p < Len(store'[f])
    BY <1>1
  <1>3. CASE store[f][p + 1] = last[f][p]
    BY <1>1, <1>2, <1>3
  <1>4. CASE \E u \in Threads : Writing(u, f) /\ call[u].from <= p /\ p < call[u].to
    <2>1. PICK u \in Threads : Writing(u, f) /\ call[u].from <= p /\ p < call[u].to
      BY <1>4
    <2>2. Writing(u, f)' /\ call'[u] = call[u]
      <3>1. CASE u = t
        BY <2>1, <3>1
      <3>2. CASE u # t
        BY <2>1, <3>2 DEF Writing
      <3> QED
        BY <3>1, <3>2
    <2> QED
      BY <1>2, <2>1, <2>2
  <1> QED
    BY <1>3, <1>4 DEF KeptInv

\* Nobody else writes a file that t has the lock of.
LEMMA OnlyWriter ==
  ASSUME LockInv, NEW t \in Threads, NEW f \in HeldBy(t), NEW u \in Threads, Writing(u, f)
  PROVE  u = t
  <1>1. f \in HeldBy(u)
    BY DEF HeldBy, Writing, OnFile
  <1> QED
    BY <1>1 DEF LockInv, NodeExclusive

\* The other threads stand still.
Alone(t) ==
  \A u \in Threads \ {t} : /\ pc'[u] = pc[u] /\ call'[u] = call[u]
                           /\ cursor'[u] = cursor[u] /\ buf'[u] = buf[u]

\* A step is the step of one thread.
LEMMA StepAlone ==
  ASSUME LockInv, DataInv, NEW t \in Threads, Begin(t) \/ Step(t)
  PROVE  Alone(t)
  <1>1. ASSUME NEW u \in Threads \ {t}
        PROVE  /\ pc'[u] = pc[u] /\ call'[u] = call[u]
               /\ cursor'[u] = cursor[u] /\ buf'[u] = buf[u]
    <2>1. pc'[u] = pc[u] /\ call'[u] = call[u]
      BY DEF LockInv, Begin, Step, Lock, LockDir, CheckWrite, LockFs, Alloc, CheckRead,
             Copy, CopyEnds, CheckTruncate, Truncate, Add, RemoveEntry, Unlock, Save,
             SaveBps, Goto, Return
    <2>2. cursor'[u] = cursor[u]
      BY DEF DataInv, LocalsInv, Begin, Step, Lock, LockDir, CheckWrite, LockFs, Alloc,
             CheckRead, Copy, CopyEnds, CheckTruncate, Truncate, Add, RemoveEntry,
             Unlock, Save, SaveBps, StartCopy, Return
    <2>3. buf'[u] = buf[u]
      <3>1. buf' = buf \/ \E b : buf' = [buf EXCEPT ![t] = b]
        BY DEF Begin, Step, Lock, LockDir, CheckWrite, LockFs, Alloc,
             CheckRead, Copy, CopyEnds, CheckTruncate, Truncate, Add, RemoveEntry,
             Unlock, Save, SaveBps, Return
      <3> QED
        BY <3>1 DEF DataInv, ValuesInv
    <2> QED
      BY <2>1, <2>2, <2>3
  <1> QED
    BY <1>1 DEF Alone

\* What is known of a call and of the files.
LEMMA CallFacts ==
  ASSUME LockInv, DataInv, NEW t \in Threads
  PROVE  /\ call[t] \in Calls \cup {NoCall} /\ pc[t] \in Places
         /\ PlaceInv(t) /\ CopyInv(t) /\ cursor[t] \in Cursor
         /\ call[t].op \in FileCalls \cup {"unlink"} => call[t].file \in Files
         /\ call[t].op = "truncate" => call[t].to \in Nat
         /\ call[t].op \in {"read", "write"} =>
              /\ call[t].from \in Nat /\ call[t].to \in Nat /\ call[t].from < call[t].to
         /\ call[t].op = "read" => call[t].from <= SizeSpace
         /\ call[t].file \in Nodes
  BY CallShape, CallSizes DEF LockInv, DataInv, LocalsInv

\* What is known of a file.
LEMMA FileFacts ==
  ASSUME DataInv, NEW f \in Files
  PROVE  /\ node[f] \in Node /\ node[f].size \in Nat /\ node[f].size <= MaxSize
         /\ node[f].segs \in Seq(Nat) /\ store[f] \in Seq(Values)
         /\ Len(store[f]) = BlocksOf(node[f].segs) /\ BlocksOf(node[f].segs) \in Nat
         /\ Len(store[f]) \in Nat
         /\ MaxSize \in Nat \ {0}
  BY NodeFields, BlocksTyped, MaxSizeAssumption DEF DataInv, FilesInv, Length

\* What a step of thread t has to show about its own call and its own file.
LEMMA ContentFrame ==
  ASSUME LockInv, DataInv, ContentInv, NEW t \in Threads, NEW f, f = call[t].file,
         Alone(t),
         \A g \in Files : g # f => /\ node'[g] = node[g] /\ store'[g] = store[g]
                                   /\ last'[g] = last[g] /\ placed'[g] = placed[g],
         f \in HeldBy(t) \/ (node' = node /\ store' = store),
         CallInv(t)', f \in Files => KeptInv(f)'
  PROVE  ContentInv'
  <1>1. ASSUME NEW u \in Threads PROVE CallInv(u)'
    <2>1. CASE u # t
      <3>1. CallInv(u)
        BY DEF ContentInv
      <3>2. \A g \in Files : g # f => node'[g] = node[g] /\ store'[g] = store[g]
        OBVIOUS
      <3>3. /\ pc'[u] = pc[u] /\ call'[u] = call[u]
            /\ cursor'[u] = cursor[u] /\ buf'[u] = buf[u]
        BY <2>1 DEF Alone
      <3> QED
        BY <2>1, <3>1, <3>2, <3>3, OthersKeep
    <2> QED
      BY <2>1
  <1>2. ASSUME NEW g \in Files PROVE KeptInv(g)'
    <2>1. CASE g # f
      <3>1. /\ KeptInv(g) /\ store'[g] = store[g] /\ last'[g] = last[g]
            /\ placed'[g] = placed[g]
        BY <2>1 DEF ContentInv
      <3>2. ~ Writing(t, g)
        BY <2>1 DEF Writing
      <3>3. /\ Len(store[g]) \in Nat /\ Len(store'[g]) \in Nat
            /\ Len(store[g]) <= Len(store'[g])
        BY <3>1, FileFacts
      <3>4. \A u \in Threads \ {t} : pc'[u] = pc[u] /\ call'[u] = call[u]
        BY DEF Alone
      <3> QED
        BY <3>1, <3>2, <3>3, <3>4, KeptStays
    <2> QED
      BY <2>1
  <1> QED
    BY <1>1, <1>2 DEF ContentInv

\* A step that leaves the files alone and writes on if it wrote.
LEMMA ContentQuiet ==
  ASSUME LockInv, DataInv, ContentInv, NEW t \in Threads, Alone(t),
         UNCHANGED <<node, store, last, placed>>,
         \A f : Writing(t, f) => Writing(t, f)' /\ call'[t] = call[t],
         CallInv(t)'
  PROVE  ContentInv'
  <1> PICK f : f = call[t].file
    OBVIOUS
  <1>1. ASSUME f \in Files PROVE KeptInv(f)'
    <2>1. KeptInv(f)
      BY <1>1 DEF ContentInv
    <2>2. /\ Len(store[f]) \in Nat /\ Len(store'[f]) \in Nat
          /\ Len(store[f]) <= Len(store'[f])
      BY <1>1, FileFacts
    <2>3. \A u \in Threads \ {t} : pc'[u] = pc[u] /\ call'[u] = call[u]
      BY DEF Alone
    <2> QED
      BY <1>1, <2>1, <2>2, <2>3, KeptStays
  <1> QED
    BY <1>1, ContentFrame

\* The steps that change no file and copy nothing.
LEMMA QuietContent ==
  ASSUME LockInv, DataInv, ContentInv, NEW t \in Threads, Begin(t) \/ Step(t),
         UNCHANGED <<node, store, last, placed>>, pc[t] \notin {"copy", "unlock"},
         pc'[t] # "copy"
  PROVE  ContentInv'
  <1>0. Alone(t)
    BY StepAlone
  <1>1. /\ PlaceInv(t) /\ pc[t] \in Places /\ CallInv(t)
        /\ call[t].op \in FileCalls => call[t].file \in Files
    BY CallFacts DEF ContentInv
  <1>2. \A f : ~ Writing(t, f)
    BY DEF Writing
  <1>3. CallInv(t)'
    <2>2. CASE pc'[t] = "unlock"
      <3>1. call'[t] = call[t] /\ call'[t].op \notin {"read", "write"}
        <4>1. call'[t] = call[t] /\ (LockDir(t) \/ Truncate(t) \/ Add(t) \/ RemoveEntry(t))
          BY <2>2 DEF LockInv, Begin, Step, Lock, LockDir, CheckWrite, LockFs, Alloc,
               CheckRead, Copy, CopyEnds, CheckTruncate, Truncate, Add, RemoveEntry,
               Unlock, Save, SaveBps, Goto, Return
        <4>2. call[t].op \notin {"read", "write"}
          BY <1>1, <4>1, CallFacts DEF LockDir, Truncate, Add, RemoveEntry, PlaceInv,
             OnDir, CopyInv
        <4> QED
          BY <4>1, <4>2
      <3> QED
        BY <2>2, <3>1 DEF CallInv
    <2> QED
      BY <2>2 DEF CallInv
  <1> QED
    BY <1>0, <1>2, <1>3, ContentQuiet

\* Where a copy begins and ends.
LEMMA EndTyped ==
  ASSUME LockInv, DataInv, NEW t \in Threads, call[t].op \in {"read", "write"}
  PROVE  Start(t) \in Nat /\ End(t) \in Nat
  <1>1. /\ call[t].from \in Nat /\ call[t].to \in Nat /\ call[t].from < call[t].to
        /\ call[t].op = "read" => call[t].from <= SizeSpace
        /\ node[call[t].file].size \in Nat
    BY CallFacts, FileFacts DEF FileCalls
  <1>2. CASE call[t].op = "write"
    BY <1>1, <1>2 DEF Start, End
  <1>3. CASE call[t].op = "read"
    <2>1. PICK n : n = Asked(node[call[t].file].size, call[t].from, call[t].to)
      OBVIOUS
    <2>2. n \in Nat
      BY <1>1, <1>3, <2>1, AskedTyped
    <2> QED
      BY <1>1, <1>3, <2>1, <2>2 DEF Start, End
  <1> QED
    BY <1>2, <1>3

\* The beginning of a copy.
LEMMA CopyBegins ==
  ASSUME LockInv, DataInv, NEW t \in Threads,
         NEW from \in Nat, NEW n \in Nat, StartCopy(t, from, n), Goto(t, "copy"),
         from = Start(t)', n = End(t)' - from, End(t)' \in Nat,
         node'[call[t].file].segs \in Seq(Nat)
  PROVE  CallInv(t)'
  <1> DEFINE cur == [seg |-> 1, offset |-> from, done |-> 0, left |-> n]
             segs == node'[call[t].file].segs
             to == End(t)'
  <1>1. pc'[t] = "copy" /\ call'[t] = call[t] /\ cursor'[t] = cur
    BY DEF Goto, StartCopy, LockInv, DataInv, LocalsInv
  <1>2. cur.seg = 1 /\ cur.offset = from /\ cur.done = 0 /\ cur.left = n
    OBVIOUS
  <1>3. BaseOf(segs, 1) = 0 /\ Len(segs) \in Nat
    BY BaseSteps
  <1> HIDE DEF cur, segs, to
  <1>4. At(cur, segs, from, to)
    <2>1. to \in Nat /\ n = to - from
      BY DEF to
    <2>2. Place3(cur, segs, from, to - cur.left)
      <3>1. to - cur.left = from
        BY <1>2, <2>1
      <3> QED
        BY <1>2, <3>1 DEF Place3
    <2> QED
      BY <1>2, <1>3, <2>1, <2>2, SMTT(30) DEF At
  <1>5. At(cursor[t], node[call[t].file].segs, Start(t), End(t))'
    BY <1>1, <1>4 DEF segs, to
  <1>6. Moved(t, End(t) - cursor[t].left)'
    <2>1. End(t)' - cursor'[t].left = from
      BY <1>1, <1>2
    <2>2. \A p \in Positions : ~ (from <= p /\ p < from)
      BY MaxSizeAssumption DEF Positions
    <2> QED
      BY <2>1, <2>2 DEF Moved
  <1> QED
    BY <1>1, <1>5, <1>6 DEF CallInv

\* CheckRead begins to copy what it asked for.
LEMMA CheckReadContent ==
  ASSUME LockInv, DataInv, ContentInv, NEW t \in Threads, CheckRead(t)
  PROVE  ContentInv'
  <1> PICK f : f = call[t].file
    OBVIOUS
  <1> PICK c : c = call[t]
    OBVIOUS
  <1> PICK n : n = Asked(node[f].size, c.from, c.to)
    OBVIOUS
  <1>1. /\ pc[t] = "check" /\ c.op = "read" /\ Goto(t, "copy")
        /\ StartCopy(t, c.from, n)
        /\ UNCHANGED <<node, store, last, placed>>
    BY DEF CheckRead, memory
  <1>2. /\ f \in Files /\ node[f].size \in Nat /\ node[f].segs \in Seq(Nat)
        /\ c.from \in Nat /\ c.to \in Nat /\ c.from < c.to /\ c.from <= SizeSpace
    BY <1>1, CallFacts, FileFacts DEF FileCalls
  <1>n. n \in Nat
    BY <1>2, AskedTyped
  <1>3. call'[t] = call[t]
    BY <1>1 DEF Goto
  <1>4. Start(t)' = c.from /\ End(t)' = c.from + n
    BY <1>1, <1>3 DEF Start, End
  <1>5. CallInv(t)'
    <2>1. n = End(t)' - c.from /\ End(t)' \in Nat
      BY <1>2, <1>n, <1>4
    <2> QED
      BY <1>1, <1>2, <1>n, <1>4, <2>1, CopyBegins
  <1>6. \A g : ~ Writing(t, g)
    BY <1>1 DEF Writing
  <1>7. Alone(t)
    BY StepAlone DEF Step
  <1> QED
    BY <1>1, <1>5, <1>6, <1>7, ContentQuiet

\* CheckWrite begins to write into the blocks that the file has.
LEMMA CheckWriteContent ==
  ASSUME LockInv, DataInv, ContentInv, NEW t \in Threads, CheckWrite(t),
         pc'[t] = "copy"
  PROVE  ContentInv'
  <1> PICK f : f = call[t].file
    OBVIOUS
  <1> PICK c : c = call[t]
    OBVIOUS
  <1>1. pc[t] = "check" /\ c.op = "write" /\ UNCHANGED <<store, last, placed>>
    BY DEF CheckWrite
  <1>2. /\ f \in Files /\ node[f] \in Node /\ node[f].size \in Nat
        /\ node[f].segs \in Seq(Nat)
        /\ c.from \in Nat /\ c.to \in Nat /\ c.from < c.to
    BY <1>1, CallFacts, FileFacts DEF FileCalls
  <1> DEFINE size == IF c.to > node[f].size THEN c.to ELSE node[f].size
  <1>3. /\ node' = [node EXCEPT ![f].size = IF c.to > @ THEN c.to ELSE @]
        /\ StartCopy(t, c.from, c.to - c.from) /\ Goto(t, "copy")
    BY DEF CheckWrite, Goto, Return, LockInv
  <1>4. /\ node'[f].size = size /\ node'[f].segs = node[f].segs
        /\ \A g \in Files : g # f => node'[g] = node[g]
    <2>1. node' = [node EXCEPT ![f] = [node[f] EXCEPT !.size = size]]
      BY <1>2, <1>3 DEF DataInv, FilesInv
    <2>2. [node[f] EXCEPT !.size = size]
            = [size |-> size, blocks |-> node[f].blocks, segs |-> node[f].segs]
      BY <1>2, NodeExcept
    <2> HIDE DEF size
    <2>3. /\ node'[f] = [size |-> size, blocks |-> node[f].blocks, segs |-> node[f].segs]
          /\ \A g \in Files : g # f => node'[g] = node[g]
      BY <1>2, <2>1, <2>2 DEF DataInv, FilesInv
    <2> QED
      BY <2>3
  <1>5. size \in Nat /\ c.to <= size /\ node[f].size <= size /\ c.to - c.from \in Nat
    BY <1>2
  <1> HIDE DEF size
  <1>6. call'[t] = call[t] /\ pc'[t] = "copy"
    BY <1>3 DEF Goto, LockInv
  <1>7. Start(t)' = c.from /\ End(t)' = c.to
    BY <1>1, <1>6 DEF Start, End
  <1>8. CallInv(t)'
    BY <1>1, <1>2, <1>3, <1>4, <1>5, <1>7, CopyBegins
  <1>l. Len(store[f]) \in Nat
    BY <1>2, FileFacts
  <1>9. Alone(t)
    BY StepAlone DEF Step
  <1>10. KeptInv(f)'
    <2>1. KeptInv(f) /\ ~ Writing(t, f)
      BY <1>1, <1>2 DEF ContentInv, Writing
    <2>2. \A u \in Threads \ {t} : pc'[u] = pc[u] /\ call'[u] = call[u]
      BY <1>9 DEF Alone
    <2> QED
      BY <1>1, <1>2, <1>l, <2>1, <2>2, KeptStays
  <1>11. f \in HeldBy(t)
    BY <1>1, <1>2 DEF HeldBy, OnFile, Nodes
  <1> QED
    BY <1>1, <1>4, <1>8, <1>9, <1>10, <1>11, ContentFrame

\* The node and the blocks of a file after a request to the distributor.
LEMMA ReallocContent ==
  ASSUME DataInv, NEW f \in Files, NEW n \in Nat \ {0}, NEW r \in Realloc(node[f], n),
         NEW b \in Int, NEW size \in Nat,
         NEW nd, nd = [size |-> size, blocks |-> b, segs |-> r.node.segs],
         node' = [node EXCEPT ![f] = nd],
         store' = [store EXCEPT ![f] = Extended(@, r.ret)]
  PROVE  /\ node'[f].size = size /\ node'[f].segs \in Seq(Nat)
         /\ \A g \in Files : g # f => node'[g] = node[g] /\ store'[g] = store[g]
         /\ \A p \in Nat : p < Len(store[f]) => store'[f][p + 1] = store[f][p + 1]
         /\ Len(store[f]) \in Nat /\ Len(store'[f]) \in Nat /\ Len(store[f]) <= Len(store'[f])
  <1>0. /\ node \in [Files -> Node] /\ store \in [Files -> Seq(Values)]
        /\ node[f] \in Node /\ store[f] \in Seq(Values) /\ Length(node[f], store[f])
    BY DEF DataInv, FilesInv
  <1>1. r.node \in Node /\ r.ret \in Int
    BY <1>0, ReallocTyped
  <1> DEFINE content == Extended(store[f], r.ret)
  <1>3. nd.size = size /\ nd.segs \in Seq(Nat)
    BY <1>1, NodeFields
  <1>4. /\ \A i \in 1 .. Len(store[f]) : content[i] = store[f][i]
        /\ Len(content) \in Nat /\ Len(store[f]) \in Nat /\ Len(store[f]) <= Len(content)
    BY <1>0, <1>1, ExtendedKeeps, ExtendedLonger
  <1> HIDE DEF content
  <1>5. /\ node'[f] = nd /\ store'[f] = content
        /\ \A g \in Files : g # f => node'[g] = node[g] /\ store'[g] = store[g]
    BY <1>0 DEF content
  <1>6. ASSUME NEW p \in Nat, p < Len(store[f]) PROVE store'[f][p + 1] = store[f][p + 1]
    <2>1. p + 1 \in 1 .. Len(store[f])
      BY <1>0, <1>6
    <2> QED
      BY <1>4, <1>5, <2>1
  <1> QED
    BY <1>3, <1>4, <1>5, <1>6

\* Alloc begins to write once the distributor has answered.
LEMMA AllocContent ==
  ASSUME LockInv, DataInv, ContentInv, NEW t \in Threads, Alloc(t)
  PROVE  ContentInv'
  <1> PICK f : f = call[t].file
    OBVIOUS
  <1> PICK c : c = call[t]
    OBVIOUS
  <1>1. /\ pc[t] = "alloc" /\ c.op = "write" /\ last' = last /\ placed' = placed
        /\ StartCopy(t, c.from, c.to - c.from) /\ Goto(t, "copy")
    <2>1. pc[t] = "alloc"
      BY DEF Alloc
    <2>2. c.op = "write"
      BY <2>1, CallFacts DEF CopyInv
    <2> QED
      BY <2>2 DEF Alloc
  <1>2. /\ f \in Files /\ node[f].size \in Nat /\ store[f] \in Seq(Values)
        /\ c.from \in Nat /\ c.to \in Nat /\ c.from < c.to
        /\ c.to \in Nat \ {0} /\ c.to - c.from \in Nat
    BY <1>1, CallFacts, FileFacts DEF FileCalls
  <1>3. /\ node'[f].size = c.to /\ node'[f].segs \in Seq(Nat)
        /\ \A g \in Files : g # f => node'[g] = node[g] /\ store'[g] = store[g]
        /\ \A p \in Nat : p < Len(store[f]) => store'[f][p + 1] = store[f][p + 1]
        /\ Len(store[f]) \in Nat /\ Len(store'[f]) \in Nat /\ Len(store[f]) <= Len(store'[f])
    <2>1. PICK r \in Realloc(node[f], c.to) :
            /\ node' = [node EXCEPT ![f] = [r.node EXCEPT !.blocks = @ + r.ret, !.size = c.to]]
            /\ store' = [store EXCEPT ![f] = Extended(@, r.ret)]
      BY DEF Alloc
    <2>2. r.node \in Node /\ r.ret \in Int /\ r.node.blocks \in Int
      <3>1. node[f] \in Node /\ store[f] \in Seq(Values) /\ Length(node[f], store[f])
        BY <1>2 DEF DataInv, FilesInv
      <3>2. r.node \in Node /\ r.ret \in Int
        BY <1>2, <3>1, ReallocTyped
      <3> QED
        BY <3>2, NodeFields
    <2>3. PICK b \in Int : b = r.node.blocks + r.ret
      BY <2>2
    <2>4. PICK nd : nd = [r.node EXCEPT !.blocks = b, !.size = c.to]
      OBVIOUS
    <2>5. nd = [size |-> c.to, blocks |-> b, segs |-> r.node.segs]
      <3>1. PICK x : x = [r.node EXCEPT !.blocks = b]
        OBVIOUS
      <3>2. x = [size |-> r.node.size, blocks |-> b, segs |-> r.node.segs]
        BY <2>2, <3>1, NodeExcept
      <3>3. x \in Node
        BY <2>2, <3>2, MakeNode, NodeFields
      <3>4. nd = [size |-> c.to, blocks |-> x.blocks, segs |-> x.segs]
        <4>1. nd = [x EXCEPT !.size = c.to]
          BY <2>4, <3>1
        <4> QED
          BY <3>3, <4>1, NodeExcept
      <3> QED
        BY <3>2, <3>4
    <2>6. node' = [node EXCEPT ![f] = nd]
      BY <2>1, <2>3, <2>4
    <2>7. store' = [store EXCEPT ![f] = Extended(@, r.ret)]
      BY <2>1
    <2>8. /\ node'[f].size = c.to /\ node'[f].segs \in Seq(Nat)
          /\ \A g \in Files : g # f => node'[g] = node[g] /\ store'[g] = store[g]
          /\ \A p \in Nat : p < Len(store[f]) => store'[f][p + 1] = store[f][p + 1]
          /\ Len(store[f]) \in Nat /\ Len(store'[f]) \in Nat /\ Len(store[f]) <= Len(store'[f])
      <3>1. f \in Files /\ c.to \in Nat \ {0} /\ c.to \in Nat
        BY <1>2
      <3> QED
        BY <3>1, <2>5, <2>6, <2>7, ReallocContent
    <2> QED
      BY <2>8
  <1>4. call'[t] = call[t] /\ pc'[t] = "copy"
    BY <1>1 DEF Goto, LockInv
  <1>5. Start(t)' = c.from /\ End(t)' = c.to
    BY <1>1, <1>4 DEF Start, End
  <1>6. CallInv(t)'
    BY <1>1, <1>2, <1>3, <1>5, CopyBegins
  <1>7. Alone(t)
    BY StepAlone DEF Step
  <1>8. KeptInv(f)'
    <2>1. KeptInv(f) /\ ~ Writing(t, f)
      BY <1>1, <1>2 DEF ContentInv, Writing
    <2>2. \A u \in Threads \ {t} : pc'[u] = pc[u] /\ call'[u] = call[u]
      BY <1>7 DEF Alone
    <2>3. \A p \in Positions : p \in Nat
      BY MaxSizeAssumption DEF Positions
    <2> QED
      BY <1>1, <1>2, <1>3, <2>1, <2>2, <2>3, KeptStays
  <1>9. f \in HeldBy(t)
    BY <1>1, <1>2 DEF HeldBy, OnFile, Nodes
  <1> QED
    BY <1>1, <1>3, <1>6, <1>7, <1>8, <1>9, ContentFrame

\* Truncate keeps what is below the new size.
LEMMA TruncateContent ==
  ASSUME LockInv, DataInv, ContentInv, NEW t \in Threads, Truncate(t)
  PROVE  ContentInv'
  <1> PICK f : f = call[t].file
    OBVIOUS
  <1> PICK c : c = call[t]
    OBVIOUS
  <1>1. /\ pc[t] = "realloc" /\ c.op = "truncate" /\ Goto(t, "unlock")
    <2>1. pc[t] = "realloc"
      BY DEF Truncate
    <2>2. c.op = "truncate"
      BY <2>1, CallFacts DEF CopyInv
    <2> QED
      BY <2>2 DEF Truncate
  <1>2. /\ f \in Files /\ node[f].size \in Nat /\ store[f] \in Seq(Values)
        /\ c.to \in Nat
    BY <1>1, CallFacts, FileFacts DEF FileCalls
  <1> PICK n : n = IF c.to < 1 THEN 1 ELSE c.to
    OBVIOUS
  <1>3. n \in Nat \ {0}
    BY <1>2
  <1>4. /\ node'[f].size = c.to /\ node'[f].segs \in Seq(Nat)
        /\ \A g \in Files : g # f => node'[g] = node[g] /\ store'[g] = store[g]
        /\ \A p \in Nat : p < Len(store[f]) => store'[f][p + 1] = store[f][p + 1]
        /\ Len(store[f]) \in Nat /\ Len(store'[f]) \in Nat /\ Len(store[f]) <= Len(store'[f])
    <2>1. PICK r \in Realloc(node[f], n) :
            /\ node' = [node EXCEPT ![f] = [r.node EXCEPT !.size = c.to]]
            /\ store' = [store EXCEPT ![f] = Extended(@, r.ret)]
      BY DEF Truncate
    <2>2. r.node \in Node /\ r.node.blocks \in Int
      <3>1. node[f] \in Node /\ store[f] \in Seq(Values) /\ Length(node[f], store[f])
        BY <1>2 DEF DataInv, FilesInv
      <3>2. r.node \in Node
        BY <1>3, <3>1, ReallocTyped
      <3> QED
        BY <3>2, NodeFields
    <2>3. PICK nd : nd = [r.node EXCEPT !.size = c.to]
      OBVIOUS
    <2>4. nd = [size |-> c.to, blocks |-> r.node.blocks, segs |-> r.node.segs]
      BY <2>2, <2>3, NodeExcept
    <2>5. node' = [node EXCEPT ![f] = nd]
      BY <2>1, <2>3
    <2>6. store' = [store EXCEPT ![f] = Extended(@, r.ret)]
      BY <2>1
    <2>7. PICK b \in Int : b = r.node.blocks
      BY <2>2
    <2>8. /\ f \in Files /\ c.to \in Nat
          /\ nd = [size |-> c.to, blocks |-> b, segs |-> r.node.segs]
      BY <1>2, <2>4, <2>7
    <2>9. PICK size \in Nat : size = c.to
      BY <1>2
    <2>10. f \in Files /\ nd = [size |-> size, blocks |-> b, segs |-> r.node.segs]
      BY <2>8, <2>9
    <2>11. /\ node'[f].size = size /\ node'[f].segs \in Seq(Nat)
           /\ \A g \in Files : g # f => node'[g] = node[g] /\ store'[g] = store[g]
           /\ \A p \in Nat : p < Len(store[f]) => store'[f][p + 1] = store[f][p + 1]
           /\ Len(store[f]) \in Nat /\ Len(store'[f]) \in Nat /\ Len(store[f]) <= Len(store'[f])
      BY <1>3, <2>5, <2>6, <2>10, ReallocContent
    <2> QED
      BY <2>9, <2>11
  <1>5. /\ \A g \in Files : g # f => last'[g] = last[g] /\ placed'[g] = placed[g]
        /\ placed'[f] = placed[f]
        /\ \A p \in Positions : last'[f][p] = IF p < c.to THEN last[f][p] ELSE None
    BY <1>2 DEF Truncate, DataInv, ValuesInv
  <1>6. CallInv(t)'
    <2>1. pc'[t] = "unlock" /\ call'[t] = c
      BY <1>1 DEF Goto, LockInv
    <2> QED
      BY <1>1, <2>1 DEF CallInv
  <1>7. f \in HeldBy(t)
    BY <1>1, <1>2 DEF HeldBy, OnFile, Nodes
  <1>8. KeptInv(f)'
    <2>1. ASSUME NEW p \in Positions, p \in placed[f], last'[f][p] # None
          PROVE  p < Len(store'[f]) /\ store'[f][p + 1] = last'[f][p]
      <3>1. p < c.to /\ last'[f][p] = last[f][p] /\ last[f][p] # None
        BY <1>5, <2>1
      <3>2. KeptInv(f) /\ \A u \in Threads : ~ Writing(u, f)
        <4>1. ~ Writing(t, f)
          BY <1>1 DEF Writing
        <4> QED
          BY <1>2, <1>7, <4>1, OnlyWriter DEF ContentInv
      <3>3. p < Len(store[f]) /\ store[f][p + 1] = last[f][p]
        BY <2>1, <3>1, <3>2 DEF KeptInv
      <3>4. p \in Nat
        BY MaxSizeAssumption DEF Positions
      <3>5. p < Len(store'[f])
        BY <1>4, <3>3, <3>4
      <3> QED
        BY <1>4, <3>1, <3>3, <3>4, <3>5
    <2> QED
      BY <1>5, <2>1 DEF KeptInv
  <1>9. Alone(t)
    BY StepAlone DEF Step
  <1> QED
    BY <1>4, <1>5, <1>6, <1>7, <1>8, <1>9, ContentFrame

\* RemoveEntry removes the content with the file.
LEMMA RemoveContent ==
  ASSUME LockInv, DataInv, ContentInv, NEW t \in Threads, RemoveEntry(t)
  PROVE  ContentInv'
  <1> PICK f : f = call[t].file
    OBVIOUS
  <1>1. pc[t] = "remove" /\ call[t].op = "unlink" /\ Goto(t, "unlock")
    BY CallFacts DEF RemoveEntry, PlaceInv
  <1>2. f \in Files /\ f \in HeldBy(t)
    BY <1>1, CallFacts DEF HeldBy, OnFile
  <1>3. /\ \A g \in Files : g # f => /\ node'[g] = node[g] /\ store'[g] = store[g]
                                     /\ last'[g] = last[g] /\ placed'[g] = placed[g]
        /\ last'[f] = Unwritten
    BY <1>2 DEF RemoveEntry, DataInv, FilesInv, ValuesInv
  <1>4. CallInv(t)'
    <2>1. pc'[t] = "unlock" /\ call'[t] = call[t]
      BY <1>1 DEF Goto, LockInv
    <2> QED
      BY <1>1, <2>1 DEF CallInv
  <1>5. KeptInv(f)'
    BY <1>3 DEF KeptInv, Unwritten
  <1>6. Alone(t)
    BY StepAlone DEF Step
  <1> QED
    BY <1>2, <1>3, <1>4, <1>5, <1>6, ContentFrame

\* When a write clears the lock, its blocks hold what it wrote and the others
\* what they held.
LEMMA UnlockContent ==
  ASSUME LockInv, DataInv, ContentInv, NEW t \in Threads, Unlock(t)
  PROVE  ContentInv'
  <1> PICK f : f = call[t].file
    OBVIOUS
  <1> PICK c : c = call[t]
    OBVIOUS
  <1>1. pc[t] = "unlock" /\ UNCHANGED <<node, store>>
    BY DEF Unlock, memory
  <1>2. CallInv(t)'
    <2>1. pc'[t] \in {"idle", "save"}
      BY DEF Unlock, Return, Goto, LockInv
    <2> QED
      BY <2>1 DEF CallInv
  <1>3. Alone(t)
    BY StepAlone DEF Step
  <1>4. CASE c.op # "write"
    <2>1. last' = last /\ placed' = placed /\ \A g : ~ Writing(t, g)
      BY <1>4 DEF Unlock, Writing
    <2> QED
      BY <1>1, <1>2, <1>3, <2>1, ContentQuiet
  <1>5. CASE c.op = "write"
    <2>1. f \in Files /\ f \in HeldBy(t) /\ c.from \in Nat /\ c.to \in Nat
      BY <1>1, <1>5, CallFacts DEF FileCalls, HeldBy, OnFile
    <2>2. /\ \A g \in Files : g # f => last'[g] = last[g] /\ placed'[g] = placed[g]
          /\ \A p \in Positions :
               /\ last'[f][p] = IF c.from <= p /\ p < c.to
                                  THEN [tag |-> t, at |-> p] ELSE last[f][p]
               /\ p \in placed'[f] =>
                    IF c.from <= p /\ p < c.to
                      THEN p < Len(store[f]) /\ InPlace(node[f].segs, c.from, p + 1)
                      ELSE p \in placed[f]
      <3>1. last' = Keep(t) /\ placed' = Place(t)
        BY <1>5 DEF Unlock
      <3> QED
        BY <2>1, <3>1 DEF Keep, Place, DataInv, ValuesInv
    <2>3. Moved(t, c.to) /\ KeptInv(f)
      <3>1. CallInv(t) /\ End(t) = c.to
        BY <1>5 DEF ContentInv, End
      <3> QED
        BY <1>1, <1>5, <2>1, <3>1 DEF CallInv, ContentInv
    <2>4. ASSUME NEW p \in Positions, p \in placed'[f], last'[f][p] # None
          PROVE  p < Len(store[f]) /\ store[f][p + 1] = last'[f][p]
      <3>1. CASE c.from <= p /\ p < c.to
        <4>1. p < Len(store[f]) /\ InPlace(node[f].segs, c.from, p + 1)
          BY <2>2, <2>4, <3>1
        <4>2. store[f][p + 1] = [tag |-> t, at |-> p]
          BY <1>5, <2>3, <3>1, <4>1 DEF Moved, Start
        <4> QED
          BY <2>2, <3>1, <4>1, <4>2
      <3>2. CASE ~ (c.from <= p /\ p < c.to)
        <4>1. last'[f][p] = last[f][p] /\ p \in placed[f]
          BY <2>2, <2>4, <3>2
        <4>2. ASSUME NEW u \in Threads, Writing(u, f)
              PROVE  ~ (call[u].from <= p /\ p < call[u].to)
          BY <2>1, <3>2, <4>2, OnlyWriter
        <4> QED
          BY <2>3, <2>4, <4>1, <4>2 DEF KeptInv
      <3> QED
        BY <3>1, <3>2
    <2>5. KeptInv(f)'
      BY <1>1, <2>4 DEF KeptInv
    <2> QED
      BY <1>1, <1>2, <1>3, <2>1, <2>2, <2>5, ContentFrame
  <1> QED
    BY <1>4, <1>5

\* One turn of the copy loop copies the positions from a to b - 1, to where
\* they belong unless the copy has lost its place, and goes on from b or, if that
\* is all, to the end of the call.
LEMMA CopyTurn ==
  ASSUME LockInv, DataInv, ContentInv, NEW t \in Threads, Copy(t),
         NEW f, f = call[t].file, NEW from, from = Start(t), NEW to, to = End(t),
         NEW segs, segs = node[f].segs
  PROVE  /\ f \in Files /\ f \in HeldBy(t) /\ call[t].op \in {"read", "write"}
         /\ from \in Nat /\ to \in Nat /\ Len(store[f]) \in Nat /\ Len(store'[f]) = Len(store[f])
         /\ UNCHANGED <<node, last, placed>> /\ call'[t] = call[t] /\ pc'[t] \in {"copy", "unlock"}
         /\ \E a, b \in Nat :
              /\ from <= a /\ a <= b /\ b <= to
              /\ Moved(t, a)
              /\ Moved(t, b)' => CallInv(t)'
              /\ \A p \in Positions : p < Len(store[f]) =>
                   /\ call[t].op = "write" =>
                        /\ ~(a <= p /\ p < b) => store'[f][p + 1] = store[f][p + 1]
                        /\ a <= p /\ p < b /\ InPlace(segs, from, p + 1)
                             => store'[f][p + 1] = [tag |-> t, at |-> p]
                   /\ call[t].op = "read" /\ from <= p /\ InPlace(segs, from, to) =>
                        buf'[t][p - from] = IF a <= p /\ p < b THEN store[f][p + 1]
                                            ELSE buf[t][p - from]
  <1> PICK cur : cur = cursor[t]
    OBVIOUS
  <1> PICK next : next = Advance(segs, cur)
    OBVIOUS
  <1>v. PICK s, o, d, l, m, size : /\ s = segs[cur.seg] /\ o = cur.offset /\ d = cur.done
                                   /\ l = cur.left /\ m = next.left /\ size = Len(store[f])
    OBVIOUS
  <1>e. PICK len : len = Piece(segs, cur)
    OBVIOUS
  <1>b. PICK base : base = BaseOf(segs, cur.seg) + cur.offset
    OBVIOUS
  <1>1. /\ pc[t] = "copy" /\ cur.seg <= Len(segs) /\ node' = node /\ last' = last
        /\ placed' = placed
        /\ cursor' = [cursor EXCEPT ![t] = next]
        /\ Goto(t, IF s > o /\ m = 0 THEN "unlock" ELSE "copy")
    BY <1>v DEF Copy
  <1>2. call[t].op \in {"read", "write"}
    BY <1>1, CallFacts DEF CopyInv
  <1>3. f \in Files /\ f \in HeldBy(t)
    BY <1>1, <1>2, CallFacts DEF FileCalls, HeldBy, OnFile
  <1>4. /\ cur \in Cursor /\ segs \in Seq(Nat)
        /\ size \in Nat /\ size = Len(store[f]) /\ store[f] \in Seq(Values)
        /\ node[f].size \in Nat
    BY <1>3, <1>v, CallFacts, FileFacts
  <1>5. from \in Nat /\ to \in Nat
    BY <1>2, <1>3, <1>4, EndTyped
  <1>6. At(cur, segs, from, to) /\ Moved(t, to - l)
    BY <1>1, <1>v DEF ContentInv, CallInv
  <1>7. cur.seg \in 1 .. Len(segs) /\ l \in Nat /\ o \in Nat
    <2>1. /\ cur.seg \in Nat \ {0} /\ cur.offset \in Nat /\ cur.left \in Nat
          /\ Len(segs) \in Nat
      BY <1>4, CursorFields
    <2>2. PICK k, n : k = cur.seg /\ n = Len(segs)
      OBVIOUS
    <2>3. k \in 1 .. n
      BY <1>1, <2>1, <2>2
    <2> QED
      BY <1>v, <2>1, <2>2, <2>3
  <1>8. s \in Nat
    <2>1. PICK k : k = cur.seg
      OBVIOUS
    <2>2. segs[k] \in Nat
      <3>1. k \in 1 .. Len(segs) /\ segs \in Seq(Nat)
        BY <1>4, <1>7, <2>1
      <3> QED
        BY <3>1
    <2> QED
      BY <1>v, <2>1, <2>2
  <1>9. /\ s <= o \/ m # 0 => At(next, segs, from, to)
        /\ m \in Nat
        /\ s <= o => m = l
        /\ s > o => /\ m = l - len /\ len \in Nat /\ base = to - l
                    /\ d = (to - l) - from \/ ~ InPlace(segs, from, (to - l) + 1)
    <2>1. /\ segs[cur.seg] <= cur.offset \/ next.left # 0 => At(next, segs, from, to)
          /\ next.left \in Nat
          /\ segs[cur.seg] <= cur.offset => next.left = cur.left
          /\ segs[cur.seg] > cur.offset =>
               /\ next.left = cur.left - Piece(segs, cur)
               /\ Piece(segs, cur) \in Nat
               /\ BaseOf(segs, cur.seg) + cur.offset = to - cur.left
               /\ \/ cur.done = (to - cur.left) - from
                  \/ ~ InPlace(segs, from, (to - cur.left) + 1)
      BY <1>1, <1>4, <1>5, <1>6, AdvanceMoves, SMTT(30)
    <2> QED
      BY <1>v, <1>e, <1>b, <2>1
  <1>10. l <= to - from
    BY <1>6, <1>v DEF At
  <1>c. PICK a, b : a = to - l /\ b = to - m
    OBVIOUS
  <1>11. /\ a \in Nat /\ b \in Nat /\ from <= a /\ a <= b /\ b <= to
         /\ s <= o => a = b
         /\ s > o => /\ b = a + len /\ len \in Nat /\ base = a
                     /\ (from + d = a /\ d \in Nat) \/ ~ InPlace(segs, from, a + 1)
    <2>1. /\ from \in Nat /\ to \in Nat /\ l \in Nat /\ o \in Nat /\ s \in Nat /\ m \in Nat
          /\ l <= to - from
      BY <1>5, <1>7, <1>8, <1>9, <1>10
    <2>2. CASE s <= o
      <3>1. m = l
        BY <1>9, <2>2
      <3> QED
        BY <1>c, <2>1, <2>2, <3>1
    <2>3. CASE s > o
      <3>1. /\ m = l - len /\ len \in Nat /\ base = to - l
            /\ d = (to - l) - from \/ ~ InPlace(segs, from, (to - l) + 1)
        BY <1>9, <2>3
      <3> QED
        BY <1>c, <2>1, <2>3, <3>1
    <2> QED
      BY <2>1, <2>2, <2>3
  <1>12. /\ cursor'[t] = next /\ call'[t] = call[t]
         /\ pc'[t] = IF s > o /\ m = 0 THEN "unlock" ELSE "copy"
    BY <1>1 DEF Goto, LockInv, DataInv, LocalsInv
  <1>13. Start(t)' = from /\ End(t)' = to
    BY <1>1, <1>12 DEF Start, End
  <1>14. ASSUME Moved(t, b)' PROVE CallInv(t)'
    <2>2. CASE pc'[t] = "unlock"
      <3>1. to = b
        BY <1>5, <1>12, <1>c, <2>2
      <3>2. Moved(t, End(t))'
        BY <1>13, <1>14, <3>1
      <3> QED
        BY <2>2, <3>2 DEF CallInv
    <2>3. CASE pc'[t] = "copy"
      <3>1. At(next, segs, from, to)
        BY <1>7, <1>8, <1>9, <1>12, <2>3
      <3>2. At(cursor[t], node[call[t].file].segs, Start(t), End(t))'
        BY <1>1, <1>12, <1>13, <3>1
      <3>3. Moved(t, End(t) - cursor[t].left)'
        BY <1>12, <1>13, <1>14, <1>c, <1>v
      <3> QED
        BY <2>3, <3>2, <3>3 DEF CallInv
    <2> QED
      BY <1>12, <2>2, <2>3
  <1>15. ASSUME NEW p \in Positions, p < Len(store[f])
         PROVE  /\ call[t].op = "write" =>
                     /\ ~(a <= p /\ p < b) => store'[f][p + 1] = store[f][p + 1]
                     /\ a <= p /\ p < b /\ InPlace(segs, from, p + 1)
                          => store'[f][p + 1] = [tag |-> t, at |-> p]
                /\ call[t].op = "read" /\ from <= p /\ InPlace(segs, from, to) =>
                     buf'[t][p - from] = IF a <= p /\ p < b THEN store[f][p + 1]
                                         ELSE buf[t][p - from]
    <2>1. p \in Nat
      BY MaxSizeAssumption DEF Positions
    <2>2. p + 1 \in 1 .. Len(store[f])
      BY <1>4, <1>15, <2>1
    <2>3. p + 1 \in DOMAIN store[f] /\ store \in [Files -> Seq(Values)] /\ buf \in [Threads -> [Positions -> Values]]
      BY <1>4, <2>2 DEF DataInv, FilesInv, ValuesInv
    <2>4. CASE s <= o
      <3>1. ~ (s > o)
        BY <1>7, <1>8, <2>4
      <3>2. store' = store /\ buf' = buf
        BY <1>v, <3>1 DEF Copy
      <3>3. ~ (a <= p /\ p < b)
        BY <1>11, <2>1, <2>4
      <3> QED
        BY <3>2, <3>3
    <2>5. CASE s > o /\ call[t].op = "write"
      <3> DEFINE piece == [i \in DOMAIN store[f] |->
                     IF base < i /\ i <= base + len
                       THEN [tag |-> t, at |-> call[t].from + d + i - base - 1]
                       ELSE store[f][i]]
      <3>1. store' = [store EXCEPT ![f] = piece]
        BY <1>v, <1>e, <1>b, <2>5 DEF Copy
      <3>2. piece[p + 1] = IF base < p + 1 /\ p + 1 <= base + len
                       THEN [tag |-> t, at |-> call[t].from + d + (p + 1) - base - 1]
                       ELSE store[f][p + 1]
        BY <2>3
      <3> HIDE DEF piece
      <3>3. store'[f][p + 1] = piece[p + 1]
        BY <1>3, <2>3, <3>1
      <3>4. from = call[t].from
        BY DEF Start
      <3>5. (base < p + 1 /\ p + 1 <= base + len) = (a <= p /\ p < b)
        BY <1>11, <2>1, <2>5
      <3>6. ASSUME a <= p, InPlace(segs, from, p + 1)
            PROVE  from + d + (p + 1) - base - 1 = p
        <4>1. a + 1 <= p + 1 /\ a + 1 \in Int /\ p + 1 \in Int
          BY <1>11, <2>1, <3>6
        <4>2. InPlace(segs, from, a + 1)
          BY <1>4, <1>5, <3>6, <4>1, InPlaceLess
        <4> QED
          BY <1>5, <1>11, <2>1, <2>5, <4>2
      <3>7. ASSUME ~(a <= p /\ p < b) PROVE store'[f][p + 1] = store[f][p + 1]
        BY <3>2, <3>3, <3>5, <3>7
      <3>8. ASSUME a <= p /\ p < b, InPlace(segs, from, p + 1)
            PROVE  store'[f][p + 1] = [tag |-> t, at |-> p]
        BY <3>2, <3>3, <3>4, <3>5, <3>6, <3>8
      <3> QED
        BY <2>5, <3>7, <3>8
    <2>6. CASE s > o /\ call[t].op = "read"
      <3> DEFINE piece == [q \in Positions |->
                     IF d <= q /\ q < d + len THEN store[f][base + q - d + 1] ELSE buf[t][q]]
      <3>1. buf' = [buf EXCEPT ![t] = piece]
        BY <1>v, <1>e, <1>b, <2>6 DEF Copy
      <3> SUFFICES ASSUME from <= p, InPlace(segs, from, to)
                   PROVE  buf'[t][p - from] = IF a <= p /\ p < b THEN store[f][p + 1]
                                              ELSE buf[t][p - from]
        BY <2>6
      <3>2. PICK q : q = p - from
        OBVIOUS
      <3>3. q \in Positions /\ q \in Nat /\ p = from + q
        BY <1>5, <2>1, <3>2, MaxSizeAssumption DEF Positions
      <3>4. piece[q] = IF d <= q /\ q < d + len THEN store[f][base + q - d + 1] ELSE buf[t][q]
        BY <3>3
      <3> HIDE DEF piece
      <3>5. buf'[t][q] = piece[q]
        BY <2>3, <3>1
      <3>6. CASE len = 0
        <4>1. ~ (d <= q /\ q < d + len) /\ ~ (a <= p /\ p < b)
          <5>1. d \in Nat
            BY <1>4, <1>v, CursorFields
          <5> QED
            BY <1>11, <2>1, <2>6, <3>3, <3>6, <5>1
        <4> QED
          BY <3>2, <3>4, <3>5, <4>1
      <3>7. CASE len # 0
        <4>1. a + 1 <= to /\ a + 1 \in Int /\ to \in Int
          BY <1>5, <1>11, <2>6, <3>7
        <4>2. InPlace(segs, from, a + 1)
          BY <1>4, <1>5, <4>1, InPlaceLess
        <4>3. from + d = a /\ d \in Nat /\ base = a /\ b = a + len /\ len \in Nat
          BY <1>11, <2>6, <4>2
        <4>4. /\ (d <= q /\ q < d + len) = (a <= p /\ p < b)
              /\ base + q - d + 1 = p + 1
          BY <1>5, <2>1, <3>3, <4>3
        <4> QED
          BY <3>2, <3>4, <3>5, <4>4
      <3> QED
        BY <3>6, <3>7
    <2> QED
      BY <1>2, <1>7, <1>8, <2>4, <2>5, <2>6
  <1>l. Len(store'[f]) = Len(store[f])
    <2>1. store' = store \/ \E x : /\ store' = [store EXCEPT ![f] = x]
                                   /\ x = [i \in DOMAIN store[f] |-> x[i]]
      <3>1. CASE s > o /\ call[t].op = "write"
        <4> DEFINE piece == [i \in DOMAIN store[f] |->
                       IF base < i /\ i <= base + len
                         THEN [tag |-> t, at |-> call[t].from + d + i - base - 1]
                         ELSE store[f][i]]
        <4>1. store' = [store EXCEPT ![f] = piece]
          BY <1>v, <1>e, <1>b, <3>1 DEF Copy
        <4>2. piece = [i \in DOMAIN store[f] |-> piece[i]]
          OBVIOUS
        <4> HIDE DEF piece
        <4> QED
          BY <4>1, <4>2
      <3>2. CASE ~(s > o /\ call[t].op = "write")
        BY <1>v, <3>2 DEF Copy
      <3> QED
        BY <3>1, <3>2
    <2>2. f \in DOMAIN store
      BY <1>3 DEF DataInv, FilesInv
    <2>3. CASE store' = store
      BY <2>3
    <2>4. CASE \E x : /\ store' = [store EXCEPT ![f] = x]
                     /\ x = [i \in DOMAIN store[f] |-> x[i]]
      <3>1. PICK x : /\ store' = [store EXCEPT ![f] = x]
                     /\ x = [i \in DOMAIN store[f] |-> x[i]]
        BY <2>4
      <3>2. store'[f] = x
        BY <2>2, <3>1
      <3>3. store' \in [Files -> Seq(Values)]
        BY StepFiles DEF DataInv, FilesInv, Step
      <3>4. store'[f] \in Seq(Values) /\ DOMAIN store'[f] = DOMAIN store[f]
        <4>1. DOMAIN x = DOMAIN store[f]
          BY <3>1
        <4> QED
          BY <1>3, <3>2, <3>3, <4>1
      <3>5. 1 .. Len(store'[f]) = 1 .. Len(store[f]) /\ Len(store'[f]) \in Nat
        BY <1>4, <3>4
      <3> QED
        BY <1>4, <3>5
    <2> QED
      BY <2>1, <2>3, <2>4
  <1>16. \E x, y \in Nat :
              /\ from <= x /\ x <= y /\ y <= to
              /\ Moved(t, x)
              /\ Moved(t, y)' => CallInv(t)'
              /\ \A p \in Positions : p < Len(store[f]) =>
                   /\ call[t].op = "write" =>
                        /\ ~(x <= p /\ p < y) => store'[f][p + 1] = store[f][p + 1]
                        /\ x <= p /\ p < y /\ InPlace(segs, from, p + 1)
                             => store'[f][p + 1] = [tag |-> t, at |-> p]
                   /\ call[t].op = "read" /\ from <= p /\ InPlace(segs, from, to) =>
                        buf'[t][p - from] = IF x <= p /\ p < y THEN store[f][p + 1]
                                            ELSE buf[t][p - from]
    <2>1. a \in Nat /\ b \in Nat /\ from <= a /\ a <= b /\ b <= to /\ Moved(t, a)
      BY <1>6, <1>11, <1>c
    <2> QED
      BY <1>14, <1>15, <2>1
  <1> QED
    BY <1>1, <1>2, <1>3, <1>4, <1>5, <1>12, <1>16, <1>l, <1>v

\* One turn of the copy loop.
LEMMA CopyContent ==
  ASSUME LockInv, DataInv, ContentInv, NEW t \in Threads, Copy(t)
  PROVE  ContentInv'
  <1>p. PICK f, from, to, segs : /\ f = call[t].file /\ from = Start(t) /\ to = End(t)
                                 /\ segs = node[f].segs
    OBVIOUS
  <1>1. /\ f \in Files /\ f \in HeldBy(t) /\ call[t].op \in {"read", "write"}
        /\ from \in Nat /\ to \in Nat /\ Len(store[f]) \in Nat /\ Len(store'[f]) = Len(store[f])
        /\ UNCHANGED <<node, last, placed>> /\ call'[t] = call[t] /\ pc'[t] \in {"copy", "unlock"}
    BY <1>p, CopyTurn
  <1>2. PICK a, b \in Nat :
          /\ from <= a /\ a <= b /\ b <= to
          /\ Moved(t, a)
          /\ Moved(t, b)' => CallInv(t)'
          /\ \A p \in Positions : p < Len(store[f]) =>
               /\ call[t].op = "write" =>
                    /\ ~(a <= p /\ p < b) => store'[f][p + 1] = store[f][p + 1]
                    /\ a <= p /\ p < b /\ InPlace(segs, from, p + 1)
                         => store'[f][p + 1] = [tag |-> t, at |-> p]
               /\ call[t].op = "read" /\ from <= p /\ InPlace(segs, from, to) =>
                    buf'[t][p - from] = IF a <= p /\ p < b THEN store[f][p + 1]
                                        ELSE buf[t][p - from]
    BY <1>p, CopyTurn
  <1>3. Alone(t)
    BY StepAlone DEF Step
  <1>4. \A g \in Files : g # f => /\ node'[g] = node[g] /\ store'[g] = store[g]
                                  /\ last'[g] = last[g] /\ placed'[g] = placed[g]
    BY <1>1, <1>p DEF Copy, DataInv, FilesInv
  <1>5. call[t].op = "read" => store' = store
    BY DEF Copy
  <1>6. Moved(t, b)'
    <2>1. /\ Start(t)' = from /\ End(t)' = to /\ call'[t].file = f /\ call'[t].op = call[t].op
          /\ node'[f].segs = segs
      BY <1>1, <1>p DEF Start, End
    <2>2. ASSUME NEW p \in Positions, from <= p, p < b, p < Len(store[f]),
                 InPlace(segs, from, IF call[t].op = "write" THEN p + 1 ELSE to)
          PROVE  IF call[t].op = "write" THEN store'[f][p + 1] = [tag |-> t, at |-> p]
                 ELSE buf'[t][p - from] = store'[f][p + 1]
      <3>1. p \in Nat
        BY MaxSizeAssumption DEF Positions
      <3>3. CASE a <= p
        BY <1>1, <1>2, <1>5, <2>2, <3>3
      <3>4. CASE ~ (a <= p)
        <4>1. p < a
          BY <3>1, <3>4
        <4>2. IF call[t].op = "write" THEN store[f][p + 1] = [tag |-> t, at |-> p]
              ELSE buf[t][p - from] = store[f][p + 1]
          BY <1>2, <1>p, <2>2, <4>1 DEF Moved
        <4> QED
          BY <1>1, <1>2, <1>5, <2>2, <3>4, <4>2
      <3> QED
        BY <3>3, <3>4
    <2> QED
      BY <1>1, <2>1, <2>2 DEF Moved
  <1>7. KeptInv(f)'
    <2>1. KeptInv(f) /\ \A u \in Threads \ {t} : pc'[u] = pc[u] /\ call'[u] = call[u]
      BY <1>1, <1>3 DEF ContentInv, Alone
    <2>2. Writing(t, f) => Writing(t, f)' /\ call'[t] = call[t]
      BY <1>1 DEF Writing
    <2>3. /\ Len(store[f]) \in Nat /\ Len(store'[f]) \in Nat
          /\ Len(store[f]) <= Len(store'[f]) /\ last'[f] = last[f] /\ placed'[f] = placed[f]
      BY <1>1
    <2>4. ASSUME NEW p \in Positions, p < Len(store[f])
          PROVE  \/ store'[f][p + 1] = store[f][p + 1]
                 \/ Writing(t, f)' /\ call'[t].from <= p /\ p < call'[t].to
      <3>1. CASE call[t].op = "write" /\ a <= p /\ p < b
        <4>1. from = call[t].from /\ to = call[t].to
          BY <1>p, <3>1 DEF Start, End
        <4>2. p \in Nat
          BY MaxSizeAssumption DEF Positions
        <4>3. from <= p /\ p < to
          BY <1>1, <1>2, <3>1, <4>2
        <4> QED
          BY <1>1, <1>p, <3>1, <4>1, <4>3 DEF Writing
      <3>2. CASE call[t].op = "write" /\ ~ (a <= p /\ p < b)
        BY <1>2, <2>4, <3>2
      <3>3. CASE call[t].op = "read"
        BY <1>5, <3>3
      <3> QED
        BY <1>1, <3>1, <3>2, <3>3
    <2> QED
      BY <1>1, <2>1, <2>2, <2>3, <2>4, KeptStays
  <1>8. CallInv(t)'
    BY <1>2, <1>6
  <1> QED
    BY <1>1, <1>3, <1>4, <1>7, <1>8, <1>p, ContentFrame

\* A copy that runs out of block pointers has come to the end of the blocks.
LEMMA CopyEndsContent ==
  ASSUME LockInv, DataInv, ContentInv, NEW t \in Threads, CopyEnds(t)
  PROVE  ContentInv'
  <1>p. PICK f, from, to, cur, segs :
          /\ f = call[t].file /\ from = Start(t) /\ to = End(t)
          /\ cur = cursor[t] /\ segs = node[f].segs
    OBVIOUS
  <1>1. /\ pc[t] = "copy" /\ cur.seg > Len(segs) /\ Goto(t, "unlock")
        /\ UNCHANGED <<node, store, last, placed, cursor, buf>>
    BY <1>p DEF CopyEnds, memory
  <1>2. call[t].op \in {"read", "write"} /\ f \in Files /\ cur \in Cursor
    BY <1>1, <1>p, CallFacts DEF CopyInv, FileCalls
  <1>3. /\ segs \in Seq(Nat) /\ node[f].size \in Nat /\ BlocksOf(segs) \in Nat
        /\ Len(store[f]) = BlocksOf(segs)
    BY <1>2, <1>p, FileFacts
  <1>4. from \in Nat /\ to \in Nat
    BY <1>2, <1>3, <1>p, EndTyped
  <1>5. At(cur, segs, from, to) /\ Moved(t, to - cur.left)
    BY <1>1, <1>p DEF ContentInv, CallInv
  <1>6. BlocksOf(segs) <= to - cur.left
    BY <1>1, <1>2, <1>3, <1>4, <1>5, CopyOver
  <1>8. pc'[t] = "unlock" /\ call'[t] = call[t]
    BY <1>1 DEF Goto, LockInv
  <1>9. CallInv(t)'
    <2>1. Start(t)' = from /\ End(t)' = to /\ call'[t].file = f
      BY <1>1, <1>8, <1>p DEF Start, End
    <2>2. PICK e : e = to - cur.left
      OBVIOUS
    <2>3. \A p \in Positions : p < Len(store[f]) => p < e
      <3>1. cur.left \in Nat
        BY <1>2, CursorFields
      <3>2. e \in Int /\ Len(store[f]) <= e /\ Len(store[f]) \in Nat
        BY <1>3, <1>4, <1>6, <2>2, <3>1
      <3>3. \A p \in Positions : p \in Nat
        BY MaxSizeAssumption DEF Positions
      <3> QED
        BY <3>2, <3>3
    <2>4. Moved(t, End(t))'
      <3>1. Moved(t, e)
        BY <1>5, <2>2
      <3> QED
        BY <1>1, <1>8, <1>p, <2>1, <2>3, <3>1 DEF Moved
    <2> QED
      BY <1>8, <2>4 DEF CallInv
  <1>10. \A g : Writing(t, g) => Writing(t, g)' /\ call'[t] = call[t]
    BY <1>8 DEF Writing
  <1>11. Alone(t)
    BY StepAlone DEF Step
  <1> QED
    BY <1>1, <1>9, <1>10, <1>11, ContentQuiet

\* A step of a thread preserves ContentInv.
LEMMA StepContent ==
  ASSUME LockInv, DataInv, ContentInv, NEW t \in Threads, Begin(t) \/ Step(t)
  PROVE  ContentInv'
  <1>1. CASE /\ UNCHANGED <<node, store, last, placed>> /\ pc[t] \notin {"copy", "unlock"}
             /\ pc'[t] # "copy"
    BY <1>1, QuietContent
  <1>2. CASE CheckWrite(t)
    <2>1. CASE pc'[t] = "copy"
      BY <1>2, <2>1, CheckWriteContent
    <2>2. CASE pc'[t] # "copy"
      <3>1. UNCHANGED <<node, store, last, placed>> /\ pc[t] = "check"
        BY <1>2, <2>2 DEF CheckWrite, Goto, LockInv
      <3> QED
        BY <1>1, <2>2, <3>1
    <2> QED
      BY <2>1, <2>2
  <1>3. CASE \/ Begin(t) \/ Lock(t) \/ LockDir(t) \/ LockFs(t) \/ CheckTruncate(t)
             \/ Add(t) \/ Save(t) \/ SaveBps(t)
    <2>1. UNCHANGED <<node, store, last, placed>>
      BY <1>3 DEF Begin, Lock, LockDir, LockFs, CheckTruncate, Add, Save, SaveBps, memory
    <2>2. pc[t] \notin {"copy", "unlock"}
      BY <1>3 DEF Begin, Lock, LockDir, LockFs, CheckTruncate, Add, Save, SaveBps
    <2>3. pc'[t] # "copy"
      BY <1>3 DEF Begin, Lock, LockDir, LockFs, CheckTruncate, Add, Save, SaveBps, Goto,
                  Return, LockInv
    <2> QED
      BY <1>1, <2>1, <2>2, <2>3
  <1> QED
    BY <1>2, <1>3, CheckReadContent, AllocContent, TruncateContent, RemoveContent,
       UnlockContent, CopyContent, CopyEndsContent DEF Step

\* Nothing has been written at first.
LEMMA InitContent == Init => ContentInv
  <1> SUFFICES ASSUME Init PROVE ContentInv
    OBVIOUS
  <1>1. \A t \in Threads : CallInv(t)
    BY DEF Init, CallInv
  <1>2. \A f \in Files : KeptInv(f)
    BY DEF Init, KeptInv, Unwritten
  <1> QED
    BY <1>1, <1>2 DEF ContentInv

\* A step that changes nothing preserves ContentInv.
LEMMA StutterContent == ContentInv /\ UNCHANGED vars => ContentInv'
  BY DEF ContentInv, CallInv, KeptInv, Writing, Moved, Start, End, vars, memory

\* A read holds the file while it copies, and what it copies in its place is what
\* was written last in its place.
LEMMA ContentReads ==
  ASSUME LockInv, DataInv, ContentInv
  PROVE  ReadsInPlace
  <1> SUFFICES ASSUME NEW t \in Threads, NEW p \in Positions, Returned(t, p),
                      NEW f, f = call[t].file, NEW c, c = call[t], p \in placed[f],
                      InPlace(node[f].segs, c.from,
                              IF c.to < node[f].size THEN c.to ELSE node[f].size)
               PROVE  buf[t][p - c.from] = last[f][p]
    BY DEF ReadsInPlace
  <1>1. /\ pc[t] = "unlock" /\ c.op = "read" /\ c.from <= p /\ p < c.to /\ p < node[f].size
        /\ last[f][p] # None
    BY DEF Returned
  <1>2. /\ f \in Files /\ f \in HeldBy(t) /\ p \in Nat
        /\ c.from \in Nat /\ c.to \in Nat /\ c.from < c.to /\ c.from <= SizeSpace
        /\ node[f].size \in Nat
    BY <1>1, CallFacts, FileFacts, MaxSizeAssumption DEF FileCalls, HeldBy, OnFile, Positions
  <1>3. \A u \in Threads : ~ Writing(u, f)
    <2>1. ~ Writing(t, f)
      BY <1>1 DEF Writing
    <2> QED
      BY <1>2, <2>1, OnlyWriter
  <1>4. p < Len(store[f]) /\ store[f][p + 1] = last[f][p]
    BY <1>1, <1>2, <1>3 DEF ContentInv, KeptInv
  <1>5. /\ Start(t) = c.from
        /\ End(t) = IF c.to < node[f].size THEN c.to ELSE node[f].size
    <2>1. End(t) = c.from + Asked(node[f].size, c.from, c.to) /\ Start(t) = c.from
      BY <1>1 DEF Start, End
    <2>2. PICK n, size : n = Asked(node[f].size, c.from, c.to) /\ size = node[f].size
      OBVIOUS
    <2>3. /\ c.to <= size => c.from + n = c.to
          /\ ~(c.to <= size) /\ c.from <= size => c.from + n = size
      BY <1>2, <2>2, AskedTyped
    <2>4. c.from <= size
      BY <1>1, <1>2, <2>2
    <2> QED
      BY <1>2, <2>1, <2>2, <2>3, <2>4
  <1>6. p < End(t)
    BY <1>1, <1>2, <1>5
  <1>7. Moved(t, End(t))
    BY <1>1 DEF ContentInv, CallInv
  <1>8. buf[t][p - c.from] = store[f][p + 1]
    BY <1>1, <1>4, <1>5, <1>6, <1>7 DEF Moved
  <1> QED
    BY <1>4, <1>8

\* A read that comes to at most two block pointers returns at every position what
\* was written there last, if that write had come to at most two on its way to the
\* position: however reads, writes, truncates, creates and unlinks of any number
\* of threads interleave, and whatever the distributor grants or denies, as long
\* as it grants no block to two files.
THEOREM WritesReadBack == Spec => []ReadsInPlace
  <1>1. LockInv /\ DataInv /\ ContentInv /\ [Next]_vars => ContentInv'
    <2> SUFFICES ASSUME LockInv, DataInv, ContentInv, [Next]_vars
                 PROVE  ContentInv'
      OBVIOUS
    <2>1. CASE UNCHANGED vars
      BY <2>1, StutterContent
    <2>2. CASE Next
      <3>1. PICK t \in Threads : Begin(t) \/ Step(t)
        BY <2>2 DEF Next
      <3> QED
        BY <3>1, StepContent
    <2> QED
      BY <2>1, <2>2
  <1>2. LockInv /\ DataInv /\ ContentInv => ReadsInPlace
    BY ContentReads
  <1> QED
    BY LocksHold, DataHolds, InitContent, <1>1, <1>2, PTL DEF Spec

=============================================================================
