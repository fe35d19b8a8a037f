--------------------------- MODULE BlockDistributor ---------------------------
(***************************************************************************)
(* The content block distributor of task6/src/block_distributor.c.         *)
(*                                                                         *)
(* It keeps a bitmap of the blocks and a short list of known free starts,  *)
(* both volatile.  The operations on it are written as operators on a      *)
(* record d of the distributor and of the one node that the call is about: *)
(*                                                                         *)
(*   groups, starts   struct block_distributor                             *)
(*   bps, blocks      node->bps and node->meta.st_blocks                   *)
(*   ret              what the call returns                                *)
(*   fault            "none", or how the call leaves defined behaviour     *)
(*                                                                         *)
(* Fetch is given as the set of its outcomes, one for each way rand() can  *)
(* fall.  The next-state relation calls the operations the way truncate    *)
(* and unlink of pssfs.c do.                                               *)
(***************************************************************************)
EXTENDS BlockGroup, Sequences, SequencesExt

CONSTANTS
  NumGroups,   \* groups of the bitmap (412878 in the code)
  NumStarts,   \* known free starts (32 in the code)
  Files,
  Sizes,       \* the sizes a file is grown to, in blocks
  MaxCalls     \* bound on the number of calls

ASSUME NumGroupsAssumption == NumGroups \in Nat \ {0}
ASSUME NumStartsAssumption == NumStarts \in Nat \ {0}
ASSUME SizesAssumption == Sizes \subseteq Nat \ {0}
ASSUME MaxCallsAssumption == MaxCalls \in Nat

Groups == 0 .. NumGroups - 1
Blocks == 0 .. (NumGroups * W) - 1

GroupOf(block)    == block \div W
PositionOf(block) == block % W

BlockPointer == [begin : Blocks, length : Nat]
Covered(bp)  == bp.begin .. bp.begin + bp.length - 1

Used(groups, block) == PositionOf(block) \in groups[GroupOf(block)]

\* The block number of the lowest free block of a group.
StartOf(groups, g) == (g * W) + FirstFree(groups[g])

Failed(d)        == [d EXCEPT !.ret = -1]
Faulted(d, what) == [d EXCEPT !.fault = what]
Settled(d)       == d.ret # -1 \/ d.fault # "none"

-----------------------------------------------------------------------------
(* try_block_append *)

\* The known starts after a block pointer came to cover begin .. next - 1.  If
\* block next is free it overwrites the first entry, else the covered entries
\* are removed, but the one that follows a removed one is skipped.
KeepUncovered(starts, begin, next) ==
  FoldLeft(LAMBDA kept, start :
             IF kept.skip THEN [seq |-> Append(kept.seq, start), skip |-> FALSE]
             ELSE IF begin < start /\ start < next THEN [kept EXCEPT !.skip = TRUE]
             ELSE [kept EXCEPT !.seq = Append(@, start)],
           [seq |-> <<>>, skip |-> FALSE], starts).seq

RefreshStarts(d, begin, next) ==
  IF ~\E i \in DOMAIN d.starts : begin < d.starts[i] /\ d.starts[i] < next THEN d
  ELSE IF GroupOf(next) \notin Groups THEN Faulted(d, "overrun")
  ELSE [d EXCEPT !.starts = IF ~Used(d.groups, next)
                              THEN [@ EXCEPT ![1] = next]
                              ELSE KeepUncovered(@, begin, next)]

\* Slip: the range grows, the count of the node does not.
LengthenOnly(d, req) == [d EXCEPT !.bps[Len(d.bps)].length = @ + req, !.ret = req]
\* The last block pointer of the node grows, whichever blocks were marked.
Lengthen(d, req) ==
  [d EXCEPT !.bps[Len(d.bps)].length = @ + req, !.blocks = @ + req, !.ret = req]

ExtendLast(d, req) ==
  IF d.bps = <<>> THEN Faulted(d, "null_bps")
  ELSE LET long == Lengthen(d, req)
           last == long.bps[Len(long.bps)]
       IN  RefreshStarts(long, last.begin, last.begin + last.length)

\* Slip: only the group that the request ends in is examined.
LastFits(group, left) == left <= W => FreeHead(group, left) = left
\* Whether a group can take its share while left blocks are still needed.
GroupFits(group, left) ==
  /\ left >= W => Free(group) = W
  /\ left <= W => FreeHead(group, left) = left

\* The request spans the tail of group g, whole groups, and rem blocks of the
\* last of the more groups after g.
Spanning(d, g, local, more, rem) ==
  LET fits(i) == GroupFits(d.groups[g + i], rem + ((more - i) * W))
      reached(i) == \A j \in 1 .. i - 1 : fits(j)
  IN  IF \E i \in 1 .. more : g + i \notin Groups /\ reached(i)
        THEN Faulted(d, "overrun")
      ELSE IF \E i \in 1 .. more : ~fits(i)
        THEN Failed(d)
      ELSE [d EXCEPT !.ret = 0,
                     !.groups = [h \in Groups |->
                        IF h = g THEN Mark(@[h], TailPattern(local))
                        ELSE IF g < h /\ h < g + more THEN {}
                        ELSE IF h = g + more THEN Mark(@[h], LowPattern(rem))
                        ELSE @[h]]]

TryAppend(d, first, req) ==
  LET g     == GroupOf(first)
      local == PositionOf(first)
      tail  == W - local
      more  == (req - tail + W - 1) \div W
      span  == Spanning(d, g, local, more, req - tail - ((more - 1) * W))
  IN  IF g \notin Groups THEN Faulted(d, "overrun")
      ELSE IF ~FreeTail(d.groups[g], tail) THEN Failed(d)
      ELSE IF req < tail
        THEN ExtendLast([d EXCEPT !.groups[g] = Mark(@, LowPattern(local + req))], req)
      ELSE IF Settled(span) /\ span.fault = "none" THEN ExtendLast(span, req)
      ELSE span

-----------------------------------------------------------------------------
(* reinit_free_start and fetch_block_and_append *)

\* One draw of rand() for each entry; a group without a free block adds none.
Reinits(d) ==
  { [d EXCEPT !.starts =
       FoldLeft(LAMBDA known, g : IF Free(d.groups[g]) > 0
                                    THEN Append(known, StartOf(d.groups, g))
                                    ELSE known,
                <<>>, draws)] :
    draws \in [1 .. NumStarts -> Groups] }

\* The start that was used moves to the next free block of its group or of
\* the next one, and stays where it is if both are full.
AdvanceStart(d, cur, g) ==
  IF Free(d.groups[g]) > 0 THEN [d EXCEPT !.starts[cur] = StartOf(d.groups, g)]
  ELSE IF g + 1 \notin Groups THEN Faulted(d, "overrun")
  ELSE IF Free(d.groups[g + 1]) > 0
    THEN [d EXCEPT !.starts[cur] = StartOf(d.groups, g + 1)]
  ELSE d

TakeFrom(d, cur, req) ==
  LET first == d.starts[cur]
      g     == GroupOf(first)
  IN  AdvanceStart([d EXCEPT
                      !.groups[g] = Mark(@, FetchPattern(PositionOf(first), req)),
                      !.bps = Append(@, [begin |-> first, length |-> req]),
                      !.blocks = @ + req,
                      !.ret = req],
                   cur, g)

TryStart(d, cur, req) ==
  LET group == d.groups[GroupOf(d.starts[cur])]
  IN  IF Free(group) >= req /\ FreeRun(group, req) THEN TakeFrom(d, cur, req)
      ELSE IF FreeTail(group, Free(group)) THEN TryAppend(d, d.starts[cur], req)
      ELSE Failed(d)

\* Slip: the node is charged for blocks it did not get.
DeniedButCounted(d, req) == { Failed([e EXCEPT !.blocks = @ + req]) : e \in Reinits(d) }
Denied(d, req) == { Failed(e) : e \in Reinits(d) }

\* All known starts are tried in turn, beginning with a random one.
TryStarts(d, req) ==
  LET n == Len(d.starts)
      turn(foo, idx) == TryStart(d, ((foo + idx) % n) + 1, req)
  IN  IF \A cur \in 1 .. n : ~Settled(TryStart(d, cur, req))
        THEN Denied(d, req)
        ELSE { turn(foo, CHOOSE idx \in 0 .. n - 1 :
                           /\ Settled(turn(foo, idx))
                           /\ \A j \in 0 .. idx - 1 : ~Settled(turn(foo, j))) :
               foo \in 0 .. n - 1 }

Fetch(d, req) ==
  UNION { TryStarts(e, req) : e \in IF d.starts = <<>> THEN Reinits(d) ELSE {d} }

-----------------------------------------------------------------------------
(* block_distributor_realloc and block_distributor_free *)

\* n is the size asked for, rounded up to blocks.
Realloc(d, n) ==
  LET req  == n - d.blocks
      last == d.bps[Len(d.bps)]
      cont == TryAppend(d, last.begin + last.length, req)
  IN  IF req <= 0 THEN { [d EXCEPT !.ret = 0] }
      ELSE IF d.bps = <<>> THEN Fetch(d, n)
      ELSE IF Settled(cont) THEN { cont }
      ELSE Fetch(d, req)

\* The blocks of one pointer.  rem is computed from the beginning of the range
\* and not from its length, and wraps around below zero.
FreePointer(d, bp) ==
  LET g     == GroupOf(bp.begin)
      local == PositionOf(bp.begin)
      start == IF W - local < bp.length THEN W - local ELSE bp.length
      rem   == bp.begin - start
      whole == rem \div W
      first == [d EXCEPT !.groups[g] = Toggle(@, LowPattern(local + start))]
  IN  IF start >= bp.length THEN [first EXCEPT !.ret = 0]
      ELSE IF rem < 0 THEN Faulted(d, "underflow")
      ELSE IF g + whole + 1 \notin Groups THEN Faulted(d, "overrun")
      ELSE [first EXCEPT !.groups = [h \in Groups |->
              IF g < h /\ h <= g + whole THEN {}
              ELSE IF h = g + whole + 1 THEN Toggle(@[h], LowPattern(rem % W))
              ELSE @[h]]]

\* A pointer within one group ends the call, the pointers after it stay.
FreeAll(d) ==
  LET after == FoldLeft(LAMBDA e, bp : IF Settled(e) THEN e ELSE FreePointer(e, bp),
                        Failed(d), d.bps)
  IN  [after EXCEPT !.ret = 0]

-----------------------------------------------------------------------------
(* The distributor under the calls of truncate and unlink.                 *)

VARIABLES
  groups, starts,   \* struct block_distributor
  bps, blocks,      \* of each file
  call, ret,        \* the last call and what it returned
  calls,            \* how many there were
  status            \* "ok", or the fault that ended the process

vars == <<groups, starts, bps, blocks, call, ret, calls, status>>

Record(f) == [groups |-> groups, starts |-> starts, bps |-> bps[f],
              blocks |-> blocks[f], ret |-> -1, fault |-> "none"]

Becomes(f, d) ==
  /\ groups' = d.groups /\ starts' = d.starts
  /\ bps' = [bps EXCEPT ![f] = d.bps]
  /\ blocks' = [blocks EXCEPT ![f] = d.blocks]
  /\ ret' = d.ret
  /\ status' = IF d.fault = "none" THEN "ok" ELSE d.fault
  /\ calls' = calls + 1

\* block_distributor_init
Init ==
  /\ groups = [g \in Groups |-> {}]
  /\ starts \in [1 .. NumStarts -> {g * W : g \in Groups}]
  /\ bps = [f \in Files |-> <<>>]
  /\ blocks = [f \in Files |-> 0]
  /\ call = "init" /\ ret = 0 /\ calls = 0 /\ status = "ok"

Grow(f, n) ==
  /\ status = "ok" /\ calls < MaxCalls
  /\ \E d \in Realloc(Record(f), n) : Becomes(f, d)
  /\ call' = "grow"

\* The node goes with the last link; a file created later starts with none.
Unlink(f) ==
  /\ status = "ok" /\ calls < MaxCalls /\ bps[f] # <<>>
  /\ Becomes(f, [FreeAll(Record(f)) EXCEPT !.bps = <<>>, !.blocks = 0])
  /\ call' = "unlink"

Next ==
  \E f \in Files :
     \/ \E n \in Sizes : Grow(f, n)
     \/ Unlink(f)

Spec == Init /\ [][Next]_vars

-----------------------------------------------------------------------------
(* Properties *)

LengthOf(f) == FoldLeft(LAMBDA sum, bp : sum + bp.length, 0, bps[f])

OwnedBlocks(f) == UNION { Covered(bps[f][i]) : i \in DOMAIN bps[f] }

TypeOK ==
  /\ groups \in [Groups -> Byte]
  /\ starts \in Seq(Blocks) /\ Len(starts) <= NumStarts
  /\ bps \in [Files -> Seq(BlockPointer)]
  /\ blocks \in [Files -> Nat]
  /\ call \in {"init", "grow", "unlink"} /\ ret \in Nat \cup {-1}
  /\ calls \in 0 .. MaxCalls
  /\ status \in {"ok", "null_bps", "overrun", "underflow"}

\* st_blocks, from which the next request is computed, is the sum of the
\* lengths of the block pointers, whichever of the three ways of granting
\* blocks was taken.
BlocksAccounted == \A f \in Files : blocks[f] = LengthOf(f)

\* A call that could not grant its blocks leaves the bitmap and every node as
\* they were, however far the search through the groups had come.
FailureChangesNothing ==
  [][ret' = -1 /\ status' = "ok" => UNCHANGED <<groups, bps, blocks>>]_vars

\* Granting blocks never marks a used block as free, although it stores whole
\* bytes of the bitmap.
GrowNeverUnmarks ==
  [][call' = "grow" => \A g \in Groups : groups[g] \subseteq groups'[g]]_vars

\* "with one block belonging to one or none inodes" (task6/design.md:170).
BlockOwnedByOne ==
  status = "ok" =>
    \A f, h \in Files : f # h => OwnedBlocks(f) \cap OwnedBlocks(h) = {}
=============================================================================
