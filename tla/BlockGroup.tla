------------------------------ MODULE BlockGroup ------------------------------
(***************************************************************************)
(* One byte of the content bitmap of task6 (block_distributor.c): a group  *)
(* of W blocks, as the set of the positions that are in use.  Position 0   *)
(* is the most significant bit, the lowest block of the group.  W is 8 in  *)
(* the code; nothing below depends on it.  BlockGroupBits compares these   *)
(* sets with the expressions of the code for every byte.                   *)
(***************************************************************************)
EXTENDS Integers, FiniteSets

CONSTANT W
ASSUME WAssumption == W \in Nat \ {0}

Positions == 0 .. W - 1

Byte == SUBSET Positions

\* block_group_free: how many blocks of the group are free.
Free(group) == W - Cardinality(group)

\* block_group_first_free: the lowest free position, W if there is none.
FirstFree(group) ==
  CHOOSE p \in 0 .. W :
    /\ p \in Positions => p \notin group
    /\ \A q \in Positions : q < p => q \in group

\* block_group_free_tail: the last req positions are free.
FreeTail(group, req) == group \cap (W - req .. W - 1) = {}

\* block_group_free_head.  It masks the last req positions away and counts the
\* used ones among the others.
FreeHead(group, req) == W - Cardinality(group \cap (0 .. W - 1 - req))

\* block_group_seq: req free positions in a row, where the positions that the
\* shift moves out of the byte count as free.
FreeRun(group, req) ==
  \E shift \in Positions : group \cap (W - shift - req .. W - 1 - shift) = {}

(* The positions that the shifted patterns of the code set or toggle.  The *)
(* pattern of fetch_block_and_append is shifted by a negative count when   *)
(* the request does not fit behind pos: undefined in C, no bit of the byte *)
(* on the machines it builds for, which shift by the count modulo 32.      *)
\* Slip: the pattern is not cut off at the end of the byte.
WidePattern(pos, req)  == pos .. pos + req - 1
FetchPattern(pos, req) == IF pos + req <= W THEN pos .. pos + req - 1 ELSE {}
LowPattern(upto)       == 0 .. upto - 1
TailPattern(pos)       == pos .. W - 1

Mark(group, pattern)   == group \cup pattern
Toggle(group, pattern) == (group \ pattern) \cup (pattern \ group)
=============================================================================
