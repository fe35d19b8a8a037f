---------------------------- MODULE BlockGroupBits ----------------------------
(***************************************************************************)
(* The expressions of block_distributor.c on one byte of a bitmap, as the  *)
(* code computes them on integers, and their agreement with the sets of    *)
(* BlockGroup.  For W = 8.                                                 *)
(***************************************************************************)
EXTENDS BlockGroup, Bitwise

Left(x, n)  == x * 2^n
Right(x, n) == x \div 2^n
Uchar(x)    == x % 256

block_group_free(block) ==
  8 - Cardinality({b \in 0 .. 7 : Right(block, b) & 1 = 1})

\* The loop counts cur down from the most significant bit.
block_group_first_free(block) ==
  IF \A cur \in 0 .. 7 : Right(block, cur) & 1 = 1 THEN 8
  ELSE 7 - (CHOOSE cur \in 0 .. 7 :
              /\ Right(block, cur) & 1 = 0
              /\ \A higher \in cur + 1 .. 7 : Right(block, higher) & 1 = 1)

block_group_free_tail(block, req) == Right(255, 8 - req) & block = 0

block_group_free_head(block, req) == block_group_free(Left(255, req) & block)

block_group_seq(block, req) ==
  \E shift \in 0 .. 7 : Right(block, shift) & Right(255, 8 - req) = 0

\* try_block_append within one group, over the end of one, in the last one.
AppendPattern(pos, req) == Uchar(Right(Left(255, 8 - req), pos))
RestPattern(tail)       == Right(255, 8 - tail)
LastPattern(rem)        == Uchar(Left(255, 8 - rem))

\* fetch_block_and_append, for a request that fits behind pos.
RunPattern(pos, req)    == Uchar(Left(Right(255, 8 - req), 8 - pos - req))

\* block_distributor_free, meta_block_distributor_get_next_free.
FreePattern(pos, start) == Uchar(Right(Left(255, 8 - start), pos))
MetaPattern(pos)        == Right(128, pos)

-----------------------------------------------------------------------------

\* The used positions of a byte.
AsGroup(block) == { p \in 0 .. 7 : Right(block, 7 - p) & 1 = 1 }

\* Every predicate of the code, on every byte and request, is the set
\* expression of BlockGroup that stands for it.
PredicatesAgree ==
  \A block \in 0 .. 255 :
    LET group == AsGroup(block)
    IN  /\ block_group_free(block) = Free(group)
        /\ block_group_first_free(block) = FirstFree(group)
        /\ \A req \in 0 .. 8 : block_group_free_tail(block, req) = FreeTail(group, req)
        /\ \A req \in 1 .. 8 :
             /\ block_group_free_head(block, req) = FreeHead(group, req)
             /\ block_group_seq(block, req) = FreeRun(group, req)

\* So is every pattern that is or'ed or xor'ed into a byte.
PatternsAgree ==
  \A pos \in 0 .. 7 :
    /\ \A req \in 1 .. 7 - pos : AsGroup(AppendPattern(pos, req)) = LowPattern(pos + req)
    /\ AsGroup(RestPattern(8 - pos)) = TailPattern(pos)
    /\ \A rem \in 0 .. 8 : AsGroup(LastPattern(rem)) = LowPattern(rem)
    /\ \A req \in 1 .. 8 - pos : AsGroup(RunPattern(pos, req)) = FetchPattern(pos, req)
    /\ \A start \in 1 .. 8 - pos : AsGroup(FreePattern(pos, start)) = LowPattern(pos + start)
    /\ AsGroup(MetaPattern(pos)) = {pos}

\* Or and xor of bytes are union and symmetric difference.
MarksAgree ==
  \A block \in 0 .. 255, pos \in 0 .. 7 :
    LET pattern == LastPattern(pos)
    IN  /\ AsGroup(block | pattern) = Mark(AsGroup(block), AsGroup(pattern))
        /\ AsGroup(block ^^ pattern) = Toggle(AsGroup(block), AsGroup(pattern))
=============================================================================
