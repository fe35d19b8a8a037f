-------------------------- MODULE MCBlockDistributor --------------------------
(***************************************************************************)
(* BlockDistributor with the files interchangeable and the byte width of   *)
(* the code, for which the sets are compared with the C expressions.       *)
(***************************************************************************)
EXTENDS BlockDistributor, BlockGroupBits

Symmetry == Permutations(Files)

ASSUME GroupsAreBytes == W = 8 /\ PredicatesAgree /\ PatternsAgree /\ MarksAgree
=============================================================================
