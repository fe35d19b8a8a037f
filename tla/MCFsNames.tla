------------------------------ MODULE MCFsNames -------------------------------
(***************************************************************************)
(* FsNames for TLC.  Threads are interchangeable, and so are the names:    *)
(* nothing compares them but for equality.                                 *)
(***************************************************************************)
EXTENDS FsNames, TLC

Symmetry == Permutations(Threads) \cup Permutations(Names)
=============================================================================
