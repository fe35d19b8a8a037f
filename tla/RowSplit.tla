------------------------------- MODULE RowSplit -------------------------------
(***************************************************************************)
(* How the checkpoint programs of task2, task3 and task4 divide the rows   *)
(* of the matrix among a team of T threads.  All of them compute it with   *)
(* the same three assignments.                                             *)
(***************************************************************************)
EXTENDS Integers

CONSTANT N   \* rows of the matrix

ASSUME NAssumption == N \in Nat \ {0}

Rows == 0 .. N - 1

\* Slip: the remainder of the division is dropped.
LinesFloor(T, t) == N \div T
Lines(T, t) == IF t < (N % T) THEN (N \div T) + 1 ELSE N \div T
From(T, t)  == IF t < (N % T) THEN Lines(T, t) * t
                              ELSE (Lines(T, t) * t) + (N % T)
To(T, t)    == From(T, t) + Lines(T, t)
Slice(T, t) == From(T, t) .. To(T, t) - 1
=============================================================================
