--------------------------- MODULE AtomicCheckpoint ---------------------------
(***************************************************************************)
(* What the checkpoint file of task2/checkpoint/checkpoint.c promises: the *)
(* header word and all rows change together, by one iteration, whoever     *)
(* computed it and however often the process was killed on the way.        *)
(***************************************************************************)
EXTENDS Integers, Sequences

CONSTANT Rows

VARIABLES completed, saved

Absent == [seed |-> "absent", done |-> <<>>]

Init ==
  /\ completed = 0
  /\ saved = [i \in Rows |-> Absent]

\* Every row gains the iteration that the header word names; a matrix that is
\* already there is continued, never started over.
Save ==
  /\ completed' \in {completed, completed + 1}
  /\ \E seed \in {"init", "lost"} :
       /\ \A i \in Rows : saved[i].seed \in {seed, "absent"}
       /\ saved' = [i \in Rows |->
                      [seed |-> seed, done |-> Append(saved[i].done, completed')]]

Spec == Init /\ [][Save]_<<completed, saved>>
=============================================================================
