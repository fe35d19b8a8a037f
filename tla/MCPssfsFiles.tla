----------------------------- MODULE MCPssfsFiles -----------------------------
(***************************************************************************)
(* The ranges that are written and read in the runs of PssfsFiles.         *)
(***************************************************************************)
EXTENDS PssfsFiles

GrowOnce    == { [from |-> 0, to |-> 2], [from |-> 1, to |-> 2] }
GrowTwice   == { [from |-> 0, to |-> 1], [from |-> 1, to |-> 2] }
TooLarge    == GrowOnce \cup { [from |-> 0, to |-> 3] }
WholeFile   == { [from |-> 0, to |-> 2] }
SecondBlock == { [from |-> 1, to |-> 2] }
\* A write that needs a third block pointer after two truncates, and others that
\* lie in one or two of the pointers there are.
Pieces      == { [from |-> 0, to |-> 4], [from |-> 1, to |-> 3], [from |-> 3, to |-> 4] }
PiecesRead  == { [from |-> 0, to |-> 4], [from |-> 1, to |-> 4] }
=============================================================================
