------------------------------- MODULE NameSpace -------------------------------
(***************************************************************************)
(* What a file system promises about names: a tree of files and            *)
(* directories that is changed by one entry at a time, or by one subtree   *)
(* that moves as a whole.  An object keeps its identity when it is moved.  *)
(* Once `sound` is FALSE nothing is promised.                              *)
(***************************************************************************)
EXTENDS Integers, Sequences, SequencesExt

CONSTANT Root  \* the path of the root directory

VARIABLES tree, sound

IsDir(p) == p \in DOMAIN tree /\ tree[p].kind = "dir"

Init ==
  /\ sound = TRUE
  /\ Root \in DOMAIN tree
  /\ \A p \in DOMAIN tree \ {Root} : IsDir(Front(p))

\* A new object, below a directory that is there.
Make ==
  \E p \in DOMAIN tree' \ DOMAIN tree :
    /\ p # Root /\ IsDir(Front(p))
    /\ \A q \in DOMAIN tree : tree[q].id # tree'[p].id
    /\ tree' = [q \in DOMAIN tree \cup {p} |-> IF q = p THEN tree'[p] ELSE tree[q]]

Delete ==
  \E p \in DOMAIN tree :
    /\ tree[p].kind = "file"
    /\ tree' = [q \in DOMAIN tree \ {p} |-> tree[q]]

\* Everything below `from` is found below `to`, where nothing was.
Move ==
  \E from \in DOMAIN tree \ {Root}, to \in DOMAIN tree' \ DOMAIN tree :
    /\ IsDir(Front(to)) /\ ~IsPrefix(from, to)
    /\ LET old(p) == from \o SubSeq(p, Len(to) + 1, Len(p))
           kept   == {p \in DOMAIN tree : ~IsPrefix(from, p)}
           moved  == {to \o SubSeq(p, Len(from) + 1, Len(p)) :
                        p \in DOMAIN tree \ kept}
       IN  tree' = [p \in kept \cup moved |-> IF p \in kept THEN tree[p] ELSE tree[old(p)]]

Exchange ==
  \E p, q \in DOMAIN tree :
    tree' = [tree EXCEPT ![p] = tree[q], ![q] = tree[p]]

Next == (sound /\ sound') => (Make \/ Delete \/ Move \/ Exchange)

Spec == Init /\ [][Next]_<<tree, sound>>
=============================================================================
