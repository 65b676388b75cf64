----------------------------- MODULE MCPagesTree -----------------------------
(* Model-checking instance of FileManager and BTree, the two ends of the page   *)
(* storage, each by itself: a behaviour runs one of them.                       *)
EXTENDS FileManager, BTree

VARIABLE focus   \* the part that runs in this behaviour

Insertions(keys, frames) ==
    [keys |-> keys, frames |-> frames, inserts |-> Cardinality(keys), deletes |-> 0,
     large |-> FALSE, duplicates |-> FALSE, iterations |-> FALSE]

\* Ten keys, which give a tree of three levels; pools too small for the split of
\* the root and of a child; insertions that are repeated or fail, with deletions;
\* iterations over a small tree.
MCWorkloads ==
    {Insertions(1 .. 10, 9),
     Insertions(1 .. 4, 1), Insertions(1 .. 4, 2), Insertions(1 .. 6, 3),
     [Insertions(1 .. 5, 5) EXCEPT !.inserts = 6, !.deletes = 1, !.large = TRUE,
                                   !.duplicates = TRUE],
     [Insertions(1 .. 5, 4) EXCEPT !.deletes = 1, !.iterations = TRUE]}

MCInit ==
    /\ focus \in {"pages", "tree"}
    /\ FmInit /\ BtInit
    /\ focus = "tree" \/ load = Insertions(1 .. 10, 9)

\* The workloads of the tree come to an end, the page file never does.
MCNext ==
    \/ focus = "pages" /\ FmNext /\ UNCHANGED <<btVars, focus>>
    \/ focus = "tree" /\ BtNext /\ UNCHANGED <<fmVars, focus>>
    \/ focus = "tree" /\ UNCHANGED <<fmVars, btVars, focus>>

MCSpec == MCInit /\ [][MCNext]_<<fmVars, btVars, focus>>
=============================================================================
