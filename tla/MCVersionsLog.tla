---------------------------- MODULE MCVersionsLog ----------------------------
(* Model-checking instance of Mvcc and Wal, the two parts that the transaction *)
(* manager drives, each by itself: a behaviour runs one of them.               *)
EXTENDS Mvcc, Wal, TLC

VARIABLE focus   \* the part that runs in this behaviour

Symmetry == Permutations(TxIds) \cup Permutations(Records)

MCInit == focus \in {"versions", "log"} /\ MvccInit /\ WalInit

MCNext ==
    \/ focus = "versions" /\ MvccNext /\ UNCHANGED <<walVars, focus>>
    \/ focus = "log" /\ WalNext /\ UNCHANGED <<mvccVars, focus>>

MCSpec == MCInit /\ [][MCNext]_<<mvccVars, walVars, focus>>
=============================================================================
