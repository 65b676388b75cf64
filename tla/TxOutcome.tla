------------------------------ MODULE TxOutcome ------------------------------
(***************************************************************************)
(* What TransactionManager promises about the end of a transaction: its    *)
(* outcome is decided once, on the disk, before anybody is told, and never *)
(* changes; a caller is told that outcome, or that the call failed.        *)
(***************************************************************************)
CONSTANT Transactions

VARIABLES
    outcome,    \* the durable outcome
    told        \* the answer of commit_transaction or rollback_transaction

Outcome == {"committed", "aborted"}

OutcomeInit ==
    /\ outcome = [t \in Transactions |-> "undecided"]
    /\ told = [t \in Transactions |-> "none"]

Decide(t) ==
    /\ outcome[t] = "undecided"
    /\ \E o \in Outcome : outcome' = [outcome EXCEPT ![t] = o]
    /\ UNCHANGED told

Tell(t) ==
    /\ told[t] = "none"
    /\ \E answer \in {"error"} \cup (Outcome \cap {outcome[t]}) :
         told' = [told EXCEPT ![t] = answer]
    /\ UNCHANGED outcome

OutcomeNext == \E t \in Transactions : Decide(t) \/ Tell(t)

OutcomeSpec == OutcomeInit /\ [][OutcomeNext]_<<outcome, told>>
=============================================================================
