------------------------ MODULE MCTransactionManager ------------------------
(* Model-checking instance of TransactionManager. *)
EXTENDS TransactionManager, TLC

ThreadSymmetry == Permutations(Threads)

\* Each thread with its own transaction, and cleanup at any time; the same with
\* failing writes; two threads that end one transaction, with records in between;
\* two threads that end any of two transactions.
MCWorkloads ==
    {[txs |-> 2, pushes |-> 2, logs |-> 1, checkpoints |-> 0,
      failing |-> FALSE, sharing |-> FALSE, cleanups |-> TRUE],
     [txs |-> 2, pushes |-> 1, logs |-> 0, checkpoints |-> 0,
      failing |-> TRUE, sharing |-> FALSE, cleanups |-> FALSE],
     [txs |-> 1, pushes |-> 1, logs |-> 1, checkpoints |-> 1,
      failing |-> TRUE, sharing |-> TRUE, cleanups |-> FALSE],
     [txs |-> 2, pushes |-> 0, logs |-> 0, checkpoints |-> 0,
      failing |-> TRUE, sharing |-> TRUE, cleanups |-> FALSE]}
=============================================================================
