--------------------------- MODULE MCTableSession ---------------------------
(* Model-checking instances of TableSession. *)
EXTENDS TableSession

\* The VALUES clauses of the runs: one row, and two rows with different values.
MCValueLists == {<<1>>, <<1, 2>>}

OneSession(s) ==
    [sessions |-> {s}, tables |-> Tables, frames |-> 12, statements |-> 4,
     ioErrors |-> TRUE, restarts |-> FALSE]

\* One session with two tables; two sessions with a pool that fills up, errors
\* and restarts.
MCWorkloads ==
    {OneSession(CHOOSE s \in Sessions : TRUE),
     [sessions |-> Sessions, tables |-> {"t"}, frames |-> 4, statements |-> 3,
      ioErrors |-> TRUE, restarts |-> TRUE]}

Undisturbed == {[OneSession(s) EXCEPT !.ioErrors = FALSE] : s \in Sessions}
=============================================================================
