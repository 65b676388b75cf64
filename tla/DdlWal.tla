------------------------------- MODULE DdlWal -------------------------------
(***************************************************************************)
(* DdlWALManager (transaction/ddl_wal.rs): the log of DDL operations and   *)
(* the map of active DDL transactions, each under its own mutex.  A record *)
(* is at the position of its LSN; "by", the thread that wrote it, is       *)
(* history.  The write buffer is larger than the logs considered here, so  *)
(* it is written only when it is flushed.                                  *)
(***************************************************************************)
EXTENDS Naturals, Sequences, Catalog

VARIABLES
    walOn,    \* init_ddl_wal_manager has been called
    ddlLog,   \* the records, in LSN order
    flushed,  \* how many of them have left the buffer
    active    \* transaction -> its current_lsn

walVars == <<walOn, ddlLog, flushed, active>>

NoLsn == 0

WalInit == walOn \in BOOLEAN /\ ddlLog = <<>> /\ flushed = 0 /\ active = EmptyMap

Record(kind, tx, by, object, prev) == [kind |-> kind, tx |-> tx, by |-> by, object |-> object, prev |-> prev]

\* The last LSN of the log, whoever wrote it.
PrevLsnOfLog(tx) == Len(ddlLog)

\* get_transaction_prev_lsn, under the lock of the active transactions only.
PrevLsn(tx) == IF tx \in DOMAIN active THEN active[tx] ELSE NoLsn

\* begin_ddl_transaction: an active transaction of the same id is replaced.
BeginDdl(tx, by) ==
    /\ ddlLog' = Append(ddlLog, Record("begin", tx, by, NoLsn, NoLsn))
    /\ active' = Put(active, tx, Len(ddlLog'))
    /\ UNCHANGED <<walOn, flushed>>

\* The second part of log_create_table: append_record and
\* update_transaction_state, which passes over an unknown transaction.
LogDdl(kind, tx, by, object, prev) ==
    /\ ddlLog' = Append(ddlLog, Record(kind, tx, by, object, prev))
    /\ active' = IF tx \in DOMAIN active THEN Put(active, tx, Len(ddlLog')) ELSE active
    /\ UNCHANGED <<walOn, flushed>>

\* The first part of commit_ and rollback_ddl_transaction.
LeaveDdl(tx) ==
    /\ tx \in DOMAIN active
    /\ active' = Without(active, tx)
    /\ UNCHANGED <<walOn, ddlLog, flushed>>

\* The final record is appended, and left in the buffer.
EndDdlBuffered(kind, tx, by, prev) ==
    /\ ddlLog' = Append(ddlLog, Record(kind, tx, by, NoLsn, prev))
    /\ UNCHANGED <<walOn, flushed, active>>

\* Their second part: the final record is appended and the buffer flushed.
EndDdl(kind, tx, by, prev) ==
    /\ ddlLog' = Append(ddlLog, Record(kind, tx, by, NoLsn, prev))
    /\ flushed' = Len(ddlLog')
    /\ UNCHANGED <<walOn, active>>

(***************************************************************************)
(* Backward links.  The records of a transaction that was begun once form  *)
(* one chain through prev_lsn: recovery walks it from the last record, and *)
(* it is read before, and moved after, each append, under another lock.    *)
(* (Two statements begun in the same second share one id and one entry.)   *)
(***************************************************************************)
DdlWalChain ==
    \A k \in 1..Len(ddlLog) :
        LET Mine(from, to) == {j \in from..to : ddlLog[j].tx = ddlLog[k].tx}
            Before == Mine(1, k - 1)
        IN  Cardinality({j \in Mine(1, Len(ddlLog)) : ddlLog[j].kind = "begin"}) = 1
            => ddlLog[k].prev = IF Before = {} THEN NoLsn ELSE CHOOSE j \in Before : Mine(j + 1, k - 1) = {}
=============================================================================
