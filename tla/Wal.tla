--------------------------------- MODULE Wal ---------------------------------
(***************************************************************************)
(* The write-ahead log of src/transaction/wal.rs: WALManager with its      *)
(* record buffer, its file, and what open() reads back after a restart.    *)
(*                                                                         *)
(* Every WALManager is used behind an outer Mutex (TransactionManager.wal, *)
(* DdlWALManager.wal), so a call is one action; a crash and a failing      *)
(* write may cut flush_buffer anywhere between two records or inside one.  *)
(*                                                                         *)
(* A record keeps what the scan in open() depends on: its LSN, whether its *)
(* prev_lsn is None (the header is 29 bytes then, 37 otherwise), and       *)
(* whether bytes follow the header that data_size does not account for.    *)
(***************************************************************************)
EXTENDS Integers, Sequences, SequencesExt

CONSTANTS
    Kinds,          \* record types the callers append
    LogTxs,         \* transaction ids the callers pass
    SystemTx,       \* transaction_id of a checkpoint
    PrevLsns,       \* prev_lsn values the callers pass
    NoLsn,          \* prev_lsn = None
    BufferSize,     \* buffer_size: append_record flushes at this length
    MaxLsn,         \* bound: LSNs handed out, and records kept
    IoFailures,     \* whether a write may fail
    Restarts        \* bound: crashes followed by WALManager::open

AllKinds == {"Begin", "Commit", "Abort", "Modify", "Ddl", "Checkpoint"}
TornKinds == {"TornHeader", "TornData"}

ASSUME WalAssumption ==
    /\ Kinds \subseteq AllKinds
    /\ PrevLsns \subseteq Nat \cup {NoLsn}
    /\ NoLsn \notin Nat
    /\ BufferSize \in Nat \ {0}
    /\ MaxLsn \in Nat
    /\ IoFailures \in BOOLEAN
    /\ Restarts \in Nat

VARIABLES
    file,       \* the records of the log file; the last may be torn
    buffer,     \* WALManager.buffer
    nextLsn,    \* WALManager.next_lsn
    open,       \* "open", or "failed" after WALManager::open returned Err
    restarts,   \* restarts so far
    issued,     \* LSNs append_record returned since the log was opened
    acked,      \* LSNs issued before a flush_buffer that returned Ok
    failed,     \* a write has failed
    astray      \* open() has parsed bytes from within a record

walVars == <<file, buffer, nextLsn, open, restarts, issued, acked, failed, astray>>

WalRecord ==
    [lsn : Nat, prev : Nat \cup {NoLsn}, kind : AllKinds \cup TornKinds,
     tx : LogTxs \cup {SystemTx}]

Record(kind, t, prev, lsn) == [lsn |-> lsn, prev |-> prev, kind |-> kind, tx |-> t]

DataKinds == {"Modify", "Ddl"}

\* What a write that stops inside rec leaves: a cut header, or cut data.
TornPieces(rec) ==
    {[rec EXCEPT !.kind = "TornHeader"]} \cup
    {[rec EXCEPT !.kind = "TornData"] : k \in DataKinds \cap {rec.kind}}

-----------------------------------------------------------------------------
(* WALManager::open *)

\* A record after which the scan stands at the next record's header: the fixed
\* header of open() fits only prev_lsn = None; data_size does not count the
\* tag of the WALRecordData enum; a checkpoint announces 8 bytes it lacks.
ScansOver(rec) == rec.prev = NoLsn /\ rec.kind \in {"Begin", "Commit", "Abort"}

Unscannable(f) == {i \in DOMAIN f : ~ScansOver(f[i])}

OpenFails == -1

\* What open() can return: OpenFails or the next LSN.  From a position inside a
\* record it parses whatever bytes it meets, and any outcome is possible.
OpenResults(f) ==
    IF Unscannable(f) = {}
    THEN {IF f = <<>> THEN 0 ELSE Last(f).lsn + 1}
    ELSE LET i == CHOOSE j \in Unscannable(f) : \A k \in Unscannable(f) : j <= k
         IN  IF f[i].prev # NoLsn THEN {OpenFails}
             ELSE IF i < Len(f) THEN {OpenFails} \cup (0 .. MaxLsn)
             ELSE IF f[i].kind = "Checkpoint" THEN {f[i].lsn + 1}
             ELSE IF f[i].kind = "TornData" THEN {OpenFails, f[i].lsn + 1}
             ELSE {OpenFails}

-----------------------------------------------------------------------------
WalInit ==
    /\ file = <<>>
    /\ buffer = <<>>
    /\ nextLsn = 1
    /\ open = "open"
    /\ restarts = 0
    /\ issued = {}
    /\ acked = {}
    /\ failed = FALSE /\ astray = FALSE

\* Mutants of Stored: the buffer is written backwards; its last record is left out.
StoredReversed(recs) == Reverse(recs)
StoredShort(recs) == IF recs = <<>> THEN recs ELSE Front(recs)

\* The records as flush_buffer writes them, one after another.
Stored(recs) == recs

\* What a flush of recs onto f that does not reach its end leaves in the file.
PartlyWritten(f, recs) ==
    {f \o Stored(SubSeq(recs, 1, n)) : n \in 0 .. Len(recs)} \cup
    UNION {{f \o Stored(SubSeq(recs, 1, n)) \o <<piece>> : piece \in TornPieces(recs[n + 1])} :
               n \in 0 .. Len(recs) - 1}

\* append_record on file f and buffer b: the LSN, the buffer, and a flush when
\* the buffer is full.  The flush drains the buffer before it writes, and only
\* a failing flush makes append_record return Err (ok = FALSE).
AppendOn(f, b, kind, t, prev, ok) ==
    LET full == Append(b, Record(kind, t, prev, nextLsn))
    IN  /\ nextLsn <= MaxLsn /\ Len(f \o full) <= MaxLsn
        /\ nextLsn' = nextLsn + 1
        /\ \/ /\ Len(full) < BufferSize /\ ok
              /\ buffer' = full
              /\ file' = f
           \/ /\ Len(full) >= BufferSize /\ ok
              /\ buffer' = <<>>
              /\ file' = f \o Stored(full)
           \/ /\ Len(full) >= BufferSize /\ ~ok /\ IoFailures
              /\ buffer' = <<>>
              /\ file' \in PartlyWritten(f, full)

AppendRecord(kind, t, prev) ==
    /\ open = "open"
    /\ \E ok \in BOOLEAN :
        AppendOn(file, buffer, kind, t, prev, ok) /\ failed' = (failed \/ ~ok)
    /\ issued' = issued \cup {nextLsn}
    /\ UNCHANGED <<open, restarts, acked, astray>>

\* flush_buffer that returns Ok; on an empty buffer it writes nothing.
FlushBuffer ==
    /\ open = "open"
    /\ file' = file \o Stored(buffer)
    /\ buffer' = <<>>
    /\ acked' = acked \cup issued
    /\ UNCHANGED <<nextLsn, open, restarts, issued, failed, astray>>

\* flush_buffer that returns Err: the drained records are in neither place.
FlushFails ==
    /\ open = "open"
    /\ IoFailures
    /\ buffer # <<>>
    /\ file' \in PartlyWritten(file, buffer)
    /\ buffer' = <<>>
    /\ failed' = TRUE
    /\ UNCHANGED <<nextLsn, open, restarts, issued, acked, astray>>

\* checkpoint: flush, then append the marker; nothing is truncated.  (When its
\* flush fails it returns, and the step is FlushFails.)
Checkpoint ==
    /\ open = "open"
    /\ "Checkpoint" \in Kinds
    /\ \E ok \in BOOLEAN :
        /\ AppendOn(file \o Stored(buffer), <<>>, "Checkpoint", SystemTx, NoLsn, ok)
        /\ failed' = (failed \/ ~ok)
    /\ issued' = issued \cup {nextLsn}
    /\ acked' = acked \cup issued
    /\ UNCHANGED <<open, restarts, astray>>

\* The manager that open() returns, or its error.
Opened(next) ==
    /\ nextLsn' = IF next = OpenFails THEN nextLsn ELSE next
    /\ open' = IF next = OpenFails THEN "failed" ELSE "open"

\* The process ends, perhaps inside flush_buffer, and the log is opened again.
Restart ==
    /\ open = "open"
    /\ restarts < Restarts
    /\ restarts' = restarts + 1
    /\ file' \in PartlyWritten(file, buffer)
    /\ buffer' = <<>>
    /\ \E next \in OpenResults(file') : Opened(next)
    /\ issued' = {}
    /\ astray' = (astray \/ \E i \in Unscannable(file') : i < Len(file'))
    /\ UNCHANGED <<acked, failed>>

WalNext ==
    \/ \E kind \in Kinds \ {"Checkpoint"}, t \in LogTxs, prev \in PrevLsns :
           AppendRecord(kind, t, prev)
    \/ FlushBuffer
    \/ FlushFails
    \/ Checkpoint
    \/ Restart

WalSpec == WalInit /\ [][WalNext]_walVars

-----------------------------------------------------------------------------
(* Properties *)

WalTypeOK ==
    /\ file \in Seq(WalRecord)
    /\ buffer \in Seq(WalRecord)
    /\ nextLsn \in Nat
    /\ open \in {"open", "failed"}
    /\ restarts \in 0 .. Restarts
    /\ issued \subseteq Nat
    /\ acked \subseteq Nat

\* The positions of the records that were written to their end.
WholeAt(recs) == {i \in DOMAIN recs : recs[i].kind \notin TornKinds}

Lsns(recs) == {recs[i].lsn : i \in WholeAt(recs)}

\* The log is ordered: the records in file and buffer have LSNs that strictly
\* increase and lie below next_lsn, after appends, full buffers, flushes that
\* fail anywhere, checkpoints, crashes inside a flush and restarts.  Not after a
\* restart whose scan left the boundaries of records (astray): open() may then
\* return any LSN.  And only of records that are still there: the LSN of one
\* that was lost before a flush is handed out again after a restart.
LogOrdered ==
    LET all == file \o buffer
    IN  astray \/ /\ \A i, j \in WholeAt(all) : i < j => all[i].lsn < all[j].lsn
                  /\ \A i \in WholeAt(all) : all[i].lsn < nextLsn

\* The typed and ordered log that append_record, flush_buffer and open() leave.
WalInv == WalTypeOK /\ LogOrdered

\* "Force flush of all buffered records" (wal.rs:703): once flush_buffer has
\* returned Ok, every record appended before it is in the file, and stays there
\* through later flushes and restarts, as long as no write has failed.
FlushDurable == failed \/ acked \subseteq Lsns(file)

-----------------------------------------------------------------------------
(* What a test expects and the code does not do; a run of its own shows where. *)

=============================================================================
