------------------------- MODULE TransactionManager -------------------------
(***************************************************************************)
(* TransactionManager of src/transaction/manager.rs, built by with_wal():  *)
(* a write-ahead log, the MVCC store, and no catalog.  Threads call        *)
(* begin_transaction, commit_transaction, rollback_transaction, log_modify *)
(* / log_delete, cleanup and checkpoint.  A step of a thread is one        *)
(* critical section; the machine may crash between any two of them.        *)
(*                                                                         *)
(* Without a catalog the undo loop of rollback_transaction only logs a     *)
(* warning, and modified_pages is written and never read.  (TableSession   *)
(* has the configuration with a catalog and without a log.)                *)
(***************************************************************************)
EXTENDS Mvcc, Sequences

CONSTANTS
    Threads,
    NoThread,
    LogBufferSize,  \* WALManager.buffer_size
    LogNoLsn,       \* last_lsn / prev_lsn = None
    LogMaxLsn,      \* bound: LSNs, large enough that no step of a run needs more
    Workloads       \* what the threads do; see Workload

\* A workload bounds the transactions, the pushes of versions, the calls of
\* log_modify / log_delete and of checkpoint, and says whether writes of the log
\* may fail, two threads may end the same transaction, and cleanup is called.
Workload ==
    [txs : Nat, pushes : Nat, logs : Nat, checkpoints : Nat,
     failing : BOOLEAN, sharing : BOOLEAN, cleanups : BOOLEAN]

ASSUME TmAssumption ==
    /\ NoThread \notin Threads
    /\ TxIds \subseteq Nat \ {0}
    /\ Workloads \subseteq Workload

VARIABLES
    load,       \* the workload of this behaviour
    file, buffer, nextLsn,  \* the WALManager behind `wal'
    walHolder,  \* the thread inside wal.lock()
    nextId,     \* next_transaction_id
    registered, \* keys of active_transactions
    lastLsn,    \* Transaction.last_lsn
    poisoned,   \* a thread panicked inside active_transactions.lock()
    pc,         \* where each thread is
    tx,         \* the transaction a thread's call is about, its own otherwise
    commitLsn,  \* commit_lsn of a commit in progress
    reported,   \* what the caller was told of each transaction
    failed,     \* whether a write of the log has failed
    logs,       \* calls of log_modify and log_delete so far
    checkpoints,    \* calls of checkpoint so far
    up          \* FALSE after a crash

managerVars == <<walHolder, nextId, registered, lastLsn, poisoned, pc, tx,
                 commitLsn, reported, failed, logs, checkpoints, up, load>>
logVars == <<file, buffer, nextLsn>>
tmVars == <<mvccVars, logVars, managerVars>>

Log == INSTANCE Wal WITH
    Kinds <- {"Begin", "Commit", "Abort", "Modify", "Checkpoint"},
    LogTxs <- TxIds, SystemTx <- 0, PrevLsns <- Nat \cup {LogNoLsn},
    NoLsn <- LogNoLsn, BufferSize <- LogBufferSize, MaxLsn <- LogMaxLsn,
    IoFailures <- TRUE, Restarts <- 0, astray <- FALSE,
    open <- "open", restarts <- 0, issued <- {}, acked <- {}

NoTxId == 0

TmInit ==
    /\ MvccInit
    /\ load \in Workloads
    /\ walHolder = NoThread
    /\ nextId = 1
    /\ registered = {}
    /\ lastLsn = [t \in TxIds |-> LogNoLsn]
    /\ poisoned = FALSE
    /\ pc = [th \in Threads |-> "idle"]
    /\ tx = [th \in Threads |-> NoTxId]
    /\ commitLsn = [th \in Threads |-> 0]
    /\ file = <<>> /\ buffer = <<>> /\ nextLsn = 1
    /\ reported = [t \in TxIds |-> "none"]
    /\ failed = FALSE
    /\ logs = 0 /\ checkpoints = 0
    /\ up = TRUE

-----------------------------------------------------------------------------
(* Building blocks *)

Goto(th, from, to) == up /\ pc[th] = from /\ pc' = [pc EXCEPT ![th] = to]

\* wal.lock(), append_record.
AppendLog(kind, t, prev, ok) ==
    /\ walHolder = NoThread
    /\ ok \/ load.failing
    /\ Log!AppendOn(file, buffer, kind, t, prev, ok)
    /\ failed' = (failed \/ ~ok)

\* Mutant of FlushLog: the log is unlocked without the flush.
FlushSkipped(th, ok) ==
    /\ walHolder = th /\ ok
    /\ walHolder' = NoThread
    /\ UNCHANGED <<file, buffer, failed, nextLsn>>

\* flush_buffer by the holder of the log, which then unlocks it.
FlushLog(th, ok) ==
    /\ walHolder = th
    /\ walHolder' = NoThread
    /\ IF ok THEN file' = file \o Log!Stored(buffer)
             ELSE load.failing /\ buffer # <<>> /\ file' \in Log!PartlyWritten(file, buffer)
    /\ buffer' = <<>>
    /\ failed' = (failed \/ ~ok)
    /\ UNCHANGED nextLsn

Report(t, outcome) == reported' = [reported EXCEPT ![t] = outcome]

\* The call returns; `own' is the transaction the caller goes on with.
Return(th, own) ==
    /\ pc' = [pc EXCEPT ![th] = "idle"]
    /\ tx' = [tx EXCEPT ![th] = own]

-----------------------------------------------------------------------------
(* begin_transaction *)

BeginId(th) ==
    /\ Goto(th, "idle", "begin")
    /\ tx[th] = NoTxId
    /\ nextId \in TxIds /\ nextId <= load.txs
    /\ nextId' = nextId + 1
    /\ tx' = [tx EXCEPT ![th] = nextId]
    /\ UNCHANGED <<mvccVars, logVars, walHolder, registered, lastLsn, poisoned,
                   commitLsn, reported, failed, logs, checkpoints, up, load>>

\* mvcc.begin_transaction is called for start_ts and again for the snapshot.
BeginMvcc(th) ==
    /\ Goto(th, "begin", "snapshot") \/ Goto(th, "snapshot", "register")
    /\ Begin(tx[th])
    /\ UNCHANGED <<logVars, walHolder, nextId, registered, lastLsn, poisoned, tx,
                   commitLsn, reported, failed, logs, checkpoints, up, load>>

BeginRegister(th) ==
    /\ Goto(th, "register", "beginLog")
    /\ ~poisoned
    /\ registered' = registered \cup {tx[th]}
    /\ UNCHANGED <<mvccVars, logVars, walHolder, nextId, lastLsn, poisoned, tx,
                   commitLsn, reported, failed, logs, checkpoints, up, load>>

BeginLog(th) ==
    /\ up /\ pc[th] = "beginLog"
    /\ \E ok \in BOOLEAN :
        /\ AppendLog("Begin", tx[th], LogNoLsn, ok)
        /\ Return(th, IF ok THEN tx[th] ELSE NoTxId)
    /\ UNCHANGED <<mvccVars, walHolder, nextId, registered, lastLsn, poisoned,
                   commitLsn, reported, logs, checkpoints, up, load>>

-----------------------------------------------------------------------------
(* commit_transaction *)

\* The transactions a thread may pass: its own or, in a sharing workload, any.
Callable(th) == IF load.sharing THEN 1 .. nextId - 1 ELSE {tx[th]} \ {NoTxId}

\* The first critical section takes the transaction out and puts it back.
CommitLookup(th, t) ==
    /\ Goto(th, "idle", "commitTake")
    /\ ~poisoned
    /\ t \in registered
    /\ tx' = [tx EXCEPT ![th] = t]
    /\ UNCHANGED <<mvccVars, logVars, walHolder, nextId, registered, lastLsn,
                   poisoned, commitLsn, reported, failed, logs, checkpoints, up, load>>

\* The second one takes it out for good: remove(..).unwrap() under the lock.
CommitTake(th) ==
    /\ up /\ pc[th] = "commitTake"
    /\ ~poisoned
    /\ \/ /\ tx[th] \in registered
          /\ registered' = registered \ {tx[th]}
          /\ pc' = [pc EXCEPT ![th] = "commitLog"]
          /\ UNCHANGED poisoned
       \/ /\ tx[th] \notin registered
          /\ poisoned' = TRUE
          /\ pc' = [pc EXCEPT ![th] = "panicked"]
          /\ UNCHANGED registered
    /\ UNCHANGED <<mvccVars, logVars, walHolder, nextId, lastLsn, tx, commitLsn,
                   reported, failed, logs, checkpoints, up, load>>

\* Both phases append a commit record and flush it, holding the log.  The
\* second record names as predecessor the LSN before the first one.
CommitLog(th) ==
    /\ up
    /\ \E ok \in BOOLEAN :
        /\ \/ /\ pc[th] = "commitLog"
              /\ AppendLog("Commit", tx[th], lastLsn[tx[th]], ok)
              /\ commitLsn' = [commitLsn EXCEPT ![th] = nextLsn]
              /\ pc' = [pc EXCEPT ![th] = IF ok THEN "commitFlush" ELSE "commitFailed"]
           \/ /\ pc[th] = "finalLog"
              /\ AppendLog("Commit", tx[th], commitLsn[th] - 1, ok)
              /\ pc' = [pc EXCEPT ![th] = IF ok THEN "finalFlush" ELSE "commitFailed"]
              /\ UNCHANGED commitLsn
        /\ walHolder' = IF ok THEN th ELSE NoThread
    /\ UNCHANGED <<mvccVars, nextId, registered, lastLsn, poisoned, tx, reported, logs, checkpoints, up, load>>

CommitFlush(th) ==
    /\ up /\ pc[th] \in {"commitFlush", "finalFlush"}
    /\ \E ok \in BOOLEAN :
        /\ FlushLog(th, ok)
        /\ pc' = [pc EXCEPT ![th] = IF ~ok THEN "commitFailed"
                                    ELSE IF pc[th] = "commitFlush" THEN "commitMvcc"
                                    ELSE "commitDone"]
    /\ UNCHANGED <<mvccVars, nextId, registered, lastLsn, poisoned, tx, commitLsn,
                   reported, logs, checkpoints, up, load>>

CommitMvcc(th) ==
    /\ Goto(th, "commitMvcc", "finalLog")
    /\ Commit(tx[th])
    /\ UNCHANGED <<logVars, walHolder, nextId, registered, lastLsn, poisoned, tx,
                   commitLsn, reported, failed, logs, checkpoints, up, load>>

CommitReturn(th) ==
    /\ up /\ pc[th] \in {"commitDone", "commitFailed"}
    /\ Report(tx[th], IF pc[th] = "commitDone" THEN "committed" ELSE "error")
    /\ Return(th, NoTxId)
    /\ UNCHANGED <<mvccVars, logVars, walHolder, nextId, registered, lastLsn,
                   poisoned, commitLsn, failed, logs, checkpoints, up, load>>

-----------------------------------------------------------------------------
(* rollback_transaction *)

\* Mutant of RollbackTake: the transaction is looked up and not removed.
RollbackLooks(th, t) ==
    /\ Goto(th, "idle", "abortLog")
    /\ ~poisoned
    /\ t \in registered
    /\ tx' = [tx EXCEPT ![th] = t]
    /\ UNCHANGED <<mvccVars, logVars, walHolder, nextId, registered, lastLsn, poisoned,
                   commitLsn, reported, failed, logs, checkpoints, up, load>>

RollbackTake(th, t) ==
    /\ Goto(th, "idle", "abortLog")
    /\ ~poisoned
    /\ t \in registered
    /\ registered' = registered \ {t}
    /\ tx' = [tx EXCEPT ![th] = t]
    /\ UNCHANGED <<mvccVars, logVars, walHolder, nextId, lastLsn, poisoned,
                   commitLsn, reported, failed, logs, checkpoints, up, load>>

RollbackLog(th) ==
    /\ up /\ pc[th] = "abortLog"
    /\ \E ok \in BOOLEAN :
        /\ AppendLog("Abort", tx[th], lastLsn[tx[th]], ok)
        /\ walHolder' = IF ok THEN th ELSE NoThread
        /\ pc' = [pc EXCEPT ![th] = IF ok THEN "abortFlush" ELSE "abortFailed"]
    /\ UNCHANGED <<mvccVars, nextId, registered, lastLsn, poisoned, tx, commitLsn,
                   reported, logs, checkpoints, up, load>>

RollbackFlush(th) ==
    /\ up /\ pc[th] = "abortFlush"
    /\ \E ok \in BOOLEAN :
        /\ FlushLog(th, ok)
        /\ pc' = [pc EXCEPT ![th] = IF ok THEN "abortMvcc" ELSE "abortFailed"]
    /\ UNCHANGED <<mvccVars, nextId, registered, lastLsn, poisoned, tx, commitLsn,
                   reported, logs, checkpoints, up, load>>

RollbackMvcc(th) ==
    /\ up /\ pc[th] = "abortMvcc"
    /\ Abort(tx[th])
    /\ Report(tx[th], "aborted")
    /\ Return(th, NoTxId)
    /\ UNCHANGED <<logVars, walHolder, nextId, registered, lastLsn, poisoned,
                   commitLsn, failed, logs, checkpoints, up, load>>

RollbackFails(th) ==
    /\ up /\ pc[th] = "abortFailed"
    /\ Report(tx[th], "error")
    /\ Return(th, NoTxId)
    /\ UNCHANGED <<mvccVars, logVars, walHolder, nextId, registered, lastLsn,
                   poisoned, commitLsn, failed, logs, checkpoints, up, load>>

-----------------------------------------------------------------------------
(* The other operations *)

\* A write through mvcc(): insert_version or update_version.
WriteVersion(th, r, n) ==
    /\ up /\ pc[th] = "idle" /\ tx[th] # NoTxId
    /\ nextPos <= load.pushes
    /\ AddVersion(r, tx[th], n)
    /\ UNCHANGED <<logVars, managerVars>>

Logged(kind, t) ==
    {i \in DOMAIN (file \o buffer) : (file \o buffer)[i].kind = kind /\
                                     (file \o buffer)[i].tx = t}

\* log_modify, log_delete: last_lsn is set while the log is held, and only if
\* the transaction is still registered; the record is written in any case.
LogModify(th) ==
    LET t == tx[th] IN
    /\ up /\ pc[th] = "idle" /\ t # NoTxId
    /\ ~poisoned
    /\ logs < load.logs /\ logs' = logs + 1
    /\ \E ok \in BOOLEAN :
        /\ AppendLog("Modify", t, LogNoLsn, ok)
        /\ lastLsn' = IF ok /\ t \in registered
                      THEN [lastLsn EXCEPT ![t] = nextLsn] ELSE lastLsn
    /\ UNCHANGED <<mvccVars, walHolder, nextId, registered, poisoned, pc, tx,
                   commitLsn, reported, checkpoints, up, load>>

\* The oldest snapshot among the registered transactions, or the clock.
OldestSnapshot ==
    LET held == {snapshot[t] : t \in registered}
    IN  IF held = {} THEN clock
        ELSE CHOOSE ts \in held : \A other \in held : ts <= other

Cleanup ==
    /\ up /\ load.cleanups /\ ~poisoned
    /\ Vacuum(OldestSnapshot)
    /\ UNCHANGED <<logVars, managerVars>>

TakeCheckpoint ==
    /\ up
    /\ walHolder = NoThread
    /\ checkpoints < load.checkpoints /\ checkpoints' = checkpoints + 1
    /\ \/ \E ok \in {TRUE, ~load.failing} :
          /\ Log!AppendOn(file \o Log!Stored(buffer), <<>>, "Checkpoint", 0, LogNoLsn, ok)
          /\ failed' = (failed \/ ~ok)
       \/ /\ load.failing /\ buffer # <<>>
          /\ file' \in Log!PartlyWritten(file, buffer)
          /\ buffer' = <<>> /\ failed' = TRUE
          /\ UNCHANGED nextLsn
    /\ UNCHANGED <<mvccVars, walHolder, nextId, registered, lastLsn, poisoned, pc,
                   tx, commitLsn, reported, logs, up, load>>

\* Locking active_transactions after it was poisoned.
Panic(th) ==
    /\ up /\ poisoned
    /\ pc[th] \in {"idle", "register", "commitTake"}
    /\ pc' = [pc EXCEPT ![th] = "panicked"]
    /\ UNCHANGED <<mvccVars, logVars, walHolder, nextId, registered, lastLsn,
                   poisoned, tx, commitLsn, reported, failed, logs, checkpoints, up, load>>

\* Everything in memory is gone; a flush in progress leaves what it wrote.
Crash ==
    /\ up
    /\ up' = FALSE
    /\ IF walHolder = NoThread THEN file' = file
                               ELSE file' \in Log!PartlyWritten(file, buffer)
    /\ buffer' = <<>> /\ nextLsn' = 1
    /\ versions' = {} /\ active' = {} /\ clock' = 1 /\ nextPos' = 1
    /\ latest' = [r \in Records |-> 0]
    /\ snapshot' = [t \in TxIds |-> 0]
    /\ status' = [t \in TxIds |-> "idle"]
    /\ seen' = [t \in TxIds |-> {}]
    /\ walHolder' = NoThread /\ registered' = {} /\ nextId' = 1
    /\ lastLsn' = [t \in TxIds |-> LogNoLsn]
    /\ pc' = [th \in Threads |-> "idle"]
    /\ tx' = [th \in Threads |-> NoTxId]
    /\ commitLsn' = [th \in Threads |-> 0]
    /\ poisoned' = FALSE
    /\ logs' = 0 /\ checkpoints' = 0
    /\ UNCHANGED <<reported, failed, load>>

ThreadStep(th) ==
    \/ BeginId(th) \/ BeginMvcc(th) \/ BeginRegister(th) \/ BeginLog(th)
    \/ \E t \in Callable(th) : CommitLookup(th, t) \/ RollbackTake(th, t)
    \/ CommitTake(th) \/ CommitLog(th) \/ CommitFlush(th) \/ CommitMvcc(th)
    \/ CommitReturn(th)
    \/ RollbackLog(th) \/ RollbackFlush(th) \/ RollbackMvcc(th) \/ RollbackFails(th)
    \/ \E r \in Records, n \in VersionNos : WriteVersion(th, r, n)
    \/ LogModify(th)
    \/ Panic(th)

TmNext ==
    \/ \E th \in Threads : ThreadStep(th)
    \/ Cleanup
    \/ TakeCheckpoint
    \/ Crash

TmSpec == TmInit /\ [][TmNext]_tmVars

-----------------------------------------------------------------------------
(* Properties *)

TmTypeOK ==
    /\ MvccTypeOK
    /\ walHolder \in Threads \cup {NoThread}
    /\ registered \subseteq TxIds
    /\ lastLsn \in [TxIds -> Nat \cup {LogNoLsn}]
    /\ tx \in [Threads -> TxIds \cup {NoTxId}]
    /\ reported \in [TxIds -> {"none", "committed", "aborted", "error"}]

OnDisk(kind, t) == \E i \in DOMAIN file : file[i].kind = kind /\ file[i].tx = t

\* Write-ahead: what a transaction wrote gets its commit timestamp, and so
\* becomes part of other snapshots, only after its commit record is on disk.
WriteAheadCommit ==
    \A v \in versions : v.commitTs # 0 => OnDisk("Commit", v.creator)

\* The outcome of a transaction is that of its record on the disk: decided
\* once, before the caller is told, and final, also through a crash inside a
\* flush (the abstract specification is in TxOutcome).
DurableOutcome ==
    [t \in TxIds |-> IF OnDisk("Commit", t) THEN "committed"
                     ELSE IF OnDisk("Abort", t) THEN "aborted" ELSE "undecided"]

Promise == INSTANCE TxOutcome WITH
    Transactions <- TxIds, outcome <- DurableOutcome, told <- reported

ImplementsOutcome == Promise!OutcomeSpec

\* The log never holds both outcomes of one transaction, even when two threads
\* race to end it: whoever removes it from active_transactions decides.
OutcomeUnique ==
    \A t \in TxIds : Logged("Commit", t) = {} \/ Logged("Abort", t) = {}

\* Between calls, and while no write has failed, the manager's transactions are
\* those of the MVCC store: none is left behind in either table.
ManagersAgree ==
    (up /\ ~failed /\ \A th \in Threads : pc[th] = "idle") => registered = active

\* However begin, commit, rollback and cleanup interleave, the log has one
\* outcome per transaction and the two tables of transactions stay in step.
OutcomesAgree == TmTypeOK /\ OutcomeUnique /\ ManagersAgree
=============================================================================
