# RustgreSQL in TLA+

A verification development for the RustgreSQL database engine (`src/`): TLA+
modules for its storage, transactions, queries, DDL and parallel execution, TLC configurations that check them
on small instances, and TLAPS proofs for every instance of what the storage,
transaction, DDL, view and parallel components promise. Paths below are relative
to the repository root; line numbers are those of this commit, and
`PROJECT.json` maps every definition to the lines it models.

## 1. The system

```
 sessions (main.rs)  --SQL-->  parser / planner / optimizer  -->  executor operators
        |                                                           |        |
   begin/commit/rollback                                       rows of      B-tree
        v                                                    SystemTable      |
 TransactionManager --+-- WALManager --> log file             (catalog)  BufferPoolManager
                      +-- MVCCManager                                         |
                                                                    DefaultFileManager --> page file
```

| Component (source) | State | Operations | Hard behaviour | What makes it correct |
|---|---|---|---|---|
| MVCC store (`transaction/mvcc.rs`) | version chains, clock, active snapshots | begin, commit, abort, insert/update, delete, vacuum | readers hold snapshots while writers stamp versions; vacuum decides from timestamps | a snapshot is fixed, divides commits exactly, and shows nothing of the aborted |
| Write-ahead log (`transaction/wal.rs`) | record buffer, file, next LSN | append, flush, checkpoint, open | torn and failed writes, crash inside a flush, finding the end of the log again | the records that are kept are in order, flushed ones survive |
| Transaction manager (`transaction/manager.rs`) | table of active transactions, ids, last LSNs | begin, commit, rollback, log, cleanup, checkpoint | calls are several critical sections; crash or failed write between them; two threads on one transaction | one outcome, on disk before anybody is told |
| Page file (`storage/file_manager.rs`) | header with page count, pages | allocate, write, sync, deallocate, open | crash between the writes of one call; header synced late | acknowledged pages are kept and never handed out again |
| Buffer pool (`storage/buffer.rs`) | frames, two maps, LRU list, pins | fetch, new, unpin, flush, delete | fetch gives up its locks between lookup, eviction and load; failing reads and writes | pins cover handles, no page is lost or written over another |
| B-tree (`storage/btree.rs`) | nodes in pages, root | insert, search, delete, iterate | splits write several pages; pool exhaustion in the middle | children and separators match, balanced, complete |
| Tables and DML (`catalog/table.rs`, `executor/operators.rs`, `main.rs`, `lib.rs`) | rows, catalog, undo information | INSERT, UPDATE, DELETE, BEGIN, COMMIT, ROLLBACK, restart | rows are addressed by index, one lock per row; errors in the middle of a statement | a statement does exactly what it says, rollback undoes it |
| DDL statements and catalog (`executor/engine.rs`, `catalog/`, `transaction/ddl_transaction.rs`) | tables, indexes, index lists, pg_column; one entry of the DDL transaction manager | CREATE, ALTER, DROP of tables and indexes | each map under its own lock; clean-up of a statement that fails half-way; sessions on one name | the maps agree, a statement takes effect whole or not at all |
| DDL log (`transaction/ddl_wal.rs`) | records, active DDL transactions | begin, log, commit, rollback | log and table of transactions under two locks; ids shared within a second | what returned Ok is on disk, records are chained |
| Views (`catalog/view.rs`) | views, dependency graph, refresh status, schedules | create, drop, refresh, record a change | the graph and the views under different locks | a fresh view has not changed underneath |
| Queries (`executor/planner.rs`, `optimizer/query_optimizer.rs`, `operators.rs`, `expression.rs`) | plans; results of operators; CTEs | plan, scan, join, aggregate, sort, set operations, windows, recursion | two planners, names through joins, NULLs, ties, boundaries, HashMap order | equal to the relational definition; returns |
| Parallel executor (`executor/parallel/`) | task queues, completed tasks, grants, partitions | submit, steal, wait, cancel, request, release, scan | check and use under different locks; sleeping with a lock held; timeouts | nothing lost or run early, limits kept up to a bound, everything ends |
| Optimizer's rules, join orders, costs, plan cache (`optimizer/`) | statistics, cached plans | rewrite, order joins | -- (not applied by the engine) | rewrites preserve the result |
| Schema evolution (`storage/schema_evolution.rs`), query rewriting (`executor/query_rewrite.rs`) | versions of a schema; registered views | migrate; replace a query | -- (reached only in part) | -- |
| Stored procedures (`executor/procedure.rs`), SQL front end (`sql/`), types | interpreter state; tokens, trees | execute; parse | control flow, nesting | -- |
| Lock manager (`transaction/lock.rs`) | none: an empty struct | none | -- | -- |

`PROJECT.json` lists the hazards, each at its line, with the properties that
would catch it.

Which code is used where matters. `Database` (`lib.rs`) builds its
`TransactionManager` without a log, and tables keep their rows in memory and, as a
copy, in a B-tree; `TransactionManager::with_wal` exists and is complete, with a
log and MVCC but without a catalog. The project models both configurations:
`TransactionManager` the second, `TableSession` the first.

`executor/parallel/` is built only with the feature `parallel` (`executor/mod.rs:12`,
`lib.rs:28`), which is off by default, and at this commit it does not appear to compile:
`insert_task_sorted` takes no `self` and is called on it (`scheduler.rs:272`),
`TaskResult` is cloned without being `Clone` (`scheduler.rs:455`), and
`create_parallel_tasks` builds a `ParallelTask` from some of its fields
(`executor.rs:428`). The models of this component follow what these lines evidently mean.

## 2. Plan

Done: MVCC, log, transaction manager over both, page file, buffer pool, B-tree and
statements; then the parallel executor with the first liveness properties; queries,
from the two planners to the operators, against a relational reference; DDL
statements over the catalog, the DDL log and the views.

Proved so far: section 7. Next, in this order:

1. **Locks**: the lock order of `get_stats` against `cleanup` (`manager.rs:444`)
   and of the index maps (`catalog/index.rs:199`).
2. **Statements of several threads** over one table, with unique constraints
   (`executor/scanner.rs:150`).

## 3. Modules and how they correspond to the code

| Module | Models | Uses |
|---|---|---|
| `Mvcc` | `MVCCManager`, `VersionChain`, `RecordVersion` | |
| `Wal` | `WALManager`: buffer, file, `open` | |
| `TransactionManager` | `TransactionManager::with_wal` and its threads | extends `Mvcc`, instantiates `Wal` (for its log operators) and `TxOutcome` |
| `TxOutcome` | abstract: the promise about the end of a transaction | |
| `FileManager` | `DefaultFileManager` over one file | |
| `BufferPool` | `BufferPoolManager`, `BufferFrame`, with the file below it | |
| `BTree` | `BTree`, `BTreeNode`, `BTreeIterator` | |
| `TableSession` | `execute_sql`, the DML operators, `SystemTable`, undo | |
| `TaskScheduler` | `TaskScheduler`, its workers, `ParallelExecutor` as its client | |
| `ResourceManager` | `ResourceManager` of the parallel executor | |
| `ParallelScan` | `DefaultParallelScanner`, `ParallelScanIterator` | |
| `Expression` | values, expressions, functions, aggregates, subqueries | |
| `QueryOperators`, `WindowOperator` | the physical operators | each extends the one before |
| `SelectPlan` | `OptimizedQueryPlanner` and `QueryPlanner` | extends `WindowOperator` |
| `QueryExecution` | execution of a plan, node by node; CTEs | extends `SelectPlan` |
| `SqlReference` | what SQL defines, and the properties | extends `QueryExecution` |
| `Catalog` | table and index managers: one operator per critical section | |
| `DdlWal` | `DdlWALManager` | extends `Catalog` for its map operators |
| `DdlEngine` | the DDL statements of `Executor` | extends `Catalog`, `DdlWal` |
| `ViewManager` | `ViewManager` | |
| `MvccProofs`, `StorageProofs`, `WalProofs`, `TransactionManagerProofs`, `BufferPoolProofs`, `TableSessionProofs`, `DdlProofs`, `ParallelProofs` | theorems, see section 7 | extend their component and TLAPS; `TransactionManagerProofs` also `MvccProofs`, `DdlProofs` both `DdlEngine` and `ViewManager`, `StorageProofs` both `FileManager` and `BTree`, `ParallelProofs` `TaskScheduler`, `ResourceManager` and `ParallelScan` |
| `MC*` | symmetry sets, workloads and other constants for TLC | extend their component |

**Workloads.** `TransactionManager`, `BufferPool`, `BTree` and `TableSession` have
a variable `load`, chosen in the initial state from the constant `Workloads` and
never changed. It says what the environment of this behaviour may do: how many
calls, whether calls overlap, whether writes fail. One run thus covers several
situations, each as deep as it can be checked, and a property that the code can
only promise in some of them names them (`~load.overlap`).

**Mvcc.** One call is one action, because the manager is only reached through a
mutex. A chain is the set of its versions with the position at which each was
pushed, so that `retain` is a set comprehension, and `latest_committed`, an index
into the Vec, is looked up by rank. `status` and `seen` are history.

**Wal.** A record keeps exactly what `open` depends on: its LSN, whether
`prev_lsn` is present (the encoded header is eight bytes longer then), and whether
bytes follow that `data_size` does not count. A failing write or a crash leaves any
prefix of the drained buffer and possibly a torn record. `OpenResults` gives what
the scan of `open` makes of a file, an error included; where the scan continues
inside a record (`astray`), every result is possible. The order of the log is claimed
unless that has happened, after failed writes too, and of the records that are still
there: an LSN whose record was lost is used again. `failed` remembers that a
write has failed, which ends the promise of `FlushDurable`. The checksum of a record is left out: `open` does not look at it.

**TransactionManager.** Each thread has a program counter; one step is one critical
section of the code: `commit_transaction` is lookup, removal, log, flush, MVCC
commit, return. `walHolder` is the log's mutex where it is held across steps.
`Crash` may fall anywhere and loses everything but the file; `Panic` is the
`unwrap` of a missing transaction, which poisons the mutex.

**FileManager.** A call is cut into its writes. `total`, `fileTotal` and
`diskTotal` are the page count in memory, in the file, and known to be durable:
`write_header` flushes and does not sync, `write_page` syncs. `Deallocate` never
returns (the header mutex is locked twice), so its state has no successor but a
crash.

**BufferPool.** A call is cut at every point where it gives up a lock; what is
still held is the guard of the other clients' steps (`MapReadable`, `MapWritable`,
`LruFree`, `Unlocked`). A cell is the `Arc<Mutex<Page>>` a client keeps after its
frame was used for another page. `fetch_page` changes the maps first (`Remap`) and reads
the page afterwards (`Load`), with the frame locked in between; `delete_page` looks at
no pins. `misread` remembers that a read has failed after
`fetch_page` had changed the maps, `stuck` that a client hangs in `deallocate_page`
with the file manager locked.

**BTree.** `op` is the call in progress and the node it is at; every page saved by
a split is a possible last one before an error (`failed`). `nodes` is what the pool
holds, `saved` what the file holds, since the iterator reads the file (`Unflushed` before a
page was first written). `Keys` are
numbers and entries are keys: no operation looks into a value. `borrow_*` and
`merge_*` are stubs that report "not possible", so underflow changes nothing.

**TableSession.** A statement scans, then writes one row per step, each step one
lock of the table. Statements follow one another, as in `main.rs`; transactions of
two sessions overlap. `undo` maps a row index to the row deleted there, as
`modified_pages` does. The B-tree below a table is reduced to what a statement
notices of it: frames of the pool, one per node, never unpinned. A row carries a
unique key, so that properties can speak of the same row after indices moved.

**TaskScheduler.** The client is a program of its own: it plans the tasks of a
SELECT (`PlanTasks`), submits them, may cancel one, waits and shuts down. A worker
goes through the loop of `worker_loop`: own queue, global queue, stealing; check of
the dependencies; execution or putting back; completion; rebalancing (`Balance`, under
the balancer's own lock); the dependents. A set operation is planned as an error
(`PlanFails`), and no list of columns counts as an aggregation
(`HasAggregateFunctions`).
`lock` is the mutex of `completed_tasks` while `wait_for_tasks` sleeps with it. A
patient client waits for its tasks one by one with `wait_for_task`, which sleeps
without the mutex, and sets no timeout: it is the one that tells whether tasks
complete by themselves, since the others shut the scheduler down in any case.
Priorities and costs matter only for the order of the queue (`insert_task_sorted`).

**ResourceManager.** A request is check, grant of the tracker, entry into the active
grants, or entry into the pending requests, wait, wake-up, second check, timeout.
The three trackers differ in how a release finds what it frees, which is kept:
memory by an id, cores by the amount, I/O one by one.

**ParallelScan.** Partitions are computed when the scan begins; each reads the table
anew when a worker takes it; another session inserts or deletes in between.

**Queries.** A value is a pair of kind and payload, a string a sequence of codes, a
float a multiple of 1/6; error messages are left out, errors are not. A plan is a
tree; it is executed in the order in which the `execute` calls of its nodes return,
one node per step, over a stack. Where the code walks a HashMap (groups, partitions,
CTEs), the order is a choice. `SqlReference` shares the scalar functions with the
model and nothing else: relations are sets of tagged rows, selections are set
comprehensions, logic is Kleene's, a recursive CTE is a least fixed point, and NULLS
FIRST or LAST says where NULLs go whatever the direction. Each query is tagged with the
class of the property it is for. Where the code is known to differ, the property names
the case in its condition (`IsMergeJoin`, `Aliased`, `NullsAsDirected`,
`OnePartition`, duplicates on the left of a UNION); section 5 says what happens outside
it, and the queries have such cases among them, so that nothing is avoided by choice.

**Catalog, DdlWal, DdlEngine.** The catalog is one record; each operator of `Catalog`
is what one critical section does to it. A statement is a program counter over them:
the checks of the statement, the id of its DDL transaction (the current second), the
log, the table, its indexes, pg_column, and the clean-up of CREATE TABLE by name. The
DDL log exists only if a caller has set it up, so `walOn` is either. Two assumptions:
the validation of a foreign key reads both tables in one step, and the log's buffer
is larger than the records of a behaviour.

**ViewManager.** Methods that need the views hold their mutex for all their steps;
`record_table_change` uses only the graph and the status, and runs in between.
`dirty` is history: what has changed since the last refresh.

Definitions with names such as `CommitNewestOnly`, `FinishUnsynced` or
`MovedTwice` are not part of any specification: each stands before the definition
it would replace and is a plausible mistake in it. Substituting it must break the
property `PROJECT.json` names, which shows that the property depends on the code it
is about.

## 4. Runs that hold

| Run | Situations | Shows |
|---|---|---|
| `VersionsLog` | versions: three transactions on two records, vacuum at any timestamp; log: full buffers, failing and partial writes, checkpoints, two restarts | `SnapshotExact`: a snapshot admits exactly the commits before it; `CreatedTogether`: a commit stamps what its transaction created at once; `AbortedInvisible`; `LatestNotStale`: in a chain of committed versions, the index that `retain` does not move never names an older one; `SnapshotStable`: only vacuum takes a committed version from a held snapshot; `WalInv`: the records in file and buffer have rising LSNs below the next one, unless `open` has read from within a record; `FlushDurable`: what was flushed stays, unless a write has failed |
| `TransactionManager` | each thread its own transaction with cleanup; the same with failing writes; two threads that end one transaction, with records and checkpoints in between; two threads that end any of two | `WriteAheadCommit`; `OutcomesAgree`: one outcome per transaction, and, until a write fails, both tables of transactions agree; every behaviour is one of `TxOutcome` (`ImplementsOutcome`), a crash anywhere included |
| `PagesTree` | page file: crashes and failures between any two writes; tree: ten keys in any order into nodes of three; pools too small for a split; repeated and oversized insertions with deletions; iterations | `AckedCovered`, `AllocationFresh`, `AckedIntact`; no deadlock; `TreeSound` (children match separators, balanced, ordered) even after a failed split; `KeysFound`: keys are kept unless an insertion failed, search answers for the leaf it reaches, iteration returns its leaf |
| `BufferPool` | calls one after another, three pages in two frames; calls that overlap at every lock; failing reads; failing reads and writes with one frame | `HandlesSafe`: pins cover handles, a fetch returns its page, a held page keeps its frame; `ChangesKept`: no change is lost and a flush saves all; `NoCrossWrite`; each part in the workloads where the code can promise it: residence and changes while calls do not overlap, the others in any case until a read fails |
| `TableSession` | one session with two tables; two sessions with a pool that fills up, failing flushes, restarts | `StatementExact`; `UndoExact`: no row twice, one deletion undone in place |
| `Parallel` | two workers with dependent, bound, cancelled and stolen tasks, and the tasks of an aggregation and of a join; two threads that request memory, cores and I/O; scans by every strategy beside another session | `TaskInOnePlace`, `DependenciesFirst`; `OvercommitBounded`: limits are exceeded by at most one request per racing thread; `UsageCoversGrants`; `ScanExact` for ranges beside insertions; `TasksComplete` (where waiting tasks do not occupy every worker), `MCQueryReturns`, `RequestReturns`: everything ends |
| `Query` | 52 queries over 85 databases with NULLs, duplicates, ties, cycles and empty tables, by the planner the engine chooses; four plans of hash and merge joins, which only plans name | `SelectExact`, `GroupsExact`, `SetsExact`, `WindowsExact`, `CtesExact`: the same rows, equally often, as `SqlReference`, under the conditions that section 5 gives the reasons for; `TopRows`; `QueryReturns`; no deadlock |
| `Ddl` | any two of 22 statements, in one session or in two, over two catalogs, with and without the DDL log; two threads on the views | `CreateDurable`, `DdlWalChain`, `CatalogAgrees` however they interleave; `StatementAtomic` for statements that do not overlap; `FreshUnchanged` |

The invariants are stated, with the code they are about, where they are defined, at
the end of each module. The refinement maps the durable outcome of a transaction to
what recovery would read from the file: a commit or an abort record. In `TxOutcome`
an outcome is decided once, is final, and is told to a caller only afterwards.

## 5. Where the code and what is said of it differ

Four runs each check one property that a comment, a test or a document states, and
TLC shows a behaviour of the code that breaks it. `findings` in `PROJECT.json` quotes
the sentence.

| Run | What happens |
|---|---|
| `BpLockCycle` | frame mutex and map are locked in both orders |
| `BpEvict` | a page is pinned between the choice of its frame as victim and the replacement, which does not look again (`buffer.rs:185`) |
| `SessRollback` | ROLLBACK keeps inserted and updated rows |
| `WalReopen` | a complete log with a Modify record or a `prev_lsn`, as the test at `wal.rs:815` writes it, does not open with the next LSN (`wal.rs:638`) |

The modules contain further behaviour of this kind. No run is spent on it; it is
the reason for a condition in a property or for a comment in a module:

- *Mvcc*: a new version has `commit_ts` 0, which every snapshot admits, so a reader
  sees uncommitted versions of others (`mvcc.rs:41`; the test at `mvcc.rs:527` says it
  does not); `latest_committed` is set by the insertion, not by the commit, so
  `get_latest_committed` may answer with an uncommitted version (`mvcc.rs:124`, against
  `mvcc.rs:142`), hence the condition of `LatestNotStale`; a deletion is stamped when it
  is made and a creation at the commit, so a snapshot in between has half of a
  transaction (`mvcc.rs:349`, against `mvcc.rs:3`); abort leaves delete marks, so the version stays hidden from later
  snapshots and cannot be modified (`mvcc.rs:286`); vacuum drops versions that an
  active snapshot reads (`mvcc.rs:403`).
- *Wal*: after a failed flush the drained records are gone and the next flush
  returns Ok (`wal.rs:710`); opening an empty log hands out LSN 0, which
  `wal.rs:579` calls reserved; the checksum does not cover the data (`wal.rs:401`).
- *TransactionManager*: `prev_lsn` of the second commit record may name a record of
  another transaction (`manager.rs:226`); `get_stats` and `cleanup` lock the two tables
  in opposite orders (`manager.rs:444`); a thread that loses the race for a
  transaction panics in `unwrap` (`manager.rs:191`); a failed log write leaves
  versions of a transaction nobody can end any more (`manager.rs:257`).
- *FileManager*: `deallocate_page` locks the header mutex it holds
  (`file_manager.rs:400`).
- *BufferPool*: a failed read leaves the maps changed, so that a later fetch returns
  another page and a flush writes it to the wrong place (`buffer.rs:218`); pinned
  pages leave the LRU list for good (`buffer.rs:120`); `delete_page` takes the pins of
  others away (`buffer.rs:299`).
- *BTree*: separators move up and search looks only at leaves, so a key that is a
  separator is not found (`btree.rs:400`); when `new_page` fails in mid-split the right half is lost
  (`btree.rs:350`); the iterator over two levels repeats, misorders and omits keys
  (`btree.rs:613`).
- *TableSession*: restoring the last row appends an empty one (`table.rs:361`); a
  statement that fails keeps the rows it had written (`table.rs:293`); after a
  restart the catalog is empty (`lib.rs:111`).
- *Parallel executor*: a release frees memory by the id of the grant, under which
  another request's memory may be entered (`resource_manager.rs:630`), hence equal
  demands in `UsageCoversGrants`; a wake-up between look and wait is lost, and only
  the timeout ends the wait (`resource_manager.rs:520`); Hash and RoundRobin
  partitions return every row once per partition, and a concurrent deletion shifts
  the ranges (`scanner.rs:387`), hence the conditions of `ScanExact`;
  `wait_for_tasks` sleeps with the lock that workers need and collects a finished
  task again on every look (`scheduler.rs:329`); it locks again at once after its
  sleep, so that without a timeout nothing guarantees a worker the mutex; tasks that are not ready can occupy
  all workers (`scheduler.rs:475`), hence `Unblocked`.
- *Expressions*: `FALSE AND NULL` and `TRUE OR NULL` are NULL (`expression.rs:807`);
  `NOT IN` ignores a NULL in the list; outer columns shadow inner ones of a
  correlated subquery.
- *Planners*: the index scans of the optimized planner have no scanner, return no rows
  and do not apply their condition (`query_optimizer.rs:381`); conditions on the other
  tables are dropped with them; a view named directly fails there; the base planner
  applies HAVING twice and shows generated columns of windows.
- *Operators*: without aliases `dept.id` resolves to a column of the left table of a
  join (`expression.rs:473`, against `README.md:25`), hence `Aliased`; a merge join
  returns the first pair of each group twice (`operators.rs:1757`, against the comment at
  1776), hence `IsMergeJoin`; UNION keeps the duplicates of its left side
  (`operators.rs:2547`, against the comment at 2553), so that only the set of its rows is
  claimed there; `DESC NULLS LAST` puts NULLs first (`operators.rs:4319`, against
  `README.md:91`), hence `NullsAsDirected`; all window functions of a query share the
  partition of the first (`planner.rs:357`, against `README.md:55`), hence
  `OnePartition`. The queries have a case of each: a property without its condition is
  violated in the `Query` run. Hash joins put NULL keys in one bucket, which the condition, evaluated
  again, undoes; DISTINCT runs after LIMIT; OFFSET without LIMIT is ignored; SUM of
  nothing is 0; window functions see only selected columns and default to ROWS frames.
- *CTEs*: every UNION member of WITH RECURSIVE is repeated as if it were recursive,
  members run in HashMap order with the recursive ones last, the anchor is not
  deduplicated, recursion stops silently after 1000 rounds (`operators.rs:3937`), and
  a plain WITH refuses a set operation as its main query.
- *DDL*: two sessions in one second share a DDL transaction, and the second commit
  reports "not found" for a table that exists (`engine.rs:2232`); DROP and ALTER use
  the transaction id 1, so that their locks exclude nobody and remain after an error
  (`engine.rs:528`); the clean-up of a failed CREATE TABLE drops by name, also an index
  of the user or another session's table (`engine.rs:421`); CREATE TABLE and the
  primary-key index replace what exists under their names (`catalog/mod.rs:61`);
  concurrent ALTERs lose updates (`engine.rs:1672`); a table constraint UNIQUE(c) always
  fails and UNIQUE(a, b) makes each column unique; ADD CONSTRAINT and RENAME TABLE store
  nothing, DROP CONSTRAINT always fails; DROP COLUMN leaves the indexes; pg_table and
  pg_column keep the rows of dropped tables; the two maps of indexes are locked in
  opposite orders (`catalog/index.rs:199`); `topological_sort` does not detect cycles
  (`ddl_transaction.rs:356`, not reached by a statement).
- *Views*: dependencies are found only for five table names; no statement records a
  table change; CASCADE drops only the view itself; a refresh fills nothing in.
  Materialized views and procedures are registered with an `Executor` that lives for
  one statement (`engine.rs:2567`), so neither is found by the next.

## 6. Bounds and fairness

Every bound is a constant, or a field of a workload, named in its module, and
appears only in guards.

- *Mvcc*: three transactions are one more than any property relates (a reader and a
  writer); `MaxTs` lets each begin and end; two records tell chains apart. Symmetry
  over transactions and records is sound: no definition distinguishes them.
- *Wal*: three records and a buffer of two allow a flush by a full buffer, an
  explicit flush, and appends after either of two restarts. `WalReopen` has a larger
  buffer, no failing writes and one restart, for the shortest log that does not reopen.
- *TransactionManager*: two threads, two transactions (one where they race for it);
  LSNs and timestamps are never exhausted (`LogMaxLsn`, `MaxTs` exceed what the
  calls need). The log buffer holds two records, so that any append may flush.
- *FileManager*: four data pages, two contents; the proof covers every other size.
- *BufferPool*: three pages compete for two frames, or two for one; two clients.
  Two changes of one page are not needed: a lost change is visible as the old one.
- *BTree*: nodes of three keys (the code has more; `MAX_KEYS` is a constant), ten
  keys give three levels, hence splits of the root and of an inner node.
- *TableSession*: two sessions, up to four statements of at most two rows each.
- *Parallel*: two workers and up to four tasks, as many as a join plans; one look of
  `wait_for_tasks` before its timeout; two threads with four grants, so that ids and
  allocations drift apart; five rows in partitions of two leave a short last range;
  the thresholds 100 and 10000 become `MinPartition` and `LargeTable`.
- *Query*: 81 of the databases place three employees in two departments or none in
  every way, with equal, missing and cyclic values; `MaxIterations` is 4 for 1000,
  more than the longest chain.
- *Ddl*: two statements, so that each pair of the 22 follows one another and
  interleaves at every step; two seconds let sessions share an id or not. Symmetry over
  sessions and threads is sound: no definition distinguishes them.

Components that need each other only through their promises share a run (`VersionsLog`,
`PagesTree`, `Parallel`, `Ddl`): a variable `focus` chooses in the initial state which of
them this behaviour runs, and the others stand still.

Runs over these bounds come to an end on purpose, so most configurations do not
check for deadlock. `PagesTree` and `Query` do: the steps of the page file are not
bounded, and a finished tree workload and a finished query stutter.

Fairness is weak and only of threads. `SchedFairness`: each worker and the client keep
running, which an operating system guarantees; which of its steps a thread takes, a
cancellation or the wait, is left open. `ResFairness`: each requesting thread goes on,
its timeout included, since `wait_timeout` returns after the deadline whatever
happens; requesting again is a choice. `Running` of `QueryExecution`: the executor goes
on with its plan. The storage and transaction modules state safety only and assume no
fairness.

## 7. Proofs

`tlapm` on each of the eight `*Proofs` modules checks all proofs. Each proves, for
every value of the constants that satisfies the named `ASSUME` of its component, an
inductive invariant with one lemma per action (or per group of actions that disturb
the same parts), and derives from it the properties that the runs check.

| Module | Theorems | Property |
|---|---|---|
| `MvccProofs` | `MvccTypeCorrect`, `SnapshotsAreExact`, `CommitsStampTogether`, `AbortedAreInvisible`, `LatestIsNeverStale`, `SnapshotsAreStable` | types, `SnapshotExact`, `CreatedTogether`, `AbortedInvisible`, `LatestNotStale`, `SnapshotStable` |
| `StorageProofs` | `AckedPagesCovered`, `AllocationIsFresh`, `AckedDataIntact`, `BtInvariant`, `TreeIsSound`, `KeysAreFound` | `AckedCovered`, `AllocationFresh`, `AckedIntact`, `TreeSound`, `KeysFound` |
| `WalProofs` | `LogIsOrdered`, `FlushIsDurable` | `WalInv`, `FlushDurable` |
| `TransactionManagerProofs` | `CommitsAreWrittenAhead`, `OutcomesAlwaysAgree`, `StoreStaysExact`, `ManagerImplementsOutcome` | `WriteAheadCommit`, `OutcomesAgree`, those of the store, `ImplementsOutcome` |
| `BufferPoolProofs` | `HandlesAreSafe`, `ChangesAreKept`, `NoPageOverwritten`, `LruListsAPageOnce` | `HandlesSafe`, `ChangesKept`, `NoCrossWrite` |
| `DdlProofs` | `CreatesAreDurable`, `DdlLogIsChained`, `CatalogInvariant`, `CatalogAlwaysAgrees`, `StatementsAreAtomic`, `FreshIsUnchanged` | `CreateDurable`, `DdlWalChain`, `CatalogAgrees`, `StatementAtomic`, `FreshUnchanged` |
| `TableSessionProofs` | `StatementsAreExact`, `UndoIsExact` | `StatementExact`, `UndoExact` |
| `ParallelProofs` | `TasksAreInOnePlace`, `DependenciesRunFirst`, `OvercommitIsBounded`, `GrantsAreCovered`, `ScansAreExact` | `TaskInOnePlace`, `DependenciesFirst`, `OvercommitBounded`, `UsageCoversGrants`, `ScanExact` |

**MvccProofs**, for any set of transactions and records, any bounds and any points
at which vacuum is called. `MvccInv` is `MvccTypeOK`, `StampsOK`, `SnapshotsOK`,
`CreatedTogether` and `SnapshotExact`. Neither of the last two is inductive. That a
commit stamps *after* every snapshot already taken needs `SnapshotsOK`: snapshots lie
below the clock, `seen` holds only committed transactions, and the active ones are
those that neither committed nor aborted. That all versions a transaction created carry
one stamp needs `StampsOK`: a version is stamped exactly when its creator has
committed, with a timestamp below the clock, and versions belong to running or
committed transactions only. `LatestNotStale` needs `IndexCovers`: the index of
`latest_committed` is never below the rank of the newest version, so that after a
`retain` it names that version or nothing. Whether that version is committed is another
matter, and deletions carry stamps of their own (section 5). `SnapshotsAreStable` is an action
property.

**StorageProofs**, the page file: for any number of pages and any data. `FmInv` says that the
three copies of the page count are ordered, that every page given away lies below
the header that was written, that an allocation in progress works on the one page
above it, and that a page whose write returned lies below the durable header and
holds client data. Without the order of the copies a crash could hand an
acknowledged page out again.

**StorageProofs**, the B-tree: for any keys, any node size from three on, any pool and
workloads. What a descent relies on is said of whole subtrees, and a step changes one
or three pages, so `BtIInv` speaks of pages: there are a height and a set of keys for
every page (`Shape`) such that each page fits its children (`PageOK`) and the root is
highest. Pages that a failed split left without a parent are included, since nothing
else says that they stay apart. The set of keys of a page is not what its subtree
has but what it may have: a key that is inserted enters the set of the root when
`insert` is called, goes down with the call, and at a leaf is allowed already; a split
divides the set at the separator. `Links` says that no page has two parents, and
`Contents` that no key is in two places and that, until a split fails, none is lost.
The levels below a page then follow from the heights, with the least counterexample
in place of induction (`BelowInForest`): pages at one level have one height, so
leaves are at one depth, and every page that has a parent is below the root
(`AllBelowRoot`). `Searching` says that a search never leaves the paths to the leaf
with its key. That a parent has room for a separator is in `Calls`: an insertion
comes to no full page but the root, which it splits first.

**WalProofs**, for any buffer size and any number of restarts and failing writes.
`WalIInv` orders file and buffer as one sequence, through failing writes and until a
scan has gone astray, cut records included, because
`open` continues from the LSN of a record whose header is complete; says that what
waits in the buffer is whole; and that until a write fails every LSN handed out is in
the file or in the buffer. The last is why a flush that returns Ok has stored all of
them. What a failing write leaves is described once (`Stored`, `TornPieces`), as a
prefix of the drained buffer and perhaps a torn record.

**TransactionManagerProofs**, for any threads, transactions, workloads and buffer
sizes. It extends `MvccProofs`: the store under the manager takes only steps of the
store, so `MvccInv` is part of `TmIInv` and its lemmas are used again
(`StoreStaysExact`). The rest of `TmIInv` is about ownership: a transaction that is in
no table belongs to one thread, which is beginning or ending it; a transaction that is
registered or not begun is undecided; how far an owner has come tells what is in the
log about its transaction; an outcome waits in the buffer only while its owner holds
the log; and the transactions active in the store are the registered ones and those
in the hands of a thread. A crash leaves only what is on disk, so these parts hold
while the manager is up. `ManagerImplementsOutcome` is the refinement: each step
decides one transaction that was undecided, tells one caller what was decided, or is
a stutter of `TxOutcome`.

**BufferPoolProofs**, for any clients, frames and workloads. `BpIInv` has two halves.
`PoolInv` relates the two maps, the frames, the cells, the handles and the file:
while no read has failed they agree on which page is where (`Matched`), however calls
overlap, except in a frame that is being filled (`Filling`), whose maps name the new
page while its content is still the old one; where calls do not overlap, a page is in
one frame with a pin for each holder (`Resident`), and a page that is not dirty is in
the file as last changed (`CleanSaved`). `CallInv` says where the calls are: what the
lock of `page_to_frame` protects, what an eviction or a flush has written so far, what
holds of all other pages while one is read into its frame (`Between`), and that a call
that hangs in `delete_page` leaves the pages of others where they are (`Frozen`).
`LruListsAPageOnce` is what `update_lru` depends on, since it removes one entry.

**DdlProofs**, the DDL log: for any sessions, statements, catalogs and clocks. That a
record names the one before it is decided one critical section earlier, when
`prev_lsn` is read, so `DdlWalChain` is not inductive. `DdlIInv` says that every record
follows the begin of its transaction; that a session between its begin and its end has
begun the transaction itself, so that two sessions with one id have begun it twice and
are outside the property; and that, begun once, the LSN in the active transactions, or
the one a session has taken from there, is the last of the transaction. For
`CreateDurable` it says how far a statement must have come for what to be in the log:
the record of the table before the indexes of the constraints, and before the commit
record, whose flush covers both.

**DdlProofs**, the catalog: for any sessions and statements, however they interleave.
`CatalogAgrees` relates the list of a table's columns to what a filter leaves of
pg_column, so it needs `Consistent`: a table id is given once, and there are no rows
for ids not given, without which the rows of a new table would not be only its own.
Each operator of `Catalog` keeps a catalog consistent, one lemma for each; besides,
`CatalogIInv` says that what a session holds as columns is a list, since a session
writes back a definition that it read under another lock. What `Retain` makes of an
appended, joined or twice filtered list is proved by induction over lists in the form
that is within reach: a set of lists that has the empty one and is closed under
`Append` has them all (`SequencesGrow`), by a least counterexample.

**DdlProofs**, atomic statements: for any sessions and statements, as long as no two
statements have run at the same time, and under `NamesApart`. The catalog when a
statement returns is compared with the one it started from, many steps earlier, so
`AtomicIInv` says for every place of a statement how far the catalog has come: not at
all; by a new table and indexes of its id alone (`Built`); or, while a table is being
removed, by some of the indexes of that table. A clean-up works by name, so the
invariant follows every name it is going to drop: there is no index of that name, or
it is the table's own (`MadeOwn`, `DropsOwn`), and no index of the table is left out
(`Covers`). That the DDL transaction of a statement that runs alone is still entered
is in `Tied`; without it `commit_transaction` would fail after the catalog has changed.
`Whole` is what a catalog needs between statements: each index is of a table there is
and is listed for no other. `NamesApart` is a hypothesis because the code does not
ensure it: a CREATE TABLE t replaces whatever index is called pk_t and, when it fails,
drops whatever is called t_pkey (`engine.rs:341`, `catalog/index.rs`), also a user's
index of another table. So no CREATE INDEX uses such a name, the initial catalogs
have none on another table, and no table is called pk or unique. `MCDdl` has
`NamesApart` as an `ASSUME`, so TLC evaluates it and the run is an instance of the
theorem.

**DdlProofs**, the views: for any threads, views, tables and queries. `record_table_change`
finds the views of a table in the graph, never in the views, so `ViewIInv` says that
the graph is never behind: each view that is stored, and the one a thread is about to
store, is linked from each table it reads.

**TableSessionProofs**, for any sessions, tables, values and workloads. Each statement
writes one row per step, so `TsIInv` says how far it is: an INSERT has appended the
first so many of its rows behind those it found; an UPDATE has changed the matching
rows it has done with; a DELETE has removed the matching rows behind the one that is
next, and every row that stays is at its rank among those (`Remaining`, `Rank`). For
`UndoExact` a row is followed on its way from the table into the undo information and
back. Between `log_delete` and the removal it is in both, so what counts as the only
copy is `Live`, and `Noted` says that what was logged is the row still in place. Then
tables and live undo information together hold each key once. A session that is alone
with one deletion is in one of three states (`Untouched`, `OneGone`, `OneBack`), of
which the last is where the restored row is in its place, with what restoring at the
end of a table leaves behind it.

**ParallelProofs**, the scheduler: for any workers and workloads. `Home` says in which place a
task is: the global queue, a worker's queue, a worker's hands, or finished. `SchedIInv`
says that no queue has a task twice, that a task has at most one home, exactly one
once it was placed, and none before; and that what a worker executes has its
dependencies completed. Each step is then a move of one task, and the sum of
`TaskInOnePlace` follows by counting.

**ParallelProofs**, the resource manager: for any threads, limits and demands. Between its check and
its entry in a tracker a thread has a claim the tracker does not show, so
`OvercommitBounded` is not inductive: `ResIInv` bounds what is in use and what is
claimed together. When a thread passes the check its claim fits under the limit beside
what is in use, and each other thread claims at most one demand. A claim is a set of
units, so that amounts add up as cardinalities. For `UsageCoversGrants` the threads
that are entered and not yet taken out are counted, those on their way out too.

**ParallelProofs**, the scan: for any table, number of workers, partition size and
estimate. While nothing is deleted, a row of the table is in one place (`ScanIInv`): in
a partition of the queue, in the partition that one worker has taken, or at one place
of one result. At the start the ranges cut the table without gap or overlap, whatever
the rounding of `estimate_optimal_partition_size` (`RangesCover`, `CutOnce`); a
partition that is scanned returns a row once if it covers it (`RangeScanned`), because
insertions leave a row at its position.

The assumptions are the named `ASSUME`s of the component modules; TLC evaluates them
in every run. They say what the constants are (finite sets of threads and demands,
natural bounds, markers that are no members of the sets beside them, workloads of the
declared form, columns and constraints that are lists, constraints of the four kinds
of the syntax tree, initial catalogs that are `Consistent` as the empty one is) and one fact of the code: an I/O request asks for one operation
(`start_io_operation` is its only caller).

**Only model-checked**, and why:

- `TasksComplete`, `MCQueryReturns`, `RequestReturns`, `QueryReturns`: liveness.
- `SelectExact`, `GroupsExact`, `SetsExact`, `TopRows`, `WindowsExact`, `CtesExact`: the
  query modules use RECURSIVE operators.

## 8. Not modelled

- Page layout (`storage/page.rs`): encoding of one page; pages are opaque contents.
- The lock manager (`transaction/lock.rs`): an empty struct, never called.
- Parser and lexer (`sql/`): text processing; the modules begin with syntax trees.
- Optimizer rules, join orders and plan cache: the engine's planner has them disabled
  (`query_optimizer.rs:285`) or never uses them. Cost formulas are floating point; what
  they decide on small tables is in `SelectPlan`.
- Query rewriting and stored procedures: what they need is registered with an object
  that lives for one statement, so a statement never meets a registration.
- Parallel operators, buffer pool, context, metrics and `operators_old.rs`: not built by
  the executor, or counters without effect.
- Schemas, versions and migrations of `schema_evolution.rs`: reached by no statement.
- Unique constraints in DML (`executor/scanner.rs:150`) and sessions that share a
  database between threads; `get_stats` and other readers.
- Rows after a restart: `Database::open` finds pages and no catalog (`lib.rs:111`), so
  tables are empty in `TableSession`.
