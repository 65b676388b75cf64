---------------------------- MODULE TableSession ----------------------------
(***************************************************************************)
(* The path of a statement in the program as main.rs builds it: sessions   *)
(* (execute_sql with its current transaction), the DML operators of        *)
(* src/executor/operators.rs, the rows of src/catalog/table.rs, and the    *)
(* undo information that TransactionManager keeps in modified_pages.       *)
(*                                                                         *)
(* Database::new and Database::open build a TransactionManager without a   *)
(* log and a catalog that starts empty, so nothing of this state survives  *)
(* the process.  A row has a key, which no UPDATE here assigns, and a      *)
(* value; the WHERE clause of a statement is the set of values it accepts. *)
(***************************************************************************)
EXTENDS Integers, Sequences, SequencesExt, FiniteSets

CONSTANTS
    Sessions,
    Tables,
    Vals,           \* values of the column the statements use
    ValueLists,     \* VALUES clauses of the INSERT statements
    Workloads       \* what the sessions do; see Workload

\* A workload has the sessions, the tables created at the start, the frames of the
\* buffer pool, a bound on INSERT, UPDATE and DELETE statements, and whether
\* writing pages may fail and the process may be restarted.
Workload ==
    [sessions : SUBSET Sessions, tables : SUBSET Tables, frames : Nat,
     statements : Nat, ioErrors : BOOLEAN, restarts : BOOLEAN]

ASSUME TableSessionAssumption ==
    /\ Vals \subseteq Nat \ {0}
    /\ ValueLists \subseteq Seq(Vals)
    /\ Workloads \subseteq Workload

VARIABLES
    load,       \* the workload of this behaviour
    tables,     \* SystemTable.data of each table
    created,    \* tables the catalog knows
    indexed,    \* tables with a root_page_id
    frames,     \* unpinned frames of the pool
    inTx,       \* current_transaction_id is set
    undo,       \* modified_pages: from a row index to a DeleteRestoreInfo
    stmt,       \* the statement each session executes
    nextId,     \* key of the next row
    statements, \* statements so far
    atBegin,    \* tables when the session's transaction began
    effects     \* what the transaction has done, one entry per row

tsVars == <<load, tables, created, indexed, frames, inTx, undo, stmt, nextId, statements,
            atBegin, effects>>

Row(id, val) == [id |-> id, val |-> val]
Hole == Row(0, 0)   \* the empty row that restore_row fills a gap with
NoStmt == [kind |-> "none"]
NoUndo == [i \in {} |-> Hole]
NoTables == [t \in Tables |-> <<>>]

TsInit ==
    /\ tables = NoTables
    /\ load \in Workloads
    /\ created = load.tables
    /\ indexed = {}
    /\ frames = load.frames
    /\ inTx = [s \in Sessions |-> FALSE]
    /\ undo = [s \in Sessions |-> NoUndo]
    /\ stmt = [s \in Sessions |-> NoStmt]
    /\ nextId = 1
    /\ statements = 0
    /\ atBegin = [s \in Sessions |-> NoTables]
    /\ effects = [s \in Sessions |-> <<>>]

-----------------------------------------------------------------------------
(* execute_sql *)

\* main.rs executes one statement at a time.
MayStart(s) == s \in load.sessions /\ \A other \in Sessions : stmt[other] = NoStmt

\* BEGIN; with a transaction in progress it is only a warning.
Begin(s) ==
    /\ MayStart(s) /\ ~inTx[s]
    /\ inTx' = [inTx EXCEPT ![s] = TRUE]
    /\ atBegin' = [atBegin EXCEPT ![s] = tables]
    /\ UNCHANGED <<tables, created, indexed, frames, undo, stmt, nextId, statements, effects>>

\* The transaction leaves active_transactions, and its undo information with it.
Forgotten(s) == [undo EXCEPT ![s] = NoUndo]

\* The session has no transaction any more.
End(s) ==
    /\ inTx' = [inTx EXCEPT ![s] = FALSE]
    /\ undo' = Forgotten(s)
    /\ atBegin' = [atBegin EXCEPT ![s] = NoTables]
    /\ effects' = [effects EXCEPT ![s] = <<>>]

Commit(s) ==
    /\ MayStart(s) /\ inTx[s]
    /\ End(s)
    /\ UNCHANGED <<tables, created, indexed, frames, stmt, nextId, statements>>

\* A statement on table t with its rows still to do.
Start(s, work) ==
    /\ MayStart(s)
    /\ work.table \in created
    /\ statements < load.statements /\ statements' = statements + 1
    /\ stmt' = [stmt EXCEPT ![s] = work]
    /\ UNCHANGED <<tables, created, indexed, frames, inTx, undo, nextId, atBegin, effects>>

Rest(s, todo) == [stmt EXCEPT ![s].todo = todo]
Fails(s) == [stmt EXCEPT ![s] = [kind |-> "failed"]]
Done(s, what) == effects' = [effects EXCEPT ![s] = IF inTx[s] THEN Append(@, what) ELSE @]

\* The statement returns, Ok or Err; main.rs prints the result.
Finish(s) ==
    /\ \/ stmt[s].kind = "failed"
       \/ stmt[s].kind = "insert" /\ stmt[s].todo = <<>>
       \/ stmt[s].kind \in {"update", "delete"} /\ stmt[s].todo = {}
    /\ stmt' = [stmt EXCEPT ![s] = NoStmt]
    /\ UNCHANGED <<tables, created, indexed, frames, inTx, undo, nextId, statements,
                   atBegin, effects>>

-----------------------------------------------------------------------------
(* InsertOperator *)

\* The model keeps what the table was, and the key the first row gets.
Insert(s, t, vals) ==
    Start(s, [kind |-> "insert", table |-> t, todo |-> vals, start |-> tables[t], vals |-> vals, first |-> nextId])

\* Frames left after a statement pinned `need` pages, or as many as there were.
Taken(need) == IF frames < need THEN 0 ELSE frames - need

\* The row is pushed; then persist_row_to_disk takes a page whose pin it leaks,
\* and the first row of a table one more for the root of its B-tree.  Without a
\* frame either is an error, and the row stays.
InsertRow(s) ==
    LET t == stmt[s].table
        need == IF t \in indexed THEN 1 ELSE 2
    IN  /\ stmt[s].kind = "insert" /\ stmt[s].todo # <<>>
        /\ tables' = [tables EXCEPT ![t] = Append(@, Row(nextId, Head(stmt[s].todo)))]
        /\ nextId' = nextId + 1
        /\ frames' = Taken(need)
        /\ indexed' = IF frames < need THEN indexed ELSE indexed \cup {t}
        /\ stmt' = IF frames < need THEN Fails(s) ELSE Rest(s, Tail(stmt[s].todo))
        /\ Done(s, "insert")
        /\ UNCHANGED <<created, inTx, undo, statements, atBegin>>

-----------------------------------------------------------------------------
(* UpdateOperator and DeleteOperator.  scan_all copies the rows first. *)

\* Indices (0-based, as in the code) of the rows WHERE accepts.
Matching(t, where) == {i \in 0 .. (Len(tables[t]) - 1) : tables[t][i + 1].val \in where}

Assigned(row, val) == [row EXCEPT !.val = val]

Update(s, t, where, val) ==
    Start(s, [kind |-> "update", table |-> t, todo |-> Matching(t, where), start |-> tables[t],
              where |-> where, val |-> val])

\* update_row at the index the scan found, in the order of the scan: the row there
\* is replaced by the one the scan copied, with the assignment, and the new row is
\* persisted on a page of its own.  Nothing is kept for undo.
UpdateRow(s) ==
    LET t == stmt[s].table
        todo == stmt[s].todo
    IN  /\ stmt[s].kind = "update"
        /\ \E i \in todo :
            /\ \A j \in todo : i <= j
            /\ IF i >= Len(tables[t])
               THEN stmt' = Fails(s) /\ UNCHANGED <<tables, frames, effects>>
               ELSE /\ tables' = [tables EXCEPT ![t][i + 1] = Assigned(stmt[s].start[i + 1], stmt[s].val)]
                    /\ frames' = Taken(1)
                    /\ stmt' = IF frames = 0 THEN Fails(s) ELSE Rest(s, todo \ {i})
                    /\ Done(s, "update")
        /\ UNCHANGED <<created, indexed, inTx, undo, nextId, statements, atBegin>>

\* Mutant of DeleteNext: the order of the scan.
DeleteFirst(todo, i) == i \in todo /\ \A j \in todo : i <= j

\* rows_to_delete is sorted by row id, the greatest first.
DeleteNext(todo, i) == i \in todo /\ \A j \in todo : j <= i

Delete(s, t, where) ==
    Start(s, [kind |-> "delete", table |-> t, todo |-> Matching(t, where), start |-> tables[t],
              where |-> where, logged |-> FALSE])

\* A DeleteRestoreInfo: the row at index i.
Restorable(t, i) == [table |-> t, row |-> tables[t][i + 1]]

\* Mutant of Remembered: the index is kept one too high.
RememberedNext(s, t, i) ==
    [j \in {i + 1} \cup DOMAIN undo[s] |-> IF j = i + 1 THEN Restorable(t, i) ELSE undo[s][j]]

\* add_modified_page, keyed by the row index alone: whatever the transaction
\* remembered under the same index is replaced.
Remembered(s, t, i) ==
    [j \in {i} \cup DOMAIN undo[s] |-> IF j = i THEN Restorable(t, i) ELSE undo[s][j]]

\* get_row and log_delete, inside a transaction.
DeleteLog(s) ==
    LET t == stmt[s].table
    IN  /\ stmt[s].kind = "delete" /\ ~stmt[s].logged
        /\ \E i \in stmt[s].todo :
            /\ DeleteNext(stmt[s].todo, i)
            /\ undo' = IF inTx[s] /\ i < Len(tables[t])
                       THEN [undo EXCEPT ![s] = Remembered(s, t, i)] ELSE undo
        /\ stmt' = [stmt EXCEPT ![s].logged = TRUE]
        /\ UNCHANGED <<tables, created, indexed, frames, inTx, nextId, statements,
                       atBegin, effects>>

\* delete_row: the row is removed, and then flush_all_pages may still fail.
DeleteRow(s) ==
    LET t == stmt[s].table
        rest(i) == [stmt EXCEPT ![s].todo = @ \ {i}, ![s].logged = FALSE]
    IN  /\ stmt[s].kind = "delete" /\ stmt[s].logged
        /\ \E i \in stmt[s].todo :
            /\ DeleteNext(stmt[s].todo, i)
            /\ IF i >= Len(tables[t]) THEN stmt' = Fails(s) /\ UNCHANGED <<tables, effects>>
               ELSE /\ tables' = [tables EXCEPT ![t] = RemoveAt(@, i + 1)]
                    /\ stmt' \in {rest(i)} \cup (IF load.ioErrors THEN {Fails(s)} ELSE {})
                    /\ Done(s, "delete")
        /\ UNCHANGED <<created, indexed, frames, inTx, undo, nextId, statements, atBegin>>

-----------------------------------------------------------------------------
(* ROLLBACK *)

\* rollback_transaction walks modified_pages, a HashMap, in any order.
Rollback(s) ==
    /\ MayStart(s) /\ inTx[s]
    /\ stmt' = [stmt EXCEPT ![s] = [kind |-> "rollback", left |-> DOMAIN undo[s]]]
    /\ UNCHANGED <<tables, created, indexed, frames, inTx, undo, nextId, statements,
                   atBegin, effects>>

\* restore_row: rows are appended until the index exists, and only then is the
\* row inserted there; a row that was the last one gets an empty row after it.
Restored(rows, i, row) ==
    InsertAt(rows \o [k \in 1 .. (IF i < Len(rows) THEN 0 ELSE i + 1 - Len(rows)) |-> Hole],
             i + 1, row)

RestoreRow(s, i) ==
    LET info == undo[s][i]
    IN  /\ tables' = [tables EXCEPT ![info.table] = Restored(@, i, info.row)]
        /\ stmt' = [stmt EXCEPT ![s].left = @ \ {i}]
        /\ UNCHANGED <<created, indexed, frames, inTx, undo, nextId, statements,
                       atBegin, effects>>

\* All rows are restored and the transaction ends.
RollbackEnds(s) ==
    /\ stmt[s].kind = "rollback" /\ stmt[s].left = {}
    /\ End(s)
    /\ stmt' = [stmt EXCEPT ![s] = NoStmt]
    /\ UNCHANGED <<tables, created, indexed, frames, nextId, statements>>

\* The process ends and Database::open starts a new one: no table is known.
Restart ==
    /\ load.restarts
    /\ tables' = NoTables
    /\ created' = {} /\ indexed' = {}
    /\ frames' = load.frames
    /\ inTx' = [s \in Sessions |-> FALSE]
    /\ undo' = [s \in Sessions |-> NoUndo]
    /\ stmt' = [s \in Sessions |-> NoStmt]
    /\ atBegin' = [s \in Sessions |-> NoTables]
    /\ effects' = [s \in Sessions |-> <<>>]
    /\ UNCHANGED <<nextId, statements>>

Wheres == {{v} : v \in Vals} \cup {Vals \cup {0}}

TsNext ==
    /\ UNCHANGED load
    /\ \/ \E s \in Sessions :
           \/ Begin(s) \/ Commit(s) \/ Rollback(s) \/ RollbackEnds(s) \/ Finish(s)
           \/ stmt[s].kind = "rollback" /\ \E i \in stmt[s].left : RestoreRow(s, i)
           \/ \E t \in Tables :
               \/ \E vals \in ValueLists : Insert(s, t, vals)
               \/ \E v, w \in Vals : Update(s, t, {w}, v)
               \/ \E where \in Wheres : Delete(s, t, where)
           \/ InsertRow(s) \/ UpdateRow(s) \/ DeleteLog(s) \/ DeleteRow(s)
       \/ Restart

TsSpec == TsInit /\ [][TsNext]_tsVars

-----------------------------------------------------------------------------
(* Properties *)

TsTypeOK ==
    /\ \A t \in Tables : tables[t] \in Seq([id : Nat, val : Vals \cup {0}])
    /\ created \subseteq Tables /\ indexed \subseteq Tables
    /\ frames \in 0 .. load.frames
    /\ inTx \in [Sessions -> BOOLEAN]
    /\ \A s \in Sessions : \A i \in DOMAIN undo[s] : i \in Nat /\ undo[s][i].table \in Tables

\* Which of the positions it is, counted from the first.
Rank(positions, k) == Cardinality({j \in positions : j <= k})

Inserted(rows, me) == rows = me.start \o [k \in DOMAIN me.vals |-> Row(me.first + k - 1, me.vals[k])]

Updated(rows, me) ==
    rows = [k \in DOMAIN me.start |->
               IF me.start[k].val \in me.where THEN Assigned(me.start[k], me.val) ELSE me.start[k]]

Deleted(rows, me) ==
    LET kept == {k \in DOMAIN me.start : me.start[k].val \notin me.where}
    IN  Len(rows) = Cardinality(kept) /\ \A k \in kept : rows[Rank(kept, k)] = me.start[k]

\* A statement that returns Ok has done what SQL says: exactly the rows its
\* WHERE clause accepted when it began are changed or removed, although rows are
\* addressed by an index that every removal shifts (operators.rs:1281 sorts them
\* "to avoid index shifting issues").
StatementExact ==
    \A s \in Sessions :
        LET me == stmt[s] IN
        /\ me.kind = "insert" /\ me.todo = <<>> => Inserted(tables[me.table], me)
        /\ me.kind = "update" /\ me.todo = {} => Updated(tables[me.table], me)
        /\ me.kind = "delete" /\ me.todo = {} => Deleted(tables[me.table], me)

Places == UNION {{<<t, i>> : i \in DOMAIN tables[t]} : t \in Tables}

\* However transactions of several sessions delete, update and roll back, no row
\* is in the tables twice: undo information is used once.
NoDuplicateRows ==
    \A a, b \in Places :
        LET row == tables[a[1]][a[2]]
        IN  (row # Hole /\ row.id = tables[b[1]][b[2]].id) => a = b

RolledBack(s) == stmt[s].kind = "rollback" /\ stmt[s].left = {}

\* Rolling back a transaction that deleted a single row brings every row back to
\* its place, with an empty row behind the one that was the last of its table, when
\* no other session changed the tables in between.
OneDeleteUndone ==
    \A s \in Sessions :
      (RolledBack(s) /\ effects[s] = <<"delete">> /\ load.sessions = {s}) =>
        \A t \in Tables : tables[t] \in {atBegin[s][t], Append(atBegin[s][t], Hole)}

\* Undo information is used once and in the right place.
UndoExact == TsTypeOK /\ NoDuplicateRows /\ OneDeleteUndone

-----------------------------------------------------------------------------
(* What docs, comments and tests say and the code does not do *)

\* README.md:85, "ACID compliance with MVCC": ROLLBACK undoes the transaction.
WritesUndone == \A s \in Sessions : RolledBack(s) => tables = atBegin[s]
=============================================================================
