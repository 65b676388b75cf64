----------------------------- MODULE DdlEngine -----------------------------
(***************************************************************************)
(* The DDL statements of executor/engine.rs, run by several sessions over  *)
(* one catalog, one DDL log and one DDL transaction manager.  An action is *)
(* one critical section of a statement: between two of them any other      *)
(* session may run.                                                        *)
(*                                                                         *)
(* DROP and ALTER enter the DDL transaction manager under the constant     *)
(* transaction id 1: its lock table never refuses anyone, and one          *)
(* session's commit removes another's entry.  ddlTx and locks are the      *)
(* entry of that id and the objects locked under it.                       *)
(***************************************************************************)
EXTENDS Naturals, Sequences, FiniteSets, Catalog, DdlWal

CONSTANTS Sessions, Statements, InitialCatalogs, MaxStatements, MaxClock

\* The columns and constraints of a statement are lists (Vec), of constraints of the
\* four kinds, and the catalogs to start from are ones that earlier statements may
\* have left.
ConstraintOK(con) == con.kind \in {"PrimaryKey", "Unique", "ForeignKey", "Check"} /\ IsSeq(con.columns)
ASSUME DdlAssumption ==
    /\ \A stmt \in Statements :
           /\ stmt.kind = "CreateTable" => /\ IsSeq(stmt.columns) /\ IsSeq(stmt.constraints)
                                          /\ \A con \in ToSet(stmt.constraints) : ConstraintOK(con)
           /\ stmt.kind = "AlterTable" /\ stmt.op = "AddConstraint" => ConstraintOK(stmt.con)
    /\ \A cat \in InitialCatalogs : Consistent(cat)

VARIABLES
    catalog,
    ddlTx,     \* transaction 1 is among the active DDL transactions
    locks,     \* the objects locked under it
    clock,     \* the current second
    sess,      \* the local state of each session
    left,      \* how many statements may still be started
    overlap    \* history: two statements have run at the same time

ddlVars == <<walVars, catalog, ddlTx, locks, clock, sess, left, overlap>>

NoStatement == [kind |-> "None", table |-> "None"]
NoDef == [id |-> 0, columns |-> <<>>]

Idle == [pc |-> "idle", stmt |-> NoStatement, tx |-> 0, def |-> NoDef, todo |-> <<>>, made |-> <<>>,
         prev |-> NoLsn, result |-> "none", before |-> EmptyCatalog]

DdlInit ==
    /\ WalInit
    /\ catalog \in InitialCatalogs
    /\ ddlTx = FALSE /\ locks = {} /\ clock = 1
    /\ sess = [s \in Sessions |-> Idle]
    /\ left = MaxStatements /\ overlap = FALSE

Running(s) == sess[s].pc \notin {"idle", "returned"}
At(s, pc, kind) == sess[s].pc = pc /\ sess[s].stmt.kind = kind
Local(s, new) == sess' = [sess EXCEPT ![s] = new]
Goto(s, pc) == Local(s, [sess[s] EXCEPT !.pc = pc])
Return(s, result) == Local(s, [Idle EXCEPT !.pc = "returned", !.stmt = sess[s].stmt, !.tx = sess[s].tx,
                                           !.result = result])

(***************************************************************************)
(* Columns and constraints.                                                *)
(***************************************************************************)

\* map_column_constraints_to_catalog: the last NULL, NOT NULL or PRIMARY KEY
\* decides whether the column is nullable.
MapColumn(c) ==
    LET deciding == Retain(c.constraints, {"Null", "NotNull", "PrimaryKey"})
    IN  [name |-> c.name, type |-> c.type,
         nullable |-> deciding = <<>> \/ deciding[Len(deciding)] = "Null",
         pk |-> Contains(c.constraints, "PrimaryKey"),
         unique |-> Contains(c.constraints, "Unique")]

\* validate_catalog_column_definition.
ColumnValid(column) == column.type # "Unsupported" /\ ~(column.pk /\ column.nullable)

\* merge_constraints.
Merge(columns, constraints) ==
    LET Under(kind, k) == /\ First(columns, k)
                          /\ \E con \in ToSet(constraints) : con.kind = kind /\ Contains(con.columns, columns[k].name)
    IN  [k \in 1..Len(columns) |->
            [columns[k] EXCEPT !.pk = @ \/ Under("PrimaryKey", k), !.nullable = @ /\ ~Under("PrimaryKey", k),
                               !.unique = @ \/ Under("Unique", k)]]

\* validate_table_constraints.
ConstraintValid(cat, con, columns) ==
    CASE con.kind = "PrimaryKey" -> /\ ToSet(con.columns) \subseteq ColumnNames(columns)
                                    /\ \A n \in ToSet(con.columns) : ~ColumnOf(columns, n).nullable
      [] con.kind = "Unique" -> ToSet(con.columns) \subseteq ColumnNames(columns)
      [] con.kind = "ForeignKey" -> ToSet(con.columns) \subseteq ColumnNames(columns) /\ HasTable(cat, con.ref)
      [] con.kind = "Check" -> TRUE

\* convert_catalog_to_table_schema: the columns, and the names it gives the
\* constraints, must be distinct.
SchemaConverts(columns, constraints) ==
    LET NameOf(con) == CASE con.kind = "Unique" -> <<"unique">> \o con.columns
                         [] con.kind = "ForeignKey" -> <<"fk", con.ref>>
                         [] OTHER -> <<con.kind>>
    IN  /\ Cardinality(ColumnNames(columns)) = Len(columns)
        /\ \A j, k \in 1..Len(constraints) : j # k => NameOf(constraints[j]) # NameOf(constraints[k])

\* validate_foreign_key_constraint.
ForeignKeyValid(cat, table, con) ==
    /\ Len(con.columns) = Len(con.refColumns)
    /\ HasTable(cat, table) /\ HasTable(cat, con.ref)
    /\ LET mine == cat.tables[table].columns
           theirs == cat.tables[con.ref].columns
       IN  \A k \in 1..Len(con.columns) :
               /\ con.columns[k] \in ColumnNames(mine) /\ con.refColumns[k] \in ColumnNames(theirs)
               /\ ColumnOf(mine, con.columns[k]).type = ColumnOf(theirs, con.refColumns[k]).type

(***************************************************************************)
(* Work lists: what is left to do once a table is entered or left.  The    *)
(* name kept for the clean-up ("made") is the one the code pushes: for a   *)
(* primary key that is t_pkey, though the index is called pk_t.            *)
(***************************************************************************)
Work(do, name, columns, unique, con, made) ==
    [do |-> do, name |-> name, columns |-> columns, unique |-> unique, con |-> con, made |-> made]
NoConstraint == [kind |-> "None", columns |-> <<>>, ref |-> "None", refColumns |-> <<>>]
PkWork(columns, made) == Work("pk", <<>>, columns, TRUE, NoConstraint, made)
IndexWork(name, columns, unique, made) == Work("index", name, columns, unique, NoConstraint, made)
FkWork(con) == Work("fk", <<>>, con.columns, FALSE, con, <<>>)
DropWork(name) == Work("drop", name, <<>>, FALSE, NoConstraint, <<>>)

\* The indexes of CatalogManager::create_table.
ColumnWork(table, columns) ==
    FlattenSeq([k \in 1..Len(columns) |->
        LET c == columns[k]
        IN  IF c.pk THEN <<PkWork(<<c.name>>, <<>>)>>
            ELSE IF c.unique THEN <<IndexWork(UniqueName(table, <<c.name>>), <<c.name>>, TRUE, <<>>)>>
            ELSE <<>>])

\* The indexes of the table constraints.
WorkOf(table, con) ==
    LET uniq == UniqueName(table, con.columns)
        fk == FkName(table, con.ref, con.columns)
    IN  CASE con.kind = "PrimaryKey" -> <<PkWork(con.columns, <<<<table, "pkey">>>>)>>
          [] con.kind = "Unique" -> <<IndexWork(uniq, con.columns, TRUE, <<uniq>>)>>
          [] con.kind = "ForeignKey" -> <<FkWork(con)>>
                                        \o (IF con.columns = <<>> THEN <<>>
                                            ELSE <<IndexWork(fk, con.columns, FALSE, <<fk>>)>>)
          [] con.kind = "Check" -> <<>>

ConstraintWork(table, constraints) == FlattenSeq([k \in 1..Len(constraints) |-> WorkOf(table, constraints[k])])

DropsOf(names) == [k \in 1..Len(names) |-> DropWork(names[k])]

(***************************************************************************)
(* Starting a statement, and the passing of time.                          *)
(***************************************************************************)
Start(s) ==
    /\ ~Running(s) /\ left > 0
    /\ \E stmt \in Statements : Local(s, [Idle EXCEPT !.pc = "check", !.stmt = stmt, !.before = catalog])
    /\ left' = left - 1
    /\ overlap' = (overlap \/ \E o \in Sessions \ {s} : Running(o))
    /\ UNCHANGED <<walVars, catalog, ddlTx, locks, clock>>

Tick == clock < MaxClock /\ clock' = clock + 1 /\ UNCHANGED <<walVars, catalog, ddlTx, locks, sess, left, overlap>>

OnlyLocal == UNCHANGED <<walVars, catalog, ddlTx, locks, clock, left, overlap>>
OnlyCatalog == UNCHANGED <<walVars, ddlTx, locks, clock, left, overlap>>
OnlyWal == UNCHANGED <<catalog, ddlTx, locks, clock, left, overlap>>
OnlyTx == UNCHANGED <<walVars, catalog, clock, left, overlap>>

(***************************************************************************)
(* CREATE TABLE.                                                           *)
(***************************************************************************)
CreateCheck(s) ==
    /\ At(s, "check", "CreateTable")
    /\ IF HasTable(catalog, sess[s].stmt.table)
       THEN Return(s, IF sess[s].stmt.ifNot THEN "skipped" ELSE "error")
       ELSE Goto(s, "begin")
    /\ OnlyLocal

\* begin_ddl_transaction: the id is the current second.
CreateBegin(s) ==
    /\ sess[s].pc = "begin"
    /\ Local(s, [sess[s] EXCEPT !.pc = "prepare", !.tx = clock])
    /\ IF walOn THEN BeginDdl(clock, s) ELSE UNCHANGED walVars
    /\ OnlyWal

CreatePrepare(s) ==
    /\ sess[s].pc = "prepare"
    /\ LET stmt == sess[s].stmt
           mapped == [k \in 1..Len(stmt.columns) |-> MapColumn(stmt.columns[k])]
           merged == Merge(mapped, stmt.constraints)
       IN  IF /\ \A k \in 1..Len(mapped) : ColumnValid(mapped[k])
              /\ \A con \in ToSet(stmt.constraints) : ConstraintValid(catalog, con, merged)
           THEN Local(s, [sess[s] EXCEPT !.pc = "define", !.def.columns = merged])
           ELSE Goto(s, "abort")
    /\ OnlyLocal

\* CatalogManager::create_table, up to its indexes.  With the DDL log those of the
\* columns come before the record of the table, those of the constraints after it.
CreateDefine(s) ==
    /\ sess[s].pc = "define"
    /\ LET stmt == sess[s].stmt
           columns == sess[s].def.columns
           later == IF walOn THEN <<>> ELSE ConstraintWork(stmt.table, stmt.constraints)
       IN  /\ catalog' = AddTable(catalog, stmt.table, columns)
           /\ Local(s, [sess[s] EXCEPT !.pc = IF walOn THEN "defined" ELSE "work", !.def.id = catalog.nextTable,
                                       !.todo = ColumnWork(stmt.table, columns) \o later])
    /\ OnlyCatalog

\* The next piece of work of a session.
Doing(s, do) == sess[s].pc \in {"defined", "work"} /\ sess[s].todo # <<>> /\ Head(sess[s].todo).do = do
Done(s) == Local(s, [sess[s] EXCEPT !.todo = Tail(@), !.made = @ \o Head(sess[s].todo).made])
Fail(s) == IF sess[s].stmt.kind = "CreateTable" THEN Goto(s, "abort") ELSE Return(s, "error")

MakePk(s) ==
    /\ Doing(s, "pk")
    /\ catalog' = AddPkIndex(catalog, sess[s].stmt.table, sess[s].def.id, Head(sess[s].todo).columns)
    /\ Done(s)
    /\ OnlyCatalog

MakeIndex(s) ==
    /\ Doing(s, "index")
    /\ LET w == Head(sess[s].todo)
       IN  IF HasIndex(catalog, w.name)
           THEN Fail(s) /\ UNCHANGED catalog
           ELSE Done(s) /\ catalog' = AddIndex(catalog, w.name, sess[s].def.id, w.columns, w.unique)
    /\ OnlyCatalog

CheckFk(s) ==
    /\ Doing(s, "fk")
    /\ IF ForeignKeyValid(catalog, sess[s].stmt.table, Head(sess[s].todo).con) THEN Done(s) ELSE Fail(s)
    /\ OnlyLocal

LogPrev(s) ==
    /\ sess[s].pc = "defined" /\ sess[s].todo = <<>>
    /\ IF SchemaConverts(sess[s].def.columns, sess[s].stmt.constraints)
       THEN Local(s, [sess[s] EXCEPT !.pc = "log", !.prev = PrevLsn(sess[s].tx)])
       ELSE Fail(s)
    /\ OnlyLocal

LogCreate(s) ==
    /\ sess[s].pc = "log"
    /\ LogDdl("create", sess[s].tx, s, sess[s].stmt.table, sess[s].prev)
    /\ Local(s, [sess[s] EXCEPT !.pc = "work",
                                !.todo = ConstraintWork(sess[s].stmt.table, sess[s].stmt.constraints)])
    /\ OnlyWal

\* The commit of the DDL log; it fails when another session of the same
\* second has ended the transaction.
CreateCommit(s) ==
    /\ At(s, "work", "CreateTable") /\ sess[s].todo = <<>>
    /\ \/ ~walOn /\ Return(s, "ok") /\ UNCHANGED walVars
       \/ /\ walOn /\ LeaveDdl(sess[s].tx)
          /\ Local(s, [sess[s] EXCEPT !.pc = "commit", !.prev = active[sess[s].tx]])
       \/ walOn /\ sess[s].tx \notin DOMAIN active /\ Return(s, "error") /\ UNCHANGED walVars
    /\ OnlyWal

CommitRecord(s) ==
    /\ sess[s].pc = "commit"
    /\ EndDdl("commit", sess[s].tx, s, sess[s].prev)
    /\ Return(s, "ok")
    /\ OnlyWal

\* rollback_ddl_transaction, whose error is ignored.
CreateAbort(s) ==
    /\ sess[s].pc = "abort"
    /\ LET me == [sess[s] EXCEPT !.pc = "lookup", !.todo = DropsOf(sess[s].made)]
       IN  \/ /\ walOn /\ LeaveDdl(sess[s].tx)
              /\ Local(s, [me EXCEPT !.pc = "undo", !.prev = active[sess[s].tx]])
           \/ ~(walOn /\ sess[s].tx \in DOMAIN active) /\ Local(s, me) /\ UNCHANGED walVars
    /\ OnlyWal

AbortRecord(s) ==
    /\ sess[s].pc = "undo"
    /\ EndDdl("abort", sess[s].tx, s, sess[s].prev)
    /\ Goto(s, "lookup")
    /\ OnlyWal

(***************************************************************************)
(* Removing a table and its indexes: CatalogManager::drop_table, by which  *)
(* a failed CREATE TABLE cleans up, and drop_table_with_dependencies.  The *)
(* table is looked up, its indexes are listed and dropped one by one, and  *)
(* then whatever table has the name is removed.                            *)
(***************************************************************************)
Dropping(s) == sess[s].pc \in {"lookup", "remove"} /\ sess[s].todo # <<>>

DropNext(s) ==
    /\ Dropping(s)
    /\ catalog' = DropIndex(catalog, Head(sess[s].todo).name)
    /\ Local(s, [sess[s] EXCEPT !.todo = Tail(@)])
    /\ OnlyCatalog

DropLookup(s) ==
    /\ sess[s].pc = "lookup" /\ ~Dropping(s)
    /\ IF HasTable(catalog, sess[s].stmt.table)
       THEN Local(s, [sess[s] EXCEPT !.pc = "list", !.def = catalog.tables[sess[s].stmt.table]])
       ELSE Return(s, "error")
    /\ OnlyLocal

DropList(s) ==
    /\ sess[s].pc = "list"
    /\ Local(s, [sess[s] EXCEPT !.pc = "remove", !.todo = DropsOf(TableIndexes(catalog, sess[s].def.id))])
    /\ OnlyLocal

DropRemove(s) ==
    /\ sess[s].pc = "remove" /\ ~Dropping(s)
    /\ catalog' = RemoveTable(catalog, sess[s].stmt.table)
    /\ IF sess[s].stmt.kind = "CreateTable" THEN Return(s, "error") ELSE Goto(s, "leave")
    /\ OnlyCatalog

(***************************************************************************)
(* DROP and ALTER inside the DDL transaction manager.                      *)
(***************************************************************************)

\* begin_transaction(1), lock_object and acquire_global_lock: the lock is
\* the owner's already, whichever session took it.
EnterTx(object) == ddlTx' = TRUE /\ locks' = locks \cup {object}

\* commit_transaction(1): every lock taken under the id is released.
LeaveTx(s) ==
    /\ \/ sess[s].pc = "leave"
       \/ At(s, "work", "AlterTable") /\ sess[s].todo = <<>>
    /\ ddlTx' = FALSE
    /\ locks' = IF ddlTx THEN {} ELSE locks
    /\ Return(s, IF ddlTx THEN "ok" ELSE "error")
    /\ OnlyTx

TableStatement(s) == sess[s].stmt.kind \in {"DropTable", "AlterTable"}

\* The table is looked up; then validate_table_in_schema looks it up again.
TableCheck(s) ==
    /\ sess[s].pc = "check" /\ TableStatement(s)
    /\ IF HasTable(catalog, sess[s].stmt.table)
       THEN Local(s, [sess[s] EXCEPT !.pc = "enter", !.def = catalog.tables[sess[s].stmt.table]])
       ELSE Return(s, IF sess[s].stmt.kind = "DropTable" /\ sess[s].stmt.ifExists THEN "skipped" ELSE "error")
    /\ OnlyLocal

TableEnter(s) ==
    /\ sess[s].pc = "enter" /\ TableStatement(s)
    /\ IF HasTable(catalog, sess[s].stmt.table)
       THEN /\ EnterTx(<<"public", sess[s].stmt.table>>)
            /\ Goto(s, IF sess[s].stmt.kind = "DropTable" THEN "lookup" ELSE "validate")
       ELSE Return(s, "error") /\ UNCHANGED <<ddlTx, locks>>
    /\ OnlyTx

(***************************************************************************)
(* ALTER TABLE.                                                            *)
(***************************************************************************)

\* validate_alter_table_operation, on the definition read first.  No
\* constraint ever exists: constraint_exists is a placeholder.
AlterValid(alter, columns) ==
    CASE alter.op = "AddColumn" -> alter.column.name \notin ColumnNames(columns) /\ alter.column.type # "Unsupported"
      [] alter.op = "DropColumn" -> alter.name \in ColumnNames(columns)
      [] alter.op = "RenameColumn" -> alter.name \in ColumnNames(columns) /\ alter.new \notin ColumnNames(columns)
      [] alter.op = "AddConstraint" -> /\ ToSet(alter.con.columns) \subseteq ColumnNames(columns)
                                       /\ alter.con.kind = "PrimaryKey" => \A c \in ToSet(columns) : ~c.pk
      [] alter.op = "DropConstraint" -> FALSE
      [] alter.op = "RenameTable" -> ~HasTable(catalog, alter.new)

AlterValidate(s) ==
    /\ sess[s].pc = "validate"
    /\ IF AlterValid(sess[s].stmt, sess[s].def.columns) THEN Goto(s, "apply") ELSE Return(s, "error")
    /\ OnlyLocal

\* What the column operations make of a definition.
Altered(alter, columns) ==
    LET Kept(c) == c.name # alter.name
        at == CHOOSE k \in 1..Len(columns) : columns[k].name = alter.name /\ First(columns, k)
    IN  CASE alter.op = "AddColumn" -> Append(columns, MapColumn(alter.column))
          [] alter.op = "DropColumn" -> RemoveAt(columns, at)
          [] alter.op = "RenameColumn" -> [columns EXCEPT ![at].name = alter.new]

\* execute_add_constraint, up to the index it makes: the new constraint is
\* added to a copy of the definition that is then thrown away.
ConstraintAddable(con, columns) ==
    /\ con.kind # "ForeignKey" => ToSet(con.columns) \subseteq ColumnNames(columns)
    /\ con.kind = "PrimaryKey" => \A n \in ToSet(con.columns) : ~ColumnOf(columns, n).nullable

AlterWork(table, con) ==
    CASE con.kind = "PrimaryKey" -> <<PkWork(con.columns, <<>>)>>
      [] con.kind = "Unique" -> <<IndexWork(UniqueName(table, con.columns), con.columns, TRUE, <<>>)>>
      [] con.kind = "ForeignKey" -> <<FkWork(con)>>
      [] con.kind = "Check" -> <<>>

\* The definition is read again; the column operations write theirs back
\* in a critical section of its own.
AlterApply(s) ==
    /\ sess[s].pc = "apply"
    /\ LET alter == sess[s].stmt
           table == alter.table
           def == catalog.tables[table]
       IN  \/ /\ alter.op = "RenameTable"
              /\ IF HasTable(catalog, alter.new) THEN Return(s, "error") ELSE Goto(s, "leave")
           \/ /\ alter.op # "RenameTable" /\ ~HasTable(catalog, table)
              /\ Return(s, "error")
           \/ /\ alter.op \in {"AddColumn", "DropColumn", "RenameColumn"} /\ HasTable(catalog, table)
              /\ IF alter.op # "AddColumn" /\ alter.name \notin ColumnNames(def.columns)
                 THEN Return(s, "error")
                 ELSE Local(s, [sess[s] EXCEPT !.pc = "write", !.def.columns = Altered(alter, def.columns)])
           \/ /\ alter.op = "AddConstraint" /\ HasTable(catalog, table)
              /\ IF ConstraintAddable(alter.con, def.columns)
                 THEN Local(s, [sess[s] EXCEPT !.pc = "work", !.def = def, !.todo = AlterWork(table, alter.con)])
                 ELSE Return(s, "error")
    /\ OnlyLocal

AlterWrite(s) ==
    /\ sess[s].pc = "write"
    /\ IF HasTable(catalog, sess[s].stmt.table)
       THEN catalog' = UpdateTable(catalog, sess[s].stmt.table, sess[s].def.columns) /\ Goto(s, "leave")
       ELSE Return(s, "error") /\ UNCHANGED catalog
    /\ OnlyCatalog

(***************************************************************************)
(* CREATE INDEX and DROP INDEX.                                            *)
(***************************************************************************)
IndexCheck(s) ==
    /\ sess[s].pc = "check"
    /\ LET stmt == sess[s].stmt
       IN  \/ /\ stmt.kind = "CreateIndex"
              /\ IF HasIndex(catalog, stmt.index) THEN Return(s, IF stmt.ifNot THEN "skipped" ELSE "error")
                 ELSE Goto(s, "table")
           \/ /\ stmt.kind = "DropIndex"
              /\ IF HasIndex(catalog, stmt.index)
                 THEN Local(s, [sess[s] EXCEPT !.pc = "enter", !.def = [id |-> catalog.indexes[stmt.index].table,
                                                                       columns |-> <<catalog.indexes[stmt.index]>>]])
                 ELSE Return(s, IF stmt.ifExists THEN "skipped" ELSE "error")
    /\ OnlyLocal

IndexTable(s) ==
    /\ sess[s].pc = "table"
    /\ IF HasTable(catalog, sess[s].stmt.table)
       THEN Local(s, [sess[s] EXCEPT !.pc = "make", !.def = catalog.tables[sess[s].stmt.table]])
       ELSE Return(s, "error")
    /\ OnlyLocal

IndexMake(s) ==
    /\ sess[s].pc = "make"
    /\ LET stmt == sess[s].stmt
       IN  IF HasIndex(catalog, stmt.index)
           THEN Return(s, "error") /\ UNCHANGED catalog
           ELSE /\ catalog' = AddIndex(catalog, stmt.index, sess[s].def.id, stmt.columns, stmt.unique)
                /\ Return(s, "ok")
    /\ OnlyCatalog

\* A system index is refused after the lock is taken, and it stays taken.
IndexEnter(s) ==
    /\ At(s, "enter", "DropIndex")
    /\ EnterTx(<<"index">> \o sess[s].stmt.index)
    /\ IF sess[s].def.columns[1].system THEN Return(s, "error") ELSE Goto(s, "owner")
    /\ OnlyTx

\* get_table_name_for_index.
IndexOwner(s) ==
    /\ sess[s].pc = "owner"
    /\ IF \E t \in DOMAIN catalog.tables : catalog.tables[t].id = sess[s].def.id
       THEN Goto(s, "unmake") ELSE Return(s, "error")
    /\ OnlyLocal

IndexUnmake(s) ==
    /\ sess[s].pc = "unmake"
    /\ catalog' = DropIndex(catalog, sess[s].stmt.index)
    /\ Goto(s, "leave")
    /\ OnlyCatalog

SessionStep(s) ==
    \/ Start(s)
    \/ CreateCheck(s) \/ CreateBegin(s) \/ CreatePrepare(s) \/ CreateDefine(s) \/ CreateCommit(s) \/ CommitRecord(s)
    \/ MakePk(s) \/ MakeIndex(s) \/ CheckFk(s) \/ LogPrev(s) \/ LogCreate(s) \/ CreateAbort(s) \/ AbortRecord(s)
    \/ DropNext(s) \/ DropLookup(s) \/ DropList(s) \/ DropRemove(s) \/ TableCheck(s) \/ TableEnter(s) \/ LeaveTx(s)
    \/ AlterValidate(s) \/ AlterApply(s) \/ AlterWrite(s)
    \/ IndexCheck(s) \/ IndexTable(s) \/ IndexMake(s) \/ IndexEnter(s) \/ IndexOwner(s) \/ IndexUnmake(s)

DdlNext == Tick \/ \E s \in Sessions : SessionStep(s)

DdlSpec == DdlInit /\ [][DdlNext]_ddlVars

(***************************************************************************)
(* Properties.                                                             *)
(***************************************************************************)

(***************************************************************************)
(* A CREATE TABLE that returned Ok is on disk: its record and a commit of  *)
(* its transaction after it have been flushed, also when another session   *)
(* of the same second shares the transaction (executor/engine.rs, commit   *)
(* of the DDL log after the catalog change).                               *)
(***************************************************************************)
CreateDurable ==
    \A s \in Sessions :
        walOn /\ At(s, "returned", "CreateTable") /\ sess[s].result = "ok" =>
            \E j, k \in 1..flushed :
                /\ j < k
                /\ ddlLog[j].kind = "create" /\ ddlLog[j].by = s /\ ddlLog[j].object = sess[s].stmt.table
                /\ ddlLog[k].kind = "commit" /\ ddlLog[k].tx = sess[s].tx

(***************************************************************************)
(* The three maps of the catalog agree whatever the sessions interleave:   *)
(* every index is listed for its table, so that dropping the table finds   *)
(* it, and pg_column shows exactly the columns of every table there is.    *)
(***************************************************************************)
CatalogAgrees == IndexesListed(catalog) /\ ColumnsShown(catalog)

\* What a statement is about: DROP INDEX the index it names, any other statement the
\* indexes of the table it names.
Concerns(stmt, cat, n) ==
    IF stmt.kind = "DropIndex" THEN n = stmt.index
    ELSE HasTable(cat, stmt.table) /\ cat.indexes[n].table = cat.tables[stmt.table].id

\* Every other index of one catalog is in the other, as it is.
KeepsIndexes(stmt, one, other) ==
    \A n \in DOMAIN one.indexes :
        Concerns(stmt, one, n) \/ (HasIndex(other, n) /\ other.indexes[n] = one.indexes[n])

\* No index of a table that is gone.
Owned(cat) == \A n \in DOMAIN cat.indexes : \E t \in DOMAIN cat.tables : cat.tables[t].id = cat.indexes[n].table

Same(old, new) == new.tables = old.tables /\ new.indexes = old.indexes

Atomic(stmt, result, old, new) ==
    /\ result # "ok" => Same(old, new)
    /\ stmt.kind \in {"CreateIndex", "DropIndex"} => new.tables = old.tables
    /\ Without(new.tables, stmt.table) = Without(old.tables, stmt.table)
    /\ KeepsIndexes(stmt, old, new) /\ KeepsIndexes(stmt, new, old)
    /\ Owned(new)

(***************************************************************************)
(* A statement is all or nothing, as long as no two statements have run at *)
(* the same time: after an error, wherever it struck, the tables and       *)
(* indexes are those from before the statement (the clean-up of CREATE     *)
(* TABLE, which drops what it finds under names); after success no other   *)
(* table and no index of another table has changed, and no index is left   *)
(* of a table that is gone.                                                *)
(***************************************************************************)
StatementAtomic ==
    [][\A s \in Sessions :
           ~overlap /\ Running(s) /\ sess'[s].pc = "returned" =>
               Atomic(sess[s].stmt, sess'[s].result, sess[s].before, catalog')]_ddlVars

(***************************************************************************)
(* What StatementAtomic rests on: CREATE TABLE replaces whatever index has *)
(* the name pk_t, and drops whatever has the name t_pkey.  So a user gives *)
(* no index such a name, and the catalog at the start has none on another  *)
(* table; the names of tables are not the words the code puts before them. *)
(***************************************************************************)
Named == {stmt.table : stmt \in Statements}
Reserved(n) == \E t \in Named : n = PkName(t) \/ n = <<t, "pkey">>

\* A catalog in which those names are free, or the table's own; its indexes are of
\* tables there are, and listed for these only.
Whole(cat) ==
    /\ cat.tables = [t \in DOMAIN cat.tables |-> cat.tables[t]]
    /\ cat.indexes = [n \in DOMAIN cat.indexes |-> cat.indexes[n]]
    /\ Owned(cat)
    /\ \A tid \in DOMAIN cat.listed :
           \A n \in ToSet(cat.listed[tid]) : HasIndex(cat, n) /\ cat.indexes[n].table = tid
    /\ \A t \in Named :
           /\ HasIndex(cat, PkName(t)) => HasTable(cat, t) /\ cat.indexes[PkName(t)].table = cat.tables[t].id
           /\ ~HasIndex(cat, <<t, "pkey">>)

NamesApart ==
    /\ Named \cap {"pk", "unique"} = {}
    /\ \A stmt \in Statements : stmt.kind = "CreateIndex" => ~Reserved(stmt.index)
    /\ \A cat \in InitialCatalogs : Whole(cat)
=============================================================================
