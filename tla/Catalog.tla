------------------------------ MODULE Catalog ------------------------------
(***************************************************************************)
(* The catalog managers of catalog/table.rs, index.rs and mod.rs.  The     *)
(* catalog is one record, and every operator below is one critical section *)
(* of the code: what it does to the catalog under the mutexes it holds.    *)
(*                                                                         *)
(*   tables    name -> the definition under that name                      *)
(*   indexes   index name -> its definition                                *)
(*   listed    table id -> the index names listed for it                   *)
(*   pgColumn  the rows of the system table pg_column: <<table id, column>>*)
(*                                                                         *)
(* A generated name ("unique_t_a") is the tuple of the parts that format!  *)
(* joins with underscores.  TableDef.constraints is left out: create_table *)
(* stores an empty list and no operation ever stores another.              *)
(***************************************************************************)
EXTENDS Naturals, Sequences, SequencesExt, FiniteSets

EmptyMap == [n \in {} |-> 0]

EmptyCatalog ==
    [tables |-> EmptyMap, indexes |-> EmptyMap, listed |-> EmptyMap, nextTable |-> 1, pgColumn |-> <<>>]

Put(map, key, value) == [n \in DOMAIN map \cup {key} |-> IF n = key THEN value ELSE map[n]]
Without(map, key) == [n \in DOMAIN map \ {key} |-> map[n]]

HasTable(cat, name) == name \in DOMAIN cat.tables
HasIndex(cat, name) == name \in DOMAIN cat.indexes

ColumnNames(columns) == {columns[k].name : k \in 1..Len(columns)}
First(columns, k) == \A j \in 1..(k - 1) : columns[j].name # columns[k].name
ColumnOf(columns, name) == columns[CHOOSE k \in 1..Len(columns) : columns[k].name = name /\ First(columns, k)]

\* The names the code gives the indexes it makes itself.
PkName(table) == <<"pk", table>>
UniqueName(table, columns) == <<"unique", table>> \o columns
FkName(table, ref, columns) == <<"fk", table, ref>> \o columns

ColumnRows(tid, columns) == [k \in 1..Len(columns) |-> <<tid, columns[k].name>>]

\* Vec::retain and Iterator::filter: the entries of s that are in S, in their
\* order.  Unlike SelectSeq it takes a set, which a proof can speak about.
Retain(s, S) ==
    LET Upto[k \in 0..Len(s)] ==
            IF k = 0 THEN <<>> ELSE IF s[k] \in S THEN Append(Upto[k - 1], s[k]) ELSE Upto[k - 1]
    IN  Upto[Len(s)]

\* TableManager::create_table: an existing entry of the name is replaced.
AddTable(cat, name, columns) ==
    LET tid == cat.nextTable
    IN  [cat EXCEPT !.nextTable = @ + 1,
                    !.tables = Put(@, name, [id |-> tid, columns |-> columns]),
                    !.pgColumn = @ \o ColumnRows(tid, columns)]

\* TableManager::drop_table: the rows of pg_column stay.
RemoveTable(cat, name) == [cat EXCEPT !.tables = Without(@, name)]

\* The new rows of pg_column are added to the old ones.
UpdateTableAppend(cat, name, columns) ==
    [cat EXCEPT !.tables[name].columns = columns, !.pgColumn = @ \o ColumnRows(cat.tables[name].id, columns)]

\* TableManager::update_table_definition, of a table that exists: its id is
\* kept and its rows of pg_column are written anew.
UpdateTable(cat, name, columns) ==
    LET tid == cat.tables[name].id
    IN  [cat EXCEPT !.tables[name].columns = columns,
                    !.pgColumn = Retain(@, {row \in ToSet(@) : row[1] # tid}) \o ColumnRows(tid, columns)]

ListIndex(listed, tid, name) ==
    Put(listed, tid, (IF tid \in DOMAIN listed THEN listed[tid] ELSE <<>>) \o <<name>>)

\* IndexManager::create_index, of a name that is not taken.
AddIndex(cat, name, tid, columns, unique) ==
    [cat EXCEPT !.indexes = Put(@, name, [table |-> tid, columns |-> columns, unique |-> unique, system |-> FALSE]),
                !.listed = ListIndex(@, tid, name)]

\* IndexManager::create_primary_key_index: an index of the name is replaced.
AddPkIndex(cat, table, tid, columns) ==
    [cat EXCEPT !.indexes = Put(@, PkName(table), [table |-> tid, columns |-> columns, unique |-> TRUE, system |-> TRUE]),
                !.listed = ListIndex(@, tid, PkName(table))]

\* IndexManager::drop_index: nothing happens when there is no such index.
DropIndex(cat, name) ==
    IF ~HasIndex(cat, name) THEN cat
    ELSE LET tid == cat.indexes[name].table
             names == IF tid \in DOMAIN cat.listed THEN cat.listed[tid] ELSE <<>>
             rest == Retain(names, ToSet(names) \ {name})
         IN  [cat EXCEPT !.indexes = Without(@, name),
                         !.listed = IF rest = <<>> THEN Without(@, tid) ELSE Put(@, tid, rest)]

\* Only the indexes made by CREATE INDEX and constraints are listed.
TableIndexesUser(cat, tid) ==
    IF tid \in DOMAIN cat.listed
    THEN Retain(cat.listed[tid], {n \in DOMAIN cat.indexes : ~cat.indexes[n].system}) ELSE <<>>

\* IndexManager::list_table_indexes: the names listed for the table under
\* which there is an index, whatever table that index is of.
TableIndexes(cat, tid) ==
    IF tid \in DOMAIN cat.listed THEN Retain(cat.listed[tid], DOMAIN cat.indexes) ELSE <<>>

(***************************************************************************)
(* What the maps of a catalog have to do with one another.                 *)
(***************************************************************************)

\* Every index is listed for its table.
IndexesListed(cat) ==
    \A n \in DOMAIN cat.indexes :
        LET tid == cat.indexes[n].table
        IN  tid \in DOMAIN cat.listed /\ Contains(cat.listed[tid], n)

\* The rows of pg_column for a table are its columns.
RowsOf(rows, tid) == Retain(rows, {row \in ToSet(rows) : row[1] = tid})
ColumnsShown(cat) ==
    \A t \in DOMAIN cat.tables :
        RowsOf(cat.pgColumn, cat.tables[t].id) = ColumnRows(cat.tables[t].id, cat.tables[t].columns)

\* A catalog that the operations above have built, as far as both depend on it: a
\* table id is given once, and there are no rows of pg_column for an id not given.
IsSeq(s) == s \in Seq(ToSet(s))
Given(cat) == 0..(cat.nextTable - 1)
Consistent(cat) ==
    /\ DOMAIN cat = DOMAIN EmptyCatalog /\ cat.nextTable \in Nat
    /\ IsSeq(cat.pgColumn) /\ \A row \in ToSet(cat.pgColumn) : row[1] \in Given(cat)
    /\ \A t \in DOMAIN cat.tables :
           /\ DOMAIN cat.tables[t] = {"id", "columns"}
           /\ cat.tables[t].id \in Given(cat) /\ IsSeq(cat.tables[t].columns)
    /\ \A t, u \in DOMAIN cat.tables : cat.tables[t].id = cat.tables[u].id => t = u
    /\ \A tid \in DOMAIN cat.listed : IsSeq(cat.listed[tid])
    /\ IndexesListed(cat) /\ ColumnsShown(cat)
=============================================================================
