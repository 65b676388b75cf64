------------------------------- MODULE MCDdl -------------------------------
(***************************************************************************)
(* Model-checking instance of DDL: a behaviour is one of the statements or  *)
(* of the view manager.                                                    *)
(***************************************************************************)
EXTENDS DdlEngine, ViewManager

VARIABLE focus   \* the part that runs in this behaviour

Col(name, constraints) == [name |-> name, type |-> "Integer", constraints |-> constraints]
Con(kind, columns) == [kind |-> kind, columns |-> columns, ref |-> "None", refColumns |-> <<>>]
Fk(columns, ref, refColumns) == [kind |-> "ForeignKey", columns |-> columns, ref |-> ref, refColumns |-> refColumns]

CreateT(columns, constraints) ==
    [kind |-> "CreateTable", table |-> "t", columns |-> columns, constraints |-> constraints, ifNot |-> FALSE]
Alter(table, op) ==
    [kind |-> "AlterTable", table |-> table, op |-> op, column |-> Col("b", <<"NotNull">>), name |-> "a", new |-> "c",
     con |-> Con("Unique", <<"a">>)]
Index(table) ==
    [kind |-> "CreateIndex", table |-> table, index |-> <<"ix">>, columns |-> <<"a">>, unique |-> FALSE, ifNot |-> FALSE]
DropT(table) == [kind |-> "DropTable", table |-> table, ifExists |-> FALSE]
DropI(table, index) == [kind |-> "DropIndex", table |-> table, index |-> index, ifExists |-> FALSE]

Id == Col("id", <<"PrimaryKey">>)
A == Col("a", <<>>)

MCStatements ==
    {CreateT(<<Id, Col("a", <<"Unique">>)>>, <<>>),
     CreateT(<<A, Col("b", <<>>)>>, <<Con("Unique", <<"a", "b">>), Con("Check", <<>>)>>),
     CreateT(<<A>>, <<Con("Unique", <<"a">>)>>),
     CreateT(<<Col("id", <<"NotNull">>), A>>, <<Con("PrimaryKey", <<"id">>), Fk(<<"a">>, "u", <<"a">>)>>),
     CreateT(<<Col("id", <<>>)>>, <<Con("PrimaryKey", <<"id">>), Fk(<<"id">>, "u", <<"z">>)>>),
     CreateT(<<Col("id", <<"PrimaryKey", "Null">>)>>, <<>>),
     CreateT(<<A, A>>, <<>>),
     [CreateT(<<A>>, <<>>) EXCEPT !.table = "u", !.ifNot = TRUE],
     Index("u"), Index("t"),
     DropT("t"), [DropT("u") EXCEPT !.ifExists = TRUE],
     DropI("u", <<"ix">>), DropI("u", <<"pk", "u">>),
     Alter("u", "AddColumn"), Alter("u", "DropColumn"), Alter("u", "RenameColumn"), Alter("u", "AddConstraint"),
     [Alter("u", "AddConstraint") EXCEPT !.con = Fk(<<"a">>, "u", <<"id">>)],
     [Alter("t", "AddConstraint") EXCEPT !.con = Con("PrimaryKey", <<"a">>)],
     Alter("u", "DropConstraint"), [Alter("u", "RenameTable") EXCEPT !.new = "t"]}

\* The table u, without and with an index of its own.
MCInitialCatalogs ==
    LET columns == <<MapColumn(Id), MapColumn(A)>>
        withU == AddPkIndex(AddTable(EmptyCatalog, "u", columns), "u", 1, <<"id">>)
    IN  {withU, AddIndex(withU, <<"ix">>, 1, <<"a">>, FALSE)}

\* The names of this instance are apart, so StatementAtomic is what the proof is about.
ASSUME MCNamesApart == NamesApart

Symmetric == Permutations(Sessions) \cup Permutations(Threads)

MCQueries == {{"users"}, {"users", "orders"}, {"prices"}}

MCInit ==
    /\ focus \in {"statements", "views"}
    /\ DdlInit /\ ViewInit
    /\ focus = "statements" \/ (~walOn /\ catalog = CHOOSE c \in InitialCatalogs : TRUE)

MCNext ==
    \/ focus = "statements" /\ DdlNext /\ UNCHANGED <<viewVars, focus>>
    \/ focus = "views" /\ ViewNext /\ UNCHANGED <<ddlVars, focus>>

MCSpec == MCInit /\ [][MCNext]_<<ddlVars, viewVars, focus>>
=============================================================================
