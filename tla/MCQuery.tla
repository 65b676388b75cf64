------------------------------ MODULE MCQuery ------------------------------
(* Queries and databases for QueryExecution.  Every entry of Queries has its *)
(* class and, as sql, the query the reference answers.                       *)
EXTENDS SqlReference

MCHashFirst(S) == CHOOSE x \in S : TRUE
MCMaxIterations == 4

(* Expressions *)
C(t, n) == [op |-> "col", key |-> <<t, n>>]
V(v) == [op |-> "lit", v |-> v]
I(i) == V(Integer(i))
B(l, b, r) == [op |-> "bin", b |-> b, l |-> l, r |-> r]
Not(e) == [op |-> "un", u |-> "not", e |-> e]
F(f, args) == [op |-> "fn", f |-> f, args |-> args, distinct |-> FALSE]
All == [op |-> "star"]
A == Str(<<10>>)
BB == Str(<<11>>)

(* Queries *)
T(table, alias) == [table |-> table, alias |-> alias, q |-> None]
Derived(x, alias) == [table |-> "", alias |-> alias, q |-> x]
Col(e, alias) == [e |-> e, alias |-> alias]
Cols(es) == [i \in DOMAIN es |-> Col(es[i], "")]
Join(ref, type, cond) == [ref |-> ref, type |-> type, cond |-> cond]
Sel(columns, from) ==
    [op |-> "select", from |-> from, joins |-> <<>>, where |-> None, columns |-> columns, group |-> <<>>,
     having |-> None, order |-> <<>>, limit |-> -1, offset |-> -1, distinct |-> FALSE]
Star1 == Cols(<<All>>)
Set(op, all, l, r) == [op |-> op, all |-> all, l |-> l, r |-> r]
Run(class, x) == x @@ [class |-> class, sql |-> x]
RunPlan(class, plan, x) == [op |-> "plan", plan |-> plan, class |-> class, sql |-> x]
Nest(x) == Sel(Star1, <<Derived(x, "y")>>)
Sub(table, alias, where, sel) == [table |-> table, alias |-> alias, where |-> where, sel |-> sel]
Asc(e) == [e |-> e, desc |-> FALSE, nulls |-> "default"]
Desc(e) == [e |-> e, desc |-> TRUE, nulls |-> "default"]

-----------------------------------------------------------------------------
Emp == <<<<"", "id">>, <<"", "dept">>, <<"", "boss">>, <<"", "pay">>>>
Dept == <<<<"", "id">>, <<"", "name">>>>
E4(i, dp, b, p) == <<Integer(i), IF dp = 0 THEN Null ELSE Integer(dp), IF b = 0 THEN Null ELSE Integer(b),
                     IF p = 0 THEN Null ELSE Integer(p)>>
Db(emp, dept) == [emp |-> [cols |-> Emp, rows |-> emp], dept |-> [cols |-> Dept, rows |-> dept]]
Fixed == <<
    Db(<<E4(1, 1, 0, 6), E4(2, 1, 1, 4), E4(3, 2, 1, 4), E4(4, 0, 3, 0)>>,
       <<<<Integer(1), A>>, <<Integer(2), BB>>, <<Integer(3), A>>>>),
    Db(<<>>, <<<<Integer(1), A>>>>),
    Db(<<E4(1, 2, 0, 1), E4(2, 2, 1, 1), E4(3, 2, 1, 3)>>, <<<<Integer(2), BB>>, <<Integer(2), BB>>>>),
    Db(<<E4(1, 1, 2, 1), E4(2, 0, 1, 2)>>, <<>>) >>
(* Every way to place three employees in two departments or none, with and     *)
(* without equal or missing pay, bosses and departments.                       *)
Place(k, bosses, pays, depts) ==
    Db([i \in 1 .. 3 |-> E4(i, ((k - 1) \div 3^(i - 1)) % 3, bosses[i], pays[i])], depts)
Two == <<<<Integer(1), A>>, <<Integer(2), BB>>>>
Twins == <<<<Integer(2), A>>, <<Integer(2), A>>>>
MCDatabases ==
    Fixed \o [k \in 1 .. 27 |-> Place(k, <<0, 1, 2>>, <<1, 1, 2>>, Two)]
          \o [k \in 1 .. 27 |-> Place(k, <<3, 0, 2>>, <<0, 2, 1>>, Twins)]
          \o [k \in 1 .. 27 |-> Place(k, <<2, 1, 0>>, <<4, 5, 4>>, Two)]

MCViews == [v |-> [Sel(Cols(<<C("", "id"), C("", "dept")>>), <<T("emp", "")>>) EXCEPT !.where = B(C("", "dept"), "=", I(1))]]
MCIndexes == [emp |-> <<{"boss"}, {"id"}>>]

-----------------------------------------------------------------------------
OnDept == B(C("e", "dept"), "=", C("d", "id"))
EmpDept(type) == [Sel(Cols(<<C("e", "id"), C("d", "name")>>), <<T("emp", "e")>>)
                    EXCEPT !.joins = <<Join(T("dept", "d"), type, OnDept)>>]
StarJoin(type) == [EmpDept(type) EXCEPT !.columns = Star1]
IdJoin == [StarJoin("inner") EXCEPT !.joins = <<Join(T("dept", "d"), "inner", B(C("e", "id"), "=", C("d", "id")))>>]
PhysicalJoin(n, right, key) ==
    [n |-> n, l |-> ScanNode("emp", ""), r |-> ScanNode(right, ""), cond |-> B(C("", key), "=", C("", key)),
     keys |-> <<<<"", key>>>>]
BossJoin == [StarJoin("inner") EXCEPT !.joins = <<Join(T("emp", "d"), "inner", B(C("e", "boss"), "=", C("d", "boss")))>>]
From1(es) == Sel(Cols(es), <<T("emp", "")>>)

Selects == <<
    EmpDept("inner"), EmpDept("left"), EmpDept("right"), EmpDept("full"),
    StarJoin("leftsemi"), StarJoin("leftanti"), StarJoin("rightsemi"), StarJoin("rightanti"),
    [EmpDept("cross") EXCEPT !.joins[1].cond = None, !.where = B(C("e", "id"), "<", C("d", "id"))],
    [EmpDept("inner") EXCEPT !.columns = Cols(<<C("e", "id"), C("m", "id"), C("d", "name")>>),
                             !.joins = Append(@, Join(T("emp", "m"), "left", B(C("e", "boss"), "=", C("m", "id"))))],
    [Sel(Cols(<<C("e", "id"), C("d", "name")>>), <<T("emp", "e"), T("dept", "d")>>)
        EXCEPT !.where = B(C("d", "name"), "=", V(A))],
    [From1(<<C("", "id"), F("coalesce", <<C("", "pay"), I(0)>>),
             [op |-> "case", base |-> None, branches |-> <<<<B(C("", "pay"), ">", I(4)), I(1)>>>>, else |-> I(0)]>>)
        EXCEPT !.where = Not(B(C("", "dept"), "=", I(2)))],
    [From1(<<C("", "id"), B(C("", "pay"), "+", I(1)), [op |-> "cast", e |-> C("", "boss"), type |-> "varchar"]>>)
        EXCEPT !.where = B(B(C("", "boss"), "isnot", V(Null)), "and",
                           B(C("", "id"), "in", [op |-> "list", es |-> <<I(2), I(4)>>]))],
    From1(<<F("abs", <<B(C("", "pay"), "-", I(2))>>), F("nullif", <<C("", "dept"), C("", "pay")>>),
            F("length", <<[op |-> "cast", e |-> B(C("", "pay"), "*", I(10)), type |-> "varchar"]>>)>>),
    [Sel(Cols(<<C("d", "id")>>), <<T("dept", "d")>>) EXCEPT !.where = B(C("", "name"), "like", V(Str(<<10, Percent>>)))],
    [Sel(Cols(<<C("e", "id")>>), <<T("emp", "e")>>)
        EXCEPT !.where = [op |-> "exists", negated |-> FALSE, q |-> Sub("dept", "d", B(C("d", "id"), "=", C("e", "dept")), C("d", "name"))]],
    [Sel(Cols(<<C("e", "id")>>), <<T("emp", "e")>>)
        EXCEPT !.where = B(C("e", "dept"), "in", [op |-> "sub", q |-> Sub("dept", "d", B(C("d", "name"), "=", V(A)), C("d", "id"))])],
    [EmpDept("inner") EXCEPT !.from = <<Derived([Sel(Cols(<<C("e", "id"), C("e", "dept")>>), <<T("emp", "e")>>)
                                                    EXCEPT !.where = B(C("e", "pay"), ">", I(3))], "e")>>],
    Nest([Sel(Cols(<<C("v", "id")>>), <<T("v", "v")>>) EXCEPT !.where = B(C("", "id"), ">", I(1))]),
    [From1(<<C("emp", "id")>>) EXCEPT !.where = B(C("emp", "id"), "=", I(99))],
    [From1(<<C("emp", "id")>>) EXCEPT !.where = B(B(I(1), "=", I(1)), "and", B(C("emp", "boss"), ">", I(99)))],
    \* the tables named by themselves
    [Sel(Cols(<<C("emp", "id"), C("dept", "id")>>), <<T("emp", "")>>)
        EXCEPT !.joins = <<Join(T("dept", ""), "inner", B(C("emp", "dept"), "=", C("dept", "id")))>>] >>

Count == F("count", <<All>>)
Pay(f) == F(f, <<C("", "pay")>>)
ByDept(columns) == [Sel(columns, <<T("emp", "")>>) EXCEPT !.group = <<C("", "dept")>>]
Groups == <<
    ByDept(Cols(<<C("", "dept"), Count, Pay("avg"), Pay("min"), Pay("max"), [Pay("count") EXCEPT !.distinct = TRUE]>>)),
    [ByDept(Cols(<<C("", "dept"), Pay("sum"), [Pay("sum") EXCEPT !.distinct = TRUE]>>))
        EXCEPT !.where = B(C("", "pay"), "isnot", V(Null))],
    [From1(<<Count, Pay("min")>>) EXCEPT !.where = B(C("", "pay"), ">", I(100))],
    [ByDept(<<Col(C("", "dept"), ""), Col(Count, "n")>>) EXCEPT !.having = B(Count, ">", I(1))],
    Nest([ByDept(<<Col(C("", "dept"), ""), Col(Count, "n")>>) EXCEPT !.having = B(C("", "n"), ">", I(1))]),
    [Sel(Cols(<<C("d", "name"), F("count", <<C("e", "id")>>)>>), <<T("dept", "d")>>)
        EXCEPT !.joins = <<Join(T("emp", "e"), "left", OnDept)>>, !.group = <<C("d", "name")>>] >>

Depts == Sel(Cols(<<C("", "id")>>), <<T("dept", "")>>)
Bosses == From1(<<C("", "boss")>>)
Ids == From1(<<C("", "id")>>)
Sets == <<
    Set("union", FALSE, Ids, Bosses), Set("union", FALSE, Bosses, Ids), Set("union", TRUE, Bosses, Depts),
    Set("intersect", FALSE, Bosses, Ids), Set("intersect", TRUE, From1(<<C("", "dept")>>), Depts),
    Set("except", FALSE, Bosses, Depts), Set("except", TRUE, From1(<<C("", "dept")>>), Depts),
    [From1(<<C("", "dept"), C("", "pay")>>) EXCEPT !.distinct = TRUE] >>

NoFrameClause == [mode |-> "none", start |-> <<"none", 0>>, end |-> <<"none", 0>>]
W(f, args, part, order) == [op |-> "win", wf |-> [f |-> f, args |-> args, part |-> part, order |-> order, frame |-> NoFrameClause]]
ById == <<Asc(C("", "id"))>>
Windows == <<
    From1(<<C("", "id"), C("", "dept"), C("", "pay"), W("rank", <<>>, <<C("", "dept")>>, <<Asc(C("", "pay"))>>),
            W("count", <<C("", "pay")>>, <<C("", "dept")>>, <<>>)>>),
    From1(<<C("", "id"), C("", "pay"), W("sum", <<C("", "id")>>, <<>>, ById), W("lag", <<C("", "pay")>>, <<>>, ById),
            W("lead", <<C("", "id")>>, <<>>, <<Desc(C("", "id"))>>)>>),
    From1(<<C("", "id"), C("", "pay"), [W("max", <<C("", "pay")>>, <<>>, ById) EXCEPT !.wf.frame =
            [mode |-> "rows", start |-> <<"preceding", 1>>, end |-> <<"current", 0>>]],
            B(W("dense_rank", <<>>, <<>>, ById), "*", W("row_number", <<>>, <<>>, ById))>>),
    [Sel(<<Col(All, ""), Col(W("row_number", <<>>, <<C("", "dept")>>, ById), "r")>>, <<T("emp", "")>>)
        EXCEPT !.where = B(C("", "id"), ">", I(1))],
    From1(<<C("", "id"), C("", "dept"), W("count", <<All>>, <<C("", "dept")>>, <<>>), W("count", <<All>>, <<>>, <<>>)>>) >>

With(recursive, members, main) == [op |-> "with", recursive |-> recursive, ctes |-> members, main |-> main]
Named(name, x) == [name |-> name, q |-> x]
Rich == [From1(<<C("", "id"), C("", "dept")>>) EXCEPT !.where = B(C("", "pay"), ">", I(3))]
RichDept == [Sel(Cols(<<C("a", "id"), C("d", "name")>>), <<T("a", "")>>)
                EXCEPT !.joins = <<Join(T("dept", "d"), "inner", B(C("a", "dept"), "=", C("d", "id")))>>]
Below1(all, root) ==
    Set("union", all, [From1(<<C("", "id"), C("", "boss")>>) EXCEPT !.where = root],
        [Sel(Cols(<<C("e", "id"), C("e", "boss")>>), <<T("emp", "e")>>)
            EXCEPT !.joins = <<Join(T("t", ""), "inner", B(C("e", "boss"), "=", C("t", "id")))>>])
IdOf(t) == Sel(Cols(<<C("", "id")>>), <<T(t, "")>>)
Ctes == <<
    With(FALSE, <<Named("a", Rich), Named("b", RichDept)>>, Sel(Star1, <<T("b", "")>>)),
    With(TRUE, <<Named("t", Below1(TRUE, B(C("", "boss"), "is", V(Null))))>>, IdOf("t")),
    With(TRUE, <<Named("t", Below1(FALSE, B(C("", "id"), "=", I(1)))), Named("a", Rich),
                 Named("u", Set("union", FALSE, IdOf("t"), IdOf("a")))>>,
         Set("except", TRUE, IdOf("u"), Ids)) >>

Orders == <<
    [From1(<<C("", "id"), C("", "pay")>>) EXCEPT !.order = <<Desc(C("", "pay")), Asc(C("", "id"))>>, !.limit = 2, !.offset = 1],
    [From1(<<C("", "id"), C("", "dept")>>) EXCEPT !.order = <<[Asc(C("", "dept")) EXCEPT !.nulls = "last"]>>, !.limit = 3],
    [From1(<<C("", "dept"), C("", "boss")>>) EXCEPT !.order = <<Asc(C("", "boss")), Desc(C("", "dept"))>>],
    [From1(<<C("", "id"), C("", "boss")>>)
        EXCEPT !.order = <<[Asc(C("", "boss")) EXCEPT !.nulls = "first"], Desc(C("", "id"))>>, !.offset = 1, !.limit = 5],
    [From1(<<C("", "id"), C("", "pay")>>) EXCEPT !.order = <<[Desc(C("", "pay")) EXCEPT !.nulls = "last"]>>] >>

Classed(class, xs) == [i \in DOMAIN xs |-> Run(class, xs[i])]
MCQueries ==
    Classed("select", Selects) \o Classed("group", Groups) \o Classed("set", Sets) \o Classed("window", Windows)
      \o Classed("cte", Ctes) \o Classed("order", Orders)
      \o << RunPlan("select", PhysicalJoin("hashjoin", "dept", "id"), IdJoin),
            RunPlan("select", PhysicalJoin("hashjoin", "emp", "boss"), BossJoin),
            RunPlan("select", PhysicalJoin("mergejoin", "dept", "id"), IdJoin),
            RunPlan("select", PhysicalJoin("mergejoin", "emp", "boss"), BossJoin),
            \* refused or cut short: only that they return is claimed
            Run("other", Set("union", FALSE, Ids, Rich)),
            Run("other", With(FALSE, <<Named("a", Rich)>>, Set("union", TRUE, IdOf("a"), Ids))),
            Run("other", With(TRUE, <<Named("t", Below1(TRUE, B(C("", "id"), "=", I(1))))>>, IdOf("t"))) >>
=============================================================================
