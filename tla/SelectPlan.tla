----------------------------- MODULE SelectPlan -----------------------------
(* Planning a SELECT: OptimizedQueryPlanner::plan_select                     *)
(* (src/src/optimizer/query_optimizer.rs), which the engine tries first, and *)
(* QueryPlanner::plan_select (src/src/executor/planner.rs), which plans what *)
(* the first refuses, every CTE, derived table and view.                     *)
(*                                                                           *)
(* A query is a record: op = "select" with from, joins, where, columns,      *)
(* group, having, order, limit, offset and distinct (limit or offset -1 for  *)
(* none), or a set operation with all, l and r.  A table reference is        *)
(* [table, alias, q] with the table "" for a derived table q.                *)
(* A plan is a tree of records tagged by "n".                                *)
EXTENDS WindowOperator

CONSTANTS Views,           \* the query of every view, by name
          Indexes          \* for every table, the column sets of its indexes

None == [op |-> "none"]
Column(name) == [op |-> "col", key |-> <<"", name>>]
CountStar == [op |-> "fn", f |-> "count", args |-> <<[op |-> "star"]>>, distinct |-> FALSE]
Numbered(prefix, i) == prefix \o ToString(i - 1)

NoPlan == [n |-> "none"]

-----------------------------------------------------------------------------
(* The parts of an expression, and the same expression over other parts. *)

Parts(e) ==
    CASE e.op = "bin" -> <<e.l, e.r>>
      [] e.op \in {"un", "cast"} -> <<e.e>>
      [] e.op = "fn" -> e.args
      [] e.op = "list" -> e.es
      [] e.op = "case" -> <<e.base>> \o FlattenSeq(e.branches) \o <<e.else>>
      [] OTHER -> <<>>

WithParts(e, ps) ==
    CASE e.op = "bin" -> [e EXCEPT !.l = ps[1], !.r = ps[2]]
      [] e.op \in {"un", "cast"} -> [e EXCEPT !.e = ps[1]]
      [] e.op = "fn" -> [e EXCEPT !.args = ps]
      [] e.op = "list" -> [e EXCEPT !.es = ps]
      [] e.op = "case" -> [e EXCEPT !.base = ps[1], !.else = ps[Len(ps)],
                                    !.branches = [b \in DOMAIN @ |-> <<ps[2 * b], ps[2 * b + 1]>>]]
      [] OTHER -> e

-----------------------------------------------------------------------------
(* Aggregates *)

IsAggregate(e) == e.op = "fn" /\ e.f \in AggregateNames

RECURSIVE ContainsAggregate(_)
ContainsAggregate(e) ==
    \/ IsAggregate(e)
    \/ e.op \in {"fn", "bin"} /\ \E i \in DOMAIN Parts(e) : ContainsAggregate(Parts(e)[i])

HasAggregation(q) == q.group # <<>> \/ \E i \in DOMAIN q.columns : ContainsAggregate(q.columns[i].e)

(* expressions_equal: columns by their bare name, functions by name and arity. *)
ExpressionsEqual(a, b) ==
    /\ a.op = b.op
    /\ CASE a.op = "col" -> a.key[2] = b.key[2]
         [] a.op = "lit" -> Kind(a.v) = Kind(b.v) /\ a.v = b.v
         [] a.op = "fn" -> a.f = b.f /\ Len(a.args) = Len(b.args)
         [] OTHER -> FALSE

Star(e) == e.op = "star"
SelectStar(q) == Len(q.columns) = 1 /\ Star(q.columns[1].e)

AggregateAlias(q, i) ==
    LET c == q.columns[i]
    IN  IF c.alias # "" THEN c.alias ELSE Numbered(IF Star(c.e) THEN "count_star_" ELSE c.e.f \o "_", i)

(* plan_aggregation and plan_aggregation_optimized: the columns of the select *)
(* list that are no aggregates are added to GROUP BY.                         *)
PlanAggregation(input, q, optimized) ==
    LET is == [i \in DOMAIN q.columns |-> i]
        plain == SelectSeq(is, LAMBDA i : /\ ~IsAggregate(q.columns[i].e)
                                          /\ ~Star(q.columns[i].e)
                                          /\ ~\E g \in DOMAIN q.group : ExpressionsEqual(q.group[g], q.columns[i].e))
        calls == SelectSeq(is, LAMBDA i : IsAggregate(q.columns[i].e) \/ (Star(q.columns[i].e) /\ q.group # <<>>))
        named == [p \in DOMAIN calls |-> <<AggregateAlias(q, calls[p]),
                    IF Star(q.columns[calls[p]].e) THEN CountStar ELSE q.columns[calls[p]].e>>]
        extra == IF SelectStar(q) /\ (optimized \/ q.group = <<>>) THEN <<<<"count", CountStar>>>> ELSE <<>>
    IN  [n |-> "aggregate", input |-> input, aggs |-> named \o extra, having |-> q.having,
         group |-> q.group \o [p \in DOMAIN plain |-> q.columns[plain[p]].e]]

-----------------------------------------------------------------------------
(* Projection and window functions *)

ColumnName(q, i) ==
    LET c == q.columns[i]
    IN  CASE c.alias # "" -> c.alias
          [] c.e.op = "col" -> c.e.key[2]
          [] c.e.op = "star" -> "*"
          [] OTHER -> Numbered(IF c.e.op = "sub" THEN "subquery" ELSE "col", i)

(* An aggregate of the select list is read from the aggregation's output. *)
Projections(q) ==
    [i \in DOMAIN q.columns |->
        LET e == q.columns[i].e
        IN  <<ColumnName(q, i),
              IF HasAggregation(q) /\ (IsAggregate(e) \/ (Star(e) /\ q.group # <<>>))
              THEN Column(AggregateAlias(q, i)) ELSE e>>]

(* The optimized planner does not look for window functions inside a list and *)
(* does not extract them from CASE.                                           *)
RECURSIVE ContainsWindow(_, _)
ContainsWindow(e, optimized) ==
    \/ e.op = "win"
    \/ ~(optimized /\ e.op = "list") /\ \E i \in DOMAIN Parts(e) : ContainsWindow(Parts(e)[i], optimized)

(* extract_window_functions_from_expression, numbering from k on. *)
AddPart(acc, x) == [fs |-> acc.fs \o x.fs, ps |-> Append(acc.ps, x.e)]
Rebuilt(e, acc) == [fs |-> acc.fs, e |-> WithParts(e, acc.ps)]
RECURSIVE ExtractWindows(_, _, _)
ExtractWindows(e, k, optimized) ==
    IF e.op = "win" THEN [fs |-> <<<<Numbered("win_func_", k + 1), e.wf>>>>, e |-> Column(Numbered("win_func_", k + 1))]
    ELSE IF Parts(e) = <<>> \/ (optimized /\ e.op \in {"list", "case"}) THEN [fs |-> <<>>, e |-> e]
    ELSE Rebuilt(e, FoldLeft(LAMBDA acc, part : AddPart(acc, ExtractWindows(part, k + Len(acc.fs), optimized)),
                             [fs |-> <<>>, ps |-> <<>>], Parts(e)))

(* get_columns_from_from_clause, for * beside window functions. *)
FromColumns(q, db) ==
    FlattenSeq([i \in DOMAIN q.from |->
        IF q.from[i].table \in DOMAIN db THEN [c \in DOMAIN db[q.from[i].table].cols |-> db[q.from[i].table].cols[c][2]]
        ELSE <<>>])

(* Projections that pass columns through. *)
Pass(names) == Each(names, LAMBDA name : <<name, Column(name)>>)

(* extract_and_replace_window_functions.  Functions that are a column of their *)
(* own take the column's name; the base planner counts them too.               *)
AddComputed(acc, name, x) ==
    [acc EXCEPT !.fs = @ \o x.fs, !.k = @ + Len(x.fs), !.computed = Append(@, <<name, x.e>>),
                !.hidden = @ \cup {x.fs[i][1] : i \in DOMAIN x.fs}]
SplitWindows(ps, stars, optimized) ==
    LET step(acc, p) ==
            CASE p[2].op = "win" -> [acc EXCEPT !.fs = Append(@, <<p[1], p[2].wf>>),
                                                !.k = IF optimized THEN @ ELSE @ + 1]
              [] ContainsWindow(p[2], optimized) -> AddComputed(acc, p[1], ExtractWindows(p[2], acc.k, optimized))
              [] Star(p[2]) -> [acc EXCEPT !.base = @ \o Pass(stars)]
              [] OTHER -> [acc EXCEPT !.base = Append(@, p)]
    IN  FoldLeft(step, [base |-> <<>>, fs |-> <<>>, computed |-> <<>>, hidden |-> {}, k |-> 0], ps)

Names(ps) == Each(ps, LAMBDA p : p[1])
ProjectNode(input, columns) == [n |-> "project", input |-> input, columns |-> columns]

WindowNode(input, fs) ==
    IF fs = <<>> THEN input
    ELSE [n |-> "window", input |-> input, wfs |-> Each(fs, LAMBDA f : f[2]), names |-> Names(fs)]
PlanWindows(input, s, optimized) ==
    LET shown == SelectSeq(s.fs, LAMBDA f : ~optimized \/ f[1] \notin s.hidden)
    IN  ProjectNode(WindowNode(IF s.base = <<>> THEN input ELSE ProjectNode(input, s.base), s.fs),
                    Pass(Names(s.base) \o Names(shown)) \o s.computed)

PlanColumns(input, ps, stars, optimized) ==
    IF \E i \in DOMAIN ps : ContainsWindow(ps[i][2], optimized)
    THEN PlanWindows(input, SplitWindows(ps, stars, optimized), optimized)
    ELSE ProjectNode(input, ps)
PlanProjection(input, q, stars, optimized) ==
    IF SelectStar(q) THEN input ELSE PlanColumns(input, Projections(q), stars, optimized)

(* ORDER BY, LIMIT and DISTINCT, in this order; OFFSET counts only with LIMIT. *)
PlanSort(input, order) == IF order = <<>> THEN input ELSE [n |-> "sort", input |-> input, order |-> order]
PlanLimit(input, q) ==
    IF q.limit < 0 THEN input ELSE [n |-> "limit", input |-> input, limit |-> q.limit, offset |-> q.offset]
PlanDistinct(input, q) == IF q.distinct THEN [n |-> "distinct", input |-> input] ELSE input
PlanTail(input, q) == PlanDistinct(PlanLimit(PlanSort(input, q.order), q), q)

JoinNode(l, r, type, cond, la, ra) ==
    [n |-> "join", l |-> l, r |-> r, type |-> type, cond |-> cond, la |-> la, ra |-> ra]
FilterNode(input, cond) == [n |-> "filter", input |-> input, cond |-> cond]
ScanNode(table, alias) == [n |-> "scan", table |-> table, alias |-> alias]
PlanFilter(input, cond) == IF cond.op = "none" THEN input ELSE FilterNode(input, cond)
PlanGroups(input, q, optimized) == IF HasAggregation(q) THEN PlanAggregation(input, q, optimized) ELSE input

-----------------------------------------------------------------------------
(* The base planner.  db holds the tables and the materialized CTEs, whose    *)
(* names are in ctes.                                                         *)

(* extract_alias_from_plan, and extract_table_alias of the operators. *)
RECURSIVE AliasOf(_), RowAlias(_)
AliasOf(p) ==
    CASE p.n = "scan" -> p.alias
      [] p.n = "ctescan" -> IF p.alias = "" THEN p.table ELSE p.alias
      [] p.n = "join" -> p.la
      [] p.n \in {"filter", "aggregate", "sort", "limit", "project"} -> AliasOf(p.input)
      [] OTHER -> ""
RowAlias(p) ==
    CASE p.n = "scan" -> p.alias
      [] p.n = "ctescan" -> IF p.alias = "" THEN p.table ELSE p.alias
      [] p.n \in {"filter", "aggregate", "sort", "limit", "project", "distinct", "window"} -> RowAlias(p.input)
      [] OTHER -> ""

RECURSIVE PlanSelect(_, _, _)
(* plan_table_ref and plan_table_scan: a CTE, then a view, then a table.  The *)
(* plan of a derived table is made when it is executed, with the same planner. *)
PlanTableRef(ref, db, ctes) ==
    CASE ref.table = "" -> [n |-> "subquery", input |-> PlanSelect(ref.q, db, ctes)]
      [] ref.table \in ctes -> [n |-> "ctescan", table |-> ref.table, alias |-> ref.alias]
      [] ref.table \in DOMAIN Views -> PlanSelect(Views[ref.table], db, ctes)
      [] OTHER -> ScanNode(ref.table, ref.alias)

PlanFrom(q, db, ctes) ==
    FoldLeft(LAMBDA p, ref : JoinNode(p, PlanTableRef(ref, db, ctes), "inner", None, AliasOf(p), ref.alias),
             PlanTableRef(q.from[1], db, ctes), Tail(q.from))

PlanSelect(q, db, ctes) ==
    IF q.op # "select"
    THEN [n |-> "setop", op |-> q.op, all |-> q.all, l |-> PlanSelect(q.l, db, ctes), r |-> PlanSelect(q.r, db, ctes)]
    ELSE LET joined == FoldLeft(LAMBDA p, j : JoinNode(p, PlanTableRef(j.ref, db, ctes), j.type, j.cond, AliasOf(p), j.ref.alias),
                                PlanFrom(q, db, ctes), q.joins)
             grouped == PlanGroups(PlanFilter(joined, q.where), q, FALSE)
         IN  PlanTail(PlanFilter(PlanProjection(grouped, q, FromColumns(q, db), FALSE), q.having), q)

-----------------------------------------------------------------------------
(* The optimized planner: aliases are dropped but for the right side of JOIN. *)

Comparisons == {"=", "<>", "<", "<=", ">", ">=", "like", "in"}

RECURSIVE Conjuncts(_)
Conjuncts(e) == IF e.op = "bin" /\ e.b = "and" THEN Conjuncts(e.l) \o Conjuncts(e.r) ELSE <<e>>

(* extract_conditions_recursive: the table of a comparison of a column with a *)
(* constant; "" leaves the condition among the remaining ones.                *)
ConditionTable(c) ==
    IF ~(c.op = "bin" /\ c.b \in Comparisons) THEN ""
    ELSE CASE c.l.op = "col" /\ c.r.op = "lit" -> c.l.key[1]
           [] c.l.op = "lit" /\ c.r.op = "col" -> c.r.key[1]
           [] OTHER -> ""

(* IndexSelector: some index has a column that some condition compares. *)
IndexUsable(table, conds) ==
    /\ table \in DOMAIN Indexes
    /\ \E x \in DOMAIN Indexes[table], i \in DOMAIN conds :
            conds[i].l.op = "col" /\ conds[i].r.op = "lit" /\ conds[i].l.key[2] \in Indexes[table][x]

RECURSIVE RequiredOf(_)
RequiredOf(e) == IF e.op = "col" THEN <<<<"", e.key[2]>>>>
                 ELSE IF e.op \in {"cast", "case"} THEN <<>>
                 ELSE FlattenSeq([i \in DOMAIN Parts(e) |-> RequiredOf(Parts(e)[i])])
RequiredColumns(q) ==
    IF SelectStar(q) THEN <<>>
    ELSE FoldLeft(LAMBDA acc, k : IF Contains(acc, k) THEN acc ELSE Append(acc, k), <<>>,
                  FlattenSeq([i \in DOMAIN q.columns |-> RequiredOf(q.columns[i].e)]))

(* optimize_filter_clause: an index scan keeps only the remaining conditions. *)
Conjunction(cs) ==
    IF cs = <<>> THEN None
    ELSE FoldLeft(LAMBDA l, r : [op |-> "bin", b |-> "and", l |-> l, r |-> r], cs[1], Tail(cs))
OptimizeFilter(input, q) ==
    LET among(table) == SelectSeq(Conjuncts(q.where), LAMBDA c : ConditionTable(c) = table)
    IN  IF input.n = "scan" /\ input.table # "" /\ IndexUsable(input.table, among(input.table))
        THEN PlanFilter([n |-> "indexscan", table |-> input.table, columns |-> RequiredColumns(q)],
                        Conjunction(among("")))
        ELSE PlanFilter(input, q.where)

(* What the optimized planner refuses. *)
Refused(q) ==
    \/ q.op # "select"
    \/ \E i \in DOMAIN q.from : q.from[i].table = ""
    \/ \E i \in DOMAIN q.joins : q.joins[i].ref.table = ""
    \/ /\ \E i \in DOMAIN q.columns : ContainsWindow(q.columns[i].e, TRUE)
       /\ \E i \in DOMAIN q.columns : Star(Projections(q)[i][2])

OptimizedFrom(q) ==
    FoldLeft(LAMBDA p, ref : JoinNode(p, ScanNode(ref.table, ""), "inner", None, "", ""),
             ScanNode(q.from[1].table, ""), Tail(q.from))

PlanOptimized(q) ==
    LET joined == FoldLeft(LAMBDA p, j : JoinNode(p, ScanNode(j.ref.table, ""), j.type, j.cond, "", j.ref.alias),
                           OptimizedFrom(q), q.joins)
    IN  PlanTail(PlanProjection(PlanGroups(OptimizeFilter(joined, q), q, TRUE), q, <<>>, TRUE), q)

(* execute_select *)
EnginePlan(q, db) == IF Refused(q) THEN PlanSelect(q, db, {}) ELSE PlanOptimized(q)
=============================================================================
