---------------------------- MODULE SqlReference ----------------------------
(* What a query should return, written over sets instead of from the code:   *)
(* the reference that QueryExecution's answers are compared with.  A relation *)
(* is [heads, tuples]: heads is a sequence of <<scope, column>> and a tuple   *)
(* is <<id, row>>, with ids that keep equal rows apart.                        *)
EXTENDS QueryExecution

Rows(r) == {t[2] : t \in r.tuples}
CountIn(r, row) == Cardinality({t \in r.tuples : t[2] = row})

At(heads, k) == CHOOSE i \in DOMAIN heads : heads[i][2] = k[2] /\ (k[1] \in {"", heads[i][1]})
Known(heads, k) == \E i \in DOMAIN heads : heads[i][2] = k[2] /\ (k[1] \in {"", heads[i][1]})

-----------------------------------------------------------------------------
(* Values under Kleene's logic.  at = [heads, row] is the innermost row, its  *)
(* own columns first and those of the enclosing query after them.             *)

Degree(v) == IF IsNull(v) THEN 1 ELSE IF Truth(v) = "true" THEN 2 ELSE 0
OfDegree(n) == IF n = 1 THEN Null ELSE Bool(n = 2)
Least(S) == CHOOSE x \in S : \A y \in S : x <= y
Greatest(S) == CHOOSE x \in S : \A y \in S : y <= x

Equal3(l, r) == IF IsNull(l) \/ IsNull(r) THEN Null ELSE Bool(Equal(l, r))
Compare3(op, l, r) ==
    CASE IsNull(l) \/ IsNull(r) -> Null
      [] op = "=" -> Equal3(l, r)
      [] op = "<>" -> Bool(~Equal(l, r))
      [] op \in {"<", ">"} -> IF op = "<" THEN LessThan(l, r) ELSE LessThan(r, l)
      [] op = "<=" -> Bool(LessThan(r, l) = Bool(FALSE))
      [] op = ">=" -> Bool(LessThan(l, r) = Bool(FALSE))
      [] OTHER -> BinaryOperation(op, l, r)

RECURSIVE Val(_, _, _), Select(_, _, _)
Holds(e, at, env) == e.op = "none" \/ Degree(Val(e, at, env)) = 2

Val(e, at, env) ==
    LET v(x) == Val(x, at, env)
        col(sq) == Select(sq, at, env)
        first(r) == LET s == {t[2][1] : t \in r.tuples} IN IF s = {} THEN Null ELSE CHOOSE x \in s : TRUE
    IN  CASE e.op = "lit" -> e.v
          [] e.op = "col" -> at.row[At(at.heads, e.key)]
          [] e.op = "bin" /\ e.b = "and" -> OfDegree(Least({Degree(v(e.l)), Degree(v(e.r))}))
          [] e.op = "bin" /\ e.b = "or" -> OfDegree(Greatest({Degree(v(e.l)), Degree(v(e.r))}))
          [] e.op = "bin" /\ e.b = "in" ->
                LET xs == IF e.r.op = "sub" THEN {t[2][1] : t \in col(e.r.q).tuples}
                          ELSE {v(e.r.es[i]) : i \in DOMAIN e.r.es}
                IN  OfDegree(Greatest({0} \cup {Degree(Equal3(v(e.l), x)) : x \in xs}))
          [] e.op = "bin" /\ e.b \in {"is", "isnot"} -> Bool((IsNull(v(e.l)) = IsNull(v(e.r))) = (e.b = "is"))
          [] e.op = "bin" -> Compare3(e.b, v(e.l), v(e.r))
          [] e.op = "un" /\ e.u = "not" -> OfDegree(2 - Degree(v(e.e)))
          [] e.op = "un" -> UnaryOperation(e.u, v(e.e))
          [] e.op = "cast" -> Cast(v(e.e), e.type)
          [] e.op = "sub" -> first(col(e.q))
          [] e.op = "exists" -> Bool((col(e.q).tuples # {}) # e.negated)
          [] e.op = "case" -> IF Degree(v(e.branches[1][1])) = 2 THEN v(e.branches[1][2]) ELSE v(e.else)
          [] e.op = "fn" /\ e.f = "coalesce" -> IF IsNull(v(e.args[1])) THEN v(e.args[2]) ELSE v(e.args[1])
          [] e.op = "fn" /\ e.f = "nullif" ->
                IF Degree(Equal3(v(e.args[1]), v(e.args[2]))) = 2 THEN Null ELSE v(e.args[1])
          [] e.op = "fn" /\ IsNull(v(e.args[1])) -> Null
          [] e.op = "fn" /\ e.f = "abs" -> Integer(Greatest({v(e.args[1])[2], -v(e.args[1])[2]}))
          [] e.op = "fn" /\ e.f = "length" -> Integer(Cardinality(DOMAIN v(e.args[1])[2]))

-----------------------------------------------------------------------------
(* FROM and the joins *)

Scope(ref) == IF ref.alias # "" THEN ref.alias ELSE ref.table
Renamed(r, scope) == [r EXCEPT !.heads = [i \in DOMAIN @ |-> <<scope, @[i][2]>>]]
Source(ref, at, env) ==
    Renamed(IF ref.table = "" THEN Select(ref.q, at, env)
            ELSE IF ref.table \in DOMAIN Views THEN Select(Views[ref.table], at, env)
            ELSE env[ref.table], Scope(ref))

Beside(l, r, at, ltup, rtup) ==
    [heads |-> l.heads \o r.heads \o at.heads, row |-> ltup[2] \o rtup[2] \o at.row]
JoinFitting(l, r, type, fits) ==       \* fits is the set of the pairs the condition holds for
    LET both == {<<p[1][1] \o p[2][1], p[1][2] \o p[2][2]>> : p \in fits}
        loneL == l.tuples \ {p[1] : p \in fits}
        loneR == r.tuples \ {p[2] : p \in fits}
        nulls(h) == [i \in DOMAIN h |-> Null]
        padL == {<<x[1] \o <<0>>, x[2] \o nulls(r.heads)>> : x \in loneL}
        padR == {<<<<0>> \o y[1], nulls(l.heads) \o y[2]>> : y \in loneR}
    IN  CASE type = "leftsemi" -> [l EXCEPT !.tuples = @ \ loneL]
          [] type = "leftanti" -> [l EXCEPT !.tuples = loneL]
          [] type = "rightsemi" -> [r EXCEPT !.tuples = @ \ loneR]
          [] type = "rightanti" -> [r EXCEPT !.tuples = loneR]
          [] OTHER -> [heads |-> l.heads \o r.heads,
                       tuples |-> both \cup (IF type \in {"left", "full"} THEN padL ELSE {})
                                       \cup (IF type \in {"right", "full"} THEN padR ELSE {})]
JoinTables(l, r, type, cond, at, env) ==
    JoinFitting(l, r, type, {p \in l.tuples \X r.tuples : Holds(cond, Beside(l, r, at, p[1], p[2]), env)})

-----------------------------------------------------------------------------
(* Aggregates and window functions over a set S of tuples; val(e, t) is the   *)
(* value of the expression e on the tuple t.                                  *)

SumOf(S, F(_)) == FoldFunction(LAMBDA x, y : x + y, 0, [s \in S |-> F(s)])
Aggregated(e, S, val(_, _)) ==
    LET arg == [t \in S |-> IF e.args = <<>> \/ e.args[1].op = "star" THEN Integer(1) ELSE val(e.args[1], t)]
        full == {t \in S : ~IsNull(arg[t])}
        vals == {arg[t] : t \in full}
        total == IF e.distinct THEN SumOf(vals, Sixths) ELSE SumOf(full, LAMBDA t : Sixths(arg[t]))
        n == IF e.distinct THEN Cardinality(vals) ELSE Cardinality(full)
        below(x, y) == LessThan(x, y) = Bool(TRUE)
    IN  CASE e.f = "count" -> Integer(n)
          [] n = 0 -> Null
          [] e.f = "sum" -> WholeOrFloat(total)
          [] e.f = "avg" -> WholeOrFloat(total \div n)
          [] e.f = "min" -> CHOOSE x \in vals : ~\E y \in vals : below(y, x)
          [] e.f = "max" -> CHOOSE x \in vals : ~\E y \in vals : below(x, y)

(* ORDER BY o = [e, desc, nulls]: NULLS FIRST and NULLS LAST place the NULLs,  *)
(* whatever the direction of the values.  Without either SQL leaves open       *)
(* whether NULL is below or above every value, and here it is below.           *)
NullsFirst(o) == o.nulls = "first" \/ (o.nulls = "default" /\ ~o.desc)
Sooner(o, x, y) ==
    CASE IsNull(x) # IsNull(y) -> NullsFirst(o) = IsNull(x)
      [] IsNull(x) -> FALSE
      [] OTHER -> (IF o.desc THEN LessThan(y, x) ELSE LessThan(x, y)) = Bool(TRUE)

(* x comes before y, which are the values of the ORDER BY list on two rows.    *)
Ahead(order, x, y) ==
    \E k \in DOMAIN order : (\A m \in 1 .. k - 1 : x[m] = y[m]) /\ Sooner(order[k], x[k], y[k])
Windowed(wf, S, t, val(_, _)) ==
    LET part(x) == [i \in DOMAIN wf.part |-> val(wf.part[i], x)]
        same == {x \in S : part(x) = part(t)}
        key == [x \in same |-> [i \in DOMAIN wf.order |-> val(wf.order[i].e, x)]]
        before(y) == {x \in same : Ahead(wf.order, key[x], key[y])}
        rank(y) == Cardinality(before(y)) + 1
        from == IF wf.frame.mode = "rows" /\ wf.frame.start[1] = "preceding" THEN rank(t) - wf.frame.start[2] ELSE 0
        frame == IF wf.order = <<>> THEN same ELSE {x \in before(t) \cup {t} : rank(x) >= from}
        at2(k) == {x \in same : rank(x) = k}
        step == IF wf.f = "lag" THEN rank(t) - 1 ELSE rank(t) + 1
    IN  CASE wf.f \in {"row_number", "rank"} -> Integer(rank(t))
          [] wf.f = "dense_rank" -> Integer(Cardinality({key[x] : x \in before(t)}) + 1)
          [] wf.f \in {"lag", "lead"} ->
                IF at2(step) = {} THEN Null ELSE val(wf.args[1], CHOOSE x \in at2(step) : TRUE)
          [] OTHER -> Aggregated([f |-> wf.f, args |-> wf.args, distinct |-> FALSE], frame, val)

-----------------------------------------------------------------------------
(* SELECT without ORDER BY and LIMIT, the set operations and WITH *)

Grouped(x, r, val(_, _), env) ==
    LET key(t) == [i \in DOMAIN x.group |-> val(x.group[i], t)]
        keys == IF x.group = <<>> THEN {<<>>} ELSE {key(t) : t \in r.tuples}
        cell(e, S) == IF IsAggregate(e) THEN Aggregated(e, S, val) ELSE val(e, CHOOSE t \in S : TRUE)
        members(k) == {t \in r.tuples : key(t) = k}
        row(k) == [i \in DOMAIN x.columns |-> cell(x.columns[i].e, members(k))]
        \* HAVING: aggregates are computed, aliases are columns of the row
        inside(e, k) == IF IsAggregate(e) THEN [op |-> "lit", v |-> cell(e, members(k))] ELSE e
        heads == [i \in DOMAIN x.columns |-> <<"", ColumnName(x, i)>>]
        kept(k) == \/ x.having.op = "none"
                   \/ Holds([x.having EXCEPT !.l = inside(@, k), !.r = inside(@, k)],
                            [heads |-> heads, row |-> row(k)], env)
    IN  [heads |-> heads, tuples |-> {<<k, row(k)>> : k \in {k \in keys : kept(k)}}]

Plain(x, r, val(_, _)) ==
    LET \* a select column of a tuple, with window functions anywhere inside
        RECURSIVE shown(_, _)
        shown(e, t) ==
            IF e.op = "win" THEN Windowed(e.wf, r.tuples, t, val)
            ELSE val(IF ContainsWindow(e, FALSE)
                     THEN WithParts(e, Each(Parts(e), LAMBDA p : [op |-> "lit", v |-> shown(p, t)])) ELSE e, t)
        cells(t) == FlattenSeq(Each(x.columns, LAMBDA c : IF Star(c.e) THEN t[2] ELSE <<shown(c.e, t)>>))
        heads == FlattenSeq([i \in DOMAIN x.columns |->
                        IF Star(x.columns[i].e) THEN r.heads ELSE <<<<"", ColumnName(x, i)>>>>])
    IN  [heads |-> heads, tuples |-> {<<t[1], cells(t)>> : t \in r.tuples}]

Once(r) == [r EXCEPT !.tuples = {<<row, row>> : row \in Rows(r)}]
SetOp(op, all, l, r) ==
    LET rows == Rows(l) \cup Rows(r)
        times(row) == CASE op = "union" -> CountIn(l, row) + CountIn(r, row)
                        [] op = "intersect" -> Least({CountIn(l, row), CountIn(r, row)})
                        [] OTHER -> Greatest({0, CountIn(l, row) - CountIn(r, row)})
        once(row) == CASE op = "union" -> 1
                       [] op = "intersect" -> IF row \in Rows(l) /\ row \in Rows(r) THEN 1 ELSE 0
                       [] OTHER -> IF row \in Rows(r) THEN 0 ELSE 1
    IN  [heads |-> l.heads,
         tuples |-> UNION {{<<<<i, row>>, row>> : i \in 1 .. (IF all THEN times(row) ELSE once(row))} : row \in rows}]

SelectFrom(x, r, val(_, _), env) ==
    LET kept == [r EXCEPT !.tuples = {t \in @ : x.where.op = "none" \/ Degree(val(x.where, t)) = 2}]
        shown == IF HasAggregation(x) THEN Grouped(x, kept, val, env) ELSE Plain(x, kept, val)
    IN  IF x.distinct THEN Once(shown) ELSE shown
SelectOver(x, r, at, env) ==
    SelectFrom(x, r, LAMBDA e, t : Val(e, [heads |-> r.heads \o at.heads, row |-> t[2] \o at.row], env), env)

(* FROM and the joins as one list of joins, over the relation of one empty row. *)
Unit == [heads |-> <<>>, tuples |-> {<<<<>>, <<>>>>}]
JoinList(x) == Each(x.from, LAMBDA ref : [ref |-> ref, type |-> "inner", cond |-> None]) \o x.joins

(* A subquery inside an expression is [table, alias, where, sel]. *)
AsSelect(sq) ==
    [op |-> "select", from |-> <<[table |-> sq.table, alias |-> sq.alias]>>, joins |-> <<>>, where |-> sq.where,
     columns |-> <<[e |-> sq.sel, alias |-> ""]>>, group |-> <<>>, having |-> None, distinct |-> FALSE]

Select(x, at, env) ==
    IF "sel" \in DOMAIN x THEN Select(AsSelect(x), at, env)
    ELSE IF x.op # "select" THEN SetOp(x.op, x.all, Select(x.l, at, env), Select(x.r, at, env))
    ELSE SelectOver(x, FoldLeft(LAMBDA l, j : JoinTables(l, Source(j.ref, at, env), j.type, j.cond, at, env),
                                Unit, JoinList(x)), at, env)

NoRow == [heads |-> <<>>, row |-> <<>>]

(* The tuples of a table, and the relation of every WITH member: a recursive  *)
(* one is the least fixed point of its two halves.                            *)
OfTable(t) == [heads |-> t.cols, tuples |-> {<<<<i>>, t.rows[i]>> : i \in DOMAIN t.rows}]
Bind(env, name, r) == [t \in DOMAIN env \cup {name} |-> IF t = name THEN r ELSE env[t]]

(* UNION closes the set of rows; UNION ALL collects the derivations, level by *)
(* level, which ends on data without cycles.                                  *)
Member(env, c, recursive, sel(_, _)) ==
    LET next(r) == [sel(c.q.r, Bind(env, c.name, r)) EXCEPT !.heads = r.heads]
        RECURSIVE closure(_), levels(_)
        closure(r) == LET all == SetOp("union", FALSE, r, next(r))
                      IN  IF Rows(all) = Rows(r) THEN r ELSE closure(all)
        levels(r) == IF r.tuples = {} THEN r ELSE SetOp("union", TRUE, r, levels(next(r)))
    IN  IF ~(recursive /\ c.q.op = "union") THEN sel(c.q, env)
        ELSE IF c.q.all THEN levels(sel(c.q.l, env)) ELSE closure(Once(sel(c.q.l, env)))

AnswerOver(x, env, sel(_, _)) ==
    IF x.op # "with" THEN sel(x, env)
    ELSE sel(x.main, FoldLeft(LAMBDA acc, c : Bind(acc, c.name, Member(acc, c, x.recursive, sel)), env, x.ctes))
Answer(x, db) ==
    AnswerOver(x, [t \in DOMAIN db |-> OfTable(db[t])], LAMBDA y, env : Select(y, NoRow, env))

-----------------------------------------------------------------------------
(* Properties *)

(* The rows and the relation hold every row equally often. *)
SameBag(rows, r) ==
    /\ Len(rows) = Cardinality(r.tuples)
    /\ \A row \in Rows(r) : Cardinality({i \in DOMAIN rows : rows[i] = row}) = CountIn(r, row)

Returns(class) == phase = "done" /\ q.class = class
Exact == out.ok /\ SameBag(out.rows, Answer(q.sql, d))
SameRows == out.ok /\ {out.rows[i] : i \in DOMAIN out.rows} = Rows(Answer(q.sql, d))

(* The conditions under which the code keeps to SQL.  Outside them it does     *)
(* not: MCQueries has a query for each, and a property stated without its      *)
(* condition is violated by that query.                                        *)
(*   - a merge join returns the first pair of each group of equal keys twice   *)
(*     (operators.rs:1757, against the comment at 1776);                       *)
(*   - without aliases a qualified column is taken from the left table of a    *)
(*     join (expression.rs:473, against README.md:25);                         *)
(*   - UNION keeps what repeats on its left (operators.rs:2547, against 2553); *)
(*   - DESC turns NULLS FIRST and NULLS LAST round (operators.rs:4319, against *)
(*     README.md:91);                                                          *)
(*   - every window function is computed over the partitions of the first one  *)
(*     (planner.rs:357, against README.md:55).                                 *)
IsMergeJoin == q.op = "plan" /\ q.plan.n = "mergejoin"
Aliased(x) == Len(JoinList(x)) > 1 => \A i \in DOMAIN JoinList(x) : JoinList(x)[i].ref.alias # ""
RowsDistinct(r) == Cardinality(r.tuples) = Cardinality(Rows(r))
UnionOf(x) == x.op = "union" /\ ~x.all
NullsAsDirected(order) == \A k \in DOMAIN order : order[k].desc => order[k].nulls = "default"
RECURSIVE PartitionsIn(_)
PartitionsIn(e) == IF e.op = "win" THEN {e.wf.part} ELSE UNION {PartitionsIn(Parts(e)[i]) : i \in DOMAIN Parts(e)}
OnePartition(x) == Cardinality(UNION {PartitionsIn(x.columns[i].e) : i \in DOMAIN x.columns}) <= 1

(* A SELECT over nested-loop joins of every type, derived tables, views and    *)
(* subqueries, or over a hash join whose key may be NULL, returns the rows SQL *)
(* defines, as often: neither the names columns get in a join nor the planner  *)
(* that is chosen changes them.  Stated of joins whose tables all have an      *)
(* alias; a merge join returns these rows, how often is left open.             *)
SelectExact ==
    Returns("select") /\ Aliased(q.sql) =>
        IF IsMergeJoin THEN SameRows ELSE Exact

(* GROUP BY, the aggregates and HAVING give one row for every group, with the *)
(* aggregates of exactly its rows, in whatever order the groups are walked.   *)
(* SUM is run over values that are not NULL.                                  *)
GroupsExact == Returns("group") => Exact

(* UNION ALL, DISTINCT, and INTERSECT and EXCEPT with and without ALL return   *)
(* every row as often as SQL does, whatever repeats on either side; so does    *)
(* UNION when nothing repeats on its left, and otherwise how often is left     *)
(* open: no row is missing and none is there that should not be.               *)
SetsExact ==
    Returns("set") =>
        IF UnionOf(q.sql) /\ ~RowsDistinct(Answer(q.sql.l, d)) THEN SameRows ELSE Exact

(* Window functions are computed over the rows of their partition, in its     *)
(* order, and each value lands on the row it belongs to; for a SELECT whose   *)
(* window functions have one PARTITION BY, their ORDER BYs may differ.        *)
WindowsExact == Returns("window") /\ OnePartition(q.sql) => Exact

(* Common table expressions: a member sees the ones before it, and a          *)
(* recursive one reaches its least fixed point from the rows of the last      *)
(* round alone.                                                               *)
CtesExact == Returns("cte") => Exact

(* ORDER BY with LIMIT and OFFSET: the rows come in order, and the row at a    *)
(* place has at most that many rows before it and at least that many up to it. *)
(* Stated without NULLS FIRST or LAST after DESC.                              *)
TopOf(x, r, rows) ==
    LET off == Greatest({0, x.offset})
        all == Cardinality(r.tuples)
        key(row) == [k \in DOMAIN x.order |-> row[At(r.heads, x.order[k].e.key)]]
        before(row) == Cardinality({t \in r.tuples : Ahead(x.order, key(t[2]), key(row))})
        upto(row) == Cardinality({t \in r.tuples : ~Ahead(x.order, key(row), key(t[2]))})
    IN  /\ Len(rows) = IF x.limit < 0 THEN all ELSE Least({x.limit, Greatest({0, all - off})})
        /\ \A i \in DOMAIN rows :
              /\ Cardinality({j \in DOMAIN rows : rows[j] = rows[i]}) <= CountIn(r, rows[i])
              /\ before(rows[i]) < off + i
              /\ off + i <= upto(rows[i])
TopExact == out.ok /\ TopOf(q.sql, Answer(q.sql, d), out.rows)
TopRows == Returns("order") /\ NullsAsDirected(q.sql.order) => TopExact

(* Every query returns, a recursive CTE over cyclic data included. *)
QueryReturns == <>(phase = "done")
=============================================================================
