--------------------------- MODULE QueryOperators ---------------------------
(* The physical operators of src/src/executor/operators.rs as functions from *)
(* query results to query results.  A result holds its column names, its     *)
(* rows and whether the operator succeeded (ok).  The operators that iterate *)
(* over a HashMap take the order in which it yields its entries.             *)
EXTENDS Expression

Result(cols, rows) == [ok |-> TRUE, cols |-> cols, rows |-> rows]
Failure == [ok |-> FALSE, cols |-> <<>>, rows |-> <<>>]

(* slice::sort_by, a stable sort; Cmp is negative, zero or positive. *)
StableSort(s, Cmp(_, _)) ==
    LET before(j, i) == Cmp(s[j], s[i]) < 0 \/ (Cmp(s[j], s[i]) = 0 /\ j < i)
        rank(i) == Cardinality({j \in DOMAIN s : j # i /\ before(j, i)}) + 1
        at == [p \in DOMAIN s |-> CHOOSE i \in DOMAIN s : rank(i) = p]
    IN  [p \in DOMAIN s |-> s[at[p]]]

(* compare_values with the position of NULLs. *)
CompareValues(a, b, nulls) ==
    CASE IsNull(a) /\ IsNull(b) -> 0
      [] IsNull(a) -> IF nulls = "last" THEN 1 ELSE -1
      [] IsNull(b) -> IF nulls = "last" THEN -1 ELSE 1
      [] OTHER -> CompareKinded(a, b)

(* The comparison of two rows by an ORDER BY list of [e, desc, nulls]: the    *)
(* first key that tells them apart decides; an error makes them equal.        *)
FirstApart(cs) ==
    LET apart == {k \in DOMAIN cs : cs[k] # 0}
    IN  IF apart = {} THEN 0 ELSE cs[CHOOSE k \in apart : \A m \in apart : k <= m]
KeyOrder(x, y, o) ==
    IF x = Err \/ y = Err THEN 0 ELSE (IF o.desc THEN -1 ELSE 1) * CompareValues(x, y, o.nulls)
CompareBy(order, ctx(_), a, b) ==
    FirstApart(Each(order, LAMBDA o : KeyOrder(Evaluate(o.e, ctx(a)), Evaluate(o.e, ctx(b)), o)))

RowContext(res, row, db) == Context(MapOf(res.cols, row), db)

-----------------------------------------------------------------------------
(* Scans *)

ScanTable(db, t) == IF t \in DOMAIN db THEN Result(db[t].cols, db[t].rows) ELSE Failure

ColumnAt(cols, k) == CHOOSE i \in DOMAIN cols : cols[i] = k /\ \A j \in 1 .. i - 1 : cols[j] # k
HasColumn(cols, k) == \E i \in DOMAIN cols : cols[i] = k

(* IndexScanOperator and IndexOnlyScanOperator with a scanner: a full scan    *)
(* cut down to the requested columns; without one, no rows.                   *)
IndexScan(db, t, wanted, scanner) ==
    IF ~scanner THEN Result(wanted, <<>>)
    ELSE LET all  == db[t].cols
             out  == IF wanted = <<>> THEN all ELSE wanted
             kept == SelectSeq(out, LAMBDA k : HasColumn(all, k))
         IN  Result(out, [i \in DOMAIN db[t].rows |->
                            [p \in DOMAIN kept |-> db[t].rows[i][ColumnAt(all, kept[p])]]])

-----------------------------------------------------------------------------
(* Filter and projection.  alias is what extract_table_alias finds in the    *)
(* input's plan, outer the values of the enclosing query's row.              *)

Filter(in, cond, alias, outer, db) ==
    [in EXCEPT !.rows = SelectSeq(@, LAMBDA row :
        Passes(Evaluate(cond, Context(RowMap(in.cols, row, alias, outer), db))))]

Project(in, columns, alias, outer, db) ==
    Result(Each(columns, LAMBDA c : <<"", c[1]>>),
           Each(in.rows, LAMBDA row :
                Each(columns, LAMBDA c : OrNull(Evaluate(c[2], Context(RowMap(in.cols, row, alias, outer), db))))))

-----------------------------------------------------------------------------
(* Nested-loop joins *)

SideName(alias, default) == IF alias = "" THEN default ELSE alias
QualifyAgain(cols, name) == [i \in DOMAIN cols |-> <<name, cols[i][2]>>]
QualifySide(cols, name) == [i \in DOMAIN cols |-> IF cols[i][1] # "" THEN cols[i] ELSE <<name, cols[i][2]>>]

(* evaluate_join_condition of JoinOperator: both sides under qualified names, *)
(* the left side under bare names too; no catalog, so a subquery fails.       *)
NestedCondition(cond, l, r, la, ra, lrow, rrow) ==
    LET cols == MapOf(QualifySide(r.cols, SideName(ra, "right")), rrow)
                    @@ MapOf(QualifySide(l.cols, SideName(la, "left")), lrow)
                    @@ MapOf(l.cols, lrow)
        ctx  == [Context(cols, NoMap) EXCEPT !.left = [cols |-> l.cols, row |-> lrow],
                                             !.right = [cols |-> r.cols, row |-> rrow]]
    IN  IF cond.op = "none" THEN Bool(TRUE) ELSE Evaluate(cond, ctx)

(* Hash and merge join: one map of both rows, the right one's names on top. *)
FlatCondition(cond, l, r, lrow, rrow) ==
    IF cond.op = "none" THEN Bool(TRUE)
    ELSE Evaluate(cond, Context(MapOf(l.cols \o r.cols, lrow \o rrow), NoMap))

(* A condition that is not a boolean does not match. *)
Matches(v) == v = Bool(TRUE)

Nulls(cols) == [i \in DOMAIN cols |-> Null]
Pairs(s, t) == FlattenSeq([i \in DOMAIN s |-> [j \in DOMAIN t |-> <<i, j>>]])

(* m[i][j] is the condition's value on rows i and j. *)
JoinByMatches(l, r, m, la, ra, type) ==
    LET \* a semi or anti join stops at the first match, an outer join tries every pair
        tried(i, j) == CASE type \in {"leftsemi", "leftanti"} -> ~\E k \in 1 .. j - 1 : Matches(m[i][k])
                         [] type \in {"rightsemi", "rightanti"} -> ~\E k \in 1 .. i - 1 : Matches(m[k][j])
                         [] OTHER -> TRUE
        fails == \E i \in DOMAIN l.rows, j \in DOMAIN r.rows : m[i][j] = Err /\ tried(i, j)
        lmatched(i) == \E j \in DOMAIN r.rows : Matches(m[i][j])
        rmatched(j) == \E i \in DOMAIN l.rows : Matches(m[i][j])
        pairs == SelectSeq(Pairs(l.rows, r.rows), LAMBDA p : Matches(m[p[1]][p[2]]))
        inner == [p \in DOMAIN pairs |-> l.rows[pairs[p][1]] \o r.rows[pairs[p][2]]]
        pick(s, Test(_)) == LET at == SelectSeq([i \in DOMAIN s |-> i], Test)
                            IN  [p \in DOMAIN at |-> s[at[p]]]
        lonely == LET at == pick(l.rows, LAMBDA i : ~lmatched(i))
                  IN  [p \in DOMAIN at |-> at[p] \o Nulls(r.cols)]
        ronely == LET at == pick(r.rows, LAMBDA j : ~rmatched(j))
                  IN  [p \in DOMAIN at |-> Nulls(l.cols) \o at[p]]
        cols == QualifySide(l.cols, SideName(la, "left")) \o QualifySide(r.cols, SideName(ra, "right"))
    IN  IF fails THEN Failure
        ELSE CASE type \in {"inner", "cross"} -> Result(cols, inner)
               [] type = "left" -> Result(cols, inner \o lonely)
               [] type = "right" -> Result(cols, inner \o ronely)
               [] type = "full" -> Result(cols, inner \o lonely \o ronely)
               [] type = "leftsemi" -> Result(l.cols, pick(l.rows, lmatched))
               [] type = "rightsemi" -> Result(r.cols, pick(r.rows, rmatched))
               [] type = "leftanti" -> Result(l.cols, pick(l.rows, LAMBDA i : ~lmatched(i)))
               [] type = "rightanti" -> Result(r.cols, pick(r.rows, LAMBDA j : ~rmatched(j)))

JoinRows(l, r, cond, la, ra, type) ==
    JoinByMatches(l, r, Each(l.rows, LAMBDA x : Each(r.rows, LAMBDA y : NestedCondition(cond, l, r, la, ra, x, y))),
                  la, ra, type)

(* The pairs of rows a hash or a merge join tries, in order: the first error  *)
(* ends the join, a match adds both rows.                                     *)
JoinTried(l, r, tried, vals) ==
    LET hits == SelectSeq([p \in DOMAIN tried |-> p], LAMBDA p : Matches(vals[p]))
    IN  IF Failed(vals) THEN Failure
        ELSE Result(l.cols \o r.cols, Each(hits, LAMBDA p : l.rows[tried[p][1]] \o r.rows[tried[p][2]]))
JoinPairs(l, r, cond, tried) ==
    JoinTried(l, r, tried, Each(tried, LAMBDA p : FlatCondition(cond, l, r, l.rows[p[1]], r.rows[p[2]])))

(* HashJoinOperator: the join type is not looked at.  The key is the Debug    *)
(* text of the key columns present, which tells kinds apart.                  *)
HashKey(keys, cols, row) ==
    LET found == SelectSeq(keys, LAMBDA k : HasColumn(cols, k))
    IN  [p \in DOMAIN found |-> row[ColumnAt(cols, found[p])]]

HashJoin(l, r, cond, keys) ==
    JoinPairs(l, r, cond, SelectSeq(Pairs(l.rows, r.rows), LAMBDA p :
        HashKey(keys, l.cols, l.rows[p[1]]) = HashKey(keys, r.cols, r.rows[p[2]])))

(* MergeJoinOperator *)
MergeCompare(keys, lcols, rcols, a, b) ==
    LET both == SelectSeq(keys, LAMBDA k : HasColumn(lcols, k) /\ HasColumn(rcols, k))
    IN  FirstApart(Each(both, LAMBDA k :
            CompareValues(a[ColumnAt(lcols, k)], b[ColumnAt(rcols, k)], "default")))

SortInput(keys, in) == StableSort(in.rows, LAMBDA a, b : MergeCompare(keys, in.cols, in.cols, a, b))

(* The pairs tried from row i of the left and j of the right on: when the keys *)
(* agree, the current pair on its own and then every pair of the two groups.   *)
RECURSIVE MergePairs(_, _, _, _, _)
MergePairs(l, r, keys, i, j) ==
    LET cmp == MergeCompare(keys, l.cols, r.cols, l.rows[i], r.rows[j])
        endOf(in, from) == CHOOSE e \in from + 1 .. Len(in.rows) + 1 :
            LET same(x) == MergeCompare(keys, in.cols, in.cols, in.rows[x], in.rows[from]) = 0
            IN  (\A x \in from .. e - 1 : same(x)) /\ (e = Len(in.rows) + 1 \/ ~same(e))
        group == FlattenSeq([x \in 1 .. endOf(l, i) - i |->
                                [y \in 1 .. endOf(r, j) - j |-> <<i + x - 1, j + y - 1>>]])
    IN  IF i > Len(l.rows) \/ j > Len(r.rows) THEN <<>>
        ELSE IF cmp < 0 THEN MergePairs(l, r, keys, i + 1, j)
        ELSE IF cmp > 0 THEN MergePairs(l, r, keys, i, j + 1)
        ELSE <<<<i, j>>>> \o group \o MergePairs(l, r, keys, endOf(l, i), endOf(r, j))

MergeSorted(l, r, cond, keys) == JoinPairs(l, r, cond, MergePairs(l, r, keys, 1, 1))
MergeJoin(left, right, cond, keys) ==
    MergeSorted([left EXCEPT !.rows = SortInput(keys, left)], [right EXCEPT !.rows = SortInput(keys, right)], cond, keys)

-----------------------------------------------------------------------------
(* Aggregation.  aggs is a sequence of <<alias, expression>>; order is the    *)
(* order in which the HashMap of groups is walked.                            *)

NewState(e) == IF e.op = "fn" /\ e.f \in AggregateNames THEN NewAggregate(e.f, e.distinct)
               ELSE NewAggregate("count", FALSE)

CountAll(e, ctx) ==                    \* COUNT(x) counts the rows where x is NULL too
    CASE e.op = "fn" /\ e.f = "count" -> Integer(1)
      [] e.op = "fn" /\ e.args # <<>> -> OrNull(Evaluate(e.args[1], ctx))
      [] OTHER -> Null
(* The value a row adds to an aggregate; an error adds NULL. *)
AggregateInput(e, ctx) ==
    CASE e.op = "fn" /\ e.f = "count" /\ Len(e.args) = 1 /\ e.args[1].op = "star" -> Integer(1)
      [] e.op = "fn" /\ e.args = <<>> -> Null
      [] OTHER -> OrNull(Evaluate(IF e.op = "fn" THEN e.args[1] ELSE e, ctx))

(* A grouping expression that fails forms a group of its own, shown as NULL. *)
GroupKey(in, groupBy, row) == Each(groupBy, LAMBDA e : Evaluate(e, RowContext(in, row, NoMap)))
GroupKeys(in, groupBy) == {GroupKey(in, groupBy, in.rows[i]) : i \in DOMAIN in.rows}

GroupRow(in, groupBy, aggs, key) ==
    LET members == SelectSeq(in.rows, LAMBDA row : GroupKey(in, groupBy, row) = key)
        fold(e) == FoldLeft(LAMBDA s, row : UpdateAggregate(s, AggregateInput(e, RowContext(in, row, NoMap))),
                            NewState(e), members)
    IN  Each(key, OrNull)
            \o [p \in DOMAIN aggs |-> AggregateResult(fold(aggs[p][2]))]

(* HAVING sees the grouping columns, the aliases and the aggregate calls; an  *)
(* error keeps the group.                                                     *)
HavingKeeps(having, groupBy, aggs, row) ==
    LET n == Len(groupBy)
        plain == SelectSeq([p \in 1..n |-> p], LAMBDA p : groupBy[p].op = "col")
        names == [p \in DOMAIN plain |-> <<"", groupBy[plain[p]].key[2]>>] \o [p \in DOMAIN aggs |-> <<"", aggs[p][1]>>]
        vals  == [p \in DOMAIN plain |-> row[plain[p]]] \o SubSeq(row, n + 1, Len(row))
        calls == SelectSeq([p \in DOMAIN aggs |-> p], LAMBDA p : aggs[p][2].op = "fn")
        ctx == [Context(MapOf(names, vals), NoMap) EXCEPT
                    !.aggs = MapOf(Each(calls, LAMBDA p : AggregateKey(aggs[p][2])), Each(calls, LAMBDA p : row[n + p]))]
    IN  having.op = "none" \/ Evaluate(having, ctx) \notin {Null, Bool(FALSE)}

Aggregate(in, groupBy, aggs, having, order) ==
    LET aggCols == [p \in DOMAIN aggs |-> <<"", aggs[p][1]>>]
        groupCols == [p \in DOMAIN groupBy |->
                        <<"", IF groupBy[p].op = "col" THEN groupBy[p].key[2] ELSE "group_expr">>]
        rows == [g \in DOMAIN order |-> GroupRow(in, groupBy, aggs, order[g])]
    IN  IF in.rows = <<>>
        THEN Result(aggCols, IF groupBy # <<>> THEN <<>>
                             ELSE <<[p \in DOMAIN aggs |-> AggregateResult(NewState(aggs[p][2]))]>>)
        ELSE Result(groupCols \o aggCols, SelectSeq(rows, LAMBDA row : HavingKeeps(having, groupBy, aggs, row)))

-----------------------------------------------------------------------------
(* Set operations.  Two rows are the same when their values are of the same   *)
(* kind and equal; timestamps and lists are never equal.                      *)

SameValue(a, b) == a = b /\ Kind(a) \notin {"ts", "list"}
SameRow(a, b) == Len(a) = Len(b) /\ \A i \in DOMAIN a : SameValue(a[i], b[i])
ContainsRow(rows, row) == \E i \in DOMAIN rows : SameRow(rows[i], row)
CountRow(rows, row) == Cardinality({i \in DOMAIN rows : SameRow(rows[i], row)})
AddNew(rows, row) == IF ContainsRow(rows, row) THEN rows ELSE Append(rows, row)

Union(l, r, all) == IF all THEN l \o r ELSE FoldLeft(AddNew, l, r)

Lesser(a, b) == IF a < b THEN a ELSE b
Intersect(l, r, all) ==
    LET again(acc, row) == SelectSeq(acc, LAMBDA x : ~SameRow(x, row))
                            \o [k \in 1 .. Lesser(CountRow(l, row), CountRow(r, row)) |-> row]
        once(acc, row) == IF ContainsRow(r, row) THEN AddNew(acc, row) ELSE acc
    IN  FoldLeft(LAMBDA acc, row : IF all THEN again(acc, row) ELSE once(acc, row), <<>>, l)

ExceptOnce(l, r, all) == SelectSeq(l, LAMBDA row : ~ContainsRow(r, row))
Except(l, r, all) ==
    LET rest(row) == CountRow(l, row) - CountRow(r, row)
        some(acc, row) == IF CountRow(acc, row) < rest(row) THEN Append(acc, row) ELSE acc
        once(acc, row) == IF ContainsRow(r, row) THEN acc ELSE AddNew(acc, row)
    IN  FoldLeft(LAMBDA acc, row : IF all THEN some(acc, row) ELSE once(acc, row), <<>>, l)

SetOperation(op, all, l, r) ==
    IF Len(l.cols) # Len(r.cols) THEN Failure
    ELSE Result(l.cols, CASE op = "union" -> Union(l.rows, r.rows, all)
                          [] op = "intersect" -> Intersect(l.rows, r.rows, all)
                          [] OTHER -> Except(l.rows, r.rows, all))

-----------------------------------------------------------------------------
(* Sort, limit and distinct *)

Sort(in, order) ==
    [in EXCEPT !.rows = StableSort(@, LAMBDA a, b : CompareBy(order, LAMBDA row : RowContext(in, row, NoMap), a, b))]

LimitFirst(in, limit, offset) ==       \* LIMIT rows counted from the start, not from OFFSET
    [in EXCEPT !.rows = SubSeq(@, 1 + (IF offset < 0 THEN 0 ELSE offset), Lesser(limit, Len(@)))]
Limit(in, limit, offset) ==
    LET from == IF offset < 0 THEN 0 ELSE offset
        to == IF limit < 0 THEN Len(in.rows) ELSE Lesser(from + limit, Len(in.rows))
    IN  [in EXCEPT !.rows = SubSeq(@, from + 1, to)]

Distinct(in) == [in EXCEPT !.rows = FoldLeft(LAMBDA acc, row : IF Contains(acc, row) THEN acc ELSE Append(acc, row), <<>>, @)]
=============================================================================
