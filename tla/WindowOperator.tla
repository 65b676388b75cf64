--------------------------- MODULE WindowOperator ---------------------------
(* WindowOperator of src/src/executor/operators.rs.  A window function wf     *)
(* has its name f, its arguments, its PARTITION BY and ORDER BY and a frame   *)
(* [mode, start, end] whose bounds are pairs <<kind, n>>.                     *)
EXTENDS QueryOperators

ContextOf(cols, row) == Context(MapOf(cols, row), NoMap)
SortFor(wf, cols, rows) ==
    StableSort(rows, LAMBDA a, b : CompareBy(wf.order, LAMBDA row : ContextOf(cols, row[2]), a, b))

(* calculate_frame_boundaries for row i of n, counted from 1. *)
NoFrame == [ok |-> FALSE, lo |-> 0, hi |-> 0]
Back(i, k) == IF i > k THEN i - k ELSE 1
FrameBounds(wf, n, i) ==
    LET s == wf.frame.start
        e == wf.frame.end
        lo == CASE s[1] = "current" -> i [] s[1] = "unboundedpreceding" -> 1
                [] s[1] = "preceding" -> Back(i, s[2])
        hi == CASE e[1] \in {"current", "none"} -> i [] e[1] = "unboundedfollowing" -> n
                [] e[1] = "preceding" -> Back(i, e[2])
                [] e[1] = "following" -> Lesser(i + e[2], n)
    IN  CASE wf.frame.mode = "none" -> [ok |-> TRUE, lo |-> 1, hi |-> IF wf.order = <<>> THEN n ELSE i]
          [] \/ wf.frame.mode = "range"
             \/ s[1] \in {"following", "unboundedfollowing"}
             \/ e[1] = "unboundedpreceding" -> NoFrame
          [] OTHER -> [ok |-> TRUE, lo |-> lo, hi |-> hi]

OrderValues(wf, cols, row) == Each(wf.order, LAMBDA o : Evaluate(o.e, ContextOf(cols, row)))
SameOrderValues(a, b) == \A k \in DOMAIN a : CompareValues(a[k], b[k], "default") = 0

(* RANK and DENSE_RANK keep the current rank and the values it was given for; *)
(* s is the state before row i, whose values are vals.                        *)
RankDense(f, s, i, vals) ==
    IF s.rank > 0 /\ SameOrderValues(vals, s.prev) THEN s ELSE [prev |-> vals, rank |-> s.rank + 1]
RankStep(f, s, i, vals) ==
    IF s.rank > 0 /\ SameOrderValues(vals, s.prev) THEN s
    ELSE [prev |-> vals, rank |-> IF s.rank = 0 THEN 1 ELSE IF f = "rank" THEN i ELSE s.rank + 1]
Rank(wf, cols, sorted, i) ==
    FoldLeft(LAMBDA s, k : RankStep(wf.f, s, k, OrderValues(wf, cols, sorted[k])), [rank |-> 0, prev |-> <<>>],
             [k \in 1..i |-> k]).rank

(* The offset of LAG and LEAD; 0 stands for an offset that is refused. *)
AsOffset(v) == IF Kind(v) = "int" /\ v[2] > 0 THEN v[2] ELSE 0
Offset(wf, ctx) ==
    IF Len(wf.args) \notin {1, 2} THEN 0
    ELSE IF Len(wf.args) = 1 THEN 1
    ELSE AsOffset(Evaluate(wf.args[2], ctx))

(* The argument on every row of a frame. *)
FrameValues(wf, cols, rows) ==
    Each(rows, LAMBDA row : IF wf.args = <<>> \/ wf.args[1].op = "star" THEN Integer(1)
                            ELSE Evaluate(wf.args[1], ContextOf(cols, row)))
FoldFrame(f, vals) ==
    IF Failed(vals) THEN Err ELSE AggregateResult(FoldLeft(UpdateAggregate, NewAggregate(f, FALSE), vals))
FrameAggregate(wf, cols, sorted, b) ==
    IF ~b.ok THEN Err ELSE FoldFrame(wf.f, FrameValues(wf, cols, SubSeq(sorted, b.lo, b.hi)))

(* LAG fails where its argument fails on the current row. *)
Shifted(f, i, off, arg(_)) ==
    CASE off = 0 -> Err
      [] f = "lag" -> Strict(arg(i), LAMBDA v : arg(i - off))
      [] OTHER -> arg(i + off)

(* evaluate_window_function_with_order for row i of the sorted partition. *)
WindowValue(wf, cols, sorted, i) ==
    CASE wf.f = "row_number" -> Integer(i)
      [] wf.f \in {"rank", "dense_rank"} -> Integer(Rank(wf, cols, sorted, i))
      [] wf.f \in {"lag", "lead"} ->
            Shifted(wf.f, i, Offset(wf, ContextOf(cols, sorted[i])), LAMBDA k :
                    IF k \in DOMAIN sorted THEN Evaluate(wf.args[1], ContextOf(cols, sorted[k])) ELSE Null)
      [] wf.f \in AggregateNames -> FrameAggregate(wf, cols, sorted, FrameBounds(wf, Len(sorted), i))
      [] OTHER -> Null

(* One partition: every function sorts it by its own ORDER BY and its values  *)
(* go back to the rows' original places.                                      *)
Tagged(rows) == [i \in DOMAIN rows |-> <<i, rows[i]>>]
Untagged(t) == Each(t, LAMBDA x : x[2])
PlaceOf(t, i) == CHOOSE p \in DOMAIN t : t[p][1] = i
WindowColumn(wf, cols, t) == [i \in DOMAIN t |-> WindowValue(wf, cols, Untagged(t), PlaceOf(t, i))]
AppendColumns(rows, vals) == [i \in DOMAIN rows |-> rows[i] \o [f \in DOMAIN vals |-> vals[f][i]]]
ApplyTo(wfs, cols, rows) ==
    AppendColumns(rows, Each(wfs, LAMBDA wf : WindowColumn(wf, cols, SortFor(wf, cols, Tagged(rows)))))

PartitionKey(part, cols, row) == Each(part, LAMBDA e : Evaluate(e, ContextOf(cols, row)))
PartitionKeys(in, wfs) == {PartitionKey(wfs[1].part, in.cols, in.rows[i]) : i \in DOMAIN in.rows}

(* PlanNode::Window and WindowOperator::execute: the rows are sorted by the   *)
(* ORDER BY and split by the PARTITION BY of the FIRST function; order is the *)
(* order in which the HashMap of partitions is walked.                        *)
WindowResult(cols, rows) == IF \E i \in DOMAIN rows : Failed(rows[i]) THEN Failure ELSE Result(cols, rows)
Window(in, wfs, names, order) ==
    LET sorted == Untagged(SortFor(wfs[1], in.cols, Tagged(in.rows)))
        part(key) == SelectSeq(sorted, LAMBDA row : PartitionKey(wfs[1].part, in.cols, row) = key)
    IN  WindowResult(in.cols \o Each(names, LAMBDA name : <<"", name>>),
                     FlattenSeq(Each(order, LAMBDA key : ApplyTo(wfs, in.cols, part(key)))))
=============================================================================
