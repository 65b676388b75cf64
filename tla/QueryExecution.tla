--------------------------- MODULE QueryExecution ---------------------------
(* Executing a query: Executor::execute_select of src/src/executor/engine.rs, *)
(* PlanNode::execute of src/src/executor/planner.rs and the CTE operator of    *)
(* src/src/executor/operators.rs.  A plan runs as its nodes in the order in    *)
(* which their execute calls return, over a stack of results; the order in     *)
(* which a HashMap yields groups, partitions or CTEs is chosen freely.         *)
(*                                                                             *)
(* Besides SELECTs a query is [op |-> "with", recursive, ctes, main], with     *)
(* ctes a sequence of [name, q], or [op |-> "plan", plan], a plan that is      *)
(* handed to PlanNode::execute as it is.                                       *)
EXTENDS SelectPlan

CONSTANTS Queries,         \* a sequence of queries
          Databases,       \* a sequence of databases: [table |-> [cols, rows]]
          MaxIterations    \* of a recursive CTE; 1000 in the code

VARIABLES q,               \* the query
          d,               \* the tables of the database
          phase,           \* "plan", "next", "run" or "done"
          job,             \* what the running code is for: "main", "cte", "anchor", "recursive"
          todo,            \* the names of the CTEs to materialize, in order
          ctes,            \* the materialized CTEs
          code,            \* the plan nodes still to execute
          stack,           \* the results not consumed yet
          loop,            \* [work, all, iter] of a recursive CTE
          out              \* the result of the query

vars == <<q, d, phase, job, todo, ctes, code, stack, loop, out>>

NoLoop == [work |-> <<>>, all |-> <<>>, iter |-> 0, cols |-> <<>>]

(* The tables a scan or a subquery can name. *)
Tables == [t \in DOMAIN ctes |-> [cols |-> ctes[t].cols, rows |-> ctes[t].rows]] @@ d

-----------------------------------------------------------------------------
(* The nodes of a plan in the order of their completion. *)
RECURSIVE Code(_)
Code(p) ==
    CASE p.n \in {"scan", "indexscan", "ctescan"} -> <<p>>
      [] p.n = "subquery" -> Code(p.input)
      [] p.n \in {"join", "hashjoin", "mergejoin", "setop"} ->
            Code(p.l) \o Code(p.r) \o <<[p EXCEPT !.l = 0, !.r = 0]>>
      [] p.n \in {"filter", "project"} -> Code(p.input) \o <<[node |-> [p EXCEPT !.input = 0], n |-> p.n, alias |-> RowAlias(p.input)]>>
      [] OTHER -> Code(p.input) \o <<[p EXCEPT !.input = 0]>>

QueryInit ==
    /\ q \in Range(Queries)
    /\ d \in Range(Databases)
    /\ phase = "plan"
    /\ job = "main"
    /\ todo = <<>>
    /\ ctes = NoMap
    /\ code = <<>>
    /\ stack = <<>>
    /\ loop = NoLoop
    /\ out = Result(<<>>, <<>>)

StartPlan ==
    /\ phase = "plan"
    /\ q.op # "with"
    /\ code' = Code(IF q.op = "plan" THEN q.plan ELSE EnginePlan(q, Tables))
    /\ phase' = "run"
    /\ UNCHANGED <<q, d, job, todo, ctes, stack, loop, out>>

-----------------------------------------------------------------------------
(* One node *)

Fetch(n) == phase = "run" /\ code # <<>> /\ Head(code).n = n
Top == stack[Len(stack)]
Below == stack[Len(stack) - 1]

(* Replace the k topmost results; an error ends the query. *)
Return(k, res) ==
    /\ IF res.ok
       THEN /\ stack' = Append(SubSeq(stack, 1, Len(stack) - k), res)
            /\ code' = Tail(code)
            /\ UNCHANGED <<phase, out>>
       ELSE /\ stack' = <<>>
            /\ code' = <<>>
            /\ phase' = "done"
            /\ out' = Failure
    /\ UNCHANGED <<q, d, job, todo, ctes, loop>>

ExecScan      == Fetch("scan") /\ Return(0, ScanTable(d, Head(code).table))
ExecIndexScan == Fetch("indexscan") /\ Return(0, IndexScan(d, Head(code).table, Head(code).columns, FALSE))
ExecCteScan   == Fetch("ctescan") /\ Return(0, ctes[Head(code).table])
ExecFilter    == Fetch("filter") /\ Return(1, Filter(Top, Head(code).node.cond, Head(code).alias, NoMap, Tables))
ExecProject   == Fetch("project") /\ Return(1, Project(Top, Head(code).node.columns, Head(code).alias, NoMap, Tables))
ExecJoin      == /\ Fetch("join")
                 /\ LET j == Head(code) IN Return(2, JoinRows(Below, Top, j.cond, j.la, j.ra, j.type))
ExecHashJoin  == /\ Fetch("hashjoin")
                 /\ LET j == Head(code) IN Return(2, HashJoin(Below, Top, j.cond, j.keys))
ExecMergeJoin == /\ Fetch("mergejoin")
                 /\ LET j == Head(code) IN Return(2, MergeJoin(Below, Top, j.cond, j.keys))
ExecAggregate ==
    /\ Fetch("aggregate")
    /\ LET a == Head(code)
       IN  \E order \in SetToSeqs(GroupKeys(Top, a.group)) :
              Return(1, Aggregate(Top, a.group, a.aggs, a.having, order))
ExecWindow ==
    /\ Fetch("window")
    /\ LET w == Head(code)
       IN  \E order \in SetToSeqs(PartitionKeys(Top, w.wfs)) : Return(1, Window(Top, w.wfs, w.names, order))
ExecSetOp     == Fetch("setop") /\ Return(2, SetOperation(Head(code).op, Head(code).all, Below, Top))
ExecSort      == Fetch("sort") /\ Return(1, Sort(Top, Head(code).order))
ExecLimit     == Fetch("limit") /\ Return(1, Limit(Top, Head(code).limit, Head(code).offset))
ExecDistinct  == Fetch("distinct") /\ Return(1, Distinct(Top))

-----------------------------------------------------------------------------
(* Common table expressions *)

Cte(name) == q.ctes[CHOOSE i \in DOMAIN q.ctes : q.ctes[i].name = name].q
CteNames == {q.ctes[i].name : i \in DOMAIN q.ctes}

(* is_recursive_cte: a member of WITH RECURSIVE that is a UNION. *)
IsRecursive(name) == q.recursive /\ Cte(name).op = "union"

(* extract_query_dependencies: the references to CTEs written further up. *)
RECURSIVE TablesOf(_)
TablesOf(x) ==
    IF x.op # "select" THEN TablesOf(x.l) \cup TablesOf(x.r)
    ELSE LET refs == x.from \o [i \in DOMAIN x.joins |-> x.joins[i].ref]
         IN  UNION {IF refs[i].table = "" THEN TablesOf(refs[i].q) ELSE {refs[i].table} : i \in DOMAIN refs}
Position(name) == CHOOSE i \in DOMAIN q.ctes : q.ctes[i].name = name
Dependencies(name) == {c \in CteNames \cap TablesOf(Cte(name)) : Position(c) < Position(name)}

(* build_execution_order: the plain members in any order, then the recursive  *)
(* ones in rounds, each round in any order, once what they name is processed. *)
RECURSIVE Rounds(_, _)
Rounds(processed, remaining) ==
    LET ready == {c \in remaining : Dependencies(c) \subseteq processed}
    IN  IF remaining = {} THEN {<<>>}
        ELSE {s \o t : s \in SetToSeqs(ready), t \in Rounds(processed \cup ready, remaining \ ready)}
ExecutionOrders ==
    LET plain == {c \in CteNames : ~IsRecursive(c)}
    IN  IF ~q.recursive THEN {[i \in DOMAIN q.ctes |-> q.ctes[i].name]}
        ELSE {s \o t : s \in SetToSeqs(plain), t \in Rounds(plain, CteNames \ plain)}

StartWith ==
    /\ phase = "plan"
    /\ q.op = "with"
    /\ todo' \in ExecutionOrders
    /\ phase' = "next"
    /\ UNCHANGED <<q, d, job, ctes, code, stack, loop, out>>

(* Plan a member or the main query over what is materialized. *)
Begin(kind, x, names) ==
    /\ job' = kind
    /\ code' = Code(PlanSelect(x, Tables, names))
    /\ phase' = "run"

NextCte ==
    /\ phase = "next"
    /\ todo # <<>>
    /\ LET x == Cte(Head(todo))
           recursive == IsRecursive(Head(todo))
       IN  Begin(IF recursive THEN "anchor" ELSE "cte", IF recursive THEN x.l ELSE x, DOMAIN ctes)
    /\ UNCHANGED <<q, d, todo, ctes, stack, loop, out>>

(* A WITH without RECURSIVE refuses a set operation as its main query. *)
NextMain ==
    /\ phase = "next"
    /\ todo = <<>>
    /\ IF q.recursive \/ q.main.op = "select"
       THEN Begin("main", q.main, DOMAIN ctes) /\ UNCHANGED out
       ELSE phase' = "done" /\ out' = Failure /\ UNCHANGED <<job, code>>
    /\ UNCHANGED <<q, d, todo, ctes, stack, loop>>

Finished(kind) == phase = "run" /\ code = <<>> /\ job = kind

EndMain ==
    /\ Finished("main")
    /\ out' = Top
    /\ stack' = <<>>
    /\ phase' = "done"
    /\ UNCHANGED <<q, d, job, todo, ctes, code, loop>>

(* The member on top of the work list is materialized. *)
Materialize(res) ==
    /\ ctes' = [c \in DOMAIN ctes \cup {Head(todo)} |-> IF c = Head(todo) THEN res ELSE ctes[c]]
    /\ todo' = Tail(todo)
    /\ phase' = "next"

EndCte ==
    /\ Finished("cte")
    /\ Materialize(Top)
    /\ stack' = <<>>
    /\ UNCHANGED <<q, d, job, code, loop, out>>

(* execute_single_recursive_cte: while there is a working set, the recursive  *)
(* member runs with the CTE's name bound to it.                               *)
Again(l) == l.work # <<>> /\ l.iter < MaxIterations
Iterate(l) ==
    IF Again(l)
    THEN /\ ctes' = [c \in DOMAIN ctes \cup {Head(todo)} |->
                        IF c = Head(todo) THEN Result(l.cols, l.work) ELSE ctes[c]]
         /\ job' = "recursive"
         /\ code' = Code(PlanSelect(Cte(Head(todo)).r, Tables', DOMAIN ctes'))
         /\ loop' = l
         /\ UNCHANGED <<todo, phase>>
    ELSE /\ Materialize(Result(l.cols, l.all))
         /\ loop' = NoLoop
         /\ UNCHANGED <<job, code>>

EndAnchor ==
    /\ Finished("anchor")
    /\ UNCHANGED <<q, d, out>>
    /\ Iterate([work |-> Top.rows, all |-> Top.rows, iter |-> 0, cols |-> Top.cols])
    /\ stack' = <<>>

AbsorbAll(l, rows, all) == [l EXCEPT !.all = @ \o rows, !.work = rows, !.iter = @ + 1]
AbsorbUncounted(l, rows, all) ==       \* only a round with new rows counts, and the work set stays
    LET fresh == SelectSeq(rows, LAMBDA row : ~ContainsRow(l.all, row))
    IN  IF fresh = <<>> THEN l ELSE [l EXCEPT !.all = @ \o fresh, !.work = fresh, !.iter = @ + 1]
(* The rows of one iteration: UNION drops the ones already found. *)
Absorb(l, rows, all) ==
    LET add(acc, row) == IF all \/ ~ContainsRow(acc.all, row)
                         THEN [acc EXCEPT !.all = Append(@, row), !.work = Append(@, row)] ELSE acc
    IN  FoldLeft(add, [l EXCEPT !.work = <<>>, !.iter = @ + 1], rows)

EndRecursive ==
    /\ Finished("recursive")
    /\ UNCHANGED <<q, d, out>>
    /\ Iterate(Absorb(loop, Top.rows, Cte(Head(todo)).all))
    /\ stack' = <<>>

-----------------------------------------------------------------------------
Execute == \/ ExecScan \/ ExecIndexScan \/ ExecCteScan \/ ExecFilter \/ ExecProject
           \/ ExecJoin \/ ExecHashJoin \/ ExecMergeJoin \/ ExecAggregate \/ ExecWindow
           \/ ExecSetOp \/ ExecSort \/ ExecLimit \/ ExecDistinct

(* A result is handed to the client once. *)
Returned == phase = "done" /\ UNCHANGED vars

QueryNext == \/ StartPlan \/ Execute \/ StartWith \/ NextCte \/ NextMain
             \/ EndMain \/ EndCte \/ EndAnchor \/ EndRecursive \/ Returned

(* Weak fairness of QueryNext, which is enabled until the query has returned  *)
(* (no run of the model deadlocks): the thread that executes the query runs.  *)
Running == []<>(phase = "done") \/ []<><<QueryNext>>_vars

QuerySpec == QueryInit /\ [][QueryNext]_vars /\ Running
=============================================================================
