----------------------------- MODULE MCParallel -----------------------------
(***************************************************************************)
(* Model-checking instance of the parallel executor: a behaviour is one of *)
(* the scheduler, of the resource manager or of a parallel scan.           *)
(***************************************************************************)
EXTENDS TaskScheduler, ResourceManager, ParallelScan

VARIABLE focus   \* the part that runs in this behaviour

Plain(prio, deps) == [prio |-> prio, cost |-> 100, deps |-> deps, affinity |-> NoAffinity]
On(w, deps) == [Plain(0, deps) EXCEPT !.affinity = w]
Submits(tasks) == [tasks |-> tasks, cancels |-> FALSE, rebalances |-> FALSE, patient |-> FALSE]

Aggregate == [tables |-> 1, joins |-> 0, groups |-> 1, where |-> FALSE, having |-> FALSE, setOp |-> FALSE]
Join == [tables |-> 1, joins |-> 1, groups |-> 0, where |-> TRUE, having |-> FALSE, setOp |-> FALSE]

MCWorkloads ==
    {[Submits(<<Plain(1, {}), Plain(0, {}), Plain(0, {1})>>) EXCEPT !.cancels = TRUE],
     [Submits(<<Plain(0, {2, 3}), Plain(1, {}), Plain(1, {})>>) EXCEPT !.rebalances = TRUE],
     Submits(<<Plain(0, {3}), Plain(0, {3}), Plain(1, {})>>),
     [Submits(<<Plain(0, {2, 3}), Plain(1, {}), Plain(1, {})>>) EXCEPT !.rebalances = TRUE, !.patient = TRUE],
     [Submits(<<Plain(1, {}), Plain(0, {1}), Plain(0, {}), Plain(2, {})>>) EXCEPT !.patient = TRUE],
     Submits(<<On(0, {2}), On(0, {})>>),
     Submits(PlanTasks(Aggregate, 1)),
     Submits(PlanTasks(Join, 1))}

MCLimit == [k \in Kinds |-> IF k = "memory" THEN 3 ELSE 1]
MCDemands == {[kind |-> "memory", amount |-> 2], [kind |-> "cpu", amount |-> 1], [kind |-> "io", amount |-> 1]}

MCScanConfigs ==
    [strategy : {"Range", "Hash", "RoundRobin", "Adaptive"}, size : {2}, max : {2, 4},
     adaptive : BOOLEAN, estimate : {5, 8}, parallel : BOOLEAN]

MCInit ==
    /\ focus \in {"scheduler", "resources", "scan"}
    /\ SchedInit /\ ResInit /\ ScanInit
    /\ focus = "scheduler" \/ plan = Submits(<<On(0, {2}), On(0, {})>>)
    /\ focus = "scan" \/ config = CHOOSE c \in ScanConfigs : TRUE
    /\ demand = [r \in Requesters |-> CHOOSE d \in Demands : d.kind = "memory"]

MCNext ==
    \/ focus = "scheduler" /\ SchedNext /\ UNCHANGED <<resVars, scanVars, focus>>
    \/ focus = "resources" /\ ResNext /\ UNCHANGED <<schedVars, scanVars, focus>>
    \/ focus = "scan" /\ ScanNext /\ UNCHANGED <<schedVars, resVars, focus>>

MCFairness ==
    /\ WF_schedVars(focus = "scheduler" /\ ClientStep)
    /\ \A w \in Workers : WF_schedVars(focus = "scheduler" /\ WorkerStep(w))
    /\ \A r \in Requesters : WF_resVars(focus = "resources" /\ ThreadStep(r))

MCSpec == MCInit /\ [][MCNext]_<<schedVars, resVars, scanVars, focus>> /\ MCFairness

\* QueryReturns, in the behaviours where the scheduler runs.
MCQueryReturns == focus = "scheduler" => QueryReturns
=============================================================================
