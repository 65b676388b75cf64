---------------------------- MODULE TaskScheduler ----------------------------
(***************************************************************************)
(* TaskScheduler of src/executor/parallel/scheduler.rs, with its worker    *)
(* threads, and ParallelExecutor (executor.rs), the client that submits    *)
(* the tasks of one SELECT, waits for them and shuts the scheduler down.   *)
(*                                                                         *)
(* A step is one critical section.  wait_for_tasks sleeps while it holds   *)
(* the mutex of completed_tasks (lock), which every worker needs.  A task  *)
(* is its id, which is its position in plan, the tasks of this behaviour.  *)
(***************************************************************************)
EXTENDS Integers, Sequences, SequencesExt, FiniteSets

CONSTANTS
    Workers,        \* worker ids, 0 .. n - 1
    MaxPolls,       \* bound: looks of wait_for_tasks before its timeout
    RebalanceOver,  \* rebalance_tasks leaves queues up to this length alone
    Workloads,      \* what the client does: see Workload
    MaxTasks        \* bound: tasks of a workload

NoAffinity == -1

Task == [prio : Nat, cost : Nat, deps : SUBSET Nat, affinity : Workers \cup {NoAffinity}]

\* The tasks of a SELECT (PlanTasks), or others for schedule_task; cancels says
\* whether the client may cancel a task before it waits, rebalances whether the
\* load balancer may find the load uneven.  A patient client waits for one task
\* after the other with wait_for_task and no timeout, the others for all of
\* them with wait_for_tasks and a timeout.
Workload == [tasks : Seq(Task), cancels : BOOLEAN, rebalances : BOOLEAN, patient : BOOLEAN]

ASSUME SchedulerAssumption ==
    /\ Workers # {} /\ IsFiniteSet(Workers) /\ Workers \subseteq Nat
    /\ MaxPolls \in Nat /\ RebalanceOver \in Nat /\ MaxTasks \in Nat
    /\ Workloads \subseteq Workload
    /\ \A w \in Workloads : Len(w.tasks) <= MaxTasks

VARIABLES
    plan,       \* the workload
    global,     \* global_queue
    local,      \* local_queues
    pending,    \* pending_tasks: task -> the tasks that were waiting for it
    completed,  \* keys of completed_tasks
    lock,       \* the client holds the mutex of completed_tasks
    shutdown,   \* the shutdown flag
    at,         \* where each worker is in worker_loop
    held,       \* the task in its hands
    follow,     \* the dependents process_dependent_tasks still looks at
    client,     \* where the client is
    submitted,  \* tasks submitted so far (generate_task_id counts them)
    polls,      \* looks of wait_for_tasks so far
    collected,  \* results of wait_for_tasks
    cancelled   \* tasks cancel_task has removed

workerVars == <<at, held, follow>>
clientVars == <<client, submitted, polls, collected, cancelled>>
schedVars == <<plan, global, local, pending, completed, lock, shutdown, workerVars, clientVars>>

NoTask == 0
Ids == 1 .. Len(plan.tasks)

-----------------------------------------------------------------------------
(* ParallelExecutor: the tasks of a SELECT *)

\* A SELECT as the executor looks at it: numbers of tables, joins and GROUP BY
\* expressions, whether there is a WHERE or a HAVING, or a set operation.
\* should_parallelize: any other statement runs in the calling thread.
ShouldParallelize(q) == q.setOp \/ q.joins > 0 \/ q.tables > 1 \/ q.groups > 0 \/ q.where

\* analyze_query_complexity, as the factor determine_query_parallelism takes.
ComplexityFactor(q) ==
    LET score == q.joins * 2 + q.groups + (IF q.where THEN 1 ELSE 0) + (IF q.having THEN 2 ELSE 0)
    IN  IF q.setOp THEN 2
        ELSE IF score = 0 THEN 1 ELSE IF score <= 3 THEN 2 ELSE IF score <= 7 THEN 4 ELSE 8

\* determine_query_parallelism: estimate_result_size is 100000 rows for every
\* SELECT and the threshold 10000, hence a base of 3 (the root of 10).
Parallelism(q, workers) ==
    LET wanted == 3 * ComplexityFactor(q) IN IF wanted < workers THEN wanted ELSE workers

Scan(prio) == [prio |-> prio, cost |-> 100, deps |-> {}, affinity |-> NoAffinity]
Copies(n, task) == [i \in 1 .. n |-> task]

\* has_aggregate_functions finds none, whatever the columns are: a SELECT that
\* aggregates without GROUP BY gets no aggregation tasks.
HasAggregateFunctions(q) == FALSE

\* create_parallel_tasks fails for a set operation although should_parallelize
\* lets it through: nothing is submitted and the executor returns the error.
PlanFails(q) == q.setOp

\* create_parallel_tasks: scans of each table, then one build per join, then
\* partial aggregations and the final one.  The tasks have no dependencies.
PlanTasks(q, workers) ==
    LET n == Parallelism(q, workers)
        build == [Scan(10) EXCEPT !.cost = 200]
        scans == FlattenSeq([i \in 1 .. q.tables |-> Copies(n, Scan(i - 1))])
        aggregates == Append(Copies(n, [Scan(20) EXCEPT !.cost = 150]),
                             [Scan(30) EXCEPT !.cost = 50])
    IN  IF ~ShouldParallelize(q) \/ PlanFails(q) THEN <<>>
        ELSE scans \o Copies(q.joins, build)
             \o (IF q.groups > 0 \/ HasAggregateFunctions(q) THEN aggregates ELSE <<>>)

-----------------------------------------------------------------------------
SchedInit ==
    /\ plan \in Workloads
    /\ global = <<>> /\ local = [w \in Workers |-> <<>>]
    /\ pending = [t \in 1 .. Len(plan.tasks) |-> {}]
    /\ completed = {} /\ lock = FALSE /\ shutdown = FALSE
    /\ at = [w \in Workers |-> "top"]
    /\ held = [w \in Workers |-> NoTask]
    /\ follow = [w \in Workers |-> {}]
    /\ client = "submit" /\ submitted = 0 /\ polls = 0
    /\ collected = <<>> /\ cancelled = {}

Before(t, u) ==
    LET a == plan.tasks[t] b == plan.tasks[u]
    IN  a.prio < b.prio \/ (a.prio = b.prio /\ a.cost > b.cost)

\* insert_task_sorted: before the first task it has to precede.
InsertSorted(queue, t) ==
    LET later == {i \in DOMAIN queue : Before(t, queue[i])}
    IN  IF later = {} THEN Append(queue, t)
        ELSE InsertAt(queue, CHOOSE i \in later : \A j \in later : i <= j, t)

\* Mutant of Satisfied: one dependency is enough.
SatisfiedAny(t) == plan.tasks[t].deps = {} \/ plan.tasks[t].deps \cap completed # {}

\* dependencies_satisfied.
Satisfied(t) == plan.tasks[t].deps \subseteq completed

\* The mutex of completed_tasks is only taken for a task with dependencies.
MayAsk(t) == plan.tasks[t].deps # {} => ~lock

-----------------------------------------------------------------------------
(* The client *)

\* schedule_task, first half: the task is entered for its dependencies.
Register ==
    /\ client = "submit" /\ submitted < Len(plan.tasks)
    /\ submitted' = submitted + 1
    /\ pending' = [t \in Ids |-> IF t \in plan.tasks[submitted + 1].deps
                                 THEN pending[t] \cup {submitted + 1} ELSE pending[t]]
    /\ client' = "enqueue"
    /\ UNCHANGED <<plan, global, local, completed, lock, shutdown, workerVars, polls, collected, cancelled>>

\* schedule_task, second half: the queue of the worker it prefers, or the global one.
Enqueue ==
    LET w == plan.tasks[submitted].affinity
    IN  /\ client = "enqueue"
        /\ IF w \in Workers
           THEN local' = [local EXCEPT ![w] = InsertSorted(@, submitted)] /\ UNCHANGED global
           ELSE global' = InsertSorted(global, submitted) /\ UNCHANGED local
        /\ client' = "submit"
        /\ UNCHANGED <<plan, pending, completed, lock, shutdown, workerVars, submitted, polls,
                       collected, cancelled>>

\* cancel_task looks at one queue after another; a task in a worker's hands, or
\* moved in between, is not found and cancel_task returns false.
Cancel(t) ==
    /\ client = "submit" /\ submitted = Len(plan.tasks)
    /\ plan.cancels /\ cancelled = {}
    /\ IF t \in Range(global)
       THEN global' = RemoveFirst(global, t) /\ cancelled' = {t} /\ client' = "wait"
       ELSE UNCHANGED <<global, cancelled>> /\ client' = "cancel"
    /\ UNCHANGED <<plan, local, pending, completed, lock, shutdown, workerVars, submitted, polls, collected>>

CancelLocal(t) ==
    /\ client = "cancel"
    /\ \E w \in Workers :
        /\ t \in Range(local[w])
        /\ local' = [local EXCEPT ![w] = RemoveFirst(@, t)]
        /\ cancelled' = {t}
    /\ client' = "wait"
    /\ UNCHANGED <<plan, global, pending, completed, lock, shutdown, workerVars, submitted, polls, collected>>

CancelMisses ==
    /\ client = "cancel"
    /\ client' = "wait"
    /\ UNCHANGED <<plan, global, local, pending, completed, lock, shutdown, workerVars, submitted,
                   polls, collected, cancelled>>

StartWait ==
    /\ client = "submit" /\ submitted = Len(plan.tasks)
    /\ client' = "wait"
    /\ UNCHANGED <<plan, global, local, pending, completed, lock, shutdown, workerVars, submitted,
                   polls, collected, cancelled>>

\* One look of wait_for_tasks: what is complete is collected, again at every
\* look; unless all is, the client sleeps and keeps the mutex, or gives up.
Look ==
    LET done == SelectSeq([i \in Ids |-> i], LAMBDA t : t \in completed)
    IN  /\ client = "wait" /\ ~plan.patient
        /\ collected' = collected \o done
        /\ polls' = polls + 1
        /\ \/ Len(done) = Len(plan.tasks) /\ client' = "returned" /\ UNCHANGED lock
           \/ Len(done) < Len(plan.tasks) /\ polls < MaxPolls /\ client' = "sleep" /\ lock' = TRUE
           \/ Len(done) < Len(plan.tasks) /\ polls = MaxPolls /\ client' = "timedOut" /\ UNCHANGED lock
        /\ UNCHANGED <<plan, global, local, pending, completed, shutdown, workerVars, submitted, cancelled>>

Wake ==
    /\ client = "sleep"
    /\ client' = "wait" /\ lock' = FALSE
    /\ UNCHANGED <<plan, global, local, pending, completed, shutdown, workerVars, submitted,
                   polls, collected, cancelled>>

\* wait_for_task, for each task in turn: the mutex is free between two looks, and
\* a look that finds no result changes nothing.
LookForOne ==
    LET t == Len(collected) + 1
    IN  /\ client = "wait" /\ plan.patient
        /\ IF t > Len(plan.tasks)
           THEN client' = "returned" /\ UNCHANGED collected
           ELSE t \in completed /\ collected' = Append(collected, t) /\ UNCHANGED client
        /\ UNCHANGED <<plan, global, local, pending, completed, lock, shutdown, workerVars, submitted,
                       polls, cancelled>>

\* ParallelExecutor::shutdown: the flag, and the workers are joined.
Shutdown ==
    /\ client \in {"returned", "timedOut"}
    /\ shutdown' = TRUE /\ client' = "join"
    /\ UNCHANGED <<plan, global, local, pending, completed, lock, workerVars, submitted, polls,
                   collected, cancelled>>

Joined ==
    /\ client = "join" /\ \A w \in Workers : at[w] = "stopped"
    /\ client' = "down"
    /\ UNCHANGED <<plan, global, local, pending, completed, lock, shutdown, workerVars, submitted,
                   polls, collected, cancelled>>

-----------------------------------------------------------------------------
(* worker_loop *)

Takes(w, t) == held' = [held EXCEPT ![w] = t] /\ at' = [at EXCEPT ![w] = "check"]

\* Mutant of LoopTop: the flag is looked at only when the queue is empty.
LoopTopBusy(w) ==
    /\ at[w] = "top"
    /\ IF local[w] # <<>>
       THEN Takes(w, Head(local[w])) /\ local' = [local EXCEPT ![w] = Tail(@)]
       ELSE at' = [at EXCEPT ![w] = IF shutdown THEN "stopped" ELSE "global"] /\ UNCHANGED <<held, local>>
    /\ UNCHANGED <<plan, global, pending, completed, lock, shutdown, follow, clientVars>>

\* The flag, then the worker's own queue.
LoopTop(w) ==
    /\ at[w] = "top"
    /\ \/ shutdown /\ at' = [at EXCEPT ![w] = "stopped"] /\ UNCHANGED <<held, local>>
       \/ /\ ~shutdown /\ local[w] # <<>>
          /\ Takes(w, Head(local[w]))
          /\ local' = [local EXCEPT ![w] = Tail(@)]
       \/ ~shutdown /\ local[w] = <<>> /\ at' = [at EXCEPT ![w] = "global"] /\ UNCHANGED <<held, local>>
    /\ UNCHANGED <<plan, global, pending, completed, lock, shutdown, follow, clientVars>>

PopGlobal(w) ==
    /\ at[w] = "global"
    /\ IF global # <<>> THEN Takes(w, Head(global)) /\ global' = Tail(global)
       ELSE at' = [at EXCEPT ![w] = "steal"] /\ UNCHANGED <<held, global>>
    /\ UNCHANGED <<plan, local, pending, completed, lock, shutdown, follow, clientVars>>

\* try_steal_task takes from the back of the same queue.
Steal(w) ==
    /\ at[w] = "steal"
    /\ IF global # <<>> THEN Takes(w, Last(global)) /\ global' = Front(global)
       ELSE at' = [at EXCEPT ![w] = "top"] /\ UNCHANGED <<held, global>>
    /\ UNCHANGED <<plan, local, pending, completed, lock, shutdown, follow, clientVars>>

Check(w) ==
    /\ at[w] = "check" /\ MayAsk(held[w])
    /\ at' = [at EXCEPT ![w] = IF Satisfied(held[w]) THEN "execute" ELSE "putBack"]
    /\ UNCHANGED <<plan, global, local, pending, completed, lock, shutdown, held, follow, clientVars>>

\* Mutant of PutBack: a task that is not ready is dropped.
PutBackNowhere(w) ==
    /\ at[w] = "putBack"
    /\ held' = [held EXCEPT ![w] = NoTask]
    /\ at' = [at EXCEPT ![w] = "top"]
    /\ UNCHANGED <<plan, global, local, pending, completed, lock, shutdown, follow, clientVars>>

\* A task that is not ready goes to the front of the worker's own queue.
PutBack(w) ==
    /\ at[w] = "putBack"
    /\ local' = [local EXCEPT ![w] = <<held[w]>> \o @]
    /\ held' = [held EXCEPT ![w] = NoTask]
    /\ at' = [at EXCEPT ![w] = "top"]
    /\ UNCHANGED <<plan, global, pending, completed, lock, shutdown, follow, clientVars>>

\* rebalance_tasks: the second half of a long queue is turned round.
Rebalanced(queue) ==
    LET half == Len(queue) \div 2
    IN  SubSeq(queue, 1, half) \o Reverse(SubSeq(queue, half + 1, Len(queue)))

\* The task runs and its result is recorded.
Execute(w) ==
    /\ at[w] = "execute" /\ ~lock
    /\ completed' = completed \cup {held[w]}
    /\ at' = [at EXCEPT ![w] = "balance"]
    /\ UNCHANGED <<plan, global, local, pending, lock, shutdown, held, follow, clientVars>>

\* The load balancer hears of it, and may rebalance the global queue under its mutex.
Balance(w) ==
    /\ at[w] = "balance"
    /\ \/ UNCHANGED global
       \/ plan.rebalances /\ Len(global) > RebalanceOver /\ global' = Rebalanced(global)
    /\ at' = [at EXCEPT ![w] = "dependents"]
    /\ UNCHANGED <<plan, local, pending, completed, lock, shutdown, held, follow, clientVars>>

\* process_dependent_tasks takes the list of the tasks that waited ...
TakeDependents(w) ==
    /\ at[w] = "dependents"
    /\ follow' = [follow EXCEPT ![w] = pending[held[w]]]
    /\ pending' = [pending EXCEPT ![held[w]] = {}]
    /\ held' = [held EXCEPT ![w] = NoTask]
    /\ at' = [at EXCEPT ![w] = "follow"]
    /\ UNCHANGED <<plan, global, local, completed, lock, shutdown, clientVars>>

\* Mutant of Moved: the task is not taken out before it is put in front.
MovedTwice(queue, t) == IF Satisfied(t) THEN <<t>> \o queue ELSE queue

\* ... and moves each to the front of the global queue, or to its end.
Moved(queue, t) ==
    LET rest == RemoveFirst(queue, t)
    IN  IF Satisfied(t) THEN <<t>> \o rest ELSE Append(rest, t)

FollowUp(w, t) ==
    /\ at[w] = "follow" /\ t \in follow[w]
    /\ IF t \in Range(global) THEN MayAsk(t) /\ global' = Moved(global, t) ELSE UNCHANGED global
    /\ follow' = [follow EXCEPT ![w] = @ \ {t}]
    /\ UNCHANGED <<plan, local, pending, completed, lock, shutdown, at, held, clientVars>>

FollowUpEnds(w) ==
    /\ at[w] = "follow" /\ follow[w] = {}
    /\ at' = [at EXCEPT ![w] = "top"]
    /\ UNCHANGED <<plan, global, local, pending, completed, lock, shutdown, held, follow, clientVars>>

WorkerStep(w) ==
    \/ LoopTop(w)
    \/ PopGlobal(w)
    \/ Steal(w)
    \/ Check(w)
    \/ PutBack(w)
    \/ Execute(w)
    \/ Balance(w)
    \/ TakeDependents(w)
    \/ \E t \in Ids : FollowUp(w, t)
    \/ FollowUpEnds(w)

ClientStep ==
    \/ Register
    \/ Enqueue
    \/ \E t \in Ids : Cancel(t)
    \/ \E t \in Ids : CancelLocal(t)
    \/ CancelMisses
    \/ StartWait
    \/ Look
    \/ LookForOne
    \/ Wake
    \/ Shutdown
    \/ Joined

SchedNext == ClientStep \/ \E w \in Workers : WorkerStep(w)

\* Threads are scheduled by the operating system: each one that can take a step
\* takes it at some time.
SchedFairness == WF_schedVars(ClientStep) /\ \A w \in Workers : WF_schedVars(WorkerStep(w))

SchedSpec == SchedInit /\ [][SchedNext]_schedVars /\ SchedFairness

-----------------------------------------------------------------------------
(* Properties *)

Occurrences(queue, t) == Cardinality({i \in DOMAIN queue : queue[i] = t})

InHands(t) == {w \in Workers : held[w] = t /\ at[w] \in {"check", "putBack", "execute"}}

\* Whatever workers pop, steal, put back, move forward and cancel, a task that
\* was submitted is in one place: one queue, one worker's hands, or finished.  So
\* none is lost and none runs twice.
TaskInOnePlace ==
    \A t \in 1 .. (IF client = "enqueue" THEN submitted - 1 ELSE submitted) :
        Occurrences(global, t) + Cardinality({w \in Workers : t \in Range(local[w])})
            + Cardinality(InHands(t)) + Cardinality({t} \cap (completed \cup cancelled)) = 1

\* add_dependency: no task has run before the tasks it depends on.
DependenciesFirst ==
    \A t \in completed : plan.tasks[t].deps \subseteq completed

\* Fewer tasks wait for others than there are workers, and no task insists on a
\* worker: then somebody is always free to take from the global queue.
Unblocked ==
    /\ \A t \in Ids : plan.tasks[t].affinity = NoAffinity
    /\ Cardinality({t \in Ids : plan.tasks[t].deps # {}}) < Cardinality(Workers)

\* A submitted task is completed, unless a task was cancelled or the scheduler was
\* shut down first (which a patient client never does while it waits), although a
\* task that is not ready goes back to the front of its worker's queue and blocks
\* it.  Not promised where Unblocked fails: as many waiting tasks as workers, each
\* at the front of a worker's own queue, or a task pinned behind one that waits for
\* it, block the workers for good (put back by scheduler.rs:472-476 for ever).
TasksComplete ==
    \A t \in 1 .. MaxTasks :
        [](Unblocked /\ t <= submitted =>
              <>(t \in completed \/ cancelled # {} \/ shutdown))

\* However workers block each other, wait_for_tasks returns or times out, waiting
\* without a timeout for tasks that can run returns, and shutdown can join all
\* workers.
QueryReturns == <>(client = "down")
=============================================================================
