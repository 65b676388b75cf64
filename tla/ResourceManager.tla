--------------------------- MODULE ResourceManager ---------------------------
(***************************************************************************)
(* ResourceManager of src/executor/parallel/resource_manager.rs: threads   *)
(* that request memory, cores and I/O slots, wait for them with a timeout  *)
(* and give them back, and the thread that copies the memory statistics.   *)
(*                                                                         *)
(* A step is one critical section.  A request is checked under the mutex   *)
(* of the tracker and granted under others, later.                         *)
(***************************************************************************)
EXTENDS Integers, FiniteSets, FiniteSetsExt, Functions

CONSTANTS
    Requesters,    \* threads that request
    Limit,         \* ResourceConstraints: kind -> maximum
    Demands,       \* what is requested: records [kind, amount]
    MaxGrants      \* bound: grants of one behaviour

Kinds == {"memory", "cpu", "io"}

ASSUME ResourceAssumption ==
    /\ IsFiniteSet(Requesters) /\ Requesters # {}
    /\ Limit \in [Kinds -> Nat] /\ MaxGrants \in Nat
    /\ Demands \subseteq [kind : Kinds, amount : Nat] /\ IsFiniteSet(Demands)
    /\ \A d \in Demands : d.kind = "io" => d.amount = 1    \* start_io_operation

VARIABLES
    rpc,          \* where each thread is
    demand,       \* its request
    grantOf,      \* its grant_id, 0 when it has none
    waiters,      \* pending_requests, by requester
    nextGrant,    \* next_grant_id
    active,       \* active_grants: grant_id -> request
    allocations,  \* MemoryTracker::allocations: allocation_id -> size
    nextAlloc,    \* next_allocation_id
    inUse,        \* trackers: memory current_usage, active_cores, active_operations
    usage         \* ResourceUsage of each kind: in_use and active_allocations

resVars == <<rpc, demand, grantOf, waiters, nextGrant, active, allocations, nextAlloc, inUse, usage>>

ResInit ==
    /\ rpc = [r \in Requesters |-> "idle"]
    /\ demand \in [Requesters -> Demands]
    /\ grantOf = [r \in Requesters |-> 0]
    /\ waiters = {} /\ nextGrant = 1 /\ active = <<>>
    /\ allocations = <<>> /\ nextAlloc = 1
    /\ inUse = [k \in Kinds |-> 0]
    /\ usage = [k \in Kinds |-> [inUse |-> 0, active |-> 0]]

Goes(r, where) == rpc' = [rpc EXCEPT ![r] = where]
Minus(a, b) == IF a < b THEN 0 ELSE a - b    \* saturating_sub

\* Mutant of Available: what is in use is left out.
AvailableAlone(r) == demand[r].amount <= Limit[demand[r].kind]

\* check_availability.
Available(r) == inUse[demand[r].kind] + demand[r].amount <= Limit[demand[r].kind]

-----------------------------------------------------------------------------
(* allocate_resource *)

Request(r, d) ==
    /\ rpc[r] = "idle" /\ nextGrant <= MaxGrants
    /\ demand' = [demand EXCEPT ![r] = d]
    /\ Goes(r, "check")
    /\ UNCHANGED <<grantOf, waiters, nextGrant, active, allocations, nextAlloc, inUse, usage>>

CheckNow(r) ==
    /\ rpc[r] = "check"
    /\ Goes(r, IF Available(r) THEN "grant" ELSE "push")
    /\ UNCHANGED <<demand, grantOf, waiters, nextGrant, active, allocations, nextAlloc, inUse, usage>>

Push(r) ==
    /\ rpc[r] = "push"
    /\ waiters' = waiters \cup {r}
    /\ Goes(r, "again")
    /\ UNCHANGED <<demand, grantOf, nextGrant, active, allocations, nextAlloc, inUse, usage>>

\* The loop, while the deadline is not reached: another look, then the wait.
CheckAgain(r) ==
    /\ rpc[r] = "again"
    /\ Goes(r, IF Available(r) THEN "unpend" ELSE "sleep")
    /\ UNCHANGED <<demand, grantOf, waiters, nextGrant, active, allocations, nextAlloc, inUse, usage>>

Unpend(r) ==
    /\ rpc[r] = "unpend"
    /\ waiters' = waiters \ {r}
    /\ Goes(r, "grant")
    /\ UNCHANGED <<demand, grantOf, nextGrant, active, allocations, nextAlloc, inUse, usage>>

\* wait_timeout starts: only a notification after this step wakes the thread.
Sleep(r) ==
    /\ rpc[r] = "sleep"
    /\ Goes(r, "asleep")
    /\ UNCHANGED <<demand, grantOf, waiters, nextGrant, active, allocations, nextAlloc, inUse, usage>>

\* Mutant of TimesOut: nothing but a notification ends the wait.
TimesOutNever(r) == FALSE /\ UNCHANGED resVars

\* The wait or the deadline is over: the request is withdrawn and fails.
TimesOut(r) ==
    /\ rpc[r] \in {"asleep", "again"}
    /\ waiters' = waiters \ {r}
    /\ Goes(r, "idle")
    /\ UNCHANGED <<demand, grantOf, nextGrant, active, allocations, nextAlloc, inUse, usage>>

-----------------------------------------------------------------------------
(* grant_resource *)

GrantId(r) ==
    /\ rpc[r] = "grant"
    /\ grantOf' = [grantOf EXCEPT ![r] = nextGrant]
    /\ nextGrant' = nextGrant + 1
    /\ Goes(r, "count")
    /\ UNCHANGED <<demand, waiters, active, allocations, nextAlloc, inUse, usage>>

GrantUsage(r) ==
    LET d == demand[r]
    IN  /\ rpc[r] = "count"
        /\ usage' = [usage EXCEPT ![d.kind] = [inUse |-> @.inUse + d.amount, active |-> @.active + 1]]
        /\ Goes(r, "track")
        /\ UNCHANGED <<demand, grantOf, waiters, nextGrant, active, allocations, nextAlloc, inUse>>

\* What the trackers count: an operation is one, whatever its request says.
Counted(d) == IF d.kind = "io" THEN 1 ELSE d.amount

\* MemoryTracker::allocate takes an id of its own.
Track(r) ==
    LET d == demand[r]
    IN  /\ rpc[r] = "track"
        /\ inUse' = [inUse EXCEPT ![d.kind] = @ + Counted(d)]
        /\ IF d.kind = "memory"
           THEN /\ allocations' = [i \in DOMAIN allocations \cup {nextAlloc} |->
                                      IF i = nextAlloc THEN d.amount ELSE allocations[i]]
                /\ nextAlloc' = nextAlloc + 1
           ELSE UNCHANGED <<allocations, nextAlloc>>
        /\ Goes(r, "store")
        /\ UNCHANGED <<demand, grantOf, waiters, nextGrant, active, usage>>

StoreGrant(r) ==
    /\ rpc[r] = "store"
    /\ active' = [i \in DOMAIN active \cup {grantOf[r]} |-> IF i = grantOf[r] THEN demand[r] ELSE active[i]]
    /\ Goes(r, "holds")
    /\ UNCHANGED <<demand, grantOf, waiters, nextGrant, allocations, nextAlloc, inUse, usage>>

-----------------------------------------------------------------------------
(* deallocate_resource *)

TakeGrant(r) ==
    /\ rpc[r] = "holds"
    /\ active' = Restrict(active, DOMAIN active \ {grantOf[r]})
    /\ Goes(r, "uncount")
    /\ UNCHANGED <<demand, grantOf, waiters, nextGrant, allocations, nextAlloc, inUse, usage>>

ReturnUsage(r) ==
    LET d == demand[r]
    IN  /\ rpc[r] = "uncount"
        /\ usage' = [usage EXCEPT ![d.kind] = [inUse |-> Minus(@.inUse, d.amount),
                                               active |-> Minus(@.active, 1)]]
        /\ Goes(r, "untrack")
        /\ UNCHANGED <<demand, grantOf, waiters, nextGrant, active, allocations, nextAlloc, inUse>>

\* Mutant of Released: the counter of a kind is reset instead of lowered.
ReleasedAll(d, g) == [inUse EXCEPT ![d.kind] = 0]

\* MemoryTracker::deallocate is asked for the allocation with the grant's id.
Released(d, g) ==
    IF d.kind # "memory" THEN [inUse EXCEPT ![d.kind] = Minus(@, Counted(d))]
    ELSE IF g \in DOMAIN allocations THEN [inUse EXCEPT !["memory"] = Minus(@, allocations[g])]
    ELSE inUse

Untrack(r) ==
    LET g == grantOf[r]
    IN  /\ rpc[r] = "untrack"
        /\ inUse' = Released(demand[r], g)
        /\ allocations' = IF demand[r].kind = "memory" THEN Restrict(allocations, DOMAIN allocations \ {g})
                          ELSE allocations
        /\ Goes(r, "notify")
        /\ UNCHANGED <<demand, grantOf, waiters, nextGrant, active, nextAlloc, usage>>

\* notify_all wakes the threads that are asleep at this moment.
Notify(r) ==
    /\ rpc[r] = "notify"
    /\ rpc' = [q \in Requesters |-> IF q = r THEN "idle" ELSE IF rpc[q] = "asleep" THEN "again" ELSE rpc[q]]
    /\ grantOf' = [grantOf EXCEPT ![r] = 0]
    /\ UNCHANGED <<demand, waiters, nextGrant, active, allocations, nextAlloc, inUse, usage>>

\* cleanup_thread.
CopyUsage ==
    /\ usage["memory"].inUse # inUse["memory"]
    /\ usage' = [usage EXCEPT !["memory"].inUse = inUse["memory"]]
    /\ UNCHANGED <<rpc, demand, grantOf, waiters, nextGrant, active, allocations, nextAlloc, inUse>>

\* What a thread does by itself once it has requested, and until it holds.
ThreadStep(r) ==
    \/ CheckNow(r) \/ Push(r) \/ CheckAgain(r) \/ Unpend(r) \/ Sleep(r) \/ TimesOut(r)
    \/ GrantId(r) \/ GrantUsage(r) \/ Track(r) \/ StoreGrant(r)
    \/ ReturnUsage(r) \/ Untrack(r) \/ Notify(r)

ResNext ==
    \/ \E r \in Requesters, d \in Demands : Request(r, d)
    \/ \E r \in Requesters : TakeGrant(r)
    \/ \E r \in Requesters : ThreadStep(r)
    \/ CopyUsage

\* Threads are scheduled; nobody has to request, or to give a grant back.
ResFairness == \A r \in Requesters : WF_resVars(ThreadStep(r))

ResSpec == ResInit /\ [][ResNext]_resVars /\ ResFairness

-----------------------------------------------------------------------------
(* Properties *)

LargestDemand(k) == Max({d.amount : d \in {e \in Demands : e.kind = k}} \cup {0})

\* check_availability and grant_resource are two steps, so threads that ask at
\* the same time can exceed a limit: by at most one demand for each other
\* thread, however many grants follow each other.
OvercommitBounded ==
    \A k \in Kinds : inUse[k] <= Limit[k] + (Cardinality(Requesters) - 1) * LargestDemand(k)

Owned(k) == {r \in Requesters : demand[r].kind = k /\ rpc[r] \in {"store", "holds"}}

\* Where all demands of a kind are equal, a tracker never forgets a grant that is
\* still held, although memory is freed by the id of the grant and was entered
\* under an id of its own; so nothing is granted a second time.
UsageCoversGrants ==
    \A k \in Kinds :
        Cardinality({d \in Demands : d.kind = k}) = 1
            => inUse[k] >= LargestDemand(k) * Cardinality(Owned(k))

\* A thread that requests gets its grant or an error, even if the notification
\* it waits for came between its last look and its wait.
RequestReturns == \A r \in Requesters : (rpc[r] = "check") ~> (rpc[r] \in {"holds", "idle"})
=============================================================================
