---------------------------- MODULE ViewManager ----------------------------
(***************************************************************************)
(* ViewManager (catalog/view.rs): views, the dependency graph, the refresh *)
(* status and the refresh schedules, each under a lock of its own.  A      *)
(* method that needs the views holds their mutex from its first step to    *)
(* its last (inViews); recording a change of a table does not, and runs    *)
(* between the steps of one that does.  A refresh populates nothing and    *)
(* never fails once the view is found, so Refreshing is never seen.        *)
(***************************************************************************)
EXTENDS Naturals, Sequences, FiniteSets, Catalog

CONSTANTS
    Threads,
    ViewNames,     \* names that views are created under
    KnownTables,   \* the table names extract_dependencies looks for
    Queries,       \* what views read: sets of table names
    ChangeLimit    \* changes kept in the log (1000 in the code)

VARIABLES
    views,         \* name -> [materialized, deps]
    tableToViews,  \* table -> the views that depend on it
    viewToTables,  \* view -> the tables it depends on
    status,        \* name -> "Fresh", "Stale" or "Failed"
    due,           \* scheduled views -> the next refresh is due
    changes,       \* the change log
    at,            \* what each thread is doing
    dirty          \* history: views with a recorded change since their refresh

viewVars == <<views, tableToViews, viewToTables, status, due, changes, at, dirty>>

Free == [pc |-> "idle", view |-> "None", def |-> [materialized |-> FALSE, deps |-> {}], todo |-> {}]

ViewInit ==
    /\ views = EmptyMap /\ tableToViews = EmptyMap /\ viewToTables = EmptyMap
    /\ status = EmptyMap /\ due = EmptyMap /\ changes = <<>>
    /\ at = [t \in Threads |-> Free] /\ dirty = {}

InViews == \E t \in Threads : at[t].pc \in {"insert", "unschedule", "unstatus"}
Idling(t) == at[t].pc = "idle"
Become(t, new) == at' = [at EXCEPT ![t] = new]

(***************************************************************************)
(* The dependency graph.  No view ever depends on a view in it: the map    *)
(* view_dependencies is cleared but never filled.                          *)
(***************************************************************************)

\* extract_dependencies: only known table names are found.
Dependencies(query) == query \cap KnownTables

\* Every table of the view loses its entry.
UnlinkAll(links, view, tables) == [x \in DOMAIN links \ tables |-> links[x]]

\* A table with no dependent view left has no entry.
Unlink(links, view, tables) ==
    LET less == [x \in DOMAIN links |-> IF x \in tables THEN links[x] \ {view} ELSE links[x]]
    IN  [x \in {y \in DOMAIN less : less[y] # {}} |-> less[x]]

Linked(view) == IF view \in DOMAIN viewToTables THEN viewToTables[view] ELSE {}

\* update_dependency_graph.
LinkView(view, deps) ==
    LET base == Unlink(tableToViews, view, Linked(view))
    IN  /\ tableToViews' = [x \in DOMAIN base \cup deps |->
                               (IF x \in DOMAIN base THEN base[x] ELSE {}) \cup (IF x \in deps THEN {view} ELSE {})]
        /\ viewToTables' = Put(viewToTables, view, deps)

\* remove_from_dependency_graph.
UnlinkView(view) ==
    /\ tableToViews' = Unlink(tableToViews, view, Linked(view))
    /\ viewToTables' = Without(viewToTables, view)

(***************************************************************************)
(* create_view and drop_view.                                              *)
(***************************************************************************)
CreateView(t) ==
    /\ Idling(t) /\ ~InViews
    /\ \E v \in ViewNames \ DOMAIN views, m \in BOOLEAN, query \in Queries :
           /\ LinkView(v, Dependencies(query))
           /\ Become(t, [Free EXCEPT !.pc = "insert", !.view = v,
                                     !.def = [materialized |-> m, deps |-> Dependencies(query)]])
    /\ UNCHANGED <<views, status, due, changes, dirty>>

CreateInsert(t) ==
    /\ at[t].pc = "insert"
    /\ views' = Put(views, at[t].view, at[t].def)
    /\ status' = Put(status, at[t].view, IF at[t].def.materialized THEN "Stale" ELSE "Fresh")
    /\ dirty' = dirty \ {at[t].view}
    /\ Become(t, Free)
    /\ UNCHANGED <<tableToViews, viewToTables, due, changes>>

\* CASCADE drops the view alone; without it a view another one reads stays.
DropView(t) ==
    /\ Idling(t) /\ ~InViews
    /\ \E v \in DOMAIN views, cascade \in BOOLEAN :
           /\ cascade \/ \A o \in DOMAIN views \ {v} : v \notin views[o].deps
           /\ views' = Without(views, v)
           /\ UnlinkView(v)
           /\ Become(t, [Free EXCEPT !.pc = "unschedule", !.view = v])
    /\ UNCHANGED <<status, due, changes, dirty>>

DropSchedule(t) ==
    /\ at[t].pc = "unschedule"
    /\ due' = Without(due, at[t].view)
    /\ Become(t, [at[t] EXCEPT !.pc = "unstatus"])
    /\ UNCHANGED <<views, tableToViews, viewToTables, status, changes, dirty>>

DropStatus(t) ==
    /\ at[t].pc = "unstatus"
    /\ status' = Without(status, at[t].view)
    /\ Become(t, Free)
    /\ UNCHANGED <<views, tableToViews, viewToTables, due, changes, dirty>>

(***************************************************************************)
(* Refreshing.                                                             *)
(***************************************************************************)
Materialized(v) == v \in DOMAIN views /\ views[v].materialized

\* refresh_materialized_view, of a materialized view that exists.
Refreshed(v) == status' = Put(status, v, "Fresh") /\ dirty' = dirty \ {v}

RefreshView(t) ==
    /\ Idling(t) /\ ~InViews
    /\ \E v \in DOMAIN views : Materialized(v) /\ Refreshed(v)
    /\ UNCHANGED <<views, tableToViews, viewToTables, due, changes, at>>

\* needs_refresh, of a materialized view.
NeedsRefresh(v) ==
    IF v \notin DOMAIN status THEN TRUE
    ELSE status[v] \in {"Stale", "Failed"} \/ (v \in DOMAIN due /\ due[v])

\* schedule_refresh; and the scheduled time comes.
ScheduleRefresh(t) ==
    /\ Idling(t) /\ ~InViews
    /\ \E v \in DOMAIN views : Materialized(v) /\ due' = Put(due, v, FALSE)
    /\ UNCHANGED <<views, tableToViews, viewToTables, status, changes, at, dirty>>

TimePasses ==
    /\ \E v \in DOMAIN due : due' = [due EXCEPT ![v] = TRUE]
    /\ UNCHANGED <<views, tableToViews, viewToTables, status, changes, at, dirty>>

\* refresh_all_stale_views: the views are listed first and refreshed one by
\* one; one that was dropped in between is marked Failed.
RefreshAll(t) ==
    /\ Idling(t) /\ ~InViews
    /\ Become(t, [Free EXCEPT !.pc = "refreshing", !.todo = {v \in DOMAIN views : Materialized(v) /\ NeedsRefresh(v)}])
    /\ UNCHANGED <<views, tableToViews, viewToTables, status, due, changes, dirty>>

RefreshNext(t) ==
    /\ at[t].pc = "refreshing" /\ ~InViews
    /\ \E v \in at[t].todo :
           LET me == [at[t] EXCEPT !.view = v, !.todo = @ \ {v}]
           IN  IF Materialized(v)
               THEN Refreshed(v) /\ Become(t, [me EXCEPT !.pc = "reschedule"])
               ELSE Become(t, [me EXCEPT !.pc = "failed"]) /\ UNCHANGED <<status, dirty>>
    /\ UNCHANGED <<views, tableToViews, viewToTables, due, changes>>

Reschedule(t) ==
    /\ at[t].pc = "reschedule"
    /\ due' = IF at[t].view \in DOMAIN due THEN Put(due, at[t].view, FALSE) ELSE due
    /\ Become(t, [at[t] EXCEPT !.pc = "refreshing", !.view = "None"])
    /\ UNCHANGED <<views, tableToViews, viewToTables, status, changes, dirty>>

MarkFailed(t) ==
    /\ at[t].pc = "failed"
    /\ status' = Put(status, at[t].view, "Failed")
    /\ Become(t, [at[t] EXCEPT !.pc = "refreshing", !.view = "None"])
    /\ UNCHANGED <<views, tableToViews, viewToTables, due, changes, dirty>>

RefreshedAll(t) ==
    /\ at[t].pc = "refreshing" /\ at[t].todo = {}
    /\ Become(t, Free)
    /\ UNCHANGED <<views, tableToViews, viewToTables, status, due, changes, dirty>>

\* record_table_change and mark_dependent_views_stale: under the locks of
\* the log, the graph and the status, and not of the views.
RecordChange(table) ==
    /\ LET dependent == IF table \in DOMAIN tableToViews THEN tableToViews[table] ELSE {}
           log == Append(changes, table)
       IN  /\ status' = [v \in DOMAIN status |-> IF v \in dependent THEN "Stale" ELSE status[v]]
           /\ changes' = IF Len(log) > ChangeLimit THEN SubSeq(log, Len(log) - ChangeLimit + 1, Len(log)) ELSE log
    /\ dirty' = dirty \cup {v \in DOMAIN views : table \in views[v].deps}
    /\ UNCHANGED <<views, tableToViews, viewToTables, due, at>>

ViewNext ==
    \/ \E t \in Threads :
           \/ CreateView(t) \/ CreateInsert(t) \/ DropView(t) \/ DropSchedule(t) \/ DropStatus(t)
           \/ RefreshView(t) \/ ScheduleRefresh(t)
           \/ RefreshAll(t) \/ RefreshNext(t) \/ Reschedule(t) \/ MarkFailed(t) \/ RefreshedAll(t)
    \/ TimePasses
    \/ \E table \in KnownTables : RecordChange(table)

ViewSpec == ViewInit /\ [][ViewNext]_viewVars

(***************************************************************************)
(* A materialized view that is Fresh has seen every recorded change of the *)
(* tables it depends on, whatever is created, dropped and refreshed        *)
(* between the steps of the others: record_table_change finds the view     *)
(* through the graph, and the graph is kept apart from the views.          *)
(***************************************************************************)
FreshUnchanged == \A v \in DOMAIN views : Materialized(v) /\ v \in DOMAIN status /\ status[v] = "Fresh" => v \notin dirty
=============================================================================
