-------------------------------- MODULE Mvcc --------------------------------
(***************************************************************************)
(* The multi-version store of src/transaction/mvcc.rs: version chains,     *)
(* visibility, and the MVCCManager operations begin, commit, abort,        *)
(* insert/update, delete and vacuum.                                       *)
(*                                                                         *)
(* Every MVCCManager is reached through the Mutex of                       *)
(* TransactionManager.mvcc (src/transaction/manager.rs), so one call is    *)
(* one action.  A chain's Vec is modelled by the set of its versions, each *)
(* with the position `pos' at which it was pushed: retain() is a set       *)
(* comprehension and "newest first" is "largest pos first".                *)
(*                                                                         *)
(* Timestamps start at 1, so 0 stands for None in delete_ts and is, as in  *)
(* the code, the commit_ts of a version that is not committed yet.         *)
(***************************************************************************)
EXTENDS Integers, FiniteSets

CONSTANTS
    TxIds,          \* transaction identifiers
    NoTx,           \* deleter_id = None
    Records,        \* record identifiers, the keys of version_chains
    VersionNos,     \* version numbers the callers pass
    MaxTs,          \* bound: the clock stops here
    MaxPos,         \* bound: pushes on all chains together
    VacuumPoints    \* before_timestamp values vacuum is called with

ASSUME MvccAssumption ==
    /\ NoTx \notin TxIds
    /\ VersionNos \subseteq Nat
    /\ MaxTs \in Nat
    /\ MaxPos \in Nat
    /\ VacuumPoints \subseteq Nat

VARIABLES
    versions,   \* version_chains: all RecordVersions of all chains
    latest,     \* per record, latest_committed: 0 for None, i + 1 for Some(i)
    clock,      \* global_timestamp
    active,     \* MVCCManager.active_transactions
    snapshot,   \* Snapshot.timestamp handed to each transaction, 0 before
    nextPos,    \* the pos of the next push
    \* what the callers know, and the history the properties speak of
    status,     \* life cycle of each transaction
    seen        \* transactions already committed when the snapshot was taken

mvccVars == <<versions, latest, clock, active, snapshot, nextPos, status, seen>>

Version ==
    [rec : Records, creator : TxIds, commitTs : Nat, deleter : TxIds \cup {NoTx},
     deleteTs : Nat, version : VersionNos, pos : Nat]

Status == {"idle", "active", "committed", "aborted"}

Committed == {t \in TxIds : status[t] = "committed"}
Aborted == {t \in TxIds : status[t] = "aborted"}

-----------------------------------------------------------------------------
(* VisibilityInfo and VersionChain *)

IsVisible(v, t, ts) ==
    /\ v.commitTs <= ts
    /\ v.deleteTs = 0 \/ v.deleteTs > ts
    /\ v.creator # t

CanModify(v, t) == v.deleter \in {NoTx, t}

Chain(r) == {v \in versions : v.rec = r}

VisibleVersions(r, t) == {v \in Chain(r) : IsVisible(v, t, snapshot[t])}

\* get_visible_version scans the Vec in reverse.
GetVisibleVersion(r, t) ==
    CHOOSE v \in VisibleVersions(r, t) :
        \A w \in VisibleVersions(r, t) : w.pos <= v.pos

\* The version at 1-based index i of the Vec, as a set (empty when out of range).
AtIndex(r, i) ==
    {v \in Chain(r) : Cardinality({w \in Chain(r) : w.pos < v.pos}) = i - 1}

\* get_latest_committed: versions.get(latest_committed).
GetLatestCommitted(r) == IF latest[r] = 0 THEN {} ELSE AtIndex(r, latest[r])

-----------------------------------------------------------------------------
(* MVCCManager *)

MvccInit ==
    /\ versions = {}
    /\ latest = [r \in Records |-> 0]
    /\ clock = 1
    /\ active = {}
    /\ snapshot = [t \in TxIds |-> 0]
    /\ nextPos = 1
    /\ status = [t \in TxIds |-> "idle"]
    /\ seen = [t \in TxIds |-> {}]

\* Mutant of Tick: the timestamp is read and not advanced.
TickStill == clock < MaxTs /\ UNCHANGED clock

Tick == clock < MaxTs /\ clock' = clock + 1

\* TransactionManager::begin_transaction calls this twice for one transaction
\* before it writes anything; the second snapshot is the one it keeps.
Begin(t) ==
    /\ status[t] \in {"idle", "active"}
    /\ \A v \in versions : v.creator # t /\ v.deleter # t
    /\ Tick
    /\ snapshot' = [snapshot EXCEPT ![t] = clock]
    /\ active' = active \cup {t}
    /\ status' = [status EXCEPT ![t] = "active"]
    /\ seen' = [seen EXCEPT ![t] = Committed]
    /\ UNCHANGED <<versions, latest, nextPos>>

\* Mutant of Commit: only the newest version of the transaction is stamped.
CommitNewestOnly(t) ==
    /\ status[t] = "active"
    /\ Tick
    /\ versions' = {IF v.creator = t /\ \A w \in versions : w.creator = t => w.pos <= v.pos
                    THEN [v EXCEPT !.commitTs = clock] ELSE v : v \in versions}
    /\ active' = active \ {t}
    /\ status' = [status EXCEPT ![t] = "committed"]
    /\ UNCHANGED <<latest, snapshot, nextPos, seen>>

Commit(t) ==
    /\ status[t] = "active"
    /\ Tick
    /\ versions' = {IF v.creator = t THEN [v EXCEPT !.commitTs = clock] ELSE v :
                        v \in versions}
    /\ active' = active \ {t}
    /\ status' = [status EXCEPT ![t] = "committed"]
    /\ UNCHANGED <<latest, snapshot, nextPos, seen>>

\* Mutant of Retain: latest_committed is reset to the first version.
RetainFirst(kept) ==
    /\ versions' = kept
    /\ latest' = [r \in Records |->
                    IF \E v \in kept : v.rec = r THEN 1 ELSE 0]

\* Keeping only the versions in kept drops the chains that become empty, and
\* latest_committed with them; a chain that survives keeps its old index.
Retain(kept) ==
    /\ versions' = kept
    /\ latest' = [r \in Records |->
                    IF \E v \in kept : v.rec = r THEN latest[r] ELSE 0]

\* Mutant of Abort: the transaction ends and its versions stay.
AbortKeeps(t) ==
    /\ status[t] = "active"
    /\ active' = active \ {t}
    /\ status' = [status EXCEPT ![t] = "aborted"]
    /\ UNCHANGED <<versions, latest, clock, snapshot, nextPos, seen>>

Abort(t) ==
    /\ status[t] = "active"
    /\ Retain({v \in versions : v.creator # t})
    /\ active' = active \ {t}
    /\ status' = [status EXCEPT ![t] = "aborted"]
    /\ UNCHANGED <<clock, snapshot, nextPos, seen>>

\* insert_version and update_version have the same body: push, then record
\* the new last index in latest_committed.  Neither checks the transaction:
\* status[t] = "active" here and in DeleteVersion is what a caller of the
\* interface does, use the id of a transaction it has begun and not ended.
AddVersion(r, t, n) ==
    /\ status[t] = "active"
    /\ nextPos <= MaxPos
    /\ versions' = versions \cup
         {[rec |-> r, creator |-> t, commitTs |-> 0, deleter |-> NoTx,
           deleteTs |-> 0, version |-> n, pos |-> nextPos]}
    /\ latest' = [latest EXCEPT ![r] = Cardinality(Chain(r)) + 1]
    /\ nextPos' = nextPos + 1
    /\ UNCHANGED <<clock, active, snapshot, status, seen>>

\* The version a deletion finds: the first of the Vec with that number.
Target(r, n) ==
    {v \in Chain(r) : v.version = n /\ \A w \in Chain(r) : w.version = n => v.pos <= w.pos}

\* delete_version takes its timestamp before it looks for the version: the
\* clock advances on both error paths, "not found" and "modified by another".
DeleteVersion(r, t, n) ==
    LET doomed == {v \in Target(r, n) : CanModify(v, t)}
    IN  /\ status[t] = "active"
        /\ Chain(r) # {}
        /\ Tick
        /\ versions' = {IF v \in doomed THEN [v EXCEPT !.deleter = t, !.deleteTs = clock]
                        ELSE v : v \in versions}
        /\ UNCHANGED <<latest, active, snapshot, nextPos, status, seen>>

\* vacuum keeps what is stamped at or after `before' and what an active
\* transaction created, whether or not a newer version replaces it.
Vacuum(before) ==
    /\ Retain({v \in versions : v.commitTs >= before \/ v.creator \in active})
    /\ UNCHANGED <<clock, active, snapshot, nextPos, status, seen>>

MvccNext ==
    \/ \E t \in TxIds :
        \/ Begin(t)
        \/ Commit(t)
        \/ Abort(t)
        \/ \E r \in Records, n \in VersionNos :
            AddVersion(r, t, n) \/ DeleteVersion(r, t, n)
    \/ \E before \in VacuumPoints : before <= clock /\ Vacuum(before)

MvccSpec == MvccInit /\ [][MvccNext]_mvccVars

-----------------------------------------------------------------------------
(* Properties *)

MvccTypeOK ==
    /\ versions \subseteq Version /\ IsFiniteSet(versions)
    /\ latest \in [Records -> Nat]
    /\ clock \in Nat \ {0}
    /\ active \subseteq TxIds
    /\ snapshot \in [TxIds -> Nat]
    /\ nextPos \in Nat \ {0}
    /\ status \in [TxIds -> Status]
    /\ seen \in [TxIds -> SUBSET TxIds]

\* A snapshot separates the commits before it from those after it: of the
\* committed versions, a transaction's snapshot timestamp admits exactly those
\* of the transactions that had committed when begin_transaction took it.
SnapshotExact ==
    \A t \in active, v \in versions :
        v.creator \in Committed =>
            (v.commitTs <= snapshot[t] <=> v.creator \in seen[t])

\* commit_transaction stamps all versions that a transaction created with one
\* timestamp: no snapshot, held or future, can admit one of them and refuse
\* another.  Not so its deletions, which delete_version stamps when it is called
\* (mvcc.rs:349-355): a snapshot in between has the deletion without the rest.
CreatedTogether ==
    \A v, w \in versions :
        (v.creator = w.creator /\ v.creator \in Committed) => v.commitTs = w.commitTs

\* abort_transaction leaves no version of the transaction in any chain, so
\* nobody reads data that was rolled back.
AbortedInvisible ==
    \A t \in active, r \in Records :
        \A v \in VisibleVersions(r, t) : v.creator \notin Aborted

\* The index latest_committed goes stale when retain() shortens the Vec under
\* it.  Still, in a chain whose versions are all committed, get_latest_committed
\* never answers with one that has a newer one behind it.  Of other chains nothing
\* is claimed: add_version moves the index at once (mvcc.rs:124), so the answer may be
\* uncommitted, against "Get the latest committed version" (mvcc.rs:142).
LatestNotStale ==
    \A r \in Records :
        (\A v \in Chain(r) : v.creator \in Committed) =>
            \A v \in GetLatestCommitted(r), w \in Chain(r) : w.pos <= v.pos

CommittedView(t) ==
    {v.pos : v \in {w \in versions : w.creator \in Committed /\ IsVisible(w, t, snapshot[t])}}

\* "snapshot isolation and consistent reads" (mvcc.rs:3): as long as a transaction
\* keeps its snapshot, no commit, abort, insert or delete of anybody takes a
\* committed version out of its view.  Only vacuum does.
SnapshotStable ==
    [][(\A before \in VacuumPoints : ~Vacuum(before)) =>
          \A t \in active \cap active' :
             snapshot'[t] = snapshot[t] => CommittedView(t) \subseteq CommittedView(t)']_mvccVars
=============================================================================
