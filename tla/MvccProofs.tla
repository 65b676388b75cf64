----------------------------- MODULE MvccProofs -----------------------------
(***************************************************************************)
(* Proofs about Mvcc, for any transactions, records, bounds and vacuum     *)
(* points.                                                                 *)
(***************************************************************************)
EXTENDS Mvcc, FiniteSetTheorems, FunctionTheorems, TLAPS

\* The facts the snapshot properties rest on: a version is stamped exactly
\* when its creator has committed, with a timestamp already handed out;
\* versions belong to running or committed transactions; a snapshot lies
\* below the clock and remembers only transactions that have committed.
StampsOK ==
    /\ \A v \in versions : v.commitTs # 0 <=> v.creator \in Committed
    /\ \A v \in versions : v.commitTs < clock
    /\ \A v \in versions : status[v.creator] \in {"active", "committed"}

SnapshotsOK ==
    /\ active = {t \in TxIds : status[t] = "active"}
    /\ \A t \in TxIds : snapshot[t] < clock
    /\ \A t \in TxIds : seen[t] \subseteq Committed

MvccInv ==
    /\ MvccTypeOK
    /\ StampsOK
    /\ SnapshotsOK
    /\ CreatedTogether
    /\ SnapshotExact

-----------------------------------------------------------------------------
(* Type correctness *)

\* The initial state has the right types and satisfies the invariant.
LEMMA MvccInitInv == MvccInit => MvccInv
BY FS_EmptySet, MvccAssumption
DEF MvccInit, MvccInv, StampsOK, SnapshotsOK, MvccTypeOK, Version, Status, Committed,
    CreatedTogether, SnapshotExact

\* commit_transaction and delete_version rewrite versions in place: a finite
\* set of them stays finite.
LEMMA ImageFinite ==
    ASSUME NEW S, IsFiniteSet(S), NEW f, f = [v \in S |-> f[v]]
    PROVE  IsFiniteSet({f[v] : v \in S})
<1>1. f \in Surjection(S, {f[v] : v \in S})
  BY DEF Surjection
<1> QED
  BY <1>1, FS_Surjection

\* Retain keeps a subset of the versions: no type is disturbed.
LEMMA RetainType ==
    ASSUME MvccTypeOK, NEW kept \in SUBSET versions, Retain(kept)
    PROVE  /\ versions' \subseteq Version /\ IsFiniteSet(versions')
           /\ latest' \in [Records -> Nat]
<1>1. IsFiniteSet(kept)
  BY FS_Subset DEF MvccTypeOK
<1> QED
  BY <1>1 DEF MvccTypeOK, Retain

\* Every action preserves the types.
LEMMA MvccTypeStep ==
    ASSUME MvccTypeOK, [MvccNext]_mvccVars
    PROVE  MvccTypeOK'
<1> USE MvccAssumption
<1>1. ASSUME NEW t \in TxIds, Begin(t) PROVE MvccTypeOK'
  BY <1>1 DEF Begin, Committed, MvccTypeOK, Status, Tick
<1>2. ASSUME NEW t \in TxIds, Commit(t) PROVE MvccTypeOK'
  <2>1. versions' \subseteq Version
    BY <1>2 DEF Commit, MvccTypeOK, Version
  <2> DEFINE f == [v \in versions |-> IF v.creator = t THEN [v EXCEPT !.commitTs = clock] ELSE v]
  <2>2. versions' = {f[v] : v \in versions}
    BY <1>2 DEF Commit
  <2>3. IsFiniteSet(versions')
    <3>1. f = [v \in versions |-> f[v]]
      OBVIOUS
    <3> HIDE DEF f
    <3> QED
      BY <2>2, <3>1, ImageFinite DEF MvccTypeOK
  <2> QED
    BY <1>2, <2>1, <2>3 DEF Commit, MvccTypeOK, Status, Tick
<1>3. ASSUME NEW t \in TxIds, Abort(t) PROVE MvccTypeOK'
  BY <1>3, RetainType DEF Abort, MvccTypeOK, Status
<1>4. ASSUME NEW t \in TxIds, NEW r \in Records, NEW n \in VersionNos, AddVersion(r, t, n)
      PROVE  MvccTypeOK'
  <2> DEFINE new == [rec |-> r, creator |-> t, commitTs |-> 0, deleter |-> NoTx,
                     deleteTs |-> 0, version |-> n, pos |-> nextPos]
  <2>1. new \in Version /\ versions' = versions \cup {new}
    BY <1>4 DEF AddVersion, MvccTypeOK, Version
  <2>2. IsFiniteSet(versions')
    BY <2>1, FS_AddElement DEF MvccTypeOK
  <2>3. Cardinality(Chain(r)) \in Nat
    BY FS_Subset, FS_CardinalityType DEF Chain, MvccTypeOK
  <2> QED
    BY <1>4, <2>1, <2>2, <2>3 DEF AddVersion, MvccTypeOK
<1>5. ASSUME NEW t \in TxIds, NEW r \in Records, NEW n \in VersionNos, DeleteVersion(r, t, n)
      PROVE  MvccTypeOK'
  <2> DEFINE doomed == {v \in Target(r, n) : CanModify(v, t)}
             f == [v \in versions |->
                     IF v \in doomed THEN [v EXCEPT !.deleter = t, !.deleteTs = clock] ELSE v]
  <2>1. versions' = {f[v] : v \in versions}
    BY <1>5 DEF DeleteVersion
  <2>2. \A v \in versions : f[v] \in Version
    <3> HIDE DEF doomed
    <3> QED
      BY DEF MvccTypeOK, Version
  <2>3. IsFiniteSet(versions')
    <3>1. f = [v \in versions |-> f[v]]
      OBVIOUS
    <3> HIDE DEF f
    <3> QED
      BY <2>1, <3>1, ImageFinite DEF MvccTypeOK
  <2>4. clock' = clock + 1 /\ UNCHANGED <<latest, active, snapshot, nextPos, status, seen>>
    BY <1>5 DEF DeleteVersion, Tick
  <2> HIDE DEF f
  <2> QED
    BY <2>1, <2>2, <2>3, <2>4 DEF MvccTypeOK
<1>6. ASSUME NEW before \in VacuumPoints, Vacuum(before) PROVE MvccTypeOK'
  BY <1>6, RetainType DEF Vacuum, MvccTypeOK
<1>7. CASE UNCHANGED mvccVars
  BY <1>7 DEF mvccVars, MvccTypeOK
<1> QED
  BY <1>1, <1>2, <1>3, <1>4, <1>5, <1>6, <1>7 DEF MvccNext

-----------------------------------------------------------------------------
(* Snapshots *)

\* Taking a snapshot (Begin) keeps the invariant.
LEMMA BeginInv ==
    ASSUME MvccInv, NEW t \in TxIds, Begin(t), MvccTypeOK'
    PROVE  MvccInv'
<1> USE DEF MvccInv, MvccTypeOK, Begin, Tick
<1>1. Committed' = Committed
  BY DEF Committed
<1>2. StampsOK'
  BY <1>1 DEF StampsOK, Version
<1>3. SnapshotsOK'
  BY <1>1 DEF SnapshotsOK, Status
<1>4. CreatedTogether'
  BY <1>1 DEF CreatedTogether
<1>5. SnapshotExact'
  <2> SUFFICES ASSUME NEW u \in active', NEW v \in versions, v.creator \in Committed
               PROVE  v.commitTs <= snapshot'[u] <=> v.creator \in seen'[u]
    BY <1>1 DEF SnapshotExact
  <2>1. CASE u = t
    BY <2>1 DEF StampsOK, Version
  <2>2. CASE u # t
    BY <2>2 DEF SnapshotExact
  <2> QED
    BY <2>1, <2>2
<1> QED
  BY <1>2, <1>3, <1>4, <1>5

\* Committing stamps the transaction's versions above every snapshot held.
LEMMA CommitInv ==
    ASSUME MvccInv, NEW t \in TxIds, Commit(t), MvccTypeOK'
    PROVE  MvccInv'
<1> USE DEF MvccInv, MvccTypeOK, Tick
<1>1. Committed' = Committed \cup {t} /\ t \notin Committed
  BY DEF Committed, Commit, Status
<1>2. \A w \in versions' : \E v \in versions :
        /\ w.creator = v.creator
        /\ w.commitTs = IF v.creator = t THEN clock ELSE v.commitTs
  BY DEF Commit, Version
<1>3. StampsOK'
  <2> SUFFICES ASSUME NEW w \in versions'
               PROVE  /\ w.commitTs # 0 <=> w.creator \in Committed'
                      /\ w.commitTs < clock'
                      /\ status'[w.creator] \in {"active", "committed"}
    BY DEF StampsOK
  <2>1. PICK v \in versions : /\ w.creator = v.creator
                              /\ w.commitTs = IF v.creator = t THEN clock ELSE v.commitTs
    BY <1>2
  <2>2. v \in Version /\ clock \in Nat \ {0} /\ clock' = clock + 1
    BY DEF Commit
  <2>3. status'[v.creator] \in {"active", "committed"}
    BY <2>2 DEF Commit, StampsOK, Version
  <2> QED
    BY <1>1, <2>1, <2>2, <2>3 DEF StampsOK, Version
<1>4. SnapshotsOK'
  BY <1>1 DEF Commit, SnapshotsOK, Status
<1>5. CreatedTogether'
  BY <1>1, <1>2 DEF CreatedTogether
<1>6. SnapshotExact'
  <2> SUFFICES ASSUME NEW u \in active', NEW w \in versions', w.creator \in Committed'
               PROVE  w.commitTs <= snapshot[u] <=> w.creator \in seen[u]
    BY DEF SnapshotExact, Commit
  <2>1. PICK v \in versions : /\ w.creator = v.creator
                              /\ w.commitTs = IF v.creator = t THEN clock ELSE v.commitTs
    BY <1>2
  <2>2. u \in active /\ u \in TxIds
    BY DEF Commit
  <2>3. CASE v.creator = t
    BY <1>1, <2>1, <2>2, <2>3 DEF SnapshotsOK
  <2>4. CASE v.creator # t
    BY <1>1, <2>1, <2>2, <2>4 DEF SnapshotExact
  <2> QED
    BY <2>3, <2>4
<1> QED
  BY <1>3, <1>4, <1>5, <1>6

\* A step that takes no snapshot and commits nobody keeps the invariant when
\* each version afterwards is an old one, up to its delete mark, or a new one
\* of a running transaction that is not stamped.
LEMMA QuietInv ==
    ASSUME MvccInv, MvccTypeOK', SnapshotsOK',
           UNCHANGED <<snapshot, seen>>, active' \subseteq active,
           clock' >= clock, Committed' = Committed,
           \A w \in versions' :
               /\ status'[w.creator] \in {"active", "committed"}
               /\ \/ w.commitTs = 0 /\ w.creator \notin Committed
                  \/ \E v \in versions : w.creator = v.creator /\ w.commitTs = v.commitTs
    PROVE  MvccInv'
<1> USE DEF MvccInv, MvccTypeOK
<1>1. StampsOK'
  BY DEF StampsOK, Version
<1>2. CreatedTogether'
  BY DEF CreatedTogether
<1>3. SnapshotExact'
  BY DEF SnapshotExact
<1> QED
  BY <1>1, <1>2, <1>3

\* Rolling back removes the versions of the transaction and nothing else.
LEMMA AbortInv ==
    ASSUME MvccInv, NEW t \in TxIds, Abort(t), MvccTypeOK'
    PROVE  MvccInv'
<1> USE DEF MvccInv, MvccTypeOK
<1>1. Committed' = Committed
  BY DEF Abort, Committed, Status
<1>2. SnapshotsOK'
  BY <1>1 DEF Abort, SnapshotsOK, Status
<1>3. \A w \in versions' : w \in versions /\ status'[w.creator] \in {"active", "committed"}
  BY DEF Abort, Retain, StampsOK, Version
<1>4. UNCHANGED <<snapshot, seen, clock>> /\ active' \subseteq active
  BY DEF Abort
<1> QED
  BY <1>1, <1>2, <1>3, <1>4, QuietInv

\* A new version is unstamped and belongs to a running transaction.
LEMMA AddVersionInv ==
    ASSUME MvccInv, NEW t \in TxIds, NEW r \in Records, NEW n \in VersionNos,
           AddVersion(r, t, n), MvccTypeOK'
    PROVE  MvccInv'
<1> USE DEF MvccInv, MvccTypeOK
<1>1. UNCHANGED <<clock, active, snapshot, status, seen>> /\ Committed' = Committed
  BY DEF AddVersion, Committed
<1>2. SnapshotsOK'
  BY <1>1 DEF SnapshotsOK
<1>3. \A w \in versions' :
        /\ status'[w.creator] \in {"active", "committed"}
        /\ \/ w.commitTs = 0 /\ w.creator \notin Committed
           \/ \E v \in versions : w.creator = v.creator /\ w.commitTs = v.commitTs
  BY <1>1 DEF AddVersion, StampsOK, Committed
<1> QED
  BY <1>1, <1>2, <1>3, QuietInv

\* A delete mark changes neither creator nor stamp.
LEMMA DeleteVersionInv ==
    ASSUME MvccInv, NEW t \in TxIds, NEW r \in Records, NEW n \in VersionNos,
           DeleteVersion(r, t, n), MvccTypeOK'
    PROVE  MvccInv'
<1> USE DEF MvccInv, MvccTypeOK
<1>1. /\ UNCHANGED <<active, snapshot, status, seen>> /\ Committed' = Committed
      /\ clock' = clock + 1
  BY DEF DeleteVersion, Committed, Tick
<1>2. SnapshotsOK'
  BY <1>1 DEF SnapshotsOK
<1>3. \A w \in versions' : \E v \in versions :
        w.creator = v.creator /\ w.commitTs = v.commitTs
  BY DEF DeleteVersion, Version
<1>4. \A w \in versions' : status'[w.creator] \in {"active", "committed"}
  BY <1>1, <1>3 DEF StampsOK
<1> QED
  BY <1>1, <1>2, <1>3, <1>4, QuietInv

\* Vacuum only removes versions, whatever timestamp it is given.
LEMMA VacuumInv ==
    ASSUME MvccInv, NEW before, Vacuum(before), MvccTypeOK'
    PROVE  MvccInv'
<1> USE DEF MvccInv, MvccTypeOK
<1>1. UNCHANGED <<clock, active, snapshot, status, seen>> /\ Committed' = Committed
  BY DEF Vacuum, Committed
<1>2. SnapshotsOK'
  BY <1>1 DEF SnapshotsOK
<1>3. \A w \in versions' : w \in versions /\ status'[w.creator] \in {"active", "committed"}
  BY <1>1 DEF Vacuum, Retain, StampsOK
<1> QED
  BY <1>1, <1>2, <1>3, QuietInv

\* Every step of the store preserves the invariant.
LEMMA MvccStepInv ==
    ASSUME MvccInv, [MvccNext]_mvccVars
    PROVE  MvccInv'
<1>1. MvccTypeOK'
  BY MvccTypeStep DEF MvccInv
<1>2. CASE UNCHANGED mvccVars
  BY <1>2 DEF mvccVars, MvccInv, MvccTypeOK, StampsOK, SnapshotsOK, Committed,
              CreatedTogether, SnapshotExact
<1> QED
  BY <1>1, <1>2, BeginInv, CommitInv, AbortInv, AddVersionInv, DeleteVersionInv, VacuumInv
  DEF MvccNext

\* MVCCManager keeps its types and the invariant above in every reachable state.
THEOREM MvccInvariant == MvccSpec => []MvccInv
<1>1. MvccInit => MvccInv
  BY MvccInitInv
<1>2. MvccInv /\ [MvccNext]_mvccVars => MvccInv'
  BY MvccStepInv
<1> QED
  BY <1>1, <1>2, PTL DEF MvccSpec

\* Every state of the store is well typed.
THEOREM MvccTypeCorrect == MvccSpec => []MvccTypeOK
<1>1. MvccInv => MvccTypeOK
  BY DEF MvccInv
<1> QED
  BY <1>1, MvccInvariant, PTL

\* The timestamp of a snapshot admits exactly the commits that precede it.
THEOREM SnapshotsAreExact == MvccSpec => []SnapshotExact
<1>1. MvccInv => SnapshotExact
  BY DEF MvccInv
<1> QED
  BY <1>1, MvccInvariant, PTL

\* commit_transaction stamps all that a transaction created with one timestamp, so no
\* snapshot has one of its versions and not another.
THEOREM CommitsStampTogether == MvccSpec => []CreatedTogether
<1>1. MvccInv => CreatedTogether
  BY DEF MvccInv
<1> QED
  BY <1>1, MvccInvariant, PTL

\* Nobody reads a version of a transaction that was rolled back.
THEOREM AbortedAreInvisible == MvccSpec => []AbortedInvisible
<1>1. MvccInv => AbortedInvisible
  BY DEF MvccInv, StampsOK, AbortedInvisible, VisibleVersions, Chain, Aborted
<1> QED
  BY <1>1, MvccInvariant, PTL

\* No step but vacuum's removes a committed version from the view of a transaction
\* that keeps its snapshot.
THEOREM SnapshotsAreStable == MvccSpec => SnapshotStable
<1>1. ASSUME MvccInv, [MvccNext]_mvccVars, \A before \in VacuumPoints : ~Vacuum(before),
             NEW t \in active \cap active', snapshot'[t] = snapshot[t],
             NEW v \in versions, v.creator \in Committed, IsVisible(v, t, snapshot[t])
      PROVE  \E w \in versions' :
                w.creator \in Committed' /\ IsVisible(w, t, snapshot'[t]) /\ w.pos = v.pos
  <2> USE <1>1 DEF MvccInv, MvccTypeOK
  <2>0. t \in TxIds /\ v \in Version /\ v.creator \in TxIds
    BY DEF Version
  <2>1. ASSUME NEW u \in TxIds, Begin(u) PROVE v \in versions' /\ v.creator \in Committed'
    BY <2>0, <2>1 DEF Begin, Committed
  <2>2. ASSUME NEW u \in TxIds, Commit(u) PROVE v \in versions' /\ v.creator \in Committed'
    <3>1. v.creator # u
      BY <2>2 DEF Commit, Committed
    <3> QED
      BY <2>0, <2>2, <3>1 DEF Commit, Committed
  <2>3. ASSUME NEW u \in TxIds, Abort(u) PROVE v \in versions' /\ v.creator \in Committed'
    <3>1. v.creator # u
      BY <2>3 DEF Abort, Committed
    <3> QED
      BY <2>0, <2>3, <3>1 DEF Abort, Retain, Committed
  <2>4. ASSUME NEW u \in TxIds, NEW r \in Records, NEW n \in VersionNos, AddVersion(r, u, n)
        PROVE  v \in versions' /\ v.creator \in Committed'
    BY <2>0, <2>4 DEF AddVersion, Committed
  <2>5. ASSUME NEW u \in TxIds, NEW r \in Records, NEW n \in VersionNos, DeleteVersion(r, u, n)
        PROVE  \E w \in versions' :
                 w.creator \in Committed' /\ IsVisible(w, t, snapshot'[t]) /\ w.pos = v.pos
    <3>1. \/ v \in versions'
          \/ [v EXCEPT !.deleter = u, !.deleteTs = clock] \in versions'
      BY <2>5 DEF DeleteVersion
    <3>2. Committed' = Committed
      BY <2>5 DEF DeleteVersion, Committed
    <3>3. snapshot[t] < clock /\ clock \in Nat /\ snapshot[t] \in Nat
      BY <2>0 DEF SnapshotsOK
    <3>4. CASE v \in versions'
      BY <3>2, <3>4
    <3>5. CASE [v EXCEPT !.deleter = u, !.deleteTs = clock] \in versions'
      BY <2>0, <3>2, <3>3, <3>5 DEF IsVisible, Version
    <3> QED
      BY <3>1, <3>4, <3>5
  <2>6. CASE UNCHANGED mvccVars
    BY <2>6 DEF mvccVars, Committed
  <2> QED
    BY <2>1, <2>2, <2>3, <2>4, <2>5, <2>6 DEF MvccNext
<1>2. MvccInv /\ [MvccNext]_mvccVars =>
        [(\A before \in VacuumPoints : ~Vacuum(before)) =>
            \A t \in active \cap active' :
              snapshot'[t] = snapshot[t] => CommittedView(t) \subseteq CommittedView(t)']_mvccVars
  BY <1>1 DEF CommittedView
<1> QED
  BY <1>2, MvccInvariant, PTL DEF MvccSpec, SnapshotStable

-----------------------------------------------------------------------------
(* latest_committed *)

\* The index goes stale in one direction only: it may point past the end of the
\* chain, never before it.
IndexCovers == \A r \in Records : Cardinality(Chain(r)) <= latest[r]

\* A chain is a finite set of versions.
LEMMA ChainFinite ==
    ASSUME MvccTypeOK, NEW r
    PROVE  IsFiniteSet(Chain(r)) /\ Cardinality(Chain(r)) \in Nat
BY FS_Subset, FS_CardinalityType DEF Chain, MvccTypeOK

\* Versions rewritten in place, each in its own chain, make no chain longer.
LEMMA RewriteKeepsIndex ==
    ASSUME MvccTypeOK, MvccTypeOK', IndexCovers, NEW f, f = [v \in versions |-> f[v]],
           versions' = {f[v] : v \in versions}, \A v \in versions : f[v].rec = v.rec,
           UNCHANGED latest
    PROVE  IndexCovers'
<1> SUFFICES ASSUME NEW r \in Records PROVE Cardinality(Chain(r)') <= latest'[r]
  BY DEF IndexCovers
<1> DEFINE old == Chain(r)
           new == Chain(r)'
           g == [v \in old |-> f[v]]
<1>1. IsFiniteSet(old) /\ Cardinality(old) \in Nat /\ Cardinality(old) <= latest[r] /\ latest[r] \in Nat
  BY ChainFinite DEF IndexCovers, MvccTypeOK
<1>2. IsFiniteSet(versions') /\ new \subseteq versions'
  BY DEF MvccTypeOK, Chain
<1>3. Cardinality(new) \in Nat
  BY <1>2, FS_Subset, FS_CardinalityType
<1>4. g \in Surjection(old, new)
  <2>1. \A v \in old : f[v] \in new
    BY DEF Chain
  <2>2. ASSUME NEW w \in new PROVE \E v \in old : g[v] = w
    <3>1. PICK v \in versions : w = f[v]
      BY DEF Chain
    <3>2. v \in old
      BY <3>1 DEF Chain
    <3> QED
      BY <3>1, <3>2
  <2>3. g \in [old -> new]
    BY <2>1
  <2> HIDE DEF old, new, g
  <2> QED
    BY <2>2, <2>3 DEF Surjection
<1> HIDE DEF old, new, g
<1>5. Cardinality(new) <= Cardinality(old)
  BY <1>1, <1>4, FS_Surjection
<1> QED
  BY <1>1, <1>3, <1>5 DEF new

\* retain() shortens chains, and drops the index with the chain.
LEMMA RetainKeepsIndex ==
    ASSUME MvccTypeOK, IndexCovers, NEW kept \in SUBSET versions, Retain(kept)
    PROVE  IndexCovers'
<1> SUFFICES ASSUME NEW r \in Records PROVE Cardinality(Chain(r)') <= latest'[r]
  BY DEF IndexCovers
<1> DEFINE old == Chain(r)
           new == Chain(r)'
<1>1. IsFiniteSet(old) /\ Cardinality(old) \in Nat /\ Cardinality(old) <= latest[r] /\ latest[r] \in Nat
  BY ChainFinite DEF IndexCovers, MvccTypeOK
<1>2. new \in SUBSET old /\ new = {v \in kept : v.rec = r}
  BY DEF Retain, Chain
<1>3. Cardinality(new) \in Nat /\ Cardinality(new) <= Cardinality(old)
  BY <1>1, <1>2, FS_Subset, FS_CardinalityType
<1>4. latest'[r] = IF \E v \in kept : v.rec = r THEN latest[r] ELSE 0
  BY DEF Retain
<1>5. CASE \E v \in kept : v.rec = r
  BY <1>1, <1>3, <1>4, <1>5
<1>6. CASE ~\E v \in kept : v.rec = r
  <2>1. new = {}
    BY <1>2, <1>6
  <2>2. Cardinality(new) = 0
    BY <2>1, FS_EmptySet
  <2> QED
    BY <1>4, <1>6, <2>2
<1> QED
  BY <1>5, <1>6

\* Every step of the store keeps the index at or past the end of the chain.
LEMMA IndexStep ==
    ASSUME MvccTypeOK, IndexCovers, [MvccNext]_mvccVars
    PROVE  IndexCovers'
<1>0. MvccTypeOK'
  BY MvccTypeStep
<1>1. CASE UNCHANGED <<versions, latest>>
  BY <1>1 DEF IndexCovers, Chain
<1>2. ASSUME NEW t \in TxIds, Commit(t) PROVE IndexCovers'
  <2> DEFINE f == [v \in versions |-> IF v.creator = t THEN [v EXCEPT !.commitTs = clock] ELSE v]
  <2>1. versions' = {f[v] : v \in versions} /\ UNCHANGED latest
    BY <1>2 DEF Commit
  <2>2. \A v \in versions : f[v].rec = v.rec
    BY DEF MvccTypeOK, Version
  <2>3. f = [v \in versions |-> f[v]]
    OBVIOUS
  <2> HIDE DEF f
  <2> QED
    BY <1>0, <2>1, <2>2, <2>3, RewriteKeepsIndex
<1>3. ASSUME NEW t \in TxIds, NEW r \in Records, NEW n \in VersionNos, DeleteVersion(r, t, n)
      PROVE  IndexCovers'
  <2> DEFINE doomed == {v \in Target(r, n) : CanModify(v, t)}
             f == [v \in versions |->
                     IF v \in doomed THEN [v EXCEPT !.deleter = t, !.deleteTs = clock] ELSE v]
  <2>1. versions' = {f[v] : v \in versions} /\ UNCHANGED latest
    BY <1>3 DEF DeleteVersion
  <2>2. \A v \in versions : f[v].rec = v.rec
    <3> HIDE DEF doomed
    <3> QED
      BY DEF MvccTypeOK, Version
  <2>3. f = [v \in versions |-> f[v]]
    OBVIOUS
  <2> HIDE DEF f
  <2> QED
    BY <1>0, <2>1, <2>2, <2>3, RewriteKeepsIndex
<1>4. ASSUME NEW t \in TxIds, NEW r \in Records, NEW n \in VersionNos, AddVersion(r, t, n)
      PROVE  IndexCovers'
  <2> SUFFICES ASSUME NEW q \in Records PROVE Cardinality(Chain(q)') <= latest'[q]
    BY DEF IndexCovers
  <2>1. PICK new : new.rec = r /\ versions' = versions \cup {new}
    BY <1>4 DEF AddVersion
  <2>2. latest' = [latest EXCEPT ![r] = Cardinality(Chain(r)) + 1]
    BY <1>4 DEF AddVersion
  <2>3. /\ IsFiniteSet(Chain(q)) /\ Cardinality(Chain(q)) \in Nat
        /\ Cardinality(Chain(q)) <= latest[q] /\ latest \in [Records -> Nat]
    BY ChainFinite DEF IndexCovers, MvccTypeOK
  <2>4. CASE q = r
    <3>1. Chain(q)' = Chain(q) \cup {new}
      BY <2>1, <2>4 DEF Chain
    <3>2. Cardinality(Chain(q) \cup {new}) <= Cardinality(Chain(q)) + 1
      BY <2>3, FS_AddElement
    <3> QED
      BY <2>2, <2>3, <2>4, <3>1, <3>2
  <2>5. CASE q # r
    <3>1. Chain(q)' = Chain(q)
      BY <2>1, <2>5 DEF Chain
    <3> QED
      BY <2>2, <2>3, <2>5, <3>1
  <2> QED
    BY <2>4, <2>5
<1>5. ASSUME NEW t \in TxIds, Abort(t) PROVE IndexCovers'
  BY <1>5, RetainKeepsIndex DEF Abort
<1>6. ASSUME NEW before, Vacuum(before) PROVE IndexCovers'
  BY <1>6, RetainKeepsIndex DEF Vacuum
<1>7. ASSUME NEW t \in TxIds, Begin(t) PROVE IndexCovers'
  BY <1>1, <1>7 DEF Begin
<1> QED
  BY <1>1, <1>2, <1>3, <1>4, <1>5, <1>6, <1>7 DEF MvccNext, mvccVars

\* What the index finds, if anything, is the end of the chain: two versions, one
\* after the other, cannot both lie in front of it.
LEMMA CoveredIsNewest ==
    ASSUME MvccTypeOK, IndexCovers
    PROVE  \A r \in Records : \A v \in GetLatestCommitted(r), w \in Chain(r) : w.pos <= v.pos
<1> SUFFICES ASSUME NEW r \in Records, NEW v \in GetLatestCommitted(r), NEW w \in Chain(r),
                    ~(w.pos <= v.pos)
             PROVE  FALSE
  OBVIOUS
<1> DEFINE before == {x \in Chain(r) : x.pos < v.pos}
           rest == Chain(r) \ {v}
<1>1. v \in Chain(r) /\ Cardinality(before) = latest[r] - 1
  BY DEF GetLatestCommitted, AtIndex
<1>2. v.pos \in Nat /\ w.pos \in Nat /\ v.pos < w.pos /\ w # v
  BY <1>1 DEF Chain, MvccTypeOK, Version
<1>3. /\ IsFiniteSet(Chain(r)) /\ Cardinality(Chain(r)) \in Nat
      /\ Cardinality(Chain(r)) <= latest[r] /\ latest[r] \in Nat
  BY ChainFinite DEF IndexCovers, MvccTypeOK
<1>4. IsFiniteSet(rest) /\ Cardinality(rest) = Cardinality(Chain(r)) - 1
  BY <1>1, <1>3, FS_RemoveElement
<1>5. before \in SUBSET (rest \ {w})
  BY <1>2
<1>6. IsFiniteSet(rest \ {w}) /\ Cardinality(rest \ {w}) = Cardinality(rest) - 1
  BY <1>2, <1>4, FS_RemoveElement
<1>7. Cardinality(before) <= Cardinality(rest \ {w})
  BY <1>5, <1>6, FS_Subset
<1> QED
  BY <1>1, <1>3, <1>4, <1>6, <1>7

\* Although retain() moves versions under the index, get_latest_committed never
\* answers with a version that has a newer one behind it in a committed chain.
THEOREM LatestIsNeverStale == MvccSpec => []LatestNotStale
<1>1. MvccInit => IndexCovers
  <2> SUFFICES ASSUME MvccInit, NEW r \in Records PROVE Cardinality(Chain(r)) <= latest[r]
    BY DEF IndexCovers
  <2>1. Chain(r) = {} /\ latest[r] = 0
    BY DEF MvccInit, Chain
  <2> QED
    BY <2>1, FS_EmptySet
<1>2. MvccInv /\ IndexCovers /\ [MvccNext]_mvccVars => IndexCovers'
  BY IndexStep DEF MvccInv
<1>3. MvccInv /\ IndexCovers => LatestNotStale
  BY CoveredIsNewest DEF MvccInv, LatestNotStale
<1> QED
  BY <1>1, <1>2, <1>3, MvccInvariant, PTL DEF MvccSpec
=============================================================================
