---------------------- MODULE TransactionManagerProofs ----------------------
(***************************************************************************)
(* Proofs about TransactionManager, for any number of threads and          *)
(* transactions, any workload and any buffer size of the log.              *)
(***************************************************************************)
EXTENDS TransactionManager, MvccProofs, SequenceTheorems

Rec == Log!WalRecord

OutcomeKinds == {"Commit", "Abort"}

\* A record of that kind, for that transaction, is among recs; in the log.
Has(recs, kind, t) == \E i \in DOMAIN recs : recs[i].kind = kind /\ recs[i].tx = t
InLog(kind, t) == Has(file, kind, t) \/ Has(buffer, kind, t)

\* Nothing has been decided about t, and nobody has been told anything.
Unended(t) == ~InLog("Commit", t) /\ ~InLog("Abort", t) /\ reported[t] = "none"

\* Where a thread is while it begins, commits, or rolls back a transaction.
BeginPcs == {"begin", "snapshot", "register"}
CommitPcs == {"commitLog", "commitFlush", "commitMvcc", "finalLog", "finalFlush",
              "commitDone", "commitFailed"}
AbortPcs == {"abortLog", "abortFlush", "abortMvcc", "abortFailed"}
Pcs == {"idle", "panicked", "beginLog", "commitTake"} \cup BeginPcs \cup CommitPcs \cup AbortPcs

\* A transaction that is in nobody's table belongs to the thread that has not
\* registered it yet, or to the one that has taken it out to end it.
Owner(th) == pc[th] \in BeginPcs \cup CommitPcs \cup AbortPcs

\* Where the transaction of an owner is active in the MVCC store.
LivePcs == {"snapshot", "register", "commitLog", "commitFlush", "commitMvcc",
            "abortLog", "abortFlush", "abortMvcc"}

TmTypes ==
    /\ TmTypeOK
    /\ load \in Workload
    /\ file \in Seq(Rec) /\ buffer \in Seq(Rec) /\ nextLsn \in Nat \ {0}
    /\ nextId \in Nat \ {0}
    /\ pc \in [Threads -> Pcs]
    /\ commitLsn \in [Threads -> Nat]
    /\ poisoned \in BOOLEAN /\ failed \in BOOLEAN /\ up \in BOOLEAN

OwnOf(th) ==
    /\ tx[th] < nextId
    /\ pc[th] \notin {"idle", "panicked"} => tx[th] \in TxIds
    /\ Owner(th) => tx[th] \notin registered

\* Every transaction that is registered or not begun is undecided; one that is
\* not registered has at most one owner.
Ownership ==
    /\ \A th \in Threads : OwnOf(th)
    /\ \A t \in registered : t < nextId /\ Unended(t)
    /\ \A t \in TxIds : t >= nextId => Unended(t)
    /\ \A th, other \in Threads :
        (th # other /\ Owner(th) /\ Owner(other)) => tx[th] # tx[other]

\* How far an owner has come with its transaction.
StageOf(th) ==
    /\ pc[th] \in BeginPcs \cup {"commitLog", "abortLog"} => Unended(tx[th])
    /\ pc[th] \in CommitPcs => ~InLog("Abort", tx[th]) /\ reported[tx[th]] = "none"
    /\ pc[th] \in AbortPcs => ~InLog("Commit", tx[th]) /\ reported[tx[th]] = "none"
    /\ pc[th] = "commitFlush" => InLog("Commit", tx[th])
    /\ pc[th] = "abortFlush" => InLog("Abort", tx[th])
    /\ pc[th] \in {"commitMvcc", "finalLog", "finalFlush", "commitDone"} => OnDisk("Commit", tx[th])
    /\ pc[th] = "abortMvcc" => OnDisk("Abort", tx[th])
    /\ pc[th] \in {"commitFlush", "commitMvcc", "finalLog"} => commitLsn[th] > 0

Stages == \A th \in Threads : StageOf(th)

FlushPcs == {"commitFlush", "finalFlush", "abortFlush"}

\* The log is held exactly by a thread about to flush, and only the outcome that
\* this thread has just appended waits in the buffer.
Holding ==
    /\ \A th \in Threads : walHolder = th <=> pc[th] \in FlushPcs
    /\ \A kind \in OutcomeKinds, t \in TxIds : Has(buffer, kind, t) =>
        /\ walHolder \in Threads /\ tx[walHolder] = t
        /\ kind = "Commit" <=> pc[walHolder] \in {"commitFlush", "finalFlush"}

\* The transactions active in the store are those registered, and those in the
\* hands of a thread between its two visits to the tables.
TablesMatch ==
    (~failed /\ \A th \in Threads : pc[th] # "panicked") =>
        \A t \in TxIds :
            t \in active <=> \/ t \in registered
                             \/ \E th \in Threads : tx[th] = t /\ pc[th] \in LivePcs

Running == Ownership /\ Stages /\ Holding /\ TablesMatch

Decided == \A t \in TxIds : ~(InLog("Commit", t) /\ InLog("Abort", t))

\* The inductive invariant.
TmIInv ==
    /\ TmTypes
    /\ MvccInv
    /\ up => Running
    /\ Decided
    /\ WriteAheadCommit

-----------------------------------------------------------------------------
(* Records in the log *)

\* What two parts of the log hold together.
LEMMA HasConcat ==
    ASSUME NEW f \in Seq(Rec), NEW g \in Seq(Rec), NEW kind, NEW t
    PROVE  Has(f \o g, kind, t) <=> Has(f, kind, t) \/ Has(g, kind, t)
<1> DEFINE all == f \o g
<1>1. /\ Len(f) \in Nat /\ Len(g) \in Nat
      /\ DOMAIN f = 1 .. Len(f) /\ DOMAIN g = 1 .. Len(g)
      /\ DOMAIN all = 1 .. Len(f) + Len(g)
      /\ \A i \in 1 .. Len(f) : all[i] = f[i]
      /\ \A i \in 1 .. Len(g) : all[Len(f) + i] = g[i]
      /\ \A i \in Len(f) + 1 .. Len(f) + Len(g) : all[i] = g[i - Len(f)]
  OBVIOUS
<1> HIDE DEF all
<1>2. ASSUME Has(all, kind, t) PROVE Has(f, kind, t) \/ Has(g, kind, t)
  <2>1. PICK i \in DOMAIN all : all[i].kind = kind /\ all[i].tx = t
    BY <1>2 DEF Has
  <2>2. CASE i <= Len(f)
    BY <1>1, <2>1, <2>2 DEF Has
  <2>3. CASE i > Len(f)
    <3>1. i - Len(f) \in DOMAIN g /\ all[i] = g[i - Len(f)]
      BY <1>1, <2>3
    <3> QED
      BY <2>1, <3>1 DEF Has
  <2> QED
    BY <1>1, <2>2, <2>3
<1>3. ASSUME Has(f, kind, t) PROVE Has(all, kind, t)
  BY <1>1, <1>3 DEF Has
<1>4. ASSUME Has(g, kind, t) PROVE Has(all, kind, t)
  <2>1. PICK i \in DOMAIN g : g[i].kind = kind /\ g[i].tx = t
    BY <1>4 DEF Has
  <2>2. Len(f) + i \in DOMAIN all /\ all[Len(f) + i] = g[i]
    BY <1>1, <2>1
  <2> QED
    BY <2>1, <2>2 DEF Has
<1> QED
  BY <1>2, <1>3, <1>4 DEF all

\* One record.
LEMMA HasOne ==
    ASSUME NEW rec, NEW kind, NEW t
    PROVE  Has(<<rec>>, kind, t) <=> rec.kind = kind /\ rec.tx = t
<1>1. DOMAIN <<rec>> = {1} /\ <<rec>>[1] = rec
  OBVIOUS
<1> QED
  BY <1>1 DEF Has

\* An empty buffer holds nothing.
LEMMA HasNone == \A kind, t : ~Has(<<>>, kind, t)
BY DEF Has

\* What was cut off is no longer a commit or abort record.
LEMMA TornNoOutcome ==
    ASSUME NEW rec \in Rec, NEW piece \in Log!TornPieces(rec)
    PROVE  piece \in Rec /\ piece.kind \notin OutcomeKinds
BY DEF Log!TornPieces, Rec, Log!WalRecord, Log!TornKinds, OutcomeKinds

\* A flush that stops early keeps the outcomes of the file, and adds none that
\* is not in the buffer.
LEMMA PartlyHas ==
    ASSUME NEW f \in Seq(Rec), NEW recs \in Seq(Rec), NEW g \in Log!PartlyWritten(f, recs)
    PROVE  /\ g \in Seq(Rec)
           /\ \A kind \in OutcomeKinds : \A t :
                /\ Has(f, kind, t) => Has(g, kind, t)
                /\ Has(g, kind, t) => Has(f, kind, t) \/ Has(recs, kind, t)
<1>1. \A n \in 0 .. Len(recs) :
        /\ SubSeq(recs, 1, n) \in Seq(Rec) /\ f \o SubSeq(recs, 1, n) \in Seq(Rec)
        /\ \A kind, t : Has(SubSeq(recs, 1, n), kind, t) => Has(recs, kind, t)
  <2> SUFFICES ASSUME NEW n \in 0 .. Len(recs)
               PROVE  /\ SubSeq(recs, 1, n) \in Seq(Rec)
                      /\ f \o SubSeq(recs, 1, n) \in Seq(Rec)
                      /\ \A kind, t : Has(SubSeq(recs, 1, n), kind, t) => Has(recs, kind, t)
    OBVIOUS
  <2> DEFINE part == SubSeq(recs, 1, n)
  <2>1. /\ part \in Seq(Rec) /\ f \o part \in Seq(Rec)
        /\ DOMAIN part \subseteq DOMAIN recs /\ \A i \in DOMAIN part : part[i] = recs[i]
    OBVIOUS
  <2> HIDE DEF part
  <2>2. \A kind, t : Has(part, kind, t) => Has(recs, kind, t)
    BY <2>1 DEF Has
  <2> QED
    BY <2>1, <2>2 DEF part
<1>2. ASSUME NEW n \in 0 .. Len(recs), g = f \o SubSeq(recs, 1, n)
      PROVE  /\ g \in Seq(Rec)
             /\ \A kind \in OutcomeKinds : \A t :
                  /\ Has(f, kind, t) => Has(g, kind, t)
                  /\ Has(g, kind, t) => Has(f, kind, t) \/ Has(recs, kind, t)
  <2> DEFINE part == SubSeq(recs, 1, n)
  <2> HIDE DEF part
  <2>1. part \in Seq(Rec) /\ g \in Seq(Rec) /\ g = f \o part
        /\ \A kind, t : Has(part, kind, t) => Has(recs, kind, t)
    BY <1>1, <1>2 DEF part
  <2>2. \A kind, t : Has(g, kind, t) <=> Has(f, kind, t) \/ Has(part, kind, t)
    BY <2>1, HasConcat
  <2> QED
    BY <2>1, <2>2
<1>3. ASSUME NEW n \in 0 .. Len(recs) - 1, NEW piece \in Log!TornPieces(recs[n + 1]),
             g = f \o SubSeq(recs, 1, n) \o <<piece>>
      PROVE  /\ g \in Seq(Rec)
             /\ \A kind \in OutcomeKinds : \A t :
                  /\ Has(f, kind, t) => Has(g, kind, t)
                  /\ Has(g, kind, t) => Has(f, kind, t) \/ Has(recs, kind, t)
  <2> DEFINE part == SubSeq(recs, 1, n)
             most == f \o part
             last == <<piece>>
  <2>1. recs[n + 1] \in Rec /\ n \in 0 .. Len(recs)
    OBVIOUS
  <2>2. piece \in Rec /\ piece.kind \notin OutcomeKinds
    BY <2>1, TornNoOutcome
  <2>3. /\ part \in Seq(Rec) /\ most \in Seq(Rec)
        /\ \A kind, t : Has(part, kind, t) => Has(recs, kind, t)
    BY <1>1, <2>1
  <2>4. last \in Seq(Rec) /\ \A kind \in OutcomeKinds : \A t : ~Has(last, kind, t)
    BY <2>2, HasOne
  <2> HIDE DEF part
  <2>5. \A kind, t : Has(most, kind, t) <=> Has(f, kind, t) \/ Has(part, kind, t)
    BY <2>3, HasConcat
  <2>6. g = most \o last
    BY <1>3 DEF part
  <2> HIDE DEF most, last
  <2>7. g \in Seq(Rec)
    BY <2>3, <2>4, <2>6
  <2>8. \A kind, t : Has(g, kind, t) <=> Has(most, kind, t) \/ Has(last, kind, t)
    BY <2>3, <2>4, <2>6, HasConcat
  <2> QED
    BY <2>3, <2>4, <2>5, <2>7, <2>8
<1> QED
  BY <1>2, <1>3 DEF Log!PartlyWritten, Log!Stored

\* append_record keeps what the file held, adds at most its own record, and adds
\* it when it returns Ok; when it fails, the buffer is empty.
LEMMA AppendHas ==
    ASSUME NEW f \in Seq(Rec), NEW b \in Seq(Rec), NEW kind, NEW t, NEW prev, NEW ok \in BOOLEAN,
           Log!Record(kind, t, prev, nextLsn) \in Rec,
           Log!AppendOn(f, b, kind, t, prev, ok)
    PROVE  /\ file' \in Seq(Rec) /\ buffer' \in Seq(Rec) /\ nextLsn' = nextLsn + 1
           /\ \A k \in OutcomeKinds : \A u :
                /\ Has(f, k, u) => Has(file', k, u)
                /\ Has(file', k, u) => Has(f, k, u) \/ Has(b, k, u) \/ (k = kind /\ u = t)
                /\ Has(buffer', k, u) => ok /\ (Has(b, k, u) \/ (k = kind /\ u = t))
                /\ ok /\ (Has(b, k, u) \/ (k = kind /\ u = t)) => Has(file', k, u) \/ Has(buffer', k, u)
<1> DEFINE rec == Log!Record(kind, t, prev, nextLsn)
           one == <<rec>>
           full == Append(b, rec)
<1>1. rec \in Rec /\ rec.kind = kind /\ rec.tx = t
  BY DEF Log!Record
<1> HIDE DEF rec
<1>2. one \in Seq(Rec) /\ full \in Seq(Rec) /\ full = b \o one
  BY <1>1
<1>3. \A k, u : Has(one, k, u) <=> k = kind /\ u = t
  BY <1>1, HasOne
<1> HIDE DEF one, full
<1>4. \A k, u : Has(full, k, u) <=> Has(b, k, u) \/ (k = kind /\ u = t)
  BY <1>2, <1>3, HasConcat
<1>5. nextLsn' = nextLsn + 1
  BY DEF Log!AppendOn
<1>6. CASE ok /\ buffer' = full /\ file' = f
  BY <1>2, <1>4, <1>5, <1>6
<1>7. CASE ok /\ buffer' = <<>> /\ file' = f \o full
  <2>1. file' \in Seq(Rec) /\ buffer' \in Seq(Rec)
    BY <1>2, <1>7
  <2>2. \A k, u : Has(file', k, u) <=> Has(f, k, u) \/ Has(full, k, u)
    BY <1>2, <1>7, HasConcat
  <2>3. \A k, u : ~Has(buffer', k, u)
    BY <1>7, HasNone
  <2> QED
    BY <1>4, <1>5, <1>7, <2>1, <2>2, <2>3
<1>8. CASE ~ok /\ buffer' = <<>> /\ file' \in Log!PartlyWritten(f, full)
  <2>1. /\ file' \in Seq(Rec)
        /\ \A k \in OutcomeKinds : \A u :
              /\ Has(f, k, u) => Has(file', k, u)
              /\ Has(file', k, u) => Has(f, k, u) \/ Has(full, k, u)
    BY <1>2, <1>8, PartlyHas, ZenonT(30)
  <2>2. buffer' \in Seq(Rec)
    BY <1>8
  <2>3. ~ok /\ \A k, u : ~Has(buffer', k, u)
    BY <1>8, HasNone
  <2> QED
    BY <1>4, <1>5, <2>1, <2>2, <2>3
<1> QED
  BY <1>6, <1>7, <1>8 DEF Log!AppendOn, Log!Stored, full, rec

-----------------------------------------------------------------------------
(* Steps that decide nothing *)

\* The step changes nothing about t: neither in the log nor for its caller.
Same(t) ==
    /\ \A k \in OutcomeKinds :
        (Has(file', k, t) <=> Has(file, k, t)) /\ (Has(buffer', k, t) <=> Has(buffer, k, t))
    /\ reported'[t] = reported[t]

\* Then the log says the same of it.
LEMMA SameFacts ==
    ASSUME NEW t, Same(t)
    PROVE  /\ Unended(t)' <=> Unended(t)
           /\ InLog("Commit", t)' <=> InLog("Commit", t)
           /\ InLog("Abort", t)' <=> InLog("Abort", t)
           /\ OnDisk("Commit", t)' <=> OnDisk("Commit", t)
           /\ OnDisk("Abort", t)' <=> OnDisk("Abort", t)
<1>1. \A k \in OutcomeKinds : (InLog(k, t)' <=> InLog(k, t)) /\ (OnDisk(k, t)' <=> OnDisk(k, t))
  BY DEF Same, InLog, OnDisk, Has
<1>2. "Commit" \in OutcomeKinds /\ "Abort" \in OutcomeKinds
  BY DEF OutcomeKinds
<1> QED
  BY <1>1, <1>2 DEF Unended, Same

\* A step of the abstract specification of outcomes, or none.
Promised == [Promise!OutcomeNext]_<<DurableOutcome, reported>>

\* A step that changes nothing about any transaction is none of it.
LEMMA QuietPromise ==
    ASSUME TmTypes, TmTypes', \A t \in TxIds : Same(t)
    PROVE  Promised
<1>1. DurableOutcome' = DurableOutcome
  BY SameFacts DEF DurableOutcome
<1>2. reported' = reported
  BY DEF Same, TmTypes, TmTypeOK
<1> QED
  BY <1>1, <1>2 DEF Promised

\* A step that may put an outcome of t on the disk, and tells nobody, decides t
\* or is none.
LEMMA DecideStep ==
    ASSUME TmTypes, TmTypes', Decided, Decided', NEW t \in TxIds,
           \A u \in TxIds : u # t => Same(u), UNCHANGED reported,
           \A k \in OutcomeKinds : OnDisk(k, t) => OnDisk(k, t)'
    PROVE  Promised
<1>1. \A u \in TxIds : u # t => DurableOutcome'[u] = DurableOutcome[u]
  BY SameFacts DEF DurableOutcome
<1>2. /\ OnDisk("Commit", t) => OnDisk("Commit", t)' /\ ~OnDisk("Abort", t)'
      /\ OnDisk("Abort", t) => OnDisk("Abort", t)' /\ ~OnDisk("Commit", t)'
  BY DEF Decided, OutcomeKinds, InLog, OnDisk, Has
<1>3. \/ DurableOutcome'[t] = DurableOutcome[t]
      \/ DurableOutcome[t] = "undecided" /\ DurableOutcome'[t] \in {"committed", "aborted"}
  BY <1>2 DEF DurableOutcome
<1> DEFINE now == DurableOutcome
           next == DurableOutcome'
<1>4. /\ now = [u \in TxIds |-> now[u]] /\ next = [u \in TxIds |-> next[u]]
  BY DEF DurableOutcome
<1> HIDE DEF now, next
<1>5. CASE next[t] = now[t]
  <2>1. next = now
    BY <1>1, <1>4, <1>5 DEF now, next
  <2> QED
    BY <2>1 DEF Promised, now, next
<1>6. CASE now[t] = "undecided" /\ next[t] \in {"committed", "aborted"}
  <2>1. next = [now EXCEPT ![t] = next[t]]
    BY <1>1, <1>4 DEF now, next
  <2> QED
    BY <1>6, <2>1 DEF Promised, Promise!OutcomeNext, Promise!Decide, Promise!Outcome, now, next
<1> QED
  BY <1>3, <1>5, <1>6 DEF now, next

\* A call that returns without touching the file tells its caller.
LEMMA TellStep ==
    ASSUME UNCHANGED file, NEW t \in TxIds, reported[t] = "none", NEW answer,
           Report(t, answer), answer = "error" \/ answer \in {"committed", "aborted"} \cap {DurableOutcome[t]}
    PROVE  Promised
<1>1. DurableOutcome' = DurableOutcome
  BY DEF DurableOutcome, OnDisk
<1> QED
  BY <1>1 DEF Promised, Report, Promise!OutcomeNext, Promise!Tell, Promise!Outcome

\* A step outside the log that tells nobody anything.
LEMMA NoLogStep ==
    ASSUME UNCHANGED <<file, buffer, reported>>
    PROVE  \A t \in TxIds : Same(t)
BY DEF Same

\* With the log unlocked, the buffer holds no outcome, and a record that is none
\* changes none.
LEMMA QuietAppend ==
    ASSUME TmTypes, Holding, walHolder = NoThread, NEW kind \in {"Begin", "Modify"}, NEW t \in TxIds,
           NEW ok \in BOOLEAN, AppendLog(kind, t, LogNoLsn, ok), UNCHANGED reported
    PROVE  /\ file' \in Seq(Rec) /\ buffer' \in Seq(Rec) /\ nextLsn' \in Nat \ {0}
           /\ \A u \in TxIds : Same(u)
<1>1. \A k \in OutcomeKinds, u \in TxIds : ~Has(buffer, k, u)
  BY TmAssumption DEF Holding
<1>2. Log!Record(kind, t, LogNoLsn, nextLsn) \in Rec /\ kind \notin OutcomeKinds
  BY DEF Log!Record, Rec, Log!WalRecord, Log!AllKinds, OutcomeKinds, TmTypes
<1>3. Log!AppendOn(file, buffer, kind, t, LogNoLsn, ok)
  BY DEF AppendLog
<1>4. file \in Seq(Rec) /\ buffer \in Seq(Rec) /\ nextLsn \in Nat \ {0}
  BY DEF TmTypes
<1>5. /\ file' \in Seq(Rec) /\ buffer' \in Seq(Rec) /\ nextLsn' = nextLsn + 1
      /\ \A k \in OutcomeKinds : \A u :
            /\ Has(file, k, u) => Has(file', k, u)
            /\ Has(file', k, u) => Has(file, k, u) \/ Has(buffer, k, u) \/ (k = kind /\ u = t)
            /\ Has(buffer', k, u) => ok /\ (Has(buffer, k, u) \/ (k = kind /\ u = t))
  BY <1>2, <1>3, <1>4, AppendHas
<1> QED
  BY <1>1, <1>2, <1>4, <1>5 DEF Same

\* A step outside the MVCC store that takes nothing from the file leaves the
\* store's invariant and write-ahead as they were.
LEMMA NoStoreStep ==
    ASSUME TmIInv, UNCHANGED mvccVars,
           \A t \in TxIds : OnDisk("Commit", t) => OnDisk("Commit", t)'
    PROVE  MvccInv' /\ WriteAheadCommit'
<1>1. MvccInv'
  BY MvccStepInv DEF TmIInv
<1>2. \A v \in versions : v.creator \in TxIds
  BY DEF TmIInv, MvccInv, MvccTypeOK, Version
<1>3. WriteAheadCommit'
  BY <1>2 DEF TmIInv, WriteAheadCommit, mvccVars
<1> QED
  BY <1>1, <1>3

\* A step of thread th about transaction t.  What it leaves alone stays as it
\* is: other threads keep their place, other transactions their entries and
\* records, and t itself, should somebody else own it.
LEMMA ThreadFrame ==
    ASSUME TmTypes, TmTypes', Ownership, Stages, NEW th \in Threads, NEW t \in Nat,
           \A o \in Threads : o # th =>
               pc'[o] = pc[o] /\ tx'[o] = tx[o] /\ commitLsn'[o] = commitLsn[o],
           nextId' >= nextId, t < nextId',
           \A u \in TxIds : u # t => Same(u) /\ (u \in registered' <=> u \in registered),
           \A o \in Threads : (o # th /\ Owner(o) /\ tx[o] = t) =>
               Same(t) /\ t \notin registered' /\ ~Owner(th)',
           t \in registered' => Unended(t)',
           Owner(th)' => tx'[th] = t,
           OwnOf(th)', StageOf(th)'
    PROVE  Ownership' /\ Stages'
<1>1. ASSUME NEW o \in Threads, o # th
      PROVE  /\ Owner(o)' <=> Owner(o)
             /\ pc'[o] = pc[o] /\ tx'[o] = tx[o] /\ commitLsn'[o] = commitLsn[o]
             /\ Owner(o) => tx[o] \in TxIds
             /\ Owner(o) => Same(tx[o])
  <2>1. pc'[o] = pc[o] /\ tx'[o] = tx[o] /\ commitLsn'[o] = commitLsn[o]
    BY <1>1
  <2>2. Owner(o)' <=> Owner(o)
    BY <2>1 DEF Owner
  <2>3. Owner(o) => tx[o] \in TxIds
    BY DEF Owner, Ownership, OwnOf, BeginPcs, CommitPcs, AbortPcs
  <2>4. ASSUME Owner(o) PROVE Same(tx[o])
    <3>1. CASE tx[o] = t
      BY <1>1, <2>4, <3>1
    <3>2. CASE tx[o] # t
      BY <2>3, <2>4, <3>2
    <3> QED
      BY <3>1, <3>2
  <2> QED
    BY <2>1, <2>2, <2>3, <2>4
<1>2. /\ nextId \in Nat /\ nextId' \in Nat /\ TxIds \subseteq Nat /\ registered' \subseteq TxIds
      /\ \A o \in Threads : tx[o] \in Nat
  <2>1. nextId \in Nat /\ nextId' \in Nat /\ registered' \subseteq TxIds
    BY DEF TmTypes, TmTypeOK
  <2>2. TxIds \subseteq Nat
    BY TmAssumption
  <2>3. \A o \in Threads : tx[o] \in TxIds \cup {0}
    BY DEF TmTypes, TmTypeOK, NoTxId
  <2>4. TxIds \cup {0} \subseteq Nat
    BY <2>2
  <2> QED
    BY <2>1, <2>2, <2>3, <2>4
<1>3. ASSUME NEW o \in Threads, o # th PROVE OwnOf(o)'
  <2>1. OwnOf(o)
    BY DEF Ownership
  <2>2. Owner(o) => tx[o] \notin registered'
    <3>1. CASE Owner(o) /\ tx[o] = t
      BY <1>3, <3>1
    <3>2. CASE Owner(o) /\ tx[o] # t
      BY <1>1, <1>2, <1>3, <2>1, <3>2 DEF OwnOf
    <3> QED
      BY <3>1, <3>2
  <2> QED
    BY <1>1, <1>2, <1>3, <2>1, <2>2 DEF OwnOf
<1>4. ASSUME NEW u \in registered' PROVE u < nextId' /\ Unended(u)'
  <2>1. CASE u = t
    BY <1>4, <2>1
  <2>2. CASE u # t
    <3>1. u \in registered /\ Same(u) /\ u \in TxIds
      BY <1>2, <1>4, <2>2
    <3> QED
      BY <1>2, <3>1, SameFacts DEF Ownership
  <2> QED
    BY <2>1, <2>2
<1>5. ASSUME NEW u \in TxIds, u >= nextId' PROVE Unended(u)'
  <2>1. u # t /\ u >= nextId
    BY <1>2, <1>5
  <2> QED
    BY <2>1, SameFacts DEF Ownership
<1>6. ASSUME NEW o \in Threads, NEW p \in Threads, o # p, Owner(o)', Owner(p)'
      PROVE  tx'[o] # tx'[p]
  <2>1. CASE o = th
    BY <1>1, <1>6, <2>1
  <2>2. CASE p = th
    BY <1>1, <1>6, <2>2
  <2>3. CASE o # th /\ p # th
    BY <1>1, <1>6, <2>3 DEF Ownership
  <2> QED
    BY <2>1, <2>2, <2>3
<1>7. ASSUME NEW o \in Threads, o # th PROVE StageOf(o)'
  <2>1. StageOf(o)
    BY DEF Stages
  <2>2. CASE Owner(o)
    <3> DEFINE u == tx[o]
    <3>1. /\ Unended(u)' <=> Unended(u)
          /\ InLog("Commit", u)' <=> InLog("Commit", u)
          /\ InLog("Abort", u)' <=> InLog("Abort", u)
          /\ OnDisk("Commit", u)' <=> OnDisk("Commit", u)
          /\ OnDisk("Abort", u)' <=> OnDisk("Abort", u)
          /\ reported'[u] = reported[u]
      BY <1>1, <1>7, <2>2, SameFacts DEF Same
    <3> QED
      BY <1>1, <1>7, <2>1, <3>1 DEF StageOf
  <2>3. CASE ~Owner(o)
    <3>1. pc'[o] \notin BeginPcs \cup CommitPcs \cup AbortPcs
      BY <1>1, <1>7, <2>3 DEF Owner
    <3> QED
      BY <3>1 DEF StageOf, BeginPcs, CommitPcs, AbortPcs
  <2> QED
    BY <2>2, <2>3
<1>8. Ownership'
  BY <1>3, <1>4, <1>5, <1>6 DEF Ownership
<1> QED
  BY <1>7, <1>8 DEF Stages

\* The tables of transactions after a step of th about t.
LEMMA TablesFrame ==
    ASSUME TmTypes, TablesMatch, NEW th \in Threads, NEW t,
           \A o \in Threads : o # th => pc'[o] = pc[o] /\ tx'[o] = tx[o],
           failed => failed', pc[th] = "panicked" => pc'[th] = "panicked",
           \A u \in TxIds : u # t => /\ u \in registered' <=> u \in registered
                                     /\ u \in active' <=> u \in active,
           pc[th] \in LivePcs => tx[th] = t, pc'[th] \in LivePcs => tx'[th] = t,
           (~failed' /\ pc'[th] # "panicked" /\ ~failed /\ \A o \in Threads : pc[o] # "panicked") =>
               (t \in active' <=> \/ t \in registered'
                                  \/ tx'[th] = t /\ pc'[th] \in LivePcs
                                  \/ \E o \in Threads : o # th /\ tx[o] = t /\ pc[o] \in LivePcs)
    PROVE  TablesMatch'
<1> SUFFICES ASSUME ~failed', \A o \in Threads : pc'[o] # "panicked", NEW u \in TxIds
             PROVE  u \in active' <=> \/ u \in registered'
                                      \/ \E o \in Threads : tx'[o] = u /\ pc'[o] \in LivePcs
  BY DEF TablesMatch
<1>1. ~failed /\ \A o \in Threads : pc[o] # "panicked"
  <2>1. ~failed
    OBVIOUS
  <2>2. ASSUME NEW o \in Threads PROVE pc[o] # "panicked"
    <3>1. CASE o = th
      BY <3>1
    <3>2. CASE o # th
      BY <3>2
    <3> QED
      BY <3>1, <3>2
  <2> QED
    BY <2>1, <2>2
<1>2. CASE u = t
  <2>1. t \in active' <=> \/ t \in registered'
                          \/ tx'[th] = t /\ pc'[th] \in LivePcs
                          \/ \E o \in Threads : o # th /\ tx[o] = t /\ pc[o] \in LivePcs
    BY <1>1
  <2>2. (\E o \in Threads : tx'[o] = t /\ pc'[o] \in LivePcs) <=>
            \/ tx'[th] = t /\ pc'[th] \in LivePcs
            \/ \E o \in Threads : o # th /\ tx'[o] = t /\ pc'[o] \in LivePcs
    OBVIOUS
  <2>3. \A o \in Threads : (o # th /\ tx'[o] = t /\ pc'[o] \in LivePcs) <=>
                           (o # th /\ tx[o] = t /\ pc[o] \in LivePcs)
    OBVIOUS
  <2> QED
    BY <1>2, <2>1, <2>2, <2>3
<1>3. CASE u # t
  <2>1. u \in active <=> \/ u \in registered
                         \/ \E o \in Threads : tx[o] = u /\ pc[o] \in LivePcs
    BY <1>1 DEF TablesMatch
  <2>2. \A o \in Threads : tx[o] = u /\ pc[o] \in LivePcs <=> tx'[o] = u /\ pc'[o] \in LivePcs
    <3> TAKE o \in Threads
    <3>1. CASE o = th
      BY <1>3, <3>1
    <3>2. CASE o # th
      BY <3>2
    <3> QED
      BY <3>1, <3>2
  <2>3. (\E o \in Threads : tx[o] = u /\ pc[o] \in LivePcs) <=>
          \E o \in Threads : tx'[o] = u /\ pc'[o] \in LivePcs
    BY <2>2
  <2>4. (u \in registered' <=> u \in registered) /\ (u \in active' <=> u \in active)
    BY <1>3
  <2> QED
    BY <2>1, <2>3, <2>4
<1> QED
  BY <1>2, <1>3

\* A thread that neither holds the log nor takes it.
LEMMA HoldingFrame ==
    ASSUME Holding, NEW th \in Threads, UNCHANGED walHolder,
           \A o \in Threads : o # th => pc'[o] = pc[o] /\ tx'[o] = tx[o],
           pc[th] \notin FlushPcs, pc'[th] \notin FlushPcs,
           \A k \in OutcomeKinds, u \in TxIds : Has(buffer', k, u) => Has(buffer, k, u)
    PROVE  Holding'
<1>1. \A o \in Threads : walHolder' = o <=> pc'[o] \in FlushPcs
  BY DEF Holding
<1>2. ASSUME NEW k \in OutcomeKinds, NEW u \in TxIds, Has(buffer', k, u)
      PROVE  /\ walHolder' \in Threads /\ tx'[walHolder'] = u
             /\ k = "Commit" <=> pc'[walHolder'] \in {"commitFlush", "finalFlush"}
  <2>1. /\ walHolder \in Threads /\ tx[walHolder] = u
        /\ k = "Commit" <=> pc[walHolder] \in {"commitFlush", "finalFlush"}
    BY <1>2 DEF Holding
  <2>2. walHolder # th
    BY <2>1 DEF Holding
  <2> QED
    BY <2>1, <2>2
<1> QED
  BY <1>1, <1>2 DEF Holding

\* A step of th about t that adds no outcome to the log and tells nobody
\* anything keeps the invariant, if th and t are in order afterwards.
LEMMA QuietStep ==
    ASSUME TmIInv, up, TmTypes', MvccInv', WriteAheadCommit', NEW th \in Threads, NEW t \in Nat,
           \A u \in TxIds : Same(u),
           \A o \in Threads : o # th =>
               pc'[o] = pc[o] /\ tx'[o] = tx[o] /\ commitLsn'[o] = commitLsn[o],
           UNCHANGED walHolder, pc[th] \notin FlushPcs, pc'[th] \notin FlushPcs,
           nextId' >= nextId, t < nextId',
           \A u \in TxIds : u # t => /\ u \in registered' <=> u \in registered
                                     /\ u \in active' <=> u \in active,
           \A o \in Threads : (o # th /\ Owner(o) /\ tx[o] = t) => t \notin registered' /\ ~Owner(th)',
           t \in registered' => Unended(t),
           Owner(th)' => tx'[th] = t,
           OwnOf(th)', StageOf(th)',
           failed => failed', pc[th] = "panicked" => pc'[th] = "panicked",
           pc[th] \in LivePcs => tx[th] = t,
           (~failed' /\ pc'[th] # "panicked" /\ ~failed /\ \A o \in Threads : pc[o] # "panicked") =>
               (t \in active' <=> \/ t \in registered'
                                  \/ tx'[th] = t /\ pc'[th] \in LivePcs
                                  \/ \E o \in Threads : o # th /\ tx[o] = t /\ pc[o] \in LivePcs)
    PROVE  TmIInv' /\ Promised
<1>1. TmTypes /\ Ownership /\ Stages /\ Holding /\ TablesMatch /\ Decided
  BY DEF TmIInv, Running
<1>2. Decided'
  BY <1>1, SameFacts DEF Decided
<1>3. Holding'
  <2>1. \A k \in OutcomeKinds, u \in TxIds : Has(buffer', k, u) => Has(buffer, k, u)
    BY DEF Same
  <2> QED
    BY <1>1, <2>1, HoldingFrame
<1>4. registered' \subseteq TxIds
  BY DEF TmTypes, TmTypeOK
<1>5. t \in registered' => Unended(t)'
  BY <1>4, SameFacts
<1>6. \A o \in Threads : (o # th /\ Owner(o) /\ tx[o] = t) =>
          Same(t) /\ t \notin registered' /\ ~Owner(th)'
  BY <1>1 DEF Owner, Ownership, OwnOf, BeginPcs, CommitPcs, AbortPcs
<1>7. Ownership' /\ Stages'
  <2>1. \A u \in TxIds : u # t => Same(u) /\ (u \in registered' <=> u \in registered)
    OBVIOUS
  <2> QED
    BY <1>1, <1>5, <1>6, <2>1, ThreadFrame
<1>8. pc'[th] \in LivePcs => tx'[th] = t
  BY DEF Owner, LivePcs, BeginPcs, CommitPcs, AbortPcs
<1>9. TablesMatch'
  BY <1>1, <1>8, TablesFrame
<1> QED
  BY <1>1, <1>2, <1>3, <1>7, <1>9, QuietPromise DEF TmIInv, Running

\* A step that moves no thread, tells nobody anything and decides nothing.
LEMMA NobodyMoves ==
    ASSUME TmIInv, up, TmTypes', MvccInv', WriteAheadCommit',
           UNCHANGED <<pc, tx, commitLsn, walHolder, nextId, registered, active>>,
           failed => failed', \A u \in TxIds : Same(u)
    PROVE  TmIInv' /\ Promised
<1>1. TmTypes /\ Ownership /\ Stages /\ Holding /\ TablesMatch /\ Decided
  BY DEF TmIInv, Running
<1>2. registered \subseteq TxIds
  BY <1>1 DEF TmTypes, TmTypeOK
<1>3. Ownership'
  <2>1. \A th \in Threads : OwnOf(th)' /\ (Owner(th)' <=> Owner(th))
    BY <1>1 DEF Ownership, OwnOf, Owner
  <2>2. /\ \A t \in registered' : t < nextId' /\ Unended(t)'
        /\ \A t \in TxIds : t >= nextId' => Unended(t)'
    BY <1>1, <1>2, SameFacts DEF Ownership
  <2> QED
    BY <1>1, <2>1, <2>2 DEF Ownership
<1>4. Stages'
  <2>1. SUFFICES ASSUME NEW th \in Threads PROVE StageOf(th)'
    BY DEF Stages
  <2>2. StageOf(th)
    BY <1>1 DEF Stages
  <2>3. CASE Owner(th)
    <3> DEFINE u == tx[th]
    <3>1. u \in TxIds
      BY <1>1, <2>3 DEF Ownership, OwnOf, Owner, BeginPcs, CommitPcs, AbortPcs
    <3>2. /\ Unended(u)' <=> Unended(u)
          /\ InLog("Commit", u)' <=> InLog("Commit", u)
          /\ InLog("Abort", u)' <=> InLog("Abort", u)
          /\ OnDisk("Commit", u)' <=> OnDisk("Commit", u)
          /\ OnDisk("Abort", u)' <=> OnDisk("Abort", u)
          /\ reported'[u] = reported[u]
      BY <3>1, SameFacts DEF Same
    <3> QED
      BY <2>2, <3>2 DEF StageOf
  <2>4. CASE ~Owner(th)
    BY <2>4 DEF StageOf, Owner, BeginPcs, CommitPcs, AbortPcs
  <2> QED
    BY <2>3, <2>4
<1>5. Holding'
  BY <1>1 DEF Holding, Same
<1>6. TablesMatch'
  BY <1>1 DEF TablesMatch
<1>7. Decided'
  BY <1>1, SameFacts DEF Decided
<1> QED
  BY <1>1, <1>3, <1>4, <1>5, <1>6, <1>7, QuietPromise DEF TmIInv, Running

\* insert_version, update_version: what is new has no commit timestamp.
LEMMA WriteVersionInv ==
    ASSUME TmIInv, NEW th \in Threads, NEW r \in Records, NEW n \in VersionNos,
           WriteVersion(th, r, n)
    PROVE  TmIInv' /\ Promised
<1>1. tx[th] \in TxIds /\ AddVersion(r, tx[th], n) /\ UNCHANGED <<logVars, managerVars>>
  BY DEF WriteVersion, TmIInv, TmTypes, TmTypeOK
<1>2. MvccInv'
  BY <1>1, MvccStepInv DEF MvccNext, TmIInv
<1>3. TmTypes'
  BY <1>1, <1>2 DEF TmIInv, TmTypes, TmTypeOK, MvccInv, logVars, managerVars
<1>4. WriteAheadCommit'
  BY <1>1 DEF TmIInv, WriteAheadCommit, AddVersion, OnDisk, logVars
<1>5. \A u \in TxIds : Same(u)
  BY <1>1, NoLogStep DEF logVars, managerVars
<1>6. UNCHANGED <<pc, tx, commitLsn, walHolder, nextId, registered, active, failed>>
  BY <1>1 DEF AddVersion, managerVars
<1> QED
  BY <1>2, <1>3, <1>4, <1>5, <1>6, NobodyMoves DEF WriteVersion

\* log_modify and log_delete.
LEMMA LogModifyInv ==
    ASSUME TmIInv, NEW th \in Threads, LogModify(th)
    PROVE  TmIInv' /\ Promised
<1>1. tx[th] \in TxIds /\ TmTypes /\ Holding
  BY DEF LogModify, TmIInv, TmTypes, TmTypeOK, Running
<1>2. PICK ok \in BOOLEAN :
        /\ AppendLog("Modify", tx[th], LogNoLsn, ok)
        /\ lastLsn' = IF ok /\ tx[th] \in registered
                      THEN [lastLsn EXCEPT ![tx[th]] = nextLsn] ELSE lastLsn
  BY DEF LogModify
<1>3. /\ UNCHANGED <<mvccVars, walHolder, nextId, registered, poisoned, pc, tx,
                     commitLsn, reported, checkpoints, up, load>>
      /\ up
  BY DEF LogModify
<1>4. walHolder = NoThread /\ failed' = (failed \/ ~ok)
  BY <1>2 DEF AppendLog
<1>5. /\ file' \in Seq(Rec) /\ buffer' \in Seq(Rec) /\ nextLsn' \in Nat \ {0}
      /\ \A u \in TxIds : Same(u)
  BY <1>1, <1>2, <1>3, <1>4, QuietAppend
<1>6. \A t \in TxIds : OnDisk("Commit", t) => OnDisk("Commit", t)'
  BY <1>5, SameFacts
<1>7. MvccInv' /\ WriteAheadCommit'
  BY <1>3, <1>6, NoStoreStep
<1>8. lastLsn' \in [TxIds -> Nat \cup {LogNoLsn}]
  BY <1>1, <1>2 DEF TmTypes, TmTypeOK
<1>9. TmTypes'
  BY <1>1, <1>3, <1>4, <1>5, <1>7, <1>8 DEF TmTypes, TmTypeOK, MvccInv
<1>10. UNCHANGED active
  BY <1>3 DEF mvccVars
<1> QED
  BY <1>3, <1>4, <1>5, <1>7, <1>9, <1>10, NobodyMoves

\* cleanup, whatever the oldest snapshot is.
LEMMA CleanupInv ==
    ASSUME TmIInv, Cleanup
    PROVE  TmIInv' /\ Promised
<1>1. up /\ Vacuum(OldestSnapshot) /\ UNCHANGED <<logVars, managerVars>>
  BY DEF Cleanup
<1> DEFINE kept == {v \in versions : v.commitTs >= OldestSnapshot \/ v.creator \in active}
<1>2. Retain(kept) /\ UNCHANGED <<clock, active, snapshot, nextPos, status, seen>>
  BY <1>1 DEF Vacuum
<1>3. kept \in SUBSET versions
  OBVIOUS
<1>4. versions' = kept
  BY <1>2 DEF Retain
<1> HIDE DEF kept
<1>5. MvccTypeOK'
  BY <1>2, <1>3, RetainType DEF TmIInv, MvccInv, MvccTypeOK
<1>6. MvccInv'
  BY <1>1, <1>5, VacuumInv DEF TmIInv
<1>7. TmTypes'
  BY <1>1, <1>5 DEF TmIInv, TmTypes, TmTypeOK, logVars, managerVars
<1>8. WriteAheadCommit'
  BY <1>1, <1>3, <1>4 DEF TmIInv, WriteAheadCommit, OnDisk, logVars
<1>9. \A u \in TxIds : Same(u)
  BY <1>1, NoLogStep DEF logVars, managerVars
<1>10. UNCHANGED <<pc, tx, commitLsn, walHolder, nextId, registered, active, failed>>
  BY <1>1, <1>2 DEF managerVars
<1> QED
  BY <1>1, <1>6, <1>7, <1>8, <1>9, <1>10, NobodyMoves

\* checkpoint: the buffer it drains holds no outcome, since nobody holds the log.
LEMMA TakeCheckpointInv ==
    ASSUME TmIInv, TakeCheckpoint
    PROVE  TmIInv' /\ Promised
<1>1. /\ up /\ walHolder = NoThread
      /\ UNCHANGED <<mvccVars, walHolder, nextId, registered, lastLsn, poisoned, pc,
                     tx, commitLsn, reported, logs, up, load>>
  BY DEF TakeCheckpoint
<1>2. TmTypes /\ Holding
  BY <1>1 DEF TmIInv, Running
<1>3. \A k \in OutcomeKinds, u \in TxIds : ~Has(buffer, k, u)
  BY <1>1, <1>2, TmAssumption DEF Holding
<1>4. file \in Seq(Rec) /\ buffer \in Seq(Rec) /\ nextLsn \in Nat \ {0}
  BY <1>2 DEF TmTypes
<1>5. /\ file' \in Seq(Rec) /\ buffer' \in Seq(Rec) /\ nextLsn' \in Nat \ {0}
      /\ failed' \in BOOLEAN /\ (failed => failed')
      /\ \A u \in TxIds : Same(u)
  <2>1. ASSUME NEW ok \in BOOLEAN,
               Log!AppendOn(file \o Log!Stored(buffer), <<>>, "Checkpoint", 0, LogNoLsn, ok)
        PROVE  /\ file' \in Seq(Rec) /\ buffer' \in Seq(Rec) /\ nextLsn' \in Nat \ {0}
               /\ \A u \in TxIds : Same(u)
    <3> DEFINE whole == file \o buffer
               none == <<>>
    <3>1. Log!AppendOn(whole, none, "Checkpoint", 0, LogNoLsn, ok)
      BY <2>1 DEF Log!Stored
    <3>2. whole \in Seq(Rec) /\ none \in Seq(Rec) /\ \A k, u : ~Has(none, k, u)
      BY <1>4, HasNone
    <3>3. \A k, u : Has(whole, k, u) <=> Has(file, k, u) \/ Has(buffer, k, u)
      BY <1>4, HasConcat
    <3> HIDE DEF whole, none
    <3>4. Log!Record("Checkpoint", 0, LogNoLsn, nextLsn) \in Rec /\ "Checkpoint" \notin OutcomeKinds
      BY <1>4 DEF Log!Record, Rec, Log!WalRecord, Log!AllKinds, OutcomeKinds
    <3>5. /\ file' \in Seq(Rec) /\ buffer' \in Seq(Rec) /\ nextLsn' = nextLsn + 1
          /\ \A k \in OutcomeKinds : \A u :
                /\ Has(whole, k, u) => Has(file', k, u)
                /\ Has(file', k, u) => Has(whole, k, u) \/ Has(none, k, u) \/ (k = "Checkpoint" /\ u = 0)
                /\ Has(buffer', k, u) => ok /\ (Has(none, k, u) \/ (k = "Checkpoint" /\ u = 0))
      BY <3>1, <3>2, <3>4, AppendHas
    <3>6. reported' = reported
      BY <1>1
    <3> QED
      BY <1>3, <1>4, <3>2, <3>3, <3>4, <3>5, <3>6 DEF Same
  <2>2. ASSUME file' \in Log!PartlyWritten(file, buffer), buffer' = <<>>, UNCHANGED nextLsn
        PROVE  /\ file' \in Seq(Rec) /\ buffer' \in Seq(Rec) /\ nextLsn' \in Nat \ {0}
               /\ \A u \in TxIds : Same(u)
    <3>1. /\ file' \in Seq(Rec)
          /\ \A k \in OutcomeKinds : \A u :
                /\ Has(file, k, u) => Has(file', k, u)
                /\ Has(file', k, u) => Has(file, k, u) \/ Has(buffer, k, u)
      BY <1>4, <2>2, PartlyHas
    <3>2. buffer' \in Seq(Rec) /\ \A k, u : ~Has(buffer', k, u)
      BY <2>2, HasNone
    <3>3. reported' = reported /\ nextLsn' = nextLsn
      BY <1>1, <2>2
    <3> QED
      BY <1>3, <1>4, <3>1, <3>2, <3>3 DEF Same
  <2>3. failed \in BOOLEAN /\ load.failing \in BOOLEAN
    BY <1>2 DEF TmTypes, Workload
  <2> QED
    BY <2>1, <2>2, <2>3 DEF TakeCheckpoint
<1>6. \A t \in TxIds : OnDisk("Commit", t) => OnDisk("Commit", t)'
  BY <1>5, SameFacts
<1>7. MvccInv' /\ WriteAheadCommit'
  BY <1>1, <1>6, NoStoreStep
<1>8. TmTypes'
  BY <1>1, <1>2, <1>5, <1>7 DEF TmTypes, TmTypeOK, MvccInv
<1>9. UNCHANGED active
  BY <1>1 DEF mvccVars
<1> QED
  BY <1>1, <1>5, <1>7, <1>8, <1>9, NobodyMoves

-----------------------------------------------------------------------------
(* begin_transaction, and the tables in commit_transaction *)

\* What the invariant says of one thread.
LEMMA ThreadFacts ==
    ASSUME TmIInv, up, NEW th \in Threads
    PROVE  /\ TmTypes /\ Ownership /\ Stages /\ Holding /\ TablesMatch /\ Decided
           /\ OwnOf(th) /\ StageOf(th)
           /\ tx[th] \in Nat /\ tx[th] < nextId /\ nextId \in Nat /\ TxIds \subseteq Nat
           /\ pc[th] \in Pcs /\ registered \subseteq TxIds /\ active \subseteq TxIds
           /\ pc[th] \notin {"idle", "panicked"} => tx[th] \in TxIds
           /\ Owner(th) => /\ tx[th] \notin registered
                           /\ \A o \in Threads : o # th /\ Owner(o) => tx[o] # tx[th]
<1>1. TmTypes /\ Ownership /\ Stages /\ Holding /\ TablesMatch /\ Decided
  BY DEF TmIInv, Running
<1>2. OwnOf(th) /\ StageOf(th)
  BY <1>1 DEF Ownership, Stages
<1>3. TxIds \subseteq Nat /\ TxIds \cup {0} \subseteq Nat
  BY TmAssumption
<1>4. tx[th] \in TxIds \cup {0} /\ nextId \in Nat /\ pc[th] \in Pcs /\ registered \subseteq TxIds
  BY <1>1 DEF TmTypes, TmTypeOK, NoTxId
<1>5. active \subseteq TxIds
  BY <1>1 DEF TmTypes, TmTypeOK, MvccTypeOK
<1>6. Owner(th) => /\ tx[th] \notin registered
                   /\ \A o \in Threads : o # th /\ Owner(o) => tx[o] # tx[th]
  BY <1>1, <1>2 DEF Ownership, OwnOf
<1> QED
  BY <1>1, <1>2, <1>3, <1>4, <1>5, <1>6 DEF OwnOf

\* A live transaction is in somebody's hands.
LEMMA LiveOwned == \A th : pc[th] \in LivePcs => Owner(th)
BY DEF LivePcs, Owner, BeginPcs, CommitPcs, AbortPcs

\* The next id is new: nobody owns it and it is in no table.
LEMMA BeginIdInv ==
    ASSUME TmIInv, NEW th \in Threads, BeginId(th)
    PROVE  TmIInv' /\ Promised
<1>1. /\ up /\ pc[th] = "idle" /\ pc' = [pc EXCEPT ![th] = "begin"]
      /\ nextId \in TxIds /\ nextId' = nextId + 1 /\ tx' = [tx EXCEPT ![th] = nextId]
      /\ UNCHANGED <<mvccVars, logVars, walHolder, registered, lastLsn, poisoned,
                     commitLsn, reported, failed, logs, checkpoints, up, load>>
  BY DEF BeginId, Goto
<1>2. /\ TmTypes /\ Ownership /\ Holding /\ TablesMatch /\ nextId \in Nat /\ TxIds \subseteq Nat
      /\ registered \subseteq TxIds
  BY <1>1, ThreadFacts
<1>3. TmTypes'
  BY <1>1, <1>2, SMTT(30) DEF TmTypes, TmTypeOK, MvccTypeOK, mvccVars, logVars, Pcs, BeginPcs
<1>4. \A u \in TxIds : Same(u)
  BY <1>1, NoLogStep DEF logVars
<1>5. \A u \in TxIds : OnDisk("Commit", u) => OnDisk("Commit", u)'
  BY <1>4, SameFacts
<1>6. MvccInv' /\ WriteAheadCommit'
  BY <1>1, <1>5, NoStoreStep
<1>7. /\ pc'[th] = "begin" /\ tx'[th] = nextId
      /\ \A o \in Threads : o # th =>
            pc'[o] = pc[o] /\ tx'[o] = tx[o] /\ commitLsn'[o] = commitLsn[o]
  BY <1>1, <1>2 DEF TmTypes, TmTypeOK
<1>8. \A o \in Threads : tx[o] # nextId
  <2>1. ASSUME NEW o \in Threads PROVE tx[o] # nextId
    <3>1. tx[o] \in Nat /\ tx[o] < nextId
      BY <1>1, ThreadFacts
    <3> QED
      BY <1>2, <3>1
  <2> QED
    BY <2>1
<1>9. nextId \notin registered /\ Unended(nextId)
  <2>1. nextId \in registered => nextId < nextId
    BY <1>2 DEF Ownership
  <2>2. nextId >= nextId
    BY <1>2
  <2> QED
    BY <1>1, <1>2, <2>1, <2>2 DEF Ownership
<1>10. OwnOf(th)'
  BY <1>1, <1>2, <1>7, <1>9 DEF OwnOf
<1>11. StageOf(th)'
  <2>1. PICK t \in TxIds : t = nextId
    BY <1>1
  <2>2. Unended(t)'
    BY <1>4, <1>9, <2>1, SameFacts
  <2>3. tx'[th] = t
    BY <1>7, <2>1
  <2>4. Unended(tx[th])'
    BY <2>2, <2>3 DEF Unended, InLog
  <2> QED
    BY <1>7, <2>4 DEF StageOf, CommitPcs, AbortPcs
<1>12. ASSUME ~failed, \A o \in Threads : pc[o] # "panicked" PROVE nextId \notin active
  BY <1>1, <1>2, <1>8, <1>9, <1>12 DEF TablesMatch
<1>13. pc[th] \notin FlushPcs /\ pc'[th] \notin FlushPcs /\ pc[th] \notin LivePcs /\ pc'[th] \notin LivePcs
  BY <1>1, <1>7 DEF FlushPcs, LivePcs
<1>14. UNCHANGED <<active, registered, failed, walHolder>>
  BY <1>1 DEF mvccVars
<1>15. (~failed' /\ pc'[th] # "panicked" /\ ~failed /\ \A o \in Threads : pc[o] # "panicked") =>
          (nextId \in active' <=>
              \/ nextId \in registered'
              \/ tx'[th] = nextId /\ pc'[th] \in LivePcs
              \/ \E o \in Threads : o # th /\ tx[o] = nextId /\ pc[o] \in LivePcs)
  BY <1>8, <1>9, <1>12, <1>13, <1>14
<1>16. nextId' >= nextId /\ nextId < nextId'
  BY <1>1, <1>2
<1> QED
  BY <1>1, <1>2, <1>3, <1>4, <1>6, <1>7, <1>8, <1>9, <1>10, <1>11, <1>13, <1>14, <1>15, <1>16,
     QuietStep

\* Both calls of mvcc.begin_transaction.
LEMMA BeginMvccInv ==
    ASSUME TmIInv, NEW th \in Threads, BeginMvcc(th)
    PROVE  TmIInv' /\ Promised
<1>0. PICK t \in Nat : t = tx[th]
  BY ThreadFacts DEF BeginMvcc, Goto
<1>1. /\ up /\ pc[th] \in {"begin", "snapshot"} /\ Begin(t)
      /\ \/ pc' = [pc EXCEPT ![th] = "snapshot"]
         \/ pc' = [pc EXCEPT ![th] = "register"]
      /\ UNCHANGED <<logVars, walHolder, nextId, registered, lastLsn, poisoned, tx,
                     commitLsn, reported, failed, logs, checkpoints, up, load>>
  BY <1>0 DEF BeginMvcc, Goto
<1>2. /\ TmTypes /\ Ownership /\ Holding /\ TablesMatch /\ StageOf(th) /\ OwnOf(th)
      /\ t \in Nat /\ t < nextId /\ nextId \in Nat /\ t \in TxIds
  BY <1>0, <1>1, ThreadFacts
<1>3. Owner(th) /\ t \notin registered /\ \A o \in Threads : o # th /\ Owner(o) => tx[o] # t
  BY <1>0, <1>1, ThreadFacts DEF Owner, BeginPcs
<1>4. MvccInv'
  BY <1>1, <1>2, MvccStepInv DEF MvccNext, TmIInv
<1>5. TmTypes'
  BY <1>1, <1>2, <1>4 DEF TmTypes, TmTypeOK, MvccInv, logVars, Pcs, BeginPcs
<1>6. \A u \in TxIds : Same(u)
  BY <1>1, NoLogStep DEF logVars
<1>7. active' = active \cup {t} /\ versions' = versions
  BY <1>1 DEF Begin
<1>8. WriteAheadCommit'
  BY <1>1, <1>7 DEF TmIInv, WriteAheadCommit, OnDisk, logVars
<1>9. /\ pc'[th] \in {"snapshot", "register"} /\ tx'[th] = t
      /\ \A o \in Threads : o # th =>
            pc'[o] = pc[o] /\ tx'[o] = tx[o] /\ commitLsn'[o] = commitLsn[o]
  BY <1>0, <1>1, <1>2 DEF TmTypes
<1>10. OwnOf(th)'
  BY <1>1, <1>2, <1>3, <1>9 DEF OwnOf
<1>11. StageOf(th)'
  <2>1. Unended(t)
    BY <1>0, <1>1, <1>2 DEF StageOf, BeginPcs
  <2>2. Unended(t)'
    BY <1>2, <1>6, <2>1, SameFacts
  <2>3. Unended(tx[th])'
    BY <1>9, <2>2 DEF Unended, InLog
  <2> QED
    BY <1>9, <2>3 DEF StageOf, CommitPcs, AbortPcs
<1>12. pc[th] \notin FlushPcs /\ pc'[th] \notin FlushPcs /\ pc'[th] \in LivePcs
  BY <1>1, <1>9 DEF FlushPcs, LivePcs
<1>13. \A u \in TxIds : u # t => /\ u \in registered' <=> u \in registered
                                 /\ u \in active' <=> u \in active
  BY <1>1, <1>7
<1>14. t \in active' /\ t \notin registered' /\ pc[th] # "panicked"
  BY <1>1, <1>3, <1>7
<1>15. nextId' >= nextId /\ t < nextId' /\ (failed => failed') /\ UNCHANGED walHolder
  BY <1>1, <1>2
<1> QED
  BY <1>1, <1>2, <1>3, <1>4, <1>5, <1>6, <1>8, <1>9, <1>10, <1>11, <1>12, <1>13, <1>14, <1>15,
     <1>0, QuietStep

\* Between two calls, and outside the ending of a transaction, a thread owns none.
LEMMA NoStage ==
    ASSUME NEW th, pc'[th] \in {"idle", "panicked", "beginLog", "commitTake"}
    PROVE  /\ StageOf(th)' /\ ~Owner(th)'
           /\ pc'[th] \notin FlushPcs /\ pc'[th] \notin LivePcs
BY DEF StageOf, Owner, BeginPcs, CommitPcs, AbortPcs, FlushPcs, LivePcs

\* The transaction enters the table: it is live in the store already.
LEMMA BeginRegisterInv ==
    ASSUME TmIInv, NEW th \in Threads, BeginRegister(th)
    PROVE  TmIInv' /\ Promised
<1>0. PICK t \in Nat : t = tx[th]
  BY ThreadFacts DEF BeginRegister, Goto
<1>1. /\ up /\ pc[th] = "register" /\ pc' = [pc EXCEPT ![th] = "beginLog"]
      /\ registered' = registered \cup {t}
      /\ UNCHANGED <<mvccVars, logVars, walHolder, nextId, lastLsn, poisoned, tx,
                     commitLsn, reported, failed, logs, checkpoints, up, load>>
  BY <1>0 DEF BeginRegister, Goto
<1>2. /\ TmTypes /\ Ownership /\ Holding /\ TablesMatch /\ StageOf(th) /\ OwnOf(th)
      /\ t \in Nat /\ t < nextId /\ nextId \in Nat /\ t \in TxIds
  BY <1>0, <1>1, ThreadFacts
<1>3. Owner(th) /\ \A o \in Threads : o # th /\ Owner(o) => tx[o] # t
  BY <1>0, <1>1, ThreadFacts DEF Owner, BeginPcs
<1>4. TmTypes'
  BY <1>1, <1>2 DEF TmTypes, TmTypeOK, MvccTypeOK, mvccVars, logVars, Pcs
<1>5. \A u \in TxIds : Same(u)
  BY <1>1, NoLogStep DEF logVars
<1>6. MvccInv' /\ WriteAheadCommit'
  BY <1>1, <1>5, NoStoreStep, SameFacts
<1>7. /\ pc'[th] = "beginLog" /\ tx'[th] = t
      /\ \A o \in Threads : o # th =>
            pc'[o] = pc[o] /\ tx'[o] = tx[o] /\ commitLsn'[o] = commitLsn[o]
  BY <1>0, <1>1, <1>2 DEF TmTypes
<1>8. StageOf(th)' /\ ~Owner(th)' /\ pc'[th] \notin FlushPcs /\ pc'[th] \notin LivePcs
  BY <1>7, NoStage
<1>9. OwnOf(th)'
  BY <1>1, <1>2, <1>7, <1>8 DEF OwnOf
<1>10. Unended(t)
  BY <1>0, <1>1, <1>2 DEF StageOf, BeginPcs
<1>11. pc[th] \notin FlushPcs /\ pc[th] \in LivePcs
  BY <1>1 DEF FlushPcs, LivePcs
<1>12. UNCHANGED <<active, failed, walHolder>> /\ t \in registered'
  BY <1>1 DEF mvccVars
<1>13. ASSUME ~failed, \A o \in Threads : pc[o] # "panicked" PROVE t \in active'
  BY <1>0, <1>2, <1>11, <1>12, <1>13 DEF TablesMatch
<1>14. \A u \in TxIds : u # t => /\ u \in registered' <=> u \in registered
                                 /\ u \in active' <=> u \in active
  BY <1>1, <1>12
<1>15. nextId' >= nextId /\ t < nextId'
  BY <1>1, <1>2
<1> QED
  BY <1>0, <1>1, <1>2, <1>3, <1>4, <1>5, <1>6, <1>7, <1>8, <1>9, <1>10, <1>11, <1>12, <1>13,
     <1>14, <1>15, QuietStep

\* A step of a thread that owns no transaction before or after it.
LEMMA Bystander ==
    ASSUME TmIInv, up, TmTypes', MvccInv', WriteAheadCommit', NEW th \in Threads, NEW t \in TxIds,
           t < nextId, \A u \in TxIds : Same(u),
           \A o \in Threads : o # th => pc'[o] = pc[o] /\ tx'[o] = tx[o],
           UNCHANGED <<walHolder, nextId, registered, active, commitLsn>>, failed => failed',
           pc[th] \in {"idle", "beginLog", "commitTake"},
           pc'[th] \in {"idle", "panicked", "commitTake"}, OwnOf(th)'
    PROVE  TmIInv' /\ Promised
<1>1. /\ TmTypes /\ Ownership /\ Holding /\ TablesMatch /\ TxIds \subseteq Nat
      /\ nextId \in Nat
  BY ThreadFacts
<1>2. /\ StageOf(th)' /\ ~Owner(th)'
      /\ pc'[th] \notin FlushPcs /\ pc'[th] \notin LivePcs
  BY NoStage
<1>3. pc[th] \notin FlushPcs /\ pc[th] \notin LivePcs
  BY DEF FlushPcs, LivePcs
<1>4. \A o \in Threads : o # th /\ Owner(o) /\ tx[o] = t => t \notin registered'
  BY <1>1 DEF Ownership, OwnOf
<1>5. t \in registered' => Unended(t)
  BY <1>1 DEF Ownership
<1>6. ASSUME ~failed, \A o \in Threads : pc[o] # "panicked"
      PROVE  t \in active' <=> \/ t \in registered'
                               \/ \E o \in Threads : o # th /\ tx[o] = t /\ pc[o] \in LivePcs
  <2>1. t \in active <=> \/ t \in registered
                         \/ \E o \in Threads : tx[o] = t /\ pc[o] \in LivePcs
    BY <1>1, <1>6 DEF TablesMatch
  <2> QED
    BY <1>3, <2>1
<1>7. t \in Nat /\ nextId' >= nextId /\ t < nextId'
  BY <1>1
<1> QED
  BY <1>2, <1>3, <1>4, <1>5, <1>6, <1>7, QuietStep

\* The Begin record; after a failure the caller has no transaction, and the
\* manager keeps the entry.
LEMMA BeginLogInv ==
    ASSUME TmIInv, NEW th \in Threads, BeginLog(th)
    PROVE  TmIInv' /\ Promised
<1>0. PICK t \in Nat : t = tx[th]
  BY ThreadFacts DEF BeginLog
<1>1. PICK ok \in BOOLEAN :
        AppendLog("Begin", t, LogNoLsn, ok) /\ Return(th, IF ok THEN t ELSE NoTxId)
  BY <1>0 DEF BeginLog
<1>2. /\ up /\ pc[th] = "beginLog"
      /\ UNCHANGED <<mvccVars, walHolder, nextId, registered, lastLsn, poisoned,
                     commitLsn, reported, logs, checkpoints, up, load>>
  BY DEF BeginLog
<1>3. TmTypes /\ Holding /\ t < nextId /\ nextId \in Nat /\ t \in TxIds /\ OwnOf(th) /\ TxIds \subseteq Nat
  BY <1>0, <1>2, ThreadFacts
<1>4. walHolder = NoThread /\ failed' = (failed \/ ~ok)
  BY <1>1 DEF AppendLog
<1>5. /\ file' \in Seq(Rec) /\ buffer' \in Seq(Rec) /\ nextLsn' \in Nat \ {0}
      /\ \A u \in TxIds : Same(u)
  BY <1>1, <1>2, <1>3, <1>4, QuietAppend
<1>6. MvccInv' /\ WriteAheadCommit'
  BY <1>2, <1>5, NoStoreStep, SameFacts
<1>7. /\ pc'[th] = "idle" /\ tx'[th] \in {t, NoTxId}
      /\ pc' \in [Threads -> Pcs] /\ tx' \in [Threads -> TxIds \cup {NoTxId}]
      /\ \A o \in Threads : o # th => pc'[o] = pc[o] /\ tx'[o] = tx[o]
  BY <1>1, <1>3 DEF TmTypes, TmTypeOK, Return, Pcs
<1>8. TmTypes'
  BY <1>2, <1>3, <1>4, <1>5, <1>6, <1>7 DEF TmTypes, TmTypeOK, MvccInv
<1>9. ~Owner(th)'
  BY <1>7, NoStage
<1>10. tx'[th] < nextId'
  BY <1>2, <1>3, <1>7 DEF NoTxId
<1>11. OwnOf(th)'
  BY <1>7, <1>9, <1>10 DEF OwnOf
<1>12. UNCHANGED active
  BY <1>2 DEF mvccVars
<1> QED
  BY <1>2, <1>3, <1>4, <1>5, <1>6, <1>7, <1>8, <1>11, <1>12, Bystander

\* commit_transaction looks the transaction up.
LEMMA CommitLookupInv ==
    ASSUME TmIInv, NEW th \in Threads, NEW t, CommitLookup(th, t)
    PROVE  TmIInv' /\ Promised
<1>1. /\ up /\ pc[th] = "idle" /\ pc' = [pc EXCEPT ![th] = "commitTake"]
      /\ t \in registered /\ tx' = [tx EXCEPT ![th] = t]
      /\ UNCHANGED <<mvccVars, logVars, walHolder, nextId, registered, lastLsn,
                     poisoned, commitLsn, reported, failed, logs, checkpoints, up, load>>
  BY DEF CommitLookup, Goto
<1>2. TmTypes /\ Ownership /\ registered \subseteq TxIds
  BY <1>1, ThreadFacts
<1>3. t \in TxIds /\ t < nextId
  BY <1>1, <1>2 DEF Ownership
<1>4. TmTypes'
  BY <1>1, <1>2, <1>3 DEF TmTypes, TmTypeOK, MvccTypeOK, mvccVars, logVars, Pcs
<1>5. \A u \in TxIds : Same(u)
  BY <1>1, NoLogStep DEF logVars
<1>6. MvccInv' /\ WriteAheadCommit'
  BY <1>1, <1>5, NoStoreStep, SameFacts
<1>7. /\ pc'[th] = "commitTake" /\ tx'[th] = t
      /\ \A o \in Threads : o # th => pc'[o] = pc[o] /\ tx'[o] = tx[o]
  BY <1>1, <1>2 DEF TmTypes, TmTypeOK
<1>8. ~Owner(th)'
  BY <1>7, NoStage
<1>9. OwnOf(th)'
  BY <1>1, <1>3, <1>7, <1>8 DEF OwnOf
<1>10. UNCHANGED active
  BY <1>1 DEF mvccVars
<1> QED
  BY <1>1, <1>3, <1>4, <1>5, <1>6, <1>7, <1>9, <1>10, Bystander

\* commit_transaction takes the transaction out, or panics because another
\* thread has done so.
LEMMA CommitTakeInv ==
    ASSUME TmIInv, NEW th \in Threads, CommitTake(th)
    PROVE  TmIInv' /\ Promised
<1>0. PICK t \in Nat : t = tx[th]
  BY ThreadFacts DEF CommitTake
<1>1. /\ up /\ pc[th] = "commitTake"
      /\ UNCHANGED <<mvccVars, logVars, walHolder, nextId, lastLsn, tx, commitLsn,
                     reported, failed, logs, checkpoints, up, load>>
  BY DEF CommitTake
<1>2. /\ TmTypes /\ Ownership /\ Holding /\ TablesMatch /\ OwnOf(th)
      /\ t < nextId /\ nextId \in Nat /\ t \in TxIds
  BY <1>0, <1>1, ThreadFacts
<1>3. \A u \in TxIds : Same(u)
  BY <1>1, NoLogStep DEF logVars
<1>4. MvccInv' /\ WriteAheadCommit'
  BY <1>1, <1>3, NoStoreStep, SameFacts
<1>5. UNCHANGED <<active, failed, walHolder>> /\ t < nextId' /\ nextId' >= nextId
  BY <1>1, <1>2 DEF mvccVars
<1>6. CASE t \in registered /\ registered' = registered \ {t} /\
           pc' = [pc EXCEPT ![th] = "commitLog"] /\ UNCHANGED poisoned
  <2>1. TmTypes'
    BY <1>1, <1>2, <1>6 DEF TmTypes, TmTypeOK, MvccTypeOK, mvccVars, logVars, Pcs, CommitPcs
  <2>2. /\ pc'[th] = "commitLog" /\ tx'[th] = t
        /\ \A o \in Threads : o # th =>
              pc'[o] = pc[o] /\ tx'[o] = tx[o] /\ commitLsn'[o] = commitLsn[o]
    BY <1>0, <1>1, <1>2, <1>6 DEF TmTypes
  <2>3. OwnOf(th)'
    BY <1>2, <1>5, <1>6, <2>2 DEF OwnOf
  <2>4. StageOf(th)'
    <3>1. Unended(t)'
      BY <1>2, <1>3, <1>6, SameFacts DEF Ownership
    <3>2. Unended(tx[th])'
      BY <2>2, <3>1 DEF Unended, InLog
    <3>3. ~InLog("Abort", tx[th])' /\ reported'[tx'[th]] = "none"
      BY <3>2 DEF Unended
    <3> QED
      BY <2>2, <3>2, <3>3 DEF StageOf, BeginPcs, AbortPcs
  <2>5. \A o \in Threads : o # th /\ Owner(o) => tx[o] # t
    BY <1>2, <1>6 DEF Ownership, OwnOf
  <2>6. pc[th] \notin FlushPcs /\ pc'[th] \notin FlushPcs /\ pc[th] \notin LivePcs /\ pc'[th] \in LivePcs
    BY <1>1, <2>2 DEF FlushPcs, LivePcs
  <2>7. ASSUME ~failed, \A o \in Threads : pc[o] # "panicked" PROVE t \in active'
    BY <1>2, <1>5, <1>6, <2>7 DEF TablesMatch
  <2>8. t \notin registered' /\ \A u \in TxIds : u # t => /\ u \in registered' <=> u \in registered
                                                          /\ u \in active' <=> u \in active
    BY <1>5, <1>6
  <2> QED
    BY <1>1, <1>2, <1>3, <1>4, <1>5, <2>1, <2>2, <2>3, <2>4, <2>5, <2>6, <2>7, <2>8, QuietStep
<1>7. CASE poisoned' = TRUE /\ pc' = [pc EXCEPT ![th] = "panicked"] /\ UNCHANGED registered
  <2>1. TmTypes'
    BY <1>1, <1>2, <1>7 DEF TmTypes, TmTypeOK, MvccTypeOK, mvccVars, logVars, Pcs
  <2>2. /\ pc'[th] = "panicked" /\ tx'[th] = t
        /\ \A o \in Threads : o # th => pc'[o] = pc[o] /\ tx'[o] = tx[o]
    BY <1>0, <1>1, <1>2, <1>7 DEF TmTypes
  <2>3. ~Owner(th)'
    BY <2>2, NoStage
  <2>4. OwnOf(th)'
    BY <1>5, <2>2, <2>3 DEF OwnOf
  <2> QED
    BY <1>1, <1>2, <1>3, <1>4, <1>5, <1>7, <2>1, <2>2, <2>4, Bystander
<1> QED
  BY <1>0, <1>6, <1>7 DEF CommitTake

\* Locking the poisoned table, from wherever it happens.
LEMMA PanicInv ==
    ASSUME TmIInv, NEW th \in Threads, Panic(th)
    PROVE  TmIInv' /\ Promised
<1>0. PICK t \in Nat : t = tx[th]
  BY ThreadFacts DEF Panic
<1>1. /\ up /\ pc[th] \in {"idle", "register", "commitTake"}
      /\ pc' = [pc EXCEPT ![th] = "panicked"]
      /\ UNCHANGED <<mvccVars, logVars, walHolder, nextId, registered, lastLsn,
                     poisoned, tx, commitLsn, reported, failed, logs, checkpoints, up, load>>
  BY DEF Panic
<1>2. TmTypes /\ Ownership /\ t < nextId /\ nextId \in Nat
  BY <1>0, <1>1, ThreadFacts
<1>3. TmTypes'
  BY <1>1, <1>2 DEF TmTypes, TmTypeOK, MvccTypeOK, mvccVars, logVars, Pcs
<1>4. \A u \in TxIds : Same(u)
  BY <1>1, NoLogStep DEF logVars
<1>5. MvccInv' /\ WriteAheadCommit'
  BY <1>1, <1>4, NoStoreStep, SameFacts
<1>6. /\ pc'[th] = "panicked" /\ tx'[th] = t
      /\ \A o \in Threads : o # th =>
            pc'[o] = pc[o] /\ tx'[o] = tx[o] /\ commitLsn'[o] = commitLsn[o]
  BY <1>0, <1>1, <1>2 DEF TmTypes
<1>7. StageOf(th)' /\ ~Owner(th)' /\ pc'[th] \notin FlushPcs /\ pc'[th] \notin LivePcs
  BY <1>6, NoStage
<1>8. OwnOf(th)'
  BY <1>1, <1>2, <1>6, <1>7 DEF OwnOf
<1>9. pc[th] \notin FlushPcs
  BY <1>1 DEF FlushPcs
<1>10. UNCHANGED <<active, registered, failed, walHolder>>
  BY <1>1 DEF mvccVars
<1>11. \A o \in Threads : (o # th /\ Owner(o) /\ tx[o] = t) => t \notin registered'
  BY <1>2, <1>10 DEF Ownership, OwnOf
<1>12. t \in registered' => Unended(t)
  BY <1>2, <1>10 DEF Ownership
<1>13. nextId' >= nextId /\ t < nextId'
  BY <1>1, <1>2
<1> QED
  BY <1>0, <1>1, <1>3, <1>4, <1>5, <1>6, <1>7, <1>8, <1>9, <1>10, <1>11, <1>12, <1>13, QuietStep

\* rollback_transaction takes the transaction out.
LEMMA RollbackTakeInv ==
    ASSUME TmIInv, NEW th \in Threads, NEW t, RollbackTake(th, t)
    PROVE  TmIInv' /\ Promised
<1>1. /\ up /\ pc[th] = "idle" /\ pc' = [pc EXCEPT ![th] = "abortLog"]
      /\ t \in registered /\ registered' = registered \ {t} /\ tx' = [tx EXCEPT ![th] = t]
      /\ UNCHANGED <<mvccVars, logVars, walHolder, nextId, lastLsn, poisoned,
                     commitLsn, reported, failed, logs, checkpoints, up, load>>
  BY DEF RollbackTake, Goto
<1>2. /\ TmTypes /\ Ownership /\ Holding /\ TablesMatch
      /\ nextId \in Nat /\ registered \subseteq TxIds /\ TxIds \subseteq Nat
  BY <1>1, ThreadFacts
<1>3. t \in TxIds /\ t \in Nat /\ t < nextId
  BY <1>1, <1>2 DEF Ownership
<1>4. TmTypes'
  BY <1>1, <1>2, <1>3 DEF TmTypes, TmTypeOK, MvccTypeOK, mvccVars, logVars, Pcs, AbortPcs
<1>5. \A u \in TxIds : Same(u)
  BY <1>1, NoLogStep DEF logVars
<1>6. MvccInv' /\ WriteAheadCommit'
  BY <1>1, <1>5, NoStoreStep, SameFacts
<1>7. /\ pc'[th] = "abortLog" /\ tx'[th] = t
      /\ \A o \in Threads : o # th =>
            pc'[o] = pc[o] /\ tx'[o] = tx[o] /\ commitLsn'[o] = commitLsn[o]
  BY <1>1, <1>2 DEF TmTypes, TmTypeOK
<1>8. OwnOf(th)'
  BY <1>1, <1>3, <1>7 DEF OwnOf
<1>9. StageOf(th)'
  <2>1. Unended(t)'
    BY <1>1, <1>2, <1>3, <1>5, SameFacts DEF Ownership
  <2>2. Unended(tx[th])'
    BY <1>7, <2>1 DEF Unended, InLog
  <2>3. ~InLog("Commit", tx[th])' /\ reported'[tx'[th]] = "none"
    BY <2>2 DEF Unended
  <2> QED
    BY <1>7, <2>2, <2>3 DEF StageOf, BeginPcs, CommitPcs
<1>10. \A o \in Threads : o # th /\ Owner(o) => tx[o] # t
  BY <1>1, <1>2 DEF Ownership, OwnOf
<1>11. pc[th] \notin FlushPcs /\ pc'[th] \notin FlushPcs /\ pc[th] \notin LivePcs /\ pc'[th] \in LivePcs
  BY <1>1, <1>7 DEF FlushPcs, LivePcs
<1>12. UNCHANGED <<active, failed, walHolder>> /\ nextId' >= nextId /\ t < nextId'
  BY <1>1, <1>2, <1>3 DEF mvccVars
<1>13. ASSUME ~failed, \A o \in Threads : pc[o] # "panicked" PROVE t \in active'
  BY <1>1, <1>2, <1>3, <1>12, <1>13 DEF TablesMatch
<1>14. t \notin registered' /\ \A u \in TxIds : u # t => /\ u \in registered' <=> u \in registered
                                                         /\ u \in active' <=> u \in active
  BY <1>1, <1>12
<1> QED
  BY <1>1, <1>3, <1>4, <1>5, <1>6, <1>7, <1>8, <1>9, <1>10, <1>11, <1>12, <1>13, <1>14, QuietStep

-----------------------------------------------------------------------------
(* Ending a transaction *)

\* A step of the owner th of t, which may decide t and tell its caller.
LEMMA OwnerStep ==
    ASSUME TmIInv, up, TmTypes', MvccInv', WriteAheadCommit',
           NEW th \in Threads, NEW t \in TxIds, t = tx[th], Owner(th),
           \A o \in Threads : o # th =>
               pc'[o] = pc[o] /\ tx'[o] = tx[o] /\ commitLsn'[o] = commitLsn[o],
           UNCHANGED <<nextId, registered>>,
           \A u \in TxIds : u # t => Same(u) /\ (u \in active' <=> u \in active),
           Owner(th)' => tx'[th] = t, tx'[th] \in {t, NoTxId}, Owner(th)' \/ pc'[th] = "idle",
           StageOf(th)', Holding',
           ~(InLog("Commit", t)' /\ InLog("Abort", t)'),
           failed => failed',
           (~failed' /\ (t \in active <=> pc[th] \in LivePcs)) =>
               (t \in active' <=> tx'[th] = t /\ pc'[th] \in LivePcs)
    PROVE  TmIInv'
<1>1. /\ TmTypes /\ Ownership /\ Stages /\ TablesMatch /\ Decided
      /\ t \in Nat /\ t < nextId /\ nextId \in Nat
      /\ t \notin registered /\ \A o \in Threads : o # th /\ Owner(o) => tx[o] # t
      /\ pc[th] \in Pcs
  BY ThreadFacts
<1>2. t \notin registered'
  BY <1>1
<1>3. OwnOf(th)'
  <2>1. tx'[th] < nextId'
    BY <1>1, TmAssumption DEF NoTxId, TmTypes
  <2>2. pc'[th] \notin {"idle", "panicked"} => tx'[th] \in TxIds
    OBVIOUS
  <2>3. Owner(th)' => tx'[th] \notin registered'
    BY <1>2
  <2> QED
    BY <2>1, <2>2, <2>3 DEF OwnOf
<1>4. Ownership' /\ Stages'
  <2>1. nextId' >= nextId /\ t < nextId'
    BY <1>1
  <2> QED
    BY <1>1, <1>2, <1>3, <2>1, ThreadFrame
<1>5. \A o \in Threads : ~(o # th /\ tx[o] = t /\ pc[o] \in LivePcs)
  BY <1>1, LiveOwned
<1>6. ASSUME ~failed, \A o \in Threads : pc[o] # "panicked"
      PROVE  t \in active <=> pc[th] \in LivePcs
  <2>1. t \in active <=> \/ t \in registered
                         \/ \E o \in Threads : tx[o] = t /\ pc[o] \in LivePcs
    BY <1>1, <1>6 DEF TablesMatch
  <2> QED
    BY <1>1, <1>5, <2>1
<1>7. TablesMatch'
  <2>1. pc[th] = "panicked" => pc'[th] = "panicked"
    BY DEF Owner, BeginPcs, CommitPcs, AbortPcs
  <2>2. pc'[th] \in LivePcs => tx'[th] = t
    BY DEF Owner, LivePcs, BeginPcs, CommitPcs, AbortPcs
  <2>3. \A u \in TxIds : u # t => /\ u \in registered' <=> u \in registered
                                  /\ u \in active' <=> u \in active
    OBVIOUS
  <2>4. (~failed' /\ pc'[th] # "panicked" /\ ~failed /\ \A o \in Threads : pc[o] # "panicked") =>
          (t \in active' <=> \/ t \in registered'
                             \/ tx'[th] = t /\ pc'[th] \in LivePcs
                             \/ \E o \in Threads : o # th /\ tx[o] = t /\ pc[o] \in LivePcs)
    BY <1>2, <1>5, <1>6
  <2> QED
    BY <1>1, <2>1, <2>2, <2>3, <2>4, TablesFrame
<1>8. Decided'
  <2>1. SUFFICES ASSUME NEW u \in TxIds PROVE ~(InLog("Commit", u)' /\ InLog("Abort", u)')
    BY DEF Decided
  <2>2. CASE u = t
    BY <2>2
  <2>3. CASE u # t
    BY <1>1, <2>3, SameFacts DEF Decided
  <2> QED
    BY <2>2, <2>3
<1> QED
  BY <1>4, <1>7, <1>8 DEF TmIInv, Running

\* The log after a step of th that leaves it holding the log or unlocked.
LEMMA HoldingStep ==
    ASSUME Holding, NEW th \in Threads, NEW t, tx'[th] = t \/ pc'[th] \notin FlushPcs,
           \A o \in Threads : o # th => pc'[o] = pc[o] /\ tx'[o] = tx[o],
           walHolder \in {th, NoThread},
           walHolder' = IF pc'[th] \in FlushPcs THEN th ELSE NoThread,
           \A k \in OutcomeKinds, u \in TxIds : Has(buffer', k, u) =>
               /\ u = t /\ pc'[th] \in FlushPcs
               /\ k = "Commit" <=> pc'[th] \in {"commitFlush", "finalFlush"}
    PROVE  Holding'
<1>1. \A o \in Threads : walHolder' = o <=> pc'[o] \in FlushPcs
  BY TmAssumption DEF Holding
<1>2. ASSUME NEW k \in OutcomeKinds, NEW u \in TxIds, Has(buffer', k, u)
      PROVE  /\ walHolder' \in Threads /\ tx'[walHolder'] = u
             /\ k = "Commit" <=> pc'[walHolder'] \in {"commitFlush", "finalFlush"}
  BY <1>2
<1> QED
  BY <1>1, <1>2 DEF Holding

\* Appending the outcome of t to the unlocked log.
LEMMA OutcomeAppend ==
    ASSUME TmTypes, Holding, NEW kind \in OutcomeKinds, NEW t \in TxIds,
           NEW prev \in Nat \cup {LogNoLsn}, NEW ok \in BOOLEAN,
           AppendLog(kind, t, prev, ok), UNCHANGED reported
    PROVE  /\ walHolder = NoThread /\ failed' = (failed \/ ~ok)
           /\ file' \in Seq(Rec) /\ buffer' \in Seq(Rec) /\ nextLsn' \in Nat \ {0}
           /\ \A u \in TxIds : u # t => Same(u)
           /\ \A k \in OutcomeKinds, u \in TxIds : Has(buffer', k, u) => ok /\ k = kind /\ u = t
           /\ \A k \in OutcomeKinds :
                /\ OnDisk(k, t) => OnDisk(k, t)'
                /\ k # kind /\ ~InLog(k, t) => ~InLog(k, t)'
           /\ ok => InLog(kind, t)'
<1>1. walHolder = NoThread /\ failed' = (failed \/ ~ok) /\ Log!AppendOn(file, buffer, kind, t, prev, ok)
  BY DEF AppendLog
<1>2. \A k \in OutcomeKinds, u \in TxIds : ~Has(buffer, k, u)
  BY <1>1, TmAssumption DEF Holding
<1>3. file \in Seq(Rec) /\ buffer \in Seq(Rec) /\ nextLsn \in Nat \ {0}
  BY DEF TmTypes
<1>4. Log!Record(kind, t, prev, nextLsn) \in Rec
  BY <1>3 DEF Log!Record, Rec, Log!WalRecord, Log!AllKinds, OutcomeKinds
<1>5. /\ file' \in Seq(Rec) /\ buffer' \in Seq(Rec) /\ nextLsn' = nextLsn + 1
      /\ \A k \in OutcomeKinds : \A u :
            /\ Has(file, k, u) => Has(file', k, u)
            /\ Has(file', k, u) => Has(file, k, u) \/ Has(buffer, k, u) \/ (k = kind /\ u = t)
            /\ Has(buffer', k, u) => ok /\ (Has(buffer, k, u) \/ (k = kind /\ u = t))
            /\ ok /\ (Has(buffer, k, u) \/ (k = kind /\ u = t)) => Has(file', k, u) \/ Has(buffer', k, u)
  BY <1>1, <1>3, <1>4, AppendHas
<1>6. nextLsn' \in Nat \ {0}
  BY <1>3, <1>5
<1>7. \A u \in TxIds : u # t => Same(u)
  BY <1>2, <1>5 DEF Same
<1>8. \A k \in OutcomeKinds, u \in TxIds : Has(buffer', k, u) => ok /\ k = kind /\ u = t
  BY <1>2, <1>5
<1>9. \A k \in OutcomeKinds :
        /\ OnDisk(k, t) => OnDisk(k, t)'
        /\ k # kind /\ ~InLog(k, t) => ~InLog(k, t)'
  <2> TAKE k \in OutcomeKinds
  <2>1. Has(file, k, t) => Has(file', k, t)
    BY <1>5
  <2>2. k # kind /\ ~Has(file, k, t) => ~Has(file', k, t) /\ ~Has(buffer', k, t)
    BY <1>2, <1>5, <1>8
  <2>3. OnDisk(k, t) => OnDisk(k, t)'
    BY <2>1 DEF OnDisk, Has
  <2> QED
    BY <2>2, <2>3 DEF InLog
<1>10. ok => InLog(kind, t)'
  BY <1>5 DEF InLog
<1> QED
  BY <1>1, <1>5, <1>6, <1>7, <1>8, <1>9, <1>10

\* The flush by the holder th of the log, which decides its own transaction only.
LEMMA FlushEffect ==
    ASSUME TmTypes, Holding, NEW th \in Threads, NEW t \in TxIds, t = tx[th], NEW ok \in BOOLEAN,
           FlushLog(th, ok), UNCHANGED reported
    PROVE  /\ walHolder = th /\ walHolder' = NoThread /\ failed' = (failed \/ ~ok)
           /\ file' \in Seq(Rec) /\ buffer' \in Seq(Rec) /\ nextLsn' \in Nat \ {0}
           /\ \A u \in TxIds : u # t => Same(u)
           /\ \A k \in OutcomeKinds, u \in TxIds : ~Has(buffer', k, u)
           /\ \A k \in OutcomeKinds :
                /\ OnDisk(k, t) => OnDisk(k, t)'
                /\ ~InLog(k, t) => ~InLog(k, t)'
                /\ ok /\ InLog(k, t) => OnDisk(k, t)'
<1>1. /\ walHolder = th /\ walHolder' = NoThread /\ failed' = (failed \/ ~ok)
      /\ IF ok THEN file' = file \o buffer ELSE file' \in Log!PartlyWritten(file, buffer)
      /\ buffer' = <<>> /\ nextLsn' = nextLsn
  BY DEF FlushLog, Log!Stored
<1>2. file \in Seq(Rec) /\ buffer \in Seq(Rec) /\ nextLsn \in Nat \ {0}
  BY DEF TmTypes
<1>3. buffer' \in Seq(Rec) /\ \A k, u : ~Has(buffer', k, u)
  BY <1>1, HasNone
<1>4. /\ file' \in Seq(Rec)
      /\ \A k \in OutcomeKinds : \A u :
            /\ Has(file, k, u) => Has(file', k, u)
            /\ Has(file', k, u) => Has(file, k, u) \/ Has(buffer, k, u)
            /\ ok /\ Has(buffer, k, u) => Has(file', k, u)
  <2>1. CASE ok
    <3> DEFINE all == file \o buffer
    <3>1. all \in Seq(Rec)
      BY <1>2
    <3>2. \A k, u : Has(all, k, u) <=> Has(file, k, u) \/ Has(buffer, k, u)
      BY <1>2, HasConcat
    <3>3. file' = all
      BY <1>1, <2>1
    <3> HIDE DEF all
    <3> QED
      BY <3>1, <3>2, <3>3
  <2>2. CASE ~ok
    <3>1. file' \in Log!PartlyWritten(file, buffer)
      BY <1>1, <2>2
    <3> QED
      BY <1>2, <2>2, <3>1, PartlyHas
  <2> QED
    BY <2>1, <2>2
<1>5. \A k \in OutcomeKinds, u \in TxIds : Has(buffer, k, u) => u = t
  BY <1>1 DEF Holding
<1>6. \A u \in TxIds : u # t => Same(u)
  BY <1>3, <1>4, <1>5 DEF Same
<1>7. \A k \in OutcomeKinds :
        /\ OnDisk(k, t) => OnDisk(k, t)'
        /\ ~InLog(k, t) => ~InLog(k, t)'
        /\ ok /\ InLog(k, t) => OnDisk(k, t)'
  <2> TAKE k \in OutcomeKinds
  <2>1. /\ Has(file, k, t) => Has(file', k, t)
        /\ ~Has(file, k, t) /\ ~Has(buffer, k, t) => ~Has(file', k, t)
        /\ ok /\ Has(buffer, k, t) => Has(file', k, t)
        /\ ~Has(buffer', k, t)
    BY <1>3, <1>4
  <2>2. (OnDisk(k, t) <=> Has(file, k, t)) /\ (OnDisk(k, t)' <=> Has(file', k, t))
    BY DEF OnDisk, Has
  <2> QED
    BY <2>1, <2>2 DEF InLog
<1> QED
  BY <1>1, <1>2, <1>3, <1>4, <1>6, <1>7

\* A step that decides t but leaves the store alone takes no commit from the file.
LEMMA StoreKept ==
    ASSUME TmIInv, UNCHANGED mvccVars, NEW t \in TxIds,
           \A u \in TxIds : u # t => Same(u), OnDisk("Commit", t) => OnDisk("Commit", t)'
    PROVE  MvccInv' /\ WriteAheadCommit'
<1>1. ASSUME NEW u \in TxIds, OnDisk("Commit", u) PROVE OnDisk("Commit", u)'
  <2>1. CASE u = t
    BY <1>1, <2>1
  <2>2. CASE u # t
    BY <1>1, <2>2, SameFacts
  <2> QED
    BY <2>1, <2>2
<1> QED
  BY <1>1, NoStoreStep

\* The two commit records of commit_transaction.
LEMMA CommitLogInv ==
    ASSUME TmIInv, NEW th \in Threads, CommitLog(th)
    PROVE  TmIInv' /\ Promised
<1>1. /\ up /\ pc[th] \in {"commitLog", "finalLog"}
      /\ UNCHANGED <<mvccVars, nextId, registered, lastLsn, poisoned, tx, reported, logs,
                     checkpoints, up, load>>
  BY DEF CommitLog
<1>2. PICK t \in TxIds : t = tx[th]
  BY <1>1, ThreadFacts
<1>3. /\ TmTypes /\ Holding /\ StageOf(th) /\ pc[th] \in Pcs
      /\ nextLsn \in Nat \ {0} /\ lastLsn[t] \in Nat \cup {LogNoLsn} /\ commitLsn[th] \in Nat
  BY <1>1, ThreadFacts DEF TmTypes, TmTypeOK
<1>4. PICK ok \in BOOLEAN, prev \in Nat \cup {LogNoLsn} :
        /\ AppendLog("Commit", t, prev, ok)
        /\ \/ /\ pc[th] = "commitLog"
              /\ commitLsn' = [commitLsn EXCEPT ![th] = nextLsn]
              /\ pc' = [pc EXCEPT ![th] = IF ok THEN "commitFlush" ELSE "commitFailed"]
           \/ /\ pc[th] = "finalLog" /\ UNCHANGED commitLsn
              /\ pc' = [pc EXCEPT ![th] = IF ok THEN "finalFlush" ELSE "commitFailed"]
        /\ walHolder' = IF ok THEN th ELSE NoThread
  <2>1. pc[th] = "finalLog" => commitLsn[th] - 1 \in Nat
    BY <1>3 DEF StageOf
  <2> QED
    BY <1>2, <1>3, <2>1 DEF CommitLog
<1>5. "Commit" \in OutcomeKinds /\ "Abort" \in OutcomeKinds /\ "Abort" # "Commit"
  BY DEF OutcomeKinds
<1>6. /\ walHolder = NoThread /\ failed' = (failed \/ ~ok)
      /\ file' \in Seq(Rec) /\ buffer' \in Seq(Rec) /\ nextLsn' \in Nat \ {0}
      /\ \A u \in TxIds : u # t => Same(u)
      /\ \A k \in OutcomeKinds, u \in TxIds : Has(buffer', k, u) => ok /\ k = "Commit" /\ u = t
      /\ \A k \in OutcomeKinds : OnDisk(k, t) => OnDisk(k, t)'
      /\ ~InLog("Abort", t) => ~InLog("Abort", t)'
      /\ ok => InLog("Commit", t)'
  BY <1>1, <1>3, <1>4, <1>5, OutcomeAppend
<1>7. /\ tx'[th] = t /\ commitLsn' \in [Threads -> Nat] /\ pc' \in [Threads -> Pcs]
      /\ pc'[th] = IF ~ok THEN "commitFailed"
                   ELSE IF pc[th] = "commitLog" THEN "commitFlush" ELSE "finalFlush"
      /\ pc[th] = "commitLog" => commitLsn'[th] > 0
      /\ \A o \in Threads : o # th =>
            pc'[o] = pc[o] /\ tx'[o] = tx[o] /\ commitLsn'[o] = commitLsn[o]
  <2>1. pc \in [Threads -> Pcs] /\ commitLsn \in [Threads -> Nat] /\ tx' = tx
    BY <1>1, <1>3 DEF TmTypes
  <2>2. "commitFailed" \in Pcs /\ "commitFlush" \in Pcs /\ "finalFlush" \in Pcs
    BY DEF Pcs, CommitPcs
  <2>3. CASE pc[th] = "commitLog"
    BY <1>2, <1>3, <1>4, <2>1, <2>2, <2>3
  <2>4. CASE pc[th] = "finalLog"
    BY <1>2, <1>4, <2>1, <2>2, <2>4
  <2> QED
    BY <1>1, <2>3, <2>4
<1>8. MvccInv' /\ WriteAheadCommit'
  BY <1>1, <1>5, <1>6, StoreKept
<1>9. TmTypes'
  BY <1>1, <1>3, <1>4, <1>6, <1>7, <1>8 DEF TmTypes, TmTypeOK, MvccInv
<1>10. /\ ~InLog("Abort", t) /\ reported[t] = "none"
       /\ pc[th] = "finalLog" => OnDisk("Commit", t)
  BY <1>1, <1>2, <1>3 DEF StageOf, CommitPcs
<1>11. StageOf(th)'
  <2>1. ~InLog("Abort", tx[th])' /\ reported'[tx'[th]] = "none"
    BY <1>1, <1>6, <1>7, <1>10 DEF InLog
  <2>2. pc'[th] = "commitFlush" => InLog("Commit", tx[th])' /\ commitLsn'[th] > 0
    BY <1>1, <1>6, <1>7 DEF InLog
  <2>3. pc'[th] = "finalFlush" => OnDisk("Commit", tx[th])'
    BY <1>1, <1>5, <1>6, <1>7, <1>10 DEF OnDisk
  <2> QED
    BY <1>7, <2>1, <2>2, <2>3 DEF StageOf, BeginPcs, AbortPcs
<1>12. Holding'
  <2>1. walHolder' = IF pc'[th] \in FlushPcs THEN th ELSE NoThread
    BY <1>4, <1>7 DEF FlushPcs
  <2>2. ASSUME ok PROVE pc'[th] \in FlushPcs /\ pc'[th] \in {"commitFlush", "finalFlush"}
    BY <1>1, <1>7, <2>2 DEF FlushPcs
  <2>3. \A k \in OutcomeKinds, u \in TxIds : Has(buffer', k, u) =>
            /\ u = t /\ pc'[th] \in FlushPcs
            /\ k = "Commit" <=> pc'[th] \in {"commitFlush", "finalFlush"}
    BY <1>6, <2>2
  <2>4. /\ tx'[th] = t /\ walHolder \in {th, NoThread}
        /\ \A o \in Threads : o # th => pc'[o] = pc[o] /\ tx'[o] = tx[o]
    BY <1>6, <1>7
  <2> QED
    BY <1>3, <2>1, <2>3, <2>4, HoldingStep
<1>13. Owner(th) /\ Owner(th)'
  BY <1>1, <1>7 DEF Owner, CommitPcs
<1>14. UNCHANGED active
  BY <1>1 DEF mvccVars
<1>15. ~failed' => (pc[th] \in LivePcs <=> pc'[th] \in LivePcs)
  BY <1>1, <1>6, <1>7 DEF LivePcs
<1>16. TmIInv'
  BY <1>1, <1>2, <1>6, <1>7, <1>8, <1>9, <1>10, <1>11, <1>12, <1>13, <1>14, <1>15, OwnerStep
<1>17. Promised
  BY <1>1, <1>3, <1>6, <1>16, DecideStep DEF TmIInv
<1> QED
  BY <1>16, <1>17

\* The abort record of rollback_transaction.
LEMMA RollbackLogInv ==
    ASSUME TmIInv, NEW th \in Threads, RollbackLog(th)
    PROVE  TmIInv' /\ Promised
<1>1. /\ up /\ pc[th] = "abortLog"
      /\ UNCHANGED <<mvccVars, nextId, registered, lastLsn, poisoned, tx, commitLsn,
                     reported, logs, checkpoints, up, load>>
  BY DEF RollbackLog
<1>2. PICK t \in TxIds : t = tx[th]
  BY <1>1, ThreadFacts
<1>3. /\ TmTypes /\ Holding /\ StageOf(th) /\ pc[th] \in Pcs
      /\ nextLsn \in Nat \ {0} /\ lastLsn[t] \in Nat \cup {LogNoLsn}
  BY <1>1, ThreadFacts DEF TmTypes, TmTypeOK
<1>4. PICK ok \in BOOLEAN, prev \in Nat \cup {LogNoLsn} :
        /\ AppendLog("Abort", t, prev, ok)
        /\ pc' = [pc EXCEPT ![th] = IF ok THEN "abortFlush" ELSE "abortFailed"]
        /\ walHolder' = IF ok THEN th ELSE NoThread
  BY <1>2, <1>3 DEF RollbackLog
<1>5. "Commit" \in OutcomeKinds /\ "Abort" \in OutcomeKinds /\ "Abort" # "Commit"
  BY DEF OutcomeKinds
<1>6. /\ walHolder = NoThread /\ failed' = (failed \/ ~ok)
      /\ file' \in Seq(Rec) /\ buffer' \in Seq(Rec) /\ nextLsn' \in Nat \ {0}
      /\ \A u \in TxIds : u # t => Same(u)
      /\ \A k \in OutcomeKinds, u \in TxIds : Has(buffer', k, u) => ok /\ k = "Abort" /\ u = t
      /\ \A k \in OutcomeKinds : OnDisk(k, t) => OnDisk(k, t)'
      /\ ~InLog("Commit", t) => ~InLog("Commit", t)'
      /\ ok => InLog("Abort", t)'
  BY <1>1, <1>3, <1>4, <1>5, OutcomeAppend
<1>7. /\ tx'[th] = t /\ pc' \in [Threads -> Pcs]
      /\ pc'[th] = IF ok THEN "abortFlush" ELSE "abortFailed"
      /\ \A o \in Threads : o # th =>
            pc'[o] = pc[o] /\ tx'[o] = tx[o] /\ commitLsn'[o] = commitLsn[o]
  BY <1>1, <1>2, <1>3, <1>4 DEF TmTypes, Pcs, AbortPcs
<1>8. MvccInv' /\ WriteAheadCommit'
  BY <1>1, <1>5, <1>6, StoreKept
<1>9. TmTypes'
  <2>1. walHolder' \in Threads \cup {NoThread} /\ failed' \in BOOLEAN
    BY <1>3, <1>4, <1>6 DEF TmTypes
  <2> QED
    BY <1>1, <1>3, <1>6, <1>7, <1>8, <2>1 DEF TmTypes, TmTypeOK, MvccInv
<1>10. ~InLog("Commit", t) /\ reported[t] = "none"
  BY <1>1, <1>2, <1>3 DEF StageOf, AbortPcs
<1>11. StageOf(th)'
  <2>1. ~InLog("Commit", tx[th])' /\ reported'[tx'[th]] = "none"
    BY <1>1, <1>6, <1>7, <1>10 DEF InLog
  <2>2. pc'[th] = "abortFlush" => InLog("Abort", tx[th])'
    BY <1>6, <1>7 DEF InLog
  <2> QED
    BY <1>7, <2>1, <2>2 DEF StageOf, BeginPcs, CommitPcs
<1>12. Holding'
  <2>1. walHolder' = IF pc'[th] \in FlushPcs THEN th ELSE NoThread
    BY <1>4, <1>7 DEF FlushPcs
  <2>2. ASSUME ok PROVE pc'[th] \in FlushPcs /\ pc'[th] \notin {"commitFlush", "finalFlush"}
    BY <1>7, <2>2 DEF FlushPcs
  <2>3. \A k \in OutcomeKinds, u \in TxIds : Has(buffer', k, u) =>
            /\ u = t /\ pc'[th] \in FlushPcs
            /\ k = "Commit" <=> pc'[th] \in {"commitFlush", "finalFlush"}
    BY <1>5, <1>6, <2>2
  <2>4. /\ tx'[th] = t /\ walHolder \in {th, NoThread}
        /\ \A o \in Threads : o # th => pc'[o] = pc[o] /\ tx'[o] = tx[o]
    BY <1>6, <1>7
  <2> QED
    BY <1>3, <2>1, <2>3, <2>4, HoldingStep
<1>13. Owner(th) /\ Owner(th)'
  BY <1>1, <1>7 DEF Owner, AbortPcs
<1>14. UNCHANGED active
  BY <1>1 DEF mvccVars
<1>15. ~failed' => (pc[th] \in LivePcs <=> pc'[th] \in LivePcs)
  BY <1>1, <1>6, <1>7 DEF LivePcs
<1>16. TmIInv'
  BY <1>1, <1>2, <1>6, <1>7, <1>8, <1>9, <1>10, <1>11, <1>12, <1>13, <1>14, <1>15, OwnerStep
<1>17. Promised
  BY <1>1, <1>3, <1>6, <1>16, DecideStep DEF TmIInv
<1> QED
  BY <1>16, <1>17

\* The flush after either commit record.
LEMMA CommitFlushInv ==
    ASSUME TmIInv, NEW th \in Threads, CommitFlush(th)
    PROVE  TmIInv' /\ Promised
<1>1. /\ up /\ pc[th] \in {"commitFlush", "finalFlush"}
      /\ UNCHANGED <<mvccVars, nextId, registered, lastLsn, poisoned, tx, commitLsn,
                     reported, logs, checkpoints, up, load>>
  BY DEF CommitFlush
<1>2. PICK t \in TxIds : t = tx[th]
  BY <1>1, ThreadFacts
<1>3. TmTypes /\ Holding /\ StageOf(th) /\ pc[th] \in Pcs
  BY <1>1, ThreadFacts
<1>4. PICK ok \in BOOLEAN :
        /\ FlushLog(th, ok)
        /\ pc' = [pc EXCEPT ![th] = IF ~ok THEN "commitFailed"
                                    ELSE IF pc[th] = "commitFlush" THEN "commitMvcc"
                                    ELSE "commitDone"]
  BY DEF CommitFlush
<1>5. "Commit" \in OutcomeKinds /\ "Abort" \in OutcomeKinds
  BY DEF OutcomeKinds
<1>6. /\ walHolder = th /\ walHolder' = NoThread /\ failed' = (failed \/ ~ok)
      /\ file' \in Seq(Rec) /\ buffer' \in Seq(Rec) /\ nextLsn' \in Nat \ {0}
      /\ \A u \in TxIds : u # t => Same(u)
      /\ \A k \in OutcomeKinds, u \in TxIds : ~Has(buffer', k, u)
      /\ \A k \in OutcomeKinds : OnDisk(k, t) => OnDisk(k, t)'
      /\ ok /\ InLog("Commit", t) => OnDisk("Commit", t)'
      /\ ~InLog("Abort", t) => ~InLog("Abort", t)'
  BY <1>1, <1>2, <1>3, <1>4, <1>5, FlushEffect
<1>7. /\ tx'[th] = t /\ pc' \in [Threads -> Pcs]
      /\ pc'[th] = IF ~ok THEN "commitFailed"
                   ELSE IF pc[th] = "commitFlush" THEN "commitMvcc" ELSE "commitDone"
      /\ \A o \in Threads : o # th =>
            pc'[o] = pc[o] /\ tx'[o] = tx[o] /\ commitLsn'[o] = commitLsn[o]
  BY <1>1, <1>2, <1>3, <1>4 DEF TmTypes, Pcs, CommitPcs
<1>8. MvccInv' /\ WriteAheadCommit'
  BY <1>1, <1>5, <1>6, StoreKept
<1>9. TmTypes'
  <2>1. walHolder' \in Threads \cup {NoThread} /\ failed' \in BOOLEAN
    BY <1>3, <1>6 DEF TmTypes
  <2> QED
    BY <1>1, <1>3, <1>6, <1>7, <1>8, <2>1 DEF TmTypes, TmTypeOK, MvccInv
<1>10. /\ ~InLog("Abort", t) /\ reported[t] = "none"
       /\ pc[th] = "commitFlush" => InLog("Commit", t) /\ commitLsn[th] > 0
       /\ pc[th] = "finalFlush" => OnDisk("Commit", t)
  BY <1>1, <1>2, <1>3 DEF StageOf, CommitPcs
<1>11. StageOf(th)'
  <2>1. ~InLog("Abort", tx[th])' /\ reported'[tx'[th]] = "none"
    BY <1>1, <1>6, <1>7, <1>10 DEF InLog
  <2>2. ok => OnDisk("Commit", t)'
    BY <1>1, <1>5, <1>6, <1>10
  <2>3. ok => OnDisk("Commit", tx[th])'
    BY <1>7, <2>2 DEF OnDisk
  <2>4. pc'[th] = "commitMvcc" => commitLsn'[th] > 0
    BY <1>1, <1>7, <1>10
  <2>5. pc'[th] \in {"commitMvcc", "commitDone"} => ok
    BY <1>7
  <2>6. pc'[th] \in {"commitMvcc", "commitDone", "commitFailed"}
    BY <1>7
  <2> QED
    BY <2>1, <2>3, <2>4, <2>5, <2>6 DEF StageOf, BeginPcs, AbortPcs
<1>12. Holding'
  <2>1. pc'[th] \notin FlushPcs
    BY <1>7 DEF FlushPcs
  <2>2. /\ tx'[th] = t /\ walHolder \in {th, NoThread} /\ walHolder' = NoThread
        /\ \A o \in Threads : o # th => pc'[o] = pc[o] /\ tx'[o] = tx[o]
        /\ \A k \in OutcomeKinds, u \in TxIds : ~Has(buffer', k, u)
    BY <1>6, <1>7
  <2> QED
    BY <1>3, <2>1, <2>2, HoldingStep
<1>13. Owner(th) /\ Owner(th)'
  BY <1>1, <1>7 DEF Owner, CommitPcs
<1>14. UNCHANGED active
  BY <1>1 DEF mvccVars
<1>15. ~failed' => (pc[th] \in LivePcs <=> pc'[th] \in LivePcs)
  BY <1>1, <1>6, <1>7 DEF LivePcs
<1>16. TmIInv'
  BY <1>1, <1>2, <1>6, <1>7, <1>8, <1>9, <1>10, <1>11, <1>12, <1>13, <1>14, <1>15, OwnerStep
<1>17. Promised
  BY <1>1, <1>3, <1>6, <1>16, DecideStep DEF TmIInv
<1> QED
  BY <1>16, <1>17

\* The flush after the abort record.
LEMMA RollbackFlushInv ==
    ASSUME TmIInv, NEW th \in Threads, RollbackFlush(th)
    PROVE  TmIInv' /\ Promised
<1>1. /\ up /\ pc[th] = "abortFlush"
      /\ UNCHANGED <<mvccVars, nextId, registered, lastLsn, poisoned, tx, commitLsn,
                     reported, logs, checkpoints, up, load>>
  BY DEF RollbackFlush
<1>2. PICK t \in TxIds : t = tx[th]
  BY <1>1, ThreadFacts
<1>3. TmTypes /\ Holding /\ StageOf(th) /\ pc[th] \in Pcs
  BY <1>1, ThreadFacts
<1>4. PICK ok \in BOOLEAN :
        /\ FlushLog(th, ok)
        /\ pc' = [pc EXCEPT ![th] = IF ok THEN "abortMvcc" ELSE "abortFailed"]
  BY DEF RollbackFlush
<1>5. "Commit" \in OutcomeKinds /\ "Abort" \in OutcomeKinds
  BY DEF OutcomeKinds
<1>6. /\ walHolder = th /\ walHolder' = NoThread /\ failed' = (failed \/ ~ok)
      /\ file' \in Seq(Rec) /\ buffer' \in Seq(Rec) /\ nextLsn' \in Nat \ {0}
      /\ \A u \in TxIds : u # t => Same(u)
      /\ \A k \in OutcomeKinds, u \in TxIds : ~Has(buffer', k, u)
      /\ \A k \in OutcomeKinds : OnDisk(k, t) => OnDisk(k, t)'
      /\ ok /\ InLog("Abort", t) => OnDisk("Abort", t)'
      /\ ~InLog("Commit", t) => ~InLog("Commit", t)'
  BY <1>1, <1>2, <1>3, <1>4, <1>5, FlushEffect
<1>7. /\ tx'[th] = t /\ pc' \in [Threads -> Pcs]
      /\ pc'[th] = IF ok THEN "abortMvcc" ELSE "abortFailed"
      /\ \A o \in Threads : o # th =>
            pc'[o] = pc[o] /\ tx'[o] = tx[o] /\ commitLsn'[o] = commitLsn[o]
  BY <1>1, <1>2, <1>3, <1>4 DEF TmTypes, Pcs, AbortPcs
<1>8. MvccInv' /\ WriteAheadCommit'
  BY <1>1, <1>5, <1>6, StoreKept
<1>9. TmTypes'
  <2>1. walHolder' \in Threads \cup {NoThread} /\ failed' \in BOOLEAN
    BY <1>3, <1>6 DEF TmTypes
  <2> QED
    BY <1>1, <1>3, <1>6, <1>7, <1>8, <2>1 DEF TmTypes, TmTypeOK, MvccInv
<1>10. ~InLog("Commit", t) /\ reported[t] = "none" /\ InLog("Abort", t)
  BY <1>1, <1>2, <1>3 DEF StageOf, AbortPcs
<1>11. StageOf(th)'
  <2>1. ~InLog("Commit", tx[th])' /\ reported'[tx'[th]] = "none"
    BY <1>1, <1>6, <1>7, <1>10 DEF InLog
  <2>2. ok => OnDisk("Abort", tx[th])'
    BY <1>6, <1>7, <1>10 DEF OnDisk
  <2>3. pc'[th] = "abortMvcc" => ok
    BY <1>7
  <2>4. pc'[th] \in {"abortMvcc", "abortFailed"}
    BY <1>7
  <2> QED
    BY <2>1, <2>2, <2>3, <2>4 DEF StageOf, BeginPcs, CommitPcs
<1>12. Holding'
  <2>1. pc'[th] \notin FlushPcs
    BY <1>7 DEF FlushPcs
  <2>2. /\ tx'[th] = t /\ walHolder \in {th, NoThread} /\ walHolder' = NoThread
        /\ \A o \in Threads : o # th => pc'[o] = pc[o] /\ tx'[o] = tx[o]
        /\ \A k \in OutcomeKinds, u \in TxIds : ~Has(buffer', k, u)
    BY <1>6, <1>7
  <2> QED
    BY <1>3, <2>1, <2>2, HoldingStep
<1>13. Owner(th) /\ Owner(th)'
  BY <1>1, <1>7 DEF Owner, AbortPcs
<1>14. UNCHANGED active
  BY <1>1 DEF mvccVars
<1>15. ~failed' => (pc[th] \in LivePcs <=> pc'[th] \in LivePcs)
  BY <1>1, <1>6, <1>7 DEF LivePcs
<1>16. TmIInv'
  BY <1>1, <1>2, <1>6, <1>7, <1>8, <1>9, <1>10, <1>11, <1>12, <1>13, <1>14, <1>15, OwnerStep
<1>17. Promised
  BY <1>1, <1>3, <1>6, <1>16, DecideStep DEF TmIInv
<1> QED
  BY <1>16, <1>17

\* The versions of a transaction are stamped when its commit record is on disk.
LEMMA CommitMvccInv ==
    ASSUME TmIInv, NEW th \in Threads, CommitMvcc(th)
    PROVE  TmIInv' /\ Promised
<1>1. /\ up /\ pc[th] = "commitMvcc" /\ pc' = [pc EXCEPT ![th] = "finalLog"]
      /\ UNCHANGED <<logVars, walHolder, nextId, registered, lastLsn, poisoned, tx,
                     commitLsn, reported, failed, logs, checkpoints, up, load>>
  BY DEF CommitMvcc, Goto
<1>2. PICK t \in TxIds : t = tx[th]
  BY <1>1, ThreadFacts
<1>3. /\ TmTypes /\ Ownership /\ Holding /\ TablesMatch /\ StageOf(th) /\ OwnOf(th)
      /\ t \in Nat /\ t < nextId /\ nextId \in Nat
  BY <1>1, <1>2, ThreadFacts
<1>4. Owner(th) /\ t \notin registered /\ \A o \in Threads : o # th /\ Owner(o) => tx[o] # t
  BY <1>1, <1>2, ThreadFacts DEF Owner, CommitPcs
<1>5. Commit(t)
  BY <1>2 DEF CommitMvcc
<1>6. MvccInv'
  BY <1>5, MvccStepInv DEF MvccNext, TmIInv
<1>7. TmTypes'
  BY <1>1, <1>3, <1>6 DEF TmTypes, TmTypeOK, MvccInv, logVars, Pcs, CommitPcs
<1>8. \A u \in TxIds : Same(u)
  BY <1>1, NoLogStep DEF logVars
<1>9. /\ OnDisk("Commit", t) /\ ~InLog("Abort", t) /\ reported[t] = "none"
      /\ commitLsn[th] > 0
  BY <1>1, <1>2, <1>3 DEF StageOf, CommitPcs
<1>10. WriteAheadCommit'
  <2>1. \A v \in versions' : v.commitTs # 0 =>
            v.creator = t \/ \E w \in versions : w.creator = v.creator /\ w.commitTs # 0
    <3> SUFFICES ASSUME NEW v \in versions', v.commitTs # 0, v.creator # t
                 PROVE  \E w \in versions : w.creator = v.creator /\ w.commitTs # 0
      OBVIOUS
    <3>1. PICK w \in versions : v = IF w.creator = t THEN [w EXCEPT !.commitTs = clock] ELSE w
      BY <1>5 DEF Commit
    <3>2. w \in Version
      BY <1>3 DEF TmTypes, TmTypeOK, MvccTypeOK
    <3>3. w.creator # t
      BY <3>1, <3>2 DEF Version
    <3> QED
      BY <3>1, <3>3
  <2>2. \A u : OnDisk("Commit", u)' <=> OnDisk("Commit", u)
    BY <1>1 DEF OnDisk, logVars
  <2>3. ASSUME NEW v \in versions', v.commitTs # 0 PROVE OnDisk("Commit", v.creator)
    <3>1. CASE v.creator = t
      BY <1>9, <3>1
    <3>2. CASE v.creator # t
      BY <2>1, <2>3, <3>2 DEF TmIInv, WriteAheadCommit
    <3> QED
      BY <3>1, <3>2
  <2> QED
    BY <1>1, <2>3 DEF WriteAheadCommit, OnDisk, logVars
<1>11. active' = active \ {t}
  BY <1>5 DEF Commit
<1>12. /\ pc'[th] = "finalLog" /\ tx'[th] = t
       /\ \A o \in Threads : o # th =>
             pc'[o] = pc[o] /\ tx'[o] = tx[o] /\ commitLsn'[o] = commitLsn[o]
  BY <1>1, <1>2, <1>3 DEF TmTypes
<1>13. OwnOf(th)'
  BY <1>1, <1>3, <1>4, <1>12 DEF OwnOf
<1>14. StageOf(th)'
  <2>1. OnDisk("Commit", t)' /\ ~InLog("Abort", t)' /\ reported'[t] = "none"
    BY <1>8, <1>9, SameFacts DEF Same
  <2>2. OnDisk("Commit", tx[th])' /\ ~InLog("Abort", tx[th])' /\ reported'[tx'[th]] = "none"
    BY <1>12, <2>1 DEF OnDisk, InLog
  <2>3. commitLsn'[th] > 0
    BY <1>1, <1>9
  <2> QED
    BY <1>12, <2>2, <2>3 DEF StageOf, BeginPcs, AbortPcs
<1>15. pc[th] \notin FlushPcs /\ pc'[th] \notin FlushPcs /\ pc'[th] \notin LivePcs
  BY <1>1, <1>12 DEF FlushPcs, LivePcs
<1>16. \A o \in Threads : ~(o # th /\ tx[o] = t /\ pc[o] \in LivePcs)
  BY <1>4, LiveOwned
<1>17. /\ t \notin active' /\ t \notin registered' /\ pc[th] # "panicked"
       /\ \A u \in TxIds : u # t => /\ u \in registered' <=> u \in registered
                                    /\ u \in active' <=> u \in active
  BY <1>1, <1>4, <1>11
<1>18. nextId' >= nextId /\ t < nextId' /\ (failed => failed') /\ UNCHANGED walHolder
  BY <1>1, <1>3
<1> QED
  BY <1>1, <1>2, <1>3, <1>4, <1>6, <1>7, <1>8, <1>10, <1>12, <1>13, <1>14, <1>15, <1>16, <1>17,
     <1>18, QuietStep

\* The call that ends a transaction returns: the caller is told, and the thread
\* owns nothing any more.
LEMMA ReturnStep ==
    ASSUME TmIInv, up, MvccInv', WriteAheadCommit', NEW th \in Threads, Owner(th),
           NEW t \in TxIds, t = tx[th], reported[t] = "none",
           NEW answer \in {"error"} \cup ({"committed", "aborted"} \cap {DurableOutcome[t]}),
           Report(t, answer), Return(th, NoTxId), pc[th] \notin FlushPcs,
           UNCHANGED <<logVars, walHolder, nextId, registered, lastLsn, poisoned, commitLsn,
                       failed, up, load>>,
           \A u \in TxIds : u # t => (u \in active' <=> u \in active),
           (t \in active <=> pc[th] \in LivePcs) => t \notin active' \/ failed
    PROVE  TmIInv' /\ Promised
<1>1. TmTypes /\ Holding /\ Decided /\ t \in Nat /\ tx[th] # NoTxId /\ t # NoTxId
  BY ThreadFacts, TmAssumption DEF NoTxId
<1>2. /\ pc'[th] = "idle" /\ tx'[th] = NoTxId
      /\ pc' \in [Threads -> Pcs] /\ tx' \in [Threads -> TxIds \cup {NoTxId}]
      /\ \A o \in Threads : o # th =>
            pc'[o] = pc[o] /\ tx'[o] = tx[o] /\ commitLsn'[o] = commitLsn[o]
  BY <1>1 DEF TmTypes, TmTypeOK, Return, Pcs
<1>3. /\ reported' \in [TxIds -> {"none", "committed", "aborted", "error"}]
      /\ \A u \in TxIds : u # t => reported'[u] = reported[u]
  BY <1>1 DEF TmTypes, TmTypeOK, Report
<1>4. TmTypes'
  BY <1>1, <1>2, <1>3 DEF TmTypes, TmTypeOK, MvccInv, logVars
<1>5. \A u \in TxIds : u # t => Same(u)
  BY <1>3 DEF Same, logVars
<1>6. StageOf(th)' /\ ~Owner(th)' /\ pc'[th] \notin FlushPcs /\ pc'[th] \notin LivePcs
  BY <1>2, NoStage
<1>7. Holding'
  <2>1. \A k \in OutcomeKinds, u \in TxIds : Has(buffer', k, u) => Has(buffer, k, u)
    BY DEF logVars
  <2> QED
    BY <1>1, <1>2, <1>6, <2>1, HoldingFrame
<1>8. ~(InLog("Commit", t)' /\ InLog("Abort", t)')
  BY <1>1 DEF Decided, InLog, logVars
<1>9. (~failed' /\ (t \in active <=> pc[th] \in LivePcs)) =>
          (t \in active' <=> tx'[th] = t /\ pc'[th] \in LivePcs)
  BY <1>6
<1>10. TmIInv'
  BY <1>2, <1>4, <1>5, <1>6, <1>7, <1>8, <1>9, OwnerStep
<1>11. Promised
  BY TellStep DEF logVars
<1> QED
  BY <1>10, <1>11

\* commit_transaction returns, Ok or with an error.
LEMMA CommitReturnInv ==
    ASSUME TmIInv, NEW th \in Threads, CommitReturn(th)
    PROVE  TmIInv' /\ Promised
<1>1. /\ up /\ pc[th] \in {"commitDone", "commitFailed"}
      /\ Return(th, NoTxId)
      /\ UNCHANGED <<mvccVars, logVars, walHolder, nextId, registered, lastLsn,
                     poisoned, commitLsn, failed, logs, checkpoints, up, load>>
  BY DEF CommitReturn
<1>2. PICK t \in TxIds : t = tx[th]
  BY <1>1, ThreadFacts
<1>3. PICK answer : /\ answer = IF pc[th] = "commitDone" THEN "committed" ELSE "error"
                    /\ Report(t, answer)
  BY <1>2 DEF CommitReturn
<1>4. StageOf(th) /\ Owner(th)
  BY <1>1, ThreadFacts DEF Owner, CommitPcs
<1>5. reported[t] = "none" /\ (pc[th] = "commitDone" => DurableOutcome[t] = "committed")
  BY <1>1, <1>2, <1>4 DEF StageOf, CommitPcs, DurableOutcome
<1>6. \A u \in TxIds : OnDisk("Commit", u) => OnDisk("Commit", u)'
  BY <1>1 DEF OnDisk, logVars
<1>7. MvccInv' /\ WriteAheadCommit'
  BY <1>1, <1>6, NoStoreStep
<1>8. pc[th] \notin FlushPcs /\ pc[th] \notin LivePcs /\ active' = active
  BY <1>1 DEF FlushPcs, LivePcs, mvccVars
<1>9. answer \in {"error"} \cup ({"committed", "aborted"} \cap {DurableOutcome[t]})
  BY <1>1, <1>3, <1>5
<1> QED
  BY <1>1, <1>2, <1>3, <1>4, <1>5, <1>7, <1>8, <1>9, ReturnStep

\* rollback_transaction ends the transaction in the store and returns.
LEMMA RollbackMvccInv ==
    ASSUME TmIInv, NEW th \in Threads, RollbackMvcc(th)
    PROVE  TmIInv' /\ Promised
<1>1. /\ up /\ pc[th] = "abortMvcc" /\ Return(th, NoTxId)
      /\ UNCHANGED <<logVars, walHolder, nextId, registered, lastLsn, poisoned,
                     commitLsn, failed, logs, checkpoints, up, load>>
  BY DEF RollbackMvcc
<1>2. PICK t \in TxIds : t = tx[th]
  BY <1>1, ThreadFacts
<1>3. Report(t, "aborted") /\ Abort(t)
  BY <1>2 DEF RollbackMvcc
<1>4. StageOf(th) /\ Owner(th)
  BY <1>1, ThreadFacts DEF Owner, AbortPcs
<1>5. reported[t] = "none" /\ DurableOutcome[t] = "aborted"
  <2>1. reported[t] = "none" /\ OnDisk("Abort", t) /\ ~InLog("Commit", t)
    BY <1>1, <1>2, <1>4 DEF StageOf, AbortPcs
  <2>2. ~OnDisk("Commit", t)
    BY <2>1 DEF OnDisk, InLog, Has
  <2> QED
    BY <2>1, <2>2 DEF DurableOutcome
<1>6. MvccInv'
  BY <1>3, MvccStepInv DEF MvccNext, TmIInv
<1>7. versions' \subseteq versions /\ active' = active \ {t}
  BY <1>3 DEF Abort, Retain
<1>8. WriteAheadCommit'
  BY <1>1, <1>7 DEF TmIInv, WriteAheadCommit, OnDisk, logVars
<1>9. pc[th] \notin FlushPcs
  BY <1>1 DEF FlushPcs
<1> QED
  BY <1>1, <1>2, <1>3, <1>4, <1>5, <1>6, <1>7, <1>8, <1>9, ReturnStep

\* rollback_transaction returns an error.
LEMMA RollbackFailsInv ==
    ASSUME TmIInv, NEW th \in Threads, RollbackFails(th)
    PROVE  TmIInv' /\ Promised
<1>1. /\ up /\ pc[th] = "abortFailed" /\ Return(th, NoTxId)
      /\ UNCHANGED <<mvccVars, logVars, walHolder, nextId, registered, lastLsn,
                     poisoned, commitLsn, failed, logs, checkpoints, up, load>>
  BY DEF RollbackFails
<1>2. PICK t \in TxIds : t = tx[th]
  BY <1>1, ThreadFacts
<1>3. Report(t, "error")
  BY <1>2 DEF RollbackFails
<1>4. StageOf(th) /\ Owner(th)
  BY <1>1, ThreadFacts DEF Owner, AbortPcs
<1>5. reported[t] = "none"
  BY <1>1, <1>2, <1>4 DEF StageOf, AbortPcs
<1>6. \A u \in TxIds : OnDisk("Commit", u) => OnDisk("Commit", u)'
  BY <1>1 DEF OnDisk, logVars
<1>7. MvccInv' /\ WriteAheadCommit'
  BY <1>1, <1>6, NoStoreStep
<1>8. pc[th] \notin FlushPcs /\ pc[th] \notin LivePcs /\ active' = active
  BY <1>1 DEF FlushPcs, LivePcs, mvccVars
<1> QED
  BY <1>1, <1>2, <1>3, <1>4, <1>5, <1>7, <1>8, ReturnStep

-----------------------------------------------------------------------------
(* The start, a crash, and the theorems *)

\* The manager starts with empty tables and an empty log.
LEMMA TmInitInv == TmInit => TmIInv
<1> SUFFICES ASSUME TmInit PROVE TmIInv
  OBVIOUS
<1>1. MvccInv
  BY MvccInitInv DEF TmInit
<1>2. \A k, u : ~Has(file, k, u) /\ ~Has(buffer, k, u)
  BY HasNone DEF TmInit
<1>3. \A t \in TxIds : Unended(t)
  BY <1>2 DEF Unended, InLog, TmInit
<1>4. TmTypes
  <2>1. /\ walHolder = NoThread /\ registered = {} /\ nextLsn = 1 /\ nextId = 1
        /\ lastLsn = [t \in TxIds |-> LogNoLsn] /\ tx = [th \in Threads |-> NoTxId]
        /\ commitLsn = [th \in Threads |-> 0] /\ reported = [t \in TxIds |-> "none"]
        /\ load \in Workload
    BY TmAssumption DEF TmInit
  <2>2. pc = [th \in Threads |-> "idle"] /\ "idle" \in Pcs
    BY DEF TmInit, Pcs
  <2>3. poisoned \in BOOLEAN /\ failed \in BOOLEAN /\ up \in BOOLEAN
    BY DEF TmInit
  <2>4. file \in Seq(Rec) /\ buffer \in Seq(Rec)
    BY DEF TmInit
  <2>5. TmTypeOK
    BY <1>1, <2>1 DEF TmTypeOK, MvccInv
  <2>6. pc \in [Threads -> Pcs] /\ commitLsn \in [Threads -> Nat]
    BY <2>1, <2>2
  <2> QED
    BY <2>1, <2>3, <2>4, <2>5, <2>6 DEF TmTypes
<1>5. \A th \in Threads : pc[th] = "idle" /\ tx[th] = 0 /\ ~Owner(th)
  BY DEF TmInit, NoTxId, Owner, BeginPcs, CommitPcs, AbortPcs
<1>6. Ownership
  <2>1. \A th \in Threads : OwnOf(th)
    BY <1>5 DEF OwnOf, TmInit
  <2> QED
    BY <1>3, <1>5, <2>1 DEF Ownership, TmInit
<1>7. Stages
  BY <1>5 DEF Stages, StageOf, BeginPcs, CommitPcs, AbortPcs
<1>8. Holding
  BY <1>2, <1>5, TmAssumption DEF Holding, TmInit, FlushPcs
<1>9. TablesMatch
  BY <1>5 DEF TablesMatch, TmInit, MvccInit, LivePcs
<1>10. Decided
  BY <1>2 DEF Decided, InLog
<1>11. WriteAheadCommit
  BY DEF WriteAheadCommit, TmInit, MvccInit
<1> QED
  BY <1>1, <1>4, <1>6, <1>7, <1>8, <1>9, <1>10, <1>11 DEF TmIInv, Running

\* A crash inside a flush may decide the transaction that was being flushed, and
\* no other; the store it leaves is empty.
LEMMA CrashInv ==
    ASSUME TmIInv, Crash
    PROVE  TmIInv' /\ Promised
<1>1. /\ up /\ up' = FALSE /\ buffer' = <<>> /\ nextLsn' = 1
      /\ IF walHolder = NoThread THEN file' = file
                                 ELSE file' \in Log!PartlyWritten(file, buffer)
      /\ UNCHANGED <<reported, failed, load>>
  BY DEF Crash
<1>2. TmTypes /\ Holding /\ Decided /\ Ownership
  BY <1>1 DEF TmIInv, Running
<1>3. file \in Seq(Rec) /\ buffer \in Seq(Rec)
  BY <1>2 DEF TmTypes
<1>4. buffer' \in Seq(Rec) /\ \A k, u : ~Has(buffer', k, u)
  BY <1>1, HasNone
<1>5. /\ file' \in Seq(Rec)
      /\ \A k \in OutcomeKinds : \A u :
            /\ Has(file, k, u) => Has(file', k, u)
            /\ Has(file', k, u) => Has(file, k, u) \/ Has(buffer, k, u)
  <2>1. CASE walHolder = NoThread
    BY <1>1, <1>3, <2>1
  <2>2. CASE walHolder # NoThread
    <3>1. file' \in Log!PartlyWritten(file, buffer)
      BY <1>1, <2>2
    <3> QED
      BY <1>3, <3>1, PartlyHas
  <2> QED
    BY <2>1, <2>2
<1>6. MvccInv'
  <2>1. MvccInit' => MvccInv'
    BY MvccInitInv, PTL
  <2>2. MvccInit'
    BY DEF MvccInit, Crash
  <2> QED
    BY <2>1, <2>2
<1>7. TmTypes'
  <2>1. /\ walHolder' \in Threads \cup {NoThread} /\ registered' \subseteq TxIds
        /\ lastLsn' \in [TxIds -> Nat \cup {LogNoLsn}]
        /\ tx' \in [Threads -> TxIds \cup {NoTxId}]
        /\ pc' \in [Threads -> Pcs] /\ commitLsn' \in [Threads -> Nat] /\ nextId' \in Nat \ {0}
        /\ poisoned' \in BOOLEAN /\ up' \in BOOLEAN /\ nextLsn' \in Nat \ {0}
    <3>1. /\ walHolder' = NoThread /\ registered' = {} /\ nextLsn' = 1 /\ nextId' = 1
          /\ lastLsn' = [t \in TxIds |-> LogNoLsn] /\ tx' = [th \in Threads |-> NoTxId]
          /\ commitLsn' = [th \in Threads |-> 0]
      BY DEF Crash
    <3>2. pc' = [th \in Threads |-> "idle"] /\ "idle" \in Pcs
      BY DEF Crash, Pcs
    <3>3. poisoned' \in BOOLEAN /\ up' \in BOOLEAN
      BY DEF Crash
    <3> QED
      BY <3>1, <3>2, <3>3
  <2> QED
    BY <1>1, <1>2, <1>4, <1>5, <1>6, <2>1 DEF TmTypes, TmTypeOK, MvccInv
<1>8. Decided'
  <2>1. \A u \in TxIds : \A k \in OutcomeKinds : InLog(k, u)' => InLog(k, u)
    BY <1>4, <1>5 DEF InLog
  <2> QED
    BY <1>2, <2>1 DEF Decided, OutcomeKinds
<1>9. WriteAheadCommit'
  BY DEF WriteAheadCommit, Crash
<1>10. TmIInv'
  BY <1>1, <1>6, <1>7, <1>8, <1>9 DEF TmIInv
<1>11. CASE walHolder \notin Threads
  <2>1. \A k \in OutcomeKinds, u \in TxIds : ~Has(buffer, k, u)
    BY <1>2, <1>11 DEF Holding
  <2>2. \A u \in TxIds : Same(u)
    BY <1>1, <1>4, <1>5, <2>1 DEF Same
  <2> QED
    BY <1>2, <1>7, <1>10, <2>2, QuietPromise
<1>12. CASE walHolder \in Threads
  <2>1. PICK t \in TxIds : t = tx[walHolder]
    <3>1. pc[walHolder] \in FlushPcs
      BY <1>2, <1>12 DEF Holding
    <3> QED
      BY <1>2, <1>12, <3>1 DEF Ownership, OwnOf, FlushPcs
  <2>2. \A k \in OutcomeKinds, u \in TxIds : u # t => ~Has(buffer, k, u)
    BY <1>2, <2>1 DEF Holding
  <2>3. \A u \in TxIds : u # t => Same(u)
    BY <1>1, <1>4, <1>5, <2>2 DEF Same
  <2>4. \A k \in OutcomeKinds : OnDisk(k, t) => OnDisk(k, t)'
    BY <1>5 DEF OnDisk, Has
  <2> QED
    BY <1>1, <1>2, <1>7, <1>8, <1>10, <2>3, <2>4, DecideStep
<1> QED
  BY <1>10, <1>11, <1>12

\* Every step keeps the invariant, and is a step of TxOutcome or none.
LEMMA TmStep ==
    ASSUME TmIInv, [TmNext]_tmVars
    PROVE  TmIInv' /\ Promised
<1>1. ASSUME NEW th \in Threads, ThreadStep(th) PROVE TmIInv' /\ Promised
  <2>1. CASE BeginId(th) \/ BeginMvcc(th) \/ BeginRegister(th) \/ BeginLog(th)
    BY <2>1, BeginIdInv, BeginMvccInv, BeginRegisterInv, BeginLogInv
  <2>2. ASSUME NEW t, CommitLookup(th, t) \/ RollbackTake(th, t) PROVE TmIInv' /\ Promised
    BY <2>2, CommitLookupInv, RollbackTakeInv
  <2>3. CASE CommitTake(th) \/ CommitLog(th) \/ CommitFlush(th) \/ CommitMvcc(th) \/ CommitReturn(th)
    BY <2>3, CommitTakeInv, CommitLogInv, CommitFlushInv, CommitMvccInv, CommitReturnInv
  <2>4. CASE RollbackLog(th) \/ RollbackFlush(th) \/ RollbackMvcc(th) \/ RollbackFails(th)
    BY <2>4, RollbackLogInv, RollbackFlushInv, RollbackMvccInv, RollbackFailsInv
  <2>5. ASSUME NEW r \in Records, NEW n \in VersionNos, WriteVersion(th, r, n)
        PROVE  TmIInv' /\ Promised
    BY <2>5, WriteVersionInv
  <2>6. CASE LogModify(th) \/ Panic(th)
    BY <2>6, LogModifyInv, PanicInv
  <2> QED
    BY <1>1, <2>1, <2>2, <2>3, <2>4, <2>5, <2>6 DEF ThreadStep
<1>2. CASE UNCHANGED tmVars
  <2>1. /\ UNCHANGED <<mvccVars, file, buffer, nextLsn>>
        /\ UNCHANGED <<walHolder, nextId, registered, lastLsn, poisoned, pc, tx,
                       commitLsn, reported, failed, logs, checkpoints, up, load>>
    BY <1>2 DEF tmVars, logVars, managerVars
  <2>2. \A u \in TxIds : Same(u)
    BY <2>1, NoLogStep
  <2>3. MvccInv' /\ WriteAheadCommit'
    BY <2>1, <2>2, NoStoreStep, SameFacts
  <2>4. TmTypes'
    BY <2>1, <2>3 DEF TmIInv, TmTypes, TmTypeOK, MvccInv
  <2>5. CASE up
    <3>1. UNCHANGED <<pc, tx, commitLsn, walHolder, nextId, registered, active, failed>>
      BY <2>1 DEF mvccVars
    <3> QED
      BY <2>2, <2>3, <2>4, <2>5, <3>1, NobodyMoves
  <2>6. CASE ~up
    <3>1. Decided'
      BY <2>2, SameFacts DEF TmIInv, Decided
    <3>2. Promised
      BY <2>2, <2>4, QuietPromise DEF TmIInv
    <3> QED
      BY <2>1, <2>3, <2>4, <2>6, <3>1, <3>2 DEF TmIInv
  <2> QED
    BY <2>5, <2>6
<1> QED
  BY <1>1, <1>2, CleanupInv, TakeCheckpointInv, CrashInv DEF TmNext

\* The inductive invariant.
THEOREM TmInvariant == TmSpec => []TmIInv
<1>1. TmInit => TmIInv
  BY TmInitInv
<1>2. TmIInv /\ [TmNext]_tmVars => TmIInv'
  BY TmStep
<1> QED
  BY <1>1, <1>2, PTL DEF TmSpec

\* Nothing gets a commit timestamp in the store before its commit record is on
\* disk, however threads, failing writes, checkpoints and a crash interleave.
THEOREM CommitsAreWrittenAhead == TmSpec => []WriteAheadCommit
<1>1. TmIInv => WriteAheadCommit
  BY DEF TmIInv
<1> QED
  BY <1>1, TmInvariant, PTL

\* The log holds one outcome per transaction, and between calls the manager's
\* table of transactions and the store's are the same.
THEOREM OutcomesAlwaysAgree == TmSpec => []OutcomesAgree
<1>1. ASSUME TmIInv PROVE OutcomesAgree
  <2>1. file \in Seq(Rec) /\ buffer \in Seq(Rec) /\ TmTypeOK /\ Decided
    BY <1>1 DEF TmIInv, TmTypes
  <2>2. OutcomeUnique
    <3> DEFINE all == file \o buffer
    <3>1. \A k, t : Has(all, k, t) <=> Has(file, k, t) \/ Has(buffer, k, t)
      BY <2>1, HasConcat
    <3>2. \A k, t : Logged(k, t) # {} => Has(all, k, t)
      BY DEF Logged, Has
    <3> HIDE DEF all
    <3> QED
      BY <2>1, <3>1, <3>2 DEF OutcomeUnique, Decided, InLog
  <2>3. ManagersAgree
    <3> SUFFICES ASSUME up, ~failed, \A th \in Threads : pc[th] = "idle"
                 PROVE  registered = active
      BY DEF ManagersAgree
    <3>1. \A th \in Threads : pc[th] # "panicked" /\ pc[th] \notin LivePcs
      BY DEF LivePcs
    <3>2. \A t \in TxIds : t \in active <=> t \in registered
      BY <1>1, <3>1 DEF TmIInv, Running, TablesMatch
    <3>3. registered \subseteq TxIds /\ active \subseteq TxIds
      BY <2>1 DEF TmTypeOK, MvccTypeOK
    <3> QED
      BY <3>2, <3>3
  <2> QED
    BY <2>1, <2>2, <2>3 DEF OutcomesAgree
<1> QED
  BY <1>1, TmInvariant, PTL

\* The store keeps its promises under the manager, whose threads, cleanup and
\* crash call it: snapshots stay exact, and a commit stamps all the versions
\* its transaction created at once.
THEOREM StoreStaysExact == TmSpec => [](SnapshotExact /\ CreatedTogether)
<1>1. TmIInv => SnapshotExact /\ CreatedTogether
  BY DEF TmIInv, MvccInv
<1> QED
  BY <1>1, TmInvariant, PTL

\* The manager implements TxOutcome: the outcome on disk is decided once, before
\* anybody is told, survives a crash, and is what the caller is told.
THEOREM ManagerImplementsOutcome == TmSpec => ImplementsOutcome
<1>1. TmInit => Promise!OutcomeInit
  <2> SUFFICES ASSUME TmInit PROVE Promise!OutcomeInit
    OBVIOUS
  <2>1. file = <<>> /\ reported = [t \in TxIds |-> "none"]
    BY DEF TmInit
  <2>2. \A t \in TxIds : ~OnDisk("Commit", t) /\ ~OnDisk("Abort", t)
    BY <2>1 DEF OnDisk
  <2>3. DurableOutcome = [t \in TxIds |-> "undecided"]
    BY <2>2 DEF DurableOutcome
  <2> QED
    BY <2>1, <2>3 DEF Promise!OutcomeInit
<1>2. TmIInv /\ [TmNext]_tmVars => [Promise!OutcomeNext]_<<DurableOutcome, reported>>
  BY TmStep DEF Promised
<1> QED
  BY <1>1, <1>2, TmInvariant, PTL DEF TmSpec, ImplementsOutcome, Promise!OutcomeSpec
=============================================================================
