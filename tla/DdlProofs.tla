----------------------------- MODULE DdlProofs -----------------------------
(***************************************************************************)
(* Proofs about DDL: for any sessions, statements and catalogs, what a     *)
(* CREATE TABLE leaves in the DDL log (CreateDurable, DdlWalChain), that   *)
(* the maps of the catalog agree (CatalogAgrees), and that a statement     *)
(* that runs alone is all or nothing (StatementAtomic); and for any        *)
(* threads, views, tables and queries, that a fresh materialized view has  *)
(* seen every recorded change (FreshUnchanged).                            *)
(***************************************************************************)
EXTENDS DdlEngine, ViewManager, TLAPS, WellFoundedInduction, FiniteSetTheorems, SequenceTheorems

-----------------------------------------------------------------------------
(* The DDL log: the invariant *)

\* Where a CREATE TABLE has begun its DDL transaction and not ended it, and where
\* only the other statements are.
TxPcs == {"prepare", "define", "defined", "log", "abort", "commit", "undo"}
OtherPcs == {"enter", "validate", "apply", "write", "leave", "table", "make", "owner", "unmake"}

Creating(me) == me.stmt.kind = "CreateTable"
InTx(me) == me.pc \in TxPcs \/ (me.pc = "work" /\ Creating(me))

\* What the place of a statement says about it.
StatementOK(me) ==
    /\ DOMAIN me = DOMAIN Idle
    /\ me.pc \in TxPcs \cup {"begin"} => Creating(me)
    /\ me.pc \in OtherPcs => ~Creating(me)
    /\ me.pc \in {"defined", "log", "commit", "undo"} => walOn

StatementsOK == DOMAIN sess = Sessions /\ \A s \in Sessions : StatementOK(sess[s])

\* The transaction has been begun at most once.
Begins(log, tx, i) == log[i].kind = "begin" /\ log[i].tx = tx
Once(log, tx) == \A i, j \in 1 .. Len(log) : Begins(log, tx, i) /\ Begins(log, tx, j) => i = j

\* Of the first n records, p is the last one of the transaction.
IsLast(log, tx, n, p) ==
    IF p = NoLsn THEN \A j \in 1 .. n : log[j].tx # tx
    ELSE p \in 1 .. n /\ log[p].tx = tx /\ \A j \in (p + 1) .. n : log[j].tx # tx

\* Every record follows the begin of its transaction, and names the one before it.
Begun(log) == \A k \in 1 .. Len(log) : \E i \in 1 .. k : Begins(log, log[k].tx, i)
Chained(log) ==
    \A k \in 1 .. Len(log) : Once(log, log[k].tx) => IsLast(log, log[k].tx, k - 1, log[k].prev)

\* What a statement knows of its transaction: it has begun it, and the LSN in the
\* active transactions, or the one it has taken from there, is the last.
BegunBy(log, tx, s) == \E i \in 1 .. Len(log) : Begins(log, tx, i) /\ log[i].by = s
Knows(log, act, me) ==
    IF me.pc \in {"commit", "undo"} THEN IsLast(log, me.tx, Len(log), me.prev)
    ELSE /\ me.tx \in DOMAIN act /\ IsLast(log, me.tx, Len(log), act[me.tx])
         /\ me.pc = "log" => me.prev = act[me.tx]
Current(log, act, me, s) ==
    InTx(me) => BegunBy(log, me.tx, s) /\ (Once(log, me.tx) => Knows(log, act, me))

\* The record of the table is in the log before the statement goes on, and on disk,
\* with the commit, before it returns.
Logged(log, me, s) ==
    \E j \in 1 .. Len(log) : log[j].kind = "create" /\ log[j].by = s /\ log[j].object = me.stmt.table
Recorded(log, me, s) == (Creating(me) /\ me.pc \in {"work", "commit"}) => Logged(log, me, s)

ReturnedOk(me) == me.pc = "returned" /\ Creating(me) /\ me.result = "ok"
Durable(log, n, me, s) ==
    ReturnedOk(me) =>
        \E j, k \in 1 .. n :
            /\ j < k
            /\ log[j].kind = "create" /\ log[j].by = s /\ log[j].object = me.stmt.table
            /\ log[k].kind = "commit" /\ log[k].tx = me.tx

\* All that a session relies on: of a log of which n records are flushed, and of
\* the active transactions.
Kept(log, n, act, me, s) == Current(log, act, me, s) /\ Recorded(log, me, s) /\ Durable(log, n, me, s)

\* The log is a sequence, whatever its records are.
IsLog(log) == \E S : log \in Seq(S)

LogOK(log, n) == IsLog(log) /\ n \in 0 .. Len(log) /\ Begun(log) /\ Chained(log)

DdlIInv ==
    /\ StatementsOK
    /\ LogOK(ddlLog, flushed)
    /\ walOn => \A s \in Sessions : Kept(ddlLog, flushed, active, sess[s], s)

-----------------------------------------------------------------------------
(* The DDL log: appending *)

\* The log with one record more.
LEMMA Appended ==
    ASSUME NEW log, IsLog(log), NEW r
    PROVE  /\ IsLog(Append(log, r)) /\ Len(log) \in Nat
           /\ Len(Append(log, r)) = Len(log) + 1
           /\ Append(log, r)[Len(log) + 1] = r
           /\ \A i \in 1 .. Len(log) : Append(log, r)[i] = log[i]
<1>1. PICK S : log \in Seq(S)
  BY DEF IsLog
<1>2. PICK T : T = S \cup {r}
  OBVIOUS
<1>3. log \in Seq(T) /\ r \in T
  <2>1. \A i \in 1 .. Len(log) : log[i] \in T
    BY <1>1, <1>2
  <2>2. Len(log) \in Nat /\ log = [i \in 1 .. Len(log) |-> log[i]]
    BY <1>1
  <2>3. QED
    BY <1>2, <2>1, <2>2
<1>4. Append(log, r) \in Seq(T)
  BY <1>3
<1>5. QED
  BY <1>3, <1>4 DEF IsLog

\* One record follows another: what is said of the log is said of the first part
\* of the longer one.  The appended record is a name of its own.
Extends(log, next, r) ==
    /\ Len(log) \in Nat /\ Len(next) = Len(log) + 1 /\ next[Len(log) + 1] = r
    /\ \A i \in 1 .. Len(log) : next[i] = log[i]

\* The last record of a transaction, seen from the longer log.
LEMMA LastInLonger ==
    ASSUME NEW log, NEW next, NEW r, Extends(log, next, r), NEW tx, NEW n \in 0 .. Len(log), NEW p
    PROVE  IsLast(log, tx, n, p) => IsLast(next, tx, n, p)
<1>0. Len(log) \in Nat /\ n \in Nat /\ \A i \in 1 .. n : next[i] = log[i]
  BY DEF Extends
<1>1. CASE p = NoLsn
  BY <1>0, <1>1 DEF IsLast
<1>2. CASE p # NoLsn
  <2>1. SUFFICES ASSUME p \in 1 .. n, log[p].tx = tx, \A j \in (p + 1) .. n : log[j].tx # tx
                 PROVE  next[p].tx = tx /\ \A j \in (p + 1) .. n : next[j].tx # tx
    BY <1>2 DEF IsLast
  <2>2. \A j \in (p + 1) .. n : j \in 1 .. n
    BY <1>0, <2>1
  <2>3. QED
    BY <1>0, <2>1, <2>2
<1>3. QED
  BY <1>1, <1>2

\* A record of the transaction becomes its last, one of another does not.
LEMMA LastMoves ==
    ASSUME NEW log, NEW next, NEW r, Extends(log, next, r), NEW tx
    PROVE  /\ r.tx = tx => IsLast(next, tx, Len(next), Len(next))
           /\ \A p : r.tx # tx /\ IsLast(log, tx, Len(log), p) => IsLast(next, tx, Len(next), p)
<1>0. /\ Len(log) \in Nat /\ Len(next) = Len(log) + 1 /\ next[Len(log) + 1] = r
      /\ \A i \in 1 .. Len(log) : next[i] = log[i]
  BY DEF Extends
<1>1. ASSUME r.tx = tx PROVE IsLast(next, tx, Len(next), Len(next))
  <2>1. Len(next) # NoLsn /\ Len(next) \in 1 .. Len(next) /\ (Len(next) + 1) .. Len(next) = {}
    BY <1>0 DEF NoLsn
  <2>2. QED
    BY <1>0, <1>1, <2>1 DEF IsLast
<1>2. ASSUME NEW p, r.tx # tx, IsLast(log, tx, Len(log), p)
      PROVE  IsLast(next, tx, Len(next), p)
  <2>1. \A j \in 1 .. Len(next) : j \in 1 .. Len(log) \/ j = Len(log) + 1
    BY <1>0
  <2>2. CASE p = NoLsn
    <3>1. \A j \in 1 .. Len(log) : log[j].tx # tx
      BY <1>2, <2>2 DEF IsLast
    <3>2. \A j \in 1 .. Len(next) : next[j].tx # tx
      BY <1>0, <1>2, <2>1, <3>1
    <3>3. QED
      BY <2>2, <3>2 DEF IsLast
  <2>3. CASE p # NoLsn
    <3>1. p \in 1 .. Len(log) /\ log[p].tx = tx /\ \A j \in (p + 1) .. Len(log) : log[j].tx # tx
      BY <1>2, <2>3 DEF IsLast
    <3>2. p \in 1 .. Len(next) /\ next[p].tx = tx
      BY <1>0, <3>1
    <3>3. \A j \in (p + 1) .. Len(next) : next[j].tx # tx
      BY <1>0, <1>2, <3>1
    <3>4. QED
      BY <2>3, <3>2, <3>3 DEF IsLast
  <2>4. QED
    BY <2>2, <2>3
<1>3. QED
  BY <1>1, <1>2

\* What was begun once in the longer log was begun at most once before.
LEMMA OnceBefore ==
    ASSUME NEW log, NEW next, NEW r, Extends(log, next, r), NEW tx, Once(next, tx)
    PROVE  Once(log, tx)
  BY DEF Extends, Once, Begins

\* A session that has begun a transaction has still begun it.
LEMMA BegunStays ==
    ASSUME NEW log, NEW next, NEW r, Extends(log, next, r), NEW tx, NEW s, BegunBy(log, tx, s)
    PROVE  BegunBy(next, tx, s)
<1>1. PICK i \in 1 .. Len(log) : Begins(log, tx, i) /\ log[i].by = s
  BY DEF BegunBy
<1>2. i \in 1 .. Len(next) /\ next[i] = log[i]
  BY DEF Extends
<1>3. QED
  BY <1>1, <1>2 DEF BegunBy, Begins

\* Two sessions that share a transaction have begun it twice.
LEMMA SharedIsTwice ==
    ASSUME NEW log, NEW tx, NEW s, NEW o, s # o, BegunBy(log, tx, s), BegunBy(log, tx, o)
    PROVE  ~Once(log, tx)
  BY DEF BegunBy, Once

\* The two kinds of records: a begin, and one that names the last before it.
Fits(log, r) ==
    \/ r.kind = "begin" /\ r.prev = NoLsn
    \/ /\ \E i \in 1 .. Len(log) : Begins(log, r.tx, i)
       /\ Once(log, r.tx) => IsLast(log, r.tx, Len(log), r.prev)

\* A record that fits keeps the log a chain.
LEMMA ChainGrows ==
    ASSUME NEW log, NEW next, NEW r, Extends(log, next, r), Begun(log), Chained(log), Fits(log, r)
    PROVE  Begun(next) /\ Chained(next)
<1>0. /\ Len(log) \in Nat /\ Len(next) = Len(log) + 1 /\ next[Len(log) + 1] = r
      /\ \A i \in 1 .. Len(log) : next[i] = log[i]
  BY DEF Extends
<1>1. \A k \in 1 .. Len(next) : k \in 1 .. Len(log) \/ k = Len(next)
  BY <1>0
<1>2. Begun(next)
  <2>1. ASSUME NEW k \in 1 .. Len(log)
        PROVE  \E i \in 1 .. k : Begins(next, next[k].tx, i)
    <3>1. PICK i \in 1 .. k : Begins(log, log[k].tx, i)
      BY DEF Begun
    <3>2. i \in 1 .. Len(log)
      BY <1>0
    <3>3. QED
      BY <1>0, <3>1, <3>2 DEF Begins
  <2>2. \E i \in 1 .. Len(next) : Begins(next, r.tx, i)
    <3>1. CASE r.kind = "begin"
      BY <1>0, <3>1 DEF Begins
    <3>2. CASE \E i \in 1 .. Len(log) : Begins(log, r.tx, i)
      BY <1>0, <3>2 DEF Begins
    <3>3. QED
      BY <3>1, <3>2 DEF Fits
  <2>3. QED
    BY <1>0, <1>1, <2>1, <2>2 DEF Begun
<1>3. ASSUME NEW k \in 1 .. Len(log), Once(next, next[k].tx)
      PROVE  IsLast(next, next[k].tx, k - 1, next[k].prev)
  <2>1. Once(log, log[k].tx) /\ next[k] = log[k]
    BY <1>0, <1>3, OnceBefore
  <2>2. IsLast(log, log[k].tx, k - 1, log[k].prev)
    BY <2>1 DEF Chained
  <2>3. k - 1 \in 0 .. Len(log)
    BY <1>0
  <2>4. QED
    BY <2>1, <2>2, <2>3, LastInLonger
<1>4. ASSUME Once(next, r.tx)
      PROVE  IsLast(next, r.tx, Len(log), r.prev)
  <2>1. CASE r.kind = "begin" /\ r.prev = NoLsn
    <3>1. \A i \in 1 .. Len(log) : ~Begins(log, r.tx, i)
      <4>1. ASSUME NEW i \in 1 .. Len(log), Begins(log, r.tx, i) PROVE FALSE
        <5>1. Begins(next, r.tx, i) /\ Begins(next, r.tx, Len(next))
          BY <1>0, <2>1, <4>1 DEF Begins
        <5>2. i \in 1 .. Len(next) /\ Len(next) \in 1 .. Len(next) /\ i # Len(next)
          BY <1>0
        <5>3. QED
          BY <1>4, <5>1, <5>2 DEF Once
      <4>2. QED
        BY <4>1
    <3>2. \A j \in 1 .. Len(log) : log[j].tx # r.tx
      <4>1. ASSUME NEW j \in 1 .. Len(log), log[j].tx = r.tx PROVE FALSE
        <5>1. PICK i \in 1 .. j : Begins(log, log[j].tx, i)
          BY DEF Begun
        <5>2. i \in 1 .. Len(log)
          BY <1>0
        <5>3. QED
          BY <3>1, <4>1, <5>1, <5>2
      <4>2. QED
        BY <4>1
    <3>3. QED
      BY <1>0, <2>1, <3>2 DEF IsLast
  <2>2. CASE Once(log, r.tx) => IsLast(log, r.tx, Len(log), r.prev)
    <3>1. Len(log) \in 0 .. Len(log)
      BY <1>0
    <3>2. Once(log, r.tx)
      BY <1>4, OnceBefore
    <3>3. QED
      BY <2>2, <3>1, <3>2, LastInLonger
  <2>3. QED
    BY <2>1, <2>2 DEF Fits
<1>5. Chained(next)
  <2>1. ASSUME NEW k \in 1 .. Len(next), Once(next, next[k].tx)
        PROVE  IsLast(next, next[k].tx, k - 1, next[k].prev)
    <3>1. CASE k \in 1 .. Len(log)
      BY <1>3, <2>1, <3>1
    <3>2. CASE k = Len(next)
      <4>1. k - 1 = Len(log) /\ next[k] = r
        BY <1>0, <3>2
      <4>2. QED
        BY <1>4, <2>1, <4>1
    <3>3. QED
      BY <1>1, <3>1, <3>2
  <2>2. QED
    BY <2>1 DEF Chained
<1>6. QED
  BY <1>2, <1>5

-----------------------------------------------------------------------------
(* The DDL log: what other sessions keep *)

\* A record of session s takes nothing from another session.
LEMMA OthersKeep ==
    ASSUME NEW log, NEW next, NEW r, Extends(log, next, r),
           NEW n \in 0 .. Len(log), NEW m \in n .. Len(next),
           NEW act, NEW now, NEW s, NEW o, s # o, NEW me,
           Kept(log, n, act, me, o), BegunBy(next, r.tx, s),
           \A tx : tx # r.tx /\ tx \in DOMAIN act => tx \in DOMAIN now /\ now[tx] = act[tx]
    PROVE  Kept(next, m, now, me, o)
<1>0. /\ Len(log) \in Nat /\ Len(next) = Len(log) + 1
      /\ \A i \in 1 .. Len(log) : i \in 1 .. Len(next) /\ next[i] = log[i]
      /\ n \in Nat /\ m \in Nat /\ n <= m
  BY DEF Extends
<1>1. Current(next, now, me, o)
  <2>1. SUFFICES ASSUME InTx(me) PROVE BegunBy(next, me.tx, o) /\ (Once(next, me.tx) => Knows(next, now, me))
    BY DEF Current
  <2>2. BegunBy(log, me.tx, o) /\ (Once(log, me.tx) => Knows(log, act, me))
    BY <2>1 DEF Kept, Current
  <2>3. BegunBy(next, me.tx, o)
    BY <2>2, BegunStays
  <2>4. ASSUME Once(next, me.tx) PROVE Knows(next, now, me)
    <3>1. r.tx # me.tx
      BY <2>3, <2>4, SharedIsTwice
    <3>2. Knows(log, act, me)
      BY <2>2, <2>4, OnceBefore
    <3>3. CASE me.pc \in {"commit", "undo"}
      BY <3>1, <3>2, <3>3, LastMoves DEF Knows
    <3>4. CASE me.pc \notin {"commit", "undo"}
      <4>1. me.tx \in DOMAIN act /\ IsLast(log, me.tx, Len(log), act[me.tx]) /\ (me.pc = "log" => me.prev = act[me.tx])
        BY <3>2, <3>4 DEF Knows
      <4>2. me.tx \in DOMAIN now /\ now[me.tx] = act[me.tx]
        BY <3>1, <4>1
      <4>3. IsLast(next, me.tx, Len(next), now[me.tx])
        BY <3>1, <4>1, <4>2, LastMoves
      <4>4. QED
        BY <3>4, <4>1, <4>2, <4>3 DEF Knows
    <3>5. QED
      BY <3>3, <3>4
  <2>5. QED
    BY <2>3, <2>4
<1>2. Recorded(next, me, o)
  <2>1. Logged(log, me, o) => Logged(next, me, o)
    BY <1>0 DEF Logged
  <2>2. QED
    BY <2>1 DEF Kept, Recorded
<1>3. Durable(next, m, me, o)
  <2>1. SUFFICES ASSUME ReturnedOk(me)
                 PROVE  \E j, k \in 1 .. m :
                            /\ j < k
                            /\ next[j].kind = "create" /\ next[j].by = o /\ next[j].object = me.stmt.table
                            /\ next[k].kind = "commit" /\ next[k].tx = me.tx
    BY DEF Durable
  <2>2. PICK j, k \in 1 .. n :
            /\ j < k
            /\ log[j].kind = "create" /\ log[j].by = o /\ log[j].object = me.stmt.table
            /\ log[k].kind = "commit" /\ log[k].tx = me.tx
    BY <2>1 DEF Kept, Durable
  <2>3. j \in 1 .. m /\ k \in 1 .. m /\ next[j] = log[j] /\ next[k] = log[k]
    BY <1>0
  <2>4. QED
    BY <2>2, <2>3
<1>4. QED
  BY <1>1, <1>2, <1>3 DEF Kept

\* Nor does the end of the transaction of session s.
LEMMA OthersKeepTheirs ==
    ASSUME NEW log, NEW n, NEW act, NEW tx, NEW s, NEW o, s # o, NEW me,
           Kept(log, n, act, me, o), BegunBy(log, tx, s)
    PROVE  Kept(log, n, Without(act, tx), me, o)
<1>1. ASSUME InTx(me), Once(log, me.tx) PROVE Knows(log, Without(act, tx), me)
  <2>1. BegunBy(log, me.tx, o) /\ Knows(log, act, me)
    BY <1>1 DEF Kept, Current
  <2>2. me.tx # tx
    BY <1>1, <2>1, SharedIsTwice
  <2>3. me.tx \in DOMAIN act => me.tx \in DOMAIN Without(act, tx) /\ Without(act, tx)[me.tx] = act[me.tx]
    BY <2>2 DEF Without
  <2>4. QED
    BY <2>1, <2>3 DEF Knows
<1>2. QED
  BY <1>1 DEF Kept, Current

\* One session moves; the others keep what they had.
LEMMA SessionMoves ==
    ASSUME DdlIInv, NEW s \in Sessions, NEW me, Local(s, me), StatementOK(me), walOn' = walOn,
           LogOK(ddlLog', flushed'),
           walOn => Kept(ddlLog', flushed', active', me, s),
           walOn => \A o \in Sessions : o # s => Kept(ddlLog', flushed', active', sess[o], o)
    PROVE  DdlIInv'
<1>1. DOMAIN sess' = Sessions /\ sess'[s] = me /\ \A o \in Sessions : o # s => sess'[o] = sess[o]
  BY DEF DdlIInv, StatementsOK, Local
<1>2. \A o \in Sessions : StatementOK(sess'[o])
  BY <1>1 DEF DdlIInv, StatementsOK
<1>3. StatementsOK'
  BY <1>1, <1>2 DEF StatementsOK, StatementOK
<1>4. walOn => \A o \in Sessions : Kept(ddlLog', flushed', active', sess'[o], o)
  BY <1>1
<1>5. QED
  BY <1>3, <1>4 DEF DdlIInv, LogOK, Kept

-----------------------------------------------------------------------------
(* The DDL log: the steps of a statement *)

\* A step that neither logs nor takes anything from the active transactions: it
\* goes on within its transaction, or leaves it without success.
Quietly(old, me) ==
    /\ InTx(me) => /\ InTx(old) /\ me.tx = old.tx
                   /\ me.pc \notin {"log", "commit", "undo"} /\ old.pc \notin {"commit", "undo"}
    /\ (Creating(me) /\ me.pc \in {"work", "commit"}) =>
           Creating(old) /\ old.pc = "work" /\ me.stmt.table = old.stmt.table
    /\ ~ReturnedOk(me)

\* Such a step keeps the invariant.
LEMMA QuietMove ==
    ASSUME DdlIInv, NEW s \in Sessions, NEW me, Local(s, me), StatementOK(me), UNCHANGED walVars,
           walOn => Quietly(sess[s], me)
    PROVE  DdlIInv'
<1>1. UNCHANGED <<walOn, ddlLog, flushed, active>>
  BY DEF walVars
<1>2. LogOK(ddlLog', flushed')
  BY <1>1 DEF DdlIInv
<1>3. ASSUME walOn PROVE Kept(ddlLog, flushed, active, me, s)
  <2>1. Kept(ddlLog, flushed, active, sess[s], s) /\ Quietly(sess[s], me)
    BY <1>3 DEF DdlIInv
  <2>2. Current(ddlLog, active, me, s)
    BY <2>1 DEF Kept, Current, Quietly, Knows
  <2>3. Recorded(ddlLog, me, s)
    BY <2>1 DEF Kept, Recorded, Quietly, Logged
  <2>4. Durable(ddlLog, flushed, me, s)
    BY <2>1 DEF Durable, Quietly
  <2>5. QED
    BY <2>2, <2>3, <2>4 DEF Kept
<1>4. walOn => \A o \in Sessions : o # s => Kept(ddlLog', flushed', active', sess[o], o)
  BY <1>1 DEF DdlIInv
<1>5. QED
  BY <1>1, <1>2, <1>3, <1>4, SessionMoves

\* A statement returns, and if it is a CREATE TABLE with a log then with an error.
LEMMA ReturnStep ==
    ASSUME DdlIInv, NEW s \in Sessions, NEW x, Return(s, x), UNCHANGED walVars,
           walOn /\ Creating(sess[s]) => x # "ok"
    PROVE  DdlIInv'
<1>1. PICK me : /\ me = [Idle EXCEPT !.pc = "returned", !.stmt = sess[s].stmt, !.tx = sess[s].tx, !.result = x]
                /\ Local(s, me)
  BY DEF Return
<1>2. DOMAIN me = DOMAIN Idle /\ me.pc = "returned" /\ me.stmt = sess[s].stmt /\ me.result = x
  BY <1>1 DEF Idle
<1>3. StatementOK(me)
  BY <1>2 DEF StatementOK, TxPcs, OtherPcs
<1>4. walOn => Quietly(sess[s], me)
  BY <1>2 DEF Quietly, InTx, TxPcs, ReturnedOk, Creating
<1>5. QED
  BY <1>1, <1>3, <1>4, QuietMove

\* The places in which nothing is asked of a statement.
FreePcs == {"idle", "check", "lookup", "list", "remove"}

\* Where a statement may go on to within its transaction, or outside.
MayMove(old, pc) ==
    \/ pc \in FreePcs
    \/ Creating(old) /\ pc = "begin"
    \/ ~Creating(old) /\ pc \in OtherPcs \cup {"work"}
    \/ /\ Creating(old) /\ InTx(old) /\ old.pc \notin {"log", "commit", "undo"}
       /\ \/ pc \in {"prepare", "define", "abort"}
          \/ pc = "defined" /\ walOn
          \/ pc = "work" /\ (walOn => old.pc = "work")

\* A statement goes on to another place with the same transaction.
LEMMA MoveStep ==
    ASSUME DdlIInv, NEW s \in Sessions, NEW me, Local(s, me), UNCHANGED walVars,
           DOMAIN me = DOMAIN Idle, me.stmt = sess[s].stmt, me.tx = sess[s].tx, MayMove(sess[s], me.pc)
    PROVE  DdlIInv'
<1>0. me.pc # "returned"
  BY DEF MayMove, FreePcs, OtherPcs
<1>1. StatementOK(me)
  BY DEF StatementOK, MayMove, TxPcs, OtherPcs, FreePcs, Creating
<1>2. walOn => Quietly(sess[s], me)
  BY <1>0 DEF Quietly, MayMove, InTx, TxPcs, OtherPcs, FreePcs, ReturnedOk, Creating
<1>3. QED
  BY <1>1, <1>2, QuietMove

\* Goto changes the place only.
LEMMA GotoStep ==
    ASSUME DdlIInv, NEW s \in Sessions, NEW x, Goto(s, x), UNCHANGED walVars, MayMove(sess[s], x)
    PROVE  DdlIInv'
<1>1. PICK me : me = [sess[s] EXCEPT !.pc = x] /\ Local(s, me)
  BY DEF Goto
<1>2. DOMAIN sess[s] = DOMAIN Idle
  BY DEF DdlIInv, StatementsOK, StatementOK
<1>3. DOMAIN me = DOMAIN Idle /\ me.pc = x /\ me.stmt = sess[s].stmt /\ me.tx = sess[s].tx
  BY <1>1, <1>2 DEF Idle
<1>4. QED
  BY <1>1, <1>3, MoveStep

\* An error: a CREATE TABLE cleans up, another statement returns.
LEMMA FailStep ==
    ASSUME DdlIInv, NEW s \in Sessions, Fail(s), UNCHANGED walVars, sess[s].pc \in {"defined", "work"}
    PROVE  DdlIInv'
<1>1. CASE Creating(sess[s])
  <2>1. Goto(s, "abort")
    BY <1>1 DEF Fail, Creating
  <2>2. MayMove(sess[s], "abort")
    BY <1>1 DEF MayMove, InTx, TxPcs
  <2>3. QED
    BY <2>1, <2>2, GotoStep
<1>2. CASE ~Creating(sess[s])
  <2>1. Return(s, "error")
    BY <1>2 DEF Fail, Creating
  <2>2. QED
    BY <2>1, ReturnStep
<1>3. QED
  BY <1>1, <1>2

\* A piece of work is done.
LEMMA DoneStep ==
    ASSUME DdlIInv, NEW s \in Sessions, Done(s), UNCHANGED walVars, sess[s].pc \in {"defined", "work"}
    PROVE  DdlIInv'
<1>0. StatementOK(sess[s])
  BY DEF DdlIInv, StatementsOK
<1>1. PICK me : me = [sess[s] EXCEPT !.todo = Tail(@), !.made = @ \o Head(sess[s].todo).made] /\ Local(s, me)
  BY DEF Done
<1>2. DOMAIN me = DOMAIN Idle /\ me.pc = sess[s].pc /\ me.stmt = sess[s].stmt /\ me.tx = sess[s].tx
  BY <1>0, <1>1 DEF StatementOK, Idle
<1>3. sess[s].pc = "defined" => Creating(sess[s]) /\ walOn
  BY <1>0 DEF StatementOK, TxPcs
<1>4. MayMove(sess[s], me.pc)
  BY <1>2, <1>3 DEF MayMove, InTx, TxPcs
<1>5. QED
  BY <1>1, <1>2, <1>4, MoveStep

\* The steps that make the indexes of a table.
LEMMA WorkStep ==
    ASSUME DdlIInv, NEW s \in Sessions, MakePk(s) \/ MakeIndex(s) \/ CheckFk(s)
    PROVE  DdlIInv'
<1>1. UNCHANGED walVars /\ sess[s].pc \in {"defined", "work"}
  BY DEF MakePk, MakeIndex, CheckFk, OnlyCatalog, OnlyLocal, Doing
<1>2. Done(s) \/ Fail(s)
  BY DEF MakePk, MakeIndex, CheckFk
<1>3. QED
  BY <1>1, <1>2, DoneStep, FailStep

\* The steps of CREATE TABLE that do not touch the log.
LEMMA CreateStep ==
    ASSUME DdlIInv, NEW s \in Sessions, CreateCheck(s) \/ CreatePrepare(s) \/ CreateDefine(s)
    PROVE  DdlIInv'
<1>0. StatementOK(sess[s]) /\ UNCHANGED walVars
  BY DEF DdlIInv, StatementsOK, CreateCheck, CreatePrepare, CreateDefine, OnlyLocal, OnlyCatalog
<1>1. CASE CreateCheck(s)
  <2>1. CASE Goto(s, "begin")
    <3>1. MayMove(sess[s], "begin")
      BY <1>1 DEF CreateCheck, At, MayMove, Creating
    <3>2. QED
      BY <1>0, <2>1, <3>1, GotoStep
  <2>2. CASE \E x \in {"skipped", "error"} : Return(s, x)
    BY <1>0, <2>2, ReturnStep
  <2>3. QED
    BY <1>1, <2>1, <2>2 DEF CreateCheck
<1>2. CASE CreatePrepare(s)
  <2>1. sess[s].pc = "prepare" /\ Creating(sess[s])
    BY <1>0, <1>2 DEF CreatePrepare, StatementOK, TxPcs
  <2>2. MayMove(sess[s], "abort") /\ MayMove(sess[s], "define")
    BY <2>1 DEF MayMove, InTx, TxPcs
  <2>3. CASE Goto(s, "abort")
    BY <1>0, <2>2, <2>3, GotoStep
  <2>4. CASE \E c : Local(s, [sess[s] EXCEPT !.pc = "define", !.def.columns = c])
    <3>1. PICK c, me : me = [sess[s] EXCEPT !.pc = "define", !.def.columns = c] /\ Local(s, me)
      BY <2>4
    <3>2. DOMAIN me = DOMAIN Idle /\ me.pc = "define" /\ me.stmt = sess[s].stmt /\ me.tx = sess[s].tx
      BY <1>0, <3>1 DEF StatementOK, Idle
    <3>3. QED
      BY <1>0, <2>2, <3>1, <3>2, MoveStep
  <2>5. QED
    BY <1>2, <2>3, <2>4 DEF CreatePrepare
<1>3. CASE CreateDefine(s)
  <2>1. sess[s].pc = "define" /\ Creating(sess[s])
    BY <1>0, <1>3 DEF CreateDefine, StatementOK, TxPcs
  <2>2. PICK x, i, w, me : /\ x = (IF walOn THEN "defined" ELSE "work")
                           /\ me = [sess[s] EXCEPT !.pc = x, !.def.id = i, !.todo = w] /\ Local(s, me)
    BY <1>3 DEF CreateDefine
  <2>3. DOMAIN me = DOMAIN Idle /\ me.pc = x /\ me.stmt = sess[s].stmt /\ me.tx = sess[s].tx
    BY <1>0, <2>2 DEF StatementOK, Idle
  <2>4. MayMove(sess[s], x)
    BY <2>1, <2>2 DEF MayMove, InTx, TxPcs
  <2>5. QED
    BY <1>0, <2>2, <2>3, <2>4, MoveStep
<1>4. QED
  BY <1>1, <1>2, <1>3

\* A statement starts.
LEMMA StartStep ==
    ASSUME DdlIInv, NEW s \in Sessions, Start(s)
    PROVE  DdlIInv'
<1>1. PICK stmt, me : me = [Idle EXCEPT !.pc = "check", !.stmt = stmt, !.before = catalog] /\ Local(s, me)
  BY DEF Start
<1>2. DOMAIN me = DOMAIN Idle /\ me.pc = "check"
  BY <1>1 DEF Idle
<1>3. StatementOK(me) /\ Quietly(sess[s], me) /\ UNCHANGED walVars
  BY <1>2 DEF StatementOK, Quietly, InTx, TxPcs, OtherPcs, ReturnedOk, Start
<1>4. QED
  BY <1>1, <1>3, QuietMove

\* Removing a table and its indexes.
LEMMA DropStep ==
    ASSUME DdlIInv, NEW s \in Sessions, DropNext(s) \/ DropLookup(s) \/ DropList(s) \/ DropRemove(s)
    PROVE  DdlIInv'
<1>0. StatementOK(sess[s]) /\ UNCHANGED walVars
  BY DEF DdlIInv, StatementsOK, DropNext, DropLookup, DropList, DropRemove, OnlyLocal, OnlyCatalog
<1>1. CASE Return(s, "error")
  BY <1>0, <1>1, ReturnStep
<1>2. CASE Goto(s, "leave") /\ ~Creating(sess[s])
  <2>1. MayMove(sess[s], "leave")
    BY <1>2 DEF MayMove, OtherPcs
  <2>2. QED
    BY <1>0, <1>2, <2>1, GotoStep
<1>3. CASE \E pc \in FreePcs : \E d, w : Local(s, [sess[s] EXCEPT !.pc = pc, !.def = d, !.todo = w])
  <2>1. PICK pc, d, w, me : pc \in FreePcs /\ me = [sess[s] EXCEPT !.pc = pc, !.def = d, !.todo = w] /\ Local(s, me)
    BY <1>3
  <2>2. DOMAIN me = DOMAIN Idle /\ me.pc = pc /\ me.stmt = sess[s].stmt /\ me.tx = sess[s].tx
    BY <1>0, <2>1 DEF StatementOK, Idle
  <2>3. MayMove(sess[s], me.pc)
    BY <2>1, <2>2 DEF MayMove
  <2>4. QED
    BY <1>0, <2>1, <2>2, <2>3, MoveStep
<1>4. DOMAIN sess[s] = DOMAIN Idle
  BY <1>0 DEF StatementOK
<1>5. CASE DropNext(s)
  <2>1. sess[s].pc \in FreePcs /\ Local(s, [sess[s] EXCEPT !.todo = Tail(@)])
    BY <1>5 DEF DropNext, Dropping, FreePcs
  <2>2. [sess[s] EXCEPT !.todo = Tail(@)]
          = [sess[s] EXCEPT !.pc = sess[s].pc, !.def = sess[s].def, !.todo = Tail(sess[s].todo)]
    BY <1>4 DEF Idle
  <2>3. QED
    BY <1>3, <2>1, <2>2
<1>6. CASE DropLookup(s)
  <2>1. CASE Local(s, [sess[s] EXCEPT !.pc = "list", !.def = catalog.tables[sess[s].stmt.table]])
    <3>1. [sess[s] EXCEPT !.pc = "list", !.def = catalog.tables[sess[s].stmt.table]]
            = [sess[s] EXCEPT !.pc = "list", !.def = catalog.tables[sess[s].stmt.table], !.todo = sess[s].todo]
      BY <1>4 DEF Idle
    <3>2. "list" \in FreePcs
      BY DEF FreePcs
    <3>3. QED
      BY <1>3, <2>1, <3>1, <3>2
  <2>2. QED
    BY <1>1, <1>6, <2>1 DEF DropLookup
<1>7. CASE DropList(s)
  <2>1. PICK w : Local(s, [sess[s] EXCEPT !.pc = "remove", !.todo = w])
    BY <1>7 DEF DropList
  <2>2. [sess[s] EXCEPT !.pc = "remove", !.todo = w] = [sess[s] EXCEPT !.pc = "remove", !.def = sess[s].def, !.todo = w]
    BY <1>4 DEF Idle
  <2>3. "remove" \in FreePcs
    BY DEF FreePcs
  <2>4. QED
    BY <1>3, <2>1, <2>2, <2>3
<1>8. CASE DropRemove(s)
  BY <1>1, <1>2, <1>8 DEF DropRemove, Creating
<1>9. QED
  BY <1>5, <1>6, <1>7, <1>8

\* A statement other than CREATE TABLE goes on, and may return as it likes.
LEMMA OtherStep ==
    ASSUME DdlIInv, NEW s \in Sessions, ~Creating(sess[s]), UNCHANGED walVars,
           \/ \E x : Return(s, x)
           \/ \E x \in OtherPcs \cup FreePcs : Goto(s, x)
           \/ \E x \in OtherPcs : \E d : Local(s, [sess[s] EXCEPT !.pc = x, !.def = d])
           \/ \E x \in OtherPcs : \E c : Local(s, [sess[s] EXCEPT !.pc = x, !.def.columns = c])
           \/ \E d, w : Local(s, [sess[s] EXCEPT !.pc = "work", !.def = d, !.todo = w])
    PROVE  DdlIInv'
<1>0. DOMAIN sess[s] = DOMAIN Idle
  BY DEF DdlIInv, StatementsOK, StatementOK
<1>1. \A x \in OtherPcs \cup FreePcs \cup {"work"} : MayMove(sess[s], x)
  BY DEF MayMove
<1>2. CASE \E x : Return(s, x)
  BY <1>2, ReturnStep
<1>3. CASE \E x \in OtherPcs \cup FreePcs : Goto(s, x)
  BY <1>1, <1>3, GotoStep
<1>4. CASE \E x \in OtherPcs : \E d : Local(s, [sess[s] EXCEPT !.pc = x, !.def = d])
  <2>1. PICK x, d, me : x \in OtherPcs /\ me = [sess[s] EXCEPT !.pc = x, !.def = d] /\ Local(s, me)
    BY <1>4
  <2>2. DOMAIN me = DOMAIN Idle /\ me.pc = x /\ me.stmt = sess[s].stmt /\ me.tx = sess[s].tx
    BY <1>0, <2>1 DEF Idle
  <2>3. QED
    BY <1>1, <2>1, <2>2, MoveStep
<1>5. CASE \E x \in OtherPcs : \E c : Local(s, [sess[s] EXCEPT !.pc = x, !.def.columns = c])
  <2>1. PICK x, c, me : x \in OtherPcs /\ me = [sess[s] EXCEPT !.pc = x, !.def.columns = c] /\ Local(s, me)
    BY <1>5
  <2>2. DOMAIN me = DOMAIN Idle /\ me.pc = x /\ me.stmt = sess[s].stmt /\ me.tx = sess[s].tx
    BY <1>0, <2>1 DEF Idle
  <2>3. QED
    BY <1>1, <2>1, <2>2, MoveStep
<1>6. CASE \E d, w : Local(s, [sess[s] EXCEPT !.pc = "work", !.def = d, !.todo = w])
  <2>1. PICK d, w, me : me = [sess[s] EXCEPT !.pc = "work", !.def = d, !.todo = w] /\ Local(s, me)
    BY <1>6
  <2>2. DOMAIN me = DOMAIN Idle /\ me.pc = "work" /\ me.stmt = sess[s].stmt /\ me.tx = sess[s].tx
    BY <1>0, <2>1 DEF Idle
  <2>3. QED
    BY <1>1, <2>1, <2>2, MoveStep
<1>7. QED
  BY <1>2, <1>3, <1>4, <1>5, <1>6

\* DROP TABLE and ALTER TABLE.
LEMMA TableStep ==
    ASSUME DdlIInv, NEW s \in Sessions,
           \/ LeaveTx(s) \/ TableCheck(s) \/ TableEnter(s)
           \/ AlterValidate(s) \/ AlterApply(s) \/ AlterWrite(s)
    PROVE  DdlIInv'
<1>0. StatementOK(sess[s]) /\ UNCHANGED walVars
  BY DEF DdlIInv, StatementsOK, LeaveTx, TableCheck, TableEnter, AlterValidate, AlterApply, AlterWrite,
         OnlyLocal, OnlyCatalog, OnlyTx
<1>1. ~Creating(sess[s])
  BY <1>0 DEF LeaveTx, TableCheck, TableEnter, AlterValidate, AlterApply, AlterWrite, TableStatement, At,
              StatementOK, OtherPcs, Creating
<1>2. {"enter", "validate", "leave", "apply", "write"} \subseteq OtherPcs /\ "lookup" \in FreePcs
  BY DEF OtherPcs, FreePcs
<1>3. CASE LeaveTx(s)
  BY <1>0, <1>1, <1>3, OtherStep DEF LeaveTx
<1>4. CASE TableCheck(s)
  <2>1. (\E x : Return(s, x)) \/ \E d : Local(s, [sess[s] EXCEPT !.pc = "enter", !.def = d])
    BY <1>4 DEF TableCheck
  <2>2. QED
    BY <1>0, <1>1, <1>2, <2>1, OtherStep
<1>5. CASE TableEnter(s)
  <2>1. (\E x : Return(s, x)) \/ \E x \in {"lookup", "validate"} : Goto(s, x)
    BY <1>5 DEF TableEnter
  <2>2. QED
    BY <1>0, <1>1, <1>2, <2>1, OtherStep
<1>6. CASE AlterValidate(s)
  <2>1. (\E x : Return(s, x)) \/ Goto(s, "apply")
    BY <1>6 DEF AlterValidate
  <2>2. QED
    BY <1>0, <1>1, <1>2, <2>1, OtherStep
<1>7. CASE AlterApply(s)
  <2>1. \/ \E x : Return(s, x)
        \/ Goto(s, "leave")
        \/ \E c : Local(s, [sess[s] EXCEPT !.pc = "write", !.def.columns = c])
        \/ \E d, w : Local(s, [sess[s] EXCEPT !.pc = "work", !.def = d, !.todo = w])
    BY <1>7 DEF AlterApply
  <2>2. QED
    BY <1>0, <1>1, <1>2, <2>1, OtherStep
<1>8. CASE AlterWrite(s)
  <2>1. (\E x : Return(s, x)) \/ Goto(s, "leave")
    BY <1>8 DEF AlterWrite
  <2>2. QED
    BY <1>0, <1>1, <1>2, <2>1, OtherStep
<1>9. QED
  BY <1>3, <1>4, <1>5, <1>6, <1>7, <1>8

\* CREATE INDEX and DROP INDEX.
LEMMA IndexStep ==
    ASSUME DdlIInv, NEW s \in Sessions,
           \/ IndexCheck(s) \/ IndexTable(s) \/ IndexMake(s)
           \/ IndexEnter(s) \/ IndexOwner(s) \/ IndexUnmake(s)
    PROVE  DdlIInv'
<1>0. StatementOK(sess[s]) /\ UNCHANGED walVars
  BY DEF DdlIInv, StatementsOK, IndexCheck, IndexTable, IndexMake, IndexEnter, IndexOwner, IndexUnmake,
         OnlyLocal, OnlyCatalog, OnlyTx
<1>1. ~Creating(sess[s])
  BY <1>0 DEF IndexCheck, IndexTable, IndexMake, IndexEnter, IndexOwner, IndexUnmake, At,
              StatementOK, OtherPcs, Creating
<1>2. {"table", "enter", "make", "owner", "unmake", "leave"} \subseteq OtherPcs
  BY DEF OtherPcs
<1>3. CASE IndexCheck(s)
  <2>1. \/ \E x : Return(s, x)
        \/ Goto(s, "table")
        \/ \E d : Local(s, [sess[s] EXCEPT !.pc = "enter", !.def = d])
    BY <1>3 DEF IndexCheck
  <2>2. QED
    BY <1>0, <1>1, <1>2, <2>1, OtherStep
<1>4. CASE IndexTable(s)
  <2>1. (\E x : Return(s, x)) \/ \E d : Local(s, [sess[s] EXCEPT !.pc = "make", !.def = d])
    BY <1>4 DEF IndexTable
  <2>2. QED
    BY <1>0, <1>1, <1>2, <2>1, OtherStep
<1>5. CASE IndexMake(s)
  BY <1>0, <1>1, <1>5, OtherStep DEF IndexMake
<1>6. CASE IndexEnter(s) \/ IndexOwner(s) \/ IndexUnmake(s)
  <2>1. (\E x : Return(s, x)) \/ \E x \in {"owner", "unmake", "leave"} : Goto(s, x)
    BY <1>6 DEF IndexEnter, IndexOwner, IndexUnmake
  <2>2. QED
    BY <1>0, <1>1, <1>2, <2>1, OtherStep
<1>7. QED
  BY <1>3, <1>4, <1>5, <1>6

-----------------------------------------------------------------------------
(* The DDL log: the steps that log *)

\* A session of a transaction appends a record that fits.
LEMMA RecordAppended ==
    ASSUME DdlIInv, walOn, walOn' = walOn, NEW s \in Sessions, NEW me, Local(s, me), StatementOK(me), NEW r,
           ddlLog' = Append(ddlLog, r), flushed' = flushed \/ flushed' = Len(ddlLog'),
           Fits(ddlLog, r), BegunBy(ddlLog', r.tx, s),
           \A tx : tx # r.tx /\ tx \in DOMAIN active => tx \in DOMAIN active' /\ active'[tx] = active[tx],
           Kept(ddlLog', flushed', active', me, s)
    PROVE  DdlIInv'
<1>1. IsLog(ddlLog) /\ flushed \in 0 .. Len(ddlLog) /\ Begun(ddlLog) /\ Chained(ddlLog)
  BY DEF DdlIInv, LogOK
<1>2. PICK log, next : log = ddlLog /\ next = ddlLog'
  OBVIOUS
<1>3. IsLog(next) /\ Extends(log, next, r)
  BY <1>1, <1>2, Appended DEF Extends
<1>4. Begun(next) /\ Chained(next)
  BY <1>1, <1>2, <1>3, ChainGrows
<1>5. flushed' \in flushed .. Len(next) /\ flushed' \in 0 .. Len(next)
  BY <1>1, <1>2, <1>3 DEF Extends
<1>6. ASSUME NEW o \in Sessions, o # s
      PROVE  Kept(next, flushed', active', sess[o], o)
  <2>1. Kept(log, flushed, active, sess[o], o)
    BY <1>2 DEF DdlIInv
  <2>2. PICK n, m, act, now, you : n = flushed /\ m = flushed' /\ act = active /\ now = active' /\ you = sess[o]
    OBVIOUS
  <2>3. Kept(next, m, now, you, o)
    BY <1>1, <1>2, <1>3, <1>5, <1>6, <2>1, <2>2, OthersKeep
  <2>4. QED
    BY <2>2, <2>3
<1>7. LogOK(ddlLog', flushed')
  BY <1>2, <1>3, <1>4, <1>5 DEF LogOK
<1>8. QED
  BY <1>2, <1>6, <1>7, SessionMoves

\* What a session knows inside its transaction.
LEMMA Inside ==
    ASSUME DdlIInv, walOn, NEW s \in Sessions, InTx(sess[s])
    PROVE  /\ BegunBy(ddlLog, sess[s].tx, s)
           /\ Once(ddlLog, sess[s].tx) => Knows(ddlLog, active, sess[s])
           /\ \E i \in 1 .. Len(ddlLog) : Begins(ddlLog, sess[s].tx, i)
           /\ Recorded(ddlLog, sess[s], s)
<1>1. Kept(ddlLog, flushed, active, sess[s], s)
  BY DEF DdlIInv
<1>2. BegunBy(ddlLog, sess[s].tx, s) /\ (Once(ddlLog, sess[s].tx) => Knows(ddlLog, active, sess[s]))
  BY <1>1 DEF Kept, Current
<1>3. QED
  BY <1>1, <1>2 DEF Kept, BegunBy

\* The log of the next state extends the log.
LEMMA NextExtends ==
    ASSUME DdlIInv, NEW r
    PROVE  Extends(ddlLog, Append(ddlLog, r), r) /\ IsLog(Append(ddlLog, r))
  BY Appended DEF DdlIInv, LogOK, Extends

\* begin_ddl_transaction.
LEMMA BeginStep ==
    ASSUME DdlIInv, NEW s \in Sessions, CreateBegin(s)
    PROVE  DdlIInv'
<1>0. StatementOK(sess[s]) /\ sess[s].pc = "begin"
  BY DEF DdlIInv, StatementsOK, CreateBegin
<1>1. PICK me, t : t = clock /\ me = [sess[s] EXCEPT !.pc = "prepare", !.tx = t] /\ Local(s, me)
  BY DEF CreateBegin
<1>2. DOMAIN me = DOMAIN Idle /\ me.pc = "prepare" /\ me.stmt = sess[s].stmt /\ me.tx = t
  BY <1>0, <1>1 DEF StatementOK, Idle
<1>3. StatementOK(me)
  BY <1>0, <1>2 DEF StatementOK, TxPcs, OtherPcs, Creating
<1>4. CASE ~walOn
  <2>1. UNCHANGED walVars
    BY <1>4 DEF CreateBegin
  <2>2. QED
    BY <1>1, <1>3, <1>4, <2>1, QuietMove
<1>5. CASE walOn
  <2>1. BeginDdl(t, s)
    BY <1>1, <1>5 DEF CreateBegin
  <2>2. PICK r : r = Record("begin", t, s, NoLsn, NoLsn) /\ ddlLog' = Append(ddlLog, r)
    BY <2>1 DEF BeginDdl
  <2>3. r.kind = "begin" /\ r.tx = t /\ r.by = s /\ r.prev = NoLsn
    BY <2>2 DEF Record
  <2>4. UNCHANGED <<walOn, flushed>> /\ active' = Put(active, t, Len(ddlLog'))
    BY <2>1 DEF BeginDdl
  <2>5. PICK log, next : log = ddlLog /\ next = ddlLog'
    OBVIOUS
  <2>6. Extends(log, next, r)
    BY <2>2, <2>5, NextExtends
  <2>7. Len(next) \in 1 .. Len(next) /\ next[Len(next)] = r
    BY <2>6 DEF Extends
  <2>8. BegunBy(next, t, s)
    BY <2>3, <2>7 DEF BegunBy, Begins
  <2>9. IsLast(next, t, Len(next), Len(next))
    BY <2>3, <2>6, LastMoves
  <2>10. /\ t \in DOMAIN active' /\ active'[t] = Len(next)
         /\ \A tx : tx # t /\ tx \in DOMAIN active => tx \in DOMAIN active' /\ active'[tx] = active[tx]
    BY <2>4, <2>5 DEF Put
  <2>11. Knows(next, active', me)
    BY <1>2, <2>9, <2>10 DEF Knows
  <2>12. Kept(next, flushed', active', me, s)
    BY <1>2, <2>8, <2>11 DEF Kept, Current, Recorded, Durable, ReturnedOk
  <2>13. Fits(ddlLog, r)
    BY <2>3 DEF Fits
  <2>14. QED
    BY <1>1, <1>3, <1>5, <2>2, <2>3, <2>4, <2>5, <2>8, <2>10, <2>12, <2>13, RecordAppended
<1>6. QED
  BY <1>4, <1>5

\* The first part of log_create_table reads the LSN the record will name.
LEMMA LogPrevStep ==
    ASSUME DdlIInv, NEW s \in Sessions, LogPrev(s)
    PROVE  DdlIInv'
<1>0. StatementOK(sess[s]) /\ sess[s].pc = "defined" /\ UNCHANGED walVars
  BY DEF DdlIInv, StatementsOK, LogPrev, OnlyLocal
<1>1. walOn /\ Creating(sess[s]) /\ InTx(sess[s])
  BY <1>0 DEF StatementOK, InTx, TxPcs
<1>2. CASE Fail(s)
  BY <1>0, <1>2, FailStep
<1>3. CASE ~Fail(s)
  <2>1. PICK me : me = [sess[s] EXCEPT !.pc = "log", !.prev = PrevLsn(sess[s].tx)] /\ Local(s, me)
    BY <1>3 DEF LogPrev
  <2>2. /\ DOMAIN me = DOMAIN Idle /\ me.pc = "log" /\ me.stmt = sess[s].stmt /\ me.tx = sess[s].tx
        /\ me.prev = PrevLsn(sess[s].tx)
    BY <1>0, <2>1 DEF StatementOK, Idle
  <2>3. StatementOK(me)
    BY <1>1, <2>2 DEF StatementOK, TxPcs, OtherPcs, Creating
  <2>4. Once(ddlLog, me.tx) => Knows(ddlLog, active, me)
    BY <1>0, <1>1, <2>2, Inside DEF Knows, PrevLsn
  <2>5. Kept(ddlLog, flushed, active, me, s)
    BY <1>1, <2>2, <2>4, Inside DEF Kept, Current, Recorded, Durable, ReturnedOk
  <2>6. UNCHANGED <<walOn, ddlLog, flushed, active>>
    BY <1>0 DEF walVars
  <2>7. LogOK(ddlLog', flushed') /\ \A o \in Sessions : Kept(ddlLog', flushed', active', sess[o], o)
    BY <1>1, <2>6 DEF DdlIInv
  <2>8. QED
    BY <2>1, <2>3, <2>5, <2>6, <2>7, SessionMoves
<1>4. QED
  BY <1>2, <1>3

\* Its second part appends the record.
LEMMA LogCreateStep ==
    ASSUME DdlIInv, NEW s \in Sessions, LogCreate(s)
    PROVE  DdlIInv'
<1>0. StatementOK(sess[s]) /\ sess[s].pc = "log"
  BY DEF DdlIInv, StatementsOK, LogCreate
<1>1. walOn /\ Creating(sess[s]) /\ InTx(sess[s])
  BY <1>0 DEF StatementOK, InTx, TxPcs
<1>2. PICK w, me : me = [sess[s] EXCEPT !.pc = "work", !.todo = w] /\ Local(s, me)
  BY DEF LogCreate
<1>3. DOMAIN me = DOMAIN Idle /\ me.pc = "work" /\ me.stmt = sess[s].stmt /\ me.tx = sess[s].tx
  BY <1>0, <1>2 DEF StatementOK, Idle
<1>4. StatementOK(me)
  BY <1>0, <1>3 DEF StatementOK, TxPcs, OtherPcs
<1>5. PICK r, t, p : /\ t = sess[s].tx /\ p = sess[s].prev
                     /\ r = Record("create", t, s, sess[s].stmt.table, p) /\ ddlLog' = Append(ddlLog, r)
  BY DEF LogCreate, LogDdl
<1>6. r.kind = "create" /\ r.tx = t /\ r.by = s /\ r.prev = p /\ r.object = me.stmt.table
  BY <1>3, <1>5 DEF Record
<1>7. /\ UNCHANGED <<walOn, flushed>>
      /\ active' = IF t \in DOMAIN active THEN Put(active, t, Len(ddlLog')) ELSE active
  BY <1>5 DEF LogCreate, LogDdl
<1>8. PICK log, next : log = ddlLog /\ next = ddlLog'
  OBVIOUS
<1>9. Extends(log, next, r)
  BY <1>5, <1>8, NextExtends
<1>10. Len(next) \in 1 .. Len(next) /\ next[Len(next)] = r
  BY <1>9 DEF Extends
<1>11. /\ BegunBy(log, t, s) /\ \E i \in 1 .. Len(log) : Begins(log, t, i)
       /\ Once(log, t) => t \in DOMAIN active /\ IsLast(log, t, Len(log), p)
  BY <1>0, <1>1, <1>5, <1>8, Inside DEF Knows
<1>12. Fits(ddlLog, r)
  BY <1>6, <1>8, <1>11 DEF Fits
<1>13. BegunBy(next, t, s)
  BY <1>9, <1>11, BegunStays
<1>14. /\ t \in DOMAIN active => t \in DOMAIN active' /\ active'[t] = Len(next)
       /\ \A tx : tx # t /\ tx \in DOMAIN active => tx \in DOMAIN active' /\ active'[tx] = active[tx]
  BY <1>7, <1>8 DEF Put
<1>15. IsLast(next, t, Len(next), Len(next))
  BY <1>6, <1>9, LastMoves
<1>16. ASSUME Once(next, t) PROVE Knows(next, active', me)
  <2>1. t \in DOMAIN active
    BY <1>9, <1>11, <1>16, OnceBefore
  <2>2. QED
    BY <1>3, <1>5, <1>14, <1>15, <2>1 DEF Knows
<1>17. Logged(next, me, s)
  BY <1>6, <1>10 DEF Logged
<1>18. Kept(next, flushed', active', me, s)
  BY <1>3, <1>5, <1>13, <1>16, <1>17 DEF Kept, Current, Recorded, Durable, ReturnedOk
<1>19. QED
  BY <1>1, <1>2, <1>4, <1>5, <1>6, <1>7, <1>8, <1>12, <1>13, <1>14, <1>18, RecordAppended

\* A session takes its transaction from the active ones, to write its last record.
LEMMA LeaveStep ==
    ASSUME DdlIInv, walOn, NEW s \in Sessions, NEW me, Local(s, me), LeaveDdl(sess[s].tx),
           InTx(sess[s]), Creating(sess[s]), sess[s].pc \notin {"commit", "undo"},
           DOMAIN me = DOMAIN Idle, me.pc \in {"commit", "undo"}, me.stmt = sess[s].stmt, me.tx = sess[s].tx,
           me.prev = active[sess[s].tx], me.pc = "commit" => sess[s].pc = "work"
    PROVE  DdlIInv'
<1>1. /\ sess[s].tx \in DOMAIN active /\ active' = Without(active, sess[s].tx)
      /\ UNCHANGED <<walOn, ddlLog, flushed>>
  BY DEF LeaveDdl
<1>2. StatementOK(me)
  BY DEF StatementOK, TxPcs, OtherPcs, Creating
<1>3. Once(ddlLog, me.tx) => Knows(ddlLog, active', me)
  BY Inside DEF Knows
<1>4. Recorded(ddlLog, me, s)
  BY Inside DEF Recorded, Logged, Creating
<1>5. Kept(ddlLog, flushed, active', me, s)
  BY <1>3, <1>4, Inside DEF Kept, Current, Durable, ReturnedOk
<1>6. ASSUME NEW o \in Sessions, o # s
      PROVE  Kept(ddlLog, flushed, active', sess[o], o)
  <2>1. Kept(ddlLog, flushed, active, sess[o], o) /\ BegunBy(ddlLog, sess[s].tx, s)
    BY Inside DEF DdlIInv
  <2>2. QED
    BY <1>1, <1>6, <2>1, OthersKeepTheirs
<1>7. LogOK(ddlLog', flushed')
  BY <1>1 DEF DdlIInv
<1>8. QED
  BY <1>1, <1>2, <1>5, <1>6, <1>7, SessionMoves

\* The commit of a CREATE TABLE, up to its record.
LEMMA CommitStep ==
    ASSUME DdlIInv, NEW s \in Sessions, CreateCommit(s)
    PROVE  DdlIInv'
<1>0. StatementOK(sess[s]) /\ sess[s].pc = "work" /\ Creating(sess[s]) /\ InTx(sess[s])
  BY DEF DdlIInv, StatementsOK, CreateCommit, At, Creating, InTx
<1>1. CASE ~walOn /\ Return(s, "ok") /\ UNCHANGED walVars
  BY <1>1, ReturnStep
<1>2. CASE walOn /\ Return(s, "error") /\ UNCHANGED walVars
  BY <1>2, ReturnStep
<1>3. CASE walOn /\ LeaveDdl(sess[s].tx) /\ Local(s, [sess[s] EXCEPT !.pc = "commit", !.prev = active[sess[s].tx]])
  <2>1. PICK me : me = [sess[s] EXCEPT !.pc = "commit", !.prev = active[sess[s].tx]] /\ Local(s, me)
    BY <1>3
  <2>2. /\ DOMAIN me = DOMAIN Idle /\ me.pc = "commit" /\ me.stmt = sess[s].stmt /\ me.tx = sess[s].tx
        /\ me.prev = active[sess[s].tx]
    BY <1>0, <2>1 DEF StatementOK, Idle
  <2>3. QED
    BY <1>0, <1>3, <2>1, <2>2, LeaveStep
<1>4. QED
  BY <1>1, <1>2, <1>3 DEF CreateCommit

\* The clean-up of a CREATE TABLE begins: its transaction is rolled back.
LEMMA AbortStep ==
    ASSUME DdlIInv, NEW s \in Sessions, CreateAbort(s)
    PROVE  DdlIInv'
<1>0. StatementOK(sess[s]) /\ sess[s].pc = "abort" /\ Creating(sess[s]) /\ InTx(sess[s])
  BY DEF DdlIInv, StatementsOK, CreateAbort, StatementOK, InTx, TxPcs
<1>1. PICK w, you : you = [sess[s] EXCEPT !.pc = "lookup", !.todo = w] /\ w = DropsOf(sess[s].made)
  OBVIOUS
<1>2. DOMAIN you = DOMAIN Idle /\ you.pc = "lookup" /\ you.stmt = sess[s].stmt /\ you.tx = sess[s].tx
  BY <1>0, <1>1 DEF StatementOK, Idle
<1>3. CASE Local(s, you) /\ UNCHANGED walVars
  <2>1. MayMove(sess[s], you.pc)
    BY <1>2 DEF MayMove, FreePcs
  <2>2. QED
    BY <1>2, <1>3, <2>1, MoveStep
<1>4. CASE walOn /\ LeaveDdl(sess[s].tx) /\ Local(s, [you EXCEPT !.pc = "undo", !.prev = active[sess[s].tx]])
  <2>1. PICK me : me = [you EXCEPT !.pc = "undo", !.prev = active[sess[s].tx]] /\ Local(s, me)
    BY <1>4
  <2>2. /\ DOMAIN me = DOMAIN Idle /\ me.pc = "undo" /\ me.stmt = sess[s].stmt /\ me.tx = sess[s].tx
        /\ me.prev = active[sess[s].tx]
    BY <1>2, <2>1 DEF Idle
  <2>3. QED
    BY <1>0, <1>4, <2>1, <2>2, LeaveStep
<1>5. QED
  BY <1>1, <1>3, <1>4 DEF CreateAbort

\* The final record of a transaction.
LEMMA EndStep ==
    ASSUME DdlIInv, NEW s \in Sessions, CommitRecord(s) \/ AbortRecord(s)
    PROVE  DdlIInv'
<1>0. StatementOK(sess[s]) /\ sess[s].pc \in {"commit", "undo"}
  BY DEF DdlIInv, StatementsOK, CommitRecord, AbortRecord
<1>1. walOn /\ Creating(sess[s]) /\ InTx(sess[s])
  BY <1>0 DEF StatementOK, InTx, TxPcs
<1>2. PICK kind, r, t, p : /\ t = sess[s].tx /\ p = sess[s].prev
                           /\ kind = (IF sess[s].pc = "commit" THEN "commit" ELSE "abort")
                           /\ r = Record(kind, t, s, NoLsn, p) /\ EndDdl(kind, t, s, p)
  BY DEF CommitRecord, AbortRecord
<1>3. /\ ddlLog' = Append(ddlLog, r) /\ flushed' = Len(ddlLog') /\ UNCHANGED <<walOn, active>>
      /\ r.kind = kind /\ r.tx = t /\ r.prev = p
  BY <1>2 DEF EndDdl, Record
<1>4. PICK log, next : log = ddlLog /\ next = ddlLog'
  OBVIOUS
<1>5. Extends(log, next, r)
  BY <1>3, <1>4, NextExtends
<1>6. /\ BegunBy(log, t, s) /\ \E i \in 1 .. Len(log) : Begins(log, t, i)
      /\ Once(log, t) => IsLast(log, t, Len(log), p)
      /\ sess[s].pc = "commit" => Logged(log, sess[s], s)
  BY <1>0, <1>1, <1>2, <1>4, Inside DEF Knows, Recorded
<1>7. Fits(ddlLog, r)
  BY <1>3, <1>4, <1>6 DEF Fits
<1>8. BegunBy(next, t, s)
  BY <1>5, <1>6, BegunStays
<1>9. PICK me : /\ Local(s, me)
                /\ me = IF sess[s].pc = "commit"
                        THEN [Idle EXCEPT !.pc = "returned", !.stmt = sess[s].stmt, !.tx = sess[s].tx, !.result = "ok"]
                        ELSE [sess[s] EXCEPT !.pc = "lookup"]
  BY DEF CommitRecord, AbortRecord, Return, Goto
<1>10. /\ DOMAIN me = DOMAIN Idle /\ me.stmt = sess[s].stmt /\ me.tx = t
       /\ me.pc = IF sess[s].pc = "commit" THEN "returned" ELSE "lookup"
  BY <1>0, <1>2, <1>9 DEF StatementOK, Idle
<1>11. StatementOK(me) /\ ~InTx(me) /\ me.pc \notin {"work", "commit"}
  BY <1>0, <1>10 DEF StatementOK, TxPcs, OtherPcs, InTx
<1>12. Durable(next, Len(next), me, s)
  <2>1. SUFFICES ASSUME sess[s].pc = "commit"
                 PROVE  \E j, k \in 1 .. Len(next) :
                            /\ j < k
                            /\ next[j].kind = "create" /\ next[j].by = s /\ next[j].object = me.stmt.table
                            /\ next[k].kind = "commit" /\ next[k].tx = me.tx
    BY <1>10 DEF Durable, ReturnedOk
  <2>2. PICK j \in 1 .. Len(log) : log[j].kind = "create" /\ log[j].by = s /\ log[j].object = sess[s].stmt.table
    BY <1>6, <2>1 DEF Logged
  <2>3. /\ j \in 1 .. Len(next) /\ next[j] = log[j] /\ j < Len(next)
        /\ Len(next) \in 1 .. Len(next) /\ next[Len(next)] = r
    BY <1>5 DEF Extends
  <2>4. r.kind = "commit"
    BY <1>2, <1>3, <2>1
  <2>5. QED
    BY <1>3, <1>10, <2>2, <2>3, <2>4
<1>13. Kept(next, flushed', active', me, s)
  BY <1>3, <1>4, <1>11, <1>12 DEF Kept, Current, Recorded
<1>14. QED
  BY <1>1, <1>3, <1>4, <1>7, <1>8, <1>9, <1>11, <1>13, RecordAppended


-----------------------------------------------------------------------------
(* The DDL log: the theorems *)

\* Nothing has been logged and no statement runs.
LEMMA DdlInitOK ==
    DdlInit => DdlIInv
<1>1. SUFFICES ASSUME DdlInit PROVE DdlIInv
  OBVIOUS
<1>2. ddlLog = <<>> /\ flushed = 0 /\ sess = [s \in Sessions |-> Idle]
  BY <1>1 DEF DdlInit, WalInit
<1>3. Idle.pc = "idle"
  BY DEF Idle
<1>4. StatementOK(Idle)
  BY <1>3 DEF StatementOK, TxPcs, OtherPcs
<1>5. StatementsOK
  BY <1>2, <1>4 DEF StatementsOK
<1>6. LogOK(ddlLog, flushed)
  <2>1. IsLog(<<>>) /\ Len(<<>>) = 0
    <3>1. <<>> \in Seq({})
      OBVIOUS
    <3>2. QED
      BY <3>1 DEF IsLog
  <2>2. Begun(<<>>) /\ Chained(<<>>)
    BY <2>1 DEF Begun, Chained
  <2>3. QED
    BY <1>2, <2>1, <2>2 DEF LogOK
<1>7. \A s \in Sessions : Kept(ddlLog, flushed, active, sess[s], s)
  BY <1>2, <1>3 DEF Kept, Current, Recorded, Durable, InTx, TxPcs, ReturnedOk
<1>8. QED
  BY <1>5, <1>6, <1>7 DEF DdlIInv

\* Every step keeps the invariant.
LEMMA DdlNextOK ==
    DdlIInv /\ [DdlNext]_ddlVars => DdlIInv'
<1>1. SUFFICES ASSUME DdlIInv, [DdlNext]_ddlVars PROVE DdlIInv'
  OBVIOUS
<1>2. CASE Tick \/ UNCHANGED ddlVars
  <2>1. UNCHANGED <<walOn, ddlLog, flushed, active, sess>>
    BY <1>2 DEF Tick, ddlVars, walVars
  <2>2. StatementsOK' /\ LogOK(ddlLog', flushed')
    BY <1>1, <2>1 DEF DdlIInv, StatementsOK, StatementOK
  <2>3. walOn' => \A s \in Sessions : Kept(ddlLog', flushed', active', sess'[s], s)
    BY <1>1, <2>1 DEF DdlIInv
  <2>4. QED
    BY <2>2, <2>3 DEF DdlIInv
<1>3. ASSUME NEW s \in Sessions, SessionStep(s) PROVE DdlIInv'
  <2>1. CASE Start(s)
    BY <1>1, <2>1, StartStep
  <2>2. CASE CreateCheck(s) \/ CreatePrepare(s) \/ CreateDefine(s)
    BY <1>1, <2>2, CreateStep
  <2>3. CASE CreateBegin(s)
    BY <1>1, <2>3, BeginStep
  <2>4. CASE MakePk(s) \/ MakeIndex(s) \/ CheckFk(s)
    BY <1>1, <2>4, WorkStep
  <2>5. CASE LogPrev(s)
    BY <1>1, <2>5, LogPrevStep
  <2>6. CASE LogCreate(s)
    BY <1>1, <2>6, LogCreateStep
  <2>7. CASE CreateCommit(s)
    BY <1>1, <2>7, CommitStep
  <2>8. CASE CreateAbort(s)
    BY <1>1, <2>8, AbortStep
  <2>9. CASE CommitRecord(s) \/ AbortRecord(s)
    BY <1>1, <2>9, EndStep
  <2>10. CASE DropNext(s) \/ DropLookup(s) \/ DropList(s) \/ DropRemove(s)
    BY <1>1, <2>10, DropStep
  <2>11. CASE \/ LeaveTx(s) \/ TableCheck(s) \/ TableEnter(s)
              \/ AlterValidate(s) \/ AlterApply(s) \/ AlterWrite(s)
    BY <1>1, <2>11, TableStep
  <2>12. CASE \/ IndexCheck(s) \/ IndexTable(s) \/ IndexMake(s)
              \/ IndexEnter(s) \/ IndexOwner(s) \/ IndexUnmake(s)
    BY <1>1, <2>12, IndexStep
  <2>13. QED
    BY <1>3, <2>1, <2>2, <2>3, <2>4, <2>5, <2>6, <2>7, <2>8, <2>9, <2>10, <2>11, <2>12 DEF SessionStep
<1>4. QED
  BY <1>1, <1>2, <1>3 DEF DdlNext

\* A transaction with one begin among its records has been begun once.
LEMMA OneBegin ==
    ASSUME NEW log, Len(log) \in Nat, NEW tx,
           Cardinality({j \in {i \in 1 .. Len(log) : log[i].tx = tx} : log[j].kind = "begin"}) = 1
    PROVE  Once(log, tx)
<1>1. PICK B : B = {j \in {i \in 1 .. Len(log) : log[i].tx = tx} : log[j].kind = "begin"}
  OBVIOUS
<1>2. IsFiniteSet(1 .. Len(log)) /\ B \in SUBSET (1 .. Len(log))
  BY <1>1, FS_Interval
<1>3. IsFiniteSet(B) /\ Cardinality(B) = 1
  BY <1>1, <1>2, FS_Subset
<1>4. PICK x : B = {x}
  BY <1>3, FS_Singleton
<1>5. \A i \in 1 .. Len(log) : Begins(log, tx, i) => i = x
  BY <1>1, <1>4 DEF Begins
<1>6. QED
  BY <1>5 DEF Once

\* The LSN a record names is the one the chain asks for.
LEMMA LastIsChosen ==
    ASSUME NEW log, NEW tx, NEW n \in Nat, NEW p, IsLast(log, tx, n, p)
    PROVE  p = IF {j \in 1 .. n : log[j].tx = tx} = {} THEN NoLsn
               ELSE CHOOSE j \in {i \in 1 .. n : log[i].tx = tx} : {i \in (j + 1) .. n : log[i].tx = tx} = {}
<1>0. PICK Before : Before = {j \in 1 .. n : log[j].tx = tx}
  OBVIOUS
<1>1. CASE p = NoLsn
  BY <1>0, <1>1 DEF IsLast
<1>2. CASE p # NoLsn
  <2>1. p \in 1 .. n /\ log[p].tx = tx /\ \A j \in (p + 1) .. n : log[j].tx # tx
    BY <1>2 DEF IsLast
  <2>2. p \in Before /\ {i \in (p + 1) .. n : log[i].tx = tx} = {}
    BY <1>0, <2>1
  <2>3. ASSUME NEW j \in Before, {i \in (j + 1) .. n : log[i].tx = tx} = {}
        PROVE  j = p
    <3>1. j \in 1 .. n /\ log[j].tx = tx
      BY <1>0
    <3>2. ~(p < j)
      BY <2>1, <3>1
    <3>3. ~(j < p)
      BY <2>1, <2>3, <3>1
    <3>4. QED
      BY <2>1, <3>1, <3>2, <3>3
  <2>4. p = CHOOSE j \in Before : {i \in (j + 1) .. n : log[i].tx = tx} = {}
    BY <2>2, <2>3
  <2>5. QED
    BY <1>0, <2>2, <2>4
<1>3. QED
  BY <1>1, <1>2

\* The invariant of the DDL statements and their log: it is what CreateDurable and
\* DdlWalChain rest on.
THEOREM DdlInvariant ==
    DdlSpec => []DdlIInv
<1>1. DdlInit => DdlIInv
  BY DdlInitOK
<1>2. DdlIInv /\ [DdlNext]_ddlVars => DdlIInv'
  BY DdlNextOK
<1>3. QED
  BY <1>1, <1>2, PTL DEF DdlSpec

\* A CREATE TABLE that returned Ok, of whichever session and in whatever company, has
\* its record and a commit after it on disk (executor/engine.rs, create_table).
THEOREM CreatesAreDurable ==
    DdlSpec => []CreateDurable
<1>1. DdlIInv => CreateDurable
  <2>1. SUFFICES ASSUME DdlIInv, NEW s \in Sessions, walOn, At(s, "returned", "CreateTable"), sess[s].result = "ok"
                 PROVE  \E j, k \in 1 .. flushed :
                            /\ j < k
                            /\ ddlLog[j].kind = "create" /\ ddlLog[j].by = s /\ ddlLog[j].object = sess[s].stmt.table
                            /\ ddlLog[k].kind = "commit" /\ ddlLog[k].tx = sess[s].tx
    BY DEF CreateDurable
  <2>2. ReturnedOk(sess[s])
    BY <2>1 DEF ReturnedOk, Creating, At
  <2>3. Durable(ddlLog, flushed, sess[s], s)
    BY <2>1 DEF DdlIInv, Kept
  <2>4. QED
    BY <2>2, <2>3 DEF Durable
<1>2. QED
  BY <1>1, DdlInvariant, PTL

\* The records of a DDL transaction that was begun once are one chain, though prev_lsn
\* is read under another lock than the append (transaction/ddl_wal.rs).
THEOREM DdlLogIsChained ==
    DdlSpec => []DdlWalChain
<1>1. DdlIInv => DdlWalChain
  <2>1. SUFFICES ASSUME DdlIInv, NEW k \in 1 .. Len(ddlLog),
                        Cardinality({j \in {i \in 1 .. Len(ddlLog) : ddlLog[i].tx = ddlLog[k].tx} : ddlLog[j].kind = "begin"}) = 1
                 PROVE  ddlLog[k].prev = IF {j \in 1 .. (k - 1) : ddlLog[j].tx = ddlLog[k].tx} = {} THEN NoLsn
                            ELSE CHOOSE j \in {i \in 1 .. (k - 1) : ddlLog[i].tx = ddlLog[k].tx} :
                                     {i \in (j + 1) .. (k - 1) : ddlLog[i].tx = ddlLog[k].tx} = {}
    BY Zenon DEF DdlWalChain
  <2>2. Len(ddlLog) \in Nat /\ Chained(ddlLog)
    BY <2>1 DEF DdlIInv, LogOK, IsLog
  <2>3. Once(ddlLog, ddlLog[k].tx)
    BY <2>1, <2>2, OneBegin
  <2>4. IsLast(ddlLog, ddlLog[k].tx, k - 1, ddlLog[k].prev)
    BY <2>1, <2>2, <2>3 DEF Chained
  <2>5. k - 1 \in Nat
    BY <2>2
  <2>6. PICK log, n, tx, p : log = ddlLog /\ n = k - 1 /\ tx = ddlLog[k].tx /\ p = ddlLog[k].prev
    OBVIOUS
  <2>7. n \in Nat /\ IsLast(log, tx, n, p)
    BY <2>4, <2>5, <2>6
  <2>8. p = IF {j \in 1 .. n : log[j].tx = tx} = {} THEN NoLsn
           ELSE CHOOSE j \in {i \in 1 .. n : log[i].tx = tx} : {i \in (j + 1) .. n : log[i].tx = tx} = {}
    BY <2>7, LastIsChosen
  <2>9. QED
    BY <2>6, <2>8
<1>2. QED
  BY <1>1, DdlInvariant, PTL

-----------------------------------------------------------------------------
(* Sequences.  The theorems on induction take an operator, so induction    *)
(* over sequences is stated for sets of them (SequencesGrow), and rests on *)
(* the least element of a set of numbers.                                  *)

\* What is true of some numbers is true of a least one.
LEMMA LeastNumber ==
    ASSUME NEW T \in SUBSET Nat, T # {}
    PROVE  \E n \in T : \A m \in T : n <= m
<1> DEFINE R == OpToRel(<, Nat)
<1>1. \E n \in T : \A m \in T : ~(<<m, n>> \in R)
  BY NatLessThanWellFounded, WFMin
<1>2. \A m, n \in Nat : m < n => <<m, n>> \in R
  BY DEF OpToRel
<1>3. PICK L : /\ \E n \in T : \A m \in T : ~(<<m, n>> \in L)
               /\ \A m, n \in Nat : m < n => <<m, n>> \in L
  BY <1>1, <1>2
<1>4. PICK n \in T : \A m \in T : ~(<<m, n>> \in L)
  BY <1>3
<1>5. n \in Nat /\ \A m \in T : m \in Nat
  OBVIOUS
<1>6. \A m \in T : ~(m < n)
  BY <1>3, <1>4, <1>5
<1>7. QED
  BY <1>4, <1>5, <1>6

\* A set of sequences that has the empty one, and with each one its extensions by
\* an element, has all of them.
Grows(G, T) == <<>> \in G /\ \A s \in G, x \in T : Append(s, x) \in G

\* Induction over sequences.
LEMMA SequencesGrow ==
    ASSUME NEW T, NEW G \in SUBSET Seq(T), Grows(G, T)
    PROVE  G = Seq(T)
<1>1. SUFFICES ASSUME NEW bad \in Seq(T), bad \notin G PROVE FALSE
  OBVIOUS
<1> DEFINE Ns == {n \in Nat : \E s \in Seq(T) : s \notin G /\ Len(s) = n}
<1>2. Ns \in SUBSET Nat /\ Len(bad) \in Ns
  BY <1>1
<1>3. PICK n \in Ns : \A m \in Ns : n <= m
  BY <1>2, LeastNumber
<1>4. PICK s \in Seq(T) : s \notin G /\ Len(s) = n
  BY <1>3
<1>5. s # <<>>
  BY <1>4 DEF Grows
<1>6. PICK front, x : front = SubSeq(s, 1, Len(s) - 1) /\ x = s[Len(s)]
  OBVIOUS
<1>7. Len(s) \in Nat /\ Len(s) # 0
  BY <1>4, <1>5, EmptySeq
<1>8. /\ x \in T /\ front \in Seq(T) /\ Len(front) = Len(s) - 1
      /\ \A i \in 1 .. Len(front) : front[i] = s[i]
  <2>1. x \in T
    BY <1>4, <1>6, <1>7
  <2>2. \A i \in 1 .. (Len(s) - 1) : s[i] \in T
    BY <1>4, <1>7
  <2>3. 1 \in Int /\ Len(s) - 1 \in Int
    BY <1>7
  <2>4. /\ front \in Seq(T)
        /\ Len(front) = IF 1 <= Len(s) - 1 THEN Len(s) - 1 - 1 + 1 ELSE 0
        /\ \A i \in 1 .. Len(s) - 1 - 1 + 1 : front[i] = s[1 + i - 1]
    BY <1>6, <2>2, <2>3, SubSeqProperties
  <2>5. Len(s) \in Nat \ {0} /\ Len(front) = Len(s) - 1
    <3>1. PICK n1 : n1 = Len(s)
      OBVIOUS
    <3>2. n1 \in Nat /\ n1 # 0 /\ Len(front) = IF 1 <= n1 - 1 THEN n1 - 1 - 1 + 1 ELSE 0
      BY <1>7, <2>4, <3>1
    <3>3. n1 \in Nat \ {0} /\ Len(front) = n1 - 1
      BY <3>2
    <3>4. QED
      BY <3>1, <3>3
  <2>6. \A i \in 1 .. Len(front) : i \in 1 .. Len(s) - 1 - 1 + 1 /\ 1 + i - 1 = i
    BY <2>5
  <2>7. QED
    BY <2>1, <2>4, <2>5, <2>6
<1>9. front \in G
  <2>1. SUFFICES ASSUME front \notin G PROVE FALSE
    OBVIOUS
  <2>2. Len(front) \in Ns
    BY <1>7, <1>8, <2>1
  <2>3. QED
    BY <1>3, <1>4, <1>7, <1>8, <2>2
<1>10. Append(front, x) = s
  <2>1. Append(front, x) \in Seq(T) /\ Len(Append(front, x)) = Len(s)
    BY <1>7, <1>8
  <2>2. \A i \in 1 .. Len(s) : Append(front, x)[i] = s[i]
    <3>1. TAKE i \in 1 .. Len(s)
    <3>2. CASE i = Len(s)
      BY <1>6, <1>7, <1>8, <3>2
    <3>3. CASE i # Len(s)
      <4>1. i \in 1 .. Len(front)
        BY <1>7, <1>8, <3>3
      <4>2. QED
        BY <1>8, <4>1
    <3>4. QED
      BY <3>2, <3>3
  <2>3. QED
    BY <1>4, <2>1, <2>2, SeqEqual
<1>11. QED
  BY <1>4, <1>8, <1>9, <1>10 DEF Grows

-----------------------------------------------------------------------------
(* Retain, step by step *)

\* The function Retain is defined with, of any length.
Step(s, S, F, n) ==
    F = [k \in 0 .. n |-> IF k = 0 THEN <<>> ELSE IF s[k] \in S THEN Append(F[k - 1], s[k]) ELSE F[k - 1]]

\* Its values.
LEMMA StepAt ==
    ASSUME NEW s, NEW S, NEW F, NEW n \in Nat, Step(s, S, F, n)
    PROVE  /\ DOMAIN F = 0 .. n /\ F[0] = <<>>
           /\ \A k \in 1 .. n : F[k] = IF s[k] \in S THEN Append(F[k - 1], s[k]) ELSE F[k - 1]
<1>1. DOMAIN F = 0 .. n
  BY Zenon DEF Step
<1>2. \A k \in 0 .. n : F[k] = IF k = 0 THEN <<>> ELSE IF s[k] \in S THEN Append(F[k - 1], s[k]) ELSE F[k - 1]
  BY Zenon DEF Step
<1>3. 0 \in 0 .. n /\ \A k \in 1 .. n : k \in 0 .. n /\ k # 0
  OBVIOUS
<1>4. QED
  BY <1>1, <1>2, <1>3

\* There is one for each length.
LEMMA StepExists ==
    ASSUME NEW s, NEW S, NEW n \in Nat
    PROVE  \E F : Step(s, S, F, n)
<1>1. SUFFICES ASSUME ~ \E F : Step(s, S, F, n) PROVE FALSE
  OBVIOUS
<1> DEFINE Ns == {m \in Nat : ~ \E F : Step(s, S, F, m)}
<1>2. Ns \in SUBSET Nat /\ n \in Ns
  BY <1>1
<1>3. PICK m \in Ns : \A i \in Ns : m <= i
  BY <1>2, LeastNumber
<1>4. m \in Nat /\ ~ \E F : Step(s, S, F, m)
  BY <1>3
<1>5. CASE m = 0
  <2>1. PICK F : F = [k \in 0 .. 0 |-> <<>>]
    OBVIOUS
  <2>2. \A k \in 0 .. 0 : k = 0
    OBVIOUS
  <2>3. Step(s, S, F, 0)
    BY <2>1, <2>2, Zenon DEF Step
  <2>4. QED
    BY <1>4, <1>5, <2>3
<1>6. CASE m # 0
  <2>1. m - 1 \in Nat /\ m - 1 \notin Ns
    BY <1>3, <1>4, <1>6
  <2>2. PICK F : Step(s, S, F, m - 1)
    BY <2>1
  <2>3. /\ DOMAIN F = 0 .. (m - 1) /\ F[0] = <<>>
        /\ \A k \in 1 .. (m - 1) : F[k] = IF s[k] \in S THEN Append(F[k - 1], s[k]) ELSE F[k - 1]
    BY <2>1, <2>2, StepAt
  <2>4. PICK H : H = [k \in 0 .. m |-> IF k # m THEN F[k] ELSE IF s[m] \in S THEN Append(F[m - 1], s[m]) ELSE F[m - 1]]
    OBVIOUS
  <2>5. H[0] = <<>>
    BY <1>4, <1>6, <2>3, <2>4
  <2>6. \A k \in 1 .. m : H[k - 1] = F[k - 1]
    <3>1. \A k \in 1 .. m : k - 1 \in 0 .. m /\ k - 1 # m
      BY <1>4
    <3>2. QED
      BY <2>4, <3>1
  <2>7. \A k \in 1 .. m : H[k] = IF s[k] \in S THEN Append(H[k - 1], s[k]) ELSE H[k - 1]
    <3>1. TAKE k \in 1 .. m
    <3>2. CASE k = m
      <4>1. m \in 0 .. m
        BY <1>4
      <4>2. H[m] = IF s[m] \in S THEN Append(F[m - 1], s[m]) ELSE F[m - 1]
        BY <2>4, <4>1
      <4>3. QED
        BY <2>6, <3>2, <4>2
    <3>3. CASE k # m
      <4>1. k \in 1 .. (m - 1) /\ k \in 0 .. m
        BY <1>4, <3>3
      <4>2. H[k] = F[k]
        BY <2>4, <3>3, <4>1
      <4>3. QED
        BY <2>3, <2>6, <4>1, <4>2
    <3>4. QED
      BY <3>2, <3>3
  <2>8. \A k \in 0 .. m : H[k] = IF k = 0 THEN <<>> ELSE IF s[k] \in S THEN Append(H[k - 1], s[k]) ELSE H[k - 1]
    <3>1. \A k \in 0 .. m : k = 0 \/ k \in 1 .. m
      BY <1>4
    <3>2. QED
      BY <2>5, <2>7, <3>1
  <2>9. H = [k \in 0 .. m |-> H[k]]
    BY <2>4, Zenon
  <2>10. Step(s, S, H, m)
    <3>1. [k \in 0 .. m |-> H[k]]
          = [k \in 0 .. m |-> IF k = 0 THEN <<>> ELSE IF s[k] \in S THEN Append(H[k - 1], s[k]) ELSE H[k - 1]]
      BY <2>8, Zenon
    <3>2. QED
      BY <2>9, <3>1, Zenon DEF Step
  <2>11. QED
    BY <1>4, <2>10
<1>7. QED
  BY <1>5, <1>6

\* Two of them agree as far as their sequences do.
LEMMA StepsAgree ==
    ASSUME NEW s, NEW t, NEW S, NEW F, NEW H, NEW m \in Nat, NEW n \in Nat,
           Step(s, S, F, m), Step(t, S, H, n), NEW k \in Nat, k <= m, k <= n, \A i \in 1 .. k : s[i] = t[i]
    PROVE  F[k] = H[k]
<1>1. SUFFICES ASSUME F[k] # H[k] PROVE FALSE
  OBVIOUS
<1> DEFINE Ks == {i \in 0 .. k : F[i] # H[i]}
<1>2. Ks \in SUBSET Nat /\ k \in Ks
  BY <1>1
<1>3. PICK i \in Ks : \A j \in Ks : i <= j
  BY <1>2, LeastNumber
<1>4. i \in 0 .. k /\ F[i] # H[i]
  BY <1>3
<1>5. /\ F[0] = <<>> /\ H[0] = <<>>
      /\ \A j \in 1 .. m : F[j] = IF s[j] \in S THEN Append(F[j - 1], s[j]) ELSE F[j - 1]
      /\ \A j \in 1 .. n : H[j] = IF t[j] \in S THEN Append(H[j - 1], t[j]) ELSE H[j - 1]
  BY StepAt
<1>6. i # 0
  BY <1>4, <1>5
<1>7. i \in 1 .. m /\ i \in 1 .. n /\ i \in 1 .. k /\ i - 1 \in 0 .. k /\ i - 1 < i
  BY <1>4, <1>6
<1>8. F[i - 1] = H[i - 1]
  <2>1. ~(i <= i - 1)
    BY <1>7
  <2>2. i - 1 \notin Ks
    BY <1>3, <2>1
  <2>3. QED
    BY <1>7, <2>2
<1>9. s[i] = t[i]
  BY <1>7
<1>10. QED
  BY <1>4, <1>5, <1>7, <1>8, <1>9

\* So Retain is the last value of any of them.
LEMMA RetainIs ==
    ASSUME NEW s, NEW S, Len(s) \in Nat, NEW F, Step(s, S, F, Len(s))
    PROVE  Retain(s, S) = F[Len(s)]
<1> DEFINE C == CHOOSE H : Step(s, S, H, Len(s))
<1>1. Step(s, S, C, Len(s))
  BY Zenon
<1>2. Retain(s, S) = C[Len(s)]
  BY Zenon DEF Retain, Step
<1>3. PICK H : H = C
  OBVIOUS
<1>4. Step(s, S, H, Len(s)) /\ Len(s) <= Len(s)
  BY <1>1, <1>3
<1>5. F[Len(s)] = H[Len(s)]
  BY <1>4, StepsAgree
<1>6. QED
  BY <1>2, <1>3, <1>5

\* What Retain does with the empty sequence.
LEMMA RetainEmpty ==
    ASSUME NEW S
    PROVE  Retain(<<>>, S) = <<>>
<1>1. Len(<<>>) = 0 /\ 0 \in Nat
  OBVIOUS
<1>2. PICK s : s = <<>>
  OBVIOUS
<1>3. Len(s) = 0 /\ Len(s) \in Nat
  BY <1>1, <1>2
<1>4. PICK F : Step(s, S, F, 0)
  BY <1>1, StepExists
<1>5. F[0] = <<>>
  BY <1>1, <1>4, StepAt
<1>6. Step(s, S, F, Len(s))
  BY <1>3, <1>4
<1>7. Retain(s, S) = F[Len(s)]
  BY <1>3, <1>6, RetainIs
<1>8. QED
  BY <1>2, <1>3, <1>5, <1>7

\* What Retain does with one more entry.
LEMMA RetainAppend ==
    ASSUME NEW T, NEW s \in Seq(T), NEW x \in T, NEW S
    PROVE  Retain(Append(s, x), S) = IF x \in S THEN Append(Retain(s, S), x) ELSE Retain(s, S)
<1>1. PICK t, n : t = Append(s, x) /\ n = Len(s)
  OBVIOUS
<1>2. /\ n \in Nat /\ Len(t) = n + 1 /\ n + 1 \in Nat /\ t[n + 1] = x
      /\ \A i \in 1 .. n : s[i] = t[i]
  BY <1>1
<1>3. PICK F : Step(t, S, F, n + 1)
  BY <1>2, StepExists
<1>4. PICK H : Step(s, S, H, n)
  BY <1>2, StepExists
<1>5. n <= n /\ n <= n + 1 /\ n + 1 \in 1 .. (n + 1) /\ n + 1 - 1 = n
  BY <1>2
<1>6. H[n] = F[n]
  BY <1>2, <1>3, <1>4, <1>5, StepsAgree
<1>7. F[n + 1] = IF x \in S THEN Append(F[n], x) ELSE F[n]
  <2>1. \A k \in 1 .. (n + 1) : F[k] = IF t[k] \in S THEN Append(F[k - 1], t[k]) ELSE F[k - 1]
    BY <1>2, <1>3, StepAt
  <2>2. QED
    BY <1>2, <1>5, <2>1
<1>8. Retain(s, S) = H[n]
  BY <1>1, <1>2, <1>4, RetainIs
<1>9. Retain(t, S) = F[n + 1]
  <2>1. Step(t, S, F, Len(t)) /\ Len(t) \in Nat
    BY <1>2, <1>3
  <2>2. Retain(t, S) = F[Len(t)]
    BY <2>1, RetainIs
  <2>3. QED
    BY <1>2, <2>2
<1>10. QED
  BY <1>1, <1>6, <1>7, <1>8, <1>9

-----------------------------------------------------------------------------
(* Retain, over all sequences *)

\* The elements of a sequence with one more entry.
LEMMA AppendedSet ==
    ASSUME NEW T, NEW s \in Seq(T), NEW x \in T
    PROVE  Append(s, x) \in Seq(T) /\ ToSet(Append(s, x)) = ToSet(s) \cup {x}
<1>1. PICK t, n : t = Append(s, x) /\ n = Len(s)
  OBVIOUS
<1>2. /\ n \in Nat /\ DOMAIN s = 1 .. n /\ t \in Seq(T) /\ DOMAIN t = 1 .. (n + 1) /\ t[n + 1] = x
      /\ \A i \in 1 .. n : t[i] = s[i]
  BY <1>1
<1>3. \A i \in 1 .. (n + 1) : i \in 1 .. n \/ i = n + 1
  BY <1>2
<1>4. n + 1 \in 1 .. (n + 1) /\ \A i \in 1 .. n : i \in 1 .. (n + 1)
  BY <1>2
<1>5. {t[i] : i \in 1 .. (n + 1)} = {s[i] : i \in 1 .. n} \cup {x}
  BY <1>2, <1>3, <1>4
<1>6. QED
  BY <1>1, <1>2, <1>5 DEF ToSet

\* A concatenation with one more entry.
LEMMA AppendLast ==
    ASSUME NEW T, NEW s \in Seq(T), NEW t \in Seq(T), NEW x \in T
    PROVE  s \o Append(t, x) = Append(s \o t, x)
<1>1. PICK a, b : a = s \o Append(t, x) /\ b = Append(s \o t, x)
  OBVIOUS
<1>0. Len(s) \in Nat /\ Len(t) \in Nat
  BY LenProperties
<1>2. PICK m \in Nat, n \in Nat : m = Len(s) /\ n = Len(t)
  BY <1>0
<1>3. PICK u : u = Append(t, x)
  OBVIOUS
<1>4. u \in Seq(T) /\ Len(u) = n + 1 /\ u[n + 1] = x /\ \A i \in 1 .. n : u[i] = t[i]
  BY <1>2, <1>3
<1>5. PICK v : v = s \o t
  OBVIOUS
<1>6. v \in Seq(T) /\ Len(v) = m + n /\ \A i \in 1 .. (m + n) : v[i] = IF i <= m THEN s[i] ELSE t[i - m]
  BY <1>2, <1>5, ConcatProperties
<1>7. /\ a \in Seq(T) /\ Len(a) = m + (n + 1)
      /\ \A i \in 1 .. (m + (n + 1)) : a[i] = IF i <= m THEN s[i] ELSE u[i - m]
  <2>1. Len(s) = m /\ Len(u) = n + 1
    BY <1>2, <1>4
  <2>2. /\ s \o u \in Seq(T) /\ Len(s \o u) = Len(s) + Len(u)
        /\ \A i \in 1 .. (Len(s) + Len(u)) : (s \o u)[i] = IF i <= Len(s) THEN s[i] ELSE u[i - Len(s)]
    BY <1>4, ConcatProperties
  <2>3. a = s \o u
    BY <1>1, <1>3
  <2>4. QED
    BY <2>1, <2>2, <2>3, Zenon
<1>8. b \in Seq(T) /\ Len(b) = m + n + 1 /\ b[m + n + 1] = x /\ \A i \in 1 .. (m + n) : b[i] = v[i]
  BY <1>1, <1>2, <1>5, <1>6
<1>9. \A i \in 1 .. Len(a) : a[i] = b[i]
  <2>1. TAKE i \in 1 .. Len(a)
  <2>0. i \in 1 .. (m + (n + 1)) /\ m \in Nat /\ n \in Nat
    BY <1>2, <1>7, <2>1
  <2>2. i \in 1 .. (m + n) \/ i = m + n + 1
    BY <2>0
  <2>3. CASE i \in 1 .. (m + n)
    <3>1. a[i] = IF i <= m THEN s[i] ELSE u[i - m]
      BY <1>7, <2>1
    <3>2. ~(i <= m) => i - m \in 1 .. n
      BY <1>2, <2>3
    <3>3. QED
      BY <1>4, <1>6, <1>8, <2>3, <3>1, <3>2
  <2>4. CASE i = m + n + 1
    <3>1. a[i] = IF i <= m THEN s[i] ELSE u[i - m]
      BY <1>7, <2>1
    <3>2. ~(i <= m) /\ i - m = n + 1
      BY <1>2, <2>4
    <3>3. QED
      BY <1>4, <1>8, <2>4, <3>1, <3>2
  <2>5. QED
    BY <2>2, <2>3, <2>4
<1>10. Len(a) = Len(b)
  BY <1>2, <1>7, <1>8
<1>11. a = b
  BY <1>7, <1>8, <1>9, <1>10, SeqEqual
<1>12. QED
  BY <1>1, <1>11

\* What Retain keeps: entries of the sequence, those in S.
LEMMA RetainSeq ==
    ASSUME NEW T, NEW s \in Seq(T), NEW S
    PROVE  Retain(s, S) \in Seq(T) /\ ToSet(Retain(s, S)) = ToSet(s) \cap S
<1> DEFINE G == {t \in Seq(T) : Retain(t, S) \in Seq(T) /\ ToSet(Retain(t, S)) = ToSet(t) \cap S}
<1>1. <<>> \in G
  <2>1. ToSet(<<>>) = {}
    BY DEF ToSet
  <2>2. Retain(<<>>, S) = <<>>
    BY RetainEmpty
  <2>3. <<>> \in Seq(T)
    BY EmptySeq
  <2>4. Retain(<<>>, S) \in Seq(T) /\ ToSet(Retain(<<>>, S)) = ToSet(<<>>) \cap S
    BY <2>1, <2>2, <2>3, Zenon
  <2>5. QED
    BY <2>3, <2>4
<1>2. ASSUME NEW t \in G, NEW x \in T PROVE Append(t, x) \in G
  <2>1. t \in Seq(T) /\ Retain(t, S) \in Seq(T) /\ ToSet(Retain(t, S)) = ToSet(t) \cap S
    BY <1>2
  <2>2. \A u \in Seq(T) : Append(u, x) \in Seq(T) /\ ToSet(Append(u, x)) = ToSet(u) \cup {x}
    BY AppendedSet
  <2>3. Retain(Append(t, x), S) = IF x \in S THEN Append(Retain(t, S), x) ELSE Retain(t, S)
    BY <2>1, RetainAppend
  <2>4. CASE x \in S
    <3>1. Retain(Append(t, x), S) = Append(Retain(t, S), x)
      BY <2>3, <2>4
    <3>2. ToSet(Append(Retain(t, S), x)) = (ToSet(t) \cap S) \cup {x}
      BY <2>1, <2>2
    <3>3. ToSet(Append(t, x)) \cap S = (ToSet(t) \cap S) \cup {x}
      BY <2>1, <2>2, <2>4
    <3>4. QED
      BY <2>1, <2>2, <3>1, <3>2, <3>3
  <2>5. CASE x \notin S
    <3>1. Retain(Append(t, x), S) = Retain(t, S)
      BY <2>3, <2>5
    <3>2. ToSet(Append(t, x)) \cap S = ToSet(t) \cap S
      BY <2>1, <2>2, <2>5
    <3>3. QED
      BY <2>1, <2>2, <3>1, <3>2
  <2>6. QED
    BY <2>4, <2>5
<1>3. Grows(G, T) /\ G \in SUBSET Seq(T)
  BY <1>1, <1>2 DEF Grows
<1>4. G = Seq(T)
  BY <1>3, SequencesGrow
<1>5. QED
  BY <1>4

\* Only the entries that are in the sequence matter.
LEMMA RetainSame ==
    ASSUME NEW T, NEW s \in Seq(T), NEW S, NEW R, S \cap ToSet(s) = R \cap ToSet(s)
    PROVE  Retain(s, S) = Retain(s, R)
<1> DEFINE G == {t \in Seq(T) : S \cap ToSet(t) = R \cap ToSet(t) => Retain(t, S) = Retain(t, R)}
<1>1. <<>> \in G
  BY RetainEmpty
<1>2. ASSUME NEW t \in G, NEW x \in T PROVE Append(t, x) \in G
  <2>1. t \in Seq(T) /\ Append(t, x) \in Seq(T) /\ ToSet(Append(t, x)) = ToSet(t) \cup {x}
    BY <1>2, AppendedSet
  <2>2. SUFFICES ASSUME S \cap ToSet(Append(t, x)) = R \cap ToSet(Append(t, x))
                 PROVE  Retain(Append(t, x), S) = Retain(Append(t, x), R)
    BY <2>1
  <2>3. S \cap ToSet(t) = R \cap ToSet(t) /\ (x \in S <=> x \in R)
    BY <2>1, <2>2
  <2>4. Retain(t, S) = Retain(t, R)
    BY <1>2, <2>3
  <2>5. /\ Retain(Append(t, x), S) = IF x \in S THEN Append(Retain(t, S), x) ELSE Retain(t, S)
        /\ Retain(Append(t, x), R) = IF x \in R THEN Append(Retain(t, R), x) ELSE Retain(t, R)
    BY <2>1, RetainAppend
  <2>6. QED
    BY <2>3, <2>4, <2>5
<1>3. Grows(G, T) /\ G \in SUBSET Seq(T)
  BY <1>1, <1>2 DEF Grows
<1>4. G = Seq(T)
  BY <1>3, SequencesGrow
<1>5. QED
  BY <1>4

\* All or nothing.
LEMMA RetainAll ==
    ASSUME NEW T, NEW s \in Seq(T), NEW S
    PROVE  /\ ToSet(s) \subseteq S => Retain(s, S) = s
           /\ ToSet(s) \cap S = {} => Retain(s, S) = <<>>
<1> DEFINE G == {t \in Seq(T) : /\ ToSet(t) \subseteq S => Retain(t, S) = t
                                /\ ToSet(t) \cap S = {} => Retain(t, S) = <<>>}
<1>1. <<>> \in G
  BY RetainEmpty
<1>2. ASSUME NEW t \in G, NEW x \in T PROVE Append(t, x) \in G
  <2>1. t \in Seq(T) /\ Append(t, x) \in Seq(T) /\ ToSet(Append(t, x)) = ToSet(t) \cup {x}
    BY <1>2, AppendedSet
  <2>2. Retain(Append(t, x), S) = IF x \in S THEN Append(Retain(t, S), x) ELSE Retain(t, S)
    BY <2>1, RetainAppend
  <2>3. /\ ToSet(t) \subseteq S => Retain(t, S) = t
        /\ ToSet(t) \cap S = {} => Retain(t, S) = <<>>
    BY <1>2
  <2>4. ToSet(Append(t, x)) \subseteq S => Retain(Append(t, x), S) = Append(t, x)
    BY <2>1, <2>2, <2>3
  <2>5. ToSet(Append(t, x)) \cap S = {} => Retain(Append(t, x), S) = <<>>
    BY <2>1, <2>2, <2>3
  <2>6. QED
    BY <2>1, <2>4, <2>5
<1>3. Grows(G, T) /\ G \in SUBSET Seq(T)
  BY <1>1, <1>2 DEF Grows
<1>4. G = Seq(T)
  BY <1>3, SequencesGrow
<1>5. QED
  BY <1>4

\* Retain goes into a concatenation.
LEMMA RetainConcat ==
    ASSUME NEW T, NEW s \in Seq(T), NEW t \in Seq(T), NEW S
    PROVE  Retain(s \o t, S) = Retain(s, S) \o Retain(t, S)
<1> DEFINE G == {u \in Seq(T) : Retain(s \o u, S) = Retain(s, S) \o Retain(u, S)}
<1>0. Retain(s, S) \in Seq(T)
  BY RetainSeq
<1>1. <<>> \in G
  <2>1. s \o <<>> = s /\ Retain(s, S) \o <<>> = Retain(s, S)
    BY <1>0, ConcatEmptySeq
  <2>2. Retain(s \o <<>>, S) = Retain(s, S) \o Retain(<<>>, S)
    BY <2>1, RetainEmpty, Zenon
  <2>3. QED
    BY <2>2, EmptySeq
<1>2. ASSUME NEW u \in G, NEW x \in T PROVE Append(u, x) \in G
  <2>1. u \in Seq(T) /\ Append(u, x) \in Seq(T) /\ s \o u \in Seq(T) /\ Retain(u, S) \in Seq(T)
    BY <1>2, RetainSeq
  <2>2. s \o Append(u, x) = Append(s \o u, x)
    BY <2>1, AppendLast
  <2>3. Retain(s, S) \o Append(Retain(u, S), x) = Append(Retain(s, S) \o Retain(u, S), x)
    BY <1>0, <2>1, AppendLast
  <2>4. /\ Retain(Append(u, x), S) = IF x \in S THEN Append(Retain(u, S), x) ELSE Retain(u, S)
        /\ Retain(Append(s \o u, x), S) = IF x \in S THEN Append(Retain(s \o u, S), x) ELSE Retain(s \o u, S)
    <3>1. Retain(Append(u, x), S) = IF x \in S THEN Append(Retain(u, S), x) ELSE Retain(u, S)
      BY <2>1, RetainAppend
    <3>2. PICK v \in Seq(T) : v = s \o u
      BY <2>1
    <3>3. Retain(Append(v, x), S) = IF x \in S THEN Append(Retain(v, S), x) ELSE Retain(v, S)
      BY RetainAppend
    <3>4. QED
      BY <3>1, <3>2, <3>3, Zenon
  <2>5. Retain(s \o u, S) = Retain(s, S) \o Retain(u, S)
    BY <1>2
  <2>6. Retain(s \o Append(u, x), S) = Retain(s, S) \o Retain(Append(u, x), S)
    BY <2>2, <2>3, <2>4, <2>5, Zenon
  <2>7. QED
    BY <2>1, <2>6
<1>3. Grows(G, T) /\ G \in SUBSET Seq(T)
  BY <1>1, <1>2 DEF Grows
<1>4. G = Seq(T)
  BY <1>3, SequencesGrow
<1>5. QED
  BY <1>4

\* One after the other.
LEMMA RetainTwice ==
    ASSUME NEW T, NEW s \in Seq(T), NEW S, NEW R
    PROVE  Retain(Retain(s, R), S) = Retain(s, R \cap S)
<1> DEFINE G == {t \in Seq(T) : Retain(Retain(t, R), S) = Retain(t, R \cap S)}
<1>1. <<>> \in G
  BY RetainEmpty
<1>2. ASSUME NEW t \in G, NEW x \in T PROVE Append(t, x) \in G
  <2>1. t \in Seq(T) /\ Append(t, x) \in Seq(T) /\ Retain(t, R) \in Seq(T)
    BY <1>2, RetainSeq
  <2>2. /\ Retain(Append(t, x), R) = IF x \in R THEN Append(Retain(t, R), x) ELSE Retain(t, R)
        /\ Retain(Append(t, x), R \cap S) = IF x \in R \cap S THEN Append(Retain(t, R \cap S), x) ELSE Retain(t, R \cap S)
        /\ Retain(Append(Retain(t, R), x), S)
             = IF x \in S THEN Append(Retain(Retain(t, R), S), x) ELSE Retain(Retain(t, R), S)
    <3>1. Retain(Append(t, x), R) = IF x \in R THEN Append(Retain(t, R), x) ELSE Retain(t, R)
      BY <2>1, RetainAppend
    <3>2. PICK B : B = R \cap S
      OBVIOUS
    <3>3. Retain(Append(t, x), B) = IF x \in B THEN Append(Retain(t, B), x) ELSE Retain(t, B)
      BY <2>1, RetainAppend
    <3>4. PICK v \in Seq(T) : v = Retain(t, R)
      BY <2>1
    <3>5. Retain(Append(v, x), S) = IF x \in S THEN Append(Retain(v, S), x) ELSE Retain(v, S)
      BY RetainAppend
    <3>6. QED
      BY <3>1, <3>2, <3>3, <3>4, <3>5, Zenon
  <2>3. Retain(Retain(t, R), S) = Retain(t, R \cap S)
    BY <1>2
  <2>4. Retain(Retain(Append(t, x), R), S) = Retain(Append(t, x), R \cap S)
    <3>1. CASE x \in R
      <4>1. x \in R \cap S <=> x \in S
        BY <3>1
      <4>2. QED
        BY <2>2, <2>3, <3>1, <4>1, Zenon
    <3>2. CASE x \notin R
      BY <2>2, <2>3, <3>2, Zenon
    <3>3. QED
      BY <3>1, <3>2
  <2>5. QED
    BY <2>1, <2>4
<1>3. Grows(G, T) /\ G \in SUBSET Seq(T)
  BY <1>1, <1>2 DEF Grows
<1>4. G = Seq(T)
  BY <1>3, SequencesGrow
<1>5. QED
  BY <1>4

-----------------------------------------------------------------------------
(* The catalog: lists of rows and of names *)

\* A sequence of whatever is a sequence of its own elements.
LEMMA SeqOfItsOwn ==
    ASSUME NEW T, NEW s \in Seq(T)
    PROVE  IsSeq(s) /\ ToSet(s) \subseteq T
<1>1. Len(s) \in Nat /\ DOMAIN s = 1 .. Len(s) /\ s = [i \in 1 .. Len(s) |-> s[i]] /\ \A i \in 1 .. Len(s) : s[i] \in T
  OBVIOUS
<1>2. PICK R : R = ToSet(s)
  OBVIOUS
<1>3. \A i \in 1 .. Len(s) : s[i] \in R
  BY <1>1, <1>2 DEF ToSet
<1>4. s \in Seq(R)
  BY <1>1, <1>3
<1>5. QED
  BY <1>1, <1>2, <1>4 DEF IsSeq, ToSet

\* What a sequence contains.
LEMMA ContainsIsIn ==
    ASSUME NEW s, IsSeq(s), NEW e
    PROVE  Contains(s, e) <=> e \in ToSet(s)
<1>1. PICK T : s \in Seq(T)
  BY DEF IsSeq
<1>2. DOMAIN s = 1 .. Len(s)
  BY <1>1
<1>3. QED
  BY <1>2 DEF Contains, ToSet

\* Concatenation, without naming the set of elements.
LEMMA Joined ==
    ASSUME NEW s, IsSeq(s), NEW t, IsSeq(t)
    PROVE  IsSeq(s \o t) /\ ToSet(s \o t) = ToSet(s) \cup ToSet(t)
<1>1. PICK A, B, T : A = ToSet(s) /\ B = ToSet(t) /\ T = A \cup B
  OBVIOUS
<1>2. s \in Seq(T) /\ t \in Seq(T)
  <2>1. s \in Seq(A) /\ t \in Seq(B) /\ A \subseteq T /\ B \subseteq T
    BY <1>1 DEF IsSeq
  <2>2. QED
    BY <2>1, SeqMonotonic
<1>3. PICK u, m, n : u = s \o t /\ m = Len(s) /\ n = Len(t)
  OBVIOUS
<1>4. /\ m \in Nat /\ n \in Nat /\ u \in Seq(T) /\ DOMAIN u = 1 .. (m + n) /\ DOMAIN s = 1 .. m /\ DOMAIN t = 1 .. n
      /\ \A i \in 1 .. (m + n) : u[i] = IF i <= m THEN s[i] ELSE t[i - m]
  <2>1. m \in Nat /\ n \in Nat /\ DOMAIN s = 1 .. m /\ DOMAIN t = 1 .. n
    BY <1>2, <1>3, LenProperties
  <2>2. /\ s \o t \in Seq(T) /\ Len(s \o t) = Len(s) + Len(t)
        /\ \A i \in 1 .. (Len(s) + Len(t)) : (s \o t)[i] = IF i <= Len(s) THEN s[i] ELSE t[i - Len(s)]
    BY <1>2, ConcatProperties
  <2>3. u \in Seq(T) /\ Len(u) = m + n /\ \A i \in 1 .. (m + n) : u[i] = IF i <= m THEN s[i] ELSE t[i - m]
    BY <1>3, <2>2, Zenon
  <2>4. DOMAIN u = 1 .. (m + n)
    BY <2>3
  <2>5. QED
    BY <2>1, <2>3, <2>4
<1>5. (\A i \in 1 .. m : s[i] \in A) /\ (\A i \in 1 .. n : t[i] \in B)
  BY <1>1, <1>4 DEF ToSet
<1>6. ToSet(u) \subseteq A \cup B
  <2>1. \A i \in 1 .. (m + n) : i \in 1 .. m \/ (~(i <= m) /\ i - m \in 1 .. n)
    BY <1>4
  <2>2. \A i \in 1 .. (m + n) : u[i] \in A \cup B
    <3>1. TAKE i \in 1 .. (m + n)
    <3>2. CASE i \in 1 .. m
      <4>1. i <= m
        BY <1>4, <3>2
      <4>2. u[i] = s[i]
        BY <1>4, <4>1
      <4>3. QED
        BY <1>5, <3>2, <4>2
    <3>3. CASE ~(i <= m) /\ i - m \in 1 .. n
      <4>1. u[i] = t[i - m]
        BY <1>4, <3>3
      <4>2. QED
        BY <1>5, <3>3, <4>1
    <3>4. QED
      BY <2>1, <3>2, <3>3
  <2>3. QED
    BY <1>4, <2>2 DEF ToSet
<1>7. A \cup B \subseteq ToSet(u)
  <2>1. \A i \in 1 .. m : i \in 1 .. (m + n) /\ i <= m
    BY <1>4
  <2>2. \A i \in 1 .. n : i + m \in 1 .. (m + n) /\ ~(i + m <= m) /\ i + m - m = i
    BY <1>4
  <2>3. \A i \in 1 .. m : s[i] = u[i] /\ i \in DOMAIN u
    BY <1>4, <2>1
  <2>4. \A i \in 1 .. n : t[i] = u[i + m] /\ i + m \in DOMAIN u
    BY <1>4, <2>2
  <2>5. A = {s[i] : i \in 1 .. m} /\ B = {t[i] : i \in 1 .. n}
    BY <1>1, <1>4 DEF ToSet
  <2>6. \A x \in A : x \in ToSet(u)
    BY <2>3, <2>5 DEF ToSet
  <2>7. \A x \in B : x \in ToSet(u)
    BY <2>4, <2>5 DEF ToSet
  <2>8. QED
    BY <2>6, <2>7
<1>8. IsSeq(u)
  BY <1>4, SeqOfItsOwn
<1>9. QED
  BY <1>1, <1>3, <1>6, <1>7, <1>8

\* Filtering, likewise.
LEMMA Retained ==
    ASSUME NEW s, IsSeq(s), NEW S
    PROVE  IsSeq(Retain(s, S)) /\ ToSet(Retain(s, S)) = ToSet(s) \cap S
<1>1. PICK T : s \in Seq(T)
  BY DEF IsSeq
<1>2. Retain(s, S) \in Seq(T) /\ ToSet(Retain(s, S)) = ToSet(s) \cap S
  BY <1>1, RetainSeq
<1>3. QED
  BY <1>2, SeqOfItsOwn

\* The rows that show the columns of a table are its rows only.
LEMMA ColumnRowsAre ==
    ASSUME NEW tid, NEW columns, IsSeq(columns)
    PROVE  IsSeq(ColumnRows(tid, columns)) /\ \A row \in ToSet(ColumnRows(tid, columns)) : row[1] = tid
<1>1. PICK n \in Nat : n = Len(columns)
  BY LenProperties DEF IsSeq
<1>2. PICK rows : rows = ColumnRows(tid, columns)
  OBVIOUS
<1>3. rows = [k \in 1 .. n |-> <<tid, columns[k].name>>]
  BY <1>1, <1>2 DEF ColumnRows
<1>4. DOMAIN rows = 1 .. n /\ \A k \in 1 .. n : rows[k] = <<tid, columns[k].name>>
  BY <1>3
<1>5. PICK T : T = {rows[k] : k \in 1 .. n}
  OBVIOUS
<1>6. \A k \in 1 .. n : rows[k] \in T
  BY <1>5
<1>7. rows \in Seq(T)
  <2>1. rows = [k \in 1 .. n |-> rows[k]]
    BY <1>3, <1>4
  <2>2. rows \in [1 .. n -> T]
    BY <1>6, <2>1
  <2>3. QED
    BY <2>2
<1>8. \A k \in 1 .. n : rows[k][1] = tid
  BY <1>4
<1>9. \A row \in ToSet(rows) : row[1] = tid
  BY <1>4, <1>8 DEF ToSet
<1>10. QED
  BY <1>2, <1>7, <1>9, SeqOfItsOwn

\* The rows for a table among the rows of two lists, one after the other.
LEMMA RowsOfJoined ==
    ASSUME NEW s, IsSeq(s), NEW t, IsSeq(t), NEW tid
    PROVE  RowsOf(s \o t, tid) = RowsOf(s, tid) \o RowsOf(t, tid)
<1>1. PICK u, A, B, T : u = s \o t /\ A = ToSet(s) /\ B = ToSet(t) /\ T = A \cup B
  OBVIOUS
<1>2. s \in Seq(T) /\ t \in Seq(T) /\ u \in Seq(T) /\ ToSet(u) = T
  <2>1. s \in Seq(A) /\ t \in Seq(B) /\ A \subseteq T /\ B \subseteq T
    BY <1>1 DEF IsSeq
  <2>2. s \in Seq(T) /\ t \in Seq(T)
    BY <2>1, SeqMonotonic
  <2>3. ToSet(u) = T
    BY <1>1, Joined
  <2>4. u \in Seq(T)
    BY <1>1, <2>2, ConcatProperties
  <2>5. QED
    BY <2>2, <2>3, <2>4
<1>3. PICK M, MA, MB : /\ M = {row \in T : row[1] = tid}
                       /\ MA = {row \in A : row[1] = tid} /\ MB = {row \in B : row[1] = tid}
  OBVIOUS
<1>4. M \cap A = MA \cap A /\ M \cap B = MB \cap B
  BY <1>1, <1>3
<1>5. Retain(u, M) = Retain(s, M) \o Retain(t, M)
  BY <1>1, <1>2, RetainConcat
<1>6. Retain(s, M) = Retain(s, MA)
  <2>1. M \cap ToSet(s) = MA \cap ToSet(s)
    BY <1>1, <1>4
  <2>2. QED
    BY <1>2, <2>1, RetainSame
<1>7. Retain(t, M) = Retain(t, MB)
  <2>1. M \cap ToSet(t) = MB \cap ToSet(t)
    BY <1>1, <1>4
  <2>2. QED
    BY <1>2, <2>1, RetainSame
<1>8. RowsOf(u, tid) = Retain(u, M) /\ RowsOf(s, tid) = Retain(s, MA) /\ RowsOf(t, tid) = Retain(t, MB)
  BY <1>1, <1>2, <1>3, Zenon DEF RowsOf
<1>9. RowsOf(u, tid) = RowsOf(s, tid) \o RowsOf(t, tid)
  BY <1>5, <1>6, <1>7, <1>8, Zenon
<1>10. QED
  BY <1>1, <1>9

\* Rows that are all for the table, or all for others.
LEMMA RowsOfOwn ==
    ASSUME NEW s, IsSeq(s), NEW tid
    PROVE  /\ (\A row \in ToSet(s) : row[1] = tid) => RowsOf(s, tid) = s
           /\ (\A row \in ToSet(s) : row[1] # tid) => RowsOf(s, tid) = <<>>
<1>1. PICK T, M : T = ToSet(s) /\ M = {row \in T : row[1] = tid}
  OBVIOUS
<1>2. s \in Seq(T)
  BY <1>1 DEF IsSeq
<1>3. /\ ToSet(s) \subseteq M => Retain(s, M) = s
      /\ ToSet(s) \cap M = {} => Retain(s, M) = <<>>
  BY <1>2, RetainAll
<1>4. RowsOf(s, tid) = Retain(s, M)
  BY <1>1, Zenon DEF RowsOf
<1>5. (\A row \in ToSet(s) : row[1] = tid) => ToSet(s) \subseteq M
  BY <1>1
<1>6. (\A row \in ToSet(s) : row[1] # tid) => ToSet(s) \cap M = {}
  BY <1>1
<1>7. QED
  BY <1>3, <1>4, <1>5, <1>6

\* Taking out the rows for one table leaves those for another.
LEMMA RowsOfOthers ==
    ASSUME NEW s, IsSeq(s), NEW tid, NEW other, other # tid
    PROVE  RowsOf(Retain(s, {row \in ToSet(s) : row[1] # tid}), other) = RowsOf(s, other)
<1>1. PICK T, R, M, u : /\ T = ToSet(s) /\ R = {row \in T : row[1] # tid} /\ M = {row \in T : row[1] = other}
                        /\ u = Retain(s, R)
  OBVIOUS
<1>2. s \in Seq(T)
  BY <1>1 DEF IsSeq
<1>3. u \in Seq(T) /\ ToSet(u) = T \cap R
  BY <1>1, <1>2, RetainSeq
<1>4. PICK N : N = {row \in ToSet(u) : row[1] = other}
  OBVIOUS
<1>5. N = M /\ M = R \cap M
  BY <1>1, <1>3, <1>4
<1>6. Retain(u, M) = Retain(s, R \cap M)
  BY <1>1, <1>2, RetainTwice
<1>7. RowsOf(u, other) = Retain(u, N) /\ RowsOf(s, other) = Retain(s, M)
  BY <1>1, <1>4, Zenon DEF RowsOf
<1>8. RowsOf(u, other) = RowsOf(s, other)
  BY <1>5, <1>6, <1>7, Zenon
<1>9. QED
  BY <1>1, <1>8

-----------------------------------------------------------------------------
(* The catalog: its operations *)

\* A map with an entry more, or less.
IsPut(new, map, key, value) ==
    /\ DOMAIN new = DOMAIN map \cup {key} /\ new[key] = value
    /\ \A n \in DOMAIN map : n # key => new[n] = map[n]
IsWithout(new, map, key) ==
    DOMAIN new = DOMAIN map \ {key} /\ \A n \in DOMAIN map : n # key => new[n] = map[n]

\* That is what Put and Without do.
LEMMA PutIs ==
    ASSUME NEW map, NEW key, NEW value
    PROVE  IsPut(Put(map, key, value), map, key, value) /\ IsWithout(Without(map, key), map, key)
<1>1. PICK keys, new : keys = DOMAIN map \cup {key} /\ new = Put(map, key, value)
  OBVIOUS
<1>2. new = [n \in keys |-> IF n = key THEN value ELSE map[n]]
  BY <1>1, Zenon DEF Put
<1>3. IsPut(new, map, key, value)
  BY <1>1, <1>2 DEF IsPut
<1>4. IsWithout(Without(map, key), map, key)
  BY DEF IsWithout, Without
<1>5. QED
  BY <1>1, <1>3, <1>4

\* The maps of the empty catalog have nothing in them to disagree on.
LEMMA EmptyIsConsistent == Consistent(EmptyCatalog)
<1>1. PICK cat : cat = EmptyCatalog
  OBVIOUS
<1>2. /\ cat.tables = EmptyMap /\ cat.indexes = EmptyMap /\ cat.listed = EmptyMap
      /\ cat.nextTable = 1 /\ cat.pgColumn = <<>>
  BY <1>1 DEF EmptyCatalog
<1>3. DOMAIN cat.tables = {} /\ DOMAIN cat.indexes = {} /\ DOMAIN cat.listed = {}
  BY <1>2 DEF EmptyMap
<1>4. IsSeq(cat.pgColumn) /\ ToSet(cat.pgColumn) = {}
  BY <1>2 DEF IsSeq, ToSet
<1>5. IndexesListed(cat) /\ ColumnsShown(cat)
  BY <1>3 DEF IndexesListed, ColumnsShown
<1>6. QED
  BY <1>1, <1>2, <1>3, <1>4, <1>5 DEF Consistent

\* A table is entered under an id that no table and no row has.
LEMMA AddTableConsistent ==
    ASSUME NEW cat, Consistent(cat), NEW name, NEW columns, IsSeq(columns)
    PROVE  Consistent(AddTable(cat, name, columns))
<1>1. PICK new, tid, rows, def : /\ new = AddTable(cat, name, columns) /\ tid = cat.nextTable
                                 /\ rows = ColumnRows(tid, columns) /\ def = [id |-> tid, columns |-> columns]
  OBVIOUS
<1>2. DOMAIN cat = DOMAIN EmptyCatalog /\ tid \in Nat
  BY <1>1 DEF Consistent
<1>3. /\ DOMAIN new = DOMAIN EmptyCatalog /\ new.nextTable = tid + 1
      /\ new.tables = Put(cat.tables, name, def) /\ new.pgColumn = cat.pgColumn \o rows
      /\ new.indexes = cat.indexes /\ new.listed = cat.listed
  BY <1>1, <1>2 DEF AddTable, EmptyCatalog
<1>4. DOMAIN def = {"id", "columns"} /\ def.id = tid /\ def.columns = columns
  BY <1>1
<1>5. IsSeq(rows) /\ \A row \in ToSet(rows) : row[1] = tid
  BY <1>1, ColumnRowsAre
<1>6. Given(cat) \subseteq Given(new) /\ tid \in Given(new) /\ tid \notin Given(cat)
  BY <1>1, <1>2, <1>3 DEF Given
<1>7. IsSeq(cat.pgColumn) /\ \A row \in ToSet(cat.pgColumn) : row[1] \in Given(cat)
  BY DEF Consistent
<1>8. IsSeq(new.pgColumn) /\ ToSet(new.pgColumn) = ToSet(cat.pgColumn) \cup ToSet(rows)
  BY <1>3, <1>5, <1>7, Joined
<1>9. \A row \in ToSet(new.pgColumn) : row[1] \in Given(new)
  BY <1>5, <1>6, <1>7, <1>8
<1>10. /\ DOMAIN new.tables = DOMAIN cat.tables \cup {name} /\ new.tables[name] = def
       /\ \A t \in DOMAIN cat.tables : t # name => new.tables[t] = cat.tables[t]
  <2>1. IsPut(new.tables, cat.tables, name, def)
    BY <1>3, PutIs
  <2>2. QED
    BY <2>1 DEF IsPut
<1>11. \A t \in DOMAIN new.tables :
           /\ DOMAIN new.tables[t] = {"id", "columns"}
           /\ new.tables[t].id \in Given(new) /\ IsSeq(new.tables[t].columns)
  BY <1>4, <1>6, <1>10 DEF Consistent
<1>12. \A t, u \in DOMAIN new.tables : new.tables[t].id = new.tables[u].id => t = u
  <2>1. \A t \in DOMAIN new.tables : t # name => new.tables[t].id \in Given(cat)
    BY <1>10 DEF Consistent
  <2>2. QED
    BY <1>4, <1>6, <1>10, <2>1 DEF Consistent
<1>13. IndexesListed(new) /\ \A x \in DOMAIN new.listed : IsSeq(new.listed[x])
  BY <1>3 DEF Consistent, IndexesListed
<1>14. RowsOf(cat.pgColumn, tid) = <<>>
  <2>1. \A row \in ToSet(cat.pgColumn) : row[1] # tid
    BY <1>6, <1>7
  <2>2. QED
    BY <1>7, <2>1, RowsOfOwn
<1>15. \A x : RowsOf(new.pgColumn, x) = RowsOf(cat.pgColumn, x) \o RowsOf(rows, x)
  BY <1>3, <1>5, <1>7, RowsOfJoined
<1>16. ColumnsShown(new)
  <2>1. SUFFICES ASSUME NEW t \in DOMAIN new.tables
                 PROVE  RowsOf(new.pgColumn, new.tables[t].id) = ColumnRows(new.tables[t].id, new.tables[t].columns)
    BY DEF ColumnsShown
  <2>2. CASE t = name
    <3>1. RowsOf(rows, tid) = rows
      BY <1>5, RowsOfOwn
    <3>2. RowsOf(new.pgColumn, tid) = <<>> \o rows
      BY <1>14, <1>15, <3>1, Zenon
    <3>3. <<>> \o rows = rows
      BY <1>5, ConcatEmptySeq DEF IsSeq
    <3>4. QED
      BY <1>1, <1>4, <1>10, <2>2, <3>2, <3>3, Zenon
  <2>3. CASE t # name
    <3>1. PICK x : x = cat.tables[t].id
      OBVIOUS
    <3>2. new.tables[t] = cat.tables[t] /\ t \in DOMAIN cat.tables
      BY <1>10, <2>1, <2>3
    <3>3. x # tid /\ RowsOf(cat.pgColumn, x) = ColumnRows(x, cat.tables[t].columns)
      BY <1>6, <3>1, <3>2 DEF Consistent, ColumnsShown
    <3>4. RowsOf(rows, x) = <<>>
      BY <1>5, <3>3, RowsOfOwn
    <3>5. RowsOf(new.pgColumn, x) = RowsOf(cat.pgColumn, x) \o <<>>
      BY <1>15, <3>4, Zenon
    <3>6. RowsOf(cat.pgColumn, x) \o <<>> = RowsOf(cat.pgColumn, x)
      <4>1. IsSeq(RowsOf(cat.pgColumn, x))
        BY <1>7, Retained DEF RowsOf
      <4>2. QED
        BY <4>1, ConcatEmptySeq DEF IsSeq
    <3>7. QED
      BY <3>1, <3>2, <3>3, <3>5, <3>6, Zenon
  <2>4. QED
    BY <2>2, <2>3
<1>17. new.nextTable \in Nat
  BY <1>2, <1>3
<1>18. Consistent(new)
  BY <1>3, <1>8, <1>9, <1>11, <1>12, <1>13, <1>16, <1>17 DEF Consistent
<1>19. QED
  BY <1>1, <1>18

\* A table is left out; its rows stay, and are no table's.
LEMMA RemoveTableConsistent ==
    ASSUME NEW cat, Consistent(cat), NEW name
    PROVE  Consistent(RemoveTable(cat, name))
<1>1. PICK new : new = RemoveTable(cat, name)
  OBVIOUS
<1>2. DOMAIN cat = DOMAIN EmptyCatalog
  BY DEF Consistent
<1>3. /\ DOMAIN new = DOMAIN EmptyCatalog /\ new.tables = Without(cat.tables, name) /\ new.nextTable = cat.nextTable
      /\ new.pgColumn = cat.pgColumn /\ new.indexes = cat.indexes /\ new.listed = cat.listed
  BY <1>1, <1>2 DEF RemoveTable, EmptyCatalog
<1>4. \A t \in DOMAIN new.tables : t \in DOMAIN cat.tables /\ new.tables[t] = cat.tables[t]
  <2>1. IsWithout(new.tables, cat.tables, name)
    BY <1>3, PutIs
  <2>2. QED
    BY <2>1 DEF IsWithout
<1>5. Given(new) = Given(cat)
  BY <1>3 DEF Given
<1>6. IndexesListed(new) /\ ColumnsShown(new)
  BY <1>3, <1>4 DEF Consistent, IndexesListed, ColumnsShown
<1>7. Consistent(new)
  BY <1>3, <1>4, <1>5, <1>6 DEF Consistent
<1>8. QED
  BY <1>1, <1>7

\* The columns of a table are replaced, and its rows with them.
LEMMA UpdateTableConsistent ==
    ASSUME NEW cat, Consistent(cat), NEW name, HasTable(cat, name), NEW columns, IsSeq(columns)
    PROVE  Consistent(UpdateTable(cat, name, columns))
<1>1. PICK new, tid, rows, pg, old, others :
          /\ new = UpdateTable(cat, name, columns) /\ tid = cat.tables[name].id /\ pg = cat.pgColumn
          /\ rows = ColumnRows(tid, columns) /\ others = {row \in ToSet(pg) : row[1] # tid} /\ old = Retain(pg, others)
  OBVIOUS
<1>2. DOMAIN cat = DOMAIN EmptyCatalog /\ name \in DOMAIN cat.tables /\ tid \in Given(cat)
  BY <1>1 DEF Consistent, HasTable
<1>3. /\ DOMAIN new = DOMAIN EmptyCatalog /\ new.nextTable = cat.nextTable
      /\ new.indexes = cat.indexes /\ new.listed = cat.listed
  BY <1>1, <1>2 DEF UpdateTable, EmptyCatalog
<1>4. new.pgColumn = old \o rows
  BY <1>1, <1>2 DEF UpdateTable, EmptyCatalog
<1>5. new.tables = [cat.tables EXCEPT ![name].columns = columns]
  BY <1>1, <1>2 DEF UpdateTable, EmptyCatalog
<1>6. /\ DOMAIN new.tables = DOMAIN cat.tables
      /\ \A t \in DOMAIN cat.tables : t # name => new.tables[t] = cat.tables[t]
  BY <1>5
<1>7. DOMAIN new.tables[name] = {"id", "columns"} /\ new.tables[name].id = tid /\ new.tables[name].columns = columns
  <2>1. DOMAIN cat.tables[name] = {"id", "columns"}
    BY <1>2 DEF Consistent
  <2>2. new.tables[name] = [cat.tables[name] EXCEPT !.columns = columns]
    BY <1>2, <1>5
  <2>3. QED
    BY <1>1, <2>1, <2>2
<1>8. Given(new) = Given(cat)
  BY <1>3 DEF Given
<1>9. IsSeq(pg) /\ \A row \in ToSet(pg) : row[1] \in Given(cat)
  BY <1>1 DEF Consistent
<1>10. IsSeq(old) /\ ToSet(old) = ToSet(pg) \cap others
  BY <1>1, <1>9, Retained
<1>11. IsSeq(rows) /\ \A row \in ToSet(rows) : row[1] = tid
  BY <1>1, ColumnRowsAre
<1>12. IsSeq(new.pgColumn) /\ ToSet(new.pgColumn) = ToSet(old) \cup ToSet(rows)
  BY <1>4, <1>10, <1>11, Joined
<1>13. \A row \in ToSet(new.pgColumn) : row[1] \in Given(new)
  BY <1>2, <1>8, <1>9, <1>10, <1>11, <1>12
<1>14. \A t \in DOMAIN new.tables :
           /\ DOMAIN new.tables[t] = {"id", "columns"}
           /\ new.tables[t].id \in Given(new) /\ IsSeq(new.tables[t].columns)
  BY <1>2, <1>6, <1>7, <1>8 DEF Consistent
<1>15. \A t \in DOMAIN new.tables : new.tables[t].id = cat.tables[t].id
  BY <1>1, <1>6, <1>7
<1>16. \A t, u \in DOMAIN new.tables : new.tables[t].id = new.tables[u].id => t = u
  BY <1>6, <1>15 DEF Consistent
<1>17. IndexesListed(new) /\ \A x \in DOMAIN new.listed : IsSeq(new.listed[x])
  BY <1>3 DEF Consistent, IndexesListed
<1>18. \A x : RowsOf(new.pgColumn, x) = RowsOf(old, x) \o RowsOf(rows, x)
  BY <1>4, <1>10, <1>11, RowsOfJoined
<1>19. ColumnsShown(new)
  <2>1. SUFFICES ASSUME NEW t \in DOMAIN new.tables
                 PROVE  RowsOf(new.pgColumn, new.tables[t].id) = ColumnRows(new.tables[t].id, new.tables[t].columns)
    BY DEF ColumnsShown
  <2>2. CASE t = name
    <3>1. RowsOf(old, tid) = <<>>
      <4>1. \A row \in ToSet(old) : row[1] # tid
        BY <1>1, <1>10
      <4>2. QED
        BY <1>10, <4>1, RowsOfOwn
    <3>2. RowsOf(rows, tid) = rows
      BY <1>11, RowsOfOwn
    <3>3. RowsOf(new.pgColumn, tid) = <<>> \o rows
      BY <1>18, <3>1, <3>2, Zenon
    <3>4. <<>> \o rows = rows
      BY <1>11, ConcatEmptySeq DEF IsSeq
    <3>5. QED
      BY <1>1, <1>7, <2>2, <3>3, <3>4, Zenon
  <2>3. CASE t # name
    <3>1. PICK x : x = cat.tables[t].id
      OBVIOUS
    <3>2. new.tables[t] = cat.tables[t] /\ t \in DOMAIN cat.tables
      BY <1>6, <2>1, <2>3
    <3>3. x # tid /\ RowsOf(pg, x) = ColumnRows(x, cat.tables[t].columns)
      BY <1>1, <1>2, <2>3, <3>1, <3>2 DEF Consistent, ColumnsShown
    <3>4. RowsOf(old, x) = RowsOf(pg, x)
      <4>1. RowsOf(Retain(pg, {row \in ToSet(pg) : row[1] # tid}), x) = RowsOf(pg, x)
        BY <1>9, <3>3, RowsOfOthers
      <4>2. QED
        BY <1>1, <4>1, Zenon
    <3>5. RowsOf(rows, x) = <<>>
      BY <1>11, <3>3, RowsOfOwn
    <3>6. RowsOf(new.pgColumn, x) = RowsOf(pg, x) \o <<>>
      BY <1>18, <3>4, <3>5, Zenon
    <3>7. RowsOf(pg, x) \o <<>> = RowsOf(pg, x)
      <4>1. IsSeq(RowsOf(pg, x))
        BY <1>9, Retained DEF RowsOf
      <4>2. QED
        BY <4>1, ConcatEmptySeq DEF IsSeq
    <3>8. QED
      BY <3>1, <3>2, <3>3, <3>6, <3>7, Zenon
  <2>4. QED
    BY <2>2, <2>3
<1>20. new.nextTable \in Nat
  BY <1>3 DEF Consistent
<1>21. Consistent(new)
  BY <1>3, <1>12, <1>13, <1>14, <1>16, <1>17, <1>19, <1>20 DEF Consistent
<1>22. QED
  BY <1>1, <1>21

\* The tables and their rows are the same.
SameTables(cat, new) ==
    /\ DOMAIN new = DOMAIN EmptyCatalog /\ new.nextTable = cat.nextTable
    /\ new.tables = cat.tables /\ new.pgColumn = cat.pgColumn

\* Then only the indexes and their lists are to be looked at.
LEMMA IndexesOnly ==
    ASSUME NEW cat, Consistent(cat), NEW new, SameTables(cat, new), IndexesListed(new),
           \A tid \in DOMAIN new.listed : IsSeq(new.listed[tid])
    PROVE  Consistent(new)
<1>1. ColumnsShown(new) /\ Given(new) = Given(cat)
  BY DEF SameTables, Consistent, ColumnsShown, Given
<1>2. QED
  BY <1>1 DEF SameTables, Consistent

\* An index is entered: an index of the name is replaced, and stays listed for its table.
LEMMA IndexAdded ==
    ASSUME NEW cat, Consistent(cat), NEW new, SameTables(cat, new), NEW name, NEW index,
           new.indexes = Put(cat.indexes, name, index), new.listed = ListIndex(cat.listed, index.table, name)
    PROVE  Consistent(new)
<1>1. PICK tid, old, names : /\ tid = index.table /\ old = IF tid \in DOMAIN cat.listed THEN cat.listed[tid] ELSE <<>>
                             /\ names = old \o <<name>>
  OBVIOUS
<1>2. IsSeq(<<>>) /\ IsSeq(<<name>>) /\ ToSet(<<name>>) = {name}
  <2>1. DOMAIN <<name>> = 1 .. 1 /\ <<name>>[1] = name /\ DOMAIN <<>> = {} /\ \A i \in 1 .. 1 : i = 1
    OBVIOUS
  <2>2. ToSet(<<name>>) = {name}
    BY <2>1 DEF ToSet
  <2>3. <<name>> \in Seq({name}) /\ <<>> \in Seq({})
    OBVIOUS
  <2>4. QED
    BY <2>2, <2>3, SeqOfItsOwn
<1>3. IsSeq(old)
  <2>1. CASE tid \in DOMAIN cat.listed
    BY <1>1, <2>1 DEF Consistent
  <2>2. CASE tid \notin DOMAIN cat.listed
    BY <1>1, <1>2, <2>2
  <2>3. QED
    BY <2>1, <2>2
<1>4. IsSeq(names) /\ ToSet(names) = ToSet(old) \cup {name}
  BY <1>1, <1>2, <1>3, Joined
<1>5. new.listed = Put(cat.listed, tid, names)
  BY <1>1, Zenon DEF ListIndex
<1>6. IsPut(new.listed, cat.listed, tid, names) /\ IsPut(new.indexes, cat.indexes, name, index)
  BY <1>5, PutIs
<1>7. \A x \in DOMAIN new.listed : IsSeq(new.listed[x])
  BY <1>4, <1>6 DEF IsPut, Consistent
<1>8. IndexesListed(new)
  <2>1. SUFFICES ASSUME NEW n \in DOMAIN new.indexes
                 PROVE  new.indexes[n].table \in DOMAIN new.listed /\ Contains(new.listed[new.indexes[n].table], n)
    BY DEF IndexesListed
  <2>2. CASE n = name
    <3>1. new.indexes[n].table = tid /\ new.listed[tid] = names /\ tid \in DOMAIN new.listed
      BY <1>1, <1>6, <2>2 DEF IsPut
    <3>2. Contains(names, n)
      BY <1>4, <2>2, ContainsIsIn
    <3>3. QED
      BY <3>1, <3>2
  <2>3. CASE n # name
    <3>1. n \in DOMAIN cat.indexes /\ new.indexes[n] = cat.indexes[n]
      BY <1>6, <2>1, <2>3 DEF IsPut
    <3>2. PICK x : x = cat.indexes[n].table
      OBVIOUS
    <3>3. x \in DOMAIN cat.listed /\ Contains(cat.listed[x], n) /\ IsSeq(cat.listed[x])
      BY <3>1, <3>2 DEF Consistent, IndexesListed
    <3>4. CASE x = tid
      <4>1. old = cat.listed[x]
        BY <1>1, <3>3, <3>4
      <4>2. n \in ToSet(old)
        BY <1>3, <3>3, <4>1, ContainsIsIn
      <4>3. Contains(names, n)
        BY <1>4, <4>2, ContainsIsIn
      <4>4. new.listed[x] = names /\ x \in DOMAIN new.listed
        BY <1>6, <3>4 DEF IsPut
      <4>5. QED
        BY <3>1, <3>2, <4>3, <4>4
    <3>5. CASE x # tid
      <4>1. new.listed[x] = cat.listed[x] /\ x \in DOMAIN new.listed
        BY <1>6, <3>3, <3>5 DEF IsPut
      <4>2. QED
        BY <3>1, <3>2, <3>3, <4>1
    <3>6. QED
      BY <3>4, <3>5
  <2>4. QED
    BY <2>2, <2>3
<1>9. QED
  BY <1>7, <1>8, IndexesOnly

\* The index of CREATE INDEX and of a constraint.
LEMMA AddIndexConsistent ==
    ASSUME NEW cat, Consistent(cat), NEW name, NEW tid, NEW columns, NEW unique
    PROVE  Consistent(AddIndex(cat, name, tid, columns, unique))
<1>1. PICK new, index : /\ new = AddIndex(cat, name, tid, columns, unique)
                        /\ index = [table |-> tid, columns |-> columns, unique |-> unique, system |-> FALSE]
  OBVIOUS
<1>2. DOMAIN cat = DOMAIN EmptyCatalog
  BY DEF Consistent
<1>3. index.table = tid
  BY <1>1
<1>4. new = [cat EXCEPT !.indexes = Put(@, name, index), !.listed = ListIndex(@, index.table, name)]
  BY <1>1, <1>3 DEF AddIndex
<1>5. /\ SameTables(cat, new) /\ new.indexes = Put(cat.indexes, name, index)
      /\ new.listed = ListIndex(cat.listed, index.table, name)
  BY <1>2, <1>4 DEF SameTables, EmptyCatalog
<1>6. QED
  BY <1>1, <1>5, IndexAdded

\* The index of a primary key.
LEMMA AddPkIndexConsistent ==
    ASSUME NEW cat, Consistent(cat), NEW table, NEW tid, NEW columns
    PROVE  Consistent(AddPkIndex(cat, table, tid, columns))
<1>1. PICK new, name, index : /\ new = AddPkIndex(cat, table, tid, columns) /\ name = PkName(table)
                              /\ index = [table |-> tid, columns |-> columns, unique |-> TRUE, system |-> TRUE]
  OBVIOUS
<1>2. DOMAIN cat = DOMAIN EmptyCatalog
  BY DEF Consistent
<1>3. index.table = tid
  BY <1>1
<1>4. new = [cat EXCEPT !.indexes = Put(@, name, index), !.listed = ListIndex(@, index.table, name)]
  BY <1>1, <1>3 DEF AddPkIndex
<1>5. /\ SameTables(cat, new) /\ new.indexes = Put(cat.indexes, name, index)
      /\ new.listed = ListIndex(cat.listed, index.table, name)
  BY <1>2, <1>4 DEF SameTables, EmptyCatalog
<1>6. QED
  BY <1>1, <1>5, IndexAdded

\* An index is left out, and its name from the list of its table; a list with no name
\* left is left out too.
LEMMA DropIndexConsistent ==
    ASSUME NEW cat, Consistent(cat), NEW name
    PROVE  Consistent(DropIndex(cat, name))
<1>1. CASE ~HasIndex(cat, name)
  BY <1>1 DEF DropIndex
<1>2. CASE HasIndex(cat, name)
  <2>1. PICK new, tid, names, rest :
            /\ new = DropIndex(cat, name) /\ tid = cat.indexes[name].table
            /\ names = (IF tid \in DOMAIN cat.listed THEN cat.listed[tid] ELSE <<>>)
            /\ rest = Retain(names, ToSet(names) \ {name})
    OBVIOUS
  <2>2. tid \in DOMAIN cat.listed /\ names = cat.listed[tid] /\ IsSeq(names) /\ DOMAIN cat = DOMAIN EmptyCatalog
    BY <1>2, <2>1 DEF Consistent, IndexesListed, HasIndex
  <2>3. IsSeq(rest) /\ ToSet(rest) = ToSet(names) \ {name}
    <3>1. PICK S : S = ToSet(names) \ {name}
      OBVIOUS
    <3>2. rest = Retain(names, S)
      BY <2>1, <3>1
    <3>3. IsSeq(Retain(names, S)) /\ ToSet(Retain(names, S)) = ToSet(names) \cap S
      BY <2>2, Retained
    <3>4. QED
      BY <3>1, <3>2, <3>3
  <2>4. new = [cat EXCEPT !.indexes = Without(@, name),
                          !.listed = IF rest = <<>> THEN Without(@, tid) ELSE Put(@, tid, rest)]
    BY <1>2, <2>1 DEF DropIndex
  <2>5. /\ SameTables(cat, new) /\ new.indexes = Without(cat.indexes, name)
        /\ new.listed = IF rest = <<>> THEN Without(cat.listed, tid) ELSE Put(cat.listed, tid, rest)
    BY <2>2, <2>4 DEF SameTables, EmptyCatalog
  <2>6. IsWithout(new.indexes, cat.indexes, name)
    BY <2>5, PutIs
  <2>7. \/ rest = <<>> /\ IsWithout(new.listed, cat.listed, tid)
        \/ rest # <<>> /\ IsPut(new.listed, cat.listed, tid, rest)
    BY <2>5, PutIs
  <2>8. \A x \in DOMAIN new.listed : IsSeq(new.listed[x])
    BY <2>3, <2>7 DEF IsPut, IsWithout, Consistent
  <2>9. IndexesListed(new)
    <3>1. SUFFICES ASSUME NEW n \in DOMAIN new.indexes
                   PROVE  new.indexes[n].table \in DOMAIN new.listed /\ Contains(new.listed[new.indexes[n].table], n)
      BY DEF IndexesListed
    <3>2. n \in DOMAIN cat.indexes /\ n # name /\ new.indexes[n] = cat.indexes[n]
      BY <2>6, <3>1 DEF IsWithout
    <3>3. PICK x : x = cat.indexes[n].table
      OBVIOUS
    <3>4. x \in DOMAIN cat.listed /\ Contains(cat.listed[x], n)
      BY <3>2, <3>3 DEF Consistent, IndexesListed
    <3>5. CASE x = tid
      <4>1. n \in ToSet(names)
        BY <2>2, <3>4, <3>5, ContainsIsIn
      <4>2. n \in ToSet(rest)
        BY <2>3, <3>2, <4>1
      <4>3. rest # <<>> /\ Contains(rest, n)
        BY <2>3, <4>2, ContainsIsIn DEF ToSet
      <4>4. new.listed[x] = rest /\ x \in DOMAIN new.listed
        BY <2>7, <3>5, <4>3 DEF IsPut
      <4>5. QED
        BY <3>2, <3>3, <4>3, <4>4
    <3>6. CASE x # tid
      <4>1. new.listed[x] = cat.listed[x] /\ x \in DOMAIN new.listed
        BY <2>7, <3>4, <3>6 DEF IsPut, IsWithout
      <4>2. QED
        BY <3>2, <3>3, <3>4, <4>1
    <3>7. QED
      BY <3>5, <3>6
  <2>10. QED
    BY <2>1, <2>5, <2>8, <2>9, IndexesOnly
<1>3. QED
  BY <1>1, <1>2

-----------------------------------------------------------------------------
(* The catalog: what the statements know, and the theorem                  *)
(*                                                                         *)
(* The columns that CREATE TABLE enters and ALTER TABLE writes are made in *)
(* an earlier step and kept by the session; so the invariant says of every *)
(* session that it holds a list of columns, and a statement of Statements. *)

KnowsColumns(me) ==
    /\ DOMAIN me.def = {"id", "columns"} /\ IsSeq(me.def.columns)
    /\ me.pc # "idle" => me.stmt \in Statements

CatalogIInv == Consistent(catalog) /\ \A s \in Sessions : KnowsColumns(sess[s])

\* A function on 1 .. n is a list.
LEMMA ListOf ==
    ASSUME NEW n \in Nat, NEW f, f = [k \in 1 .. n |-> f[k]]
    PROVE  IsSeq(f) /\ Len(f) = n
<1>1. PICK T : T = {f[k] : k \in 1 .. n}
  OBVIOUS
<1>2. \A k \in 1 .. n : f[k] \in T
  BY <1>1
<1>3. f \in [1 .. n -> T]
  BY <1>2
<1>4. f \in Seq(T) /\ Len(f) = n
  BY <1>3
<1>5. QED
  BY <1>4, SeqOfItsOwn

\* The columns CREATE TABLE prepares are a list.
LEMMA MergedIsList ==
    ASSUME NEW columns, IsSeq(columns), NEW mapped, NEW constraints,
           mapped = [k \in 1 .. Len(columns) |-> MapColumn(columns[k])]
    PROVE  IsSeq(Merge(mapped, constraints))
<1>1. PICK n \in Nat : n = Len(columns)
  BY LenProperties DEF IsSeq
<1>2. mapped = [k \in 1 .. n |-> mapped[k]]
  BY <1>1
<1>3. Len(mapped) = n
  BY <1>2, ListOf
<1>4. PICK merged : merged = Merge(mapped, constraints)
  OBVIOUS
<1> DEFINE Under(kind, k) == /\ First(mapped, k)
                             /\ \E con \in ToSet(constraints) : con.kind = kind /\ Contains(con.columns, mapped[k].name)
           Column(k) == [mapped[k] EXCEPT !.pk = @ \/ Under("PrimaryKey", k),
                                          !.nullable = @ /\ ~Under("PrimaryKey", k),
                                          !.unique = @ \/ Under("Unique", k)]
<1>5. merged = [k \in 1 .. n |-> Column(k)]
  BY <1>3, <1>4, Zenon DEF Merge
<1> HIDE DEF Column
<1>6. merged = [k \in 1 .. n |-> merged[k]]
  BY <1>5
<1>7. QED
  BY <1>4, <1>6, ListOf

\* A name among the columns has a first column of that name.
LEMMA FirstExists ==
    ASSUME NEW columns, IsSeq(columns), NEW name \in ColumnNames(columns)
    PROVE  \E k \in 1 .. Len(columns) : columns[k].name = name /\ First(columns, k)
<1>1. PICK n \in Nat : n = Len(columns)
  BY LenProperties DEF IsSeq
<1>2. PICK Ks : Ks = {k \in 1 .. n : columns[k].name = name}
  OBVIOUS
<1>3. Ks \in SUBSET Nat /\ Ks # {}
  BY <1>1, <1>2 DEF ColumnNames
<1>4. PICK k \in Ks : \A j \in Ks : k <= j
  BY <1>3, LeastNumber
<1>5. k \in 1 .. n /\ columns[k].name = name
  BY <1>2, <1>4
<1>6. \A j \in 1 .. (k - 1) : columns[j].name # name
  <2>1. \A j \in 1 .. (k - 1) : j \in 1 .. n /\ ~(k <= j)
    BY <1>5
  <2>2. QED
    BY <1>2, <1>4, <2>1
<1>7. First(columns, k)
  BY <1>5, <1>6 DEF First
<1>8. QED
  BY <1>1, <1>5, <1>7

\* What the column operations make of a list of columns is a list.
LEMMA AlteredIsList ==
    ASSUME NEW columns, IsSeq(columns), NEW alter, alter.op \in {"AddColumn", "DropColumn", "RenameColumn"},
           alter.op # "AddColumn" => alter.name \in ColumnNames(columns)
    PROVE  IsSeq(Altered(alter, columns))
<1>0. PICK T : columns \in Seq(T)
  BY DEF IsSeq
<1>1. PICK n \in Nat : n = Len(columns) /\ columns \in Seq(T)
  BY <1>0, LenProperties
<1>2. CASE alter.op = "AddColumn"
  <2>1. PICK c : c = MapColumn(alter.column)
    OBVIOUS
  <2>2. Altered(alter, columns) = Append(columns, c)
    BY <1>2, <2>1 DEF Altered
  <2>3. PICK R : R = T \cup {c}
    OBVIOUS
  <2>4. columns \in Seq(R) /\ c \in R
    BY <1>1, <2>3, SeqMonotonic
  <2>5. Append(columns, c) \in Seq(R)
    BY <2>4
  <2>6. QED
    BY <2>2, <2>5, SeqOfItsOwn
<1>3. CASE alter.op = "DropColumn"
  <2>1. PICK pos : pos = CHOOSE k \in 1 .. Len(columns) : columns[k].name = alter.name /\ First(columns, k)
    OBVIOUS
  <2>2. pos \in 1 .. n
    <3>1. \E k \in 1 .. Len(columns) : columns[k].name = alter.name /\ First(columns, k)
      BY <1>3, FirstExists
    <3>2. QED
      BY <1>1, <2>1, <3>1
  <2>3. Altered(alter, columns) = SubSeq(columns, 1, pos - 1) \o SubSeq(columns, pos + 1, Len(columns))
    BY <1>3, <2>1 DEF Altered, RemoveAt
  <2>4. SubSeq(columns, 1, pos - 1) \in Seq(T)
    <3>1. \A i \in 1 .. (pos - 1) : columns[i] \in T
      BY <1>1, <2>2
    <3>2. 1 \in Int /\ pos - 1 \in Int
      BY <2>2
    <3>3. QED
      BY <3>1, <3>2, SubSeqProperties
  <2>5. SubSeq(columns, pos + 1, Len(columns)) \in Seq(T)
    <3>1. \A i \in (pos + 1) .. n : columns[i] \in T
      BY <1>1, <2>2
    <3>2. n \in Int /\ pos + 1 \in Int
      BY <1>1, <2>2
    <3>3. SubSeq(columns, pos + 1, n) \in Seq(T)
      BY <3>1, <3>2, SubSeqProperties
    <3>4. QED
      BY <1>1, <3>3
  <2>6. Altered(alter, columns) \in Seq(T)
    BY <2>3, <2>4, <2>5, ConcatProperties
  <2>7. QED
    BY <2>6, SeqOfItsOwn
<1>4. CASE alter.op = "RenameColumn"
  <2>1. PICK pos : pos = CHOOSE k \in 1 .. Len(columns) : columns[k].name = alter.name /\ First(columns, k)
    OBVIOUS
  <2>2. PICK f : f = [columns EXCEPT ![pos].name = alter.new]
    OBVIOUS
  <2>3. Altered(alter, columns) = f
    BY <1>4, <2>1, <2>2 DEF Altered
  <2>4. DOMAIN columns = 1 .. n
    BY <1>1
  <2>5. f = [k \in 1 .. n |-> f[k]]
    BY <2>2, <2>4
  <2>6. QED
    BY <2>3, <2>5, ListOf
<1>5. QED
  BY <1>2, <1>3, <1>4

\* After the step the session has the definition and the statement it had, or others
\* of which the same is known.
Stays(s) == \E me : Local(s, me) /\ me.def = sess[s].def /\ me.stmt = sess[s].stmt
Takes(s) == \E me : Local(s, me) /\ KnowsColumns(me)

\* A statement returns.
LEMMA ReturnTakes ==
    ASSUME NEW s, sess[s].pc # "idle", KnowsColumns(sess[s]), NEW x, Return(s, x)
    PROVE  Takes(s)
<1>1. PICK me : /\ me = [Idle EXCEPT !.pc = "returned", !.stmt = sess[s].stmt, !.tx = sess[s].tx, !.result = x]
                /\ Local(s, me)
  BY DEF Return
<1>2. me.def = NoDef /\ me.stmt = sess[s].stmt
  BY <1>1 DEF Idle
<1>3. DOMAIN NoDef = {"id", "columns"} /\ NoDef.columns = <<>>
  BY DEF NoDef
<1>4. IsSeq(<<>>)
  BY EmptySeq, SeqOfItsOwn
<1>5. KnowsColumns(me)
  BY <1>2, <1>3, <1>4 DEF KnowsColumns
<1>6. QED
  BY <1>1, <1>5 DEF Takes

\* A statement goes on with what it has.
LEMMA StayTakes ==
    ASSUME NEW s, sess[s].pc # "idle", KnowsColumns(sess[s]), Stays(s)
    PROVE  Takes(s)
<1>1. PICK me : Local(s, me) /\ me.def = sess[s].def /\ me.stmt = sess[s].stmt
  BY DEF Stays
<1>2. KnowsColumns(me)
  BY <1>1 DEF KnowsColumns
<1>3. QED
  BY <1>1, <1>2 DEF Takes

\* The ways a statement goes on with what it has.
LEMMA Staying ==
    ASSUME NEW s, DOMAIN sess[s] = DOMAIN Idle,
           \/ \E x : Goto(s, x)
           \/ Done(s)
           \/ \E x, y : Local(s, [sess[s] EXCEPT !.pc = x, !.tx = y])
           \/ \E x, y : Local(s, [sess[s] EXCEPT !.pc = x, !.prev = y])
           \/ \E x, y : Local(s, [sess[s] EXCEPT !.pc = x, !.todo = y])
           \/ \E x, y, z, u : Local(s, [[sess[s] EXCEPT !.pc = u, !.todo = y] EXCEPT !.pc = x, !.prev = z])
           \/ Local(s, [sess[s] EXCEPT !.todo = Tail(@)])
    PROVE  Stays(s)
<1>1. CASE \E x : Goto(s, x)
  <2>1. PICK x, me : me = [sess[s] EXCEPT !.pc = x] /\ Local(s, me)
    BY <1>1 DEF Goto
  <2>2. me.def = sess[s].def /\ me.stmt = sess[s].stmt
    BY <2>1 DEF Idle
  <2>3. QED
    BY <2>1, <2>2 DEF Stays
<1>2. CASE Done(s)
  <2>1. PICK me : me = [sess[s] EXCEPT !.todo = Tail(@), !.made = @ \o Head(sess[s].todo).made] /\ Local(s, me)
    BY <1>2 DEF Done
  <2>2. me.def = sess[s].def /\ me.stmt = sess[s].stmt
    BY <2>1 DEF Idle
  <2>3. QED
    BY <2>1, <2>2 DEF Stays
<1>3. CASE \E x, y : Local(s, [sess[s] EXCEPT !.pc = x, !.tx = y])
  <2>1. PICK x, y, me : me = [sess[s] EXCEPT !.pc = x, !.tx = y] /\ Local(s, me)
    BY <1>3
  <2>2. me.def = sess[s].def /\ me.stmt = sess[s].stmt
    BY <2>1 DEF Idle
  <2>3. QED
    BY <2>1, <2>2 DEF Stays
<1>4. CASE \E x, y : Local(s, [sess[s] EXCEPT !.pc = x, !.prev = y])
  <2>1. PICK x, y, me : me = [sess[s] EXCEPT !.pc = x, !.prev = y] /\ Local(s, me)
    BY <1>4
  <2>2. me.def = sess[s].def /\ me.stmt = sess[s].stmt
    BY <2>1 DEF Idle
  <2>3. QED
    BY <2>1, <2>2 DEF Stays
<1>5. CASE \E x, y : Local(s, [sess[s] EXCEPT !.pc = x, !.todo = y])
  <2>1. PICK x, y, me : me = [sess[s] EXCEPT !.pc = x, !.todo = y] /\ Local(s, me)
    BY <1>5
  <2>2. me.def = sess[s].def /\ me.stmt = sess[s].stmt
    BY <2>1 DEF Idle
  <2>3. QED
    BY <2>1, <2>2 DEF Stays
<1>6. CASE \E x, y, z, u : Local(s, [[sess[s] EXCEPT !.pc = u, !.todo = y] EXCEPT !.pc = x, !.prev = z])
  <2>1. PICK x, y, z, u, you, me : /\ you = [sess[s] EXCEPT !.pc = u, !.todo = y]
                                   /\ me = [you EXCEPT !.pc = x, !.prev = z] /\ Local(s, me)
    BY <1>6
  <2>2. DOMAIN you = DOMAIN Idle /\ you.def = sess[s].def /\ you.stmt = sess[s].stmt
    BY <2>1 DEF Idle
  <2>3. me.def = sess[s].def /\ me.stmt = sess[s].stmt
    BY <2>1, <2>2 DEF Idle
  <2>4. QED
    BY <2>1, <2>3 DEF Stays
<1>7. CASE Local(s, [sess[s] EXCEPT !.todo = Tail(@)])
  <2>1. PICK me : me = [sess[s] EXCEPT !.todo = Tail(@)] /\ Local(s, me)
    BY <1>7
  <2>2. me.def = sess[s].def /\ me.stmt = sess[s].stmt
    BY <2>1 DEF Idle
  <2>3. QED
    BY <2>1, <2>2 DEF Stays
<1>8. QED
  BY <1>1, <1>2, <1>3, <1>4, <1>5, <1>6, <1>7

\* A table of a consistent catalog has a definition to take.
LEMMA TablesAreDefined ==
    ASSUME Consistent(catalog), NEW t \in DOMAIN catalog.tables
    PROVE  DOMAIN catalog.tables[t] = {"id", "columns"} /\ IsSeq(catalog.tables[t].columns)
  BY DEF Consistent

\* A session takes another definition.
LEMMA DefTaken ==
    ASSUME NEW s, DOMAIN sess[s] = DOMAIN Idle, sess[s].stmt \in Statements,
           NEW d, DOMAIN d = {"id", "columns"}, IsSeq(d.columns),
           \/ \E x : Local(s, [sess[s] EXCEPT !.pc = x, !.def = d])
           \/ \E x, y : Local(s, [sess[s] EXCEPT !.pc = x, !.def = d, !.todo = y])
    PROVE  Takes(s)
<1>1. CASE \E x : Local(s, [sess[s] EXCEPT !.pc = x, !.def = d])
  <2>1. PICK x, me : me = [sess[s] EXCEPT !.pc = x, !.def = d] /\ Local(s, me)
    BY <1>1
  <2>2. me.def = d /\ me.stmt = sess[s].stmt
    BY <2>1 DEF Idle
  <2>3. QED
    BY <2>1, <2>2 DEF Takes, KnowsColumns
<1>2. CASE \E x, y : Local(s, [sess[s] EXCEPT !.pc = x, !.def = d, !.todo = y])
  <2>1. PICK x, y, me : me = [sess[s] EXCEPT !.pc = x, !.def = d, !.todo = y] /\ Local(s, me)
    BY <1>2
  <2>2. me.def = d /\ me.stmt = sess[s].stmt
    BY <2>1 DEF Idle
  <2>3. QED
    BY <2>1, <2>2 DEF Takes, KnowsColumns
<1>3. QED
  BY <1>1, <1>2

\* A session takes other columns, or another id.
LEMMA ColumnsTaken ==
    ASSUME NEW s, DOMAIN sess[s] = DOMAIN Idle, sess[s].stmt \in Statements, KnowsColumns(sess[s]),
           \/ \E x, c : IsSeq(c) /\ Local(s, [sess[s] EXCEPT !.pc = x, !.def.columns = c])
           \/ \E x, i, w : Local(s, [sess[s] EXCEPT !.pc = x, !.def.id = i, !.todo = w])
    PROVE  Takes(s)
<1>0. DOMAIN sess[s].def = {"id", "columns"} /\ IsSeq(sess[s].def.columns)
  BY DEF KnowsColumns
<1>1. CASE \E x, c : IsSeq(c) /\ Local(s, [sess[s] EXCEPT !.pc = x, !.def.columns = c])
  <2>1. PICK x, c, me : IsSeq(c) /\ me = [sess[s] EXCEPT !.pc = x, !.def.columns = c] /\ Local(s, me)
    BY <1>1
  <2>2. me.def = [sess[s].def EXCEPT !.columns = c] /\ me.stmt = sess[s].stmt
    BY <2>1 DEF Idle
  <2>3. DOMAIN me.def = {"id", "columns"} /\ me.def.columns = c
    BY <1>0, <2>2
  <2>4. QED
    BY <2>1, <2>2, <2>3 DEF Takes, KnowsColumns
<1>2. CASE \E x, i, w : Local(s, [sess[s] EXCEPT !.pc = x, !.def.id = i, !.todo = w])
  <2>1. PICK x, i, w, me : me = [sess[s] EXCEPT !.pc = x, !.def.id = i, !.todo = w] /\ Local(s, me)
    BY <1>2
  <2>2. me.def = [sess[s].def EXCEPT !.id = i] /\ me.stmt = sess[s].stmt
    BY <2>1 DEF Idle
  <2>3. DOMAIN me.def = {"id", "columns"} /\ me.def.columns = sess[s].def.columns
    BY <1>0, <2>2
  <2>4. QED
    BY <1>0, <2>1, <2>2, <2>3 DEF Takes, KnowsColumns
<1>3. QED
  BY <1>1, <1>2

\* What is known of a session that takes a step of its statement.
Ready(s) ==
    /\ DOMAIN sess[s] = DOMAIN Idle /\ KnowsColumns(sess[s])
    /\ sess[s].pc # "idle" /\ sess[s].stmt \in Statements

\* The steps of CREATE TABLE, and of every statement that makes indexes.
LEMMA CreateTakes ==
    ASSUME NEW s, Ready(s), StatementOK(sess[s]),
           \/ CreateCheck(s) \/ CreateBegin(s) \/ CreatePrepare(s) \/ CreateDefine(s) \/ CreateCommit(s)
           \/ CommitRecord(s) \/ MakePk(s) \/ MakeIndex(s) \/ CheckFk(s) \/ LogPrev(s) \/ LogCreate(s)
           \/ CreateAbort(s) \/ AbortRecord(s)
    PROVE  Takes(s)
<1>0. /\ DOMAIN sess[s] = DOMAIN Idle /\ KnowsColumns(sess[s]) /\ sess[s].pc # "idle" /\ sess[s].stmt \in Statements
  BY DEF Ready
<1>1. (\E x : Return(s, x)) => Takes(s)
  BY <1>0, ReturnTakes
<1>2. Stays(s) => Takes(s)
  BY <1>0, StayTakes
<1>3. (\E x : Goto(s, x)) \/ Done(s) => Takes(s)
  BY <1>0, <1>2, Staying
<1>4. Fail(s) => Takes(s)
  BY <1>1, <1>3 DEF Fail
<1>5. CASE CreateCheck(s) \/ CommitRecord(s) \/ AbortRecord(s)
  BY <1>1, <1>3, <1>5 DEF CreateCheck, CommitRecord, AbortRecord
<1>6. CASE CreateBegin(s)
  <2>1. \E x, y : Local(s, [sess[s] EXCEPT !.pc = x, !.tx = y])
    BY <1>6 DEF CreateBegin
  <2>2. QED
    BY <1>0, <1>2, <2>1, Staying
<1>7. CASE CreatePrepare(s)
  <2>1. PICK mapped, merged :
            /\ mapped = [k \in 1 .. Len(sess[s].stmt.columns) |-> MapColumn(sess[s].stmt.columns[k])]
            /\ merged = Merge(mapped, sess[s].stmt.constraints)
    OBVIOUS
  <2>2. Goto(s, "abort") \/ Local(s, [sess[s] EXCEPT !.pc = "define", !.def.columns = merged])
    BY <1>7, <2>1 DEF CreatePrepare
  <2>3. sess[s].stmt.kind = "CreateTable"
    BY <1>7 DEF CreatePrepare, StatementOK, TxPcs, Creating
  <2>4. PICK columns, constraints : columns = sess[s].stmt.columns /\ constraints = sess[s].stmt.constraints
    OBVIOUS
  <2>5. IsSeq(columns)
    BY <1>0, <2>3, <2>4, DdlAssumption
  <2>6. mapped = [k \in 1 .. Len(columns) |-> MapColumn(columns[k])] /\ merged = Merge(mapped, constraints)
    BY <2>1, <2>4
  <2>7. IsSeq(merged)
    BY <2>5, <2>6, MergedIsList
  <2>8. CASE Goto(s, "abort")
    BY <1>3, <2>8
  <2>9. CASE Local(s, [sess[s] EXCEPT !.pc = "define", !.def.columns = merged])
    BY <1>0, <2>7, <2>9, ColumnsTaken
  <2>10. QED
    BY <2>2, <2>8, <2>9
<1>8. CASE CreateDefine(s)
  <2>1. \E x, i, w : Local(s, [sess[s] EXCEPT !.pc = x, !.def.id = i, !.todo = w])
    BY <1>8 DEF CreateDefine
  <2>2. QED
    BY <1>0, <2>1, ColumnsTaken
<1>9. CASE CreateCommit(s)
  <2>1. (\E x : Return(s, x)) \/ \E x, y : Local(s, [sess[s] EXCEPT !.pc = x, !.prev = y])
    BY <1>9 DEF CreateCommit
  <2>2. QED
    BY <1>0, <1>1, <1>2, <2>1, Staying
<1>10. CASE MakePk(s) \/ MakeIndex(s) \/ CheckFk(s)
  BY <1>3, <1>4, <1>10 DEF MakePk, MakeIndex, CheckFk
<1>11. CASE LogPrev(s)
  <2>1. Fail(s) \/ \E x, y : Local(s, [sess[s] EXCEPT !.pc = x, !.prev = y])
    BY <1>11 DEF LogPrev
  <2>2. QED
    BY <1>0, <1>2, <1>4, <2>1, Staying
<1>12. CASE LogCreate(s)
  <2>1. \E x, y : Local(s, [sess[s] EXCEPT !.pc = x, !.todo = y])
    BY <1>12 DEF LogCreate
  <2>2. QED
    BY <1>0, <1>2, <2>1, Staying
<1>13. CASE CreateAbort(s)
  <2>1. \/ \E x, y : Local(s, [sess[s] EXCEPT !.pc = x, !.todo = y])
        \/ \E x, y, z, u : Local(s, [[sess[s] EXCEPT !.pc = u, !.todo = y] EXCEPT !.pc = x, !.prev = z])
    BY <1>13 DEF CreateAbort
  <2>2. QED
    BY <1>0, <1>2, <2>1, Staying
<1>14. QED
  BY <1>5, <1>6, <1>7, <1>8, <1>9, <1>10, <1>11, <1>12, <1>13

\* The steps of the other statements.
LEMMA OtherTakes ==
    ASSUME NEW s, Ready(s), Consistent(catalog),
           \/ DropNext(s) \/ DropLookup(s) \/ DropList(s) \/ DropRemove(s) \/ TableCheck(s) \/ TableEnter(s)
           \/ LeaveTx(s) \/ AlterValidate(s) \/ AlterApply(s) \/ AlterWrite(s)
           \/ IndexCheck(s) \/ IndexTable(s) \/ IndexMake(s) \/ IndexEnter(s) \/ IndexOwner(s) \/ IndexUnmake(s)
    PROVE  Takes(s)
<1>0. /\ DOMAIN sess[s] = DOMAIN Idle /\ KnowsColumns(sess[s]) /\ sess[s].pc # "idle" /\ sess[s].stmt \in Statements
  BY DEF Ready
<1>1. (\E x : Return(s, x)) => Takes(s)
  BY <1>0, ReturnTakes
<1>2. Stays(s) => Takes(s)
  BY <1>0, StayTakes
<1>3. (\E x : Goto(s, x)) => Takes(s)
  BY <1>0, <1>2, Staying
<1>4. \A t \in DOMAIN catalog.tables :
          DOMAIN catalog.tables[t] = {"id", "columns"} /\ IsSeq(catalog.tables[t].columns)
  BY TablesAreDefined
<1>5. \A t \in DOMAIN catalog.tables : (\E x : Local(s, [sess[s] EXCEPT !.pc = x, !.def = catalog.tables[t]])) => Takes(s)
  BY <1>0, <1>4, DefTaken
<1>6. CASE DropNext(s)
  <2>1. Local(s, [sess[s] EXCEPT !.todo = Tail(@)])
    BY <1>6 DEF DropNext
  <2>2. QED
    BY <1>0, <1>2, <2>1, Staying
<1>7. CASE DropLookup(s) \/ TableCheck(s) \/ IndexTable(s)
  BY <1>1, <1>5, <1>7 DEF DropLookup, TableCheck, IndexTable, HasTable
<1>8. CASE DropList(s)
  <2>1. \E x, y : Local(s, [sess[s] EXCEPT !.pc = x, !.todo = y])
    BY <1>8 DEF DropList
  <2>2. QED
    BY <1>0, <1>2, <2>1, Staying
<1>9. CASE \/ DropRemove(s) \/ TableEnter(s) \/ LeaveTx(s) \/ AlterValidate(s) \/ AlterWrite(s)
           \/ IndexMake(s) \/ IndexEnter(s) \/ IndexOwner(s) \/ IndexUnmake(s)
  BY <1>1, <1>3, <1>9
     DEF DropRemove, TableEnter, LeaveTx, AlterValidate, AlterWrite, IndexMake, IndexEnter, IndexOwner, IndexUnmake
<1>10. CASE AlterApply(s)
  <2>1. PICK alter, def, columns : /\ alter = sess[s].stmt /\ def = catalog.tables[alter.table]
                                   /\ columns = Altered(alter, def.columns)
    OBVIOUS
  <2>2. \/ \E x : Return(s, x)
        \/ \E x : Goto(s, x)
        \/ /\ alter.op \in {"AddColumn", "DropColumn", "RenameColumn"} /\ HasTable(catalog, alter.table)
           /\ alter.op # "AddColumn" => alter.name \in ColumnNames(def.columns)
           /\ Local(s, [sess[s] EXCEPT !.pc = "write", !.def.columns = columns])
        \/ /\ HasTable(catalog, alter.table)
           /\ \E w : Local(s, [sess[s] EXCEPT !.pc = "work", !.def = def, !.todo = w])
    BY <1>10, <2>1 DEF AlterApply
  <2>3. HasTable(catalog, alter.table) => DOMAIN def = {"id", "columns"} /\ IsSeq(def.columns)
    BY <1>4, <2>1 DEF HasTable
  <2>4. CASE /\ alter.op \in {"AddColumn", "DropColumn", "RenameColumn"} /\ HasTable(catalog, alter.table)
             /\ alter.op # "AddColumn" => alter.name \in ColumnNames(def.columns)
             /\ Local(s, [sess[s] EXCEPT !.pc = "write", !.def.columns = columns])
    <3>1. PICK old : old = def.columns
      OBVIOUS
    <3>2. IsSeq(Altered(alter, old))
      BY <2>3, <2>4, <3>1, AlteredIsList
    <3>3. IsSeq(columns)
      BY <2>1, <3>1, <3>2
    <3>4. QED
      BY <1>0, <2>4, <3>3, ColumnsTaken
  <2>5. CASE /\ HasTable(catalog, alter.table)
             /\ \E w : Local(s, [sess[s] EXCEPT !.pc = "work", !.def = def, !.todo = w])
    BY <1>0, <2>3, <2>5, DefTaken
  <2>6. QED
    BY <1>1, <1>3, <2>2, <2>4, <2>5
<1>11. CASE IndexCheck(s)
  <2>1. PICK c, d : c = <<catalog.indexes[sess[s].stmt.index]>>
                    /\ d = [id |-> catalog.indexes[sess[s].stmt.index].table, columns |-> c]
    OBVIOUS
  <2>2. IsSeq(c)
    <3>1. PICK e : c = <<e>>
      BY <2>1
    <3>2. c \in Seq({e})
      BY <3>1
    <3>3. QED
      BY <3>2, SeqOfItsOwn
  <2>3. DOMAIN d = {"id", "columns"} /\ d.columns = c
    BY <2>1
  <2>4. (\E x : Return(s, x)) \/ (\E x : Goto(s, x)) \/ \E x : Local(s, [sess[s] EXCEPT !.pc = x, !.def = d])
    BY <1>11, <2>1 DEF IndexCheck
  <2>5. CASE \E x : Local(s, [sess[s] EXCEPT !.pc = x, !.def = d])
    BY <1>0, <2>2, <2>3, <2>5, DefTaken
  <2>6. QED
    BY <1>1, <1>3, <2>4, <2>5
<1>12. QED
  BY <1>6, <1>7, <1>8, <1>9, <1>10, <1>11

\* What the steps do to the catalog: each of its changes keeps it consistent.
LEMMA CatalogStep ==
    ASSUME Consistent(catalog), NEW s, KnowsColumns(sess[s]), SessionStep(s)
    PROVE  Consistent(catalog')
<1>0. IsSeq(sess[s].def.columns)
  BY DEF KnowsColumns
<1>1. CASE UNCHANGED catalog
  BY <1>1, Zenon
<1>2. CASE CreateDefine(s)
  <2>1. catalog' = AddTable(catalog, sess[s].stmt.table, sess[s].def.columns)
    BY <1>2 DEF CreateDefine
  <2>2. QED
    BY <1>0, <2>1, AddTableConsistent
<1>3. CASE MakePk(s)
  <2>1. \E t, i, c : catalog' = AddPkIndex(catalog, t, i, c)
    BY <1>3 DEF MakePk
  <2>2. QED
    BY <2>1, AddPkIndexConsistent
<1>4. CASE MakeIndex(s) \/ IndexMake(s)
  <2>1. UNCHANGED catalog \/ \E n, i, c, u : catalog' = AddIndex(catalog, n, i, c, u)
    BY <1>4 DEF MakeIndex, IndexMake
  <2>2. QED
    BY <1>1, <2>1, AddIndexConsistent
<1>5. CASE DropNext(s) \/ IndexUnmake(s)
  <2>1. \E n : catalog' = DropIndex(catalog, n)
    BY <1>5 DEF DropNext, IndexUnmake
  <2>2. QED
    BY <2>1, DropIndexConsistent
<1>6. CASE DropRemove(s)
  <2>1. \E t : catalog' = RemoveTable(catalog, t)
    BY <1>6 DEF DropRemove
  <2>2. QED
    BY <2>1, RemoveTableConsistent
<1>7. CASE AlterWrite(s)
  <2>1. \/ UNCHANGED catalog
        \/ /\ HasTable(catalog, sess[s].stmt.table)
           /\ catalog' = UpdateTable(catalog, sess[s].stmt.table, sess[s].def.columns)
    BY <1>7 DEF AlterWrite
  <2>2. QED
    BY <1>0, <1>1, <2>1, UpdateTableConsistent
<1>8. CASE \/ Start(s) \/ CreateCheck(s) \/ CreateBegin(s) \/ CreatePrepare(s) \/ CreateCommit(s) \/ CommitRecord(s)
           \/ CheckFk(s) \/ LogPrev(s) \/ LogCreate(s) \/ CreateAbort(s) \/ AbortRecord(s)
           \/ DropLookup(s) \/ DropList(s) \/ TableCheck(s) \/ TableEnter(s) \/ LeaveTx(s)
           \/ AlterValidate(s) \/ AlterApply(s)
           \/ IndexCheck(s) \/ IndexTable(s) \/ IndexEnter(s) \/ IndexOwner(s)
  <2>1. UNCHANGED catalog
    BY <1>8 DEF Start, CreateCheck, CreateBegin, CreatePrepare, CreateCommit, CommitRecord, CheckFk, LogPrev, LogCreate,
                CreateAbort, AbortRecord, DropLookup, DropList, TableCheck, TableEnter, LeaveTx, AlterValidate,
                AlterApply, IndexCheck, IndexTable, IndexEnter, IndexOwner, OnlyLocal, OnlyWal, OnlyTx
  <2>2. QED
    BY <1>1, <2>1
<1>9. QED
  BY <1>2, <1>3, <1>4, <1>5, <1>6, <1>7, <1>8 DEF SessionStep

\* The places steps are taken from.
LEMMA StepIsReady ==
    ASSUME NEW s, StatementOK(sess[s]), KnowsColumns(sess[s]), SessionStep(s)
    PROVE  Start(s) \/ Ready(s)
<1>1. SUFFICES ASSUME ~Start(s) PROVE sess[s].pc # "idle"
  BY DEF Ready, StatementOK, KnowsColumns
<1>2. QED
  BY <1>1 DEF SessionStep, At, Doing, Dropping, CreateCheck, CreateBegin, CreatePrepare, CreateDefine, CreateCommit,
              CommitRecord, MakePk, MakeIndex, CheckFk, LogPrev, LogCreate, CreateAbort, AbortRecord, DropNext,
              DropLookup, DropList, DropRemove, TableCheck, TableEnter, LeaveTx, AlterValidate, AlterApply, AlterWrite,
              IndexCheck, IndexTable, IndexMake, IndexEnter, IndexOwner, IndexUnmake

\* A statement starts.
LEMMA StartTakes ==
    ASSUME NEW s, Start(s)
    PROVE  Takes(s)
<1>1. PICK stmt \in Statements : Local(s, [Idle EXCEPT !.pc = "check", !.stmt = stmt, !.before = catalog])
  BY DEF Start
<1>2. PICK me : me = [Idle EXCEPT !.pc = "check", !.stmt = stmt, !.before = catalog] /\ Local(s, me)
  BY <1>1
<1>3. me.def = NoDef /\ me.stmt = stmt
  BY <1>2 DEF Idle
<1>4. DOMAIN NoDef = {"id", "columns"} /\ NoDef.columns = <<>>
  BY DEF NoDef
<1>5. IsSeq(<<>>)
  BY EmptySeq, SeqOfItsOwn
<1>6. KnowsColumns(me)
  BY <1>3, <1>4, <1>5 DEF KnowsColumns
<1>7. QED
  BY <1>2, <1>6 DEF Takes

\* The invariant of the catalog and the sessions.
THEOREM CatalogInvariant ==
    DdlSpec => []CatalogIInv
<1>1. DdlInit => CatalogIInv
  <2>1. SUFFICES ASSUME DdlInit PROVE CatalogIInv
    OBVIOUS
  <2>2. Consistent(catalog)
    BY <2>1, DdlAssumption DEF DdlInit
  <2>3. Idle.pc = "idle" /\ Idle.def = NoDef /\ DOMAIN NoDef = {"id", "columns"} /\ NoDef.columns = <<>>
    BY DEF Idle, NoDef
  <2>4. IsSeq(<<>>)
    BY EmptySeq, SeqOfItsOwn
  <2>5. KnowsColumns(Idle)
    BY <2>3, <2>4 DEF KnowsColumns
  <2>6. QED
    BY <2>1, <2>2, <2>5 DEF DdlInit, CatalogIInv
<1>2. CatalogIInv /\ DdlIInv /\ [DdlNext]_ddlVars => CatalogIInv'
  <2>1. SUFFICES ASSUME CatalogIInv, DdlIInv, [DdlNext]_ddlVars PROVE CatalogIInv'
    OBVIOUS
  <2>2. CASE Tick \/ UNCHANGED ddlVars
    BY <2>1, <2>2 DEF Tick, ddlVars, CatalogIInv, KnowsColumns
  <2>3. ASSUME NEW s \in Sessions, SessionStep(s) PROVE CatalogIInv'
    <3>1. StatementOK(sess[s]) /\ KnowsColumns(sess[s]) /\ Consistent(catalog) /\ DOMAIN sess = Sessions
      BY <2>1 DEF DdlIInv, StatementsOK, CatalogIInv
    <3>2. Consistent(catalog')
      BY <2>3, <3>1, CatalogStep
    <3>3. Start(s) \/ Ready(s)
      BY <2>3, <3>1, StepIsReady
    <3>4. Takes(s)
      <4>1. CASE Start(s)
        BY <4>1, StartTakes
      <4>2. CASE Ready(s) /\ ~Start(s)
        BY <2>3, <3>1, <4>2, CreateTakes, OtherTakes DEF SessionStep
      <4>3. QED
        BY <3>3, <4>1, <4>2
    <3>5. PICK me : Local(s, me) /\ KnowsColumns(me)
      BY <3>4 DEF Takes
    <3>6. sess' = [sess EXCEPT ![s] = me]
      BY <3>5 DEF Local
    <3>7. \A o \in Sessions : sess'[o] = IF o = s THEN me ELSE sess[o]
      BY <3>1, <3>6
    <3>8. \A o \in Sessions : KnowsColumns(sess'[o])
      BY <2>1, <3>5, <3>7 DEF CatalogIInv
    <3>9. QED
      BY <3>2, <3>8 DEF CatalogIInv, KnowsColumns
  <2>4. QED
    BY <2>1, <2>2, <2>3 DEF DdlNext
<1>3. QED
  BY <1>1, <1>2, DdlInvariant, PTL DEF DdlSpec

\* Whatever the sessions interleave, every index is listed for its table, and pg_column
\* shows the columns of every table (catalog/table.rs, catalog/index.rs).
THEOREM CatalogAlwaysAgrees ==
    DdlSpec => []CatalogAgrees
<1>1. CatalogIInv => CatalogAgrees
  BY DEF CatalogIInv, Consistent, CatalogAgrees
<1>2. QED
  BY <1>1, CatalogInvariant, PTL

-----------------------------------------------------------------------------
(* Atomic statements: the invariant                                        *)
(*                                                                         *)
(* As long as no two statements have run at the same time, the one that    *)
(* runs knows how far the catalog has come from the one it started with    *)
(* (before): not at all, by a new table and indexes of its id alone        *)
(* (Built), or by some of the indexes of one table.                        *)

\* The places of a statement that has changed nothing yet.
UntouchedPcs ==
    {"check", "begin", "prepare", "define", "enter", "validate", "apply", "write", "table", "make", "owner", "unmake"}

KindOK(me) ==
    /\ me.pc \in {"validate", "apply", "write"} => me.stmt.kind = "AlterTable"
    /\ me.pc \in {"table", "make"} => me.stmt.kind = "CreateIndex"
    /\ me.pc \in {"owner", "unmake"} => me.stmt.kind = "DropIndex"
    /\ me.pc \in {"lookup", "list", "remove", "work"} => me.stmt.kind \notin {"CreateIndex", "DropIndex"}

\* The table of the definition a statement holds is there.
Holds(me, cat) == HasTable(cat, me.stmt.table) /\ cat.tables[me.stmt.table].id = me.def.id

\* The indexes are the same but for those of one table.
OthersStay(old, new, tid) ==
    /\ \A n \in DOMAIN old.indexes :
           old.indexes[n].table = tid \/ (HasIndex(new, n) /\ new.indexes[n] = old.indexes[n])
    /\ \A n \in DOMAIN new.indexes :
           new.indexes[n].table = tid \/ (HasIndex(old, n) /\ old.indexes[n] = new.indexes[n])

\* CREATE TABLE has entered its table, of a new id.
Built(me, cat) ==
    /\ ~HasTable(me.before, me.stmt.table) /\ Holds(me, cat)
    /\ Without(cat.tables, me.stmt.table) = me.before.tables
    /\ me.before.indexes = [n \in DOMAIN me.before.indexes |-> me.before.indexes[n]]
    /\ \A n \in DOMAIN me.before.indexes : me.before.indexes[n].table # me.def.id
    /\ OthersStay(me.before, cat, me.def.id)
Unbuilt(me, cat) == Same(me.before, cat) /\ ~HasTable(cat, me.stmt.table)

\* What may be dropped by name: an index of the table, or none.
Own(cat, n, tid) == HasIndex(cat, n) => cat.indexes[n].table = tid
MadeOwn(me, cat) == IsSeq(me.made) /\ \A n \in ToSet(me.made) : Own(cat, n, me.def.id)
DropsOwn(me, cat) == IsSeq(me.todo) /\ \A w \in ToSet(me.todo) : Own(cat, w.name, me.def.id)

\* Every index of the table is still to be dropped.
Covers(me, cat) ==
    \A n \in DOMAIN cat.indexes : cat.indexes[n].table = me.def.id => \E w \in ToSet(me.todo) : w.name = n

\* The work of a statement on a table: an index under a name of its own, kept for the
\* clean-up under that name, or under t_pkey.
WorkOK(table, w) ==
    \/ w.do = "pk" /\ w.made \in {<<>>, <<<<table, "pkey">>>>}
    \/ w.do = "index" /\ ~Reserved(w.name) /\ w.made \in {<<>>, <<w.name>>}
    \/ w.do = "fk" /\ w.made = <<>>
WorksOK(me) == IsSeq(me.todo) /\ \A w \in ToSet(me.todo) : WorkOK(me.stmt.table, w)

\* A statement that is done.
Effect(stmt, old, new) == Atomic(stmt, "ok", old, new)

\* The four stretches of statements that change the catalog.
Making(me, cat) ==
    me.pc \in {"defined", "log", "work", "commit"} /\ Creating(me) =>
        Built(me, cat) /\ MadeOwn(me, cat) /\ WorksOK(me)
Altering(me, cat) ==
    me.pc = "work" /\ ~Creating(me) =>
        \/ me.todo = <<>> /\ Effect(me.stmt, me.before, cat)
        \/ Len(me.todo) = 1 /\ WorksOK(me) /\ Same(me.before, cat) /\ Holds(me, cat)
Clearing(me, cat) ==
    /\ me.pc = "abort" => (Unbuilt(me, cat) /\ me.made = <<>>) \/ (Built(me, cat) /\ MadeOwn(me, cat))
    /\ me.pc \in {"undo", "lookup"} /\ Creating(me) =>
           (Unbuilt(me, cat) /\ me.todo = <<>>) \/ (Built(me, cat) /\ DropsOwn(me, cat))
Removing(me, cat) ==
    /\ me.pc = "lookup" /\ ~Creating(me) => Same(me.before, cat) /\ me.todo = <<>>
    /\ me.pc = "list" => /\ Holds(me, cat)
                         /\ IF Creating(me) THEN Built(me, cat) ELSE Same(me.before, cat)
    /\ me.pc = "remove" =>
           /\ Holds(me, cat) /\ DropsOwn(me, cat) /\ Covers(me, cat)
           /\ IF Creating(me) THEN Built(me, cat)
              ELSE cat.tables = me.before.tables /\ OthersStay(me.before, cat, me.def.id)
    /\ me.pc = "leave" => Effect(me.stmt, me.before, cat)

Progress(me, cat) ==
    /\ KindOK(me)
    /\ me.pc \in UntouchedPcs => Same(me.before, cat) /\ me.made = <<>> /\ me.todo = <<>>
    /\ me.pc \in {"begin", "prepare", "define"} => ~HasTable(cat, me.stmt.table)
    /\ me.pc = "make" => Holds(me, cat)
    /\ Making(me, cat) /\ Altering(me, cat) /\ Clearing(me, cat) /\ Removing(me, cat)

\* The transaction it has begun, and the DDL transaction it has entered, are there.
Tied(me, on, act, entered) ==
    /\ on /\ (me.pc \in {"prepare", "define", "defined", "log"} \/ (me.pc = "work" /\ Creating(me))) =>
           me.tx \in DOMAIN act
    /\ \/ me.pc \in {"validate", "apply", "write", "owner", "unmake", "leave"}
       \/ me.pc \in {"lookup", "list", "remove", "work"} /\ ~Creating(me)
       => entered

Alone == \A s, o \in Sessions : Running(s) /\ Running(o) => s = o
AtomicIInv ==
    ~overlap =>
        /\ Whole(catalog) /\ Alone
        /\ \A s \in Sessions : Progress(sess[s], catalog) /\ Tied(sess[s], walOn, active, ddlTx)

-----------------------------------------------------------------------------
(* Atomic statements: lists of work *)

\* The first element and the others.
LEMMA HeadAndTail ==
    ASSUME NEW s, IsSeq(s), s # <<>>
    PROVE  /\ Head(s) \in ToSet(s) /\ IsSeq(Tail(s)) /\ ToSet(Tail(s)) \subseteq ToSet(s)
           /\ \A x \in ToSet(s) : x = Head(s) \/ x \in ToSet(Tail(s))
           /\ Len(s) = 1 => Tail(s) = <<>>
<1>1. PICK T : T = ToSet(s)
  OBVIOUS
<1>2. s \in Seq(T)
  BY <1>1 DEF IsSeq
<1>3. PICK n, h, t : n = Len(s) /\ h = Head(s) /\ t = Tail(s)
  OBVIOUS
<1>4. n \in Nat \ {0} /\ DOMAIN s = 1 .. n
  BY <1>2, <1>3, EmptySeq
<1>5. /\ h = s[1] /\ t \in Seq(T) /\ Len(t) = n - 1 /\ DOMAIN t = 1 .. (n - 1)
      /\ \A i \in 1 .. (n - 1) : t[i] = s[i + 1]
  BY <1>2, <1>3, <1>4, HeadTailProperties
<1>6. h \in ToSet(s)
  BY <1>4, <1>5 DEF ToSet
<1>7. IsSeq(t) /\ ToSet(t) \subseteq T
  BY <1>5, SeqOfItsOwn
<1>8. ASSUME NEW x \in ToSet(s), x # h
      PROVE  x \in ToSet(t)
  <2>1. PICK i \in 1 .. n : x = s[i]
    BY <1>4, <1>8 DEF ToSet
  <2>2. i # 1
    BY <1>5, <1>8, <2>1
  <2>3. PICK j : j = i - 1
    OBVIOUS
  <2>4. j \in 1 .. (n - 1) /\ j + 1 = i
    BY <1>4, <2>2, <2>3
  <2>5. t[j] = x
    BY <1>5, <2>1, <2>4
  <2>6. QED
    BY <1>5, <2>4, <2>5 DEF ToSet
<1>9. n = 1 => t = <<>>
  BY <1>5, EmptySeq
<1>10. QED
  BY <1>1, <1>3, <1>6, <1>7, <1>8, <1>9

\* The empty list, and the list of one.
LEMMA ShortLists ==
    /\ IsSeq(<<>>) /\ ToSet(<<>>) = {}
    /\ \A x : IsSeq(<<x>>) /\ ToSet(<<x>>) = {x} /\ Len(<<x>>) = 1
<1>1. DOMAIN <<>> = {}
  OBVIOUS
<1>2. IsSeq(<<>>) /\ ToSet(<<>>) = {}
  <2>1. <<>> \in Seq({})
    OBVIOUS
  <2>2. QED
    BY <1>1, <2>1, SeqOfItsOwn DEF ToSet
<1>3. ASSUME NEW x
      PROVE  IsSeq(<<x>>) /\ ToSet(<<x>>) = {x} /\ Len(<<x>>) = 1
  <2>1. DOMAIN <<x>> = 1 .. 1 /\ <<x>>[1] = x /\ (\A i \in 1 .. 1 : i = 1) /\ Len(<<x>>) = 1
    OBVIOUS
  <2>2. <<x>> \in Seq({x})
    OBVIOUS
  <2>3. ToSet(<<x>>) = {x}
    BY <2>1 DEF ToSet
  <2>4. QED
    BY <2>1, <2>2, <2>3, SeqOfItsOwn
<1>4. QED
  BY <1>2, <1>3

\* A list made of 1 .. n has the elements it is made of.
LEMMA Listed ==
    ASSUME NEW n \in Nat, NEW f, f = [k \in 1 .. n |-> f[k]]
    PROVE  IsSeq(f) /\ Len(f) = n /\ \A x \in ToSet(f) : \E k \in 1 .. n : x = f[k]
<1>1. PICK T : T = {f[k] : k \in 1 .. n}
  OBVIOUS
<1>2. f \in Seq(T) /\ Len(f) = n /\ DOMAIN f = 1 .. n
  BY <1>1
<1>3. QED
  BY <1>2, SeqOfItsOwn DEF ToSet

\* The function FlattenSeq is defined with, of any length.
Joins(f, F, n) == F = [k \in 1 .. n |-> IF k = 1 THEN f[k] ELSE F[k - 1] \o f[k]]

\* There is one for each length, and its values are as long as nothing else is in the lists.
LEMMA JoinsExists ==
    ASSUME NEW f, NEW n \in Nat
    PROVE  \E F : Joins(f, F, n)
<1>1. SUFFICES ASSUME ~ \E F : Joins(f, F, n) PROVE FALSE
  OBVIOUS
<1> DEFINE Ns == {m \in Nat : ~ \E F : Joins(f, F, m)}
<1>2. Ns \in SUBSET Nat /\ n \in Ns
  BY <1>1
<1>3. PICK m \in Ns : \A i \in Ns : m <= i
  BY <1>2, LeastNumber
<1>4. m \in Nat /\ ~ \E F : Joins(f, F, m)
  BY <1>3
<1>5. CASE m = 0
  <2>1. PICK F : F = [k \in 1 .. 0 |-> <<>>]
    OBVIOUS
  <2>2. \A k \in 1 .. 0 : FALSE
    OBVIOUS
  <2>3. F = [k \in 1 .. 0 |-> IF k = 1 THEN f[k] ELSE F[k - 1] \o f[k]]
    BY <2>1, <2>2, Zenon
  <2>4. QED
    BY <1>4, <1>5, <2>3, Zenon DEF Joins
<1>6. CASE m # 0
  <2>1. m - 1 \in Nat /\ m - 1 \notin Ns
    BY <1>3, <1>4, <1>6
  <2>2. PICK F : Joins(f, F, m - 1)
    BY <2>1
  <2>3. \A k \in 1 .. (m - 1) : F[k] = IF k = 1 THEN f[k] ELSE F[k - 1] \o f[k]
    BY <2>2, Zenon DEF Joins
  <2>4. PICK H : H = [k \in 1 .. m |-> IF k # m THEN F[k] ELSE IF k = 1 THEN f[k] ELSE F[k - 1] \o f[k]]
    OBVIOUS
  <2>5. \A k \in 1 .. m : k # 1 => H[k - 1] = F[k - 1]
    <3>1. \A k \in 1 .. m : k # 1 => k - 1 \in 1 .. m /\ k - 1 # m
      BY <1>4
    <3>2. QED
      BY <2>4, <3>1
  <2>6. \A k \in 1 .. m : H[k] = IF k = 1 THEN f[k] ELSE H[k - 1] \o f[k]
    <3>1. TAKE k \in 1 .. m
    <3>2. CASE k = m
      BY <2>4, <2>5, <3>2
    <3>3. CASE k # m
      <4>1. k \in 1 .. (m - 1)
        BY <1>4, <3>3
      <4>2. H[k] = F[k]
        BY <2>4, <3>3
      <4>3. QED
        BY <2>3, <2>5, <4>1, <4>2
    <3>4. QED
      BY <3>2, <3>3
  <2>7. H = [k \in 1 .. m |-> H[k]]
    BY <2>4, Zenon
  <2>8. [k \in 1 .. m |-> H[k]] = [k \in 1 .. m |-> IF k = 1 THEN f[k] ELSE H[k - 1] \o f[k]]
    BY <2>6, Zenon
  <2>9. Joins(f, H, m)
    BY <2>7, <2>8, Zenon DEF Joins
  <2>10. QED
    BY <1>4, <2>9
<1>7. QED
  BY <1>5, <1>6

\* What is in the lists is in the list of all.
LEMMA FlattenIn ==
    ASSUME NEW n \in Nat, NEW f, f = [k \in 1 .. n |-> f[k]], NEW T, \A k \in 1 .. n : f[k] \in Seq(T)
    PROVE  FlattenSeq(f) \in Seq(T)
<1>1. Len(f) = n
  BY Listed
<1>2. CASE n = 0
  <2>1. FlattenSeq(f) = f
    BY <1>1, <1>2 DEF FlattenSeq
  <2>2. f \in Seq(T)
    BY <1>2
  <2>3. QED
    BY <2>1, <2>2
<1>3. CASE n # 0
  <2> DEFINE C == CHOOSE H : Joins(f, H, Len(f))
  <2>1. Joins(f, C, Len(f))
    <3>1. \E F : Joins(f, F, Len(f))
      BY <1>1, JoinsExists
    <3>2. QED
      BY <3>1, Zenon
  <2>2. FlattenSeq(f) = C[Len(f)]
    <3>1. Len(f) # 0
      BY <1>1, <1>3
    <3>2. QED
      BY <3>1, Zenon DEF FlattenSeq, Joins
  <2>3. PICK F : F = C
    OBVIOUS
  <2>4. Joins(f, F, n) /\ FlattenSeq(f) = F[n]
    BY <1>1, <2>1, <2>2, <2>3
  <2>5. \A k \in 1 .. n : F[k] = IF k = 1 THEN f[k] ELSE F[k - 1] \o f[k]
    BY <2>4, Zenon DEF Joins
  <2>6. SUFFICES ASSUME F[n] \notin Seq(T) PROVE FALSE
    BY <2>4
  <2> DEFINE Ks == {k \in 1 .. n : F[k] \notin Seq(T)}
  <2>7. Ks \in SUBSET Nat /\ n \in Ks
    BY <1>3, <2>6
  <2>8. PICK k \in Ks : \A j \in Ks : k <= j
    BY <2>7, LeastNumber
  <2>9. k \in 1 .. n /\ F[k] \notin Seq(T)
    BY <2>8
  <2>10. k # 1
    BY <2>5, <2>9
  <2>11. k - 1 \in 1 .. n /\ ~(k <= k - 1)
    BY <2>9, <2>10
  <2>12. F[k - 1] \in Seq(T)
    BY <2>8, <2>11
  <2>13. F[k] = F[k - 1] \o f[k] /\ f[k] \in Seq(T)
    BY <2>5, <2>9, <2>10
  <2>14. F[k - 1] \o f[k] \in Seq(T)
    BY <2>12, <2>13, ConcatProperties
  <2>15. QED
    BY <2>9, <2>13, <2>14
<1>4. QED
  BY <1>2, <1>3

\* A list of work that is sound.
AllSound(table, todo) == IsSeq(todo) /\ \A w \in ToSet(todo) : WorkOK(table, w)

\* If the work in each list is sound, so is that in the list of all.
LEMMA FlattenSound ==
    ASSUME NEW n \in Nat, NEW f, f = [k \in 1 .. n |-> f[k]], NEW table, \A k \in 1 .. n : AllSound(table, f[k])
    PROVE  AllSound(table, FlattenSeq(f))
<1>1. PICK T : T = UNION {ToSet(f[k]) : k \in 1 .. n}
  OBVIOUS
<1>2. \A w \in T : WorkOK(table, w)
  BY <1>1 DEF AllSound
<1>3. ASSUME NEW k \in 1 .. n
      PROVE  f[k] \in Seq(T)
  <2>1. PICK R : R = ToSet(f[k])
    OBVIOUS
  <2>2. f[k] \in Seq(R)
    BY <2>1 DEF AllSound, IsSeq
  <2>3. R \subseteq T
    BY <1>1, <2>1
  <2>4. QED
    BY <2>2, <2>3, SeqMonotonic
<1>4. FlattenSeq(f) \in Seq(T)
  BY <1>3, FlattenIn
<1>5. QED
  BY <1>2, <1>4, SeqOfItsOwn DEF AllSound

\* The names of the indexes of constraints are not reserved.
LEMMA NotReserved ==
    ASSUME NamesApart, NEW table, NEW ref, NEW columns, IsSeq(columns)
    PROVE  ~Reserved(UniqueName(table, columns)) /\ ~Reserved(FkName(table, ref, columns))
<1>1. PICK T, R : R = ToSet(columns) /\ T = R \cup {"unique", "fk", table, ref}
  OBVIOUS
<1>2. columns \in Seq(T)
  <2>1. columns \in Seq(R) /\ R \subseteq T
    BY <1>1 DEF IsSeq
  <2>2. QED
    BY <2>1, SeqMonotonic
<1>3. PICK a, b : a = <<"unique", table>> /\ b = <<"fk", table, ref>>
  OBVIOUS
<1>4. a \in Seq(T) /\ b \in Seq(T) /\ Len(a) = 2 /\ Len(b) = 3 /\ a[1] = "unique" /\ b[1] = "fk"
  BY <1>1, <1>3
<1>5. PICK u, v : u = a \o columns /\ v = b \o columns
  OBVIOUS
<1>6. u[1] = "unique" /\ v[1] = "fk" /\ Len(v) # 2
  <2>1. Len(columns) \in Nat
    BY <1>2, LenProperties
  <2>2. /\ Len(b \o columns) = Len(b) + Len(columns)
        /\ \A i \in 1 .. (Len(b) + Len(columns)) : (b \o columns)[i] = IF i <= Len(b) THEN b[i] ELSE columns[i - Len(b)]
    BY <1>2, <1>4, ConcatProperties
  <2>3. \A i \in 1 .. (Len(a) + Len(columns)) : (a \o columns)[i] = IF i <= Len(a) THEN a[i] ELSE columns[i - Len(a)]
    BY <1>2, <1>4, ConcatProperties
  <2>4. 1 \in 1 .. (Len(a) + Len(columns)) /\ 1 \in 1 .. (Len(b) + Len(columns)) /\ 1 <= Len(a) /\ 1 <= Len(b)
        /\ Len(b) + Len(columns) # 2
    BY <1>4, <2>1
  <2>5. QED
    BY <1>4, <1>5, <2>2, <2>3, <2>4
<1>7. ASSUME NEW t \in Named
      PROVE  /\ u # PkName(t) /\ u # <<t, "pkey">>
             /\ v # PkName(t) /\ v # <<t, "pkey">>
  <2>1. PkName(t)[1] = "pk" /\ <<t, "pkey">>[1] = t /\ Len(<<t, "pkey">>) = 2
    BY DEF PkName
  <2>2. t # "unique"
    BY DEF NamesApart
  <2>3. QED
    BY <1>6, <2>1, <2>2
<1>8. UniqueName(table, columns) = u /\ FkName(table, ref, columns) = v
  BY <1>3, <1>5 DEF UniqueName, FkName
<1>9. QED
  BY <1>7, <1>8 DEF Reserved

\* The three kinds of work.
LEMMA WorkSound ==
    ASSUME NamesApart, NEW table, NEW columns, NEW made
    PROVE  /\ made \in {<<>>, <<<<table, "pkey">>>>} => AllSound(table, <<PkWork(columns, made)>>)
           /\ \A name, unique : ~Reserved(name) /\ made \in {<<>>, <<name>>} =>
                  AllSound(table, <<IndexWork(name, columns, unique, made)>>)
           /\ \A con : AllSound(table, <<FkWork(con)>>)
           /\ AllSound(table, <<>>)
<1>1. ASSUME NEW w, WorkOK(table, w)
      PROVE  AllSound(table, <<w>>)
  BY <1>1, ShortLists DEF AllSound
<1>2. AllSound(table, <<>>)
  BY ShortLists DEF AllSound
<1>3. ASSUME made \in {<<>>, <<<<table, "pkey">>>>}
      PROVE  AllSound(table, <<PkWork(columns, made)>>)
  <2>1. PICK w : w = PkWork(columns, made)
    OBVIOUS
  <2>2. w.do = "pk" /\ w.made = made
    BY <2>1 DEF PkWork, Work
  <2>3. QED
    BY <1>1, <1>3, <2>1, <2>2 DEF WorkOK
<1>4. ASSUME NEW name, NEW unique, ~Reserved(name), made \in {<<>>, <<name>>}
      PROVE  AllSound(table, <<IndexWork(name, columns, unique, made)>>)
  <2>1. PICK w : w = IndexWork(name, columns, unique, made)
    OBVIOUS
  <2>2. w.do = "index" /\ w.made = made /\ w.name = name
    BY <2>1 DEF IndexWork, Work
  <2>3. QED
    BY <1>1, <1>4, <2>1, <2>2 DEF WorkOK
<1>5. ASSUME NEW con
      PROVE  AllSound(table, <<FkWork(con)>>)
  <2>1. PICK w : w = FkWork(con)
    OBVIOUS
  <2>2. w.do = "fk" /\ w.made = <<>>
    BY <2>1 DEF FkWork, Work
  <2>3. QED
    BY <1>1, <2>1, <2>2 DEF WorkOK
<1>6. QED
  BY <1>2, <1>3, <1>4, <1>5

\* Two lists of work.
LEMMA SoundJoined ==
    ASSUME NEW table, NEW s, AllSound(table, s), NEW t, AllSound(table, t)
    PROVE  AllSound(table, s \o t)
<1>1. IsSeq(s) /\ IsSeq(t)
  BY DEF AllSound
<1>2. IsSeq(s \o t) /\ ToSet(s \o t) = ToSet(s) \cup ToSet(t)
  BY <1>1, Joined
<1>3. QED
  BY <1>2 DEF AllSound

\* The work of the columns.
LEMMA ColumnWorkSound ==
    ASSUME NamesApart, NEW table, NEW columns, IsSeq(columns)
    PROVE  AllSound(table, ColumnWork(table, columns))
<1>1. PICK n : n = Len(columns)
  OBVIOUS
<1>2. n \in Nat
  BY <1>1, LenProperties DEF IsSeq
<1>3. PICK f : f = [k \in 1 .. n |->
                      LET c == columns[k]
                      IN  IF c.pk THEN <<PkWork(<<c.name>>, <<>>)>>
                          ELSE IF c.unique THEN <<IndexWork(UniqueName(table, <<c.name>>), <<c.name>>, TRUE, <<>>)>>
                          ELSE <<>>]
  OBVIOUS
<1>4. ASSUME NEW k \in 1 .. n
      PROVE  AllSound(table, f[k])
  <2>1. PICK c, cs : c = columns[k] /\ cs = <<c.name>>
    OBVIOUS
  <2>2. IsSeq(cs)
    BY <2>1, ShortLists
  <2>3. ~Reserved(UniqueName(table, cs))
    BY <2>2, NotReserved
  <2>4. AllSound(table, <<>>) /\ AllSound(table, <<PkWork(cs, <<>>)>>)
    BY WorkSound
  <2>5. AllSound(table, <<IndexWork(UniqueName(table, cs), cs, TRUE, <<>>)>>)
    <3>1. PICK name : name = UniqueName(table, cs)
      OBVIOUS
    <3>2. ~Reserved(name)
      BY <2>3, <3>1
    <3>3. AllSound(table, <<IndexWork(name, cs, TRUE, <<>>)>>)
      BY <3>2, WorkSound
    <3>4. QED
      BY <3>1, <3>3
  <2>6. f[k] = IF c.pk THEN <<PkWork(cs, <<>>)>>
               ELSE IF c.unique THEN <<IndexWork(UniqueName(table, cs), cs, TRUE, <<>>)>> ELSE <<>>
    BY <1>3, <2>1
  <2>7. QED
    BY <2>4, <2>5, <2>6
<1>5. ColumnWork(table, columns) = FlattenSeq(f)
  BY <1>1, <1>3, Zenon DEF ColumnWork
<1>6. f = [k \in 1 .. n |-> f[k]]
  BY <1>3, Zenon
<1>7. AllSound(table, FlattenSeq(f))
  BY <1>2, <1>4, <1>6, FlattenSound
<1>8. QED
  BY <1>5, <1>7

\* What one constraint asks for, of CREATE TABLE and of ALTER TABLE.
LEMMA OneConstraint ==
    ASSUME NamesApart, NEW table, NEW con, ConstraintOK(con), NEW uniq, uniq = UniqueName(table, con.columns),
           NEW fk, fk = FkName(table, con.ref, con.columns)
    PROVE  /\ \A made \in {<<>>, <<<<table, "pkey">>>>} : AllSound(table, <<PkWork(con.columns, made)>>)
           /\ \A made \in {<<>>, <<uniq>>} : AllSound(table, <<IndexWork(uniq, con.columns, TRUE, made)>>)
           /\ AllSound(table, <<FkWork(con)>>) /\ AllSound(table, <<>>)
           /\ AllSound(table, <<FkWork(con)>> \o <<IndexWork(fk, con.columns, FALSE, <<fk>>)>>)
           /\ AllSound(table, <<FkWork(con)>> \o <<>>)
<1>1. PICK columns : columns = con.columns
  OBVIOUS
<1>2. IsSeq(columns)
  BY <1>1 DEF ConstraintOK
<1>3. ~Reserved(uniq) /\ ~Reserved(fk)
  <2>1. PICK ref : ref = con.ref
    OBVIOUS
  <2>2. ~Reserved(UniqueName(table, columns)) /\ ~Reserved(FkName(table, ref, columns))
    BY <1>2, NotReserved
  <2>3. QED
    BY <1>1, <2>1, <2>2
<1>4. \A made \in {<<>>, <<<<table, "pkey">>>>} : AllSound(table, <<PkWork(columns, made)>>)
  BY WorkSound
<1>5. \A made \in {<<>>, <<uniq>>} : AllSound(table, <<IndexWork(uniq, columns, TRUE, made)>>)
  BY <1>3, WorkSound
<1>6. AllSound(table, <<FkWork(con)>>) /\ AllSound(table, <<>>)
  BY WorkSound
<1>7. AllSound(table, <<IndexWork(fk, columns, FALSE, <<fk>>)>>)
  BY <1>3, WorkSound
<1>8. PICK one, two, none : one = <<FkWork(con)>> /\ two = <<IndexWork(fk, columns, FALSE, <<fk>>)>> /\ none = <<>>
  OBVIOUS
<1>9. AllSound(table, one \o two) /\ AllSound(table, one \o none)
  BY <1>6, <1>7, <1>8, SoundJoined
<1>10. QED
  BY <1>1, <1>4, <1>5, <1>6, <1>8, <1>9

\* The work of the constraints of CREATE TABLE.
LEMMA ConstraintWorkSound ==
    ASSUME NamesApart, NEW table, NEW constraints, IsSeq(constraints),
           \A con \in ToSet(constraints) : ConstraintOK(con)
    PROVE  AllSound(table, ConstraintWork(table, constraints))
<1>1. PICK n, f : n = Len(constraints) /\ f = [k \in 1 .. n |-> WorkOf(table, constraints[k])]
  OBVIOUS
<1>2. n \in Nat /\ DOMAIN constraints = 1 .. n
  BY <1>1, LenProperties DEF IsSeq
<1>3. ASSUME NEW k \in 1 .. n
      PROVE  AllSound(table, f[k])
  <2>1. PICK con, uniq, fk : /\ con = constraints[k] /\ uniq = UniqueName(table, con.columns)
                             /\ fk = FkName(table, con.ref, con.columns)
    OBVIOUS
  <2>2. ConstraintOK(con)
    BY <1>2, <2>1 DEF ToSet
  <2>3. /\ \A made \in {<<>>, <<<<table, "pkey">>>>} : AllSound(table, <<PkWork(con.columns, made)>>)
        /\ \A made \in {<<>>, <<uniq>>} : AllSound(table, <<IndexWork(uniq, con.columns, TRUE, made)>>)
        /\ AllSound(table, <<>>)
        /\ AllSound(table, <<FkWork(con)>> \o <<IndexWork(fk, con.columns, FALSE, <<fk>>)>>)
        /\ AllSound(table, <<FkWork(con)>> \o <<>>)
    BY <2>1, <2>2, OneConstraint
  <2>4. WorkOf(table, con) \in
            {<<PkWork(con.columns, <<<<table, "pkey">>>>)>>, <<IndexWork(uniq, con.columns, TRUE, <<uniq>>)>>,
             <<FkWork(con)>> \o <<IndexWork(fk, con.columns, FALSE, <<fk>>)>>, <<FkWork(con)>> \o <<>>, <<>>}
    BY <2>1, <2>2 DEF WorkOf, ConstraintOK
  <2>5. f[k] = WorkOf(table, con)
    BY <1>1, <2>1
  <2>6. QED
    BY <2>3, <2>4, <2>5
<1>4. ConstraintWork(table, constraints) = FlattenSeq(f)
  BY <1>1, Zenon DEF ConstraintWork
<1>5. f = [k \in 1 .. n |-> f[k]]
  BY <1>1, Zenon
<1>6. AllSound(table, FlattenSeq(f))
  BY <1>2, <1>3, <1>5, FlattenSound
<1>7. QED
  BY <1>4, <1>6

\* That of ALTER TABLE ADD CONSTRAINT: at most one thing.
LEMMA AlterWorkSound ==
    ASSUME NamesApart, NEW table, NEW con, ConstraintOK(con)
    PROVE  /\ AllSound(table, AlterWork(table, con))
           /\ AlterWork(table, con) = <<>> \/ Len(AlterWork(table, con)) = 1
<1>1. PICK uniq, fk : uniq = UniqueName(table, con.columns) /\ fk = FkName(table, con.ref, con.columns)
  OBVIOUS
<1>2. /\ \A made \in {<<>>, <<<<table, "pkey">>>>} : AllSound(table, <<PkWork(con.columns, made)>>)
      /\ \A made \in {<<>>, <<uniq>>} : AllSound(table, <<IndexWork(uniq, con.columns, TRUE, made)>>)
      /\ AllSound(table, <<FkWork(con)>>) /\ AllSound(table, <<>>)
  BY <1>1, OneConstraint
<1>3. AlterWork(table, con) \in {<<PkWork(con.columns, <<>>)>>, <<IndexWork(uniq, con.columns, TRUE, <<>>)>>,
                                 <<FkWork(con)>>, <<>>}
  BY <1>1 DEF AlterWork, ConstraintOK
<1>4. QED
  BY <1>2, <1>3, ShortLists

-----------------------------------------------------------------------------
(* Atomic statements: what the operators do to a whole catalog *)

\* A function that is changed at an element, or has it taken out, is a function.
LEMMA StaysAFunction ==
    ASSUME NEW map, NEW key, NEW value
    PROVE  /\ Put(map, key, value) = [n \in DOMAIN Put(map, key, value) |-> Put(map, key, value)[n]]
           /\ Without(map, key) = [n \in DOMAIN Without(map, key) |-> Without(map, key)[n]]
<1>1. PICK keys, new : keys = DOMAIN map \cup {key} /\ new = Put(map, key, value)
  OBVIOUS
<1>2. new = [n \in keys |-> IF n = key THEN value ELSE map[n]]
  BY <1>1, Zenon DEF Put
<1>3. new = [n \in DOMAIN new |-> new[n]]
  BY <1>2
<1>4. PICK less, rest : less = DOMAIN map \ {key} /\ rest = Without(map, key)
  OBVIOUS
<1>5. rest = [n \in less |-> map[n]]
  BY <1>4, Zenon DEF Without
<1>6. rest = [n \in DOMAIN rest |-> rest[n]]
  BY <1>5
<1>7. QED
  BY <1>1, <1>3, <1>4, <1>6

\* An index of a table is entered.
IsAdd(cat, new, name, tid) ==
    /\ new.tables = cat.tables
    /\ \E index : index.table = tid /\ new.indexes = Put(cat.indexes, name, index)
    /\ new.listed = ListIndex(cat.listed, tid, name)

\* That is what the two operators do.
LEMMA AddsAreAdds ==
    ASSUME NEW cat, Consistent(cat), NEW name, NEW tid, NEW columns, NEW unique, NEW table
    PROVE  /\ IsAdd(cat, AddIndex(cat, name, tid, columns, unique), name, tid)
           /\ IsAdd(cat, AddPkIndex(cat, table, tid, columns), PkName(table), tid)
<1>1. DOMAIN cat = DOMAIN EmptyCatalog
  BY DEF Consistent
<1>2. IsAdd(cat, AddIndex(cat, name, tid, columns, unique), name, tid)
  <2>1. PICK new, index : /\ new = AddIndex(cat, name, tid, columns, unique)
                          /\ index = [table |-> tid, columns |-> columns, unique |-> unique, system |-> FALSE]
    OBVIOUS
  <2>2. new = [cat EXCEPT !.indexes = Put(@, name, index), !.listed = ListIndex(@, tid, name)]
    BY <2>1 DEF AddIndex
  <2>3. /\ new.tables = cat.tables /\ new.indexes = Put(cat.indexes, name, index)
        /\ new.listed = ListIndex(cat.listed, tid, name) /\ index.table = tid
    BY <1>1, <2>1, <2>2 DEF EmptyCatalog
  <2>4. QED
    BY <2>1, <2>3 DEF IsAdd
<1>3. IsAdd(cat, AddPkIndex(cat, table, tid, columns), PkName(table), tid)
  <2>1. PICK new, pk, index : /\ new = AddPkIndex(cat, table, tid, columns) /\ pk = PkName(table)
                              /\ index = [table |-> tid, columns |-> columns, unique |-> TRUE, system |-> TRUE]
    OBVIOUS
  <2>2. new = [cat EXCEPT !.indexes = Put(@, pk, index), !.listed = ListIndex(@, tid, pk)]
    BY <2>1 DEF AddPkIndex
  <2>3. /\ new.tables = cat.tables /\ new.indexes = Put(cat.indexes, pk, index)
        /\ new.listed = ListIndex(cat.listed, tid, pk) /\ index.table = tid
    BY <1>1, <2>1, <2>2 DEF EmptyCatalog
  <2>4. QED
    BY <2>1, <2>3 DEF IsAdd
<1>4. QED
  BY <1>2, <1>3

\* What is listed after it.
LEMMA ListedAfter ==
    ASSUME NEW listed, NEW tid, NEW name, \A x \in DOMAIN listed : IsSeq(listed[x]),
           NEW x \in DOMAIN ListIndex(listed, tid, name), NEW n \in ToSet(ListIndex(listed, tid, name)[x])
    PROVE  (n = name /\ x = tid) \/ (x \in DOMAIN listed /\ n \in ToSet(listed[x]))
<1>1. PICK old, names, new : /\ old = (IF tid \in DOMAIN listed THEN listed[tid] ELSE <<>>)
                             /\ names = old \o <<name>> /\ new = ListIndex(listed, tid, name)
  OBVIOUS
<1>2. new = Put(listed, tid, names)
  BY <1>1, Zenon DEF ListIndex
<1>3. IsPut(new, listed, tid, names)
  BY <1>2, PutIs
<1>4. IsSeq(old) /\ IsSeq(<<name>>) /\ ToSet(<<name>>) = {name}
  BY <1>1, ShortLists
<1>5. ToSet(names) = ToSet(old) \cup {name}
  BY <1>1, <1>4, Joined
<1>6. n \in ToSet(new[x]) /\ x \in DOMAIN new
  BY <1>1
<1>7. CASE x = tid
  <2>1. n = name \/ n \in ToSet(old)
    BY <1>3, <1>5, <1>6, <1>7 DEF IsPut
  <2>2. tid \notin DOMAIN listed => ToSet(old) = {}
    BY <1>1, ShortLists
  <2>3. QED
    BY <1>1, <1>7, <2>1, <2>2
<1>8. CASE x # tid
  BY <1>3, <1>6, <1>8 DEF IsPut
<1>9. QED
  BY <1>7, <1>8

\* The index may have the name of a primary key only if it is of that table.
MayBeNamed(cat, name, tid) ==
    \/ ~Reserved(name)
    \/ \E t \in Named : name = PkName(t) /\ HasTable(cat, t) /\ cat.tables[t].id = tid

\* A whole catalog stays whole when a table there is gets an index of such a name.
LEMMA WholeAfterAdd ==
    ASSUME NamesApart, NEW cat, Consistent(cat), Whole(cat), NEW new, NEW name, NEW tid, IsAdd(cat, new, name, tid),
           \E t \in DOMAIN cat.tables : cat.tables[t].id = tid, Own(cat, name, tid), MayBeNamed(cat, name, tid)
    PROVE  Whole(new)
<1>1. PICK index : index.table = tid /\ new.indexes = Put(cat.indexes, name, index)
  BY DEF IsAdd
<1>2. IsPut(new.indexes, cat.indexes, name, index) /\ new.tables = cat.tables
  BY <1>1, PutIs DEF IsAdd
<1>3. new.indexes = [n \in DOMAIN new.indexes |-> new.indexes[n]]
  BY <1>1, StaysAFunction
<1>4. \A n \in DOMAIN new.indexes : (n = name /\ new.indexes[n].table = tid)
                                    \/ (n # name /\ n \in DOMAIN cat.indexes /\ new.indexes[n] = cat.indexes[n])
  BY <1>1, <1>2 DEF IsPut
<1>5. Owned(new)
  BY <1>2, <1>4 DEF Whole, Owned
<1>6. ASSUME NEW x \in DOMAIN new.listed, NEW n \in ToSet(new.listed[x])
      PROVE  HasIndex(new, n) /\ new.indexes[n].table = x
  <2>1. new.listed = ListIndex(cat.listed, tid, name)
    BY DEF IsAdd
  <2>2. \A y \in DOMAIN cat.listed : IsSeq(cat.listed[y])
    BY DEF Consistent
  <2>3. PICK listed : listed = cat.listed
    OBVIOUS
  <2>4. x \in DOMAIN ListIndex(listed, tid, name) /\ n \in ToSet(ListIndex(listed, tid, name)[x])
    BY <1>6, <2>1, <2>3
  <2>5. (n = name /\ x = tid) \/ (x \in DOMAIN listed /\ n \in ToSet(listed[x]))
    BY <2>2, <2>3, <2>4, ListedAfter
  <2>6. CASE n = name /\ x = tid
    BY <1>1, <1>2, <2>6 DEF IsPut, HasIndex
  <2>7. CASE x \in DOMAIN cat.listed /\ n \in ToSet(cat.listed[x])
    <3>1. n \in DOMAIN cat.indexes /\ cat.indexes[n].table = x
      BY <2>7 DEF Whole, HasIndex
    <3>2. n = name => x = tid
      BY <3>1 DEF Own, HasIndex
    <3>3. QED
      BY <1>1, <1>2, <3>1, <3>2 DEF IsPut, HasIndex
  <2>8. QED
    BY <2>3, <2>5, <2>6, <2>7
<1>7. ASSUME NEW t \in Named
      PROVE  /\ HasIndex(new, PkName(t)) => HasTable(new, t) /\ new.indexes[PkName(t)].table = new.tables[t].id
             /\ ~HasIndex(new, <<t, "pkey">>)
  <2>1. PICK pk, pkey : pk = PkName(t) /\ pkey = <<t, "pkey">>
    OBVIOUS
  <2>2. /\ HasIndex(cat, pk) => HasTable(cat, t) /\ cat.indexes[pk].table = cat.tables[t].id
        /\ ~HasIndex(cat, pkey)
    BY <2>1 DEF Whole
  <2>3. CASE ~Reserved(name)
    <3>1. name # pk /\ name # pkey
      BY <2>1, <2>3 DEF Reserved
    <3>2. QED
      BY <1>2, <1>4, <2>1, <2>2, <3>1 DEF HasIndex, HasTable
  <2>4. ASSUME NEW u \in Named, name = PkName(u), HasTable(cat, u), cat.tables[u].id = tid
        PROVE  /\ HasIndex(new, pk) => HasTable(new, t) /\ new.indexes[pk].table = new.tables[t].id
               /\ ~HasIndex(new, pkey)
    <3>1. name[1] = "pk" /\ name[2] = u /\ pk[2] = t /\ pkey[1] = t
      BY <2>1, <2>4 DEF PkName
    <3>2. t # "pk"
      BY DEF NamesApart
    <3>3. name # pkey
      BY <3>1, <3>2
    <3>4. name = pk => u = t
      BY <3>1
    <3>5. QED
      BY <1>2, <1>4, <2>2, <2>4, <3>3, <3>4 DEF HasIndex, HasTable
  <2>5. QED
    BY <2>1, <2>3, <2>4 DEF MayBeNamed
<1>8. new.tables = [t \in DOMAIN new.tables |-> new.tables[t]]
  BY <1>2 DEF Whole
<1>9. QED
  BY <1>3, <1>5, <1>6, <1>7, <1>8 DEF Whole

\* The indexes of the other tables stay, and what is the table's own stays its own.
LEMMA OthersAfterAdd ==
    ASSUME NEW cat, NEW new, NEW name, NEW tid, IsAdd(cat, new, name, tid), Own(cat, name, tid)
    PROVE  /\ \A old : OthersStay(old, cat, tid) => OthersStay(old, new, tid)
           /\ \A n : Own(cat, n, tid) => Own(new, n, tid)
           /\ Own(new, name, tid)
<1>1. PICK index : index.table = tid /\ new.indexes = Put(cat.indexes, name, index)
  BY DEF IsAdd
<1>2. IsPut(new.indexes, cat.indexes, name, index)
  BY <1>1, PutIs
<1>3. \A n \in DOMAIN new.indexes : (n = name /\ new.indexes[n].table = tid)
                                    \/ (n # name /\ n \in DOMAIN cat.indexes /\ new.indexes[n] = cat.indexes[n])
  BY <1>1, <1>2 DEF IsPut
<1>4. ASSUME NEW old, OthersStay(old, cat, tid)
      PROVE  OthersStay(old, new, tid)
  <2>1. ASSUME NEW n \in DOMAIN old.indexes, old.indexes[n].table # tid
        PROVE  HasIndex(new, n) /\ new.indexes[n] = old.indexes[n]
    <3>1. n \in DOMAIN cat.indexes /\ cat.indexes[n] = old.indexes[n]
      BY <1>4, <2>1 DEF OthersStay, HasIndex
    <3>2. n # name
      BY <2>1, <3>1 DEF Own, HasIndex
    <3>3. QED
      BY <1>2, <3>1, <3>2 DEF IsPut, HasIndex
  <2>2. QED
    BY <1>3, <1>4, <2>1 DEF OthersStay
<1>5. QED
  BY <1>3, <1>4 DEF Own, HasIndex

\* An index is taken out, and its name from the lists.
IsDrop(cat, new, name) ==
    /\ new.tables = cat.tables
    /\ new.indexes \in {cat.indexes, Without(cat.indexes, name)} /\ IsWithout(new.indexes, cat.indexes, name)
    /\ \A x \in DOMAIN new.listed :
           /\ x \in DOMAIN cat.listed /\ ToSet(new.listed[x]) \subseteq ToSet(cat.listed[x])
           /\ HasIndex(cat, name) /\ cat.indexes[name].table = x => name \notin ToSet(new.listed[x])

\* That is what the operator does.
LEMMA DropIsDrop ==
    ASSUME NEW cat, Consistent(cat), NEW name
    PROVE  IsDrop(cat, DropIndex(cat, name), name)
<1>1. CASE ~HasIndex(cat, name)
  <2>1. DropIndex(cat, name) = cat
    BY <1>1 DEF DropIndex
  <2>2. IsWithout(cat.indexes, cat.indexes, name)
    BY <1>1 DEF IsWithout, HasIndex
  <2>3. IsDrop(cat, cat, name)
    BY <1>1, <2>2 DEF IsDrop
  <2>4. QED
    BY <2>1, <2>3
<1>2. CASE HasIndex(cat, name)
  <2>1. PICK new, tid, names, rest :
            /\ new = DropIndex(cat, name) /\ tid = cat.indexes[name].table
            /\ names = (IF tid \in DOMAIN cat.listed THEN cat.listed[tid] ELSE <<>>)
            /\ rest = Retain(names, ToSet(names) \ {name})
    OBVIOUS
  <2>2. tid \in DOMAIN cat.listed /\ names = cat.listed[tid] /\ IsSeq(names) /\ DOMAIN cat = DOMAIN EmptyCatalog
    BY <1>2, <2>1 DEF Consistent, IndexesListed, HasIndex
  <2>3. ToSet(rest) = ToSet(names) \ {name}
    <3>1. PICK S : S = ToSet(names) \ {name}
      OBVIOUS
    <3>2. ToSet(Retain(names, S)) = ToSet(names) \cap S
      BY <2>2, Retained
    <3>3. QED
      BY <2>1, <3>1, <3>2
  <2>4. new = [cat EXCEPT !.indexes = Without(@, name),
                          !.listed = IF rest = <<>> THEN Without(@, tid) ELSE Put(@, tid, rest)]
    BY <1>2, <2>1 DEF DropIndex
  <2>5. /\ new.tables = cat.tables /\ new.indexes = Without(cat.indexes, name)
        /\ new.listed = IF rest = <<>> THEN Without(cat.listed, tid) ELSE Put(cat.listed, tid, rest)
    BY <2>2, <2>4 DEF EmptyCatalog
  <2>6. IsWithout(new.indexes, cat.indexes, name)
    BY <2>5, PutIs
  <2>7. IsWithout(new.listed, cat.listed, tid) \/ IsPut(new.listed, cat.listed, tid, rest)
    BY <2>5, PutIs
  <2>8. ASSUME NEW x \in DOMAIN new.listed
        PROVE  /\ x \in DOMAIN cat.listed /\ ToSet(new.listed[x]) \subseteq ToSet(cat.listed[x])
               /\ HasIndex(cat, name) /\ cat.indexes[name].table = x => name \notin ToSet(new.listed[x])
    <3>1. CASE x = tid
      <4>1. new.listed[x] = rest
        BY <2>7, <2>8, <3>1 DEF IsPut, IsWithout
      <4>2. QED
        BY <2>2, <2>3, <3>1, <4>1
    <3>2. CASE x # tid
      <4>1. x \in DOMAIN cat.listed /\ new.listed[x] = cat.listed[x]
        BY <2>7, <2>8, <3>2 DEF IsPut, IsWithout
      <4>2. QED
        BY <2>1, <3>2, <4>1
    <3>3. QED
      BY <3>1, <3>2
  <2>9. QED
    BY <2>1, <2>5, <2>6, <2>8 DEF IsDrop
<1>3. QED
  BY <1>1, <1>2

\* A whole catalog stays whole without an index.
LEMMA WholeAfterDrop ==
    ASSUME NEW cat, Whole(cat), NEW new, NEW name, IsDrop(cat, new, name)
    PROVE  Whole(new)
<1>1. new.tables = cat.tables /\ IsWithout(new.indexes, cat.indexes, name)
  BY DEF IsDrop
<1>2. new.indexes = [n \in DOMAIN new.indexes |-> new.indexes[n]]
  BY StaysAFunction DEF IsDrop, Whole
<1>3. \A n \in DOMAIN new.indexes : n # name /\ n \in DOMAIN cat.indexes /\ new.indexes[n] = cat.indexes[n]
  BY <1>1 DEF IsWithout
<1>4. Owned(new)
  BY <1>1, <1>3 DEF Whole, Owned
<1>5. ASSUME NEW x \in DOMAIN new.listed, NEW n \in ToSet(new.listed[x])
      PROVE  HasIndex(new, n) /\ new.indexes[n].table = x
  <2>1. HasIndex(cat, n) /\ cat.indexes[n].table = x
    BY <1>5 DEF IsDrop, Whole
  <2>2. n # name
    BY <1>5, <2>1 DEF IsDrop
  <2>3. QED
    BY <1>1, <2>1, <2>2 DEF IsWithout, HasIndex
<1>6. ASSUME NEW t \in Named
      PROVE  /\ HasIndex(new, PkName(t)) => HasTable(new, t) /\ new.indexes[PkName(t)].table = new.tables[t].id
             /\ ~HasIndex(new, <<t, "pkey">>)
  BY <1>1, <1>3 DEF Whole, HasIndex, HasTable
<1>7. QED
  BY <1>1, <1>2, <1>4, <1>5, <1>6 DEF Whole

\* The indexes of the other tables stay, and what is the table's own stays its own.
LEMMA OthersAfterDrop ==
    ASSUME NEW cat, NEW new, NEW name, NEW tid, IsDrop(cat, new, name)
    PROVE  /\ \A n : Own(cat, n, tid) => Own(new, n, tid)
           /\ Own(cat, name, tid) => \A old : OthersStay(old, cat, tid) => OthersStay(old, new, tid)
<1>1. IsWithout(new.indexes, cat.indexes, name)
  BY DEF IsDrop
<1>2. \A n \in DOMAIN new.indexes : n # name /\ n \in DOMAIN cat.indexes /\ new.indexes[n] = cat.indexes[n]
  BY <1>1 DEF IsWithout
<1>3. ASSUME Own(cat, name, tid), NEW old, OthersStay(old, cat, tid)
      PROVE  OthersStay(old, new, tid)
  <2>1. ASSUME NEW n \in DOMAIN old.indexes, old.indexes[n].table # tid
        PROVE  HasIndex(new, n) /\ new.indexes[n] = old.indexes[n]
    <3>1. n \in DOMAIN cat.indexes /\ cat.indexes[n] = old.indexes[n]
      BY <1>3, <2>1 DEF OthersStay, HasIndex
    <3>2. n # name
      BY <1>3, <2>1, <3>1 DEF Own, HasIndex
    <3>3. QED
      BY <1>1, <3>1, <3>2 DEF IsWithout, HasIndex
  <2>2. QED
    BY <1>2, <1>3, <2>1 DEF OthersStay, HasIndex
<1>4. QED
  BY <1>2, <1>3 DEF Own, HasIndex

\* A new table: of an id no index has.
LEMMA TableAdded ==
    ASSUME NEW cat, Consistent(cat), Whole(cat), NEW t, ~HasTable(cat, t), NEW columns,
           NEW def, def = [id |-> cat.nextTable, columns |-> columns], NEW new, new = AddTable(cat, t, columns)
    PROVE  /\ Whole(new) /\ new.tables = Put(cat.tables, t, def) /\ new.indexes = cat.indexes
           /\ \A n \in DOMAIN cat.indexes : cat.indexes[n].table # def.id
<1>1. DOMAIN cat = DOMAIN EmptyCatalog
  BY DEF Consistent
<1>2. PICK rows : rows = ColumnRows(cat.nextTable, columns)
  OBVIOUS
<1>3. new = [cat EXCEPT !.nextTable = @ + 1, !.tables = Put(@, t, def), !.pgColumn = @ \o rows]
  BY <1>2 DEF AddTable
<1>4. new.tables = Put(cat.tables, t, def) /\ new.indexes = cat.indexes /\ new.listed = cat.listed
  BY <1>1, <1>3 DEF EmptyCatalog
<1>5. IsPut(new.tables, cat.tables, t, def)
  BY <1>4, PutIs
<1>6. \A u \in DOMAIN cat.tables : u # t /\ u \in DOMAIN new.tables /\ new.tables[u] = cat.tables[u]
  BY <1>5 DEF IsPut, HasTable
<1>7. Owned(new)
  BY <1>4, <1>6 DEF Whole, Owned
<1>8. \A n \in DOMAIN cat.indexes : cat.indexes[n].table # def.id
  <2>1. \A u \in DOMAIN cat.tables : cat.tables[u].id \in 0 .. (cat.nextTable - 1)
    BY DEF Consistent, Given
  <2>2. cat.nextTable \in Nat
    BY DEF Consistent
  <2>3. \A i \in 0 .. (cat.nextTable - 1) : i # cat.nextTable
    BY <2>2
  <2>4. QED
    BY <2>1, <2>3 DEF Whole, Owned
<1>9. new.tables = [u \in DOMAIN new.tables |-> new.tables[u]]
  BY <1>4, StaysAFunction
<1>10. Whole(new)
  BY <1>4, <1>6, <1>7, <1>9 DEF Whole, HasTable, HasIndex
<1>11. QED
  BY <1>4, <1>8, <1>10

\* A table that no index is left of is removed.
LEMMA TableRemoved ==
    ASSUME NEW cat, Consistent(cat), Whole(cat), NEW t, HasTable(cat, t),
           \A n \in DOMAIN cat.indexes : cat.indexes[n].table # cat.tables[t].id, NEW new, new = RemoveTable(cat, t)
    PROVE  Whole(new) /\ new.tables = Without(cat.tables, t) /\ new.indexes = cat.indexes
<1>1. DOMAIN cat = DOMAIN EmptyCatalog
  BY DEF Consistent
<1>2. new.tables = Without(cat.tables, t) /\ new.indexes = cat.indexes /\ new.listed = cat.listed
  BY <1>1 DEF RemoveTable, EmptyCatalog
<1>3. IsWithout(new.tables, cat.tables, t)
  BY <1>2, PutIs
<1>4. \A u \in DOMAIN cat.tables : u # t => u \in DOMAIN new.tables /\ new.tables[u] = cat.tables[u]
  BY <1>3 DEF IsWithout
<1>5. Owned(new)
  BY <1>2, <1>4 DEF Whole, Owned
<1>6. new.tables = [u \in DOMAIN new.tables |-> new.tables[u]]
  BY <1>2, StaysAFunction
<1>7. ASSUME NEW u \in Named
      PROVE  /\ HasIndex(new, PkName(u)) => HasTable(new, u) /\ new.indexes[PkName(u)].table = new.tables[u].id
             /\ ~HasIndex(new, <<u, "pkey">>)
  <2>1. PICK pk, pkey : pk = PkName(u) /\ pkey = <<u, "pkey">>
    OBVIOUS
  <2>2. /\ HasIndex(cat, pk) => HasTable(cat, u) /\ cat.indexes[pk].table = cat.tables[u].id
        /\ ~HasIndex(cat, pkey)
    BY <2>1 DEF Whole
  <2>3. HasIndex(cat, pk) => u # t
    BY <2>2 DEF HasIndex
  <2>4. QED
    BY <1>2, <1>4, <2>1, <2>2, <2>3 DEF HasIndex, HasTable
<1>8. QED
  BY <1>2, <1>5, <1>6, <1>7 DEF Whole, HasIndex

\* A table is given other columns.
LEMMA TableUpdated ==
    ASSUME NEW cat, Consistent(cat), Whole(cat), NEW t, HasTable(cat, t), NEW columns,
           NEW new, new = UpdateTable(cat, t, columns)
    PROVE  /\ Whole(new) /\ new.indexes = cat.indexes /\ Without(new.tables, t) = Without(cat.tables, t)
           /\ HasTable(new, t) /\ new.tables[t].id = cat.tables[t].id
<1>1. DOMAIN cat = DOMAIN EmptyCatalog /\ DOMAIN cat.tables[t] = {"id", "columns"}
  BY DEF Consistent, HasTable
<1>2. PICK rows : rows = Retain(cat.pgColumn, {row \in ToSet(cat.pgColumn) : row[1] # cat.tables[t].id})
                         \o ColumnRows(cat.tables[t].id, columns)
  OBVIOUS
<1>3. new = [cat EXCEPT !.tables[t].columns = columns, !.pgColumn = rows]
  BY <1>2 DEF UpdateTable
<1>4. /\ new.tables = [cat.tables EXCEPT ![t] = [cat.tables[t] EXCEPT !.columns = columns]]
      /\ new.indexes = cat.indexes /\ new.listed = cat.listed
  BY <1>1, <1>3 DEF EmptyCatalog
<1>5. PICK map, def : map = cat.tables /\ def = [map[t] EXCEPT !.columns = columns]
  OBVIOUS
<1>6. new.tables = [map EXCEPT ![t] = def] /\ t \in DOMAIN map
  BY <1>4, <1>5 DEF HasTable
<1>7. /\ DOMAIN new.tables = DOMAIN map /\ (\A u \in DOMAIN map : u # t => new.tables[u] = map[u])
      /\ new.tables[t] = def
  BY <1>6
<1>8. def.id = map[t].id
  BY <1>1, <1>5
<1>9. Without(new.tables, t) = Without(cat.tables, t)
  <2>1. PICK keys : keys = DOMAIN map \ {t}
    OBVIOUS
  <2>2. [u \in keys |-> new.tables[u]] = [u \in keys |-> map[u]]
    BY <1>7, <2>1
  <2>3. Without(new.tables, t) = [u \in keys |-> new.tables[u]] /\ Without(map, t) = [u \in keys |-> map[u]]
    BY <1>7, <2>1, Zenon DEF Without
  <2>4. QED
    BY <1>5, <2>2, <2>3
<1>10. \A u \in DOMAIN cat.tables : u \in DOMAIN new.tables /\ new.tables[u].id = cat.tables[u].id
  BY <1>5, <1>7, <1>8
<1>11. Owned(new)
  BY <1>4, <1>10 DEF Whole, Owned
<1>12. new.tables = [u \in DOMAIN new.tables |-> new.tables[u]]
  BY <1>6
<1>13. Whole(new)
  BY <1>4, <1>10, <1>11, <1>12 DEF Whole, HasTable, HasIndex
<1>14. QED
  BY <1>4, <1>9, <1>10, <1>13 DEF HasTable

\* Nothing has changed.
LEMMA SameIsAtomic ==
    ASSUME NEW old, NEW new, Whole(new), Same(old, new), NEW stmt, NEW result
    PROVE  Atomic(stmt, result, old, new)
<1>1. new.tables = old.tables /\ new.indexes = old.indexes /\ Owned(new)
  BY DEF Same, Whole
<1>2. KeepsIndexes(stmt, old, new) /\ KeepsIndexes(stmt, new, old)
  BY <1>1 DEF KeepsIndexes, HasIndex
<1>3. QED
  BY <1>1, <1>2 DEF Atomic, Same

\* The id is that of the table, or of none.
About(cat, t, tid) ==
    IF HasTable(cat, t) THEN cat.tables[t].id = tid ELSE \A n \in DOMAIN cat.indexes : cat.indexes[n].table # tid

\* A statement on a table has changed that table alone.
LEMMA TableEffect ==
    ASSUME NEW stmt, stmt.kind # "DropIndex", NEW old, NEW new, Whole(new), NEW tid,
           About(old, stmt.table, tid), About(new, stmt.table, tid), OthersStay(old, new, tid),
           Without(new.tables, stmt.table) = Without(old.tables, stmt.table),
           stmt.kind = "CreateIndex" => new.tables = old.tables
    PROVE  Effect(stmt, old, new)
<1>1. KeepsIndexes(stmt, old, new) /\ KeepsIndexes(stmt, new, old)
  BY DEF KeepsIndexes, Concerns, About, OthersStay
<1>2. QED
  BY <1>1 DEF Effect, Atomic, Whole

\* DROP INDEX has changed its index alone.
LEMMA DropIndexEffect ==
    ASSUME NEW stmt, stmt.kind = "DropIndex", NEW old, NEW cat, Same(old, cat), NEW new, Whole(new),
           IsDrop(cat, new, stmt.index)
    PROVE  Effect(stmt, old, new)
<1>1. new.tables = old.tables /\ IsWithout(new.indexes, old.indexes, stmt.index)
  BY DEF Same, IsDrop
<1>2. KeepsIndexes(stmt, old, new) /\ KeepsIndexes(stmt, new, old)
  BY <1>1 DEF IsWithout, KeepsIndexes, Concerns, HasIndex
<1>3. QED
  BY <1>1, <1>2 DEF Effect, Atomic, Whole

-----------------------------------------------------------------------------
(* Atomic statements: the steps *)

\* A session that takes a step of its statement, alone.
Poised(s) ==
    /\ Ready(s) /\ StatementOK(sess[s]) /\ Consistent(catalog) /\ Whole(catalog)
    /\ Progress(sess[s], catalog) /\ Tied(sess[s], walOn, active, ddlTx)

\* It goes on as the invariant says, or returns having done all or nothing.
Advances(s) ==
    /\ Whole(catalog')
    /\ \E me : /\ Local(s, me) /\ Progress(me, catalog') /\ Tied(me, walOn', active', ddlTx')
               /\ me.pc = "returned" => Atomic(sess[s].stmt, me.result, sess[s].before, catalog')

\* A statement returns.
LEMMA Returns ==
    ASSUME NEW s, NEW x, Return(s, x), Whole(catalog'), Atomic(sess[s].stmt, x, sess[s].before, catalog')
    PROVE  Advances(s)
<1>1. PICK me : /\ me = [Idle EXCEPT !.pc = "returned", !.stmt = sess[s].stmt, !.tx = sess[s].tx, !.result = x]
                /\ Local(s, me)
  BY DEF Return
<1>2. me.pc = "returned" /\ me.result = x
  BY <1>1 DEF Idle
<1>3. Progress(me, catalog')
  BY <1>2 DEF Progress, KindOK, UntouchedPcs, Making, Altering, Clearing, Removing
<1>4. Tied(me, walOn', active', ddlTx')
  BY <1>2 DEF Tied
<1>5. QED
  BY <1>1, <1>2, <1>3, <1>4 DEF Advances

\* A statement returns, and nothing has changed.
LEMMA ReturnsUnchanged ==
    ASSUME NEW s, NEW x, Return(s, x), Whole(catalog), UNCHANGED catalog, Same(sess[s].before, catalog)
    PROVE  Advances(s)
<1>1. PICK new : new = catalog'
  OBVIOUS
<1>2. Whole(new) /\ Same(sess[s].before, new)
  BY <1>1
<1>3. Atomic(sess[s].stmt, x, sess[s].before, new)
  BY <1>2, SameIsAtomic
<1>4. QED
  BY <1>1, <1>2, <1>3, Returns

\* A session goes on with all it has.
Moves(s, me, pc) ==
    /\ Local(s, me) /\ me.pc = pc /\ me.stmt = sess[s].stmt /\ me.before = sess[s].before /\ me.made = sess[s].made
    /\ me.todo = sess[s].todo /\ me.tx = sess[s].tx

\* It goes to another place, and changes what no other part of the invariant asks for.
LEMMA GotoMoves ==
    ASSUME NEW s, DOMAIN sess[s] = DOMAIN Idle, NEW pc
    PROVE  /\ Goto(s, pc) => \E me : Moves(s, me, pc) /\ me.def = sess[s].def
           /\ \A c : Local(s, [sess[s] EXCEPT !.pc = pc, !.def.columns = c]) => \E me : Moves(s, me, pc)
           /\ \A x : Local(s, [sess[s] EXCEPT !.pc = pc, !.prev = x]) =>
                  \E me : Moves(s, me, pc) /\ me.def = sess[s].def
<1>1. ASSUME Goto(s, pc)
      PROVE  \E me : Moves(s, me, pc) /\ me.def = sess[s].def
  <2>1. PICK me : me = [sess[s] EXCEPT !.pc = pc] /\ Local(s, me)
    BY <1>1 DEF Goto
  <2>2. /\ me.pc = pc /\ me.stmt = sess[s].stmt /\ me.before = sess[s].before /\ me.made = sess[s].made
        /\ me.todo = sess[s].todo /\ me.tx = sess[s].tx /\ me.def = sess[s].def
    BY <2>1 DEF Idle
  <2>3. QED
    BY <2>1, <2>2, Zenon DEF Moves
<1>2. ASSUME NEW c, Local(s, [sess[s] EXCEPT !.pc = pc, !.def.columns = c])
      PROVE  \E me : Moves(s, me, pc)
  <2>1. PICK me : me = [sess[s] EXCEPT !.pc = pc, !.def.columns = c] /\ Local(s, me)
    BY <1>2
  <2>2. /\ me.pc = pc /\ me.stmt = sess[s].stmt /\ me.before = sess[s].before /\ me.made = sess[s].made
        /\ me.todo = sess[s].todo /\ me.tx = sess[s].tx
    BY <2>1 DEF Idle
  <2>3. QED
    BY <2>1, <2>2, Zenon DEF Moves
<1>3. ASSUME NEW x, Local(s, [sess[s] EXCEPT !.pc = pc, !.prev = x])
      PROVE  \E me : Moves(s, me, pc) /\ me.def = sess[s].def
  <2>1. PICK me : me = [sess[s] EXCEPT !.pc = pc, !.prev = x] /\ Local(s, me)
    BY <1>3
  <2>2. /\ me.pc = pc /\ me.stmt = sess[s].stmt /\ me.before = sess[s].before /\ me.made = sess[s].made
        /\ me.todo = sess[s].todo /\ me.tx = sess[s].tx /\ me.def = sess[s].def
    BY <2>1 DEF Idle
  <2>3. QED
    BY <2>1, <2>2, Zenon DEF Moves
<1>4. QED
  BY <1>1, <1>2, <1>3

\* It takes a definition.
LEMMA DefMoves ==
    ASSUME NEW s, DOMAIN sess[s] = DOMAIN Idle, NEW pc, NEW d, Local(s, [sess[s] EXCEPT !.pc = pc, !.def = d])
    PROVE  \E me : Moves(s, me, pc) /\ me.def = d
<1>1. PICK me : me = [sess[s] EXCEPT !.pc = pc, !.def = d] /\ Local(s, me)
  OBVIOUS
<1>2. /\ me.pc = pc /\ me.stmt = sess[s].stmt /\ me.before = sess[s].before /\ me.made = sess[s].made
      /\ me.todo = sess[s].todo /\ me.tx = sess[s].tx /\ me.def = d
  BY <1>1 DEF Idle
<1>3. QED
  BY <1>1, <1>2, Zenon DEF Moves

\* A statement that has changed nothing goes on to where it still has not.
LEMMA UntouchedMoves ==
    ASSUME NEW s, Poised(s), sess[s].pc \in UntouchedPcs, UNCHANGED catalog,
           NEW pc \in UntouchedPcs, NEW me, Moves(s, me, pc), KindOK(me),
           pc \in {"begin", "prepare", "define"} => ~HasTable(catalog, sess[s].stmt.table),
           pc = "make" => Holds(me, catalog), Tied(me, walOn', active', ddlTx')
    PROVE  Advances(s)
<1>1. Same(sess[s].before, catalog) /\ sess[s].made = <<>> /\ sess[s].todo = <<>> /\ Whole(catalog)
  BY DEF Poised, Progress
<1>2. Same(me.before, catalog) /\ me.made = <<>> /\ me.todo = <<>> /\ me.pc = pc /\ me.stmt = sess[s].stmt
  BY <1>1 DEF Moves
<1>3. Progress(me, catalog)
  BY <1>2 DEF Progress, UntouchedPcs, Making, Altering, Clearing, Removing
<1>4. QED
  BY <1>1, <1>2, <1>3 DEF Advances, Moves, UntouchedPcs

\* The steps that look before anything is done.
LEMMA LookAdvances ==
    ASSUME NEW s, Poised(s), CreateCheck(s) \/ TableCheck(s) \/ IndexCheck(s) \/ IndexTable(s) \/ AlterValidate(s)
                             \/ IndexOwner(s) \/ CreateBegin(s)
    PROVE  Advances(s)
<1>1. /\ DOMAIN sess[s] = DOMAIN Idle /\ Whole(catalog) /\ KindOK(sess[s]) /\ Tied(sess[s], walOn, active, ddlTx)
      /\ sess[s].pc \in UntouchedPcs => Same(sess[s].before, catalog)
      /\ sess[s].pc = "begin" => ~HasTable(catalog, sess[s].stmt.table)
  BY DEF Poised, Ready, Progress
<1>2. sess[s].pc \in UntouchedPcs /\ UNCHANGED catalog
  BY DEF CreateCheck, TableCheck, IndexCheck, IndexTable, AlterValidate, IndexOwner, CreateBegin, At, UntouchedPcs,
         OnlyLocal, OnlyWal
<1>3. (\E x : Return(s, x)) => Advances(s)
  BY <1>1, <1>2, ReturnsUnchanged
<1>4. CASE CreateCheck(s)
  <2>1. (\E x : Return(s, x)) \/ (~HasTable(catalog, sess[s].stmt.table) /\ Goto(s, "begin"))
    BY <1>4 DEF CreateCheck
  <2>2. CASE ~HasTable(catalog, sess[s].stmt.table) /\ Goto(s, "begin")
    <3>1. PICK me : Moves(s, me, "begin")
      BY <1>1, <2>2, GotoMoves
    <3>2. KindOK(me) /\ Tied(me, walOn', active', ddlTx')
      BY <3>1 DEF Moves, KindOK, Tied
    <3>3. QED
      BY <1>2, <2>2, <3>1, <3>2, UntouchedMoves DEF UntouchedPcs
  <2>3. QED
    BY <1>3, <2>1, <2>2
<1>5. CASE TableCheck(s)
  <2>1. (\E x : Return(s, x)) \/ \E d : Local(s, [sess[s] EXCEPT !.pc = "enter", !.def = d])
    BY <1>5 DEF TableCheck
  <2>2. CASE \E d : Local(s, [sess[s] EXCEPT !.pc = "enter", !.def = d])
    <3>1. PICK me : Moves(s, me, "enter")
      BY <1>1, <2>2, DefMoves
    <3>2. KindOK(me) /\ Tied(me, walOn', active', ddlTx')
      BY <3>1 DEF Moves, KindOK, Tied
    <3>3. QED
      BY <1>2, <3>1, <3>2, UntouchedMoves DEF UntouchedPcs
  <2>3. QED
    BY <1>3, <2>1, <2>2
<1>6. CASE IndexCheck(s)
  <2>1. \/ \E x : Return(s, x)
        \/ sess[s].stmt.kind = "CreateIndex" /\ Goto(s, "table")
        \/ \E d : Local(s, [sess[s] EXCEPT !.pc = "enter", !.def = d])
    BY <1>6 DEF IndexCheck
  <2>2. CASE \E d : Local(s, [sess[s] EXCEPT !.pc = "enter", !.def = d])
    <3>1. PICK me : Moves(s, me, "enter")
      BY <1>1, <2>2, DefMoves
    <3>2. KindOK(me) /\ Tied(me, walOn', active', ddlTx')
      BY <3>1 DEF Moves, KindOK, Tied
    <3>3. QED
      BY <1>2, <3>1, <3>2, UntouchedMoves DEF UntouchedPcs
  <2>3. CASE sess[s].stmt.kind = "CreateIndex" /\ Goto(s, "table")
    <3>1. PICK me : Moves(s, me, "table")
      BY <1>1, <2>3, GotoMoves
    <3>2. KindOK(me) /\ Tied(me, walOn', active', ddlTx')
      BY <2>3, <3>1 DEF Moves, KindOK, Tied
    <3>3. QED
      BY <1>2, <3>1, <3>2, UntouchedMoves DEF UntouchedPcs
  <2>4. QED
    BY <1>3, <2>1, <2>2, <2>3
<1>7. CASE IndexTable(s)
  <2>1. PICK d : d = catalog.tables[sess[s].stmt.table]
    OBVIOUS
  <2>2. \/ \E x : Return(s, x)
        \/ HasTable(catalog, sess[s].stmt.table) /\ Local(s, [sess[s] EXCEPT !.pc = "make", !.def = d])
    BY <1>7, <2>1 DEF IndexTable
  <2>3. CASE HasTable(catalog, sess[s].stmt.table) /\ Local(s, [sess[s] EXCEPT !.pc = "make", !.def = d])
    <3>0. PICK me : me = [sess[s] EXCEPT !.pc = "make", !.def = d] /\ Local(s, me)
      BY <2>3
    <3>1. Moves(s, me, "make") /\ me.def = d
      BY <1>1, <3>0 DEF Moves, Idle
    <3>2. sess[s].stmt.kind = "CreateIndex"
      BY <1>1, <1>7 DEF KindOK, IndexTable
    <3>3. KindOK(me) /\ Tied(me, walOn', active', ddlTx') /\ Holds(me, catalog)
      BY <2>1, <2>3, <3>1, <3>2 DEF Moves, KindOK, Tied, Holds
    <3>4. QED
      BY <1>2, <3>1, <3>3, UntouchedMoves DEF UntouchedPcs
  <2>4. QED
    BY <1>3, <2>2, <2>3
<1>8. CASE AlterValidate(s)
  <2>1. (\E x : Return(s, x)) \/ Goto(s, "apply")
    BY <1>8 DEF AlterValidate
  <2>2. CASE Goto(s, "apply")
    <3>1. PICK me : Moves(s, me, "apply")
      BY <1>1, <2>2, GotoMoves
    <3>2. sess[s].stmt.kind = "AlterTable" /\ ddlTx /\ UNCHANGED ddlTx
      BY <1>1, <1>8 DEF KindOK, AlterValidate, Tied, OnlyLocal
    <3>3. KindOK(me) /\ Tied(me, walOn', active', ddlTx')
      BY <3>1, <3>2 DEF Moves, KindOK, Tied
    <3>4. QED
      BY <1>2, <3>1, <3>3, UntouchedMoves DEF UntouchedPcs
  <2>3. QED
    BY <1>3, <2>1, <2>2
<1>9. CASE IndexOwner(s)
  <2>1. (\E x : Return(s, x)) \/ Goto(s, "unmake")
    BY <1>9 DEF IndexOwner
  <2>2. CASE Goto(s, "unmake")
    <3>1. PICK me : Moves(s, me, "unmake")
      BY <1>1, <2>2, GotoMoves
    <3>2. sess[s].stmt.kind = "DropIndex" /\ ddlTx /\ UNCHANGED ddlTx
      BY <1>1, <1>9 DEF KindOK, IndexOwner, Tied, OnlyLocal
    <3>3. KindOK(me) /\ Tied(me, walOn', active', ddlTx')
      BY <3>1, <3>2 DEF Moves, KindOK, Tied
    <3>4. QED
      BY <1>2, <3>1, <3>3, UntouchedMoves DEF UntouchedPcs
  <2>3. QED
    BY <1>3, <2>1, <2>2
<1>10. CASE CreateBegin(s)
  <2>1. PICK me : me = [sess[s] EXCEPT !.pc = "prepare", !.tx = clock] /\ Local(s, me)
    BY <1>10 DEF CreateBegin
  <2>2. /\ me.pc = "prepare" /\ me.tx = clock /\ me.stmt = sess[s].stmt /\ me.before = sess[s].before
        /\ me.made = sess[s].made /\ me.todo = sess[s].todo
    BY <1>1, <2>1 DEF Idle
  <2>3. walOn' => clock \in DOMAIN active'
    <3>1. UNCHANGED walOn
      BY <1>10 DEF CreateBegin, BeginDdl, walVars
    <3>2. CASE walOn
      <4>1. active' = Put(active, clock, Len(ddlLog'))
        BY <1>10, <3>2 DEF CreateBegin, BeginDdl
      <4>2. IsPut(active', active, clock, Len(ddlLog'))
        BY <4>1, PutIs
      <4>3. QED
        BY <4>2 DEF IsPut
    <3>3. QED
      BY <3>1, <3>2
  <2>4. Same(me.before, catalog) /\ me.made = <<>> /\ me.todo = <<>> /\ ~HasTable(catalog, me.stmt.table)
    BY <1>1, <1>2, <1>10, <2>2 DEF Poised, Progress, CreateBegin
  <2>5. Progress(me, catalog) /\ Tied(me, walOn', active', ddlTx')
    BY <2>2, <2>3, <2>4 DEF Progress, KindOK, UntouchedPcs, Making, Altering, Clearing, Removing, Tied
  <2>6. QED
    BY <1>1, <1>2, <2>1, <2>2, <2>5 DEF Advances
<1>11. QED
  BY <1>4, <1>5, <1>6, <1>7, <1>8, <1>9, <1>10

\* What is known where nothing has been done yet.
LEMMA StillSame ==
    ASSUME NEW s, Poised(s), sess[s].pc \in UntouchedPcs
    PROVE  /\ DOMAIN sess[s] = DOMAIN Idle /\ Whole(catalog) /\ Consistent(catalog) /\ KindOK(sess[s])
           /\ Same(sess[s].before, catalog) /\ sess[s].made = <<>> /\ sess[s].todo = <<>>
           /\ Tied(sess[s], walOn, active, ddlTx) /\ sess[s].stmt \in Statements
  BY DEF Poised, Ready, Progress

\* The columns and constraints of CREATE TABLE are looked at.
LEMMA PrepareAdvances ==
    ASSUME NEW s, Poised(s), CreatePrepare(s)
    PROVE  Advances(s)
<1>1. sess[s].pc = "prepare" /\ sess[s].pc \in UntouchedPcs /\ UNCHANGED catalog
  BY DEF CreatePrepare, UntouchedPcs, OnlyLocal
<1>2. /\ DOMAIN sess[s] = DOMAIN Idle /\ Whole(catalog) /\ Same(sess[s].before, catalog) /\ sess[s].made = <<>>
      /\ Tied(sess[s], walOn, active, ddlTx)
  BY <1>1, StillSame
<1>3. ~HasTable(catalog, sess[s].stmt.table)
  BY <1>1 DEF Poised, Progress
<1>4. Goto(s, "abort") \/ \E c : Local(s, [sess[s] EXCEPT !.pc = "define", !.def.columns = c])
  BY DEF CreatePrepare
<1>5. CASE Goto(s, "abort")
  <2>1. PICK me : Moves(s, me, "abort")
    BY <1>2, <1>5, GotoMoves
  <2>2. me.pc = "abort" /\ me.made = <<>> /\ Unbuilt(me, catalog)
    BY <1>2, <1>3, <2>1 DEF Moves, Unbuilt
  <2>3. Progress(me, catalog) /\ Tied(me, walOn', active', ddlTx')
    BY <2>2 DEF Progress, KindOK, UntouchedPcs, Making, Altering, Clearing, Removing, Tied
  <2>4. QED
    BY <1>1, <1>2, <2>1, <2>2, <2>3 DEF Advances, Moves
<1>6. CASE \E c : Local(s, [sess[s] EXCEPT !.pc = "define", !.def.columns = c])
  <2>1. PICK me : Moves(s, me, "define")
    BY <1>2, <1>6, GotoMoves
  <2>2. UNCHANGED <<walOn, active, ddlTx>>
    BY DEF CreatePrepare, OnlyLocal, walVars
  <2>3. KindOK(me) /\ Tied(me, walOn', active', ddlTx')
    BY <1>1, <1>2, <2>1, <2>2 DEF Moves, KindOK, Tied
  <2>4. QED
    BY <1>1, <1>3, <2>1, <2>3, UntouchedMoves DEF UntouchedPcs
<1>7. QED
  BY <1>4, <1>5, <1>6

\* DROP and ALTER enter the DDL transaction.
LEMMA EnterAdvances ==
    ASSUME NEW s, Poised(s), TableEnter(s) \/ IndexEnter(s)
    PROVE  Advances(s)
<1>1. sess[s].pc = "enter" /\ sess[s].pc \in UntouchedPcs /\ UNCHANGED catalog
  BY DEF TableEnter, IndexEnter, At, UntouchedPcs, OnlyTx
<1>2. /\ DOMAIN sess[s] = DOMAIN Idle /\ Whole(catalog) /\ Same(sess[s].before, catalog) /\ sess[s].todo = <<>>
      /\ Tied(sess[s], walOn, active, ddlTx)
  BY <1>1, StillSame
<1>3. (\E x : Return(s, x)) => Advances(s)
  BY <1>1, <1>2, ReturnsUnchanged
<1>4. CASE TableEnter(s)
  <2>1. sess[s].stmt.kind \in {"DropTable", "AlterTable"}
    BY <1>4 DEF TableEnter, TableStatement
  <2>2. \/ \E x : Return(s, x)
        \/ ddlTx' /\ sess[s].stmt.kind = "DropTable" /\ Goto(s, "lookup")
        \/ ddlTx' /\ sess[s].stmt.kind = "AlterTable" /\ Goto(s, "validate")
    BY <1>4, <2>1 DEF TableEnter, EnterTx
  <2>3. CASE ddlTx' /\ sess[s].stmt.kind = "DropTable" /\ Goto(s, "lookup")
    <3>1. PICK me : Moves(s, me, "lookup")
      BY <1>2, <2>3, GotoMoves
    <3>2. me.pc = "lookup" /\ me.stmt.kind = "DropTable" /\ Same(me.before, catalog) /\ me.todo = <<>>
      BY <1>2, <2>3, <3>1 DEF Moves
    <3>3. Progress(me, catalog) /\ Tied(me, walOn', active', ddlTx')
      BY <2>3, <3>2 DEF Progress, KindOK, UntouchedPcs, Making, Altering, Clearing, Removing, Tied, Creating
    <3>4. QED
      BY <1>1, <1>2, <3>1, <3>2, <3>3 DEF Advances, Moves
  <2>4. CASE ddlTx' /\ sess[s].stmt.kind = "AlterTable" /\ Goto(s, "validate")
    <3>1. PICK me : Moves(s, me, "validate")
      BY <1>2, <2>4, GotoMoves
    <3>2. KindOK(me) /\ Tied(me, walOn', active', ddlTx')
      BY <2>4, <3>1 DEF Moves, KindOK, Tied
    <3>3. QED
      BY <1>1, <3>1, <3>2, UntouchedMoves DEF UntouchedPcs
  <2>5. QED
    BY <1>3, <2>2, <2>3, <2>4
<1>5. CASE IndexEnter(s)
  <2>1. (\E x : Return(s, x)) \/ (ddlTx' /\ sess[s].stmt.kind = "DropIndex" /\ Goto(s, "owner"))
    BY <1>5 DEF IndexEnter, EnterTx, At
  <2>2. CASE ddlTx' /\ sess[s].stmt.kind = "DropIndex" /\ Goto(s, "owner")
    <3>1. PICK me : Moves(s, me, "owner")
      BY <1>2, <2>2, GotoMoves
    <3>2. KindOK(me) /\ Tied(me, walOn', active', ddlTx')
      BY <2>2, <3>1 DEF Moves, KindOK, Tied
    <3>3. QED
      BY <1>1, <3>1, <3>2, UntouchedMoves DEF UntouchedPcs
  <2>3. QED
    BY <1>3, <2>1, <2>2
<1>6. QED
  BY <1>4, <1>5

\* A statement that has done all it has to goes on to leave the DDL transaction.
LEMMA Leaving ==
    ASSUME NEW s, NEW me, Moves(s, me, "leave"), Whole(catalog'), Effect(sess[s].stmt, sess[s].before, catalog'), ddlTx'
    PROVE  Advances(s)
<1>1. PICK cat : cat = catalog'
  OBVIOUS
<1>2. me.pc = "leave" /\ Effect(me.stmt, me.before, cat)
  BY <1>1 DEF Moves
<1>3. Progress(me, cat)
  BY <1>2 DEF Progress, KindOK, UntouchedPcs, Making, Altering, Clearing, Removing
<1>4. Tied(me, walOn', active', ddlTx')
  BY <1>2 DEF Tied
<1>5. QED
  BY <1>1, <1>2, <1>3, <1>4 DEF Advances, Moves

\* ALTER TABLE, up to what it writes.
LEMMA ApplyAdvances ==
    ASSUME NamesApart, NEW s, Poised(s), AlterApply(s)
    PROVE  Advances(s)
<1>1. sess[s].pc = "apply" /\ sess[s].pc \in UntouchedPcs /\ UNCHANGED catalog /\ UNCHANGED ddlTx
  BY DEF AlterApply, UntouchedPcs, OnlyLocal
<1>2. /\ DOMAIN sess[s] = DOMAIN Idle /\ Whole(catalog) /\ Same(sess[s].before, catalog) /\ sess[s].todo = <<>>
      /\ sess[s].stmt \in Statements
  BY <1>1, StillSame
<1>3. sess[s].stmt.kind = "AlterTable" /\ ddlTx
  BY <1>1, StillSame DEF KindOK, Tied
<1>4. (\E x : Return(s, x)) => Advances(s)
  BY <1>1, <1>2, ReturnsUnchanged
<1>5. PICK alter, def, work :
          /\ alter = sess[s].stmt /\ def = catalog.tables[alter.table] /\ work = AlterWork(alter.table, alter.con)
  OBVIOUS
<1>6. \/ \E x : Return(s, x)
      \/ Goto(s, "leave")
      \/ \E c : Local(s, [sess[s] EXCEPT !.pc = "write", !.def.columns = c])
      \/ /\ alter.op = "AddConstraint" /\ HasTable(catalog, alter.table)
         /\ Local(s, [sess[s] EXCEPT !.pc = "work", !.def = def, !.todo = work])
  BY <1>5 DEF AlterApply
<1>7. CASE Goto(s, "leave")
  <2>1. PICK me : Moves(s, me, "leave")
    BY <1>2, <1>7, GotoMoves
  <2>2. Effect(sess[s].stmt, sess[s].before, catalog)
    BY <1>2, SameIsAtomic DEF Effect
  <2>3. QED
    BY <1>1, <1>2, <1>3, <2>1, <2>2, Leaving
<1>8. CASE \E c : Local(s, [sess[s] EXCEPT !.pc = "write", !.def.columns = c])
  <2>1. PICK me : Moves(s, me, "write")
    BY <1>2, <1>8, GotoMoves
  <2>2. KindOK(me) /\ Tied(me, walOn', active', ddlTx')
    BY <1>1, <1>3, <2>1 DEF Moves, KindOK, Tied
  <2>3. QED
    BY <1>1, <2>1, <2>2, UntouchedMoves DEF UntouchedPcs
<1>9. CASE /\ alter.op = "AddConstraint" /\ HasTable(catalog, alter.table)
           /\ Local(s, [sess[s] EXCEPT !.pc = "work", !.def = def, !.todo = work])
  <2>1. PICK me : me = [sess[s] EXCEPT !.pc = "work", !.def = def, !.todo = work] /\ Local(s, me)
    BY <1>9
  <2>2. me.pc = "work" /\ me.stmt = alter /\ me.before = sess[s].before /\ me.def = def /\ me.todo = work
    BY <1>2, <1>5, <2>1 DEF Idle
  <2>3. AllSound(alter.table, work) /\ (work = <<>> \/ Len(work) = 1)
    <3>1. PICK table, con : table = alter.table /\ con = alter.con
      OBVIOUS
    <3>2. ConstraintOK(con)
      BY <1>2, <1>3, <1>5, <1>9, <3>1, DdlAssumption
    <3>3. /\ AllSound(table, AlterWork(table, con))
          /\ AlterWork(table, con) = <<>> \/ Len(AlterWork(table, con)) = 1
      BY <3>2, AlterWorkSound
    <3>4. QED
      BY <1>5, <3>1, <3>3
  <2>4. Effect(me.stmt, me.before, catalog) /\ Same(me.before, catalog)
    <3>1. Same(me.before, catalog)
      BY <1>2, <2>2
    <3>2. QED
      BY <1>2, <3>1, SameIsAtomic DEF Effect
  <2>5. WorksOK(me) /\ Holds(me, catalog)
    BY <1>5, <1>9, <2>2, <2>3 DEF WorksOK, AllSound, Holds
  <2>6. me.stmt.kind = "AlterTable"
    BY <1>3, <1>5, <2>2
  <2>7. Progress(me, catalog)
    BY <2>2, <2>3, <2>4, <2>5, <2>6 DEF Progress, KindOK, UntouchedPcs, Making, Altering, Clearing, Removing, Creating
  <2>8. Tied(me, walOn', active', ddlTx')
    BY <1>1, <1>3, <2>2, <2>6 DEF Tied, Creating
  <2>9. QED
    BY <1>1, <1>2, <2>1, <2>2, <2>7, <2>8 DEF Advances
<1>10. QED
  BY <1>4, <1>6, <1>7, <1>8, <1>9

\* What a table that is there says of its id.
LEMMA SameIsAbout ==
    ASSUME NEW old, NEW cat, Same(old, cat), NEW t, HasTable(cat, t)
    PROVE  HasTable(old, t) /\ About(old, t, cat.tables[t].id) /\ \A tid : OthersStay(old, cat, tid)
  BY DEF Same, About, HasTable, OthersStay, HasIndex

\* ALTER TABLE writes its columns.
LEMMA WriteAdvances ==
    ASSUME NEW s, Poised(s), AlterWrite(s)
    PROVE  Advances(s)
<1>1. sess[s].pc = "write" /\ sess[s].pc \in UntouchedPcs /\ UNCHANGED ddlTx
  BY DEF AlterWrite, UntouchedPcs, OnlyCatalog
<1>2. /\ DOMAIN sess[s] = DOMAIN Idle /\ Whole(catalog) /\ Consistent(catalog) /\ Same(sess[s].before, catalog)
      /\ sess[s].stmt.kind = "AlterTable" /\ ddlTx
  BY <1>1, StillSame DEF KindOK, Tied
<1>3. PICK t, columns : t = sess[s].stmt.table /\ columns = sess[s].def.columns
  OBVIOUS
<1>4. \/ (\E x : Return(s, x)) /\ UNCHANGED catalog
      \/ HasTable(catalog, t) /\ catalog' = UpdateTable(catalog, t, columns) /\ Goto(s, "leave")
  BY <1>3 DEF AlterWrite
<1>5. CASE (\E x : Return(s, x)) /\ UNCHANGED catalog
  BY <1>2, <1>5, ReturnsUnchanged
<1>6. CASE HasTable(catalog, t) /\ catalog' = UpdateTable(catalog, t, columns) /\ Goto(s, "leave")
  <2>1. PICK me : Moves(s, me, "leave")
    BY <1>2, <1>6, GotoMoves
  <2>2. PICK new, tid : new = catalog' /\ tid = catalog.tables[t].id
    OBVIOUS
  <2>3. /\ Whole(new) /\ new.indexes = catalog.indexes /\ Without(new.tables, t) = Without(catalog.tables, t)
        /\ HasTable(new, t) /\ new.tables[t].id = tid
    BY <1>2, <1>6, <2>2, TableUpdated
  <2>4. About(new, t, tid)
    BY <2>3 DEF About
  <2>5. About(sess[s].before, t, tid) /\ OthersStay(sess[s].before, catalog, tid)
    BY <1>2, <1>6, <2>2, SameIsAbout
  <2>6. OthersStay(sess[s].before, new, tid) /\ Without(new.tables, t) = Without(sess[s].before.tables, t)
    BY <1>2, <2>3, <2>5 DEF OthersStay, HasIndex, Same
  <2>7. Effect(sess[s].stmt, sess[s].before, new)
    BY <1>2, <1>3, <2>3, <2>4, <2>5, <2>6, TableEffect
  <2>8. QED
    BY <1>1, <1>2, <2>1, <2>2, <2>3, <2>7, Leaving
<1>7. QED
  BY <1>4, <1>5, <1>6

\* CREATE INDEX makes its index.
LEMMA IndexMakeAdvances ==
    ASSUME NamesApart, NEW s, Poised(s), IndexMake(s)
    PROVE  Advances(s)
<1>1. sess[s].pc = "make" /\ sess[s].pc \in UntouchedPcs
  BY DEF IndexMake, UntouchedPcs
<1>2. /\ Whole(catalog) /\ Consistent(catalog) /\ Same(sess[s].before, catalog)
      /\ sess[s].stmt.kind = "CreateIndex" /\ sess[s].stmt \in Statements
  BY <1>1, StillSame DEF KindOK
<1>3. Holds(sess[s], catalog)
  BY <1>1 DEF Poised, Progress
<1>4. PICK t, name, tid, old : /\ t = sess[s].stmt.table /\ name = sess[s].stmt.index /\ tid = sess[s].def.id
                               /\ old = sess[s].before
  OBVIOUS
<1>5. \/ (\E x : Return(s, x)) /\ UNCHANGED catalog
      \/ /\ ~HasIndex(catalog, name) /\ Return(s, "ok")
         /\ \E columns, unique : catalog' = AddIndex(catalog, name, tid, columns, unique)
  BY <1>4 DEF IndexMake
<1>6. CASE (\E x : Return(s, x)) /\ UNCHANGED catalog
  BY <1>2, <1>6, ReturnsUnchanged
<1>7. CASE /\ ~HasIndex(catalog, name) /\ Return(s, "ok")
           /\ \E columns, unique : catalog' = AddIndex(catalog, name, tid, columns, unique)
  <2>1. PICK new : new = catalog'
    OBVIOUS
  <2>2. IsAdd(catalog, new, name, tid)
    BY <1>2, <1>7, <2>1, AddsAreAdds
  <2>3. Own(catalog, name, tid) /\ MayBeNamed(catalog, name, tid)
    BY <1>2, <1>4, <1>7 DEF Own, MayBeNamed, NamesApart
  <2>4. HasTable(catalog, t) /\ catalog.tables[t].id = tid
    BY <1>3, <1>4 DEF Holds
  <2>5. Whole(new)
    BY <1>2, <2>2, <2>3, <2>4, WholeAfterAdd DEF HasTable
  <2>6. About(old, t, tid) /\ OthersStay(old, catalog, tid)
    BY <1>2, <1>4, <2>4, SameIsAbout
  <2>7. OthersStay(old, new, tid)
    BY <2>2, <2>3, <2>6, OthersAfterAdd
  <2>8. new.tables = old.tables
    BY <1>2, <1>4, <2>2 DEF IsAdd, Same
  <2>9. About(new, t, tid)
    BY <2>2, <2>4 DEF IsAdd, About, HasTable
  <2>10. Effect(sess[s].stmt, old, new)
    BY <1>2, <1>4, <2>5, <2>6, <2>7, <2>8, <2>9, TableEffect
  <2>11. QED
    BY <1>4, <1>7, <2>1, <2>5, <2>10, Returns DEF Effect
<1>8. QED
  BY <1>5, <1>6, <1>7

\* DROP INDEX drops its index.
LEMMA IndexUnmakeAdvances ==
    ASSUME NEW s, Poised(s), IndexUnmake(s)
    PROVE  Advances(s)
<1>1. sess[s].pc = "unmake" /\ sess[s].pc \in UntouchedPcs /\ UNCHANGED ddlTx /\ Goto(s, "leave")
  BY DEF IndexUnmake, UntouchedPcs, OnlyCatalog
<1>2. /\ DOMAIN sess[s] = DOMAIN Idle /\ Whole(catalog) /\ Consistent(catalog) /\ Same(sess[s].before, catalog)
      /\ sess[s].stmt.kind = "DropIndex" /\ ddlTx
  BY <1>1, StillSame DEF KindOK, Tied
<1>3. PICK me : Moves(s, me, "leave")
  BY <1>1, <1>2, GotoMoves
<1>4. PICK new, name : new = catalog' /\ name = sess[s].stmt.index
  OBVIOUS
<1>5. IsDrop(catalog, new, name)
  BY <1>2, <1>4, DropIsDrop DEF IndexUnmake
<1>6. Whole(new)
  BY <1>2, <1>5, WholeAfterDrop
<1>7. Effect(sess[s].stmt, sess[s].before, new)
  BY <1>2, <1>4, <1>5, <1>6, DropIndexEffect
<1>8. QED
  BY <1>1, <1>2, <1>3, <1>4, <1>6, <1>7, Leaving

\* The DDL transaction is left.
LEMMA LeaveAdvances ==
    ASSUME NEW s, Poised(s), LeaveTx(s)
    PROVE  Advances(s)
<1>1. UNCHANGED catalog /\ Whole(catalog)
  BY DEF LeaveTx, OnlyTx, Poised
<1>2. Effect(sess[s].stmt, sess[s].before, catalog) /\ ddlTx
  <2>1. CASE sess[s].pc = "leave"
    BY <2>1 DEF Poised, Progress, Removing, Tied
  <2>2. CASE At(s, "work", "AlterTable") /\ sess[s].todo = <<>>
    <3>1. sess[s].pc = "work" /\ ~Creating(sess[s]) /\ Len(sess[s].todo) # 1
      BY <2>2 DEF At, Creating
    <3>2. QED
      BY <3>1 DEF Poised, Progress, Altering, Tied
  <2>3. QED
    BY <2>1, <2>2 DEF LeaveTx
<1>3. Return(s, "ok")
  BY <1>2 DEF LeaveTx
<1>4. QED
  BY <1>1, <1>2, <1>3, Returns DEF Effect

\* A table taken out twice, or put in and taken out.
LEMMA WithoutIt ==
    ASSUME NEW map, NEW t, NEW def
    PROVE  /\ Without(Without(map, t), t) = Without(map, t)
           /\ map = [n \in DOMAIN map |-> map[n]] /\ t \notin DOMAIN map => Without(Put(map, t, def), t) = map
<1>1. PICK less, one : less = DOMAIN map \ {t} /\ one = Without(map, t)
  OBVIOUS
<1>2. one = [n \in less |-> map[n]]
  BY <1>1, Zenon DEF Without
<1>3. DOMAIN one \ {t} = less /\ \A n \in less : one[n] = map[n]
  BY <1>1, <1>2
<1>4. Without(one, t) = [n \in less |-> one[n]]
  BY <1>3, Zenon DEF Without
<1>5. Without(one, t) = one
  BY <1>2, <1>3, <1>4
<1>6. PICK put, keys : put = Put(map, t, def) /\ keys = DOMAIN map
  OBVIOUS
<1>7. IsPut(put, map, t, def)
  BY <1>6, PutIs
<1>8. ASSUME map = [n \in DOMAIN map |-> map[n]], t \notin DOMAIN map
      PROVE  Without(put, t) = map
  <2>1. DOMAIN put \ {t} = keys /\ \A n \in keys : put[n] = map[n]
    BY <1>6, <1>7, <1>8 DEF IsPut
  <2>2. Without(put, t) = [n \in keys |-> put[n]]
    BY <2>1, Zenon DEF Without
  <2>3. map = [n \in keys |-> map[n]]
    BY <1>6, <1>8
  <2>4. QED
    BY <2>1, <2>2, <2>3
<1>9. QED
  BY <1>1, <1>5, <1>6, <1>8

\* CREATE TABLE is done.
LEMMA BuiltIsDone ==
    ASSUME NEW me, NEW cat, Whole(cat), Built(me, cat), me.stmt.kind \notin {"DropIndex", "CreateIndex"}
    PROVE  Effect(me.stmt, me.before, cat)
<1>1. PICK t, old, tid : t = me.stmt.table /\ old = me.before /\ tid = me.def.id
  OBVIOUS
<1>2. /\ ~HasTable(old, t) /\ (\A n \in DOMAIN old.indexes : old.indexes[n].table # tid) /\ OthersStay(old, cat, tid)
      /\ HasTable(cat, t) /\ cat.tables[t].id = tid /\ old.tables = Without(cat.tables, t)
  BY <1>1 DEF Built, Holds
<1>3. About(old, t, tid) /\ About(cat, t, tid)
  BY <1>2 DEF About
<1>4. Without(cat.tables, t) = Without(old.tables, t)
  BY <1>2, WithoutIt
<1>5. QED
  BY <1>1, <1>2, <1>3, <1>4, TableEffect

\* CREATE TABLE enters its table.
LEMMA DefineAdvances ==
    ASSUME NamesApart, NEW s, Poised(s), CreateDefine(s)
    PROVE  Advances(s)
<1>1. sess[s].pc = "define" /\ sess[s].pc \in UntouchedPcs /\ UNCHANGED <<walOn, active, ddlTx>>
  BY DEF CreateDefine, UntouchedPcs, OnlyCatalog, walVars
<1>2. /\ DOMAIN sess[s] = DOMAIN Idle /\ Whole(catalog) /\ Consistent(catalog) /\ Same(sess[s].before, catalog)
      /\ sess[s].made = <<>> /\ sess[s].stmt \in Statements /\ Tied(sess[s], walOn, active, ddlTx)
  BY <1>1, StillSame
<1>3. /\ ~HasTable(catalog, sess[s].stmt.table) /\ sess[s].stmt.kind = "CreateTable"
      /\ DOMAIN sess[s].def = {"id", "columns"} /\ IsSeq(sess[s].def.columns)
  BY <1>1 DEF Poised, Progress, StatementOK, TxPcs, Creating, Ready, KnowsColumns
<1>4. PICK t, stmt, columns, later, todo, tid, pc :
          /\ t = sess[s].stmt.table /\ stmt = sess[s].stmt /\ columns = sess[s].def.columns /\ tid = catalog.nextTable
          /\ later = (IF walOn THEN <<>> ELSE ConstraintWork(t, stmt.constraints))
          /\ todo = ColumnWork(t, columns) \o later
          /\ pc = IF walOn THEN "defined" ELSE "work"
  OBVIOUS
<1>5. PICK me : me = [sess[s] EXCEPT !.pc = pc, !.def.id = tid, !.todo = todo] /\ Local(s, me)
  BY <1>4 DEF CreateDefine
<1>6. /\ me.pc = pc /\ me.stmt = stmt /\ me.before = sess[s].before /\ me.made = <<>> /\ me.todo = todo
      /\ me.tx = sess[s].tx /\ me.def.id = tid
  BY <1>2, <1>3, <1>4, <1>5 DEF Idle
<1>7. AllSound(t, todo)
  <2>1. AllSound(t, ColumnWork(t, columns))
    BY <1>3, <1>4, ColumnWorkSound
  <2>2. AllSound(t, later)
    <3>1. PICK constraints : constraints = stmt.constraints
      OBVIOUS
    <3>2. IsSeq(constraints) /\ \A con \in ToSet(constraints) : ConstraintOK(con)
      BY <1>2, <1>3, <1>4, <3>1, DdlAssumption
    <3>3. AllSound(t, ConstraintWork(t, constraints)) /\ AllSound(t, <<>>)
      BY <3>2, ConstraintWorkSound, WorkSound
    <3>4. QED
      BY <1>4, <3>1, <3>3
  <2>3. QED
    BY <1>4, <2>1, <2>2, SoundJoined
<1>8. PICK new, def : new = catalog' /\ def = [id |-> tid, columns |-> columns]
  OBVIOUS
<1>9. new = AddTable(catalog, t, columns)
  BY <1>4, <1>8 DEF CreateDefine
<1>10. /\ Whole(new) /\ new.tables = Put(catalog.tables, t, def) /\ new.indexes = catalog.indexes
       /\ \A n \in DOMAIN catalog.indexes : catalog.indexes[n].table # tid
  <2>1. def = [id |-> catalog.nextTable, columns |-> columns] /\ def.id = tid /\ ~HasTable(catalog, t)
    BY <1>3, <1>4, <1>8
  <2>2. QED
    BY <1>2, <1>9, <2>1, TableAdded
<1>11. Built(me, new)
  <2>1. PICK old, map : old = sess[s].before /\ map = catalog.tables
    OBVIOUS
  <2>2. /\ old.tables = map /\ old.indexes = catalog.indexes /\ map = [n \in DOMAIN map |-> map[n]] /\ t \notin DOMAIN map
        /\ catalog.indexes = [n \in DOMAIN catalog.indexes |-> catalog.indexes[n]]
    BY <1>2, <1>3, <1>4, <2>1 DEF Same, Whole, HasTable
  <2>3. Without(new.tables, t) = old.tables
    BY <1>10, <2>1, <2>2, WithoutIt
  <2>4. IsPut(new.tables, map, t, def)
    BY <1>10, <2>1, PutIs
  <2>5. Holds(me, new)
    <3>1. me.stmt.table = t /\ me.def.id = tid
      BY <1>4, <1>6
    <3>2. def.id = tid
      BY <1>8
    <3>3. t \in DOMAIN new.tables /\ new.tables[t] = def
      BY <2>4 DEF IsPut
    <3>4. QED
      BY <3>1, <3>2, <3>3 DEF Holds, HasTable
  <2>6. OthersStay(old, new, tid)
    BY <1>10, <2>2 DEF OthersStay, HasIndex
  <2>7. QED
    BY <1>4, <1>6, <1>10, <2>1, <2>2, <2>3, <2>5, <2>6 DEF Built, HasTable
<1>12. MadeOwn(me, new) /\ WorksOK(me)
  BY <1>4, <1>6, <1>7, ShortLists DEF MadeOwn, WorksOK, AllSound
<1>13. me.stmt.kind = "CreateTable" /\ me.pc \in {"defined", "work"}
  BY <1>3, <1>4, <1>6
<1>14. Progress(me, new)
  BY <1>11, <1>12, <1>13 DEF Progress, KindOK, UntouchedPcs, Making, Altering, Clearing, Removing, Creating
<1>15. Tied(me, walOn', active', ddlTx')
  BY <1>1, <1>2, <1>6, <1>13 DEF Tied, Creating
<1>16. QED
  BY <1>5, <1>8, <1>10, <1>13, <1>14, <1>15 DEF Advances

\* What is known of a statement that has entered its table.
LEMMA InTheMaking ==
    ASSUME NEW s, Poised(s), sess[s].pc \in {"defined", "log", "work", "commit"}, Creating(sess[s])
    PROVE  /\ DOMAIN sess[s] = DOMAIN Idle /\ Whole(catalog) /\ sess[s].stmt \in Statements
           /\ Built(sess[s], catalog) /\ MadeOwn(sess[s], catalog) /\ WorksOK(sess[s])
           /\ walOn /\ sess[s].pc # "commit" => sess[s].tx \in DOMAIN active
  BY DEF Poised, Ready, Progress, Making, Tied

\* And of one that makes the index of a constraint.
LEMMA InTheAltering ==
    ASSUME NEW s, Poised(s), sess[s].pc = "work", ~Creating(sess[s]), sess[s].todo # <<>>
    PROVE  /\ DOMAIN sess[s] = DOMAIN Idle /\ Whole(catalog) /\ sess[s].stmt \in Statements
           /\ Len(sess[s].todo) = 1 /\ WorksOK(sess[s]) /\ Same(sess[s].before, catalog) /\ Holds(sess[s], catalog)
           /\ sess[s].stmt.kind \notin {"CreateIndex", "DropIndex"} /\ ddlTx
  BY DEF Poised, Ready, Progress, Altering, Tied, KindOK

\* What has been entered is there as long as the statement keeps its table, and the
\* catalog its tables and the indexes of others.
LEMMA StaysBuilt ==
    ASSUME NEW me, NEW cat, Built(me, cat), NEW you, you.stmt = me.stmt, you.before = me.before, you.def.id = me.def.id,
           NEW new, new.tables = cat.tables, OthersStay(me.before, new, me.def.id)
    PROVE  Built(you, new)
  BY DEF Built, Holds, HasTable

\* A piece of work fails, or the schema does not convert.
LEMMA WorkFails ==
    ASSUME NEW s, Poised(s), sess[s].pc \in {"defined", "work"}, Fail(s), UNCHANGED catalog,
           Creating(sess[s]) \/ sess[s].todo # <<>>
    PROVE  Advances(s)
<1>1. CASE Creating(sess[s])
  <2>1. /\ DOMAIN sess[s] = DOMAIN Idle /\ Whole(catalog) /\ Built(sess[s], catalog) /\ MadeOwn(sess[s], catalog)
    BY <1>1, InTheMaking
  <2>2. Goto(s, "abort")
    BY <1>1 DEF Fail, Creating
  <2>3. PICK me : Moves(s, me, "abort") /\ me.def = sess[s].def
    BY <2>1, <2>2, GotoMoves
  <2>4. OthersStay(sess[s].before, catalog, sess[s].def.id)
    BY <2>1 DEF Built
  <2>5. Built(me, catalog)
    BY <2>1, <2>3, <2>4, StaysBuilt DEF Moves
  <2>6. MadeOwn(me, catalog) /\ me.pc = "abort"
    BY <2>1, <2>3 DEF Moves, MadeOwn
  <2>7. Progress(me, catalog) /\ Tied(me, walOn', active', ddlTx')
    BY <2>5, <2>6 DEF Progress, KindOK, UntouchedPcs, Making, Altering, Clearing, Removing, Tied
  <2>8. QED
    BY <2>1, <2>3, <2>6, <2>7 DEF Advances, Moves
<1>2. CASE ~Creating(sess[s])
  <2>1. sess[s].pc = "work" /\ Return(s, "error")
    BY <1>2 DEF Poised, StatementOK, TxPcs, Fail, Creating
  <2>2. Whole(catalog) /\ Same(sess[s].before, catalog)
    BY <1>2, <2>1, InTheAltering
  <2>3. QED
    BY <2>1, <2>2, ReturnsUnchanged
<1>3. QED
  BY <1>1, <1>2

\* A piece of work is done.
LEMMA WorkDone ==
    ASSUME NEW s, Poised(s), sess[s].pc \in {"defined", "work"}, sess[s].todo # <<>>, Done(s),
           NEW new, new = catalog', Whole(new), new.tables = catalog.tables, NEW tid, tid = sess[s].def.id,
           \A old : OthersStay(old, catalog, tid) => OthersStay(old, new, tid),
           \A n : Own(catalog, n, tid) => Own(new, n, tid),
           NEW made, made = Head(sess[s].todo).made, IsSeq(made), \A n \in ToSet(made) : Own(new, n, tid),
           UNCHANGED <<walOn, active, ddlTx>>
    PROVE  Advances(s)
<1>0. DOMAIN sess[s] = DOMAIN Idle /\ Tied(sess[s], walOn, active, ddlTx) /\ KindOK(sess[s])
  BY DEF Poised, Ready, Progress
<1>1. PICK me : me = [sess[s] EXCEPT !.todo = Tail(@), !.made = @ \o made] /\ Local(s, me)
  BY DEF Done
<1>2. /\ me.pc = sess[s].pc /\ me.stmt = sess[s].stmt /\ me.before = sess[s].before /\ me.made = sess[s].made \o made
      /\ me.todo = Tail(sess[s].todo) /\ me.tx = sess[s].tx /\ me.def = sess[s].def
  BY <1>0, <1>1 DEF Idle
<1>3. Tied(me, walOn', active', ddlTx')
  BY <1>0, <1>2 DEF Tied, Creating
<1>4. CASE Creating(sess[s])
  <2>1. Built(sess[s], catalog) /\ MadeOwn(sess[s], catalog) /\ WorksOK(sess[s])
    BY <1>4, InTheMaking
  <2>2. OthersStay(sess[s].before, new, tid)
    BY <2>1 DEF Built
  <2>3. Built(me, new)
    BY <1>2, <2>1, <2>2, StaysBuilt
  <2>4. MadeOwn(me, new)
    <3>1. PICK before : before = sess[s].made
      OBVIOUS
    <3>2. IsSeq(before) /\ \A n \in ToSet(before) : Own(new, n, tid)
      BY <2>1, <3>1 DEF MadeOwn
    <3>3. IsSeq(before \o made) /\ ToSet(before \o made) = ToSet(before) \cup ToSet(made)
      BY <3>2, Joined
    <3>4. QED
      BY <1>2, <3>1, <3>2, <3>3 DEF MadeOwn
  <2>5. WorksOK(me)
    <3>1. PICK todo : todo = sess[s].todo
      OBVIOUS
    <3>2. IsSeq(todo) /\ todo # <<>> /\ \A w \in ToSet(todo) : WorkOK(sess[s].stmt.table, w)
      BY <2>1, <3>1 DEF WorksOK
    <3>3. IsSeq(Tail(todo)) /\ ToSet(Tail(todo)) \subseteq ToSet(todo)
      BY <3>2, HeadAndTail
    <3>4. QED
      BY <1>2, <3>1, <3>2, <3>3 DEF WorksOK
  <2>6. Progress(me, new)
    BY <1>0, <1>2, <1>4, <2>3, <2>4, <2>5
       DEF Progress, KindOK, UntouchedPcs, Making, Altering, Clearing, Removing, Creating
  <2>7. QED
    BY <1>1, <1>2, <1>3, <2>6 DEF Advances
<1>5. CASE ~Creating(sess[s])
  <2>1. sess[s].pc = "work"
    BY <1>5 DEF Poised, StatementOK, TxPcs
  <2>2. /\ Len(sess[s].todo) = 1 /\ WorksOK(sess[s]) /\ Same(sess[s].before, catalog) /\ Holds(sess[s], catalog)
        /\ sess[s].stmt.kind \notin {"CreateIndex", "DropIndex"}
    BY <1>5, <2>1, InTheAltering
  <2>3. me.todo = <<>>
    <3>1. PICK todo : todo = sess[s].todo
      OBVIOUS
    <3>2. IsSeq(todo) /\ todo # <<>> /\ Len(todo) = 1
      BY <2>2, <3>1 DEF WorksOK
    <3>3. Tail(todo) = <<>>
      BY <3>2, HeadAndTail
    <3>4. QED
      BY <1>2, <3>1, <3>3
  <2>4. PICK t, old : t = sess[s].stmt.table /\ old = sess[s].before
    OBVIOUS
  <2>5. HasTable(catalog, t) /\ catalog.tables[t].id = tid
    BY <2>2, <2>4 DEF Holds
  <2>6. About(old, t, tid) /\ OthersStay(old, catalog, tid)
    BY <2>2, <2>4, <2>5, SameIsAbout
  <2>7. About(new, t, tid) /\ Without(new.tables, t) = Without(old.tables, t)
    BY <2>2, <2>4, <2>5 DEF About, HasTable, Same
  <2>8. Effect(sess[s].stmt, old, new)
    BY <2>2, <2>4, <2>6, <2>7, TableEffect
  <2>9. Progress(me, new)
    BY <1>0, <1>2, <1>5, <2>1, <2>3, <2>4, <2>8
       DEF Progress, KindOK, UntouchedPcs, Making, Altering, Clearing, Removing, Creating
  <2>10. QED
    BY <1>1, <1>2, <1>3, <2>1, <2>9 DEF Advances
<1>6. QED
  BY <1>4, <1>5

\* What is known of the piece of work that is next.
LEMMA NextWork ==
    ASSUME NEW s, Poised(s), sess[s].pc \in {"defined", "work"}, sess[s].todo # <<>>,
           NEW w, w = Head(sess[s].todo), NEW t, t = sess[s].stmt.table
    PROVE  WorkOK(t, w) /\ Holds(sess[s], catalog) /\ t \in Named
<1>1. WorksOK(sess[s]) /\ Holds(sess[s], catalog)
  <2>1. CASE Creating(sess[s])
    BY <2>1, InTheMaking DEF Built
  <2>2. CASE ~Creating(sess[s])
    <3>1. sess[s].pc = "work"
      BY <2>2 DEF Poised, StatementOK, TxPcs
    <3>2. QED
      BY <2>2, <3>1, InTheAltering
  <2>3. QED
    BY <2>1, <2>2
<1>2. PICK todo : todo = sess[s].todo
  OBVIOUS
<1>3. Head(todo) \in ToSet(todo)
  BY <1>1, <1>2, HeadAndTail DEF WorksOK
<1>4. WorkOK(t, w)
  BY <1>1, <1>2, <1>3 DEF WorksOK
<1>5. sess[s].stmt \in Statements
  BY DEF Poised, Ready
<1>6. QED
  BY <1>1, <1>4, <1>5 DEF Named

\* The index of a primary key.
LEMMA MakePkAdvances ==
    ASSUME NamesApart, NEW s, Poised(s), MakePk(s)
    PROVE  Advances(s)
<1>1. sess[s].pc \in {"defined", "work"} /\ sess[s].todo # <<>> /\ Head(sess[s].todo).do = "pk" /\ Done(s)
  BY DEF MakePk, Doing
<1>2. PICK w, t, tid, new, name, made :
          /\ w = Head(sess[s].todo) /\ t = sess[s].stmt.table /\ tid = sess[s].def.id /\ new = catalog'
          /\ name = PkName(t) /\ made = w.made
  OBVIOUS
<1>3. WorkOK(t, w) /\ Holds(sess[s], catalog) /\ t \in Named
  BY <1>1, <1>2, NextWork
<1>4. Whole(catalog) /\ Consistent(catalog)
  BY DEF Poised
<1>5. IsAdd(catalog, new, name, tid)
  <2>1. \E columns : new = AddPkIndex(catalog, t, tid, columns)
    BY <1>2 DEF MakePk
  <2>2. QED
    BY <1>2, <1>4, <2>1, AddsAreAdds
<1>6. HasTable(catalog, t) /\ catalog.tables[t].id = tid
  BY <1>2, <1>3 DEF Holds
<1>7. Own(catalog, name, tid) /\ MayBeNamed(catalog, name, tid)
  BY <1>2, <1>3, <1>4, <1>6 DEF Own, MayBeNamed, Whole
<1>8. Whole(new)
  BY <1>4, <1>5, <1>6, <1>7, WholeAfterAdd DEF HasTable
<1>9. /\ \A old : OthersStay(old, catalog, tid) => OthersStay(old, new, tid)
      /\ \A n : Own(catalog, n, tid) => Own(new, n, tid)
  BY <1>5, <1>7, OthersAfterAdd
<1>10. IsSeq(made) /\ \A n \in ToSet(made) : Own(new, n, tid)
  <2>1. PICK pkey : pkey = <<t, "pkey">>
    OBVIOUS
  <2>2. made \in {<<>>, <<pkey>>}
    BY <1>1, <1>2, <1>3, <2>1 DEF WorkOK
  <2>3. Own(new, pkey, tid)
    BY <1>3, <1>8, <2>1 DEF Own, Whole
  <2>4. QED
    BY <2>2, <2>3, ShortLists
<1>11. new.tables = catalog.tables /\ UNCHANGED <<walOn, active, ddlTx>>
  BY <1>5 DEF IsAdd, MakePk, OnlyCatalog, walVars
<1>12. QED
  BY <1>1, <1>2, <1>8, <1>9, <1>10, <1>11, WorkDone

\* The index of a constraint.
LEMMA MakeIndexAdvances ==
    ASSUME NamesApart, NEW s, Poised(s), MakeIndex(s)
    PROVE  Advances(s)
<1>1. sess[s].pc \in {"defined", "work"} /\ sess[s].todo # <<>> /\ Head(sess[s].todo).do = "index"
  BY DEF MakeIndex, Doing
<1>2. PICK w, t, tid, new, name, made :
          /\ w = Head(sess[s].todo) /\ t = sess[s].stmt.table /\ tid = sess[s].def.id /\ new = catalog'
          /\ name = w.name /\ made = w.made
  OBVIOUS
<1>3. WorkOK(t, w) /\ Holds(sess[s], catalog) /\ t \in Named
  BY <1>1, <1>2, NextWork
<1>4. Whole(catalog) /\ Consistent(catalog)
  BY DEF Poised
<1>5. \/ Fail(s) /\ UNCHANGED catalog
      \/ ~HasIndex(catalog, name) /\ Done(s) /\ \E columns, unique : new = AddIndex(catalog, name, tid, columns, unique)
  BY <1>2 DEF MakeIndex
<1>6. CASE Fail(s) /\ UNCHANGED catalog
  BY <1>1, <1>6, WorkFails
<1>7. CASE ~HasIndex(catalog, name) /\ Done(s) /\ \E columns, unique : new = AddIndex(catalog, name, tid, columns, unique)
  <2>1. IsAdd(catalog, new, name, tid)
    BY <1>4, <1>7, AddsAreAdds
  <2>2. HasTable(catalog, t) /\ catalog.tables[t].id = tid
    BY <1>2, <1>3 DEF Holds
  <2>3. ~Reserved(name) /\ made \in {<<>>, <<name>>}
    BY <1>1, <1>2, <1>3 DEF WorkOK
  <2>4. Own(catalog, name, tid) /\ MayBeNamed(catalog, name, tid)
    BY <1>7, <2>3 DEF Own, MayBeNamed
  <2>5. Whole(new)
    BY <1>4, <2>1, <2>2, <2>4, WholeAfterAdd DEF HasTable
  <2>6. /\ \A old : OthersStay(old, catalog, tid) => OthersStay(old, new, tid)
        /\ \A n : Own(catalog, n, tid) => Own(new, n, tid)
        /\ Own(new, name, tid)
    BY <2>1, <2>4, OthersAfterAdd
  <2>7. IsSeq(made) /\ \A n \in ToSet(made) : Own(new, n, tid)
    BY <2>3, <2>6, ShortLists
  <2>8. new.tables = catalog.tables /\ UNCHANGED <<walOn, active, ddlTx>>
    BY <2>1 DEF IsAdd, MakeIndex, OnlyCatalog, walVars
  <2>9. QED
    BY <1>1, <1>2, <1>7, <2>5, <2>6, <2>7, <2>8, WorkDone
<1>8. QED
  BY <1>5, <1>6, <1>7

\* A foreign key is checked.
LEMMA CheckFkAdvances ==
    ASSUME NEW s, Poised(s), CheckFk(s)
    PROVE  Advances(s)
<1>1. /\ sess[s].pc \in {"defined", "work"} /\ sess[s].todo # <<>> /\ Head(sess[s].todo).do = "fk"
      /\ UNCHANGED <<catalog, walOn, active, ddlTx>>
  BY DEF CheckFk, Doing, OnlyLocal, walVars
<1>2. PICK w, t, tid, new, made :
          /\ w = Head(sess[s].todo) /\ t = sess[s].stmt.table /\ tid = sess[s].def.id /\ new = catalog'
          /\ made = w.made
  OBVIOUS
<1>3. WorkOK(t, w) /\ new = catalog /\ Whole(new)
  BY <1>1, <1>2, NextWork DEF Poised
<1>4. IsSeq(made) /\ ToSet(made) = {}
  BY <1>1, <1>2, <1>3, ShortLists DEF WorkOK
<1>5. CASE Fail(s)
  BY <1>1, <1>5, WorkFails
<1>6. CASE Done(s)
  BY <1>1, <1>2, <1>3, <1>4, <1>6, WorkDone
<1>7. QED
  BY <1>5, <1>6 DEF CheckFk

\* CREATE TABLE goes on with all it has made.
LEMMA MakingMoves ==
    ASSUME NEW s, Poised(s), sess[s].pc \in {"defined", "log", "work"}, Creating(sess[s]), UNCHANGED catalog,
           NEW me, Local(s, me), me.pc \in {"log", "work", "commit"}, me.stmt = sess[s].stmt, me.before = sess[s].before,
           me.def = sess[s].def, me.made = sess[s].made, WorksOK(me),
           walOn' /\ me.pc # "commit" => me.tx \in DOMAIN active'
    PROVE  Advances(s)
<1>1. Whole(catalog) /\ Built(sess[s], catalog) /\ MadeOwn(sess[s], catalog)
  BY InTheMaking
<1>2. OthersStay(sess[s].before, catalog, sess[s].def.id)
  BY <1>1 DEF Built
<1>3. Built(me, catalog)
  BY <1>1, <1>2, StaysBuilt
<1>4. MadeOwn(me, catalog) /\ me.stmt.kind = "CreateTable"
  BY <1>1 DEF MadeOwn, Creating
<1>5. Progress(me, catalog)
  BY <1>3, <1>4 DEF Progress, KindOK, UntouchedPcs, Making, Altering, Clearing, Removing, Creating
<1>6. Tied(me, walOn', active', ddlTx')
  BY <1>4 DEF Tied, Creating
<1>7. QED
  BY <1>1, <1>5, <1>6 DEF Advances

\* CREATE TABLE writes its record.
LEMMA LogAdvances ==
    ASSUME NamesApart, NEW s, Poised(s), LogPrev(s) \/ LogCreate(s)
    PROVE  Advances(s)
<1>1. sess[s].pc \in {"defined", "log"} /\ UNCHANGED <<catalog, walOn>>
  BY DEF LogPrev, LogCreate, LogDdl, OnlyLocal, OnlyWal, walVars
<1>2. Creating(sess[s])
  BY <1>1 DEF Poised, StatementOK, TxPcs
<1>3. /\ DOMAIN sess[s] = DOMAIN Idle /\ WorksOK(sess[s]) /\ sess[s].stmt \in Statements
      /\ walOn => sess[s].tx \in DOMAIN active
  BY <1>1, <1>2, InTheMaking
<1>4. CASE LogPrev(s)
  <2>1. sess[s].pc = "defined" /\ UNCHANGED active
    BY <1>4 DEF LogPrev, OnlyLocal, walVars
  <2>2. Fail(s) \/ \E x : Local(s, [sess[s] EXCEPT !.pc = "log", !.prev = x])
    BY <1>4 DEF LogPrev
  <2>3. CASE Fail(s)
    BY <1>1, <1>2, <2>1, <2>3, WorkFails
  <2>4. CASE \E x : Local(s, [sess[s] EXCEPT !.pc = "log", !.prev = x])
    <3>1. PICK me : Moves(s, me, "log") /\ me.def = sess[s].def
      BY <1>3, <2>4, GotoMoves
    <3>2. /\ Local(s, me) /\ me.pc = "log" /\ me.stmt = sess[s].stmt /\ me.before = sess[s].before
          /\ me.made = sess[s].made /\ WorksOK(me) /\ me.tx = sess[s].tx
      BY <1>3, <3>1 DEF Moves, WorksOK
    <3>3. QED
      BY <1>1, <1>2, <1>3, <2>1, <3>1, <3>2, MakingMoves
  <2>5. QED
    BY <2>2, <2>3, <2>4
<1>5. CASE LogCreate(s)
  <2>1. PICK t, constraints, todo, n :
            /\ t = sess[s].stmt.table /\ constraints = sess[s].stmt.constraints /\ n = Len(ddlLog')
            /\ todo = ConstraintWork(t, constraints)
    OBVIOUS
  <2>2. PICK me : me = [sess[s] EXCEPT !.pc = "work", !.todo = todo] /\ Local(s, me)
    BY <1>5, <2>1 DEF LogCreate
  <2>3. /\ me.pc = "work" /\ me.stmt = sess[s].stmt /\ me.before = sess[s].before /\ me.def = sess[s].def
        /\ me.made = sess[s].made /\ me.todo = todo /\ me.tx = sess[s].tx
    BY <1>3, <2>2 DEF Idle
  <2>4. AllSound(t, todo)
    <3>1. IsSeq(constraints) /\ \A con \in ToSet(constraints) : ConstraintOK(con)
      BY <1>2, <1>3, <2>1, DdlAssumption DEF Creating
    <3>2. QED
      BY <2>1, <3>1, ConstraintWorkSound
  <2>5. WorksOK(me)
    BY <2>1, <2>3, <2>4 DEF WorksOK, AllSound
  <2>6. walOn' => me.tx \in DOMAIN active'
    <3>1. active' = active \/ active' = Put(active, sess[s].tx, n)
      BY <1>5, <2>1 DEF LogCreate, LogDdl
    <3>2. CASE active' = active
      BY <1>1, <1>3, <2>3, <3>2
    <3>3. CASE active' = Put(active, sess[s].tx, n)
      <4>1. PICK tx : tx = sess[s].tx
        OBVIOUS
      <4>2. IsPut(active', active, tx, n)
        BY <3>3, <4>1, PutIs
      <4>3. QED
        BY <2>3, <4>1, <4>2 DEF IsPut
    <3>4. QED
      BY <3>1, <3>2, <3>3
  <2>7. sess[s].pc = "log"
    BY <1>5 DEF LogCreate
  <2>8. QED
    BY <1>1, <1>2, <2>2, <2>3, <2>5, <2>6, <2>7, MakingMoves
<1>6. QED
  BY <1>4, <1>5

\* CREATE TABLE commits: its transaction is there.
LEMMA CommitAdvances ==
    ASSUME NEW s, Poised(s), CreateCommit(s) \/ CommitRecord(s)
    PROVE  Advances(s)
<1>1. sess[s].pc \in {"work", "commit"} /\ UNCHANGED <<catalog, walOn>>
  BY DEF CreateCommit, CommitRecord, At, OnlyWal, LeaveDdl, EndDdl, walVars
<1>2. Creating(sess[s]) /\ sess[s].pc \in {"defined", "log", "work", "commit"}
  BY <1>1 DEF Poised, StatementOK, TxPcs, CreateCommit, CommitRecord, At, Creating
<1>3. /\ DOMAIN sess[s] = DOMAIN Idle /\ Whole(catalog) /\ Built(sess[s], catalog) /\ WorksOK(sess[s])
      /\ walOn /\ sess[s].pc # "commit" => sess[s].tx \in DOMAIN active
  BY <1>2, InTheMaking
<1>4. ASSUME Return(s, "ok")
      PROVE  Advances(s)
  <2>1. PICK me : me = sess[s]
    OBVIOUS
  <2>2. Effect(me.stmt, me.before, catalog)
    BY <1>2, <1>3, <2>1, BuiltIsDone DEF Creating
  <2>3. QED
    BY <1>1, <1>3, <1>4, <2>1, <2>2, Returns DEF Effect
<1>5. CASE CommitRecord(s)
  BY <1>4, <1>5 DEF CommitRecord
<1>6. CASE CreateCommit(s)
  <2>1. sess[s].pc = "work"
    BY <1>6 DEF CreateCommit, At
  <2>2. Return(s, "ok") \/ \E x : Local(s, [sess[s] EXCEPT !.pc = "commit", !.prev = x])
    BY <1>3, <1>6, <2>1 DEF CreateCommit
  <2>3. CASE \E x : Local(s, [sess[s] EXCEPT !.pc = "commit", !.prev = x])
    <3>1. PICK me : Moves(s, me, "commit") /\ me.def = sess[s].def
      BY <1>3, <2>3, GotoMoves
    <3>2. /\ Local(s, me) /\ me.pc = "commit" /\ me.stmt = sess[s].stmt /\ me.before = sess[s].before
          /\ me.made = sess[s].made /\ WorksOK(me)
      BY <1>3, <3>1 DEF Moves, WorksOK
    <3>3. QED
      BY <1>1, <1>2, <2>1, <3>1, <3>2, MakingMoves
  <2>4. QED
    BY <1>4, <2>2, <2>3
<1>7. QED
  BY <1>5, <1>6

\* What is to be dropped by name.
LEMMA DropsAre ==
    ASSUME NEW names, IsSeq(names)
    PROVE  /\ IsSeq(DropsOf(names)) /\ \A w \in ToSet(DropsOf(names)) : w.name \in ToSet(names)
           /\ \A n \in ToSet(names) : \E w \in ToSet(DropsOf(names)) : w.name = n
           /\ names = <<>> => DropsOf(names) = <<>>
<1>1. PICK m, f, T : m = Len(names) /\ f = DropsOf(names) /\ T = ToSet(names)
  OBVIOUS
<1>2. names \in Seq(T)
  BY <1>1 DEF IsSeq
<1>3. m \in Nat /\ DOMAIN names = 1 .. m
  BY <1>1, <1>2, LenProperties
<1>4. f = [k \in 1 .. m |-> DropWork(names[k])]
  BY <1>1, Zenon DEF DropsOf
<1>5. DOMAIN f = 1 .. m /\ \A k \in 1 .. m : f[k].name = names[k]
  BY <1>4 DEF DropWork, Work
<1>6. f = [k \in 1 .. m |-> f[k]]
  BY <1>4
<1>7. IsSeq(f) /\ Len(f) = m /\ \A w \in ToSet(f) : \E k \in 1 .. m : w = f[k]
  BY <1>3, <1>6, Listed
<1>8. \A w \in ToSet(f) : w.name \in T
  BY <1>1, <1>3, <1>5, <1>7 DEF ToSet
<1>9. \A n \in T : \E w \in ToSet(f) : w.name = n
  BY <1>1, <1>3, <1>5 DEF ToSet
<1>10. names = <<>> => f = <<>>
  <2>1. SUFFICES ASSUME names = <<>> PROVE f = <<>>
    OBVIOUS
  <2>2. m = 0
    BY <1>1, <2>1
  <2>3. f \in Seq(ToSet(f)) /\ Len(f) = 0
    BY <1>7, <2>2 DEF IsSeq
  <2>4. QED
    BY <2>3, EmptySeq
<1>11. QED
  BY <1>1, <1>7, <1>8, <1>9, <1>10

\* A statement goes on to clear away what it has made.
LEMMA ClearingMoves ==
    ASSUME NEW s, Whole(catalog), UNCHANGED catalog, NEW me, Local(s, me), me.pc \in {"undo", "lookup"}, Creating(me),
           (Unbuilt(me, catalog) /\ me.todo = <<>>) \/ (Built(me, catalog) /\ DropsOwn(me, catalog))
    PROVE  Advances(s)
<1>1. me.stmt.kind = "CreateTable"
  BY DEF Creating
<1>2. Progress(me, catalog)
  BY <1>1 DEF Progress, KindOK, UntouchedPcs, Making, Altering, Clearing, Removing, Creating
<1>3. Tied(me, walOn', active', ddlTx')
  BY <1>1 DEF Tied, Creating
<1>4. QED
  BY <1>2, <1>3 DEF Advances

\* CREATE TABLE aborts.
LEMMA AbortAdvances ==
    ASSUME NEW s, Poised(s), CreateAbort(s) \/ AbortRecord(s)
    PROVE  Advances(s)
<1>1. sess[s].pc \in {"abort", "undo"} /\ UNCHANGED catalog
  BY DEF CreateAbort, AbortRecord, OnlyWal
<1>2. DOMAIN sess[s] = DOMAIN Idle /\ Whole(catalog) /\ Creating(sess[s]) /\ Clearing(sess[s], catalog)
  BY <1>1 DEF Poised, Ready, Progress, StatementOK, TxPcs
<1>3. CASE AbortRecord(s)
  <2>1. Goto(s, "lookup") /\ sess[s].pc = "undo"
    BY <1>3 DEF AbortRecord
  <2>2. PICK me : Moves(s, me, "lookup") /\ me.def = sess[s].def
    BY <1>2, <2>1, GotoMoves
  <2>3. /\ Local(s, me) /\ me.pc = "lookup" /\ me.stmt = sess[s].stmt /\ me.before = sess[s].before
        /\ me.todo = sess[s].todo
    BY <2>2 DEF Moves
  <2>4. Creating(me) /\ (Unbuilt(sess[s], catalog) => Unbuilt(me, catalog))
        /\ (DropsOwn(sess[s], catalog) => DropsOwn(me, catalog))
    BY <1>2, <2>2, <2>3 DEF Creating, Unbuilt, DropsOwn
  <2>5. Built(sess[s], catalog) => Built(me, catalog)
    <3>1. Built(sess[s], catalog) => OthersStay(sess[s].before, catalog, sess[s].def.id)
      BY DEF Built
    <3>2. QED
      BY <2>2, <2>3, <3>1, StaysBuilt
  <2>6. QED
    BY <1>1, <1>2, <2>1, <2>3, <2>4, <2>5, ClearingMoves DEF Clearing
<1>4. CASE CreateAbort(s)
  <2>1. PICK todo, you : todo = DropsOf(sess[s].made) /\ you = [sess[s] EXCEPT !.pc = "lookup", !.todo = todo]
    OBVIOUS
  <2>2. Local(s, you) \/ \E x : Local(s, [you EXCEPT !.pc = "undo", !.prev = x])
    BY <1>4, <2>1 DEF CreateAbort
  <2>3. /\ DOMAIN you = DOMAIN Idle /\ you.pc = "lookup" /\ you.stmt = sess[s].stmt /\ you.before = sess[s].before
        /\ you.def = sess[s].def /\ you.todo = todo
    BY <1>2, <2>1 DEF Idle
  <2>4. PICK me : /\ Local(s, me) /\ me.pc \in {"undo", "lookup"} /\ me.stmt = sess[s].stmt
                  /\ me.before = sess[s].before /\ me.def = sess[s].def /\ me.todo = todo
    <3>1. CASE Local(s, you)
      BY <2>3, <3>1
    <3>2. CASE \E x : Local(s, [you EXCEPT !.pc = "undo", !.prev = x])
      <4>1. PICK x, me : me = [you EXCEPT !.pc = "undo", !.prev = x] /\ Local(s, me)
        BY <3>2
      <4>2. /\ me.pc = "undo" /\ me.stmt = sess[s].stmt /\ me.before = sess[s].before /\ me.def = sess[s].def
            /\ me.todo = todo
        BY <2>3, <4>1 DEF Idle
      <4>3. QED
        BY <4>1, <4>2
    <3>3. QED
      BY <2>2, <3>1, <3>2
  <2>5. Creating(me) /\ sess[s].pc = "abort"
    BY <1>2, <1>4, <2>4 DEF Creating, CreateAbort
  <2>6. CASE Unbuilt(sess[s], catalog) /\ sess[s].made = <<>>
    <3>1. me.todo = <<>>
      <4>1. PICK names : names = sess[s].made
        OBVIOUS
      <4>2. IsSeq(names) /\ names = <<>>
        BY <2>6, <4>1, ShortLists
      <4>3. DropsOf(names) = <<>>
        BY <4>2, DropsAre
      <4>4. QED
        BY <2>1, <2>4, <4>1, <4>3
    <3>2. Unbuilt(me, catalog)
      BY <2>4, <2>6 DEF Unbuilt
    <3>3. QED
      BY <1>1, <1>2, <2>4, <2>5, <3>1, <3>2, ClearingMoves
  <2>7. CASE Built(sess[s], catalog) /\ MadeOwn(sess[s], catalog)
    <3>1. OthersStay(sess[s].before, catalog, sess[s].def.id)
      BY <2>7 DEF Built
    <3>2. Built(me, catalog)
      BY <2>4, <2>7, <3>1, StaysBuilt
    <3>3. DropsOwn(me, catalog)
      <4>1. PICK names : names = sess[s].made
        OBVIOUS
      <4>2. IsSeq(names) /\ \A n \in ToSet(names) : Own(catalog, n, sess[s].def.id)
        BY <2>7, <4>1 DEF MadeOwn
      <4>3. IsSeq(DropsOf(names)) /\ \A w \in ToSet(DropsOf(names)) : w.name \in ToSet(names)
        BY <4>2, DropsAre
      <4>4. QED
        BY <2>1, <2>4, <4>1, <4>2, <4>3 DEF DropsOwn
    <3>4. QED
      BY <1>1, <1>2, <2>4, <2>5, <3>2, <3>3, ClearingMoves
  <2>8. QED
    BY <1>2, <2>5, <2>6, <2>7 DEF Clearing
<1>5. QED
  BY <1>3, <1>4

\* What is known of a statement that is removing a table.
LEMMA InTheRemoving ==
    ASSUME NEW s, Poised(s), sess[s].pc \in {"lookup", "list", "remove"}
    PROVE  /\ DOMAIN sess[s] = DOMAIN Idle /\ Whole(catalog) /\ Consistent(catalog)
           /\ sess[s].stmt.kind \notin {"CreateIndex", "DropIndex"}
           /\ Clearing(sess[s], catalog) /\ Removing(sess[s], catalog) /\ Tied(sess[s], walOn, active, ddlTx)
  BY DEF Poised, Ready, Progress, KindOK

\* One of its indexes is dropped.
LEMMA DropNextAdvances ==
    ASSUME NEW s, Poised(s), DropNext(s)
    PROVE  Advances(s)
<1>1. sess[s].pc \in {"lookup", "remove"} /\ sess[s].todo # <<>> /\ UNCHANGED <<walOn, active, ddlTx>>
  BY DEF DropNext, Dropping, OnlyCatalog, walVars
<1>2. /\ DOMAIN sess[s] = DOMAIN Idle /\ Whole(catalog) /\ Consistent(catalog)
      /\ sess[s].stmt.kind \notin {"CreateIndex", "DropIndex"}
      /\ Clearing(sess[s], catalog) /\ Removing(sess[s], catalog) /\ Tied(sess[s], walOn, active, ddlTx)
  BY <1>1, InTheRemoving
<1>3. sess[s].pc = "lookup" => Creating(sess[s]) /\ Built(sess[s], catalog) /\ DropsOwn(sess[s], catalog)
  BY <1>1, <1>2 DEF Clearing, Removing
<1>4. sess[s].pc = "remove" => Holds(sess[s], catalog) /\ DropsOwn(sess[s], catalog) /\ Covers(sess[s], catalog)
  BY <1>2 DEF Removing
<1>5. PICK todo, name, tid, new : /\ todo = sess[s].todo /\ name = Head(sess[s].todo).name /\ tid = sess[s].def.id
                                  /\ new = catalog'
  OBVIOUS
<1>6. IsDrop(catalog, new, name)
  BY <1>2, <1>5, DropIsDrop DEF DropNext
<1>7. IsSeq(todo) /\ todo # <<>> /\ \A w \in ToSet(todo) : Own(catalog, w.name, tid)
  BY <1>1, <1>3, <1>4, <1>5 DEF DropsOwn
<1>8. /\ Head(todo) \in ToSet(todo) /\ IsSeq(Tail(todo)) /\ ToSet(Tail(todo)) \subseteq ToSet(todo)
      /\ \A w \in ToSet(todo) : w = Head(todo) \/ w \in ToSet(Tail(todo))
  BY <1>7, HeadAndTail
<1>9. Own(catalog, name, tid)
  BY <1>5, <1>7, <1>8
<1>10. Whole(new) /\ new.tables = catalog.tables
  BY <1>2, <1>6, WholeAfterDrop DEF IsDrop
<1>11. /\ \A n : Own(catalog, n, tid) => Own(new, n, tid)
       /\ \A old : OthersStay(old, catalog, tid) => OthersStay(old, new, tid)
  BY <1>6, <1>9, OthersAfterDrop
<1>12. PICK me : me = [sess[s] EXCEPT !.todo = Tail(@)] /\ Local(s, me)
  BY DEF DropNext
<1>13. /\ me.pc = sess[s].pc /\ me.stmt = sess[s].stmt /\ me.before = sess[s].before /\ me.def = sess[s].def
       /\ me.todo = Tail(todo) /\ me.tx = sess[s].tx
  BY <1>2, <1>5, <1>12 DEF Idle
<1>14. DropsOwn(me, new)
  BY <1>5, <1>7, <1>8, <1>11, <1>13 DEF DropsOwn
<1>15. ASSUME Built(sess[s], catalog)
       PROVE  Built(me, new)
  <2>1. OthersStay(sess[s].before, new, tid)
    BY <1>5, <1>11, <1>15 DEF Built
  <2>2. QED
    BY <1>5, <1>10, <1>13, <1>15, <2>1, StaysBuilt
<1>16. Tied(me, walOn', active', ddlTx')
  BY <1>1, <1>2, <1>13 DEF Tied, Creating
<1>17. CASE sess[s].pc = "lookup"
  <2>1. Built(me, new) /\ me.stmt.kind = "CreateTable" /\ me.pc = "lookup"
    BY <1>3, <1>13, <1>15, <1>17 DEF Creating
  <2>2. Progress(me, new)
    BY <1>14, <2>1 DEF Progress, KindOK, UntouchedPcs, Making, Altering, Clearing, Removing, Creating
  <2>3. QED
    BY <1>5, <1>10, <1>12, <1>16, <2>1, <2>2 DEF Advances
<1>18. CASE sess[s].pc = "remove"
  <2>1. Holds(me, new)
    BY <1>4, <1>10, <1>13, <1>18 DEF Holds, HasTable
  <2>2. Covers(me, new)
    <3>1. SUFFICES ASSUME NEW n \in DOMAIN new.indexes, new.indexes[n].table = tid
                   PROVE  \E w \in ToSet(Tail(todo)) : w.name = n
      BY <1>5, <1>13 DEF Covers
    <3>2. n # name /\ n \in DOMAIN catalog.indexes /\ catalog.indexes[n].table = tid
      BY <1>6, <3>1 DEF IsDrop, IsWithout
    <3>3. PICK w \in ToSet(todo) : w.name = n
      BY <1>4, <1>5, <1>18, <3>2 DEF Covers
    <3>4. w # Head(todo)
      BY <1>5, <3>2, <3>3
    <3>5. QED
      BY <1>8, <3>3, <3>4
  <2>3. IF Creating(me) THEN Built(me, new)
        ELSE new.tables = me.before.tables /\ OthersStay(me.before, new, me.def.id)
    BY <1>2, <1>5, <1>10, <1>11, <1>13, <1>15, <1>18 DEF Removing, Creating
  <2>4. Progress(me, new)
    BY <1>2, <1>13, <1>14, <1>18, <2>1, <2>2, <2>3
       DEF Progress, KindOK, UntouchedPcs, Making, Altering, Clearing, Removing
  <2>5. QED
    BY <1>5, <1>10, <1>12, <1>13, <1>16, <1>18, <2>4 DEF Advances
<1>19. QED
  BY <1>1, <1>17, <1>18

\* The table is looked up.
LEMMA DropLookupAdvances ==
    ASSUME NEW s, Poised(s), DropLookup(s)
    PROVE  Advances(s)
<1>1. sess[s].pc = "lookup" /\ sess[s].todo = <<>> /\ UNCHANGED <<catalog, walOn, active, ddlTx>>
  BY DEF DropLookup, Dropping, OnlyLocal, walVars
<1>2. /\ DOMAIN sess[s] = DOMAIN Idle /\ Whole(catalog) /\ sess[s].stmt.kind \notin {"CreateIndex", "DropIndex"}
      /\ Clearing(sess[s], catalog) /\ Removing(sess[s], catalog) /\ Tied(sess[s], walOn, active, ddlTx)
  BY <1>1, InTheRemoving
<1>3. PICK t, d : t = sess[s].stmt.table /\ d = catalog.tables[t]
  OBVIOUS
<1>4. IF Creating(sess[s]) THEN Unbuilt(sess[s], catalog) \/ Built(sess[s], catalog)
      ELSE Same(sess[s].before, catalog)
  BY <1>1, <1>2 DEF Clearing, Removing
<1>5. \/ HasTable(catalog, t) /\ Local(s, [sess[s] EXCEPT !.pc = "list", !.def = d])
      \/ ~HasTable(catalog, t) /\ Return(s, "error")
  BY <1>3 DEF DropLookup
<1>6. CASE ~HasTable(catalog, t) /\ Return(s, "error")
  <2>1. ~Built(sess[s], catalog)
    BY <1>3, <1>6 DEF Built, Holds
  <2>2. Same(sess[s].before, catalog)
    BY <1>4, <2>1 DEF Unbuilt
  <2>3. QED
    BY <1>1, <1>2, <1>6, <2>2, ReturnsUnchanged
<1>7. CASE HasTable(catalog, t) /\ Local(s, [sess[s] EXCEPT !.pc = "list", !.def = d])
  <2>0. PICK me : me = [sess[s] EXCEPT !.pc = "list", !.def = d] /\ Local(s, me)
    BY <1>7
  <2>1. Moves(s, me, "list") /\ me.def = d
    BY <1>2, <2>0 DEF Moves, Idle
  <2>2. me.pc = "list" /\ me.stmt = sess[s].stmt /\ me.before = sess[s].before /\ Local(s, me)
    BY <2>1 DEF Moves
  <2>3. Holds(me, catalog)
    BY <1>3, <1>7, <2>1, <2>2 DEF Holds
  <2>4. IF Creating(me) THEN Built(me, catalog) ELSE Same(me.before, catalog)
    <3>1. CASE ~Creating(sess[s])
      BY <1>4, <2>2, <3>1 DEF Creating
    <3>2. CASE Creating(sess[s])
      <4>1. Built(sess[s], catalog)
        BY <1>3, <1>4, <1>7, <3>2 DEF Unbuilt
      <4>2. sess[s].def.id = d.id /\ OthersStay(sess[s].before, catalog, sess[s].def.id)
        BY <1>3, <4>1 DEF Built, Holds
      <4>3. Built(me, catalog)
        BY <2>1, <2>2, <4>1, <4>2, StaysBuilt
      <4>4. QED
        BY <2>2, <3>2, <4>3 DEF Creating
    <3>3. QED
      BY <3>1, <3>2
  <2>5. Progress(me, catalog)
    BY <1>2, <2>2, <2>3, <2>4 DEF Progress, KindOK, UntouchedPcs, Making, Altering, Clearing, Removing
  <2>6. Tied(me, walOn', active', ddlTx')
    BY <1>1, <1>2, <2>2 DEF Tied, Creating
  <2>7. QED
    BY <1>1, <1>2, <2>2, <2>5, <2>6 DEF Advances
<1>8. QED
  BY <1>5, <1>6, <1>7

\* The indexes listed for a table are those of the table.
LEMMA TableIndexesAre ==
    ASSUME NEW cat, Consistent(cat), Whole(cat), NEW tid
    PROVE  /\ IsSeq(TableIndexes(cat, tid))
           /\ \A n \in ToSet(TableIndexes(cat, tid)) : HasIndex(cat, n) /\ cat.indexes[n].table = tid
           /\ \A n \in DOMAIN cat.indexes : cat.indexes[n].table = tid => n \in ToSet(TableIndexes(cat, tid))
<1>1. ASSUME NEW n \in DOMAIN cat.indexes, cat.indexes[n].table = tid
      PROVE  tid \in DOMAIN cat.listed /\ n \in ToSet(cat.listed[tid])
  <2>1. tid \in DOMAIN cat.listed /\ Contains(cat.listed[tid], n)
    BY <1>1 DEF Consistent, IndexesListed
  <2>2. IsSeq(cat.listed[tid])
    BY <2>1 DEF Consistent
  <2>3. QED
    BY <2>1, <2>2, ContainsIsIn
<1>2. CASE tid \in DOMAIN cat.listed
  <2>1. PICK names, S : names = cat.listed[tid] /\ S = DOMAIN cat.indexes
    OBVIOUS
  <2>2. IsSeq(names)
    BY <1>2, <2>1 DEF Consistent
  <2>3. IsSeq(Retain(names, S)) /\ ToSet(Retain(names, S)) = ToSet(names) \cap S
    BY <2>2, Retained
  <2>4. TableIndexes(cat, tid) = Retain(names, S)
    BY <1>2, <2>1 DEF TableIndexes
  <2>5. \A n \in ToSet(names) : HasIndex(cat, n) /\ cat.indexes[n].table = tid
    BY <1>2, <2>1 DEF Whole
  <2>6. QED
    BY <1>1, <2>1, <2>3, <2>4, <2>5
<1>3. CASE tid \notin DOMAIN cat.listed
  <2>1. TableIndexes(cat, tid) = <<>>
    BY <1>3 DEF TableIndexes
  <2>2. QED
    BY <1>1, <1>3, <2>1, ShortLists
<1>4. QED
  BY <1>2, <1>3

\* Its indexes are listed.
LEMMA DropListAdvances ==
    ASSUME NEW s, Poised(s), DropList(s)
    PROVE  Advances(s)
<1>1. sess[s].pc = "list" /\ UNCHANGED <<catalog, walOn, active, ddlTx>>
  BY DEF DropList, OnlyLocal, walVars
<1>2. /\ DOMAIN sess[s] = DOMAIN Idle /\ Whole(catalog) /\ Consistent(catalog)
      /\ sess[s].stmt.kind \notin {"CreateIndex", "DropIndex"}
      /\ Removing(sess[s], catalog) /\ Tied(sess[s], walOn, active, ddlTx)
  BY <1>1, InTheRemoving
<1>3. Holds(sess[s], catalog) /\ IF Creating(sess[s]) THEN Built(sess[s], catalog) ELSE Same(sess[s].before, catalog)
  BY <1>1, <1>2 DEF Removing
<1>4. PICK tid, names, todo : tid = sess[s].def.id /\ names = TableIndexes(catalog, tid) /\ todo = DropsOf(names)
  OBVIOUS
<1>5. /\ IsSeq(names) /\ \A n \in ToSet(names) : HasIndex(catalog, n) /\ catalog.indexes[n].table = tid
      /\ \A n \in DOMAIN catalog.indexes : catalog.indexes[n].table = tid => n \in ToSet(names)
  BY <1>2, <1>4, TableIndexesAre
<1>6. /\ IsSeq(todo) /\ \A w \in ToSet(todo) : w.name \in ToSet(names)
      /\ \A n \in ToSet(names) : \E w \in ToSet(todo) : w.name = n
  BY <1>4, <1>5, DropsAre
<1>7. PICK me : me = [sess[s] EXCEPT !.pc = "remove", !.todo = todo] /\ Local(s, me)
  BY <1>4 DEF DropList
<1>8. /\ me.pc = "remove" /\ me.stmt = sess[s].stmt /\ me.before = sess[s].before /\ me.def = sess[s].def
      /\ me.todo = todo
  BY <1>2, <1>7 DEF Idle
<1>9. DropsOwn(me, catalog) /\ Covers(me, catalog)
  BY <1>4, <1>5, <1>6, <1>8 DEF DropsOwn, Covers, Own
<1>10. Holds(me, catalog)
  BY <1>3, <1>8 DEF Holds
<1>11. IF Creating(me) THEN Built(me, catalog)
       ELSE catalog.tables = me.before.tables /\ OthersStay(me.before, catalog, me.def.id)
  <2>1. CASE Creating(sess[s])
    <3>1. OthersStay(sess[s].before, catalog, sess[s].def.id)
      BY <1>3, <2>1 DEF Built
    <3>2. Built(me, catalog)
      BY <1>3, <1>8, <2>1, <3>1, StaysBuilt
    <3>3. QED
      BY <1>8, <2>1, <3>2 DEF Creating
  <2>2. CASE ~Creating(sess[s])
    BY <1>3, <1>8, <2>2 DEF Creating, Same, OthersStay, HasIndex
  <2>3. QED
    BY <2>1, <2>2
<1>12. Progress(me, catalog)
  BY <1>2, <1>8, <1>9, <1>10, <1>11 DEF Progress, KindOK, UntouchedPcs, Making, Altering, Clearing, Removing
<1>13. Tied(me, walOn', active', ddlTx')
  BY <1>1, <1>2, <1>8 DEF Tied, Creating
<1>14. QED
  BY <1>1, <1>2, <1>7, <1>8, <1>12, <1>13 DEF Advances

\* The table itself is removed, when no index of it is left.
LEMMA DropRemoveAdvances ==
    ASSUME NEW s, Poised(s), DropRemove(s)
    PROVE  Advances(s)
<1>1. sess[s].pc = "remove" /\ sess[s].todo = <<>> /\ UNCHANGED ddlTx
  BY DEF DropRemove, Dropping, OnlyCatalog
<1>2. /\ DOMAIN sess[s] = DOMAIN Idle /\ Whole(catalog) /\ Consistent(catalog)
      /\ sess[s].stmt.kind \notin {"CreateIndex", "DropIndex"}
      /\ Removing(sess[s], catalog) /\ Tied(sess[s], walOn, active, ddlTx)
  BY <1>1, InTheRemoving
<1>3. PICK t, tid, old, new : /\ t = sess[s].stmt.table /\ tid = sess[s].def.id /\ old = sess[s].before
                              /\ new = catalog'
  OBVIOUS
<1>4. HasTable(catalog, t) /\ catalog.tables[t].id = tid
  BY <1>1, <1>2, <1>3 DEF Removing, Holds
<1>5. \A n \in DOMAIN catalog.indexes : catalog.indexes[n].table # tid
  BY <1>1, <1>2, <1>3, ShortLists DEF Removing, Covers
<1>6. new = RemoveTable(catalog, t)
  BY <1>3 DEF DropRemove
<1>7. Whole(new) /\ new.tables = Without(catalog.tables, t) /\ new.indexes = catalog.indexes
  BY <1>2, <1>4, <1>5, <1>6, TableRemoved
<1>8. CASE Creating(sess[s])
  <2>1. /\ old.tables = Without(catalog.tables, t) /\ old.indexes = [n \in DOMAIN old.indexes |-> old.indexes[n]]
        /\ (\A n \in DOMAIN old.indexes : old.indexes[n].table # tid) /\ OthersStay(old, catalog, tid)
    BY <1>1, <1>2, <1>3, <1>8 DEF Removing, Built
  <2>2. new.indexes = [n \in DOMAIN new.indexes |-> new.indexes[n]]
    BY <1>7 DEF Whole
  <2>3. DOMAIN new.indexes = DOMAIN old.indexes /\ \A n \in DOMAIN old.indexes : new.indexes[n] = old.indexes[n]
    BY <1>5, <1>7, <2>1 DEF OthersStay, HasIndex
  <2>4. new.indexes = old.indexes
    BY <2>1, <2>2, <2>3
  <2>5. Same(old, new)
    BY <1>7, <2>1, <2>4 DEF Same
  <2>6. Atomic(sess[s].stmt, "error", old, new)
    BY <1>7, <2>5, SameIsAtomic
  <2>7. Return(s, "error")
    BY <1>8 DEF DropRemove, Creating
  <2>8. QED
    BY <1>3, <1>7, <2>6, <2>7, Returns
<1>9. CASE ~Creating(sess[s])
  <2>1. catalog.tables = old.tables /\ OthersStay(old, catalog, tid) /\ ddlTx
    BY <1>1, <1>2, <1>3, <1>9 DEF Removing, Tied
  <2>2. IsWithout(new.tables, catalog.tables, t)
    BY <1>7, PutIs
  <2>3. About(old, t, tid) /\ About(new, t, tid)
    BY <1>4, <1>5, <1>7, <2>1, <2>2 DEF About, HasTable, IsWithout
  <2>4. OthersStay(old, new, tid)
    BY <1>7, <2>1 DEF OthersStay, HasIndex
  <2>5. Without(new.tables, t) = Without(old.tables, t)
    <3>1. PICK map : map = catalog.tables
      OBVIOUS
    <3>2. Without(Without(map, t), t) = Without(map, t)
      BY WithoutIt
    <3>3. QED
      BY <1>7, <2>1, <3>1, <3>2
  <2>6. Effect(sess[s].stmt, old, new)
    BY <1>2, <1>3, <1>7, <2>3, <2>4, <2>5, TableEffect
  <2>7. Goto(s, "leave")
    BY <1>9 DEF DropRemove, Creating
  <2>8. PICK me : Moves(s, me, "leave")
    BY <1>2, <2>7, GotoMoves
  <2>9. QED
    BY <1>1, <1>3, <1>7, <2>1, <2>6, <2>8, Leaving
<1>10. QED
  BY <1>8, <1>9

\* A statement that is running goes on as the invariant says, whichever step it takes.
LEMMA StepAdvances ==
    ASSUME NamesApart, NEW s, Poised(s), SessionStep(s), ~Start(s)
    PROVE  Advances(s)
<1>1. CASE CreateCheck(s) \/ TableCheck(s) \/ IndexCheck(s) \/ IndexTable(s) \/ AlterValidate(s) \/ IndexOwner(s)
           \/ CreateBegin(s)
  BY <1>1, LookAdvances
<1>2. CASE CreatePrepare(s) \/ CreateDefine(s) \/ CreateCommit(s) \/ CommitRecord(s) \/ LogPrev(s) \/ LogCreate(s)
           \/ CreateAbort(s) \/ AbortRecord(s)
  BY <1>2, PrepareAdvances, DefineAdvances, CommitAdvances, LogAdvances, AbortAdvances
<1>3. CASE MakePk(s) \/ MakeIndex(s) \/ CheckFk(s)
  BY <1>3, MakePkAdvances, MakeIndexAdvances, CheckFkAdvances
<1>4. CASE DropNext(s) \/ DropLookup(s) \/ DropList(s) \/ DropRemove(s)
  BY <1>4, DropNextAdvances, DropLookupAdvances, DropListAdvances, DropRemoveAdvances
<1>5. CASE TableEnter(s) \/ IndexEnter(s) \/ LeaveTx(s) \/ AlterApply(s) \/ AlterWrite(s)
  BY <1>5, EnterAdvances, LeaveAdvances, ApplyAdvances, WriteAdvances
<1>6. CASE IndexMake(s) \/ IndexUnmake(s)
  BY <1>6, IndexMakeAdvances, IndexUnmakeAdvances
<1>7. QED
  BY <1>1, <1>2, <1>3, <1>4, <1>5, <1>6 DEF SessionStep

-----------------------------------------------------------------------------
(* Atomic statements: the sessions together, and the theorems *)

\* Nothing is asked of a session that runs no statement.
LEMMA Resting ==
    ASSUME NEW me, me.pc \in {"idle", "returned"}, NEW cat, NEW on, NEW act, NEW entered
    PROVE  Progress(me, cat) /\ Tied(me, on, act, entered)
  BY DEF Progress, KindOK, UntouchedPcs, Making, Altering, Clearing, Removing, Tied

\* Only a running statement takes a step, and only a start can overlap another.
LEMMA StepIsRunning ==
    ASSUME NEW s, SessionStep(s), ~Start(s)
    PROVE  Running(s) /\ UNCHANGED overlap
<1>1. Running(s)
  BY DEF Running, SessionStep, At, Doing, Dropping, CreateCheck, CreateBegin, CreatePrepare, CreateDefine, CreateCommit,
         CommitRecord, MakePk, MakeIndex, CheckFk, LogPrev, LogCreate, CreateAbort, AbortRecord, DropNext,
         DropLookup, DropList, DropRemove, TableCheck, TableEnter, LeaveTx, AlterValidate, AlterApply, AlterWrite,
         IndexCheck, IndexTable, IndexMake, IndexEnter, IndexOwner, IndexUnmake
<1>2. UNCHANGED overlap
  BY DEF SessionStep, CreateCheck, CreateBegin, CreatePrepare, CreateDefine, CreateCommit,
         CommitRecord, MakePk, MakeIndex, CheckFk, LogPrev, LogCreate, CreateAbort, AbortRecord, DropNext,
         DropLookup, DropList, DropRemove, TableCheck, TableEnter, LeaveTx, AlterValidate, AlterApply, AlterWrite,
         IndexCheck, IndexTable, IndexMake, IndexEnter, IndexOwner, IndexUnmake,
         OnlyLocal, OnlyCatalog, OnlyWal, OnlyTx
<1>3. QED
  BY <1>1, <1>2

\* What the three invariants say of a running statement.
LEMMA RunningIsPoised ==
    ASSUME AtomicIInv, CatalogIInv, DdlIInv, ~overlap, NEW s \in Sessions, Running(s)
    PROVE  Poised(s) /\ \A o \in Sessions : o # s => sess[o].pc \in {"idle", "returned"}
<1>1. /\ Whole(catalog) /\ Alone /\ Progress(sess[s], catalog) /\ Tied(sess[s], walOn, active, ddlTx)
  BY DEF AtomicIInv
<1>2. Consistent(catalog) /\ KnowsColumns(sess[s]) /\ StatementOK(sess[s])
  BY DEF CatalogIInv, DdlIInv, StatementsOK
<1>3. sess[s].pc # "idle"
  BY DEF Running
<1>4. Ready(s)
  BY <1>2, <1>3 DEF Ready, StatementOK, KnowsColumns
<1>5. \A o \in Sessions : o # s => ~Running(o)
  BY <1>1 DEF Alone
<1>6. QED
  BY <1>1, <1>2, <1>4, <1>5 DEF Poised, Running

\* A session has taken a step and the others rest.
LEMMA OneMoves ==
    ASSUME DOMAIN sess = Sessions, NEW s \in Sessions, \A o \in Sessions : o # s => sess[o].pc \in {"idle", "returned"},
           NEW me, Local(s, me), Whole(catalog'), Progress(me, catalog'), Tied(me, walOn', active', ddlTx')
    PROVE  AtomicIInv'
<1>1. PICK now, cat, on, act, entered : now = sess' /\ cat = catalog' /\ on = walOn' /\ act = active' /\ entered = ddlTx'
  OBVIOUS
<1>2. \A o \in Sessions : now[o] = IF o = s THEN me ELSE sess[o]
  BY <1>1 DEF Local
<1>3. \A o \in Sessions : Progress(now[o], cat) /\ Tied(now[o], on, act, entered)
  <2>1. TAKE o \in Sessions
  <2>2. CASE o = s
    BY <1>1, <1>2, <2>2
  <2>3. CASE o # s
    <3>1. now[o].pc \in {"idle", "returned"}
      BY <1>2, <2>3
    <3>2. QED
      BY <3>1, Resting
  <2>4. QED
    BY <2>2, <2>3
<1>4. \A o, p \in Sessions : now[o].pc \notin {"idle", "returned"} /\ now[p].pc \notin {"idle", "returned"} => o = p
  BY <1>2
<1>5. Alone'
  BY <1>1, <1>4 DEF Alone, Running
<1>6. QED
  BY <1>1, <1>3, <1>5 DEF AtomicIInv

\* A statement starts, and no other runs.
LEMMA StartAlone ==
    ASSUME AtomicIInv, DOMAIN sess = Sessions, NEW s \in Sessions, Start(s), ~overlap'
    PROVE  AtomicIInv'
<1>1. ~overlap /\ (\A o \in Sessions : o # s => ~Running(o)) /\ UNCHANGED <<catalog, walOn, active, ddlTx>>
  BY DEF Start, walVars
<1>2. \A o \in Sessions : o # s => sess[o].pc \in {"idle", "returned"}
  BY <1>1 DEF Running
<1>3. PICK stmt \in Statements : Local(s, [Idle EXCEPT !.pc = "check", !.stmt = stmt, !.before = catalog])
  BY DEF Start
<1>4. PICK me : me = [Idle EXCEPT !.pc = "check", !.stmt = stmt, !.before = catalog] /\ Local(s, me)
  BY <1>3
<1>5. me.pc = "check" /\ me.before = catalog /\ me.made = <<>> /\ me.todo = <<>>
  BY <1>4 DEF Idle
<1>6. Whole(catalog) /\ Same(me.before, catalog)
  BY <1>1, <1>5 DEF AtomicIInv, Same
<1>7. Progress(me, catalog)
  BY <1>5, <1>6 DEF Progress, KindOK, UntouchedPcs, Making, Altering, Clearing, Removing
<1>8. Tied(me, walOn', active', ddlTx')
  BY <1>5 DEF Tied
<1>9. QED
  BY <1>1, <1>2, <1>4, <1>6, <1>7, <1>8, OneMoves

\* The sessions are idle, and the catalog is one to start from.
LEMMA AtomicInitOK ==
    ASSUME NamesApart
    PROVE  DdlInit => AtomicIInv
<1>1. SUFFICES ASSUME DdlInit PROVE AtomicIInv
  OBVIOUS
<1>2. Whole(catalog) /\ \A s \in Sessions : sess[s] = Idle
  BY <1>1 DEF DdlInit, NamesApart
<1>3. \A s \in Sessions : sess[s].pc = "idle"
  BY <1>2 DEF Idle
<1>4. Alone
  BY <1>3 DEF Alone, Running
<1>5. \A s \in Sessions : Progress(sess[s], catalog) /\ Tied(sess[s], walOn, active, ddlTx)
  BY <1>3, Resting
<1>6. QED
  BY <1>2, <1>4, <1>5 DEF AtomicIInv

\* Every step keeps the invariant.
LEMMA AtomicNextOK ==
    ASSUME NamesApart
    PROVE  AtomicIInv /\ CatalogIInv /\ DdlIInv /\ [DdlNext]_ddlVars => AtomicIInv'
<1>1. SUFFICES ASSUME AtomicIInv, CatalogIInv, DdlIInv, [DdlNext]_ddlVars, ~overlap'
               PROVE  AtomicIInv'
  BY DEF AtomicIInv
<1>2. DOMAIN sess = Sessions
  BY <1>1 DEF DdlIInv, StatementsOK
<1>3. CASE Tick \/ UNCHANGED ddlVars
  <2>1. UNCHANGED <<overlap, catalog, sess, walOn, active, ddlTx>>
    BY <1>3 DEF Tick, ddlVars, walVars
  <2>2. QED
    BY <1>1, <2>1 DEF AtomicIInv, Alone, Running
<1>4. ASSUME NEW s \in Sessions, SessionStep(s) PROVE AtomicIInv'
  <2>1. CASE Start(s)
    BY <1>1, <1>2, <2>1, StartAlone
  <2>2. CASE ~Start(s)
    <3>1. Running(s) /\ ~overlap
      BY <1>1, <1>4, <2>2, StepIsRunning
    <3>2. Poised(s) /\ \A o \in Sessions : o # s => sess[o].pc \in {"idle", "returned"}
      BY <1>1, <3>1, RunningIsPoised
    <3>3. Advances(s)
      BY <1>4, <2>2, <3>2, StepAdvances
    <3>4. PICK me : Local(s, me) /\ Progress(me, catalog') /\ Tied(me, walOn', active', ddlTx')
      BY <3>3 DEF Advances
    <3>5. Whole(catalog')
      BY <3>3 DEF Advances
    <3>6. QED
      BY <1>2, <3>2, <3>4, <3>5, OneMoves
  <2>3. QED
    BY <2>1, <2>2
<1>5. QED
  BY <1>1, <1>3, <1>4 DEF DdlNext

\* A statement that returns without another having run beside it is all or nothing.
LEMMA ReturnsAtomic ==
    ASSUME NamesApart, AtomicIInv, CatalogIInv, DdlIInv, [DdlNext]_ddlVars,
           NEW s \in Sessions, ~overlap, Running(s), sess'[s].pc = "returned"
    PROVE  Atomic(sess[s].stmt, sess'[s].result, sess[s].before, catalog')
<1>1. DOMAIN sess = Sessions
  BY DEF DdlIInv, StatementsOK
<1>2. sess' # sess
  BY DEF Running
<1>3. PICK o \in Sessions : SessionStep(o)
  BY <1>2 DEF DdlNext, Tick, ddlVars
<1>4. Poised(s) /\ \A p \in Sessions : p # s => ~Running(p)
  BY RunningIsPoised DEF Running
<1>5. o = s /\ ~Start(s)
  <2>1. CASE Start(o)
    <3>1. o # s
      BY <2>1 DEF Start
    <3>2. \E me : Local(o, me)
      BY <2>1 DEF Start
    <3>3. sess'[s] = sess[s]
      BY <1>1, <3>1, <3>2 DEF Local
    <3>4. QED
      BY <3>3 DEF Running
  <2>2. CASE ~Start(o)
    BY <1>3, <1>4, <2>2, StepIsRunning
  <2>3. QED
    BY <2>1, <2>2
<1>6. Advances(s)
  BY <1>3, <1>4, <1>5, StepAdvances
<1>7. PICK me : Local(s, me) /\ (me.pc = "returned" => Atomic(sess[s].stmt, me.result, sess[s].before, catalog'))
  BY <1>6 DEF Advances
<1>8. sess'[s] = me
  BY <1>1, <1>7 DEF Local
<1>9. QED
  BY <1>7, <1>8

\* The invariant of statements that run one at a time.  That every index a clean-up of
\* CREATE TABLE drops by name (engine.rs:342-423) is the table's own rests on NamesApart:
\* the code would drop a user's index t_pkey as well.
LEMMA AtomicInvariant ==
    ASSUME NamesApart
    PROVE  DdlSpec => []AtomicIInv
<1>1. DdlInit => AtomicIInv
  BY AtomicInitOK
<1>2. AtomicIInv /\ CatalogIInv /\ DdlIInv /\ [DdlNext]_ddlVars => AtomicIInv'
  BY AtomicNextOK
<1>3. QED
  BY <1>1, <1>2, CatalogInvariant, DdlInvariant, PTL DEF DdlSpec

\* As long as no user gives an index a name that the code makes for a primary key (NamesApart,
\* which the code does not ensure), a DDL statement that no other has run beside is all or
\* nothing, wherever it fails, and changes no other table and no index of one (executor/engine.rs).
THEOREM StatementsAreAtomic ==
    ASSUME NamesApart
    PROVE  DdlSpec => StatementAtomic
<1>1. AtomicIInv /\ CatalogIInv /\ DdlIInv /\ [DdlNext]_ddlVars =>
          [\A s \in Sessions :
               ~overlap /\ Running(s) /\ sess'[s].pc = "returned" =>
                   Atomic(sess[s].stmt, sess'[s].result, sess[s].before, catalog')]_ddlVars
  BY ReturnsAtomic
<1>2. QED
  BY <1>1, AtomicInvariant, CatalogInvariant, DdlInvariant, PTL DEF DdlSpec, StatementAtomic

-----------------------------------------------------------------------------
(* Views.  record_table_change finds the views of a table in the           *)
(* dependency graph, never in the views.  So the invariant says that the   *)
(* graph is never behind the views: every view that is stored, and the one *)
(* a thread is about to store, is linked from each table it reads.  It may *)
(* be ahead.                                                               *)

ViewPcs == {"idle", "insert", "unschedule", "unstatus", "refreshing", "reschedule", "failed"}

\* What a thread keeps while it is in a method.  The view is any value: the
\* name a refresh works on comes from the views.
ThreadsOK ==
    /\ DOMAIN at = Threads
    /\ \A t \in Threads :
           /\ DOMAIN at[t] = DOMAIN Free
           /\ at[t].pc \in ViewPcs
           /\ DOMAIN at[t].def = DOMAIN Free.def

\* The graph leads from a table to the view that reads it.
LinkedFrom(x, v) == x \in DOMAIN tableToViews /\ v \in tableToViews[x]

\* Every view that is stored is in the graph, under each of its tables.
GraphCovers == \A v \in DOMAIN views : \A x \in views[v].deps : LinkedFrom(x, v)

\* So is the view a thread is about to store.
InsertLinked ==
    \A t \in Threads : at[t].pc = "insert" => \A x \in at[t].def.deps : LinkedFrom(x, at[t].view)

ViewIInv ==
    /\ ThreadsOK
    /\ GraphCovers
    /\ InsertLinked
    /\ FreshUnchanged

-----------------------------------------------------------------------------
(* The maps and the graph *)

\* Unlinking a view takes nothing from the other views of a table.
LEMMA UnlinkKeepsOthers ==
    ASSUME NEW links, NEW view, NEW tables, NEW x \in DOMAIN links, NEW v \in links[x], v # view
    PROVE  x \in DOMAIN Unlink(links, view, tables) /\ v \in Unlink(links, view, tables)[x]
<1> DEFINE less == [y \in DOMAIN links |-> IF y \in tables THEN links[y] \ {view} ELSE links[y]]
<1>1. x \in DOMAIN less /\ v \in less[x]
  OBVIOUS
<1>2. x \in {y \in DOMAIN less : less[y] # {}}
  BY <1>1
<1>3. Unlink(links, view, tables) = [y \in {z \in DOMAIN less : less[z] # {}} |-> less[y]]
  BY DEF Unlink
<1> HIDE DEF less
<1>4. QED
  BY <1>1, <1>2, <1>3

\* update_dependency_graph links the view from each of its tables and keeps the
\* links of the others.
LEMMA LinkViewKeeps ==
    ASSUME NEW view, NEW deps, LinkView(view, deps)
    PROVE  /\ \A x \in deps : LinkedFrom(x, view)'
           /\ \A x, v : v # view /\ LinkedFrom(x, v) => LinkedFrom(x, v)'
<1> DEFINE base == Unlink(tableToViews, view, Linked(view))
           new == [x \in DOMAIN base \cup deps |->
                      (IF x \in DOMAIN base THEN base[x] ELSE {}) \cup (IF x \in deps THEN {view} ELSE {})]
<1>1. tableToViews' = new
  BY DEF LinkView
<1>2. \A x \in deps : LinkedFrom(x, view)'
  BY <1>1 DEF LinkedFrom
<1>3. ASSUME NEW x, NEW v, v # view, LinkedFrom(x, v)
      PROVE  LinkedFrom(x, v)'
  <2>1. x \in DOMAIN base /\ v \in base[x]
    BY <1>3, UnlinkKeepsOthers DEF LinkedFrom
  <2> HIDE DEF base
  <2>2. x \in DOMAIN new /\ v \in new[x]
    BY <2>1
  <2>3. QED
    BY <1>1, <2>2 DEF LinkedFrom
<1>4. QED
  BY <1>2, <1>3

\* remove_from_dependency_graph keeps the links of the other views.
LEMMA UnlinkViewKeeps ==
    ASSUME NEW view, UnlinkView(view)
    PROVE  \A x, v : v # view /\ LinkedFrom(x, v) => LinkedFrom(x, v)'
  BY UnlinkKeepsOthers DEF UnlinkView, LinkedFrom

-----------------------------------------------------------------------------
(* The steps *)

\* A thread that becomes a state of the right shape leaves the others alone.
LEMMA BecomeOK ==
    ASSUME ThreadsOK, NEW t \in Threads, NEW new, Become(t, new),
           DOMAIN new = DOMAIN Free, new.pc \in ViewPcs, DOMAIN new.def = DOMAIN Free.def
    PROVE  /\ ThreadsOK'
           /\ at'[t] = new
           /\ \A q \in Threads : q # t => at'[q] = at[q]
<1>1. at' = [at EXCEPT ![t] = new] /\ DOMAIN at = Threads
  BY DEF Become, ThreadsOK
<1>2. at'[t] = new /\ DOMAIN at' = Threads /\ \A q \in Threads : q # t => at'[q] = at[q]
  BY <1>1
<1>3. QED
  BY <1>2 DEF ThreadsOK

\* Init.
LEMMA ViewInitOK == ViewInit => ViewIInv
<1> SUFFICES ASSUME ViewInit PROVE ViewIInv
  OBVIOUS
<1>1. DOMAIN views = {} /\ at = [t \in Threads |-> Free]
  BY DEF ViewInit, EmptyMap
<1>2. Free.pc = "idle"
  BY DEF Free
<1>3. ThreadsOK
  BY <1>1, <1>2 DEF ThreadsOK, ViewPcs
<1>4. InsertLinked
  BY <1>1, <1>2 DEF InsertLinked
<1>5. QED
  BY <1>1, <1>3, <1>4 DEF ViewIInv, GraphCovers, FreshUnchanged

\* Steps that leave views, graph, status and history alone, and put no thread
\* before its insertion.
LEMMA Elsewhere ==
    ASSUME ViewIInv, ThreadsOK', UNCHANGED <<views, tableToViews, status, dirty>>,
           \A t \in Threads : at'[t].pc = "insert" => at'[t] = at[t]
    PROVE  ViewIInv'
<1>1. GraphCovers' /\ FreshUnchanged'
  BY DEF ViewIInv, GraphCovers, FreshUnchanged, LinkedFrom, Materialized
<1>2. InsertLinked'
  BY DEF ViewIInv, InsertLinked, LinkedFrom
<1>3. QED
  BY <1>1, <1>2 DEF ViewIInv

\* create_view, up to the insertion: the graph runs ahead of the views.
LEMMA CreateViewStep ==
    ASSUME ViewIInv, NEW t \in Threads, CreateView(t)
    PROVE  ViewIInv'
<1>1. PICK v \in ViewNames \ DOMAIN views, m \in BOOLEAN, query \in Queries :
          /\ LinkView(v, Dependencies(query))
          /\ Become(t, [Free EXCEPT !.pc = "insert", !.view = v,
                                    !.def = [materialized |-> m, deps |-> Dependencies(query)]])
  BY DEF CreateView
<1> DEFINE def == [materialized |-> m, deps |-> Dependencies(query)]
           new == [Free EXCEPT !.pc = "insert", !.view = v, !.def = def]
<1>2. /\ DOMAIN new = DOMAIN Free /\ new.pc = "insert" /\ new.view = v
      /\ DOMAIN new.def = DOMAIN Free.def /\ new.def.deps = Dependencies(query)
  BY DEF Free
<1>3. Become(t, new)
  BY <1>1
<1> HIDE DEF new
<1>4. ThreadsOK' /\ at'[t] = new /\ \A q \in Threads : q # t => at'[q] = at[q]
  BY <1>2, <1>3, BecomeOK DEF ViewIInv, ViewPcs
<1>5. /\ \A x \in Dependencies(query) : LinkedFrom(x, v)'
      /\ \A x, o : o # v /\ LinkedFrom(x, o) => LinkedFrom(x, o)'
  BY <1>1, LinkViewKeeps
<1>6. UNCHANGED <<views, status, dirty>>
  BY DEF CreateView
<1>7. GraphCovers'
  BY <1>5, <1>6 DEF ViewIInv, GraphCovers
<1>8. InsertLinked'
  <2>1. \A q \in Threads : at[q].pc # "insert"
    BY DEF CreateView, InViews
  <2>2. QED
    BY <1>2, <1>4, <1>5, <2>1 DEF InsertLinked
<1>9. FreshUnchanged'
  BY <1>6 DEF ViewIInv, FreshUnchanged, Materialized
<1>10. QED
  BY <1>4, <1>7, <1>8, <1>9 DEF ViewIInv

\* create_view, the insertion: the view is in the graph already.
LEMMA CreateInsertStep ==
    ASSUME ViewIInv, NEW t \in Threads, CreateInsert(t)
    PROVE  ViewIInv'
<1> DEFINE v == at[t].view
           s == IF at[t].def.materialized THEN "Stale" ELSE "Fresh"
<1>1. /\ at[t].pc = "insert" /\ Become(t, Free)
      /\ views' = Put(views, v, at[t].def) /\ status' = Put(status, v, s)
      /\ dirty' = dirty \ {v} /\ UNCHANGED tableToViews
  BY DEF CreateInsert
<1>2. Free.pc \in ViewPcs /\ Free.pc # "insert"
  BY DEF Free, ViewPcs
<1>3. ThreadsOK' /\ at'[t] = Free /\ \A q \in Threads : q # t => at'[q] = at[q]
  BY <1>1, <1>2, BecomeOK DEF ViewIInv
<1>4. /\ DOMAIN views' = DOMAIN views \cup {v} /\ views'[v] = at[t].def
      /\ \A o \in DOMAIN views : o # v => views'[o] = views[o]
      /\ DOMAIN status' = DOMAIN status \cup {v}
      /\ \A o \in DOMAIN status : o # v => status'[o] = status[o]
  BY <1>1 DEF Put, Without
<1>5. GraphCovers'
  BY <1>1, <1>4 DEF ViewIInv, GraphCovers, InsertLinked, LinkedFrom
<1>6. InsertLinked'
  BY <1>1, <1>2, <1>3 DEF ViewIInv, InsertLinked, LinkedFrom
<1> HIDE DEF v
<1>7. FreshUnchanged'
  BY <1>1, <1>4 DEF ViewIInv, FreshUnchanged, Materialized
<1>8. QED
  BY <1>3, <1>5, <1>6, <1>7 DEF ViewIInv

\* drop_view, up to the schedule: the view leaves the views and the graph.
LEMMA DropViewStep ==
    ASSUME ViewIInv, NEW t \in Threads, DropView(t)
    PROVE  ViewIInv'
<1>1. PICK v \in DOMAIN views :
          /\ views' = Without(views, v) /\ UnlinkView(v)
          /\ Become(t, [Free EXCEPT !.pc = "unschedule", !.view = v])
  BY DEF DropView
<1> DEFINE new == [Free EXCEPT !.pc = "unschedule", !.view = v]
<1>2. DOMAIN new = DOMAIN Free /\ new.pc = "unschedule" /\ DOMAIN new.def = DOMAIN Free.def
  BY DEF Free
<1>3. Become(t, new)
  BY <1>1
<1> HIDE DEF new
<1>4. ThreadsOK' /\ at'[t] = new /\ \A q \in Threads : q # t => at'[q] = at[q]
  BY <1>2, <1>3, BecomeOK DEF ViewIInv, ViewPcs
<1>5. DOMAIN views' = DOMAIN views \ {v} /\ \A o \in DOMAIN views : o # v => views'[o] = views[o]
  BY <1>1 DEF Put, Without
<1>6. \A x, o : o # v /\ LinkedFrom(x, o) => LinkedFrom(x, o)'
  BY <1>1, UnlinkViewKeeps
<1>7. GraphCovers'
  BY <1>5, <1>6 DEF ViewIInv, GraphCovers
<1>8. InsertLinked'
  <2>1. \A q \in Threads : at[q].pc # "insert"
    BY DEF DropView, InViews
  <2>2. QED
    BY <1>2, <1>4, <2>1 DEF InsertLinked
<1>9. UNCHANGED <<status, dirty>>
  BY DEF DropView
<1>10. FreshUnchanged'
  BY <1>5, <1>9 DEF ViewIInv, FreshUnchanged, Materialized
<1>11. QED
  BY <1>4, <1>7, <1>8, <1>10 DEF ViewIInv

\* Steps that change the status and the history of views, and neither the views
\* nor the graph: what is said of the graph stays.
LEMMA GraphStays ==
    ASSUME ViewIInv, ThreadsOK', UNCHANGED <<views, tableToViews>>,
           \A t \in Threads : at'[t].pc = "insert" => at'[t] = at[t],
           FreshUnchanged'
    PROVE  ViewIInv'
  BY DEF ViewIInv, GraphCovers, InsertLinked, LinkedFrom

\* refresh_materialized_view forgets the changes of the view it makes fresh.
LEMMA RefreshedOK ==
    ASSUME ViewIInv, NEW v, Refreshed(v), UNCHANGED views
    PROVE  FreshUnchanged'
<1>1. /\ dirty' = dirty \ {v} /\ DOMAIN status' = DOMAIN status \cup {v}
      /\ \A o \in DOMAIN status : o # v => status'[o] = status[o]
  BY DEF Refreshed, Put
<1>2. QED
  BY <1>1 DEF ViewIInv, FreshUnchanged, Materialized

\* The step of a thread that changes at most its own place, to one that is not
\* before an insertion.
LEMMA MovesOn ==
    ASSUME ViewIInv, NEW t \in Threads, NEW new, Become(t, new), DOMAIN new = DOMAIN Free,
           new.pc \in ViewPcs \ {"insert"}, DOMAIN new.def = DOMAIN Free.def
    PROVE  ThreadsOK' /\ \A q \in Threads : at'[q].pc = "insert" => at'[q] = at[q]
  BY BecomeOK DEF ViewIInv

\* The rest of drop_view.
LEMMA DropRestStep ==
    ASSUME ViewIInv, NEW t \in Threads, DropSchedule(t) \/ DropStatus(t)
    PROVE  ViewIInv'
<1>0. DOMAIN at[t] = DOMAIN Free /\ DOMAIN at[t].def = DOMAIN Free.def
  BY DEF ViewIInv, ThreadsOK
<1>1. CASE DropSchedule(t)
  <2> DEFINE new == [at[t] EXCEPT !.pc = "unstatus"]
  <2>1. DOMAIN new = DOMAIN Free /\ new.pc \in ViewPcs \ {"insert"} /\ DOMAIN new.def = DOMAIN Free.def
    BY <1>0 DEF Free, ViewPcs
  <2>2. Become(t, new) /\ UNCHANGED <<views, tableToViews, status, dirty>>
    BY <1>1 DEF DropSchedule
  <2> HIDE DEF new
  <2>3. ThreadsOK' /\ \A q \in Threads : at'[q].pc = "insert" => at'[q] = at[q]
    BY <2>1, <2>2, MovesOn
  <2>4. QED
    BY <2>2, <2>3, Elsewhere
<1>2. CASE DropStatus(t)
  <2>1. Free.pc \in ViewPcs \ {"insert"}
    BY DEF Free, ViewPcs
  <2>2. Become(t, Free) /\ UNCHANGED <<views, tableToViews, dirty>> /\ status' = Without(status, at[t].view)
    BY <1>2 DEF DropStatus
  <2>3. ThreadsOK' /\ \A q \in Threads : at'[q].pc = "insert" => at'[q] = at[q]
    BY <2>1, <2>2, MovesOn
  <2>4. DOMAIN status' \subseteq DOMAIN status /\ \A o \in DOMAIN status' : status'[o] = status[o]
    BY <2>2 DEF Put, Without
  <2>5. FreshUnchanged'
    BY <2>2, <2>4 DEF ViewIInv, FreshUnchanged, Materialized
  <2>6. QED
    BY <2>2, <2>3, <2>5, GraphStays
<1>3. QED
  BY <1>1, <1>2

\* Refreshing one view, scheduling, and the passage of time.
LEMMA RefreshStep ==
    ASSUME ViewIInv, (\E t \in Threads : RefreshView(t) \/ ScheduleRefresh(t)) \/ TimePasses
    PROVE  ViewIInv'
<1>1. UNCHANGED <<views, tableToViews, at>>
  BY DEF RefreshView, ScheduleRefresh, TimePasses
<1>2. ThreadsOK' /\ \A q \in Threads : at'[q].pc = "insert" => at'[q] = at[q]
  BY <1>1 DEF ViewIInv, ThreadsOK
<1>3. ASSUME NEW t \in Threads, RefreshView(t)
      PROVE  FreshUnchanged'
  BY <1>1, <1>3, RefreshedOK DEF RefreshView
<1>4. ASSUME UNCHANGED <<status, dirty>>
      PROVE  FreshUnchanged'
  BY <1>1, <1>4 DEF ViewIInv, FreshUnchanged, Materialized
<1>5. FreshUnchanged'
  BY <1>3, <1>4 DEF ScheduleRefresh, TimePasses
<1>6. QED
  BY <1>1, <1>2, <1>5, GraphStays

\* refresh_all_stale_views, from the list to the last view.
LEMMA RefreshAllStep ==
    ASSUME ViewIInv, NEW t \in Threads,
           RefreshAll(t) \/ RefreshNext(t) \/ Reschedule(t) \/ MarkFailed(t) \/ RefreshedAll(t)
    PROVE  ViewIInv'
<1>0. DOMAIN at[t] = DOMAIN Free /\ DOMAIN at[t].def = DOMAIN Free.def
  BY DEF ViewIInv, ThreadsOK
<1>1. PICK new : /\ Become(t, new) /\ DOMAIN new = DOMAIN Free /\ new.pc \in ViewPcs \ {"insert"}
                 /\ DOMAIN new.def = DOMAIN Free.def
  <2>1. CASE RefreshAll(t)
    <3> DEFINE new == [Free EXCEPT !.pc = "refreshing",
                                   !.todo = {v \in DOMAIN views : Materialized(v) /\ NeedsRefresh(v)}]
    <3>1. DOMAIN new = DOMAIN Free /\ new.pc \in ViewPcs \ {"insert"} /\ DOMAIN new.def = DOMAIN Free.def
      BY DEF Free, ViewPcs
    <3>2. Become(t, new)
      BY <2>1 DEF RefreshAll
    <3>3. QED
      BY <3>1, <3>2
  <2>2. CASE RefreshNext(t)
    <3>1. PICK v \in at[t].todo :
              LET me == [at[t] EXCEPT !.view = v, !.todo = @ \ {v}]
              IN  \/ Become(t, [me EXCEPT !.pc = "reschedule"])
                  \/ Become(t, [me EXCEPT !.pc = "failed"])
      BY <2>2 DEF RefreshNext
    <3> DEFINE me == [at[t] EXCEPT !.view = v, !.todo = @ \ {v}]
    <3>2. ASSUME NEW pc \in {"reschedule", "failed"}
          PROVE  /\ DOMAIN [me EXCEPT !.pc = pc] = DOMAIN Free /\ [me EXCEPT !.pc = pc].pc \in ViewPcs \ {"insert"}
                 /\ DOMAIN [me EXCEPT !.pc = pc].def = DOMAIN Free.def
      BY <1>0 DEF Free, ViewPcs
    <3>3. QED
      BY <3>1, <3>2
  <2>3. CASE Reschedule(t) \/ MarkFailed(t)
    <3> DEFINE new == [at[t] EXCEPT !.pc = "refreshing", !.view = "None"]
    <3>1. DOMAIN new = DOMAIN Free /\ new.pc \in ViewPcs \ {"insert"} /\ DOMAIN new.def = DOMAIN Free.def
      BY <1>0 DEF Free, ViewPcs
    <3>2. Become(t, new)
      BY <2>3 DEF Reschedule, MarkFailed
    <3>3. QED
      BY <3>1, <3>2
  <2>4. CASE RefreshedAll(t)
    <3>1. Free.pc \in ViewPcs \ {"insert"}
      BY DEF Free, ViewPcs
    <3>2. QED
      BY <2>4, <3>1 DEF RefreshedAll
  <2>5. QED
    BY <2>1, <2>2, <2>3, <2>4
<1>2. ThreadsOK' /\ \A q \in Threads : at'[q].pc = "insert" => at'[q] = at[q]
  BY <1>1, MovesOn
<1>3. UNCHANGED <<views, tableToViews>>
  BY DEF RefreshAll, RefreshNext, Reschedule, MarkFailed, RefreshedAll
<1>4. FreshUnchanged'
  <2>1. CASE UNCHANGED <<status, dirty>>
    BY <1>3, <2>1 DEF ViewIInv, FreshUnchanged, Materialized
  <2>2. ASSUME NEW v, Refreshed(v)
        PROVE  FreshUnchanged'
    BY <1>3, <2>2, RefreshedOK
  <2>3. CASE MarkFailed(t)
    <3>1. dirty' = dirty /\ status' = Put(status, at[t].view, "Failed")
      BY <2>3 DEF MarkFailed
    <3>2. /\ DOMAIN status' = DOMAIN status \cup {at[t].view} /\ status'[at[t].view] = "Failed"
          /\ \A o \in DOMAIN status : o # at[t].view => status'[o] = status[o]
      BY <3>1 DEF Put, Without
    <3>3. QED
      BY <1>3, <3>1, <3>2 DEF ViewIInv, FreshUnchanged, Materialized
  <2>4. CASE RefreshNext(t)
    BY <2>1, <2>2, <2>4 DEF RefreshNext
  <2>5. QED
    BY <2>1, <2>3, <2>4 DEF RefreshAll, Reschedule, RefreshedAll
<1>5. QED
  BY <1>2, <1>3, <1>4, GraphStays

\* record_table_change: the views that read the table are found in the graph,
\* and those that have a status become stale.
LEMMA RecordChangeStep ==
    ASSUME ViewIInv, NEW table, RecordChange(table)
    PROVE  ViewIInv'
<1> DEFINE dependent == IF table \in DOMAIN tableToViews THEN tableToViews[table] ELSE {}
<1>1. /\ status' = [v \in DOMAIN status |-> IF v \in dependent THEN "Stale" ELSE status[v]]
      /\ dirty' = dirty \cup {v \in DOMAIN views : table \in views[v].deps}
      /\ UNCHANGED <<views, tableToViews, at>>
  BY DEF RecordChange
<1>2. \A v \in DOMAIN views : table \in views[v].deps => v \in dependent
  BY DEF ViewIInv, GraphCovers, LinkedFrom
<1> HIDE DEF dependent
<1>3. FreshUnchanged'
  BY <1>1, <1>2 DEF ViewIInv, FreshUnchanged, Materialized
<1>4. ThreadsOK' /\ \A q \in Threads : at'[q].pc = "insert" => at'[q] = at[q]
  BY <1>1 DEF ViewIInv, ThreadsOK
<1>5. QED
  BY <1>1, <1>3, <1>4, GraphStays

-----------------------------------------------------------------------------
(* The theorems *)

\* The strengthened invariant holds in every state of every behaviour.
THEOREM ViewInvariant == ViewSpec => []ViewIInv
<1>1. ViewInit => ViewIInv
  BY ViewInitOK
<1>2. ViewIInv /\ [ViewNext]_viewVars => ViewIInv'
  <2> SUFFICES ASSUME ViewIInv, [ViewNext]_viewVars PROVE ViewIInv'
    OBVIOUS
  <2>1. CASE UNCHANGED viewVars
    BY <2>1 DEF viewVars, ViewIInv, ThreadsOK, GraphCovers, InsertLinked, LinkedFrom, FreshUnchanged, Materialized
  <2>2. ASSUME NEW t \in Threads,
               \/ CreateView(t) \/ CreateInsert(t) \/ DropView(t) \/ DropSchedule(t) \/ DropStatus(t)
               \/ RefreshView(t) \/ ScheduleRefresh(t)
               \/ RefreshAll(t) \/ RefreshNext(t) \/ Reschedule(t) \/ MarkFailed(t) \/ RefreshedAll(t)
        PROVE  ViewIInv'
    BY <2>2, CreateViewStep, CreateInsertStep, DropViewStep, DropRestStep, RefreshStep, RefreshAllStep
  <2>3. CASE TimePasses
    BY <2>3, RefreshStep
  <2>4. CASE \E table \in KnownTables : RecordChange(table)
    BY <2>4, RecordChangeStep
  <2>5. QED
    BY <2>1, <2>2, <2>3, <2>4 DEF ViewNext
<1>3. QED
  BY <1>1, <1>2, PTL DEF ViewSpec

\* A materialized view that is Fresh has seen every recorded change of the
\* tables it depends on, however create_view, drop_view, the refreshes and
\* record_table_change interleave.
THEOREM FreshIsUnchanged == ViewSpec => []FreshUnchanged
<1>1. ViewIInv => FreshUnchanged
  BY DEF ViewIInv
<1>2. QED
  BY <1>1, ViewInvariant, PTL
=============================================================================
