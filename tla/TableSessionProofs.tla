------------------------- MODULE TableSessionProofs -------------------------
(***************************************************************************)
(* Proofs about TableSession, for any sessions, tables, values and         *)
(* workloads: a statement that returns Ok did exactly what it says         *)
(* (StatementExact), and undo information is used once and in the right    *)
(* place (UndoExact).                                                      *)
(***************************************************************************)
EXTENDS TableSession, TLAPS, FiniteSetTheorems, SequenceTheorems

-----------------------------------------------------------------------------
(* The invariant *)

Rows == [id : Nat, val : Vals \cup {0}]
RowSeqs == Seq(Rows)
Kinds == {"insert", "update", "delete"}
UndoInfo == [table : Tables, row : Rows]

InsertStmts ==
    [kind : {"insert"}, table : Tables, todo : Seq(Vals), start : RowSeqs, vals : Seq(Vals), first : Nat \ {0}]
UpdateStmts ==
    [kind : {"update"}, table : Tables, todo : SUBSET Nat, start : RowSeqs, where : SUBSET Vals, val : Vals]
DeleteStmts ==
    [kind : {"delete"}, table : Tables, todo : SUBSET Nat, start : RowSeqs, where : SUBSET (Vals \cup {0}),
     logged : BOOLEAN]
Stmts == InsertStmts \cup UpdateStmts \cup DeleteStmts \cup [kind : {"none", "failed"}]
         \cup [kind : {"rollback"}, left : SUBSET Nat]

\* The types, those of the history variables included.
TypesOK ==
    /\ load \in Workloads
    /\ tables \in [Tables -> RowSeqs]
    /\ created \subseteq Tables /\ indexed \subseteq Tables
    /\ frames \in 0 .. load.frames
    /\ inTx \in [Sessions -> BOOLEAN]
    /\ DOMAIN undo = Sessions
    /\ \A s \in Sessions : DOMAIN undo[s] \subseteq Nat /\ \A i \in DOMAIN undo[s] : undo[s][i] \in UndoInfo
    /\ stmt \in [Sessions -> Stmts]
    /\ nextId \in Nat \ {0}
    /\ atBegin \in [Sessions -> [Tables -> RowSeqs]]
    /\ effects \in [Sessions -> Seq(Kinds)]

\* One statement at a time, and what a session without transaction or outside the
\* workload does not have.
Serial ==
    /\ \A s, o \in Sessions : stmt[s] # NoStmt /\ stmt[o] # NoStmt => s = o
    /\ \A s \in Sessions :
        /\ ~inTx[s] => undo[s] = NoUndo /\ effects[s] = <<>>
        /\ stmt[s].kind = "rollback" => inTx[s] /\ stmt[s].left \subseteq DOMAIN undo[s]
        /\ stmt[s] # NoStmt \/ inTx[s] => s \in load.sessions

\* The undo information that is the only copy of its row: a rollback has used the
\* rest, and what is being deleted is still in its table.
Pending(me) == me.kind = "delete" /\ me.logged /\ me.todo # {}
Live(me, info) ==
    IF me.kind = "rollback" THEN me.left
    ELSE {i \in DOMAIN info : Pending(me) => ~DeleteNext(me.todo, i)}

\* A row has no key or one that was given away.
Keyed(row, n) == row = Hole \/ row.id \in 1 .. (n - 1)
AllKeyed(tabs, und, n) ==
    /\ \A t \in Tables : \A k \in DOMAIN tabs[t] : Keyed(tabs[t][k], n)
    /\ \A s \in Sessions : \A i \in DOMAIN und[s] : Keyed(und[s][i].row, n)

\* No row is in two places of the tables and the undo information together.
SameRow(a, b) == a # Hole /\ a.id = b.id
OncePlaced(tabs) ==
    \A t, u \in Tables : \A j \in DOMAIN tabs[t], k \in DOMAIN tabs[u] :
        SameRow(tabs[t][j], tabs[u][k]) => t = u /\ j = k
OnceLive(und, st) ==
    \A s, o \in Sessions : \A i \in Live(st[s], und[s]), j \in Live(st[o], und[o]) :
        SameRow(und[s][i].row, und[o][j].row) => s = o /\ i = j
Apart(tabs, und, st) ==
    \A t \in Tables, s \in Sessions : \A k \in DOMAIN tabs[t], i \in Live(st[s], und[s]) :
        ~SameRow(tabs[t][k], und[s][i].row)

\* How far an INSERT is.
Inserting(rows, me, n) ==
    LET done == Len(me.vals) - Len(me.todo) IN
    /\ Len(me.todo) <= Len(me.vals)
    /\ Len(rows) = Len(me.start) + done
    /\ n = me.first + done
    /\ \A k \in 1 .. Len(me.start) : rows[k] = me.start[k]
    /\ \A k \in 1 .. done : rows[Len(me.start) + k] = Row(me.first + k - 1, me.vals[k])
    /\ \A k \in 1 .. Len(me.todo) : me.todo[k] = me.vals[done + k]

\* The rows that a statement found.
Found(me) == {i \in 0 .. (Len(me.start) - 1) : me.start[i + 1].val \in me.where}

\* How far an UPDATE is.
Updating(rows, me) ==
    /\ me.todo \subseteq Found(me)
    /\ Len(rows) = Len(me.start)
    /\ \A k \in 1 .. Len(rows) :
        rows[k] = IF k - 1 \in Found(me) \ me.todo THEN Assigned(me.start[k], me.val) ELSE me.start[k]

\* How far a DELETE is: the rows behind the one to delete next are gone.
Remaining(me) == {k \in 1 .. Len(me.start) : k - 1 \notin Found(me) \ me.todo}
Deleting(rows, me) ==
    /\ me.todo \subseteq Found(me)
    /\ \A i \in Found(me) \ me.todo, j \in me.todo : j < i
    /\ Len(rows) = Cardinality(Remaining(me))
    /\ \A k \in Remaining(me) : rows[Rank(Remaining(me), k)] = me.start[k]

Progress(tabs, me, n) ==
    /\ me.kind = "insert" => Inserting(tabs[me.table], me, n)
    /\ me.kind = "update" => Updating(tabs[me.table], me)
    /\ me.kind = "delete" => Deleting(tabs[me.table], me)

\* What was remembered of the row that is deleted next.
Noted(tabs, info, me) ==
    Pending(me) => \A i \in me.todo : DeleteNext(me.todo, i) =>
        i \in DOMAIN info /\ info[i] = [table |-> me.table, row |-> tabs[me.table][i + 1]]

\* A session that is alone: nothing was changed, one row was deleted, or that row is
\* back.
Untouched(tabs, old, live) == tabs = old /\ live = {}
OneGone(tabs, old, info, live) ==
    \E t \in Tables : \E i \in 0 .. (Len(old[t]) - 1) :
        /\ live = {i}
        /\ info[i] = [table |-> t, row |-> old[t][i + 1]]
        /\ tabs = [old EXCEPT ![t] = RemoveAt(@, i + 1)]
OneBack(tabs, old, me) ==
    /\ me.kind = "rollback" /\ me.left = {}
    /\ \A t \in Tables : tabs[t] \in {old[t], Append(old[t], Hole)}
Alone(tabs, old, info, me, done) ==
    /\ done = <<>> => Untouched(tabs, old, Live(me, info))
    /\ done = <<"delete">> /\ ~Pending(me) => OneGone(tabs, old, info, Live(me, info)) \/ OneBack(tabs, old, me)

TsIInv ==
    /\ TypesOK
    /\ Serial
    /\ AllKeyed(tables, undo, nextId)
    /\ OncePlaced(tables) /\ OnceLive(undo, stmt) /\ Apart(tables, undo, stmt)
    /\ \A s \in Sessions :
        /\ Progress(tables, stmt[s], nextId)
        /\ inTx[s] => Noted(tables, undo[s], stmt[s])
        /\ inTx[s] /\ load.sessions = {s} => Alone(tables, atBegin[s], undo[s], stmt[s], effects[s])

-----------------------------------------------------------------------------
(* Rows *)

\* The row that fills gaps is a row.
LEMMA HoleIsRow ==
    /\ Hole \in Rows /\ Hole.id = 0 /\ Hole.val = 0
    /\ \A id \in Nat, v \in Vals : Row(id, v) \in Rows /\ Row(id, v).id = id
  BY DEF Hole, Row, Rows

\* RemoveAt moves the rows behind to the front.
LEMMA RemovedAt ==
    ASSUME NEW S, NEW rows \in Seq(S), NEW n \in 1 .. Len(rows)
    PROVE  /\ RemoveAt(rows, n) \in Seq(S)
           /\ Len(RemoveAt(rows, n)) = Len(rows) - 1
           /\ \A k \in 1 .. (Len(rows) - 1) : RemoveAt(rows, n)[k] = IF k < n THEN rows[k] ELSE rows[k + 1]
<1>1. Len(rows) \in Nat /\ n \in Nat /\ \A k \in 1 .. Len(rows) : rows[k] \in S
  OBVIOUS
<1>2. PICK a, b : a = SubSeq(rows, 1, n - 1) /\ b = SubSeq(rows, n + 1, Len(rows))
  OBVIOUS
<1>3. a \in Seq(S) /\ Len(a) = n - 1 /\ \A k \in 1 .. (n - 1) : a[k] = rows[k]
  BY <1>1, <1>2
<1>4. b \in Seq(S) /\ Len(b) = Len(rows) - n /\ \A k \in 1 .. (Len(rows) - n) : b[k] = rows[n + k]
  BY <1>1, <1>2
<1>5. RemoveAt(rows, n) = a \o b
  BY <1>2 DEF RemoveAt
<1>6. a \o b \in Seq(S) /\ Len(a \o b) = Len(rows) - 1
  <2>1. a \o b \in Seq(S) /\ Len(a \o b) = Len(a) + Len(b)
    BY <1>3, <1>4, ConcatProperties
  <2>2. QED
    BY <1>1, <1>3, <1>4, <2>1
<1>7. ASSUME NEW k \in 1 .. (Len(rows) - 1)
      PROVE  (a \o b)[k] = IF k < n THEN rows[k] ELSE rows[k + 1]
  <2>1. CASE k < n
    BY <1>1, <1>3, <1>4, <2>1
  <2>2. CASE k >= n
    <3>1. (a \o b)[k] = b[k - (n - 1)]
      BY <1>1, <1>3, <1>4, <2>2
    <3>2. k - (n - 1) \in 1 .. (Len(rows) - n) /\ n + (k - (n - 1)) = k + 1
      BY <1>1, <2>2
    <3>3. QED
      BY <1>1, <1>4, <2>2, <3>1, <3>2
  <2>3. k < n \/ k >= n
    BY <1>1
  <2>4. QED
    BY <2>1, <2>2, <2>3, Zenon
<1>8. QED
  BY <1>5, <1>6, <1>7

\* A row is at its place, those behind it moved back.
IsInserted(new, S, rows, n, x) ==
    /\ new \in Seq(S)
    /\ Len(new) = Len(rows) + 1
    /\ \A k \in 1 .. (Len(rows) + 1) :
           new[k] = IF k < n THEN rows[k] ELSE IF k = n THEN x ELSE rows[k - 1]

\* InsertAt moves them back.
LEMMA InsertedAt ==
    ASSUME NEW S, NEW rows \in Seq(S), NEW n \in 1 .. (Len(rows) + 1), NEW x \in S
    PROVE  IsInserted(InsertAt(rows, n, x), S, rows, n, x)
<1>1. Len(rows) \in Nat /\ n \in Nat /\ \A k \in 1 .. Len(rows) : rows[k] \in S
  OBVIOUS
<1>2. PICK a, b, c : a = SubSeq(rows, 1, n - 1) /\ b = SubSeq(rows, n, Len(rows)) /\ c = a \o <<x>>
  OBVIOUS
<1>3. a \in Seq(S) /\ Len(a) = n - 1 /\ \A k \in 1 .. (n - 1) : a[k] = rows[k]
  BY <1>1, <1>2
<1>4. b \in Seq(S) /\ Len(b) = Len(rows) - n + 1 /\ \A k \in 1 .. (Len(rows) - n + 1) : b[k] = rows[n + k - 1]
  BY <1>1, <1>2
<1>5. c \in Seq(S) /\ Len(c) = n /\ \A k \in 1 .. n : c[k] = IF k < n THEN rows[k] ELSE x
  <2>1. <<x>> \in Seq(S) /\ Len(<<x>>) = 1 /\ <<x>>[1] = x
    OBVIOUS
  <2>2. /\ c \in Seq(S) /\ Len(c) = Len(a) + 1
        /\ \A k \in 1 .. (Len(a) + 1) : c[k] = IF k <= Len(a) THEN a[k] ELSE <<x>>[k - Len(a)]
    BY <1>2, <1>3, <2>1, ConcatProperties
  <2>3. QED
    BY <1>1, <1>3, <2>1, <2>2
<1>6. InsertAt(rows, n, x) = c \o b
  BY <1>2 DEF InsertAt
<1>7. c \o b \in Seq(S) /\ Len(c \o b) = Len(rows) + 1
  BY <1>1, <1>4, <1>5
<1>8. ASSUME NEW k \in 1 .. (Len(rows) + 1)
      PROVE  (c \o b)[k] = IF k < n THEN rows[k] ELSE IF k = n THEN x ELSE rows[k - 1]
  <2>1. CASE k <= n
    BY <1>1, <1>4, <1>5, <2>1
  <2>2. CASE k > n
    <3>0. /\ Len(c) = n /\ ~(k <= n) /\ k \in 1 .. (Len(c) + Len(b))
          /\ \A m \in 1 .. (Len(c) + Len(b)) : (c \o b)[m] = IF m <= Len(c) THEN c[m] ELSE b[m - Len(c)]
      <4>1. Len(c) = n /\ ~(k <= n) /\ k \in 1 .. (Len(c) + Len(b))
        BY <1>1, <1>4, <1>5, <2>2
      <4>2. QED
        BY <1>4, <1>5, <4>1, ConcatProperties
    <3>1. (c \o b)[k] = b[k - n]
      BY <3>0
    <3>2. k - n \in 1 .. (Len(rows) - n + 1) /\ n + (k - n) - 1 = k - 1
      BY <1>1, <2>2
    <3>3. QED
      BY <1>1, <1>4, <2>2, <3>1, <3>2
  <2>3. k <= n \/ k > n
    BY <1>1
  <2>4. QED
    BY <2>1, <2>2, <2>3, Zenon
<1>9. QED
  BY <1>6, <1>7, <1>8 DEF IsInserted

\* The row is at its index, the others keep their order, and what is new is empty.
IsRestored(new, rows, i, row) ==
    /\ new \in RowSeqs
    /\ Len(new) = IF i < Len(rows) THEN Len(rows) + 1 ELSE i + 2
    /\ new[i + 1] = row
    /\ \A k \in 1 .. Len(new) :
         /\ k <= i => new[k] = IF k <= Len(rows) THEN rows[k] ELSE Hole
         /\ k > i + 1 => new[k] = IF k - 1 <= Len(rows) THEN rows[k - 1] ELSE Hole

\* restore_row: the row is at its index, the others keep their order, and what is new
\* beside it is empty.
LEMMA RestoredRows ==
    ASSUME NEW rows \in RowSeqs, NEW i \in Nat, NEW row \in Rows
    PROVE  IsRestored(Restored(rows, i, row), rows, i, row)
<1>1. rows \in Seq(Rows) /\ Len(rows) \in Nat /\ Hole \in Rows
  BY HoleIsRow DEF RowSeqs
<1>2. PICK gap, fill, all : /\ gap = (IF i < Len(rows) THEN 0 ELSE i + 1 - Len(rows))
                            /\ fill = [k \in 1 .. gap |-> Hole] /\ all = rows \o fill
  OBVIOUS
<1>3. gap \in Nat /\ fill \in Seq(Rows) /\ Len(fill) = gap /\ \A k \in 1 .. gap : fill[k] = Hole
  <2>1. gap \in Nat
    BY <1>1, <1>2
  <2>2. QED
    BY <1>1, <1>2, <2>1
<1>4. all \in Seq(Rows) /\ Len(all) = Len(rows) + gap
      /\ \A k \in 1 .. Len(all) : all[k] = IF k <= Len(rows) THEN rows[k] ELSE Hole
  <2>1. all \in Seq(Rows) /\ Len(all) = Len(rows) + gap
    BY <1>1, <1>2, <1>3
  <2>2. ASSUME NEW k \in 1 .. Len(all)
        PROVE  all[k] = IF k <= Len(rows) THEN rows[k] ELSE Hole
    <3>1. CASE k <= Len(rows)
      BY <1>1, <1>2, <1>3, <2>1, <3>1
    <3>2. CASE k > Len(rows)
      <4>1. all[k] = fill[k - Len(rows)] /\ k - Len(rows) \in 1 .. gap
        BY <1>1, <1>2, <1>3, <2>1, <3>2
      <4>2. QED
        BY <1>1, <1>3, <3>2, <4>1
    <3>3. QED
      BY <1>1, <3>1, <3>2
  <2>3. QED
    BY <2>1, <2>2
<1>5. i + 1 \in 1 .. (Len(all) + 1) /\ Restored(rows, i, row) = InsertAt(all, i + 1, row)
  BY <1>1, <1>2, <1>3, <1>4 DEF Restored
<1>6. /\ Restored(rows, i, row) \in Seq(Rows)
      /\ Len(Restored(rows, i, row)) = Len(all) + 1
      /\ \A k \in 1 .. (Len(all) + 1) :
             Restored(rows, i, row)[k] = IF k < i + 1 THEN all[k] ELSE IF k = i + 1 THEN row ELSE all[k - 1]
  <2>1. PICK p : p = i + 1
    OBVIOUS
  <2>2. all \in Seq(Rows) /\ p \in 1 .. (Len(all) + 1)
    BY <1>4, <1>5, <2>1
  <2>3. /\ InsertAt(all, p, row) \in Seq(Rows)
        /\ Len(InsertAt(all, p, row)) = Len(all) + 1
        /\ \A k \in 1 .. (Len(all) + 1) :
               InsertAt(all, p, row)[k] = IF k < p THEN all[k] ELSE IF k = p THEN row ELSE all[k - 1]
    <3>1. IsInserted(InsertAt(all, p, row), Rows, all, p, row)
      BY <2>2, InsertedAt
    <3>2. QED
      BY <3>1 DEF IsInserted
  <2>4. QED
    BY <1>5, <2>1, <2>3
<1>7. Len(all) + 1 = IF i < Len(rows) THEN Len(rows) + 1 ELSE i + 2
  BY <1>1, <1>2, <1>4
<1>8. ASSUME NEW k \in 1 .. (Len(all) + 1)
      PROVE  /\ k <= i => Restored(rows, i, row)[k] = IF k <= Len(rows) THEN rows[k] ELSE Hole
             /\ k > i + 1 => Restored(rows, i, row)[k] = IF k - 1 <= Len(rows) THEN rows[k - 1] ELSE Hole
  <2>1. CASE k <= i
    BY <1>1, <1>4, <1>5, <1>6, <2>1
  <2>2. CASE k > i + 1
    <3>1. k - 1 \in 1 .. Len(all)
      BY <1>1, <1>4, <2>2
    <3>2. QED
      BY <1>1, <1>4, <1>6, <2>2, <3>1
  <2>3. QED
    BY <2>1, <2>2
<1>9. Restored(rows, i, row)[i + 1] = row
  BY <1>5, <1>6
<1>10. QED
  BY <1>6, <1>7, <1>8, <1>9 DEF RowSeqs, IsRestored

-----------------------------------------------------------------------------
(* Ranks *)

\* The positions up to one are finitely many.
LEMMA RankIsCount ==
    ASSUME NEW S, IsFiniteSet(S), NEW k
    PROVE  /\ IsFiniteSet({j \in S : j <= k})
           /\ Rank(S, k) \in Nat /\ Rank(S, k) <= Cardinality(S) /\ Cardinality(S) \in Nat
<1>1. PICK T : T = {j \in S : j <= k}
  OBVIOUS
<1>2. T \in SUBSET S
  BY <1>1
<1>3. IsFiniteSet(T) /\ Cardinality(T) <= Cardinality(S)
  BY <1>2, FS_Subset
<1>4. Cardinality(T) \in Nat /\ Cardinality(S) \in Nat
  BY <1>3, FS_CardinalityType
<1>5. QED
  BY <1>1, <1>3, <1>4 DEF Rank

\* Where nothing is missing before, the rank is the position.
LEMMA RankOfFirst ==
    ASSUME NEW S, S \subseteq Nat \ {0}, NEW e \in Nat, 1 .. e \subseteq S
    PROVE  Rank(S, e) = e
<1>1. {j \in S : j <= e} = 1 .. e
  <2>1. ASSUME NEW j \in S, j <= e
        PROVE  j \in 1 .. e
    <3>1. j \in Nat \ {0}
      BY <2>1
    <3>2. QED
      BY <2>1, <3>1
  <2>2. ASSUME NEW j \in 1 .. e
        PROVE  j \in S /\ j <= e
    BY <2>2
  <2>3. QED
    BY <2>1, <2>2
<1>2. Cardinality(1 .. e) = e
  BY FS_Interval
<1>3. QED
  BY <1>1, <1>2 DEF Rank

\* A position behind has a greater rank.
LEMMA RankBehind ==
    ASSUME NEW S, IsFiniteSet(S), S \subseteq Nat \ {0}, NEW e \in Nat, 1 .. e \subseteq S,
           NEW k \in S, k > e
    PROVE  Rank(S, k) > e
<1>1. PICK T, A : T = {j \in S : j <= k} /\ A = (1 .. e) \cup {k}
  OBVIOUS
<1>2. IsFiniteSet(1 .. e) /\ Cardinality(1 .. e) = e /\ k \notin 1 .. e
  BY FS_Interval
<1>3. IsFiniteSet(A) /\ Cardinality(A) = e + 1
  BY <1>1, <1>2, FS_AddElement
<1>4. IsFiniteSet(T) /\ A \in SUBSET T
  BY <1>1, RankIsCount
<1>5. Cardinality(A) <= Cardinality(T) /\ Cardinality(T) \in Nat
  BY <1>4, FS_Subset, FS_CardinalityType
<1>6. QED
  BY <1>1, <1>3, <1>5 DEF Rank

\* Without a position, those behind it move up.
LEMMA RankWithout ==
    ASSUME NEW S, IsFiniteSet(S), S \subseteq Nat, NEW e \in S, NEW k \in Nat
    PROVE  Rank(S \ {e}, k) = IF k < e THEN Rank(S, k) ELSE Rank(S, k) - 1
<1>1. PICK T : T = {j \in S : j <= k}
  OBVIOUS
<1>2. IsFiniteSet(T)
  BY <1>1, RankIsCount
<1>3. CASE k < e
  <2>1. {j \in S \ {e} : j <= k} = T
    BY <1>1, <1>3
  <2>2. QED
    BY <1>1, <1>3, <2>1 DEF Rank
<1>4. CASE k >= e
  <2>1. {j \in S \ {e} : j <= k} = T \ {e} /\ e \in T
    BY <1>1, <1>4
  <2>2. Cardinality(T \ {e}) = Cardinality(T) - 1
    BY <1>2, <2>1, FS_RemoveElement
  <2>3. ~(k < e)
    BY <1>4
  <2>4. QED
    BY <1>1, <2>1, <2>2, <2>3 DEF Rank
<1>5. QED
  BY <1>3, <1>4

-----------------------------------------------------------------------------
(* Statements *)

\* What a statement is follows from its kind.
LEMMA StmtKinds ==
    ASSUME NEW me \in Stmts
    PROVE  /\ me.kind = "insert" => me \in InsertStmts
           /\ me.kind = "update" => me \in UpdateStmts
           /\ me.kind = "delete" => me \in DeleteStmts
           /\ me.kind = "rollback" => me \in [kind : {"rollback"}, left : SUBSET Nat]
           /\ me.kind = "none" => me = NoStmt
           /\ me.kind = "failed" => me = [kind |-> "failed"]
           /\ me.kind \in {"insert", "update", "delete", "rollback", "none", "failed"}
  BY DEF Stmts, InsertStmts, UpdateStmts, DeleteStmts, NoStmt

\* A statement keeps the rest when its rows still to do change.
LEMMA InsertRest ==
    ASSUME NEW me \in InsertStmts, NEW todo \in Seq(Vals)
    PROVE  LET to == [me EXCEPT !.todo = todo] IN
           /\ to \in InsertStmts /\ to.kind = "insert" /\ to.todo = todo
           /\ to.table = me.table /\ to.start = me.start /\ to.vals = me.vals /\ to.first = me.first
  BY DEF InsertStmts

\* The same for an UPDATE.
LEMMA UpdateRest ==
    ASSUME NEW me \in UpdateStmts, NEW todo \in SUBSET Nat
    PROVE  LET to == [me EXCEPT !.todo = todo] IN
           /\ to \in UpdateStmts /\ to.kind = "update" /\ to.todo = todo
           /\ to.table = me.table /\ to.start = me.start /\ to.where = me.where /\ to.val = me.val
  BY DEF UpdateStmts

\* The same for a DELETE, whose next row is not logged yet.
LEMMA DeleteRest ==
    ASSUME NEW me \in DeleteStmts, NEW todo \in SUBSET Nat
    PROVE  LET to == [me EXCEPT !.todo = todo, !.logged = FALSE] IN
           /\ to \in DeleteStmts /\ to.kind = "delete" /\ to.todo = todo /\ to.logged = FALSE
           /\ to.table = me.table /\ to.start = me.start /\ to.where = me.where
  BY DEF DeleteStmts

-----------------------------------------------------------------------------
(* One session *)

\* The session s takes a step and the others wait.
OthersWait(s, st, tx, und, eff) ==
    \A o \in Sessions : o # s =>
        /\ stmt[o] = NoStmt /\ st[o] = NoStmt
        /\ tx[o] = inTx[o] /\ und[o] = undo[o] /\ eff[o] = effects[o]

\* What a session without transaction does not have, and one that rolls back has.
Serial1(me, tx, info, done) ==
    /\ ~tx => info = NoUndo /\ done = <<>>
    /\ me.kind = "rollback" => tx /\ me.left \subseteq DOMAIN info

\* What the invariant says of one session.
Of(s, tabs, n, me, tx, info, old, done) ==
    /\ Serial1(me, tx, info, done)
    /\ Progress(tabs, me, n)
    /\ tx => Noted(tabs, info, me)
    /\ tx /\ load.sessions = {s} => Alone(tabs, old, info, me, done)

\* A session that does nothing has nothing in progress.
LEMMA NothingDone ==
    ASSUME NEW tabs, NEW info, NEW n
    PROVE  /\ Progress(tabs, NoStmt, n) /\ Noted(tabs, info, NoStmt) /\ ~Pending(NoStmt)
           /\ NoStmt.kind = "none" /\ Live(NoStmt, info) = DOMAIN info
  BY DEF Progress, Noted, Pending, Live, NoStmt

\* The invariant says it of every session.
LEMMA OfEach ==
    ASSUME TsIInv, NEW s \in Sessions
    PROVE  Of(s, tables, nextId, stmt[s], inTx[s], undo[s], atBegin[s], effects[s])
  BY DEF TsIInv, Serial, Serial1, Of

\* The others wait while a session has a statement, or may start one.
LEMMA Waiting ==
    ASSUME TsIInv, NEW s \in Sessions, stmt[s] # NoStmt \/ MayStart(s)
    PROVE  /\ s \in load.sessions
           /\ \A o \in Sessions : o # s => stmt[o] = NoStmt
           /\ MayStart(s) => stmt[s] = NoStmt
  BY DEF TsIInv, Serial, MayStart

\* A step of one session has to keep what is about that session, and the rows.
LEMMA SessionStep ==
    ASSUME TsIInv, NEW s \in Sessions, s \in load.sessions, load' = load, TypesOK',
           OthersWait(s, stmt', inTx', undo', effects'),
           Of(s, tables', nextId', stmt'[s], inTx'[s], undo'[s], atBegin'[s], effects'[s]),
           AllKeyed(tables, undo, nextId)', OncePlaced(tables)', OnceLive(undo, stmt)', Apart(tables, undo, stmt)'
    PROVE  TsIInv'
<1>1. ASSUME NEW o \in Sessions
      PROVE  /\ ~inTx'[o] => undo'[o] = NoUndo /\ effects'[o] = <<>>
             /\ stmt'[o].kind = "rollback" => inTx'[o] /\ stmt'[o].left \subseteq DOMAIN undo'[o]
             /\ stmt'[o] # NoStmt \/ inTx'[o] => o \in load'.sessions
             /\ Progress(tables', stmt'[o], nextId')
             /\ inTx'[o] => Noted(tables', undo'[o], stmt'[o])
             /\ inTx'[o] /\ load'.sessions = {o} => Alone(tables', atBegin'[o], undo'[o], stmt'[o], effects'[o])
  <2>1. CASE o = s
    BY <2>1 DEF Of, Serial1
  <2>2. CASE o # s
    <3>1. stmt'[o] = NoStmt /\ inTx'[o] = inTx[o] /\ undo'[o] = undo[o] /\ effects'[o] = effects[o]
      BY <2>2 DEF OthersWait
    <3>2. Progress(tables', NoStmt, nextId') /\ Noted(tables', undo'[o], NoStmt) /\ NoStmt.kind = "none"
      BY NothingDone
    <3>3. /\ ~inTx[o] => undo[o] = NoUndo /\ effects[o] = <<>>
          /\ inTx[o] => o \in load.sessions
      BY DEF TsIInv, Serial
    <3>4. load'.sessions # {o}
      BY <2>2
    <3>5. QED
      BY <3>1, <3>2, <3>3, <3>4
  <2>3. QED
    BY <2>1, <2>2
<1>2. \A a, o \in Sessions : stmt'[a] # NoStmt /\ stmt'[o] # NoStmt => a = o
  BY DEF OthersWait
<1>3. Serial'
  BY <1>1, <1>2 DEF Serial
<1>4. \A o \in Sessions :
        /\ Progress(tables', stmt'[o], nextId')
        /\ inTx'[o] => Noted(tables', undo'[o], stmt'[o])
        /\ inTx'[o] /\ load'.sessions = {o} => Alone(tables', atBegin'[o], undo'[o], stmt'[o], effects'[o])
  BY <1>1
<1>5. QED
  BY <1>3, <1>4 DEF TsIInv

-----------------------------------------------------------------------------
(* Rows and undo information *)

\* Undo information that is live, or was, is remembered.
LEMMA LiveIsRemembered ==
    ASSUME TsIInv, NEW s \in Sessions
    PROVE  Live(stmt[s], undo[s]) \subseteq DOMAIN undo[s]
  BY DEF TsIInv, Serial, Live

\* With less that is live nothing is twice.
LEMMA LessLive ==
    ASSUME NEW tabs, NEW und, NEW st, NEW und2, NEW st2,
           OnceLive(und, st), Apart(tabs, und, st),
           \A s \in Sessions : \A i \in Live(st2[s], und2[s]) :
               i \in Live(st[s], und[s]) /\ und2[s][i] = und[s][i]
    PROVE  OnceLive(und2, st2) /\ Apart(tabs, und2, st2)
<1>1. OnceLive(und2, st2)
  <2>1. SUFFICES ASSUME NEW s \in Sessions, NEW o \in Sessions,
                        NEW i \in Live(st2[s], und2[s]), NEW j \in Live(st2[o], und2[o]),
                        SameRow(und2[s][i].row, und2[o][j].row)
                 PROVE  s = o /\ i = j
    BY DEF OnceLive
  <2>2. i \in Live(st[s], und[s]) /\ j \in Live(st[o], und[o]) /\ und2[s][i] = und[s][i] /\ und2[o][j] = und[o][j]
    OBVIOUS
  <2>3. SameRow(und[s][i].row, und[o][j].row)
    BY <2>1, <2>2
  <2>4. QED
    BY <2>2, <2>3 DEF OnceLive
<1>2. Apart(tabs, und2, st2)
  <2>1. SUFFICES ASSUME NEW t \in Tables, NEW s \in Sessions, NEW k \in DOMAIN tabs[t],
                        NEW i \in Live(st2[s], und2[s])
                 PROVE  ~SameRow(tabs[t][k], und2[s][i].row)
    BY DEF Apart
  <2>2. i \in Live(st[s], und[s]) /\ und2[s][i] = und[s][i]
    OBVIOUS
  <2>3. ~SameRow(tabs[t][k], und[s][i].row)
    BY <2>2 DEF Apart
  <2>4. QED
    BY <2>2, <2>3
<1>3. QED
  BY <1>1, <1>2

\* The same for a step of one session.
LEMMA LessLiveOf ==
    ASSUME TsIInv, NEW s \in Sessions, OthersWait(s, stmt', inTx', undo', effects'),
           tables' = tables,
           \A i \in Live(stmt'[s], undo'[s]) : i \in Live(stmt[s], undo[s]) /\ undo'[s][i] = undo[s][i]
    PROVE  OncePlaced(tables)' /\ OnceLive(undo, stmt)' /\ Apart(tables, undo, stmt)'
<1>1. \A o \in Sessions : \A i \in Live(stmt'[o], undo'[o]) :
          i \in Live(stmt[o], undo[o]) /\ undo'[o][i] = undo[o][i]
  <2>1. SUFFICES ASSUME NEW o \in Sessions
                 PROVE  \A i \in Live(stmt'[o], undo'[o]) :
                            i \in Live(stmt[o], undo[o]) /\ undo'[o][i] = undo[o][i]
    OBVIOUS
  <2>2. CASE o # s
    BY <2>2 DEF OthersWait
  <2>3. QED
    BY <2>2
<1>2. PICK und, st : und = undo' /\ st = stmt'
  OBVIOUS
<1>3. OnceLive(undo, stmt) /\ Apart(tables, undo, stmt) /\ OncePlaced(tables)
  BY DEF TsIInv
<1>4. \A o \in Sessions : \A i \in Live(st[o], und[o]) :
          i \in Live(stmt[o], undo[o]) /\ und[o][i] = undo[o][i]
  BY <1>1, <1>2
<1>5. OnceLive(und, st) /\ Apart(tables, und, st)
  BY <1>3, <1>4, LessLive
<1>6. QED
  BY <1>2, <1>3, <1>5

\* Keys stay keys when more were given away.
LEMMA KeysGrow ==
    ASSUME NEW row \in Rows, NEW m \in Nat, NEW n \in Nat, m <= n, Keyed(row, m)
    PROVE  Keyed(row, n)
  BY DEF Keyed

\* The rows of the tables and of the undo information are rows.
LEMMA RowsAre ==
    ASSUME TypesOK
    PROVE  /\ \A t \in Tables : /\ tables[t] \in RowSeqs /\ Len(tables[t]) \in Nat
                                /\ DOMAIN tables[t] = 1 .. Len(tables[t])
                                /\ \A k \in DOMAIN tables[t] : tables[t][k] \in Rows
           /\ \A s \in Sessions : \A i \in DOMAIN undo[s] : undo[s][i].row \in Rows /\ undo[s][i].table \in Tables
  BY DEF TypesOK, RowSeqs, UndoInfo

-----------------------------------------------------------------------------
(* Beginning and ending *)

\* BEGIN remembers the tables, and nothing is done yet.
LEMMA BeginStep ==
    ASSUME TsIInv, NEW s \in Sessions, Begin(s), load' = load
    PROVE  TsIInv'
<1>1. s \in load.sessions /\ stmt[s] = NoStmt /\ \A o \in Sessions : o # s => stmt[o] = NoStmt
  BY Waiting DEF Begin
<1>2. TypesOK'
  BY DEF TsIInv, TypesOK, Begin
<1>3. /\ stmt' = stmt /\ undo' = undo /\ effects' = effects /\ tables' = tables /\ nextId' = nextId
      /\ inTx'[s] /\ atBegin'[s] = tables /\ \A o \in Sessions : o # s => inTx'[o] = inTx[o]
  BY DEF TsIInv, TypesOK, Begin
<1>4. OthersWait(s, stmt', inTx', undo', effects')
  BY <1>1, <1>3 DEF OthersWait
<1>5. undo[s] = NoUndo /\ effects[s] = <<>>
  BY DEF TsIInv, Serial, Begin
<1>6. Of(s, tables', nextId', stmt'[s], inTx'[s], undo'[s], atBegin'[s], effects'[s])
  <2>1. /\ Progress(tables, NoStmt, nextId) /\ Noted(tables, NoUndo, NoStmt)
        /\ NoStmt.kind = "none" /\ Live(NoStmt, NoUndo) = DOMAIN NoUndo
    BY NothingDone
  <2>2. DOMAIN NoUndo = {}
    BY DEF NoUndo
  <2>3. Alone(tables, tables, NoUndo, NoStmt, <<>>)
    BY <2>1, <2>2 DEF Alone, Untouched
  <2>4. QED
    BY <1>1, <1>3, <1>5, <2>1, <2>3 DEF Of, Serial1
<1>7. OncePlaced(tables)' /\ OnceLive(undo, stmt)' /\ Apart(tables, undo, stmt)' /\ AllKeyed(tables, undo, nextId)'
  BY <1>3 DEF TsIInv, OncePlaced, OnceLive, Apart, AllKeyed
<1>8. QED
  BY <1>1, <1>2, <1>4, <1>6, <1>7, SessionStep

\* A transaction that ends leaves nothing behind but the tables.
LEMMA EndStep ==
    ASSUME TsIInv, NEW s \in Sessions, End(s), stmt' = [stmt EXCEPT ![s] = NoStmt],
           stmt[s] # NoStmt \/ MayStart(s),
           UNCHANGED <<load, tables, created, indexed, frames, nextId, statements>>
    PROVE  TsIInv'
<1>1. s \in load.sessions /\ \A o \in Sessions : o # s => stmt[o] = NoStmt
  BY Waiting
<1>2. /\ inTx' = [inTx EXCEPT ![s] = FALSE] /\ undo' = [undo EXCEPT ![s] = NoUndo]
      /\ atBegin' = [atBegin EXCEPT ![s] = NoTables] /\ effects' = [effects EXCEPT ![s] = <<>>]
      /\ tables' = tables /\ nextId' = nextId /\ load' = load
  BY DEF End, Forgotten
<1>3. TypesOK
  BY DEF TsIInv
<1>4. /\ stmt'[s] = NoStmt /\ inTx'[s] = FALSE /\ undo'[s] = NoUndo /\ effects'[s] = <<>>
      /\ \A o \in Sessions : o # s => /\ stmt'[o] = stmt[o] /\ inTx'[o] = inTx[o] /\ undo'[o] = undo[o]
                                      /\ effects'[o] = effects[o]
  BY <1>2, <1>3 DEF TypesOK
<1>5. TypesOK'
  <2>1. NoStmt \in Stmts /\ NoTables \in [Tables -> RowSeqs] /\ DOMAIN NoUndo = {}
    BY DEF Stmts, NoStmt, NoTables, RowSeqs, NoUndo
  <2>2. stmt' \in [Sessions -> Stmts] /\ atBegin' \in [Sessions -> [Tables -> RowSeqs]] /\ inTx' \in [Sessions -> BOOLEAN]
    BY <1>2, <1>3, <2>1 DEF TypesOK
  <2>3. effects' \in [Sessions -> Seq(Kinds)]
    BY <1>2, <1>3 DEF TypesOK
  <2>4. DOMAIN undo' = Sessions
        /\ \A o \in Sessions : DOMAIN undo'[o] \subseteq Nat /\ \A i \in DOMAIN undo'[o] : undo'[o][i] \in UndoInfo
    <3>1. DOMAIN undo' = Sessions
      BY <1>2, <1>3 DEF TypesOK
    <3>2. ASSUME NEW o \in Sessions
          PROVE  DOMAIN undo'[o] \subseteq Nat /\ \A i \in DOMAIN undo'[o] : undo'[o][i] \in UndoInfo
      <4>1. CASE o = s
        BY <1>4, <2>1, <4>1
      <4>2. CASE o # s
        BY <1>3, <1>4, <4>2 DEF TypesOK
      <4>3. QED
        BY <4>1, <4>2
    <3>3. QED
      BY <3>1, <3>2
  <2>5. QED
    BY <1>2, <1>3, <2>2, <2>3, <2>4 DEF TypesOK
<1>6. OthersWait(s, stmt', inTx', undo', effects')
  BY <1>1, <1>4 DEF OthersWait
<1>7. Of(s, tables', nextId', stmt'[s], inTx'[s], undo'[s], atBegin'[s], effects'[s])
  <2>1. Progress(tables', NoStmt, nextId') /\ NoStmt.kind = "none"
    BY NothingDone
  <2>2. QED
    BY <1>4, <2>1 DEF Of, Serial1
<1>8. OncePlaced(tables)' /\ OnceLive(undo, stmt)' /\ Apart(tables, undo, stmt)'
  <2>1. Live(stmt'[s], undo'[s]) = {}
    BY <1>4, NothingDone DEF NoUndo
  <2>2. QED
    BY <1>2, <1>6, <2>1, LessLiveOf
<1>9. AllKeyed(tables, undo, nextId)'
  <2>1. \A o \in Sessions : undo'[o] = undo[o] \/ DOMAIN undo'[o] = {}
    BY <1>4 DEF NoUndo
  <2>2. QED
    BY <1>2, <2>1 DEF TsIInv, AllKeyed
<1>10. QED
  BY <1>1, <1>2, <1>5, <1>6, <1>7, <1>8, <1>9, SessionStep

\* COMMIT.
LEMMA CommitStep ==
    ASSUME TsIInv, NEW s \in Sessions, Commit(s), load' = load
    PROVE  TsIInv'
<1>1. stmt[s] = NoStmt /\ MayStart(s) /\ stmt' = stmt
  BY Waiting DEF Commit
<1>2. stmt' = [stmt EXCEPT ![s] = NoStmt]
  BY <1>1 DEF TsIInv, TypesOK
<1>3. QED
  BY <1>1, <1>2, EndStep DEF Commit

\* The end of a ROLLBACK.
LEMMA RollbackEndsStep ==
    ASSUME TsIInv, NEW s \in Sessions, RollbackEnds(s), load' = load
    PROVE  TsIInv'
<1>1. stmt[s] # NoStmt
  BY DEF RollbackEnds, NoStmt
<1>2. QED
  BY <1>1, EndStep DEF RollbackEnds

-----------------------------------------------------------------------------
(* Starting and finishing a statement *)

\* A statement that begins, or ends otherwise than by a ROLLBACK, changes nothing else.
LEMMA StmtStep ==
    ASSUME TsIInv, NEW s \in Sessions, stmt[s] # NoStmt \/ MayStart(s), NEW to \in Stmts,
           stmt' = [stmt EXCEPT ![s] = to],
           UNCHANGED <<load, tables, created, indexed, frames, inTx, undo, nextId, atBegin, effects>>,
           ~Pending(stmt[s]), ~Pending(to), stmt[s].kind # "rollback",
           Live(to, undo[s]) = Live(stmt[s], undo[s]),
           to.kind = "rollback" => inTx[s] /\ to.left \subseteq DOMAIN undo[s],
           Progress(tables, to, nextId)
    PROVE  TsIInv'
<1>1. s \in load.sessions /\ \A o \in Sessions : o # s => stmt[o] = NoStmt
  BY Waiting
<1>2. /\ load' = load /\ tables' = tables /\ created' = created /\ indexed' = indexed /\ frames' = frames
      /\ inTx' = inTx /\ undo' = undo /\ nextId' = nextId /\ atBegin' = atBegin /\ effects' = effects
  OBVIOUS
<1>3. TypesOK'
  BY <1>2 DEF TsIInv, TypesOK
<1>4. stmt'[s] = to /\ \A o \in Sessions : o # s => stmt'[o] = stmt[o]
  BY DEF TsIInv, TypesOK
<1>5. OthersWait(s, stmt', inTx', undo', effects')
  BY <1>1, <1>2, <1>4 DEF OthersWait
<1>6. Of(s, tables', nextId', stmt'[s], inTx'[s], undo'[s], atBegin'[s], effects'[s])
  <2>1. Of(s, tables, nextId, stmt[s], inTx[s], undo[s], atBegin[s], effects[s])
    BY OfEach
  <2>2. Noted(tables, undo[s], to)
    BY DEF Noted
  <2>3. ASSUME inTx[s], load.sessions = {s}
        PROVE  Alone(tables, atBegin[s], undo[s], to, effects[s])
    <3>1. Alone(tables, atBegin[s], undo[s], stmt[s], effects[s])
      BY <2>1, <2>3 DEF Of
    <3>2. ~OneBack(tables, atBegin[s], stmt[s])
      BY DEF OneBack
    <3>3. QED
      BY <3>1, <3>2 DEF Alone
  <2>4. QED
    BY <1>2, <1>4, <2>1, <2>2, <2>3 DEF Of, Serial1
<1>7. OncePlaced(tables)' /\ OnceLive(undo, stmt)' /\ Apart(tables, undo, stmt)'
  BY <1>2, <1>4, <1>5, LessLiveOf
<1>8. AllKeyed(tables, undo, nextId)'
  BY <1>2 DEF TsIInv, AllKeyed
<1>9. QED
  BY <1>1, <1>2, <1>3, <1>5, <1>6, <1>7, <1>8, SessionStep

\* An INSERT, UPDATE or DELETE begins.
LEMMA StartStep ==
    ASSUME TsIInv, NEW s \in Sessions, NEW work, work \in InsertStmts \cup UpdateStmts \cup DeleteStmts,
           Start(s, work), load' = load, ~Pending(work), Progress(tables, work, nextId)
    PROVE  TsIInv'
<1>1. MayStart(s) /\ stmt[s] = NoStmt
  BY Waiting DEF Start
<1>2. /\ stmt' = [stmt EXCEPT ![s] = work]
      /\ UNCHANGED <<load, tables, created, indexed, frames, inTx, undo, nextId, atBegin, effects>>
  BY DEF Start
<1>3. work \in Stmts /\ work.kind # "rollback"
  BY DEF Stmts, InsertStmts, UpdateStmts, DeleteStmts
<1>4. Live(work, undo[s]) = DOMAIN undo[s]
  BY <1>3 DEF Live
<1>5. ~Pending(stmt[s]) /\ stmt[s].kind # "rollback" /\ Live(stmt[s], undo[s]) = DOMAIN undo[s]
  BY <1>1, NothingDone
<1>6. QED
  BY <1>1, <1>2, <1>3, <1>4, <1>5, StmtStep

\* An INSERT begins with its table as it is.
LEMMA InsertBegins ==
    ASSUME TsIInv, NEW s \in Sessions, NEW t \in Tables, NEW vals \in ValueLists, Insert(s, t, vals), load' = load
    PROVE  TsIInv'
<1>1. PICK work : work = [kind |-> "insert", table |-> t, todo |-> vals, start |-> tables[t],
                          vals |-> vals, first |-> nextId]
  OBVIOUS
<1>2. Start(s, work)
  BY <1>1 DEF Insert
<1>3. vals \in Seq(Vals) /\ Len(vals) \in Nat /\ nextId \in Nat \ {0} /\ tables[t] \in RowSeqs /\ Len(tables[t]) \in Nat
  BY TableSessionAssumption, RowsAre DEF TsIInv, TypesOK
<1>4. work \in InsertStmts
  BY <1>1, <1>3 DEF InsertStmts
<1>5. Inserting(tables[t], work, nextId)
  BY <1>1, <1>3 DEF Inserting
<1>6. Progress(tables, work, nextId) /\ ~Pending(work)
  BY <1>1, <1>5 DEF Progress, Pending
<1>7. QED
  BY <1>2, <1>4, <1>6, StartStep

\* An UPDATE begins with the rows it found.
LEMMA UpdateBegins ==
    ASSUME TsIInv, NEW s \in Sessions, NEW t \in Tables, NEW v \in Vals, NEW w \in Vals,
           Update(s, t, {w}, v), load' = load
    PROVE  TsIInv'
<1>1. PICK work : work = [kind |-> "update", table |-> t, todo |-> Matching(t, {w}), start |-> tables[t],
                          where |-> {w}, val |-> v]
  OBVIOUS
<1>2. Start(s, work)
  BY <1>1 DEF Update
<1>3. tables[t] \in RowSeqs /\ Len(tables[t]) \in Nat
  BY RowsAre DEF TsIInv
<1>4. work.todo \subseteq Nat
  BY <1>1, <1>3 DEF Matching
<1>5. work \in UpdateStmts
  BY <1>1, <1>3, <1>4 DEF UpdateStmts
<1>6. work.todo = Found(work)
  BY <1>1 DEF Matching, Found
<1>7. Updating(tables[t], work)
  BY <1>1, <1>3, <1>6 DEF Updating
<1>8. Progress(tables, work, nextId) /\ ~Pending(work)
  BY <1>1, <1>7 DEF Progress, Pending
<1>9. QED
  BY <1>2, <1>5, <1>8, StartStep

\* A DELETE begins with the rows it found.
LEMMA DeleteBegins ==
    ASSUME TsIInv, NEW s \in Sessions, NEW t \in Tables, NEW where \in Wheres,
           Delete(s, t, where), load' = load
    PROVE  TsIInv'
<1>1. PICK work : work = [kind |-> "delete", table |-> t, todo |-> Matching(t, where), start |-> tables[t],
                          where |-> where, logged |-> FALSE]
  OBVIOUS
<1>2. Start(s, work)
  BY <1>1 DEF Delete
<1>3. tables[t] \in RowSeqs /\ Len(tables[t]) \in Nat /\ DOMAIN tables[t] = 1 .. Len(tables[t])
  BY RowsAre DEF TsIInv
<1>4. work.todo \subseteq Nat /\ where \subseteq Vals \cup {0}
  BY <1>1, <1>3 DEF Matching, Wheres
<1>5. work \in DeleteStmts
  BY <1>1, <1>3, <1>4 DEF DeleteStmts
<1>6. work.todo = Found(work)
  BY <1>1 DEF Matching, Found
<1>7. Remaining(work) = 1 .. Len(tables[t])
  BY <1>1, <1>6 DEF Remaining
<1>8. \A k \in 1 .. Len(tables[t]) : Rank(1 .. Len(tables[t]), k) = k
  <2>1. SUFFICES ASSUME NEW k \in 1 .. Len(tables[t])
                 PROVE  Rank(1 .. Len(tables[t]), k) = k
    OBVIOUS
  <2>2. PICK S : S = 1 .. Len(tables[t])
    OBVIOUS
  <2>3. S \subseteq Nat \ {0} /\ k \in Nat /\ 1 .. k \subseteq S
    BY <1>3, <2>2
  <2>4. Rank(S, k) = k
    BY <2>3, RankOfFirst
  <2>5. QED
    BY <2>2, <2>4
<1>9. Cardinality(1 .. Len(tables[t])) = Len(tables[t])
  BY <1>3, FS_Interval
<1>10. Deleting(tables[t], work)
  BY <1>1, <1>6, <1>7, <1>8, <1>9 DEF Deleting
<1>11. Progress(tables, work, nextId) /\ ~Pending(work)
  BY <1>1, <1>10 DEF Progress, Pending
<1>12. QED
  BY <1>2, <1>5, <1>11, StartStep

\* A statement returns.
LEMMA FinishStep ==
    ASSUME TsIInv, NEW s \in Sessions, Finish(s), load' = load
    PROVE  TsIInv'
<1>1. stmt[s] # NoStmt /\ stmt[s].kind # "rollback" /\ ~Pending(stmt[s])
  BY DEF Finish, NoStmt, Pending
<1>2. NoStmt \in Stmts /\ Progress(tables, NoStmt, nextId) /\ ~Pending(NoStmt) /\ NoStmt.kind = "none"
      /\ Live(NoStmt, undo[s]) = DOMAIN undo[s]
  BY NothingDone DEF Stmts, NoStmt
<1>3. Live(stmt[s], undo[s]) = DOMAIN undo[s]
  BY <1>1 DEF Live
<1>4. stmt' = [stmt EXCEPT ![s] = NoStmt]
      /\ UNCHANGED <<load, tables, created, indexed, frames, inTx, undo, nextId, atBegin, effects>>
  BY DEF Finish
<1>5. QED
  BY <1>1, <1>2, <1>3, <1>4, StmtStep

\* ROLLBACK begins with all that is remembered.
LEMMA RollbackStep ==
    ASSUME TsIInv, NEW s \in Sessions, Rollback(s), load' = load
    PROVE  TsIInv'
<1>1. MayStart(s) /\ stmt[s] = NoStmt /\ inTx[s]
  BY Waiting DEF Rollback
<1>2. PICK to : to = [kind |-> "rollback", left |-> DOMAIN undo[s]]
  OBVIOUS
<1>3. DOMAIN undo[s] \subseteq Nat
  BY DEF TsIInv, TypesOK
<1>4. to \in Stmts /\ ~Pending(to) /\ Live(to, undo[s]) = DOMAIN undo[s] /\ Progress(tables, to, nextId)
      /\ to.left \subseteq DOMAIN undo[s]
  BY <1>2, <1>3 DEF Stmts, Pending, Live, Progress
<1>5. ~Pending(stmt[s]) /\ stmt[s].kind # "rollback" /\ Live(stmt[s], undo[s]) = DOMAIN undo[s]
  BY <1>1, NothingDone
<1>6. stmt' = [stmt EXCEPT ![s] = to]
      /\ UNCHANGED <<load, tables, created, indexed, frames, inTx, undo, nextId, atBegin, effects>>
  BY <1>2 DEF Rollback
<1>7. QED
  BY <1>1, <1>4, <1>5, <1>6, StmtStep

-----------------------------------------------------------------------------
(* InsertOperator and UpdateOperator *)

\* A statement that fails is a statement, and keeps the undo information.
LEMMA Failed ==
    ASSUME NEW info, NEW tabs, NEW n
    PROVE  LET to == [kind |-> "failed"] IN
           /\ to \in Stmts /\ to.kind = "failed" /\ ~Pending(to) /\ Progress(tabs, to, n)
           /\ Live(to, info) = DOMAIN info
  BY DEF Stmts, Pending, Progress, Live

\* What a session did is not nothing, and a single DELETE only if that was the one.
LEMMA DoneMore ==
    ASSUME NEW done \in Seq(Kinds), NEW what \in Kinds
    PROVE  /\ Append(done, what) \in Seq(Kinds) /\ Append(done, what) # <<>>
           /\ Append(done, what) = <<"delete">> => what = "delete" /\ done = <<>>
<1>1. Append(done, what) \in Seq(Kinds) /\ Len(Append(done, what)) = Len(done) + 1 /\ Len(done) \in Nat
      /\ Append(done, what)[Len(done) + 1] = what
  OBVIOUS
<1>2. Append(done, what) # <<>>
  BY <1>1
<1>3. ASSUME Append(done, what) = <<"delete">>
      PROVE  what = "delete" /\ done = <<>>
  <2>1. Len(<<"delete">>) = 1 /\ <<"delete">>[1] = "delete"
    OBVIOUS
  <2>2. Len(done) = 0
    BY <1>1, <1>3, <2>1
  <2>3. QED
    BY <1>1, <1>3, <2>1, <2>2
<1>4. QED
  BY <1>1, <1>2, <1>3

\* Appending a row with a new key keeps the rows apart.
LEMMA NewRowApart ==
    ASSUME TsIInv, NEW t \in Tables, NEW r \in Rows, r.id = nextId, NEW tabs,
           tabs = [tables EXCEPT ![t] = Append(@, r)]
    PROVE  /\ tabs \in [Tables -> RowSeqs]
           /\ OncePlaced(tabs) /\ Apart(tabs, undo, stmt) /\ AllKeyed(tabs, undo, nextId + 1)
<1>1. TypesOK /\ nextId \in Nat \ {0} /\ tables \in [Tables -> RowSeqs]
  BY DEF TsIInv, TypesOK
<1>2. \A u \in Tables : /\ tables[u] \in RowSeqs /\ Len(tables[u]) \in Nat /\ DOMAIN tables[u] = 1 .. Len(tables[u])
                        /\ \A k \in DOMAIN tables[u] : tables[u][k] \in Rows
  BY <1>1, RowsAre
<1>3. tabs \in [Tables -> RowSeqs]
  BY <1>1 DEF RowSeqs
<1>4. ASSUME NEW u \in Tables, NEW k \in DOMAIN tabs[u]
      PROVE  \/ k \in DOMAIN tables[u] /\ tabs[u][k] = tables[u][k]
             \/ u = t /\ k = Len(tables[t]) + 1 /\ tabs[u][k] = r
  <2>1. CASE u = t
    <3>1. tabs[t] = Append(tables[t], r)
      BY <1>1
    <3>2. PICK rows : rows = tables[t]
      OBVIOUS
    <3>3. rows \in Seq(Rows) /\ Len(rows) \in Nat
      BY <1>2, <3>2 DEF RowSeqs
    <3>4. k \in 1 .. (Len(rows) + 1) /\ (k = Len(rows) + 1 => tabs[t][k] = r) /\ (k # Len(rows) + 1 => tabs[t][k] = rows[k])
      BY <2>1, <3>1, <3>2, <3>3
    <3>5. QED
      BY <1>2, <2>1, <3>2, <3>3, <3>4
  <2>2. CASE u # t
    BY <1>1, <2>2
  <2>3. QED
    BY <2>1, <2>2
<1>5. AllKeyed(tables, undo, nextId) /\ OncePlaced(tables) /\ Apart(tables, undo, stmt)
  BY DEF TsIInv
<1>6. ASSUME NEW u \in Tables, NEW k \in DOMAIN tables[u]
      PROVE  ~SameRow(tables[u][k], r) /\ ~SameRow(r, tables[u][k])
  <2>1. Keyed(tables[u][k], nextId)
    BY <1>5 DEF AllKeyed
  <2>2. QED
    BY <1>1, <2>1, HoleIsRow DEF Keyed, SameRow
<1>7. OncePlaced(tabs)
  <2>1. SUFFICES ASSUME NEW u \in Tables, NEW v \in Tables, NEW j \in DOMAIN tabs[u], NEW k \in DOMAIN tabs[v],
                        SameRow(tabs[u][j], tabs[v][k])
                 PROVE  u = v /\ j = k
    BY DEF OncePlaced
  <2>2. CASE j \in DOMAIN tables[u] /\ tabs[u][j] = tables[u][j]
    <3>1. k \in DOMAIN tables[v] /\ tabs[v][k] = tables[v][k]
      BY <1>4, <1>6, <2>1, <2>2
    <3>2. SameRow(tables[u][j], tables[v][k])
      BY <2>1, <2>2, <3>1
    <3>3. QED
      BY <1>5, <2>2, <3>1, <3>2 DEF OncePlaced
  <2>3. CASE u = t /\ j = Len(tables[t]) + 1 /\ tabs[u][j] = r
    <3>1. v = t /\ k = Len(tables[t]) + 1
      BY <1>4, <1>6, <2>1, <2>3
    <3>2. QED
      BY <2>3, <3>1
  <2>4. QED
    BY <1>4, <2>2, <2>3
<1>8. Apart(tabs, undo, stmt)
  <2>1. SUFFICES ASSUME NEW u \in Tables, NEW o \in Sessions, NEW k \in DOMAIN tabs[u], NEW i \in Live(stmt[o], undo[o])
                 PROVE  ~SameRow(tabs[u][k], undo[o][i].row)
    BY DEF Apart
  <2>2. CASE k \in DOMAIN tables[u] /\ tabs[u][k] = tables[u][k]
    BY <1>5, <2>2 DEF Apart
  <2>3. CASE tabs[u][k] = r
    <3>1. i \in DOMAIN undo[o]
      BY LiveIsRemembered
    <3>2. Keyed(undo[o][i].row, nextId)
      BY <1>5, <3>1 DEF AllKeyed
    <3>3. QED
      BY <1>1, <2>3, <3>2, HoleIsRow DEF Keyed, SameRow
  <2>4. QED
    BY <1>4, <2>2, <2>3
<1>9. AllKeyed(tabs, undo, nextId + 1)
  <2>1. ASSUME NEW u \in Tables, NEW k \in DOMAIN tabs[u]
        PROVE  Keyed(tabs[u][k], nextId + 1)
    <3>1. CASE k \in DOMAIN tables[u] /\ tabs[u][k] = tables[u][k]
      <4>1. Keyed(tables[u][k], nextId) /\ tables[u][k] \in Rows
        BY <1>2, <1>5, <3>1 DEF AllKeyed
      <4>2. QED
        BY <1>1, <3>1, <4>1 DEF Keyed
    <3>2. CASE tabs[u][k] = r
      BY <1>1, <3>2 DEF Keyed
    <3>3. QED
      BY <1>4, <3>1, <3>2
  <2>2. ASSUME NEW o \in Sessions, NEW i \in DOMAIN undo[o]
        PROVE  Keyed(undo[o][i].row, nextId + 1)
    <3>1. Keyed(undo[o][i].row, nextId)
      BY <1>5 DEF AllKeyed
    <3>2. QED
      BY <1>1, <3>1 DEF Keyed
  <2>3. QED
    BY <2>1, <2>2 DEF AllKeyed
<1>10. QED
  BY <1>3, <1>7, <1>8, <1>9

\* An INSERT that pushed one more row is one row further.
LEMMA InsertProgress ==
    ASSUME NEW me \in InsertStmts, NEW rows \in RowSeqs, NEW n \in Nat, Inserting(rows, me, n), me.todo # <<>>
    PROVE  Inserting(Append(rows, Row(n, Head(me.todo))), [me EXCEPT !.todo = Tail(me.todo)], n + 1)
<1>0. PICK to, rows2 : to = [me EXCEPT !.todo = Tail(me.todo)] /\ rows2 = Append(rows, Row(n, Head(me.todo)))
  OBVIOUS
<1>1. /\ me.todo \in Seq(Vals) /\ me.vals \in Seq(Vals) /\ me.start \in Seq(Rows) /\ rows \in Seq(Rows) /\ me.first \in Nat
      /\ Len(me.todo) \in Nat /\ Len(me.vals) \in Nat /\ Len(me.start) \in Nat /\ Len(rows) \in Nat
  BY DEF InsertStmts, RowSeqs
<1>2. Tail(me.todo) \in Seq(Vals) /\ Len(Tail(me.todo)) = Len(me.todo) - 1 /\ Len(me.todo) >= 1
      /\ \A k \in 1 .. (Len(me.todo) - 1) : Tail(me.todo)[k] = me.todo[k + 1]
  BY <1>1
<1>3. /\ to.todo = Tail(me.todo) /\ to.start = me.start /\ to.vals = me.vals /\ to.first = me.first
  BY <1>0, <1>2, InsertRest
<1>4. PICK r, a, b, s, l, f : /\ r = Row(n, Head(me.todo)) /\ a = Len(me.todo) /\ b = Len(me.vals)
                           /\ s = Len(me.start) /\ l = Len(rows) /\ f = me.first
  OBVIOUS
<1>5. a \in Nat /\ b \in Nat /\ s \in Nat /\ l \in Nat /\ a >= 1 /\ f \in Nat
  BY <1>1, <1>2, <1>4
<1>6. /\ a <= b /\ l = s + (b - a) /\ n = f + (b - a)
      /\ \A k \in 1 .. s : rows[k] = me.start[k]
      /\ \A k \in 1 .. (b - a) : rows[s + k] = Row(f + k - 1, me.vals[k])
      /\ \A k \in 1 .. a : me.todo[k] = me.vals[b - a + k]
  BY <1>4 DEF Inserting
<1>7. PICK d : d = b - a
  OBVIOUS
<1>8. /\ d \in Nat /\ b - (a - 1) = d + 1 /\ a - 1 <= b /\ l = s + d /\ n = f + d
      /\ l + 1 = s + (d + 1) /\ n + 1 = f + (d + 1) /\ \A k \in 1 .. d : s + k \in 1 .. l
  <2>1. a <= b /\ l = s + (b - a) /\ n = f + (b - a)
    BY <1>6
  <2>2. QED
    BY <1>5, <1>7, <2>1
<1>9. Len(to.todo) = a - 1 /\ Len(to.vals) = b /\ Len(to.start) = s
  BY <1>2, <1>3, <1>4
<1>10. Head(me.todo) = me.vals[d + 1] /\ Head(me.todo) \in Vals
  <2>1. Head(me.todo) = me.todo[1] /\ Head(me.todo) \in Vals
    BY <1>1
  <2>2. 1 \in 1 .. a
    BY <1>5
  <2>3. QED
    BY <1>6, <1>7, <2>1, <2>2
<1>11. /\ Len(rows2) = l + 1 /\ rows2[l + 1] = r /\ \A k \in 1 .. l : rows2[k] = rows[k]
  <2>1. r \in Rows
    BY <1>4, <1>10, HoleIsRow
  <2>2. rows2 = Append(rows, r)
    BY <1>0, <1>4
  <2>3. QED
    BY <1>1, <1>4, <2>1, <2>2
<1>12. \A k \in 1 .. s : rows2[k] = me.start[k]
  <2>1. \A k \in 1 .. s : k \in 1 .. l
    BY <1>5, <1>8
  <2>2. QED
    BY <1>6, <1>11, <2>1
<1>13. ASSUME NEW k \in 1 .. (d + 1)
       PROVE  rows2[s + k] = Row(f + k - 1, me.vals[k])
  <2>1. CASE k \in 1 .. d
    <3>1. s + k \in 1 .. l
      BY <1>5, <1>8, <2>1
    <3>2. QED
      BY <1>6, <1>7, <1>11, <2>1, <3>1
  <2>2. CASE k = d + 1
    <3>1. s + k = l + 1
      BY <1>8, <2>2
    <3>2. n = f + k - 1
      <4>1. f \in Nat /\ d \in Nat /\ n = f + d
        BY <1>5, <1>8
      <4>2. QED
        BY <2>2, <4>1
    <3>3. rows2[s + k] = r
      BY <1>11, <3>1
    <3>4. QED
      BY <1>4, <1>10, <2>2, <3>2, <3>3
  <2>3. k \in 1 .. d \/ k = d + 1
    BY <1>8
  <2>4. QED
    BY <2>1, <2>2, <2>3, Zenon
<1>14. ASSUME NEW k \in 1 .. (a - 1)
       PROVE  to.todo[k] = to.vals[d + 1 + k]
  <2>1. k + 1 \in 1 .. a /\ d + (k + 1) = d + 1 + k
    <3>1. a \in Nat /\ d \in Nat
      BY <1>5, <1>8
    <3>2. QED
      BY <3>1
  <2>2. to.todo[k] = me.todo[k + 1]
    BY <1>2, <1>3, <1>4
  <2>3. me.todo[k + 1] = me.vals[d + (k + 1)]
    BY <1>6, <1>7, <2>1
  <2>4. QED
    BY <1>3, <2>1, <2>2, <2>3
<1>15. Inserting(rows2, to, n + 1)
  <2>1. Len(to.vals) - Len(to.todo) = d + 1
    BY <1>8, <1>9
  <2>2. /\ Len(to.todo) <= Len(to.vals) /\ Len(rows2) = Len(to.start) + (d + 1) /\ n + 1 = to.first + (d + 1)
    BY <1>3, <1>4, <1>8, <1>9, <1>11
  <2>3. /\ \A k \in 1 .. Len(to.start) : rows2[k] = to.start[k]
        /\ \A k \in 1 .. (d + 1) : rows2[Len(to.start) + k] = Row(to.first + k - 1, to.vals[k])
        /\ \A k \in 1 .. Len(to.todo) : to.todo[k] = to.vals[d + 1 + k]
    BY <1>3, <1>4, <1>9, <1>12, <1>13, <1>14
  <2>4. QED
    BY <2>1, <2>2, <2>3 DEF Inserting
<1>16. QED
  BY <1>0, <1>15

\* An INSERT or UPDATE that changed a row keeps the invariant when it keeps the rows.
LEMMA WriteStep ==
    ASSUME TsIInv, NEW s \in Sessions, NEW to \in Stmts, NEW what \in {"insert", "update"},
           stmt[s].kind = what, stmt' = [stmt EXCEPT ![s] = to], to.kind # "rollback", ~Pending(to),
           Done(s, what), UNCHANGED <<load, created, inTx, undo, atBegin>>,
           tables' \in [Tables -> RowSeqs], indexed' \subseteq Tables, frames' \in 0 .. load.frames,
           nextId' \in Nat \ {0}, Progress(tables', to, nextId'),
           OncePlaced(tables'), Apart(tables', undo, stmt), AllKeyed(tables', undo, nextId')
    PROVE  TsIInv'
<1>1. stmt[s] # NoStmt /\ stmt[s].kind # "rollback" /\ ~Pending(stmt[s]) /\ what \in Kinds
  BY DEF NoStmt, Pending, Kinds
<1>2. s \in load.sessions /\ \A o \in Sessions : o # s => stmt[o] = NoStmt
  BY <1>1, Waiting
<1>3. TypesOK
  BY DEF TsIInv
<1>4. /\ load' = load /\ created' = created /\ inTx' = inTx /\ undo' = undo /\ atBegin' = atBegin
      /\ effects' = [effects EXCEPT ![s] = IF inTx[s] THEN Append(@, what) ELSE @]
  BY DEF Done
<1>5. effects[s] \in Seq(Kinds) /\ Append(effects[s], what) \in Seq(Kinds)
  BY <1>1, <1>3, DoneMore DEF TypesOK
<1>6. /\ stmt'[s] = to /\ effects'[s] = (IF inTx[s] THEN Append(effects[s], what) ELSE effects[s])
      /\ \A o \in Sessions : o # s => stmt'[o] = stmt[o] /\ effects'[o] = effects[o]
  BY <1>3, <1>4 DEF TypesOK
<1>7. stmt' \in [Sessions -> Stmts] /\ effects' \in [Sessions -> Seq(Kinds)]
  BY <1>3, <1>4, <1>5 DEF TypesOK
<1>8. TypesOK'
  BY <1>3, <1>4, <1>7 DEF TypesOK
<1>9. OthersWait(s, stmt', inTx', undo', effects')
  BY <1>2, <1>4, <1>6 DEF OthersWait
<1>10. Of(s, tables', nextId', stmt'[s], inTx'[s], undo'[s], atBegin'[s], effects'[s])
  <2>1. Of(s, tables, nextId, stmt[s], inTx[s], undo[s], atBegin[s], effects[s])
    BY OfEach
  <2>2. Serial1(to, inTx[s], undo[s], effects'[s])
    BY <1>6, <2>1 DEF Of, Serial1
  <2>3. Noted(tables', undo[s], to)
    BY DEF Noted
  <2>4. inTx[s] => effects'[s] # <<>> /\ effects'[s] # <<"delete">>
    <3>1. Append(effects[s], what) # <<>> /\ Append(effects[s], what) # <<"delete">>
      BY <1>1, <1>5, DoneMore
    <3>2. QED
      BY <1>6, <3>1
  <2>5. inTx[s] => Alone(tables', atBegin[s], undo[s], to, effects'[s])
    BY <2>4 DEF Alone
  <2>6. QED
    BY <1>4, <1>6, <2>2, <2>3, <2>5 DEF Of
<1>11. OnceLive(undo', stmt') /\ Apart(tables', undo', stmt')
  <2>1. PICK tabs, st : tabs = tables' /\ st = stmt'
    OBVIOUS
  <2>2. \A o \in Sessions : \A i \in Live(st[o], undo[o]) : i \in Live(stmt[o], undo[o])
    <3>1. SUFFICES ASSUME NEW o \in Sessions
                   PROVE  \A i \in Live(st[o], undo[o]) : i \in Live(stmt[o], undo[o])
      OBVIOUS
    <3>2. CASE o = s
      <4>1. st[o] = to
        BY <1>6, <2>1, <3>2
      <4>2. QED
        BY <1>1, <3>2, <4>1 DEF Live
    <3>3. CASE o # s
      BY <1>6, <2>1, <3>3
    <3>4. QED
      BY <3>2, <3>3
  <2>3. OnceLive(undo, stmt) /\ Apart(tabs, undo, stmt)
    BY <2>1 DEF TsIInv
  <2>4. OnceLive(undo, st) /\ Apart(tabs, undo, st)
    BY <2>2, <2>3, LessLive
  <2>5. QED
    BY <1>4, <2>1, <2>4
<1>12. OncePlaced(tables)' /\ OnceLive(undo, stmt)' /\ Apart(tables, undo, stmt)' /\ AllKeyed(tables, undo, nextId)'
  BY <1>4, <1>11
<1>13. QED
  BY <1>2, <1>4, <1>8, <1>9, <1>10, <1>12, SessionStep

\* Pages are taken from those there are.
LEMMA TakenFrames ==
    ASSUME TypesOK, NEW need \in Nat
    PROVE  Taken(need) \in 0 .. load.frames
<1>1. frames \in 0 .. load.frames /\ load.frames \in Nat
  BY TableSessionAssumption DEF TypesOK, Workload
<1>2. QED
  BY <1>1 DEF Taken

\* An INSERT pushes a row.
LEMMA InsertRowStep ==
    ASSUME TsIInv, NEW s \in Sessions, InsertRow(s), load' = load
    PROVE  TsIInv'
<1>1. PICK me, t, need : me = stmt[s] /\ t = me.table /\ need = IF t \in indexed THEN 1 ELSE 2
  OBVIOUS
<1>2. /\ me.kind = "insert" /\ me.todo # <<>>
      /\ tables' = [tables EXCEPT ![t] = Append(@, Row(nextId, Head(me.todo)))]
      /\ nextId' = nextId + 1
      /\ frames' = Taken(need)
      /\ indexed' = IF frames < need THEN indexed ELSE indexed \cup {t}
      /\ stmt' = IF frames < need THEN Fails(s) ELSE Rest(s, Tail(me.todo))
      /\ Done(s, "insert")
      /\ UNCHANGED <<load, created, inTx, undo, atBegin>>
  BY <1>1 DEF InsertRow
<1>3. TypesOK /\ me \in Stmts /\ stmt \in [Sessions -> Stmts] /\ nextId \in Nat \ {0}
  BY <1>1 DEF TsIInv, TypesOK
<1>4. me \in InsertStmts /\ t \in Tables /\ me.todo \in Seq(Vals) /\ tables[t] \in RowSeqs
  <2>1. me \in InsertStmts
    BY <1>2, <1>3, StmtKinds
  <2>2. t \in Tables /\ me.todo \in Seq(Vals)
    BY <1>1, <2>1 DEF InsertStmts
  <2>3. QED
    BY <1>3, <2>1, <2>2 DEF TypesOK
<1>5. Head(me.todo) \in Vals /\ Tail(me.todo) \in Seq(Vals)
  BY <1>2, <1>4
<1>6. PICK r : r = Row(nextId, Head(me.todo))
  OBVIOUS
<1>7. r \in Rows /\ r.id = nextId
  BY <1>3, <1>5, <1>6, HoleIsRow
<1>8. PICK tabs : tabs = [tables EXCEPT ![t] = Append(@, r)]
  OBVIOUS
<1>9. /\ tabs \in [Tables -> RowSeqs] /\ OncePlaced(tabs) /\ Apart(tabs, undo, stmt)
      /\ AllKeyed(tabs, undo, nextId + 1) /\ tables' = tabs
  BY <1>2, <1>4, <1>6, <1>7, <1>8, NewRowApart
<1>10. tabs[t] = Append(tables[t], Row(nextId, Head(me.todo)))
  BY <1>3, <1>4, <1>6, <1>8 DEF TypesOK
<1>11. PICK to : to = IF frames < need THEN [kind |-> "failed"] ELSE [me EXCEPT !.todo = Tail(me.todo)]
  OBVIOUS
<1>12. stmt' = [stmt EXCEPT ![s] = to]
  BY <1>1, <1>2, <1>11 DEF Fails, Rest
<1>13. to \in Stmts /\ to.kind # "rollback" /\ ~Pending(to) /\ Progress(tabs, to, nextId + 1)
  <2>1. CASE frames < need
    BY <1>11, <2>1, Failed
  <2>2. CASE ~(frames < need)
    <3>1. to = [me EXCEPT !.todo = Tail(me.todo)]
      BY <1>11, <2>2
    <3>2. to \in InsertStmts /\ to.kind = "insert" /\ to.table = t
      BY <1>1, <1>4, <1>5, <3>1, InsertRest
    <3>3. Inserting(tables[t], me, nextId)
      <4>1. Progress(tables, stmt[s], nextId)
        BY DEF TsIInv
      <4>2. QED
        BY <1>1, <1>2, <4>1 DEF Progress
    <3>4. Inserting(Append(tables[t], Row(nextId, Head(me.todo))), to, nextId + 1)
      <4>1. PICK rows : rows = tables[t]
        OBVIOUS
      <4>2. rows \in RowSeqs /\ nextId \in Nat /\ Inserting(rows, me, nextId)
        BY <1>3, <1>4, <3>3, <4>1
      <4>3. Inserting(Append(rows, Row(nextId, Head(me.todo))), [me EXCEPT !.todo = Tail(me.todo)], nextId + 1)
        BY <1>2, <1>4, <4>2, InsertProgress
      <4>4. QED
        BY <3>1, <4>1, <4>3
    <3>5. Progress(tabs, to, nextId + 1)
      BY <1>10, <3>2, <3>4 DEF Progress
    <3>6. to \in Stmts /\ ~Pending(to) /\ to.kind # "rollback"
      BY <3>2 DEF Stmts, Pending
    <3>7. QED
      BY <3>5, <3>6
  <2>3. QED
    BY <2>1, <2>2
<1>14. indexed' \subseteq Tables /\ frames' \in 0 .. load.frames /\ nextId' \in Nat \ {0} /\ nextId' = nextId + 1
  <2>1. need \in Nat
    BY <1>1
  <2>2. Taken(need) \in 0 .. load.frames
    BY <1>3, <2>1, TakenFrames
  <2>3. indexed \subseteq Tables
    BY <1>3 DEF TypesOK
  <2>4. QED
    BY <1>2, <1>3, <1>4, <2>2, <2>3
<1>15. stmt[s].kind = "insert"
  BY <1>1, <1>2
<1>16. /\ tables' \in [Tables -> RowSeqs] /\ OncePlaced(tables') /\ Apart(tables', undo, stmt)
       /\ AllKeyed(tables', undo, nextId') /\ Progress(tables', to, nextId')
  BY <1>9, <1>13, <1>14
<1>17. QED
  BY <1>2, <1>12, <1>13, <1>14, <1>15, <1>16, WriteStep

\* Rows that keep their keys stay apart.
LEMMA SameKeysApart ==
    ASSUME TsIInv, NEW tabs \in [Tables -> RowSeqs],
           \A u \in Tables : DOMAIN tabs[u] = DOMAIN tables[u],
           \A u \in Tables : \A k \in DOMAIN tables[u] :
               tabs[u][k].id = tables[u][k].id /\ (tabs[u][k] # Hole => tables[u][k] # Hole)
    PROVE  OncePlaced(tabs) /\ Apart(tabs, undo, stmt) /\ AllKeyed(tabs, undo, nextId)
<1>1. AllKeyed(tables, undo, nextId) /\ OncePlaced(tables) /\ Apart(tables, undo, stmt)
  BY DEF TsIInv
<1>2. OncePlaced(tabs)
  <2>1. SUFFICES ASSUME NEW u \in Tables, NEW v \in Tables, NEW j \in DOMAIN tabs[u], NEW k \in DOMAIN tabs[v],
                        SameRow(tabs[u][j], tabs[v][k])
                 PROVE  u = v /\ j = k
    BY DEF OncePlaced
  <2>2. SameRow(tables[u][j], tables[v][k])
    BY <2>1 DEF SameRow
  <2>3. QED
    BY <1>1, <2>2 DEF OncePlaced
<1>3. Apart(tabs, undo, stmt)
  <2>1. SUFFICES ASSUME NEW u \in Tables, NEW o \in Sessions, NEW k \in DOMAIN tabs[u], NEW i \in Live(stmt[o], undo[o]),
                        SameRow(tabs[u][k], undo[o][i].row)
                 PROVE  FALSE
    BY DEF Apart
  <2>2. SameRow(tables[u][k], undo[o][i].row)
    BY <2>1 DEF SameRow
  <2>3. QED
    BY <1>1, <2>2 DEF Apart
<1>4. AllKeyed(tabs, undo, nextId)
  <2>1. ASSUME NEW u \in Tables, NEW k \in DOMAIN tabs[u]
        PROVE  Keyed(tabs[u][k], nextId)
    <3>1. Keyed(tables[u][k], nextId)
      BY <1>1 DEF AllKeyed
    <3>2. QED
      BY <3>1 DEF Keyed
  <2>2. QED
    BY <1>1, <2>1 DEF AllKeyed
<1>5. QED
  BY <1>2, <1>3, <1>4

\* An UPDATE that changed one more row is one row further.
LEMMA UpdateProgress ==
    ASSUME NEW me \in UpdateStmts, NEW rows \in RowSeqs, Updating(rows, me), NEW i \in me.todo
    PROVE  /\ i \in Nat /\ i + 1 \in 1 .. Len(rows) /\ rows[i + 1] = me.start[i + 1] /\ me.start[i + 1].val \in me.where
           /\ Updating([rows EXCEPT ![i + 1] = Assigned(me.start[i + 1], me.val)], [me EXCEPT !.todo = me.todo \ {i}])
<1>1. PICK to, p, rows2 : /\ to = [me EXCEPT !.todo = me.todo \ {i}] /\ p = i + 1
                          /\ rows2 = [rows EXCEPT ![p] = Assigned(me.start[p], me.val)]
  OBVIOUS
<1>2. rows \in Seq(Rows) /\ me.start \in Seq(Rows) /\ me.todo \subseteq Nat /\ Len(rows) \in Nat
  BY DEF RowSeqs, UpdateStmts
<1>3. /\ me.todo \subseteq Found(me) /\ Len(rows) = Len(me.start)
      /\ \A k \in 1 .. Len(rows) :
           rows[k] = IF k - 1 \in Found(me) \ me.todo THEN Assigned(me.start[k], me.val) ELSE me.start[k]
  BY DEF Updating
<1>4. i \in Nat /\ i \in 0 .. (Len(rows) - 1) /\ me.start[p].val \in me.where
  BY <1>1, <1>2, <1>3 DEF Found
<1>5. p \in 1 .. Len(rows) /\ p - 1 = i
  BY <1>1, <1>2, <1>4
<1>6. rows[p] = me.start[p]
  BY <1>3, <1>5
<1>7. /\ to.todo = me.todo \ {i} /\ to.start = me.start /\ to.where = me.where /\ to.val = me.val
  <2>1. me.todo \ {i} \in SUBSET Nat
    BY <1>2
  <2>2. QED
    BY <1>1, <2>1, UpdateRest
<1>8. Found(to) = Found(me)
  BY <1>7 DEF Found
<1>9. Len(rows2) = Len(rows)
  BY <1>1, <1>2, <1>5
<1>10. ASSUME NEW k \in 1 .. Len(rows)
       PROVE  rows2[k] = IF k - 1 \in Found(me) \ (me.todo \ {i}) THEN Assigned(me.start[k], me.val) ELSE me.start[k]
  <2>1. CASE k = p
    <3>1. k - 1 = i /\ i \in Found(me)
      BY <1>3, <1>5, <2>1
    <3>2. rows2[k] = Assigned(me.start[k], me.val)
      BY <1>1, <1>2, <1>5, <2>1
    <3>3. QED
      BY <3>1, <3>2
  <2>2. CASE k # p
    <3>1. k - 1 # i
      BY <1>1, <1>4, <2>2
    <3>2. rows2[k] = rows[k]
      BY <1>1, <1>2, <1>5, <2>2
    <3>3. QED
      BY <1>3, <3>1, <3>2
  <2>3. QED
    BY <2>1, <2>2
<1>11. Updating(rows2, to)
  BY <1>3, <1>7, <1>8, <1>9, <1>10 DEF Updating
<1>12. QED
  BY <1>1, <1>4, <1>5, <1>6, <1>11

\* An UPDATE changes a row, which keeps its key.
LEMMA UpdateRowStep ==
    ASSUME TsIInv, NEW s \in Sessions, UpdateRow(s), load' = load
    PROVE  TsIInv'
<1>1. PICK me, t : me = stmt[s] /\ t = me.table
  OBVIOUS
<1>2. me.kind = "update" /\ UNCHANGED <<load, created, indexed, inTx, undo, nextId, atBegin>>
  BY <1>1 DEF UpdateRow
<1>3. PICK i : /\ i \in me.todo
               /\ IF i >= Len(tables[t])
                  THEN stmt' = Fails(s) /\ UNCHANGED <<tables, frames, effects>>
                  ELSE /\ tables' = [tables EXCEPT ![t][i + 1] = Assigned(me.start[i + 1], me.val)]
                       /\ frames' = Taken(1)
                       /\ stmt' = IF frames = 0 THEN Fails(s) ELSE Rest(s, me.todo \ {i})
                       /\ Done(s, "update")
  BY <1>1 DEF UpdateRow
<1>4. TypesOK /\ me \in Stmts /\ stmt \in [Sessions -> Stmts] /\ tables \in [Tables -> RowSeqs]
  BY <1>1 DEF TsIInv, TypesOK
<1>5. me \in UpdateStmts /\ t \in Tables /\ tables[t] \in RowSeqs
  <2>1. me \in UpdateStmts
    BY <1>2, <1>4, StmtKinds
  <2>2. t \in Tables
    BY <1>1, <2>1 DEF UpdateStmts
  <2>3. QED
    BY <1>4, <2>1, <2>2
<1>6. Updating(tables[t], me)
  <2>1. Progress(tables, stmt[s], nextId)
    BY DEF TsIInv
  <2>2. QED
    BY <1>1, <1>2, <2>1 DEF Progress
<1>7. PICK rows, p, r, to0 : /\ rows = tables[t] /\ p = i + 1 /\ r = Assigned(me.start[p], me.val)
                             /\ to0 = [me EXCEPT !.todo = me.todo \ {i}]
  OBVIOUS
<1>8. /\ rows \in RowSeqs /\ Len(rows) \in Nat /\ i \in Nat /\ p \in 1 .. Len(rows) /\ rows[p] = me.start[p]
      /\ me.start[p].val \in me.where /\ Updating([rows EXCEPT ![p] = r], to0)
  <2>1. rows \in RowSeqs /\ Updating(rows, me)
    BY <1>5, <1>6, <1>7
  <2>2. /\ i \in Nat /\ i + 1 \in 1 .. Len(rows) /\ rows[i + 1] = me.start[i + 1] /\ me.start[i + 1].val \in me.where
        /\ Updating([rows EXCEPT ![i + 1] = Assigned(me.start[i + 1], me.val)], [me EXCEPT !.todo = me.todo \ {i}])
    BY <1>3, <1>5, <2>1, UpdateProgress
  <2>3. Len(rows) \in Nat
    BY <2>1 DEF RowSeqs
  <2>4. QED
    BY <1>7, <2>1, <2>2, <2>3
<1>9. ~(i >= Len(tables[t]))
  BY <1>7, <1>8
<1>10. /\ tables' = [tables EXCEPT ![t][p] = r] /\ frames' = Taken(1)
       /\ stmt' = (IF frames = 0 THEN Fails(s) ELSE Rest(s, me.todo \ {i})) /\ Done(s, "update")
  BY <1>3, <1>7, <1>9
<1>11. rows[p] \in Rows /\ r \in Rows /\ r.id = rows[p].id /\ rows[p] # Hole
  <2>1. rows[p] \in Rows
    BY <1>8 DEF RowSeqs
  <2>2. me.val \in Vals /\ me.where \subseteq Vals
    BY <1>5 DEF UpdateStmts
  <2>3. rows[p].val # 0
    BY <1>8, <2>2, TableSessionAssumption
  <2>4. rows[p] # Hole
    BY <2>3, HoleIsRow
  <2>5. r = [rows[p] EXCEPT !.val = me.val]
    BY <1>7, <1>8 DEF Assigned
  <2>6. QED
    BY <2>1, <2>2, <2>4, <2>5 DEF Rows
<1>12. PICK tabs : tabs = [tables EXCEPT ![t] = [rows EXCEPT ![p] = r]]
  OBVIOUS
<1>13. tables' = tabs
  BY <1>7, <1>10, <1>12
<1>14. [rows EXCEPT ![p] = r] \in RowSeqs /\ DOMAIN [rows EXCEPT ![p] = r] = DOMAIN rows
  BY <1>8, <1>11 DEF RowSeqs
<1>15. tabs \in [Tables -> RowSeqs] /\ tabs[t] = [rows EXCEPT ![p] = r] /\ \A u \in Tables : u # t => tabs[u] = tables[u]
  BY <1>4, <1>5, <1>12, <1>14
<1>16. \A u \in Tables : DOMAIN tabs[u] = DOMAIN tables[u]
  BY <1>7, <1>14, <1>15
<1>17. ASSUME NEW u \in Tables, NEW k \in DOMAIN tables[u]
       PROVE  tabs[u][k].id = tables[u][k].id /\ (tabs[u][k] # Hole => tables[u][k] # Hole)
  <2>1. CASE u = t /\ k = p
    BY <1>7, <1>11, <1>15, <2>1
  <2>2. CASE ~(u = t /\ k = p)
    BY <1>7, <1>15, <2>2
  <2>3. QED
    BY <2>1, <2>2
<1>18. OncePlaced(tabs) /\ Apart(tabs, undo, stmt) /\ AllKeyed(tabs, undo, nextId)
  BY <1>15, <1>16, <1>17, SameKeysApart
<1>19. PICK to : to = IF frames = 0 THEN [kind |-> "failed"] ELSE to0
  OBVIOUS
<1>20. stmt' = [stmt EXCEPT ![s] = to]
  BY <1>1, <1>7, <1>10, <1>19 DEF Fails, Rest
<1>21. to \in Stmts /\ to.kind # "rollback" /\ ~Pending(to) /\ Progress(tabs, to, nextId)
  <2>1. CASE frames = 0
    BY <1>19, <2>1, Failed
  <2>2. CASE frames # 0
    <3>1. me.todo \ {i} \in SUBSET Nat
      BY <1>5 DEF UpdateStmts
    <3>2. to0 \in UpdateStmts /\ to0.kind = "update" /\ to0.table = t
      BY <1>1, <1>5, <1>7, <3>1, UpdateRest
    <3>3. Progress(tabs, to0, nextId) /\ ~Pending(to0) /\ to0 \in Stmts
      BY <1>8, <1>15, <3>2 DEF Progress, Pending, Stmts
    <3>4. QED
      BY <1>19, <2>2, <3>2, <3>3
  <2>3. QED
    BY <2>1, <2>2
<1>22. indexed' \subseteq Tables /\ frames' \in 0 .. load.frames /\ nextId' \in Nat \ {0} /\ nextId' = nextId
  BY <1>2, <1>4, <1>10, TakenFrames DEF TypesOK
<1>23. /\ tables' \in [Tables -> RowSeqs] /\ OncePlaced(tables') /\ Apart(tables', undo, stmt)
       /\ AllKeyed(tables', undo, nextId') /\ Progress(tables', to, nextId')
  BY <1>13, <1>15, <1>18, <1>21, <1>22
<1>24. stmt[s].kind = "update" /\ UNCHANGED <<load, created, inTx, undo, atBegin>>
  BY <1>1, <1>2
<1>25. QED
  BY <1>10, <1>20, <1>21, <1>22, <1>23, <1>24, WriteStep

-----------------------------------------------------------------------------
(* DeleteOperator *)

\* The row to delete next is where the scan found it, and without it the others stay
\* where they have to be.
LEMMA DeleteProgress ==
    ASSUME NEW me \in DeleteStmts, NEW rows \in RowSeqs, Deleting(rows, me), NEW i, DeleteNext(me.todo, i)
    PROVE  /\ i \in Nat /\ i + 1 \in 1 .. Len(rows)
           /\ Deleting(RemoveAt(rows, i + 1), [me EXCEPT !.todo = me.todo \ {i}, !.logged = FALSE])
<1>1. PICK to, p, rows2, gone : /\ to = [me EXCEPT !.todo = me.todo \ {i}, !.logged = FALSE]
                                /\ p = i + 1 /\ rows2 = RemoveAt(rows, p) /\ gone = Found(me) \ me.todo
  OBVIOUS
<1>2. rows \in Seq(Rows) /\ me.start \in Seq(Rows) /\ me.todo \subseteq Nat /\ Len(rows) \in Nat /\ Len(me.start) \in Nat
  BY DEF RowSeqs, DeleteStmts
<1>3. PICK R, n : R = Remaining(me) /\ n = Len(me.start)
  OBVIOUS
<1>4. /\ me.todo \subseteq Found(me) /\ (\A g \in gone, j \in me.todo : j < g) /\ Len(rows) = Cardinality(R)
      /\ \A k \in R : rows[Rank(R, k)] = me.start[k]
  BY <1>1, <1>3 DEF Deleting
<1>5. i \in me.todo /\ \A j \in me.todo : j <= i
  BY DEF DeleteNext
<1>6. i \in Nat /\ i \in 0 .. (n - 1) /\ i \in Found(me)
  BY <1>2, <1>3, <1>4, <1>5 DEF Found
<1>7. p \in Nat \ {0} /\ p \in 1 .. n /\ p - 1 = i /\ n \in Nat
  BY <1>1, <1>2, <1>3, <1>6
<1>8. R = {k \in 1 .. n : k - 1 \notin gone}
  BY <1>1, <1>3 DEF Remaining
<1>9. IsFiniteSet(R) /\ R \subseteq Nat \ {0}
  <2>1. IsFiniteSet(1 .. n)
    BY <1>7, FS_Interval
  <2>2. R \in SUBSET (1 .. n)
    BY <1>8
  <2>3. IsFiniteSet(R)
    BY <2>1, <2>2, FS_Subset
  <2>4. QED
    BY <1>7, <2>2, <2>3
<1>10. ASSUME NEW k \in 1 .. p
       PROVE  k \in R
  <2>1. k \in 1 .. n /\ k - 1 <= i /\ k - 1 \in Nat
    BY <1>6, <1>7
  <2>2. k - 1 \notin gone
    <3>1. SUFFICES ASSUME k - 1 \in gone
                   PROVE  FALSE
      OBVIOUS
    <3>2. i < k - 1
      BY <1>4, <1>5, <3>1
    <3>3. QED
      BY <1>6, <2>1, <3>2
  <2>3. QED
    BY <1>8, <2>1, <2>2
<1>11. 1 .. p \subseteq R /\ p \in R
  BY <1>7, <1>10
<1>12. Rank(R, p) = p
  BY <1>7, <1>9, <1>11, RankOfFirst
<1>13. p <= Len(rows)
  <2>1. Rank(R, p) <= Cardinality(R)
    BY <1>9, RankIsCount
  <2>2. QED
    BY <1>4, <1>12, <2>1
<1>14. PICK l : l = Len(rows)
  OBVIOUS
<1>15. l \in Nat /\ p \in 1 .. l
  BY <1>2, <1>7, <1>13, <1>14
<1>16. /\ rows2 \in Seq(Rows) /\ Len(rows2) = l - 1
       /\ \A k \in 1 .. (l - 1) : rows2[k] = IF k < p THEN rows[k] ELSE rows[k + 1]
  <2>1. p \in 1 .. Len(rows)
    BY <1>14, <1>15
  <2>2. /\ RemoveAt(rows, p) \in Seq(Rows) /\ Len(RemoveAt(rows, p)) = Len(rows) - 1
        /\ \A k \in 1 .. (Len(rows) - 1) : RemoveAt(rows, p)[k] = IF k < p THEN rows[k] ELSE rows[k + 1]
    BY <1>2, <2>1, RemovedAt
  <2>3. QED
    BY <1>1, <1>14, <2>2
<1>17. to.todo = me.todo \ {i} /\ to.start = me.start /\ to.where = me.where
  <2>1. me.todo \ {i} \in SUBSET Nat
    BY <1>2
  <2>2. QED
    BY <1>1, <2>1, DeleteRest
<1>18. Found(to) = Found(me)
  BY <1>17 DEF Found
<1>19. Found(to) \ to.todo = gone \cup {i}
  BY <1>1, <1>5, <1>6, <1>17, <1>18
<1>20. Remaining(to) = R \ {p}
  <2>1. Remaining(to) = {k \in 1 .. n : k - 1 \notin gone \cup {i}}
    BY <1>3, <1>17, <1>19 DEF Remaining
  <2>2. \A k \in 1 .. n : k - 1 = i <=> k = p
    BY <1>1, <1>6
  <2>3. QED
    BY <1>8, <2>1, <2>2
<1>21. Cardinality(R \ {p}) = l - 1
  <2>1. Cardinality(R \ {p}) = Cardinality(R) - 1
    BY <1>9, <1>11, FS_RemoveElement
  <2>2. QED
    BY <1>4, <1>14, <2>1
<1>22. ASSUME NEW k \in R \ {p}
       PROVE  rows2[Rank(R \ {p}, k)] = me.start[k]
  <2>1. k \in Nat \ {0} /\ k \in R /\ k # p
    BY <1>9
  <2>2. Rank(R \ {p}, k) = IF k < p THEN Rank(R, k) ELSE Rank(R, k) - 1
    <3>1. R \subseteq Nat /\ k \in Nat
      BY <1>9, <2>1
    <3>2. QED
      BY <1>9, <1>11, <3>1, RankWithout
  <2>3. PICK q : q = Rank(R, k)
    OBVIOUS
  <2>4. rows[q] = me.start[k]
    BY <1>4, <2>1, <2>3
  <2>5. q \in Nat /\ q <= l
    <3>1. Rank(R, k) \in Nat /\ Rank(R, k) <= Cardinality(R)
      BY <1>9, RankIsCount
    <3>2. QED
      BY <1>4, <1>14, <2>3, <3>1
  <2>6. CASE k < p
    <3>1. 1 .. k \subseteq R
      BY <1>7, <1>11, <2>1, <2>6
    <3>2. q = k
      BY <1>9, <2>1, <2>3, <3>1, RankOfFirst
    <3>3. k \in 1 .. (l - 1)
      BY <1>7, <1>15, <2>1, <2>6
    <3>4. rows2[k] = rows[k]
      BY <1>16, <2>6, <3>3
    <3>5. QED
      BY <2>2, <2>3, <2>4, <2>6, <3>2, <3>4
  <2>7. CASE k > p
    <3>1. q > p
      BY <1>7, <1>9, <1>11, <2>1, <2>3, <2>7, RankBehind
    <3>2. q - 1 \in 1 .. (l - 1) /\ ~(q - 1 < p) /\ (q - 1) + 1 = q
      BY <1>7, <1>15, <2>5, <3>1
    <3>3. rows2[q - 1] = rows[q]
      BY <1>16, <3>2
    <3>4. ~(k < p)
      BY <1>7, <2>1, <2>7
    <3>5. Rank(R \ {p}, k) = q - 1
      BY <2>2, <2>3, <3>4
    <3>6. QED
      BY <2>4, <3>3, <3>5
  <2>8. k < p \/ k > p
    BY <1>7, <2>1
  <2>9. QED
    BY <2>6, <2>7, <2>8, Zenon
<1>23. ASSUME NEW g \in gone \cup {i}, NEW j \in me.todo \ {i}
       PROVE  j < g
  <2>1. CASE g \in gone
    BY <1>4, <2>1
  <2>2. CASE g = i
    <3>1. j <= i /\ j # i /\ j \in Nat
      BY <1>2, <1>5
    <3>2. QED
      BY <1>6, <2>2, <3>1
  <2>3. QED
    BY <2>1, <2>2
<1>24. Deleting(rows2, to)
  <2>1. to.todo \subseteq Found(to)
    BY <1>4, <1>17, <1>18
  <2>2. \A g \in Found(to) \ to.todo, j \in to.todo : j < g
    BY <1>17, <1>19, <1>23
  <2>3. Len(rows2) = Cardinality(Remaining(to))
    BY <1>16, <1>20, <1>21
  <2>4. \A k \in Remaining(to) : rows2[Rank(Remaining(to), k)] = to.start[k]
    BY <1>17, <1>20, <1>22
  <2>5. QED
    BY <2>1, <2>2, <2>3, <2>4 DEF Deleting
<1>25. i + 1 \in 1 .. Len(rows)
  BY <1>1, <1>14, <1>15
<1>26. QED
  BY <1>1, <1>6, <1>24, <1>25

\* DeleteNext names one row.
LEMMA OneNext ==
    ASSUME NEW todo \in SUBSET Nat, NEW i, NEW j, DeleteNext(todo, i), DeleteNext(todo, j)
    PROVE  i = j
<1>1. i \in Nat /\ j \in Nat /\ i <= j /\ j <= i
  BY DEF DeleteNext
<1>2. QED
  BY <1>1

\* What is remembered.
LEMMA RememberedInfo ==
    ASSUME NEW s \in Sessions, NEW t \in Tables, NEW i \in Nat
    PROVE  /\ DOMAIN Remembered(s, t, i) = {i} \cup DOMAIN undo[s]
           /\ Remembered(s, t, i)[i] = [table |-> t, row |-> tables[t][i + 1]]
           /\ \A j \in DOMAIN undo[s] : j # i => Remembered(s, t, i)[j] = undo[s][j]
  BY DEF Remembered, Restorable

\* A DELETE that has logged its row is the same statement.
LEMMA DeleteLogged ==
    ASSUME NEW me \in DeleteStmts
    PROVE  LET to == [me EXCEPT !.logged = TRUE] IN
           /\ to \in DeleteStmts /\ to.kind = "delete" /\ to.logged /\ to.todo = me.todo
           /\ to.table = me.table /\ to.start = me.start /\ to.where = me.where
  BY DEF DeleteStmts

\* What a DELETE in progress has to do.
LEMMA DeleteAt ==
    ASSUME TsIInv, NEW s \in Sessions, stmt[s].kind = "delete", NEW i, DeleteNext(stmt[s].todo, i)
    PROVE  /\ stmt[s] \in DeleteStmts /\ stmt[s].table \in Tables /\ tables[stmt[s].table] \in RowSeqs
           /\ stmt[s].todo \in SUBSET Nat
           /\ i \in Nat /\ i \in stmt[s].todo /\ i + 1 \in 1 .. Len(tables[stmt[s].table])
           /\ Deleting(RemoveAt(tables[stmt[s].table], i + 1),
                       [stmt[s] EXCEPT !.todo = stmt[s].todo \ {i}, !.logged = FALSE])
<1>1. stmt[s] \in Stmts /\ tables \in [Tables -> RowSeqs]
  BY DEF TsIInv, TypesOK
<1>2. stmt[s] \in DeleteStmts
  BY <1>1, StmtKinds
<1>3. stmt[s].table \in Tables /\ stmt[s].todo \in SUBSET Nat
  BY <1>2 DEF DeleteStmts
<1>4. tables[stmt[s].table] \in RowSeqs
  BY <1>1, <1>3
<1>5. Deleting(tables[stmt[s].table], stmt[s])
  BY DEF TsIInv, Progress
<1>6. PICK me, rows : me = stmt[s] /\ rows = tables[stmt[s].table]
  OBVIOUS
<1>7. me \in DeleteStmts /\ rows \in RowSeqs /\ Deleting(rows, me) /\ DeleteNext(me.todo, i)
  BY <1>2, <1>4, <1>5, <1>6
<1>8. /\ i \in Nat /\ i + 1 \in 1 .. Len(rows)
      /\ Deleting(RemoveAt(rows, i + 1), [me EXCEPT !.todo = me.todo \ {i}, !.logged = FALSE])
  BY <1>7, DeleteProgress
<1>9. i \in stmt[s].todo
  BY DEF DeleteNext
<1>10. QED
  BY <1>2, <1>3, <1>4, <1>6, <1>8, <1>9

\* log_delete: what the transaction remembers is still in its table.
LEMMA DeleteLogStep ==
    ASSUME TsIInv, NEW s \in Sessions, DeleteLog(s), load' = load
    PROVE  TsIInv'
<1>1. PICK me, t, to : me = stmt[s] /\ t = me.table /\ to = [me EXCEPT !.logged = TRUE]
  OBVIOUS
<1>2. /\ me.kind = "delete" /\ ~me.logged /\ stmt' = [stmt EXCEPT ![s] = to]
      /\ UNCHANGED <<load, tables, created, indexed, frames, inTx, nextId, atBegin, effects>>
  BY <1>1 DEF DeleteLog
<1>3. PICK i : /\ DeleteNext(me.todo, i)
               /\ undo' = IF inTx[s] /\ i < Len(tables[t]) THEN [undo EXCEPT ![s] = Remembered(s, t, i)] ELSE undo
  BY <1>1 DEF DeleteLog
<1>4. /\ me \in DeleteStmts /\ t \in Tables /\ tables[t] \in RowSeqs /\ me.todo \in SUBSET Nat
      /\ i \in Nat /\ i \in me.todo /\ i + 1 \in 1 .. Len(tables[t])
  BY <1>1, <1>2, <1>3, DeleteAt
<1>5. TypesOK /\ Len(tables[t]) \in Nat /\ tables[t][i + 1] \in Rows
  BY <1>4 DEF TsIInv, RowSeqs
<1>6. undo' = IF inTx[s] THEN [undo EXCEPT ![s] = Remembered(s, t, i)] ELSE undo
  <2>1. i < Len(tables[t])
    BY <1>4, <1>5
  <2>2. QED
    BY <1>3, <2>1
<1>7. /\ to \in DeleteStmts /\ to.kind = "delete" /\ to.logged /\ to.todo = me.todo
      /\ to.table = t /\ to.start = me.start /\ to.where = me.where
  BY <1>1, <1>4, DeleteLogged
<1>8. stmt[s] # NoStmt /\ s \in load.sessions /\ \A o \in Sessions : o # s => stmt[o] = NoStmt
  <2>1. stmt[s] # NoStmt
    BY <1>1, <1>2 DEF NoStmt
  <2>2. QED
    BY <2>1, Waiting
<1>9. /\ load' = load /\ tables' = tables /\ created' = created /\ indexed' = indexed /\ frames' = frames
      /\ inTx' = inTx /\ nextId' = nextId /\ atBegin' = atBegin /\ effects' = effects
  BY <1>2
<1>10. stmt'[s] = to /\ \A o \in Sessions : o # s => stmt'[o] = stmt[o]
  BY <1>2, <1>5 DEF TypesOK
<1>11. /\ DOMAIN undo' = Sessions /\ undo'[s] = (IF inTx[s] THEN Remembered(s, t, i) ELSE undo[s])
       /\ \A o \in Sessions : o # s => undo'[o] = undo[o]
  BY <1>5, <1>6 DEF TypesOK
<1>12. /\ DOMAIN Remembered(s, t, i) = {i} \cup DOMAIN undo[s]
       /\ Remembered(s, t, i)[i] = [table |-> t, row |-> tables[t][i + 1]]
       /\ \A j \in DOMAIN undo[s] : j # i => Remembered(s, t, i)[j] = undo[s][j]
  BY <1>4, RememberedInfo
<1>13. \A j \in DOMAIN undo'[s] : j # i => j \in DOMAIN undo[s] /\ undo'[s][j] = undo[s][j]
  BY <1>11, <1>12
<1>14. inTx[s] => i \in DOMAIN undo'[s] /\ undo'[s][i] = [table |-> t, row |-> tables[t][i + 1]]
  BY <1>11, <1>12
<1>15. ~inTx[s] => undo'[s] = undo[s] /\ undo[s] = NoUndo /\ effects[s] = <<>>
  BY <1>11 DEF TsIInv, Serial
<1>16. ASSUME NEW j \in DOMAIN undo'[s]
       PROVE  j \in Nat /\ undo'[s][j] \in UndoInfo
              /\ \/ j # i /\ j \in DOMAIN undo[s] /\ undo'[s][j] = undo[s][j]
                 \/ undo'[s][j].row = tables[t][i + 1]
  <2>1. CASE j # i
    BY <1>5, <1>13, <2>1 DEF TypesOK
  <2>2. CASE j = i
    <3>1. inTx[s]
      BY <1>15, <2>2 DEF NoUndo
    <3>2. QED
      BY <1>4, <1>5, <1>14, <2>2, <3>1 DEF UndoInfo
  <2>3. QED
    BY <2>1, <2>2
<1>17. TypesOK'
  <2>1. to \in Stmts
    BY <1>7 DEF Stmts
  <2>2. stmt' \in [Sessions -> Stmts]
    BY <1>2, <1>5, <2>1 DEF TypesOK
  <2>3. \A o \in Sessions : DOMAIN undo'[o] \subseteq Nat /\ \A j \in DOMAIN undo'[o] : undo'[o][j] \in UndoInfo
    <3>1. SUFFICES ASSUME NEW o \in Sessions
                   PROVE  DOMAIN undo'[o] \subseteq Nat /\ \A j \in DOMAIN undo'[o] : undo'[o][j] \in UndoInfo
      OBVIOUS
    <3>2. CASE o = s
      BY <1>16, <3>2
    <3>3. CASE o # s
      BY <1>5, <1>11, <3>3 DEF TypesOK
    <3>4. QED
      BY <3>2, <3>3
  <2>4. QED
    BY <1>5, <1>9, <1>11, <2>2, <2>3 DEF TypesOK
<1>18. OthersWait(s, stmt', inTx', undo', effects')
  BY <1>8, <1>9, <1>10, <1>11 DEF OthersWait
<1>19. Pending(to) /\ ~Pending(me)
  BY <1>2, <1>4, <1>7 DEF Pending
<1>20. /\ Live(me, undo[s]) = DOMAIN undo[s]
       /\ \A j \in Live(to, undo'[s]) : j \in DOMAIN undo'[s] /\ j # i
  BY <1>2, <1>3, <1>7, <1>19 DEF Live
<1>21. \A j \in Live(to, undo'[s]) : j \in Live(me, undo[s]) /\ undo'[s][j] = undo[s][j]
  BY <1>13, <1>20
<1>22. Of(s, tables', nextId', stmt'[s], inTx'[s], undo'[s], atBegin'[s], effects'[s])
  <2>1. Of(s, tables, nextId, me, inTx[s], undo[s], atBegin[s], effects[s])
    BY <1>1, OfEach
  <2>2. Serial1(to, inTx[s], undo'[s], effects[s])
    BY <1>7, <1>15 DEF Serial1
  <2>3. Progress(tables, to, nextId)
    <3>1. Deleting(tables[t], me)
      BY <1>1, <1>2, <2>1 DEF Of, Progress
    <3>2. Found(to) = Found(me)
      BY <1>7 DEF Found
    <3>3. Remaining(to) = Remaining(me)
      BY <1>7, <3>2 DEF Remaining
    <3>4. Deleting(tables[t], to)
      BY <1>7, <3>1, <3>2, <3>3 DEF Deleting
    <3>5. QED
      BY <1>7, <3>4 DEF Progress
  <2>4. inTx[s] => Noted(tables, undo'[s], to)
    <3>1. \A j : DeleteNext(me.todo, j) => j = i
      BY <1>3, <1>4, OneNext
    <3>2. QED
      BY <1>7, <1>14, <3>1 DEF Noted
  <2>5. ASSUME inTx[s], load.sessions = {s}
        PROVE  Alone(tables, atBegin[s], undo'[s], to, effects[s])
    <3>1. Alone(tables, atBegin[s], undo[s], me, effects[s])
      BY <2>1, <2>5 DEF Of
    <3>2. effects[s] = <<>> => Untouched(tables, atBegin[s], Live(to, undo'[s]))
      BY <1>21, <3>1 DEF Alone, Untouched
    <3>3. QED
      BY <1>19, <3>2 DEF Alone
  <2>6. QED
    BY <1>9, <1>10, <2>2, <2>3, <2>4, <2>5 DEF Of
<1>23. OncePlaced(tables)' /\ OnceLive(undo, stmt)' /\ Apart(tables, undo, stmt)'
  BY <1>1, <1>9, <1>10, <1>18, <1>21, LessLiveOf
<1>24. AllKeyed(tables, undo, nextId)'
  <2>1. AllKeyed(tables, undo, nextId)
    BY DEF TsIInv
  <2>2. \A o \in Sessions : \A j \in DOMAIN undo'[o] : Keyed(undo'[o][j].row, nextId)
    <3>1. SUFFICES ASSUME NEW o \in Sessions, NEW j \in DOMAIN undo'[o]
                   PROVE  Keyed(undo'[o][j].row, nextId)
      OBVIOUS
    <3>2. CASE o = s
      <4>1. Keyed(tables[t][i + 1], nextId)
        <5>1. i + 1 \in DOMAIN tables[t]
          BY <1>4, <1>5 DEF RowSeqs
        <5>2. QED
          BY <1>4, <2>1, <5>1 DEF AllKeyed
      <4>2. \A k \in DOMAIN undo[s] : Keyed(undo[s][k].row, nextId)
        BY <2>1 DEF AllKeyed
      <4>3. QED
        BY <1>16, <3>2, <4>1, <4>2
    <3>3. CASE o # s
      BY <1>11, <2>1, <3>3 DEF AllKeyed
    <3>4. QED
      BY <3>2, <3>3
  <2>3. QED
    BY <1>9, <2>1, <2>2 DEF AllKeyed
<1>25. QED
  BY <1>8, <1>9, <1>17, <1>18, <1>22, <1>23, <1>24, SessionStep

\* Live undo information is what it was, but for the row at index i, which was copied.
Copied(s, t, i, st) ==
    \A o \in Sessions : \A j \in Live(st[o], undo[o]) :
        \/ j \in Live(stmt[o], undo[o])
        \/ o = s /\ j = i /\ undo[o][j].row = tables[t][i + 1]

\* A row that leaves its table for the undo information is still in one place.
LEMMA RowToUndo ==
    ASSUME TsIInv, NEW s \in Sessions, NEW t \in Tables, NEW i \in Nat, i + 1 \in 1 .. Len(tables[t]), NEW tabs,
           tabs = [tables EXCEPT ![t] = RemoveAt(@, i + 1)], NEW st, Copied(s, t, i, st)
    PROVE  /\ tabs \in [Tables -> RowSeqs]
           /\ OncePlaced(tabs) /\ OnceLive(undo, st) /\ Apart(tabs, undo, st) /\ AllKeyed(tabs, undo, nextId)
<1>1. PICK p, r : p = i + 1 /\ r = tables[t][p]
  OBVIOUS
<1>2. TypesOK /\ tables \in [Tables -> RowSeqs]
  BY DEF TsIInv, TypesOK
<1>3. \A u \in Tables : /\ tables[u] \in RowSeqs /\ Len(tables[u]) \in Nat /\ DOMAIN tables[u] = 1 .. Len(tables[u])
                        /\ \A k \in DOMAIN tables[u] : tables[u][k] \in Rows
  BY <1>2, RowsAre
<1>4. p \in 1 .. Len(tables[t]) /\ p \in DOMAIN tables[t]
  BY <1>1, <1>3
<1>5. PICK rows, rows2 : rows = tables[t] /\ rows2 = RemoveAt(rows, p)
  OBVIOUS
<1>6. /\ rows2 \in Seq(Rows) /\ Len(rows2) = Len(rows) - 1
      /\ \A k \in 1 .. (Len(rows) - 1) : rows2[k] = IF k < p THEN rows[k] ELSE rows[k + 1]
  <2>1. rows \in Seq(Rows) /\ p \in 1 .. Len(rows)
    BY <1>3, <1>4, <1>5 DEF RowSeqs
  <2>2. QED
    BY <1>5, <2>1, RemovedAt
<1>7. tabs = [tables EXCEPT ![t] = rows2]
  BY <1>1, <1>5
<1>8. tabs \in [Tables -> RowSeqs] /\ tabs[t] = rows2 /\ \A u \in Tables : u # t => tabs[u] = tables[u]
  BY <1>2, <1>6, <1>7 DEF RowSeqs
<1>9. PICK At : At = [k \in Nat |-> IF k < p THEN k ELSE k + 1]
  OBVIOUS
<1>10. ASSUME NEW u \in Tables, NEW k \in DOMAIN tabs[u]
       PROVE  \E m \in DOMAIN tables[u] : /\ tabs[u][k] = tables[u][m]
                                          /\ m = (IF u = t THEN At[k] ELSE k) /\ (u = t => m # p) /\ k \in Nat
  <2>1. CASE u = t
    <3>1. k \in 1 .. (Len(rows) - 1) /\ Len(rows) \in Nat
      BY <1>3, <1>5, <1>6, <1>8, <2>1
    <3>2. At[k] = (IF k < p THEN k ELSE k + 1) /\ k \in Nat /\ p \in Nat
      <4>1. k \in Nat /\ p \in Nat
        BY <1>1, <3>1
      <4>2. QED
        BY <1>9, <4>1
    <3>3. At[k] \in 1 .. Len(rows) /\ At[k] # p
      BY <1>4, <1>5, <3>1, <3>2
    <3>4. tabs[u][k] = rows[At[k]]
      BY <1>6, <1>8, <2>1, <3>1, <3>2
    <3>5. QED
      BY <1>3, <1>5, <2>1, <3>2, <3>3, <3>4
  <2>2. CASE u # t
    <3>1. tabs[u] = tables[u] /\ k \in Nat
      BY <1>3, <1>8, <2>2
    <3>2. QED
      BY <2>2, <3>1
  <2>3. QED
    BY <2>1, <2>2
<1>11. \A j, k \in Nat : At[j] = At[k] => j = k
  <2>1. p \in Nat
    BY <1>3, <1>4
  <2>2. SUFFICES ASSUME NEW j \in Nat, NEW k \in Nat, At[j] = At[k]
                 PROVE  j = k
    OBVIOUS
  <2>3. (IF j < p THEN j ELSE j + 1) = (IF k < p THEN k ELSE k + 1)
    BY <1>9, <2>2
  <2>4. QED
    BY <2>1, <2>3
<1>12. AllKeyed(tables, undo, nextId) /\ OncePlaced(tables) /\ OnceLive(undo, stmt) /\ Apart(tables, undo, stmt)
  BY DEF TsIInv
<1>13. OncePlaced(tabs)
  <2>1. SUFFICES ASSUME NEW u \in Tables, NEW v \in Tables, NEW j \in DOMAIN tabs[u], NEW k \in DOMAIN tabs[v],
                        SameRow(tabs[u][j], tabs[v][k])
                 PROVE  u = v /\ j = k
    BY DEF OncePlaced
  <2>2. PICK m \in DOMAIN tables[u] : tabs[u][j] = tables[u][m] /\ m = (IF u = t THEN At[j] ELSE j) /\ j \in Nat
    BY <1>10
  <2>3. PICK n \in DOMAIN tables[v] : tabs[v][k] = tables[v][n] /\ n = (IF v = t THEN At[k] ELSE k) /\ k \in Nat
    BY <1>10
  <2>4. SameRow(tables[u][m], tables[v][n])
    BY <2>1, <2>2, <2>3
  <2>5. u = v /\ m = n
    BY <1>12, <2>4 DEF OncePlaced
  <2>6. QED
    BY <1>11, <2>2, <2>3, <2>5
<1>14. ASSUME NEW u \in Tables, NEW k \in DOMAIN tabs[u], NEW o \in Sessions, NEW j \in Live(st[o], undo[o]),
              SameRow(tabs[u][k], undo[o][j].row)
       PROVE  FALSE
  <2>1. PICK m \in DOMAIN tables[u] : tabs[u][k] = tables[u][m] /\ (u = t => m # p)
    BY <1>10
  <2>2. SameRow(tables[u][m], undo[o][j].row)
    BY <1>14, <2>1
  <2>3. CASE j \in Live(stmt[o], undo[o])
    BY <1>12, <2>2, <2>3 DEF Apart
  <2>4. CASE undo[o][j].row = tables[t][i + 1]
    <3>1. SameRow(tables[u][m], tables[t][p])
      BY <1>1, <2>2, <2>4
    <3>2. u = t /\ m = p
      BY <1>4, <1>12, <3>1 DEF OncePlaced
    <3>3. QED
      BY <2>1, <3>2
  <2>5. QED
    BY <2>3, <2>4 DEF Copied
<1>15. Apart(tabs, undo, st)
  BY <1>14 DEF Apart
<1>16. ASSUME NEW o \in Sessions, NEW j \in Live(stmt[o], undo[o])
       PROVE  ~SameRow(undo[o][j].row, r) /\ ~SameRow(r, undo[o][j].row)
  <2>1. ~SameRow(r, undo[o][j].row)
    BY <1>1, <1>4, <1>12 DEF Apart
  <2>2. j \in DOMAIN undo[o]
    BY LiveIsRemembered
  <2>3. Keyed(undo[o][j].row, nextId) /\ Keyed(r, nextId)
    BY <1>1, <1>4, <1>12, <2>2 DEF AllKeyed
  <2>4. nextId \in Nat
    BY DEF TsIInv, TypesOK
  <2>5. QED
    BY <2>1, <2>3, <2>4, HoleIsRow DEF SameRow, Keyed
<1>17. OnceLive(undo, st)
  <2>1. SUFFICES ASSUME NEW a \in Sessions, NEW o \in Sessions, NEW j \in Live(st[a], undo[a]), NEW k \in Live(st[o], undo[o]),
                        SameRow(undo[a][j].row, undo[o][k].row)
                 PROVE  a = o /\ j = k
    BY DEF OnceLive
  <2>2. CASE j \in Live(stmt[a], undo[a]) /\ k \in Live(stmt[o], undo[o])
    BY <1>12, <2>1, <2>2 DEF OnceLive
  <2>3. CASE j \in Live(stmt[a], undo[a]) /\ k \notin Live(stmt[o], undo[o])
    BY <1>1, <1>16, <2>1, <2>3 DEF Copied
  <2>4. CASE j \notin Live(stmt[a], undo[a]) /\ k \in Live(stmt[o], undo[o])
    BY <1>1, <1>16, <2>1, <2>4 DEF Copied
  <2>5. CASE j \notin Live(stmt[a], undo[a]) /\ k \notin Live(stmt[o], undo[o])
    BY <2>5 DEF Copied
  <2>6. QED
    BY <2>2, <2>3, <2>4, <2>5
<1>18. AllKeyed(tabs, undo, nextId)
  <2>1. ASSUME NEW u \in Tables, NEW k \in DOMAIN tabs[u]
        PROVE  Keyed(tabs[u][k], nextId)
    BY <1>10, <1>12 DEF AllKeyed
  <2>2. QED
    BY <1>12, <2>1 DEF AllKeyed
<1>19. QED
  BY <1>8, <1>13, <1>15, <1>17, <1>18

\* delete_row: the row leaves its table; the transaction remembers it.
LEMMA DeleteRowStep ==
    ASSUME TsIInv, NEW s \in Sessions, DeleteRow(s), load' = load
    PROVE  TsIInv'
<1>1. PICK me, t : me = stmt[s] /\ t = me.table
  OBVIOUS
<1>2. me.kind = "delete" /\ me.logged /\ UNCHANGED <<load, created, indexed, frames, inTx, undo, nextId, atBegin>>
  BY <1>1 DEF DeleteRow
<1>3. PICK i : /\ DeleteNext(me.todo, i)
               /\ IF i >= Len(tables[t]) THEN stmt' = Fails(s) /\ UNCHANGED <<tables, effects>>
                  ELSE /\ tables' = [tables EXCEPT ![t] = RemoveAt(@, i + 1)]
                       /\ stmt' \in {[stmt EXCEPT ![s].todo = @ \ {i}, ![s].logged = FALSE]}
                                    \cup (IF load.ioErrors THEN {Fails(s)} ELSE {})
                       /\ Done(s, "delete")
  BY <1>1 DEF DeleteRow
<1>4. /\ me \in DeleteStmts /\ t \in Tables /\ tables[t] \in RowSeqs /\ me.todo \in SUBSET Nat
      /\ i \in Nat /\ i \in me.todo /\ i + 1 \in 1 .. Len(tables[t])
      /\ Deleting(RemoveAt(tables[t], i + 1), [me EXCEPT !.todo = me.todo \ {i}, !.logged = FALSE])
  BY <1>1, <1>2, <1>3, DeleteAt
<1>5. TypesOK /\ Len(tables[t]) \in Nat /\ stmt \in [Sessions -> Stmts] /\ tables \in [Tables -> RowSeqs]
  BY <1>4 DEF TsIInv, TypesOK, RowSeqs
<1>6. ~(i >= Len(tables[t]))
  BY <1>4, <1>5
<1>7. PICK rest : rest = [me EXCEPT !.todo = me.todo \ {i}, !.logged = FALSE]
  OBVIOUS
<1>8. PICK to : to \in {rest, [kind |-> "failed"]} /\ stmt' = [stmt EXCEPT ![s] = to]
  <2>1. [stmt EXCEPT ![s].todo = @ \ {i}, ![s].logged = FALSE] = [stmt EXCEPT ![s] = rest]
    BY <1>1, <1>5, <1>7
  <2>2. Fails(s) = [stmt EXCEPT ![s] = [kind |-> "failed"]]
    BY DEF Fails
  <2>3. QED
    BY <1>3, <1>6, <2>1, <2>2
<1>9. /\ rest \in DeleteStmts /\ rest.kind = "delete" /\ rest.todo = me.todo \ {i} /\ rest.logged = FALSE
      /\ rest.table = t /\ rest.start = me.start /\ rest.where = me.where
  <2>1. PICK todo : todo = me.todo \ {i}
    OBVIOUS
  <2>2. me \in DeleteStmts /\ todo \in SUBSET Nat
    BY <1>4, <2>1
  <2>3. rest = [me EXCEPT !.todo = todo, !.logged = FALSE]
    BY <1>7, <2>1
  <2>4. /\ rest \in DeleteStmts /\ rest.kind = "delete" /\ rest.todo = todo /\ rest.logged = FALSE
        /\ rest.table = me.table /\ rest.start = me.start /\ rest.where = me.where
    BY <2>2, <2>3, DeleteRest
  <2>5. QED
    BY <1>1, <2>1, <2>4
<1>10. PICK tabs, info : tabs = [tables EXCEPT ![t] = RemoveAt(@, i + 1)] /\ info = undo[s]
  OBVIOUS
<1>11. tabs[t] = RemoveAt(tables[t], i + 1)
  BY <1>4, <1>5, <1>10
<1>12. to \in Stmts /\ to.kind # "rollback" /\ ~Pending(to) /\ Live(to, info) = DOMAIN info /\ Progress(tabs, to, nextId)
  <2>1. CASE to = [kind |-> "failed"]
    BY <2>1, Failed
  <2>2. CASE to = rest
    <3>1. Deleting(tabs[t], rest)
      BY <1>4, <1>7, <1>11
    <3>2. QED
      BY <1>9, <2>2, <3>1 DEF Stmts, Pending, Live, Progress
  <2>3. QED
    BY <1>8, <2>1, <2>2
<1>13. stmt[s] # NoStmt /\ s \in load.sessions /\ \A o \in Sessions : o # s => stmt[o] = NoStmt
  <2>1. stmt[s] # NoStmt
    BY <1>1, <1>2 DEF NoStmt
  <2>2. QED
    BY <2>1, Waiting
<1>14. Done(s, "delete") /\ tables' = tabs
  BY <1>3, <1>6, <1>10
<1>15. /\ load' = load /\ created' = created /\ indexed' = indexed /\ frames' = frames
       /\ inTx' = inTx /\ undo' = undo /\ nextId' = nextId /\ atBegin' = atBegin
       /\ effects' = [effects EXCEPT ![s] = IF inTx[s] THEN Append(@, "delete") ELSE @]
  BY <1>2, <1>14 DEF Done
<1>16. PICK done : done = effects[s]
  OBVIOUS
<1>17. /\ done \in Seq(Kinds) /\ Append(done, "delete") \in Seq(Kinds) /\ Append(done, "delete") # <<>>
       /\ Append(done, "delete") = <<"delete">> => done = <<>>
  <2>1. done \in Seq(Kinds) /\ "delete" \in Kinds
    BY <1>5, <1>16 DEF TypesOK, Kinds
  <2>2. QED
    BY <2>1, DoneMore
<1>18. /\ stmt'[s] = to /\ effects'[s] = (IF inTx[s] THEN Append(done, "delete") ELSE done)
       /\ \A o \in Sessions : o # s => stmt'[o] = stmt[o] /\ effects'[o] = effects[o]
  BY <1>5, <1>8, <1>15, <1>16 DEF TypesOK
<1>19. OthersWait(s, stmt', inTx', undo', effects')
  BY <1>13, <1>15, <1>18 DEF OthersWait
<1>20. Of(s, tables, nextId, me, inTx[s], info, atBegin[s], done)
  BY <1>1, <1>10, <1>16, OfEach
<1>21. Pending(me) /\ \A j \in me.todo : DeleteNext(me.todo, j) => j = i
  <2>1. Pending(me)
    BY <1>2, <1>4 DEF Pending
  <2>2. \A j : DeleteNext(me.todo, j) => j = i
    BY <1>3, <1>4, OneNext
  <2>3. QED
    BY <2>1, <2>2
<1>22. /\ \A j \in DOMAIN info : j # i => j \in Live(me, info)
       /\ i \notin Live(me, info)
  <2>1. \A j : DeleteNext(me.todo, j) => j \in me.todo
    BY DEF DeleteNext
  <2>2. QED
    BY <1>2, <1>3, <1>21, <2>1 DEF Live
<1>23. i \in DOMAIN info => inTx[s]
  <2>1. ~inTx[s] => info = NoUndo
    BY <1>20 DEF Of, Serial1
  <2>2. QED
    BY <2>1 DEF NoUndo
<1>24. inTx[s] => i \in DOMAIN info /\ info[i] = [table |-> t, row |-> tables[t][i + 1]]
  BY <1>1, <1>3, <1>4, <1>20, <1>21 DEF Of, Noted
<1>25. PICK st : st = stmt'
  OBVIOUS
<1>26. Copied(s, t, i, st)
  <2>1. SUFFICES ASSUME NEW o \in Sessions, NEW j \in Live(st[o], undo[o]), j \notin Live(stmt[o], undo[o])
                 PROVE  o = s /\ j = i /\ undo[o][j].row = tables[t][i + 1]
    BY DEF Copied
  <2>2. o = s
    BY <1>18, <1>25, <2>1
  <2>3. j \in DOMAIN info /\ j \notin Live(me, info)
    BY <1>1, <1>10, <1>12, <1>18, <1>25, <2>1, <2>2
  <2>4. j = i
    BY <1>22, <2>3
  <2>5. info[i] = [table |-> t, row |-> tables[t][i + 1]]
    BY <1>23, <1>24, <2>3, <2>4
  <2>6. QED
    BY <1>10, <2>2, <2>4, <2>5
<1>27. /\ tabs \in [Tables -> RowSeqs]
       /\ OncePlaced(tabs) /\ OnceLive(undo, st) /\ Apart(tabs, undo, st) /\ AllKeyed(tabs, undo, nextId)
  <2>1. t \in Tables /\ i \in Nat /\ i + 1 \in 1 .. Len(tables[t])
    BY <1>4
  <2>2. tabs = [tables EXCEPT ![t] = RemoveAt(@, i + 1)]
    BY <1>10
  <2>3. QED
    BY <1>26, <2>1, <2>2, RowToUndo
<1>28. OncePlaced(tables)' /\ OnceLive(undo, stmt)' /\ Apart(tables, undo, stmt)' /\ AllKeyed(tables, undo, nextId)'
  BY <1>14, <1>15, <1>25, <1>27
<1>29. TypesOK'
  <2>1. stmt' \in [Sessions -> Stmts] /\ effects' \in [Sessions -> Seq(Kinds)]
    BY <1>5, <1>8, <1>12, <1>15, <1>16, <1>17 DEF TypesOK
  <2>2. QED
    BY <1>5, <1>14, <1>15, <1>27, <2>1 DEF TypesOK
<1>30. Of(s, tables', nextId', stmt'[s], inTx'[s], undo'[s], atBegin'[s], effects'[s])
  <2>1. Serial1(to, inTx[s], info, effects'[s])
    BY <1>12, <1>18, <1>20 DEF Of, Serial1
  <2>2. Noted(tabs, info, to)
    BY <1>12 DEF Noted
  <2>3. ASSUME inTx[s], load.sessions = {s}
        PROVE  Alone(tabs, atBegin[s], info, to, effects'[s])
    <3>1. effects'[s] = Append(done, "delete") /\ effects'[s] # <<>>
      BY <1>17, <1>18, <2>3
    <3>2. ASSUME effects'[s] = <<"delete">>
          PROVE  OneGone(tabs, atBegin[s], info, Live(to, info))
      <4>1. Untouched(tables, atBegin[s], Live(me, info))
        BY <1>17, <1>20, <2>3, <3>1, <3>2 DEF Of, Alone
      <4>2. tables = atBegin[s] /\ Live(me, info) = {}
        BY <4>1 DEF Untouched
      <4>3. Live(to, info) = {i}
        BY <1>12, <1>22, <1>24, <2>3, <4>2
      <4>4. i \in 0 .. (Len(tables[t]) - 1)
        BY <1>4, <1>5
      <4>5. QED
        BY <1>4, <1>10, <1>24, <2>3, <4>2, <4>3, <4>4 DEF OneGone
    <3>3. QED
      BY <3>1, <3>2 DEF Alone
  <2>4. QED
    BY <1>10, <1>12, <1>14, <1>15, <1>18, <2>1, <2>2, <2>3 DEF Of
<1>31. QED
  BY <1>13, <1>15, <1>19, <1>28, <1>29, <1>30, SessionStep

-----------------------------------------------------------------------------
(* ROLLBACK *)

\* A row that comes back is in one place, and empty rows are no rows.
LEMMA RowFromUndo ==
    ASSUME TsIInv, NEW s \in Sessions, NEW i \in Live(stmt[s], undo[s]), NEW t \in Tables, NEW tabs,
           tabs = [tables EXCEPT ![t] = Restored(@, i, undo[s][i].row)], NEW st,
           \A o \in Sessions : Live(st[o], undo[o]) \subseteq Live(stmt[o], undo[o]),
           i \notin Live(st[s], undo[s])
    PROVE  /\ tabs \in [Tables -> RowSeqs]
           /\ OncePlaced(tabs) /\ OnceLive(undo, st) /\ Apart(tabs, undo, st) /\ AllKeyed(tabs, undo, nextId)
<1>1. PICK p, r : p = i + 1 /\ r = undo[s][i].row
  OBVIOUS
<1>2. TypesOK /\ tables \in [Tables -> RowSeqs] /\ nextId \in Nat
  BY DEF TsIInv, TypesOK
<1>3. i \in DOMAIN undo[s] /\ i \in Nat /\ r \in Rows
  <2>1. i \in DOMAIN undo[s]
    BY LiveIsRemembered
  <2>2. r \in Rows
    BY <1>1, <1>2, <2>1, RowsAre
  <2>3. QED
    BY <1>2, <2>1, <2>2 DEF TypesOK
<1>4. \A u \in Tables : /\ tables[u] \in RowSeqs /\ Len(tables[u]) \in Nat /\ DOMAIN tables[u] = 1 .. Len(tables[u])
                        /\ \A k \in DOMAIN tables[u] : tables[u][k] \in Rows
  BY <1>2, RowsAre
<1>5. PICK rows, rows2 : rows = tables[t] /\ rows2 = Restored(rows, i, r)
  OBVIOUS
<1>6. /\ rows2 \in RowSeqs
      /\ Len(rows2) = (IF i < Len(rows) THEN Len(rows) + 1 ELSE i + 2)
      /\ rows2[i + 1] = r
      /\ \A k \in 1 .. Len(rows2) :
           /\ k <= i => rows2[k] = IF k <= Len(rows) THEN rows[k] ELSE Hole
           /\ k > i + 1 => rows2[k] = IF k - 1 <= Len(rows) THEN rows[k - 1] ELSE Hole
  <2>1. rows \in RowSeqs /\ i \in Nat /\ r \in Rows
    BY <1>3, <1>4, <1>5
  <2>2. /\ Restored(rows, i, r) \in RowSeqs
        /\ Len(Restored(rows, i, r)) = IF i < Len(rows) THEN Len(rows) + 1 ELSE i + 2
        /\ Restored(rows, i, r)[i + 1] = r
        /\ \A k \in 1 .. Len(Restored(rows, i, r)) :
             /\ k <= i => Restored(rows, i, r)[k] = IF k <= Len(rows) THEN rows[k] ELSE Hole
             /\ k > i + 1 => Restored(rows, i, r)[k] = IF k - 1 <= Len(rows) THEN rows[k - 1] ELSE Hole
    <3>1. IsRestored(Restored(rows, i, r), rows, i, r)
      BY <2>1, RestoredRows
    <3>2. QED
      BY <3>1 DEF IsRestored
  <2>3. QED
    BY <1>5, <2>2
<1>7. tabs = [tables EXCEPT ![t] = rows2]
  BY <1>1, <1>5
<1>8. tabs \in [Tables -> RowSeqs] /\ tabs[t] = rows2 /\ \A u \in Tables : u # t => tabs[u] = tables[u]
  BY <1>2, <1>6, <1>7
<1>9. ASSUME NEW u \in Tables, NEW k \in DOMAIN tabs[u]
      PROVE  /\ k \in Nat
             /\ \/ tabs[u][k] = Hole
                \/ u = t /\ k = p /\ tabs[u][k] = r
                \/ \E m \in DOMAIN tables[u] : /\ tabs[u][k] = tables[u][m]
                                               /\ m = (IF u = t /\ k > p THEN k - 1 ELSE k) /\ (u = t => k # p)
  <2>1. CASE u = t
    <3>1. PICK l : l = Len(rows)
      OBVIOUS
    <3>2. k \in 1 .. Len(rows2) /\ k \in Nat \ {0} /\ l \in Nat /\ DOMAIN rows = 1 .. l
      BY <1>4, <1>5, <1>6, <1>8, <2>1, <3>1 DEF RowSeqs
    <3>3. CASE k <= i
      <4>1. rows2[k] = IF k <= l THEN rows[k] ELSE Hole
        BY <1>6, <3>1, <3>2, <3>3
      <4>2. ~(k > p) /\ k # p
        BY <1>1, <1>3, <3>2, <3>3
      <4>3. CASE k <= l
        <5>1. k \in DOMAIN rows
          BY <3>2, <4>3
        <5>2. QED
          BY <1>5, <1>8, <2>1, <3>2, <4>1, <4>2, <4>3, <5>1
      <4>4. CASE ~(k <= l)
        BY <1>8, <2>1, <3>2, <4>1, <4>4
      <4>5. QED
        BY <4>3, <4>4
    <3>4. CASE k = i + 1
      BY <1>1, <1>6, <1>8, <2>1, <3>2, <3>4
    <3>5. CASE k > i + 1
      <4>1. rows2[k] = IF k - 1 <= l THEN rows[k - 1] ELSE Hole
        BY <1>6, <3>1, <3>2, <3>5
      <4>2. k > p /\ k # p
        BY <1>1, <1>3, <3>2, <3>5
      <4>3. CASE k - 1 <= l
        <5>1. k - 1 \in DOMAIN rows
          BY <1>3, <3>2, <3>5, <4>3
        <5>2. QED
          BY <1>5, <1>8, <2>1, <3>2, <4>1, <4>2, <4>3, <5>1
      <4>4. CASE ~(k - 1 <= l)
        BY <1>8, <2>1, <3>2, <4>1, <4>4
      <4>5. QED
        BY <4>3, <4>4
    <3>6. k <= i \/ k = i + 1 \/ k > i + 1
      BY <1>3, <3>2
    <3>7. QED
      BY <3>3, <3>4, <3>5, <3>6, Zenon
  <2>2. CASE u # t
    <3>1. tabs[u] = tables[u] /\ k \in Nat
      BY <1>4, <1>8, <2>2
    <3>2. QED
      BY <2>2, <3>1
  <2>3. QED
    BY <2>1, <2>2
<1>10. AllKeyed(tables, undo, nextId) /\ OncePlaced(tables) /\ OnceLive(undo, stmt) /\ Apart(tables, undo, stmt)
  BY DEF TsIInv
<1>11. Keyed(r, nextId)
  BY <1>1, <1>3, <1>10 DEF AllKeyed
<1>12. AllKeyed(tabs, undo, nextId)
  <2>1. ASSUME NEW u \in Tables, NEW k \in DOMAIN tabs[u]
        PROVE  Keyed(tabs[u][k], nextId)
    <3>1. Keyed(Hole, nextId)
      BY DEF Keyed
    <3>2. QED
      BY <1>9, <1>10, <1>11, <3>1 DEF AllKeyed
  <2>2. QED
    BY <1>10, <2>1 DEF AllKeyed
<1>13. \A a, b : Keyed(a, nextId) /\ (a = Hole \/ b = Hole) => ~SameRow(a, b)
  BY <1>2, HoleIsRow DEF SameRow, Keyed
<1>14. \A a, b : Keyed(a, nextId) /\ Keyed(b, nextId) /\ SameRow(a, b) => SameRow(b, a)
  BY <1>2, HoleIsRow DEF SameRow, Keyed
<1>15. ASSUME NEW u \in Tables, NEW k \in DOMAIN tables[u]
       PROVE  ~SameRow(tables[u][k], r) /\ ~SameRow(r, tables[u][k])
  <2>1. ~SameRow(tables[u][k], r)
    BY <1>1, <1>10 DEF Apart
  <2>2. Keyed(tables[u][k], nextId)
    BY <1>10 DEF AllKeyed
  <2>3. QED
    BY <1>11, <1>14, <2>1, <2>2
<1>16. ASSUME NEW u \in Tables, NEW k \in DOMAIN tabs[u], NEW b, SameRow(tabs[u][k], b) \/ SameRow(b, tabs[u][k]),
              Keyed(b, nextId)
       PROVE  /\ k \in Nat
              /\ \/ u = t /\ k = p /\ tabs[u][k] = r
                 \/ \E m \in DOMAIN tables[u] : /\ tabs[u][k] = tables[u][m]
                                                /\ m = (IF u = t /\ k > p THEN k - 1 ELSE k) /\ (u = t => k # p)
  <2>1. Keyed(tabs[u][k], nextId)
    BY <1>12 DEF AllKeyed
  <2>2. tabs[u][k] # Hole
    BY <1>13, <1>16, <2>1
  <2>3. QED
    BY <1>9, <2>2
<1>17. OncePlaced(tabs)
  <2>1. SUFFICES ASSUME NEW u \in Tables, NEW v \in Tables, NEW j \in DOMAIN tabs[u], NEW k \in DOMAIN tabs[v],
                        SameRow(tabs[u][j], tabs[v][k])
                 PROVE  u = v /\ j = k
    BY DEF OncePlaced
  <2>2. Keyed(tabs[u][j], nextId) /\ Keyed(tabs[v][k], nextId)
    BY <1>12 DEF AllKeyed
  <2>3. /\ j \in Nat
        /\ \/ u = t /\ j = p /\ tabs[u][j] = r
           \/ \E m \in DOMAIN tables[u] : /\ tabs[u][j] = tables[u][m]
                                          /\ m = (IF u = t /\ j > p THEN j - 1 ELSE j) /\ (u = t => j # p)
    BY <1>16, <2>1, <2>2
  <2>4. /\ k \in Nat
        /\ \/ v = t /\ k = p /\ tabs[v][k] = r
           \/ \E m \in DOMAIN tables[v] : /\ tabs[v][k] = tables[v][m]
                                          /\ m = (IF v = t /\ k > p THEN k - 1 ELSE k) /\ (v = t => k # p)
    BY <1>16, <2>1, <2>2
  <2>5. CASE u = t /\ j = p /\ tabs[u][j] = r
    BY <1>15, <2>1, <2>4, <2>5
  <2>6. CASE v = t /\ k = p /\ tabs[v][k] = r
    BY <1>15, <2>1, <2>3, <2>6
  <2>7. ASSUME NEW m \in DOMAIN tables[u], tabs[u][j] = tables[u][m],
               m = (IF u = t /\ j > p THEN j - 1 ELSE j), u = t => j # p,
               NEW n \in DOMAIN tables[v], tabs[v][k] = tables[v][n],
               n = (IF v = t /\ k > p THEN k - 1 ELSE k), v = t => k # p
        PROVE  u = v /\ j = k
    <3>1. SameRow(tables[u][m], tables[v][n])
      BY <2>1, <2>7
    <3>2. u = v /\ m = n
      BY <1>10, <3>1 DEF OncePlaced
    <3>3. p \in Nat
      BY <1>1, <1>3
    <3>4. (IF u = t /\ j > p THEN j - 1 ELSE j) = (IF u = t /\ k > p THEN k - 1 ELSE k) /\ (u = t => j # p /\ k # p)
      BY <2>7, <3>2
    <3>5. j \in Nat /\ k \in Nat
      BY <2>3, <2>4
    <3>6. j = k
      BY <3>3, <3>4, <3>5
    <3>7. QED
      BY <3>2, <3>6
  <2>8. QED
    BY <2>3, <2>4, <2>5, <2>6, <2>7
<1>18. ASSUME NEW u \in Tables, NEW k \in DOMAIN tabs[u], NEW o \in Sessions, NEW j \in Live(st[o], undo[o]),
              SameRow(tabs[u][k], undo[o][j].row)
       PROVE  FALSE
  <2>1. j \in Live(stmt[o], undo[o]) /\ j \in DOMAIN undo[o]
    BY LiveIsRemembered
  <2>2. Keyed(undo[o][j].row, nextId)
    BY <1>10, <2>1 DEF AllKeyed
  <2>3. CASE tabs[u][k] = r
    <3>1. o = s /\ j = i
      BY <1>1, <1>10, <1>18, <2>1, <2>3 DEF OnceLive
    <3>2. QED
      BY <3>1
  <2>4. ASSUME NEW m \in DOMAIN tables[u], tabs[u][k] = tables[u][m]
        PROVE  FALSE
    BY <1>10, <1>18, <2>1, <2>4 DEF Apart
  <2>5. QED
    BY <1>16, <1>18, <2>2, <2>3, <2>4
<1>19. Apart(tabs, undo, st)
  BY <1>18 DEF Apart
<1>20. OnceLive(undo, st)
  BY <1>10 DEF OnceLive
<1>21. QED
  BY <1>8, <1>12, <1>17, <1>19, <1>20

\* The row that was removed goes back to its place, with an empty row behind it if it
\* was the last.
LEMMA RemovedRestored ==
    ASSUME NEW old \in RowSeqs, NEW i \in Nat, i + 1 \in 1 .. Len(old)
    PROVE  Restored(RemoveAt(old, i + 1), i, old[i + 1]) \in {old, Append(old, Hole)}
<1>1. old \in Seq(Rows) /\ Len(old) \in Nat /\ Hole \in Rows /\ old[i + 1] \in Rows
  BY HoleIsRow DEF RowSeqs
<1>2. PICK n, p, rows, new : n = Len(old) /\ p = i + 1 /\ rows = RemoveAt(old, p) /\ new = Restored(rows, i, old[p])
  OBVIOUS
<1>3. n \in Nat /\ p \in 1 .. n /\ p = i + 1 /\ p \in Nat /\ n >= 1
  BY <1>1, <1>2
<1>4. /\ rows \in Seq(Rows) /\ Len(rows) = n - 1
      /\ \A k \in 1 .. (n - 1) : rows[k] = IF k < p THEN old[k] ELSE old[k + 1]
  <2>1. p \in 1 .. Len(old)
    BY <1>2, <1>3
  <2>2. /\ RemoveAt(old, p) \in Seq(Rows) /\ Len(RemoveAt(old, p)) = Len(old) - 1
        /\ \A k \in 1 .. (Len(old) - 1) : RemoveAt(old, p)[k] = IF k < p THEN old[k] ELSE old[k + 1]
    BY <1>1, <2>1, RemovedAt
  <2>3. QED
    BY <1>2, <2>2
<1>5. /\ new \in Seq(Rows)
      /\ Len(new) = (IF i < n - 1 THEN n ELSE i + 2)
      /\ new[p] = old[p]
      /\ \A k \in 1 .. Len(new) :
           /\ k <= i => new[k] = IF k <= n - 1 THEN rows[k] ELSE Hole
           /\ k > p => new[k] = IF k - 1 <= n - 1 THEN rows[k - 1] ELSE Hole
  <2>1. PICK r : r = old[p]
    OBVIOUS
  <2>2. rows \in RowSeqs /\ r \in Rows
    BY <1>1, <1>2, <1>4, <2>1 DEF RowSeqs
  <2>3. /\ Restored(rows, i, r) \in RowSeqs
        /\ Len(Restored(rows, i, r)) = IF i < Len(rows) THEN Len(rows) + 1 ELSE i + 2
        /\ Restored(rows, i, r)[i + 1] = r
        /\ \A k \in 1 .. Len(Restored(rows, i, r)) :
             /\ k <= i => Restored(rows, i, r)[k] = IF k <= Len(rows) THEN rows[k] ELSE Hole
             /\ k > i + 1 => Restored(rows, i, r)[k] = IF k - 1 <= Len(rows) THEN rows[k - 1] ELSE Hole
    <3>1. IsRestored(Restored(rows, i, r), rows, i, r)
      BY <2>2, RestoredRows
    <3>2. QED
      BY <3>1 DEF IsRestored
  <2>4. (n - 1) + 1 = n
    BY <1>3
  <2>5. new = Restored(rows, i, r) /\ Len(rows) = n - 1
    BY <1>2, <1>4, <2>1
  <2>6. new \in Seq(Rows) /\ Len(new) = IF i < n - 1 THEN n ELSE i + 2
    BY <2>3, <2>4, <2>5 DEF RowSeqs
  <2>7. new[p] = old[p]
    BY <1>3, <2>1, <2>3, <2>5
  <2>8. \A k \in 1 .. Len(new) :
           /\ k <= i => new[k] = IF k <= n - 1 THEN rows[k] ELSE Hole
           /\ k > p => new[k] = IF k - 1 <= n - 1 THEN rows[k - 1] ELSE Hole
    BY <1>3, <2>3, <2>5
  <2>9. QED
    BY <2>6, <2>7, <2>8
<1>6. ASSUME NEW k \in 1 .. n, k <= Len(new)
      PROVE  new[k] = old[k]
  <2>1. k \in 1 .. Len(new) /\ k \in Nat
    BY <1>3, <1>5, <1>6
  <2>2. CASE k <= i
    <3>1. k \in 1 .. (n - 1) /\ k < p
      BY <1>3, <2>1, <2>2
    <3>2. new[k] = rows[k] /\ rows[k] = old[k]
      BY <1>4, <1>5, <2>1, <2>2, <3>1
    <3>3. QED
      BY <3>2
  <2>3. CASE k = p
    BY <1>5, <2>3
  <2>4. CASE k > p
    <3>1. k - 1 \in 1 .. (n - 1) /\ ~(k - 1 < p) /\ (k - 1) + 1 = k /\ k - 1 <= n - 1
      BY <1>3, <2>1, <2>4
    <3>2. new[k] = rows[k - 1]
      BY <1>5, <2>1, <2>4, <3>1
    <3>3. rows[k - 1] = old[k]
      BY <1>4, <3>1
    <3>4. QED
      BY <3>2, <3>3
  <2>5. k <= i \/ k = p \/ k > p
    BY <1>3, <2>1
  <2>6. QED
    BY <2>2, <2>3, <2>4, <2>5, Zenon
<1>7. CASE i < n - 1
  <2>1. Len(new) = n
    BY <1>5, <1>7
  <2>2. \A k \in 1 .. Len(new) : new[k] = old[k]
    BY <1>3, <1>6, <2>1
  <2>3. new = old
    BY <1>1, <1>2, <1>5, <2>1, <2>2, SeqEqual
  <2>4. QED
    BY <1>2, <2>3
<1>8. CASE ~(i < n - 1)
  <2>1. p = n /\ Len(new) = n + 1
    BY <1>3, <1>5, <1>8
  <2>2. PICK all : all = Append(old, Hole)
    OBVIOUS
  <2>3. all \in Seq(Rows) /\ Len(all) = n + 1 /\ all[n + 1] = Hole /\ \A k \in 1 .. n : all[k] = old[k]
    BY <1>1, <1>2, <2>2
  <2>4. new[n + 1] = Hole
    <3>1. n + 1 \in 1 .. Len(new) /\ n + 1 > p /\ ~((n + 1) - 1 <= n - 1)
      BY <1>3, <2>1
    <3>2. QED
      BY <1>5, <3>1
  <2>5. ASSUME NEW k \in 1 .. Len(new)
        PROVE  new[k] = all[k]
    <3>1. CASE k = n + 1
      BY <2>3, <2>4, <3>1
    <3>2. CASE k # n + 1
      <4>1. k \in 1 .. n /\ k <= Len(new)
        BY <1>3, <2>1, <3>2
      <4>2. QED
        BY <1>6, <2>3, <4>1
    <3>3. QED
      BY <3>1, <3>2
  <2>6. new = all
    BY <1>5, <2>1, <2>3, <2>5, SeqEqual
  <2>7. QED
    BY <1>2, <2>2, <2>6
<1>9. QED
  BY <1>7, <1>8

\* restore_row: a row comes back from the undo information, which is used up.
LEMMA RestoreRowStep ==
    ASSUME TsIInv, NEW s \in Sessions, stmt[s].kind = "rollback", NEW i \in stmt[s].left,
           RestoreRow(s, i), load' = load
    PROVE  TsIInv'
<1>1. PICK me, info, t, r : me = stmt[s] /\ info = undo[s] /\ t = info[i].table /\ r = info[i].row
  OBVIOUS
<1>2. PICK to : to = [me EXCEPT !.left = me.left \ {i}]
  OBVIOUS
<1>3. TypesOK /\ me \in Stmts /\ stmt \in [Sessions -> Stmts] /\ tables \in [Tables -> RowSeqs] /\ nextId \in Nat \ {0}
  BY <1>1 DEF TsIInv, TypesOK
<1>4. me \in [kind : {"rollback"}, left : SUBSET Nat]
  BY <1>1, <1>3, StmtKinds
<1>5. to \in [kind : {"rollback"}, left : SUBSET Nat] /\ to.kind = "rollback" /\ to.left = me.left \ {i}
  BY <1>2, <1>4
<1>6. /\ tables' = [tables EXCEPT ![t] = Restored(@, i, r)]
      /\ stmt' = [stmt EXCEPT ![s].left = @ \ {i}]
      /\ UNCHANGED <<created, indexed, frames, inTx, undo, nextId, atBegin, effects>>
  BY <1>1 DEF RestoreRow
<1>7. stmt' = [stmt EXCEPT ![s] = to]
  BY <1>1, <1>2, <1>3, <1>6
<1>8. stmt'[s] = to /\ \A o \in Sessions : o # s => stmt'[o] = stmt[o]
  BY <1>3, <1>7
<1>9. /\ load' = load /\ created' = created /\ indexed' = indexed /\ frames' = frames /\ inTx' = inTx
      /\ undo' = undo /\ nextId' = nextId /\ atBegin' = atBegin /\ effects' = effects
  BY <1>6
<1>10. inTx[s] /\ me.left \subseteq DOMAIN info /\ i \in DOMAIN info
  BY <1>1 DEF TsIInv, Serial
<1>11. i \in Nat /\ t \in Tables /\ r \in Rows
  <2>1. i \in Nat
    BY <1>1, <1>3, <1>10 DEF TypesOK
  <2>2. QED
    BY <1>1, <1>3, <1>10, <2>1, RowsAre
<1>12. stmt[s] # NoStmt /\ s \in load.sessions /\ \A o \in Sessions : o # s => stmt[o] = NoStmt
  <2>1. stmt[s] # NoStmt
    BY DEF NoStmt
  <2>2. QED
    BY <2>1, Waiting
<1>13. OthersWait(s, stmt', inTx', undo', effects')
  BY <1>8, <1>9, <1>12 DEF OthersWait
<1>14. Live(me, info) = me.left /\ Live(to, info) = me.left \ {i}
  BY <1>1, <1>5 DEF Live
<1>15. PICK tabs, st : tabs = [tables EXCEPT ![t] = Restored(@, i, undo[s][i].row)] /\ st = stmt'
  OBVIOUS
<1>16. tables' = tabs
  BY <1>1, <1>6, <1>15
<1>17. (\A o \in Sessions : Live(st[o], undo[o]) \subseteq Live(stmt[o], undo[o])) /\ i \notin Live(st[s], undo[s])
  <2>1. Live(st[s], undo[s]) = me.left \ {i} /\ Live(stmt[s], undo[s]) = me.left
    BY <1>1, <1>8, <1>14, <1>15
  <2>2. \A o \in Sessions : o # s => st[o] = stmt[o]
    BY <1>8, <1>15
  <2>3. QED
    BY <2>1, <2>2
<1>18. /\ tabs \in [Tables -> RowSeqs]
       /\ OncePlaced(tabs) /\ OnceLive(undo, st) /\ Apart(tabs, undo, st) /\ AllKeyed(tabs, undo, nextId)
  <2>1. i \in Live(stmt[s], undo[s])
    BY <1>1, <1>14
  <2>2. QED
    BY <1>11, <1>15, <1>17, <2>1, RowFromUndo
<1>19. OncePlaced(tables)' /\ OnceLive(undo, stmt)' /\ Apart(tables, undo, stmt)' /\ AllKeyed(tables, undo, nextId)'
  BY <1>9, <1>15, <1>16, <1>18
<1>20. TypesOK'
  <2>1. to \in Stmts
    BY <1>5 DEF Stmts
  <2>2. stmt' \in [Sessions -> Stmts]
    BY <1>3, <1>7, <2>1
  <2>3. QED
    BY <1>3, <1>9, <1>16, <1>18, <2>2 DEF TypesOK
<1>21. Of(s, tables', nextId', stmt'[s], inTx'[s], undo'[s], atBegin'[s], effects'[s])
  <2>1. Of(s, tables, nextId, me, inTx[s], info, atBegin[s], effects[s])
    BY <1>1, OfEach
  <2>2. Serial1(to, inTx[s], info, effects[s])
    BY <1>5, <1>10, <2>1 DEF Of, Serial1
  <2>3. Progress(tabs, to, nextId) /\ Noted(tabs, info, to) /\ ~Pending(to)
    BY <1>5 DEF Progress, Noted, Pending
  <2>4. ASSUME load.sessions = {s}
        PROVE  Alone(tabs, atBegin[s], info, to, effects[s])
    <3>1. Alone(tables, atBegin[s], info, me, effects[s])
      BY <1>10, <2>1, <2>4 DEF Of
    <3>2. effects[s] # <<>>
      BY <1>1, <1>14, <3>1 DEF Alone, Untouched
    <3>3. ASSUME effects[s] = <<"delete">>
          PROVE  OneBack(tabs, atBegin[s], to)
      <4>1. ~Pending(me)
        BY <1>1 DEF Pending
      <4>2. OneGone(tables, atBegin[s], info, me.left)
        BY <1>1, <1>14, <3>1, <3>3, <4>1 DEF Alone, OneBack
      <4>3. PICK old : old = atBegin[s]
        OBVIOUS
      <4>4. old \in [Tables -> RowSeqs]
        BY <1>3, <4>3 DEF TypesOK
      <4>5. PICK u \in Tables : \E j \in 0 .. (Len(old[u]) - 1) :
                /\ me.left = {j} /\ info[j] = [table |-> u, row |-> old[u][j + 1]]
                /\ tables = [old EXCEPT ![u] = RemoveAt(@, j + 1)]
        BY <4>2, <4>3 DEF OneGone
      <4>6. /\ i \in 0 .. (Len(old[u]) - 1) /\ me.left = {i} /\ info[i] = [table |-> u, row |-> old[u][i + 1]]
            /\ tables = [old EXCEPT ![u] = RemoveAt(@, i + 1)]
        BY <1>1, <4>5
      <4>7. u = t /\ r = old[t][i + 1]
        BY <1>1, <4>6
      <4>8. tables[t] = RemoveAt(old[t], i + 1) /\ \A v \in Tables : v # t => tables[v] = old[v]
        BY <4>4, <4>6, <4>7
      <4>9. tabs[t] = Restored(tables[t], i, r) /\ \A v \in Tables : v # t => tabs[v] = tables[v]
        BY <1>1, <1>3, <1>11, <1>15
      <4>10. Restored(RemoveAt(old[t], i + 1), i, old[t][i + 1]) \in {old[t], Append(old[t], Hole)}
        <5>1. PICK rows : rows = old[t]
          OBVIOUS
        <5>2. rows \in RowSeqs /\ Len(rows) \in Nat
          BY <1>11, <4>4, <5>1 DEF RowSeqs
        <5>3. i + 1 \in 1 .. Len(rows)
          BY <1>11, <4>6, <4>7, <5>1, <5>2
        <5>4. Restored(RemoveAt(rows, i + 1), i, rows[i + 1]) \in {rows, Append(rows, Hole)}
          BY <1>11, <5>2, <5>3, RemovedRestored
        <5>5. QED
          BY <5>1, <5>4
      <4>11. tabs[t] \in {old[t], Append(old[t], Hole)}
        BY <4>7, <4>8, <4>9, <4>10
      <4>12. \A v \in Tables : tabs[v] \in {old[v], Append(old[v], Hole)}
        BY <4>8, <4>9, <4>11
      <4>13. to.left = {}
        BY <1>5, <4>6
      <4>14. QED
        BY <1>5, <4>3, <4>12, <4>13 DEF OneBack
    <3>4. QED
      BY <3>2, <3>3 DEF Alone
  <2>5. QED
    BY <1>1, <1>8, <1>9, <1>16, <2>2, <2>3, <2>4 DEF Of
<1>22. QED
  BY <1>9, <1>12, <1>13, <1>19, <1>20, <1>21, SessionStep

-----------------------------------------------------------------------------
(* The theorems *)

\* Without statement, transaction and rows there is nothing to say.
LEMMA NothingYet ==
    ASSUME TypesOK, tables = NoTables, inTx = [s \in Sessions |-> FALSE], undo = [s \in Sessions |-> NoUndo],
           stmt = [s \in Sessions |-> NoStmt], effects = [s \in Sessions |-> <<>>]
    PROVE  TsIInv
<1>1. \A s \in Sessions : inTx[s] = FALSE /\ undo[s] = NoUndo /\ stmt[s] = NoStmt /\ effects[s] = <<>>
  OBVIOUS
<1>2. DOMAIN NoUndo = {} /\ Live(NoStmt, NoUndo) = {} /\ NoStmt.kind = "none"
  <2>1. DOMAIN NoUndo = {}
    BY DEF NoUndo
  <2>2. QED
    BY <2>1, NothingDone
<1>3. \A t \in Tables : DOMAIN tables[t] = {}
  BY DEF NoTables
<1>4. AllKeyed(tables, undo, nextId) /\ OncePlaced(tables) /\ OnceLive(undo, stmt) /\ Apart(tables, undo, stmt)
  BY <1>1, <1>2, <1>3 DEF AllKeyed, OncePlaced, OnceLive, Apart
<1>5. Serial
  BY <1>1, <1>2 DEF Serial
<1>6. \A s \in Sessions : Progress(tables, stmt[s], nextId)
  BY <1>1, NothingDone
<1>7. QED
  BY <1>1, <1>4, <1>5, <1>6 DEF TsIInv

\* A process begins without a statement.
LEMMA TsInitially ==
    ASSUME TsInit
    PROVE  TsIInv
<1>1. load \in Workloads /\ load.tables \subseteq Tables /\ load.frames \in Nat
  BY TableSessionAssumption DEF TsInit, Workload
<1>2. NoStmt \in Stmts /\ NoTables \in [Tables -> RowSeqs] /\ DOMAIN NoUndo = {} /\ <<>> \in Seq(Kinds)
  BY DEF Stmts, NoStmt, NoTables, RowSeqs, NoUndo
<1>3. TypesOK
  BY <1>1, <1>2 DEF TsInit, TypesOK
<1>4. QED
  BY <1>3, NothingYet DEF TsInit

\* Nor does one that starts again.
LEMMA RestartStep ==
    ASSUME TsIInv, Restart, load' = load
    PROVE  TsIInv'
<1>1. TypesOK /\ load.frames \in Nat
  BY TableSessionAssumption DEF TsIInv, TypesOK, Workload
<1>2. NoStmt \in Stmts /\ NoTables \in [Tables -> RowSeqs] /\ DOMAIN NoUndo = {} /\ <<>> \in Seq(Kinds)
  BY DEF Stmts, NoStmt, NoTables, RowSeqs, NoUndo
<1>3. TypesOK'
  BY <1>1, <1>2 DEF Restart, TypesOK
<1>4. /\ tables' = NoTables /\ inTx' = [s \in Sessions |-> FALSE] /\ undo' = [s \in Sessions |-> NoUndo]
      /\ stmt' = [s \in Sessions |-> NoStmt] /\ effects' = [s \in Sessions |-> <<>>]
  BY DEF Restart
<1>5. \A s \in Sessions : inTx'[s] = FALSE /\ undo'[s] = NoUndo /\ stmt'[s] = NoStmt /\ effects'[s] = <<>>
  BY <1>4
<1>6. Live(NoStmt, NoUndo) = {} /\ NoStmt.kind = "none"
  BY <1>2, NothingDone
<1>7. \A t \in Tables : DOMAIN tables'[t] = {}
  BY <1>4 DEF NoTables
<1>8. AllKeyed(tables, undo, nextId)' /\ OncePlaced(tables)' /\ OnceLive(undo, stmt)' /\ Apart(tables, undo, stmt)'
  BY <1>2, <1>5, <1>6, <1>7 DEF AllKeyed, OncePlaced, OnceLive, Apart
<1>9. Serial'
  BY <1>5, <1>6 DEF Serial
<1>10. \A s \in Sessions : Progress(tables', stmt'[s], nextId')
  BY <1>5, NothingDone
<1>11. QED
  BY <1>3, <1>5, <1>8, <1>9, <1>10 DEF TsIInv

\* Every step of a session or of the process keeps the invariant.
LEMMA TsPreserved ==
    ASSUME TsIInv, [TsNext]_tsVars
    PROVE  TsIInv'
<1>1. CASE UNCHANGED tsVars
  <2>1. /\ load' = load /\ tables' = tables /\ created' = created /\ indexed' = indexed /\ frames' = frames
        /\ inTx' = inTx /\ undo' = undo /\ stmt' = stmt /\ nextId' = nextId /\ atBegin' = atBegin /\ effects' = effects
    BY <1>1 DEF tsVars
  <2>2. TypesOK' /\ Serial'
    BY <2>1 DEF TsIInv, TypesOK, Serial
  <2>3. AllKeyed(tables, undo, nextId)' /\ OncePlaced(tables)' /\ OnceLive(undo, stmt)' /\ Apart(tables, undo, stmt)'
    BY <2>1 DEF TsIInv, AllKeyed, OncePlaced, OnceLive, Apart
  <2>4. ASSUME NEW s \in Sessions
        PROVE  /\ Progress(tables', stmt'[s], nextId')
               /\ inTx'[s] => Noted(tables', undo'[s], stmt'[s])
               /\ inTx'[s] /\ load'.sessions = {s} => Alone(tables', atBegin'[s], undo'[s], stmt'[s], effects'[s])
    BY <2>1 DEF TsIInv
  <2>5. QED
    BY <2>2, <2>3, <2>4 DEF TsIInv
<1>2. CASE TsNext
  <2>1. load' = load
    BY <1>2 DEF TsNext
  <2>2. CASE Restart
    BY <2>1, <2>2, RestartStep
  <2>3. ASSUME NEW s \in Sessions,
               Begin(s) \/ Commit(s) \/ Rollback(s) \/ RollbackEnds(s) \/ Finish(s)
        PROVE  TsIInv'
    BY <2>1, <2>3, BeginStep, CommitStep, RollbackStep, RollbackEndsStep, FinishStep
  <2>4. ASSUME NEW s \in Sessions, stmt[s].kind = "rollback", NEW i \in stmt[s].left, RestoreRow(s, i)
        PROVE  TsIInv'
    BY <2>1, <2>4, RestoreRowStep
  <2>5. ASSUME NEW s \in Sessions, NEW t \in Tables, NEW vals \in ValueLists, Insert(s, t, vals)
        PROVE  TsIInv'
    BY <2>1, <2>5, InsertBegins
  <2>6. ASSUME NEW s \in Sessions, NEW t \in Tables, NEW v \in Vals, NEW w \in Vals, Update(s, t, {w}, v)
        PROVE  TsIInv'
    BY <2>1, <2>6, UpdateBegins
  <2>7. ASSUME NEW s \in Sessions, NEW t \in Tables, NEW where \in Wheres, Delete(s, t, where)
        PROVE  TsIInv'
    BY <2>1, <2>7, DeleteBegins
  <2>8. ASSUME NEW s \in Sessions, InsertRow(s) \/ UpdateRow(s) \/ DeleteLog(s) \/ DeleteRow(s)
        PROVE  TsIInv'
    BY <2>1, <2>8, InsertRowStep, UpdateRowStep, DeleteLogStep, DeleteRowStep
  <2>9. QED
    BY <1>2, <2>2, <2>3, <2>4, <2>5, <2>6, <2>7, <2>8 DEF TsNext
<1>3. QED
  BY <1>1, <1>2

\* The invariant holds in every state of every behaviour: no row is in two places of
\* the tables and the undo information together, and a statement in progress has done
\* its part.
THEOREM TsInvariant == TsSpec => []TsIInv
<1>1. TsInit => TsIInv
  BY TsInitially
<1>2. TsIInv /\ [TsNext]_tsVars => TsIInv'
  BY TsPreserved
<1>3. QED
  BY <1>1, <1>2, PTL DEF TsSpec

\* What the statements of the program promise when they return Ok: INSERT, UPDATE and
\* DELETE have changed exactly the rows SQL names, although update_row and delete_row
\* find them by their index.
THEOREM StatementsAreExact == TsSpec => []StatementExact
<1>1. TsIInv => StatementExact
  <2>1. SUFFICES ASSUME TsIInv, NEW s \in Sessions
                 PROVE  /\ stmt[s].kind = "insert" /\ stmt[s].todo = <<>> => Inserted(tables[stmt[s].table], stmt[s])
                        /\ stmt[s].kind = "update" /\ stmt[s].todo = {} => Updated(tables[stmt[s].table], stmt[s])
                        /\ stmt[s].kind = "delete" /\ stmt[s].todo = {} => Deleted(tables[stmt[s].table], stmt[s])
    BY DEF StatementExact
  <2>2. PICK me, rows : me = stmt[s] /\ rows = tables[me.table]
    OBVIOUS
  <2>3. me \in Stmts /\ Progress(tables, me, nextId)
    BY <2>1, <2>2 DEF TsIInv, TypesOK
  <2>4. me.kind \in {"insert", "update", "delete"} =>
            rows \in RowSeqs /\ me.start \in RowSeqs /\ Len(rows) \in Nat /\ Len(me.start) \in Nat
    <3>1. me.kind \in {"insert", "update", "delete"} => me \in InsertStmts \cup UpdateStmts \cup DeleteStmts
      BY <2>3, StmtKinds
    <3>2. tables \in [Tables -> RowSeqs]
      BY <2>1 DEF TsIInv, TypesOK
    <3>3. QED
      BY <2>2, <3>1, <3>2 DEF InsertStmts, UpdateStmts, DeleteStmts, RowSeqs
  <2>5. ASSUME me.kind = "insert", me.todo = <<>>
        PROVE  Inserted(rows, me)
    <3>1. me \in InsertStmts
      BY <2>3, <2>5, StmtKinds
    <3>2. me.vals \in Seq(Vals) /\ Len(me.vals) \in Nat /\ me.first \in Nat \ {0} /\ DOMAIN me.vals = 1 .. Len(me.vals)
      BY <3>1 DEF InsertStmts
    <3>3. PICK n, m, new : n = Len(me.start) /\ m = Len(me.vals) /\ new = [k \in 1 .. m |-> Row(me.first + k - 1, me.vals[k])]
      OBVIOUS
    <3>4. n \in Nat /\ m \in Nat /\ rows \in Seq(Rows) /\ me.start \in Seq(Rows)
      BY <2>4, <2>5, <3>2, <3>3 DEF RowSeqs
    <3>5. /\ Len(rows) = n + m /\ \A k \in 1 .. n : rows[k] = me.start[k]
          /\ \A k \in 1 .. m : rows[n + k] = Row(me.first + k - 1, me.vals[k])
      <4>1. Inserting(rows, me, nextId)
        BY <2>2, <2>3, <2>5 DEF Progress
      <4>2. Len(me.vals) - Len(me.todo) = m
        BY <2>5, <3>3, <3>4
      <4>3. QED
        BY <3>3, <4>1, <4>2 DEF Inserting
    <3>6. new \in Seq(Rows) /\ Len(new) = m
      <4>1. \A k \in 1 .. m : Row(me.first + k - 1, me.vals[k]) \in Rows
        <5>1. SUFFICES ASSUME NEW k \in 1 .. m
                       PROVE  Row(me.first + k - 1, me.vals[k]) \in Rows
          OBVIOUS
        <5>2. me.vals[k] \in Vals /\ me.first + k - 1 \in Nat
          BY <3>2, <3>3
        <5>3. QED
          BY <5>2, HoleIsRow
      <4>2. QED
        BY <3>3, <3>4, <4>1
    <3>7. PICK all : all = me.start \o new
      OBVIOUS
    <3>8. /\ all \in Seq(Rows) /\ Len(all) = n + m
          /\ \A k \in 1 .. (n + m) : all[k] = IF k <= n THEN me.start[k] ELSE new[k - n]
      <4>1. /\ me.start \o new \in Seq(Rows) /\ Len(me.start \o new) = Len(me.start) + Len(new)
            /\ \A k \in 1 .. (Len(me.start) + Len(new)) :
                 (me.start \o new)[k] = IF k <= Len(me.start) THEN me.start[k] ELSE new[k - Len(me.start)]
        BY <3>4, <3>6, ConcatProperties
      <4>2. QED
        BY <3>3, <3>6, <3>7, <4>1
    <3>9. ASSUME NEW k \in 1 .. (n + m)
          PROVE  rows[k] = all[k]
      <4>1. CASE k <= n
        BY <3>4, <3>5, <3>8, <4>1
      <4>2. CASE ~(k <= n)
        <5>1. k - n \in 1 .. m /\ n + (k - n) = k
          BY <3>4, <4>2
        <5>2. rows[k] = new[k - n]
          BY <3>3, <3>5, <5>1
        <5>3. QED
          BY <3>8, <4>2, <5>2
      <4>3. QED
        BY <4>1, <4>2
    <3>10. rows = all
      <4>1. Len(rows) = Len(all) /\ \A k \in 1 .. Len(rows) : rows[k] = all[k]
        BY <3>5, <3>8, <3>9
      <4>2. QED
        BY <3>4, <3>8, <4>1, SeqEqual
    <3>11. QED
      BY <3>2, <3>3, <3>7, <3>10 DEF Inserted
  <2>6. ASSUME me.kind = "update", me.todo = {}
        PROVE  Updated(rows, me)
    <3>1. me \in UpdateStmts
      BY <2>3, <2>6, StmtKinds
    <3>2. Updating(rows, me)
      BY <2>2, <2>3, <2>6 DEF Progress
    <3>3. rows \in Seq(Rows) /\ me.start \in Seq(Rows) /\ Len(rows) \in Nat /\ me.val \in Vals
      BY <2>4, <2>6, <3>1 DEF RowSeqs, UpdateStmts
    <3>4. ASSUME NEW k \in 1 .. Len(rows)
          PROVE  rows[k] = IF me.start[k].val \in me.where THEN Assigned(me.start[k], me.val) ELSE me.start[k]
      <4>1. Len(rows) = Len(me.start)
            /\ rows[k] = IF k - 1 \in Found(me) \ me.todo THEN Assigned(me.start[k], me.val) ELSE me.start[k]
        BY <3>2 DEF Updating
      <4>2. k - 1 \in 0 .. (Len(me.start) - 1) /\ (k - 1) + 1 = k
        BY <3>3, <4>1
      <4>3. k - 1 \in Found(me) <=> me.start[k].val \in me.where
        BY <4>2 DEF Found
      <4>4. QED
        BY <2>6, <4>1, <4>3
    <3>5. DOMAIN rows = 1 .. Len(rows) /\ DOMAIN me.start = 1 .. Len(rows)
      BY <3>2, <3>3 DEF Updating
    <3>6. rows = [k \in 1 .. Len(rows) |-> rows[k]]
      BY <3>3, <3>5
    <3>7. QED
      BY <3>4, <3>5, <3>6 DEF Updated
  <2>7. ASSUME me.kind = "delete", me.todo = {}
        PROVE  Deleted(rows, me)
    <3>1. Deleting(rows, me)
      BY <2>2, <2>3, <2>7 DEF Progress
    <3>2. PICK n, kept : n = Len(me.start) /\ kept = {k \in DOMAIN me.start : me.start[k].val \notin me.where}
      OBVIOUS
    <3>3. n \in Nat /\ DOMAIN me.start = 1 .. n
      BY <2>4, <2>7, <3>2 DEF RowSeqs
    <3>4. ASSUME NEW k \in 1 .. n
          PROVE  k - 1 \in Found(me) <=> me.start[k].val \in me.where
      <4>1. k - 1 \in 0 .. (Len(me.start) - 1) /\ (k - 1) + 1 = k
        BY <3>2, <3>3
      <4>2. QED
        BY <4>1 DEF Found
    <3>5. Remaining(me) = kept
      BY <2>7, <3>2, <3>3, <3>4 DEF Remaining
    <3>6. Len(rows) = Cardinality(kept) /\ \A k \in kept : rows[Rank(kept, k)] = me.start[k]
      BY <3>1, <3>5 DEF Deleting
    <3>7. QED
      BY <3>2, <3>6 DEF Deleted
  <2>8. QED
    BY <2>2, <2>5, <2>6, <2>7
<1>2. QED
  BY <1>1, TsInvariant, PTL

\* What undo information promises: it is used once, so that no row is in the tables
\* twice whatever the sessions delete and roll back, and the rollback of a transaction
\* that deleted one row, with nobody else about, puts that row back.
THEOREM UndoIsExact == TsSpec => []UndoExact
<1>1. TsIInv => UndoExact
  <2>1. SUFFICES ASSUME TsIInv
                 PROVE  TsTypeOK /\ NoDuplicateRows /\ OneDeleteUndone
    BY DEF UndoExact
  <2>2. TypesOK
    BY <2>1 DEF TsIInv
  <2>3. TsTypeOK
    BY <2>2 DEF TypesOK, TsTypeOK, RowSeqs, Rows, UndoInfo
  <2>4. NoDuplicateRows
    <3>1. SUFFICES ASSUME NEW a \in Places, NEW b \in Places, tables[a[1]][a[2]] # Hole,
                          tables[a[1]][a[2]].id = tables[b[1]][b[2]].id
                   PROVE  a = b
      BY DEF NoDuplicateRows
    <3>2. \A c \in Places : c[1] \in Tables /\ c[2] \in DOMAIN tables[c[1]] /\ c = <<c[1], c[2]>>
      BY DEF Places
    <3>3. SameRow(tables[a[1]][a[2]], tables[b[1]][b[2]])
      BY <3>1 DEF SameRow
    <3>4. OncePlaced(tables)
      BY <2>1 DEF TsIInv
    <3>5. a[1] = b[1] /\ a[2] = b[2]
      BY <3>2, <3>3, <3>4 DEF OncePlaced
    <3>6. QED
      BY <3>2, <3>5
  <2>5. OneDeleteUndone
    <3>1. SUFFICES ASSUME NEW s \in Sessions, RolledBack(s), effects[s] = <<"delete">>, load.sessions = {s},
                          NEW t \in Tables
                   PROVE  tables[t] \in {atBegin[s][t], Append(atBegin[s][t], Hole)}
      BY DEF OneDeleteUndone
    <3>2. stmt[s].kind = "rollback" /\ stmt[s].left = {}
      BY <3>1 DEF RolledBack
    <3>3. inTx[s]
      BY <2>1, <3>2 DEF TsIInv, Serial
    <3>4. Alone(tables, atBegin[s], undo[s], stmt[s], effects[s])
      BY <2>1, <3>1, <3>3 DEF TsIInv
    <3>5. ~Pending(stmt[s]) /\ Live(stmt[s], undo[s]) = {}
      BY <3>2 DEF Pending, Live
    <3>6. OneBack(tables, atBegin[s], stmt[s])
      BY <3>1, <3>4, <3>5 DEF Alone, OneGone
    <3>7. QED
      BY <3>6 DEF OneBack
  <2>6. QED
    BY <2>3, <2>4, <2>5
<1>2. QED
  BY <1>1, TsInvariant, PTL
=============================================================================
