---------------------------- MODULE StorageProofs ----------------------------
(***************************************************************************)
(* Proofs about the page file and the B-tree.                              *)
(*                                                                         *)
(* FileManager: crash safety of allocation for any number of pages and any *)
(* data.  BTree: for any keys, node sizes and pools the tree stays         *)
(* balanced, ordered and linked, and keeps its keys.                       *)
(***************************************************************************)
EXTENDS FileManager, BTree, TLAPS, WellFoundedInduction, SequenceTheorems, FiniteSetTheorems

-----------------------------------------------------------------------------
(* The page file *)

\* The three copies of total_pages are ordered; every page given away lies
\* below the header that was written; an allocation in progress works on the
\* one page that lies above it; a page whose write returned lies below the
\* durable header.
FmInv ==
    /\ FmTypeOK
    /\ diskTotal <= fileTotal /\ fileTotal <= total
    /\ acked \subseteq granted
    /\ \A p \in granted : p < fileTotal
    /\ pc \in {"allocWrite", "allocHeader"} =>
           page = total - 1 /\ fileTotal <= page /\ page \in DataPages
    /\ pc = "write" => page \in granted /\ page \notin acked /\ value \in Data
    /\ AckedCovered
    /\ AckedIntact

\* The file a database starts with satisfies the invariant.
LEMMA FmInitInv == FmInit => FmInv
BY FileManagerAssumption
DEF FmInit, FmInv, FmTypeOK, DataPages, AckedCovered, AckedIntact

\* Every write, failure and crash preserves the invariant.
LEMMA FmStepInv ==
    ASSUME FmInv, [FmNext]_fmVars
    PROVE  FmInv'
<1> USE FileManagerAssumption DEF FmInv, FmTypeOK, DataPages, AckedCovered, AckedIntact
<1>1. CASE AllocateId
  BY <1>1 DEF AllocateId
<1>2. ASSUME NEW p \in granted, NEW d \in Data, StartWrite(p, d) PROVE FmInv'
  BY <1>2 DEF StartWrite
<1>3. CASE FinishWrite
  <2>1. CASE pc = "allocWrite"
    BY <1>3, <2>1 DEF FinishWrite
  <2>2. CASE pc = "write"
    BY <1>3, <2>2 DEF FinishWrite
  <2> QED
    BY <1>3, <2>1, <2>2 DEF FinishWrite
<1>4. CASE WriteFails
  <2>1. CASE pc = "allocWrite"
    BY <1>4, <2>1 DEF WriteFails
  <2>2. CASE pc = "write"
    BY <1>4, <2>2 DEF WriteFails
  <2> QED
    BY <1>4, <2>1, <2>2 DEF WriteFails
<1>5. CASE AllocateHeader
  <2>1. /\ pc' = "ready" /\ pc = "allocHeader"
        /\ UNCHANGED <<total, diskTotal, pages, page, value, acked>>
    BY <1>5 DEF AllocateHeader
  <2>2. CASE fileTotal' = total /\ granted' = granted \cup {page}
    BY <2>1, <2>2
  <2>3. CASE UNCHANGED <<fileTotal, granted>>
    BY <2>1, <2>3
  <2> QED
    BY <1>5, <2>2, <2>3 DEF AllocateHeader
<1>6. ASSUME NEW p \in 0 .. MaxPages, Deallocate(p) PROVE FmInv'
  BY <1>6 DEF Deallocate
<1>7. CASE Sync
  BY <1>7 DEF Sync
<1>8. CASE CrashAndOpen
  <2>1. /\ pages' \in [DataPages -> Data \cup {"unwritten", "fresh", "torn"}]
        /\ \A p \in acked : pages'[p] \in Data
    BY <1>8 DEF CrashAndOpen
  <2>2. /\ total' \in 1 .. MaxPages /\ fileTotal' = total' /\ diskTotal' = total'
        /\ diskTotal <= total'
    BY <1>8 DEF CrashAndOpen
  <2>3. /\ pc' = "ready" /\ page' = 0 /\ value' = "unwritten"
        /\ granted' = acked /\ acked' = acked
    BY <1>8 DEF CrashAndOpen
  <2> QED
    BY <2>1, <2>2, <2>3
<1>9. CASE UNCHANGED fmVars
  BY <1>9 DEF fmVars
<1> QED
  BY <1>1, <1>2, <1>3, <1>4, <1>5, <1>6, <1>7, <1>8, <1>9 DEF FmNext

\* The invariant holds in every reachable state, crashes included.
THEOREM FmInvariant == FmSpec => []FmInv
<1>1. FmInv /\ [FmNext]_fmVars => FmInv'
  BY FmStepInv
<1> QED
  BY <1>1, FmInitInv, PTL DEF FmSpec

\* A page whose write returned Ok is known to every header a crash can leave.
THEOREM AckedPagesCovered == FmSpec => []AckedCovered
<1>1. FmInv => AckedCovered
  BY DEF FmInv
<1> QED
  BY <1>1, FmInvariant, PTL

\* allocate_page never hands out, nor writes over, a page a client holds.
THEOREM AllocationIsFresh == FmSpec => []AllocationFresh
<1>1. FmInv => AllocationFresh
  BY FileManagerAssumption DEF FmInv, FmTypeOK, AllocationFresh, DataPages
<1> QED
  BY <1>1, FmInvariant, PTL

\* Data whose write returned Ok is in the file.
THEOREM AckedDataIntact == FmSpec => []AckedIntact
<1>1. FmInv => AckedIntact
  BY DEF FmInv
<1> QED
  BY <1>1, FmInvariant, PTL

-----------------------------------------------------------------------------
(* The B-tree: the invariant *)

Nodes == [leaf : BOOLEAN, entries : Seq(Keys), children : Seq(PageIds)]
Pages == [PageIds -> Nodes]
CallKinds == {"none", "insert", "splitRoot", "search", "delete", "iterate"}

BtTypes ==
    /\ load \in Workloads
    /\ nodes \in Pages
    /\ used \in PageIds /\ used <= load.frames /\ root \in 1 .. used
    /\ op \in [kind : CallKinds, key : Keys \cup {0}, at : PageIds \cup {NoPage}]
    /\ op.kind = "none" => op = NoOp
    /\ op.kind # "none" => op.at \in PageIds
    /\ op.kind \in {"insert", "splitRoot", "search", "delete"} => op.key \in Keys
    /\ present \subseteq Keys
    /\ failed \in BOOLEAN

\* A node as its height demands it.
Sorted(s) == \A i, j \in 1 .. Len(s) : i < j => s[i] <= s[j]
NodeOK(n, h) ==
    /\ Sorted(n.entries)
    /\ Len(n.entries) <= MaxKeys
    /\ n.leaf <=> h = 0
    /\ IF n.leaf THEN n.children = <<>> ELSE Len(n.children) = Len(n.entries) + 1

\* The keys K belong to child i of node n.
Fits(n, i, K) ==
    \A k \in K : /\ i > 1 => n.entries[i - 1] <= k
                 /\ i <= Len(n.entries) => k <= n.entries[i]

\* A node of height h whose subtree has no other keys than K: the heights of its
\* children are one less, and their keys are in K and between the separators.
PageOK(n, h, K, height, span) ==
    /\ NodeOK(n, h)
    /\ \A i \in 1 .. Len(n.entries) : n.entries[i] \in K
    /\ \A i \in 1 .. Len(n.children) :
        LET c == n.children[i]
        IN  height[c] + 1 = h /\ span[c] \subseteq K /\ Fits(n, i, span[c])

\* Every page is such a node, also those that a failed split left without a parent.
Heights == [PageIds -> Nat]
Spans == [PageIds -> SUBSET Nat]
Forest(ns, height, span) == \A p \in PageIds : PageOK(ns[p], height[p], span[p], height, span)

\* What the sequences of all pages hold, and that nothing is there twice.
Members(F) == UNION {Range(F[p]) : p \in PageIds}
Once(F) ==
    \A p, q \in PageIds : \A i \in 1 .. Len(F[p]), j \in 1 .. Len(F[q]) :
        F[p][i] = F[q][j] => p = q /\ i = j

ChildrenOf(ns) == [p \in PageIds |-> ns[p].children]
EntriesOf(ns) == [p \in PageIds |-> ns[p].entries]

\* No page has two parents, and no key is in two places.
OneParent(ns) == Once(ChildrenOf(ns))
KeysOnce(ns) == Once(EntriesOf(ns))
Linked(ns) == Members(ChildrenOf(ns))
KeysIn(ns) == Members(EntriesOf(ns))
Fresh(ns, n) == \A p \in PageIds : p > n => ns[p] = Blank

\* Every page but the root has a parent, unless a split has failed.
Links ==
    /\ OneParent(nodes)
    /\ Fresh(nodes, used)
    /\ Linked(nodes) \subseteq (1 .. used) \ {root}
    /\ failed \/ (1 .. used) \ {root} \subseteq Linked(nodes)

\* Where no key is inserted twice, the tree has what was inserted.
Contents ==
    /\ KeysOnce(nodes)
    /\ KeysIn(nodes) \subseteq present
    /\ failed \/ present \subseteq KeysIn(nodes)

Inserting == op.kind \in {"insert", "splitRoot"}

\* The root is the highest page, and a key on its way down belongs where it is.
Shape(height, span) ==
    /\ Forest(nodes, height, span)
    /\ \A p \in PageIds : height[p] <= height[root]
    /\ height[root] < used
    /\ Inserting => op.key \in span[op.at]

\* A call is at a page the tree has; an insertion comes to no full node but the
\* root, and its key is new.
Calls ==
    /\ op.kind # "none" => op.at \in 1 .. used
    /\ op.kind = "insert" => ~IsFull(nodes[op.at])
    /\ op.kind = "splitRoot" => op.at = root /\ IsFull(nodes[root])
    /\ Inserting /\ ~load.duplicates => op.key \notin present

\* A search is above every leaf that has its key.
Searching ==
    op.kind = "search" /\ ~load.duplicates =>
        \A q \in Below(root) : nodes[q].leaf /\ op.key \in Range(nodes[q].entries) => q \in Below(op.at)

\* An iterator of a single leaf has returned its first entries.
Iterating ==
    /\ op.kind \notin {"none", "iterate"} => stack = <<>>
    /\ nodes[root].leaf /\ op.kind = "iterate" => op.at = root /\ stack = <<>> /\ out = <<>>
    /\ nodes[root].leaf /\ stack # <<>> =>
        \E i \in 0 .. Len(nodes[root].entries) :
            /\ stack = <<[node |-> nodes[root], idx |-> i]>>
            /\ out = SubSeq(nodes[root].entries, 1, i)

BtIInv ==
    /\ BtTypes
    /\ Links
    /\ ~load.duplicates => Contents
    /\ \E height \in Heights, span \in Spans : Shape(height, span)
    /\ Calls /\ Searching /\ Iterating

-----------------------------------------------------------------------------
(* Sequences and numbers *)

\* A nonempty set of numbers has a least one.
LEMMA LeastExists ==
    ASSUME NEW T \in SUBSET Nat, T # {}
    PROVE  \E n \in T : \A m \in T : n <= m
<1> DEFINE R == OpToRel(<, Nat)
<1>1. \E n \in T : \A m \in T : ~(<<m, n>> \in R)
    BY NatLessThanWellFounded, WFMin
<1>2. \A m, n \in Nat : m < n => <<m, n>> \in R
    BY DEF OpToRel
<1>3. PICK L : /\ \E n \in T : \A m \in T : ~(<<m, n>> \in L)
               /\ \A m, n \in Nat : m < n => <<m, n>> \in L
    BY <1>1, <1>2
<1>4. PICK n \in T : \A m \in T : ~(<<m, n>> \in L)
    BY <1>3
<1>5. n \in Nat /\ \A m \in T : m \in Nat
    OBVIOUS
<1>6. \A m \in T : ~(m < n)
    BY <1>3, <1>4, <1>5
<1>7. \A m \in T : n <= m
    BY <1>5, <1>6
<1> QED
    BY <1>7

\* new is s without its element at n.
IsRemoved(new, S, s, n) ==
    /\ new \in Seq(S)
    /\ Len(new) = Len(s) - 1
    /\ \A k \in 1 .. (Len(s) - 1) : new[k] = IF k < n THEN s[k] ELSE s[k + 1]

\* RemoveAt moves what is behind to the front.
LEMMA RemovedAt ==
    ASSUME NEW S, NEW s \in Seq(S), NEW n \in 1 .. Len(s)
    PROVE  IsRemoved(RemoveAt(s, n), S, s, n)
<1>1. Len(s) \in Nat /\ n \in Nat /\ \A k \in 1 .. Len(s) : s[k] \in S
  OBVIOUS
<1>2. PICK a, b : a = SubSeq(s, 1, n - 1) /\ b = SubSeq(s, n + 1, Len(s))
  OBVIOUS
<1>3. a \in Seq(S) /\ Len(a) = n - 1 /\ \A k \in 1 .. (n - 1) : a[k] = s[k]
  BY <1>1, <1>2
<1>4. b \in Seq(S) /\ Len(b) = Len(s) - n /\ \A k \in 1 .. (Len(s) - n) : b[k] = s[n + k]
  BY <1>1, <1>2
<1>5. RemoveAt(s, n) = a \o b
  BY <1>2 DEF RemoveAt
<1>6. a \o b \in Seq(S) /\ Len(a \o b) = Len(s) - 1
  <2>1. a \o b \in Seq(S) /\ Len(a \o b) = Len(a) + Len(b)
    BY <1>3, <1>4, ConcatProperties
  <2>2. QED
    BY <1>1, <1>3, <1>4, <2>1
<1>7. ASSUME NEW k \in 1 .. (Len(s) - 1)
      PROVE  (a \o b)[k] = IF k < n THEN s[k] ELSE s[k + 1]
  <2>1. CASE k < n
    BY <1>1, <1>3, <1>4, <2>1
  <2>2. CASE k >= n
    <3>0. /\ Len(a) = n - 1 /\ ~(k <= n - 1) /\ k \in 1 .. (Len(a) + Len(b))
          /\ \A m \in 1 .. (Len(a) + Len(b)) : (a \o b)[m] = IF m <= Len(a) THEN a[m] ELSE b[m - Len(a)]
      <4>1. Len(a) = n - 1 /\ ~(k <= n - 1) /\ k \in 1 .. (Len(a) + Len(b))
        BY <1>1, <1>3, <1>4, <2>2
      <4>2. QED
        BY <1>3, <1>4, <4>1, ConcatProperties
    <3>1. (a \o b)[k] = b[k - (n - 1)]
      BY <3>0
    <3>2. k - (n - 1) \in 1 .. (Len(s) - n) /\ n + (k - (n - 1)) = k + 1
      BY <1>1, <2>2
    <3>3. QED
      BY <1>1, <1>4, <2>2, <3>1, <3>2
  <2>3. k < n \/ k >= n
    BY <1>1
  <2>4. QED
    BY <2>1, <2>2, <2>3, Zenon
<1>8. QED
  BY <1>5, <1>6, <1>7 DEF IsRemoved

\* new is s with x at its place n.
IsInserted(new, S, s, n, x) ==
    /\ new \in Seq(S)
    /\ Len(new) = Len(s) + 1
    /\ \A k \in 1 .. (Len(s) + 1) :
           new[k] = IF k < n THEN s[k] ELSE IF k = n THEN x ELSE s[k - 1]

\* InsertAt moves what is behind back.
LEMMA InsertedAt ==
    ASSUME NEW S, NEW s \in Seq(S), NEW n \in 1 .. (Len(s) + 1), NEW x \in S
    PROVE  IsInserted(InsertAt(s, n, x), S, s, n, x)
<1>1. Len(s) \in Nat /\ n \in Nat /\ \A k \in 1 .. Len(s) : s[k] \in S
  OBVIOUS
<1>2. PICK a, b, c : a = SubSeq(s, 1, n - 1) /\ b = SubSeq(s, n, Len(s)) /\ c = a \o <<x>>
  OBVIOUS
<1>3. a \in Seq(S) /\ Len(a) = n - 1 /\ \A k \in 1 .. (n - 1) : a[k] = s[k]
  BY <1>1, <1>2
<1>4. b \in Seq(S) /\ Len(b) = Len(s) - n + 1 /\ \A k \in 1 .. (Len(s) - n + 1) : b[k] = s[n + k - 1]
  BY <1>1, <1>2
<1>5. c \in Seq(S) /\ Len(c) = n /\ \A k \in 1 .. n : c[k] = IF k < n THEN s[k] ELSE x
  <2>1. <<x>> \in Seq(S) /\ Len(<<x>>) = 1 /\ <<x>>[1] = x
    OBVIOUS
  <2>2. /\ c \in Seq(S) /\ Len(c) = Len(a) + 1
        /\ \A k \in 1 .. (Len(a) + 1) : c[k] = IF k <= Len(a) THEN a[k] ELSE <<x>>[k - Len(a)]
    BY <1>2, <1>3, <2>1, ConcatProperties
  <2>3. QED
    BY <1>1, <1>3, <2>1, <2>2
<1>6. InsertAt(s, n, x) = c \o b
  BY <1>2 DEF InsertAt
<1>7. c \o b \in Seq(S) /\ Len(c \o b) = Len(s) + 1
  BY <1>1, <1>4, <1>5
<1>8. ASSUME NEW k \in 1 .. (Len(s) + 1)
      PROVE  (c \o b)[k] = IF k < n THEN s[k] ELSE IF k = n THEN x ELSE s[k - 1]
  <2>1. CASE k <= n
    BY <1>1, <1>4, <1>5, <2>1
  <2>2. CASE k > n
    <3>0. /\ Len(c) = n /\ ~(k <= n) /\ k \in 1 .. (Len(c) + Len(b))
          /\ \A m \in 1 .. (Len(c) + Len(b)) : (c \o b)[m] = IF m <= Len(c) THEN c[m] ELSE b[m - Len(c)]
      <4>1. Len(c) = n /\ ~(k <= n) /\ k \in 1 .. (Len(c) + Len(b))
        BY <1>1, <1>4, <1>5, <2>2
      <4>2. QED
        BY <1>4, <1>5, <4>1, ConcatProperties
    <3>1. (c \o b)[k] = b[k - n]
      BY <3>0
    <3>2. k - n \in 1 .. (Len(s) - n + 1) /\ n + (k - n) - 1 = k - 1
      BY <1>1, <2>2
    <3>3. QED
      BY <1>1, <1>4, <2>2, <3>1, <3>2
  <2>3. k <= n \/ k > n
    BY <1>1
  <2>4. QED
    BY <2>1, <2>2, <2>3, Zenon
<1>9. QED
  BY <1>6, <1>7, <1>8 DEF IsInserted

\* The part of a sequence up to n, and the part behind m.
LEMMA Parts ==
    ASSUME NEW S, NEW s \in Seq(S), NEW n \in 0 .. Len(s)
    PROVE  /\ SubSeq(s, 1, n) \in Seq(S) /\ Len(SubSeq(s, 1, n)) = n
           /\ \A k \in 1 .. n : SubSeq(s, 1, n)[k] = s[k]
           /\ SubSeq(s, n + 1, Len(s)) \in Seq(S) /\ Len(SubSeq(s, n + 1, Len(s))) = Len(s) - n
           /\ \A k \in 1 .. (Len(s) - n) : SubSeq(s, n + 1, Len(s))[k] = s[k + n]
<1>1. Len(s) \in Nat /\ n \in Nat /\ n <= Len(s) /\ \A k \in 1 .. Len(s) : s[k] \in S
  OBVIOUS
<1>2. /\ SubSeq(s, 1, n) \in Seq(S) /\ Len(SubSeq(s, 1, n)) = n
      /\ \A k \in 1 .. n : SubSeq(s, 1, n)[k] = s[k]
  BY <1>1
<1>3. /\ SubSeq(s, n + 1, Len(s)) \in Seq(S) /\ Len(SubSeq(s, n + 1, Len(s))) = Len(s) - n
  BY <1>1
<1>4. \A k \in 1 .. (Len(s) - n) : SubSeq(s, n + 1, Len(s))[k] = s[k + n]
  BY <1>1
<1>5. QED
  BY <1>2, <1>3, <1>4

-----------------------------------------------------------------------------
(* Nodes and their halves *)

\* l is the part of s up to m, r the part behind n.
Divides(s, l, m, r, n) ==
    /\ \A k \in 1 .. Len(l) : k \in 1 .. Len(s) /\ k <= m /\ l[k] = s[k]
    /\ \A k \in 1 .. Len(r) : k + n \in 1 .. Len(s) /\ r[k] = s[k + n]
    /\ \A k \in 1 .. Len(s) : /\ k <= m => k \in 1 .. Len(l)
                              /\ k > n => k - n \in 1 .. Len(r)

\* The halves of a node: the entry at m + 1 is in neither.
Halves(n, m, l, r) ==
    /\ m \in Nat /\ 1 <= m /\ m + 2 <= Len(n.entries)
    /\ l \in Nodes /\ l.leaf = n.leaf /\ Len(l.entries) = m
    /\ r \in Nodes /\ r.leaf = n.leaf /\ Len(r.entries) = Len(n.entries) - m - 1
    /\ n.leaf => l.children = <<>> /\ r.children = <<>>
    /\ ~n.leaf => Len(l.children) = m + 1 /\ Len(r.children) = Len(n.children) - m - 1
    /\ Divides(n.entries, l.entries, m, r.entries, m + 1)
    /\ Divides(n.children, l.children, m + 1, r.children, m + 1)

\* The parts of a sequence divide it.
LEMMA PartsDivide ==
    ASSUME NEW S, NEW s \in Seq(S), NEW m \in 0 .. Len(s), NEW n \in 0 .. Len(s)
    PROVE  Divides(s, SubSeq(s, 1, m), m, SubSeq(s, n + 1, Len(s)), n)
<1>1. /\ Len(SubSeq(s, 1, m)) = m
      /\ \A k \in 1 .. m : SubSeq(s, 1, m)[k] = s[k]
  BY Parts
<1>2. /\ Len(SubSeq(s, n + 1, Len(s))) = Len(s) - n
      /\ \A k \in 1 .. (Len(s) - n) : SubSeq(s, n + 1, Len(s))[k] = s[k + n]
  BY Parts
<1>3. Len(s) \in Nat /\ m \in Nat /\ n \in Nat /\ m <= Len(s) /\ n <= Len(s)
  OBVIOUS
<1>4. PICK l, r : l = SubSeq(s, 1, m) /\ r = SubSeq(s, n + 1, Len(s))
  OBVIOUS
<1>5. Divides(s, l, m, r, n)
  BY <1>1, <1>2, <1>3, <1>4 DEF Divides
<1>6. QED
  BY <1>4, <1>5

\* split of a full node.
LEMMA HalvesOfFull ==
    ASSUME NEW n \in Nodes, NEW h \in Nat, NodeOK(n, h), IsFull(n)
    PROVE  /\ Halves(n, SplitPos(n), LeftHalf(n), RightHalf(n))
           /\ Separator(n) = n.entries[SplitPos(n) + 1]
<1>1. n.entries \in Seq(Keys) /\ n.children \in Seq(PageIds) /\ n.leaf \in BOOLEAN
  BY DEF Nodes
<1>2. PICK m, e, c : m = SplitPos(n) /\ e = n.entries /\ c = n.children
  OBVIOUS
<1>3. Len(e) \in Nat /\ Len(e) >= 3
  BY <1>1, <1>2, BTreeAssumption DEF IsFull
<1>4. m \in Nat /\ 1 <= m /\ m + 2 <= Len(e)
  <2>1. m = Len(e) \div 2
    BY <1>2 DEF SplitPos
  <2>2. QED
    BY <1>3, <2>1
<1>5. /\ SubSeq(e, 1, m) \in Seq(Keys) /\ Len(SubSeq(e, 1, m)) = m
      /\ SubSeq(e, m + 2, Len(e)) \in Seq(Keys) /\ Len(SubSeq(e, m + 2, Len(e))) = Len(e) - m - 1
      /\ Divides(e, SubSeq(e, 1, m), m, SubSeq(e, m + 2, Len(e)), m + 1)
  <2>1. PICK d : d = m + 1
    OBVIOUS
  <2>2. e \in Seq(Keys) /\ m \in 0 .. Len(e) /\ d \in 0 .. Len(e) /\ d + 1 = m + 2
    BY <1>1, <1>2, <1>3, <1>4, <2>1
  <2>3. Divides(e, SubSeq(e, 1, m), m, SubSeq(e, d + 1, Len(e)), d)
    BY <2>2, PartsDivide
  <2>4. SubSeq(e, 1, m) \in Seq(Keys) /\ Len(SubSeq(e, 1, m)) = m
    BY <2>2, Parts
  <2>5. SubSeq(e, d + 1, Len(e)) \in Seq(Keys) /\ Len(SubSeq(e, d + 1, Len(e))) = Len(e) - d
    BY <2>2, Parts
  <2>6. Len(e) - d = Len(e) - m - 1
    BY <1>3, <1>4, <2>1
  <2>7. QED
    BY <2>1, <2>2, <2>3, <2>4, <2>5, <2>6
<1>6. /\ LeftHalf(n) = [leaf |-> n.leaf, entries |-> SubSeq(e, 1, m), children |-> Part(c, 1, m + 1)]
      /\ RightHalf(n) = [leaf |-> n.leaf, entries |-> SubSeq(e, m + 2, Len(e)), children |-> Part(c, m + 2, Len(c))]
  BY <1>2 DEF LeftHalf, RightHalf, Node
<1>7. PICK lc, rc : lc = Part(c, 1, m + 1) /\ rc = Part(c, m + 2, Len(c))
  OBVIOUS
<1>8. /\ lc \in Seq(PageIds) /\ rc \in Seq(PageIds)
      /\ n.leaf => lc = <<>> /\ rc = <<>>
      /\ ~n.leaf => Len(lc) = m + 1 /\ Len(rc) = Len(c) - m - 1
      /\ Divides(c, lc, m + 1, rc, m + 1)
  <2>1. CASE n.leaf
    <3>1. c = <<>>
      BY <1>2, <2>1 DEF NodeOK
    <3>2. lc = <<>> /\ rc = <<>>
      BY <1>7, <3>1 DEF Part
    <3>3. Divides(c, lc, m + 1, rc, m + 1)
      BY <3>1, <3>2 DEF Divides
    <3>4. QED
      BY <2>1, <3>2, <3>3
  <2>2. CASE ~n.leaf
    <3>1. c \in Seq(PageIds) /\ Len(c) = Len(e) + 1 /\ c # <<>>
      BY <1>1, <1>2, <1>3, <2>2 DEF NodeOK
    <3>2. lc = SubSeq(c, 1, m + 1) /\ rc = SubSeq(c, m + 2, Len(c))
      BY <1>7, <3>1 DEF Part
    <3>3. PICK d : d = m + 1
      OBVIOUS
    <3>4. d \in 0 .. Len(c) /\ d + 1 = m + 2
      BY <1>3, <1>4, <3>1, <3>3
    <3>5. /\ SubSeq(c, 1, d) \in Seq(PageIds) /\ Len(SubSeq(c, 1, d)) = d
          /\ SubSeq(c, d + 1, Len(c)) \in Seq(PageIds) /\ Len(SubSeq(c, d + 1, Len(c))) = Len(c) - d
      BY <3>1, <3>4, Parts
    <3>6. Divides(c, SubSeq(c, 1, d), d, SubSeq(c, d + 1, Len(c)), d)
      BY <3>1, <3>4, PartsDivide
    <3>7. Len(c) - d = Len(c) - m - 1
      BY <1>3, <1>4, <3>1, <3>3
    <3>8. QED
      BY <2>2, <3>2, <3>3, <3>4, <3>5, <3>6, <3>7
  <2>3. QED
    BY <2>1, <2>2
<1>9. QED
  <2>1. LeftHalf(n) \in Nodes /\ RightHalf(n) \in Nodes
    <3>1. PICK b, le, re : b = n.leaf /\ le = SubSeq(e, 1, m) /\ re = SubSeq(e, m + 2, Len(e))
      OBVIOUS
    <3>2. b \in BOOLEAN /\ le \in Seq(Keys) /\ re \in Seq(Keys) /\ lc \in Seq(PageIds) /\ rc \in Seq(PageIds)
      BY <1>1, <1>5, <1>8, <3>1
    <3>3. /\ [leaf |-> b, entries |-> le, children |-> lc] \in Nodes
          /\ [leaf |-> b, entries |-> re, children |-> rc] \in Nodes
      BY <3>2 DEF Nodes
    <3>4. /\ LeftHalf(n) = [leaf |-> b, entries |-> le, children |-> lc]
          /\ RightHalf(n) = [leaf |-> b, entries |-> re, children |-> rc]
      BY <1>6, <1>7, <3>1
    <3>5. QED
      BY <3>3, <3>4
  <2>2. Separator(n) = n.entries[SplitPos(n) + 1]
    BY DEF Separator
  <2>3. Halves(n, m, LeftHalf(n), RightHalf(n))
    BY <1>2, <1>4, <1>5, <1>6, <1>7, <1>8, <2>1 DEF Halves
  <2>4. QED
    BY <1>2, <2>2, <2>3

-----------------------------------------------------------------------------
(* Pages *)

\* The children of a node keep their heights and get no keys.
NoMoreBelow(n, height, span, height2, span2) ==
    \A i \in 1 .. Len(n.children) :
        LET c == n.children[i] IN height2[c] = height[c] /\ span2[c] \subseteq span[c]

\* A page stays as it has to be when more keys are allowed in its subtree and none in
\* those of its children.
LEMMA PageKept ==
    ASSUME NEW n \in Nodes, NEW h \in Nat, NEW K \in SUBSET Nat, NEW K2 \in SUBSET Nat,
           NEW height \in Heights, NEW height2 \in Heights, NEW span \in Spans, NEW span2 \in Spans,
           PageOK(n, h, K, height, span), K \subseteq K2, NoMoreBelow(n, height, span, height2, span2)
    PROVE  PageOK(n, h, K2, height2, span2)
<1>1. NodeOK(n, h) /\ \A i \in 1 .. Len(n.entries) : n.entries[i] \in K2
  BY DEF PageOK
<1>2. ASSUME NEW i \in 1 .. Len(n.children)
      PROVE  LET c == n.children[i]
             IN  height2[c] + 1 = h /\ span2[c] \subseteq K2 /\ Fits(n, i, span2[c])
  <2>1. PICK c : c = n.children[i]
    OBVIOUS
  <2>2. height[c] + 1 = h /\ span[c] \subseteq K /\ Fits(n, i, span[c])
    BY <2>1 DEF PageOK
  <2>3. height2[c] = height[c] /\ span2[c] \subseteq span[c]
    BY <2>1 DEF NoMoreBelow
  <2>4. Fits(n, i, span2[c])
    BY <2>2, <2>3 DEF Fits
  <2>5. QED
    BY <2>1, <2>2, <2>3, <2>4
<1>3. QED
  BY <1>1, <1>2 DEF PageOK

\* The keys up to the separator and those from it on.
UpTo(K, sep) == {k \in K : k <= sep}
From(K, sep) == {k \in K : sep <= k}

\* Each half of a full page is such a page with the keys on its side.
LEMMA HalfPages ==
    ASSUME NEW n \in Nodes, NEW h \in Nat, NEW K \in SUBSET Nat,
           NEW height \in Heights, NEW span \in Spans, PageOK(n, h, K, height, span),
           NEW m, NEW l, NEW r, Halves(n, m, l, r)
    PROVE  /\ PageOK(l, h, UpTo(K, n.entries[m + 1]), height, span)
           /\ PageOK(r, h, From(K, n.entries[m + 1]), height, span)
           /\ n.entries[m + 1] \in K /\ n.entries[m + 1] \in Keys
<1>1. /\ n.entries \in Seq(Keys) /\ n.children \in Seq(PageIds) /\ n.leaf \in BOOLEAN
      /\ l.entries \in Seq(Keys) /\ l.children \in Seq(PageIds)
      /\ r.entries \in Seq(Keys) /\ r.children \in Seq(PageIds)
  BY DEF Nodes, Halves
<1>2. PICK e, c, sep, N : e = n.entries /\ c = n.children /\ sep = e[m + 1] /\ N = Len(n.entries)
  OBVIOUS
<1>3. /\ m \in Nat /\ 1 <= m /\ m + 2 <= N /\ N \in Nat /\ N = Len(e) /\ m + 1 \in 1 .. N
      /\ \A i \in 1 .. N : e[i] \in Nat /\ e[i] \in Keys /\ e[i] \in K
      /\ sep \in Nat /\ sep \in Keys /\ sep \in K
  <2>1. m \in Nat /\ 1 <= m /\ m + 2 <= N /\ N \in Nat /\ N = Len(e) /\ m + 1 \in 1 .. N
    BY <1>1, <1>2 DEF Halves
  <2>2. \A i \in 1 .. N : e[i] \in Nat /\ e[i] \in Keys /\ e[i] \in K
    <3>1. \A i \in 1 .. N : e[i] \in Keys
      BY <1>1, <1>2
    <3>2. \A i \in 1 .. N : e[i] \in K
      BY <1>2 DEF PageOK
    <3>3. QED
      BY <3>1, <3>2
  <2>3. QED
    BY <1>2, <2>1, <2>2
<1>4. \A i, j \in 1 .. N : i < j => e[i] <= e[j]
  BY <1>2 DEF PageOK, NodeOK, Sorted
<1>5. /\ Len(l.entries) = m
      /\ \A i \in 1 .. m : i \in 1 .. N /\ l.entries[i] = e[i]
      /\ Len(r.entries) = N - m - 1
      /\ \A i \in 1 .. (N - m - 1) : i + (m + 1) \in 1 .. N /\ r.entries[i] = e[i + (m + 1)]
  BY <1>1, <1>2, <1>3 DEF Halves, Divides
<1>6. NodeOK(l, h)
  <2>1. Sorted(l.entries)
    BY <1>3, <1>4, <1>5 DEF Sorted
  <2>2. Len(l.entries) <= MaxKeys
    BY <1>2, <1>3, <1>5, BTreeAssumption DEF PageOK, NodeOK
  <2>3. l.leaf <=> h = 0
    BY DEF Halves, PageOK, NodeOK
  <2>4. IF l.leaf THEN l.children = <<>> ELSE Len(l.children) = Len(l.entries) + 1
    BY <1>5 DEF Halves
  <2>5. QED
    BY <2>1, <2>2, <2>3, <2>4 DEF NodeOK
<1>7. NodeOK(r, h)
  <2>1. Sorted(r.entries)
    <3>1. ASSUME NEW i \in 1 .. (N - m - 1), NEW j \in 1 .. (N - m - 1), i < j
          PROVE  r.entries[i] <= r.entries[j]
      <4>1. i + (m + 1) \in 1 .. N /\ j + (m + 1) \in 1 .. N /\ i + (m + 1) < j + (m + 1)
        BY <1>3, <1>5, <3>1
      <4>2. e[i + (m + 1)] <= e[j + (m + 1)]
        BY <1>4, <4>1
      <4>3. QED
        BY <1>5, <4>2
    <3>2. QED
      BY <1>5, <3>1 DEF Sorted
  <2>2. Len(r.entries) <= MaxKeys
    BY <1>2, <1>3, <1>5, BTreeAssumption DEF PageOK, NodeOK
  <2>3. r.leaf <=> h = 0
    BY DEF Halves, PageOK, NodeOK
  <2>4. IF r.leaf THEN r.children = <<>> ELSE Len(r.children) = Len(r.entries) + 1
    <3>1. ~n.leaf => Len(n.children) = N + 1
      BY <1>2 DEF PageOK, NodeOK
    <3>2. n.leaf => r.children = <<>>
      BY DEF Halves
    <3>3. ~n.leaf => Len(r.children) = (N + 1) - m - 1
      BY <3>1 DEF Halves
    <3>4. (N + 1) - m - 1 = (N - m - 1) + 1
      BY <1>3
    <3>5. r.leaf = n.leaf
      BY DEF Halves
    <3>6. QED
      BY <1>5, <3>2, <3>3, <3>4, <3>5
  <2>5. QED
    BY <2>1, <2>2, <2>3, <2>4 DEF NodeOK
<1>8. PICK L, R : L = UpTo(K, sep) /\ R = From(K, sep)
  OBVIOUS
<1>9. \A i \in 1 .. Len(l.entries) : l.entries[i] \in L
  <2>1. ASSUME NEW i \in 1 .. m
        PROVE  l.entries[i] \in L
    <3>1. i \in 1 .. N /\ i < m + 1
      BY <1>3
    <3>2. e[i] \in K /\ e[i] <= sep
      BY <1>2, <1>3, <1>4, <3>1
    <3>3. QED
      BY <1>5, <1>8, <3>2 DEF UpTo
  <2>2. QED
    BY <1>5, <2>1
<1>10. \A i \in 1 .. Len(r.entries) : r.entries[i] \in R
  <2>1. ASSUME NEW i \in 1 .. (N - m - 1)
        PROVE  r.entries[i] \in R
    <3>1. i + (m + 1) \in 1 .. N /\ m + 1 < i + (m + 1)
      BY <1>3, <1>5
    <3>2. e[i + (m + 1)] \in K /\ sep <= e[i + (m + 1)]
      BY <1>2, <1>3, <1>4, <3>1
    <3>3. QED
      BY <1>5, <1>8, <3>2 DEF From
  <2>2. QED
    BY <1>5, <2>1
<1>11. /\ \A i \in 1 .. Len(l.children) : i \in 1 .. Len(c) /\ i <= m + 1 /\ l.children[i] = c[i]
       /\ \A i \in 1 .. Len(r.children) : i + (m + 1) \in 1 .. Len(c) /\ r.children[i] = c[i + (m + 1)]
  BY <1>2 DEF Halves, Divides
<1>12. \A i \in 1 .. Len(c) :
         /\ height[c[i]] + 1 = h /\ span[c[i]] \subseteq K
         /\ \A k \in span[c[i]] : /\ i > 1 => e[i - 1] <= k
                                  /\ i <= N => k <= e[i]
  BY <1>2 DEF PageOK, Fits
<1>13. Len(c) \in Nat /\ \A i \in 1 .. Len(c) : c[i] \in PageIds /\ span[c[i]] \subseteq Nat
  BY <1>1, <1>2 DEF Spans
<1>14. ASSUME NEW i \in 1 .. Len(l.children)
       PROVE  LET d == l.children[i]
              IN  height[d] + 1 = h /\ span[d] \subseteq L /\ Fits(l, i, span[d])
  <2>1. PICK d : d = l.children[i]
    OBVIOUS
  <2>2. i \in 1 .. Len(c) /\ i \in Nat /\ i <= m + 1 /\ d = c[i] /\ i >= 1
    BY <1>1, <1>11, <2>1
  <2>3. height[d] + 1 = h /\ span[d] \subseteq K /\ span[d] \subseteq Nat
    BY <1>12, <1>13, <2>2
  <2>4. ASSUME NEW k \in span[d]
        PROVE  k <= sep /\ (i > 1 => l.entries[i - 1] <= k) /\ (i <= Len(l.entries) => k <= l.entries[i])
    <3>1. i \in 1 .. N
      BY <1>3, <2>2
    <3>2. k <= e[i] /\ k \in Nat
      BY <1>12, <2>2, <2>3, <2>4, <3>1
    <3>3. k <= sep
      <4>1. CASE i = m + 1
        BY <1>2, <3>2, <4>1
      <4>2. CASE i # m + 1
        <5>1. i < m + 1 /\ e[i] <= e[m + 1]
          BY <1>3, <1>4, <2>2, <3>1, <4>2
        <5>2. QED
          BY <1>2, <1>3, <3>1, <3>2, <5>1
      <4>3. QED
        BY <4>1, <4>2
    <3>4. i > 1 => l.entries[i - 1] <= k
      <4>1. i > 1 => i - 1 \in 1 .. m
        BY <1>3, <2>2
      <4>2. i > 1 => e[i - 1] <= k
        BY <1>12, <2>2, <2>4
      <4>3. QED
        BY <1>5, <4>1, <4>2
    <3>5. i <= Len(l.entries) => k <= l.entries[i]
      <4>1. i <= Len(l.entries) => i \in 1 .. m
        BY <1>3, <1>5, <2>2
      <4>2. QED
        BY <1>5, <3>2, <4>1
    <3>6. QED
      BY <3>3, <3>4, <3>5
  <2>5. span[d] \subseteq L
    BY <1>8, <2>3, <2>4 DEF UpTo
  <2>6. Fits(l, i, span[d])
    BY <2>4 DEF Fits
  <2>7. QED
    BY <2>1, <2>3, <2>5, <2>6
<1>15. ASSUME NEW i \in 1 .. Len(r.children)
       PROVE  LET d == r.children[i]
              IN  height[d] + 1 = h /\ span[d] \subseteq R /\ Fits(r, i, span[d])
  <2>1. PICK d, j : d = r.children[i] /\ j = i + (m + 1)
    OBVIOUS
  <2>2. i \in Nat /\ i >= 1 /\ j \in 1 .. Len(c) /\ d = c[j] /\ j \in Nat /\ j > m + 1 /\ j > 1
    BY <1>1, <1>3, <1>11, <2>1
  <2>3. height[d] + 1 = h /\ span[d] \subseteq K /\ span[d] \subseteq Nat
    BY <1>12, <1>13, <2>2
  <2>4. ASSUME NEW k \in span[d]
        PROVE  sep <= k /\ (i > 1 => r.entries[i - 1] <= k) /\ (i <= Len(r.entries) => k <= r.entries[i])
    <3>1. e[j - 1] <= k /\ k \in Nat
      BY <1>12, <2>2, <2>3, <2>4
    <3>2. j - 1 \in 1 .. N
      <4>1. Len(c) = N + 1
        <5>1. c # <<>> /\ n.children # <<>>
          BY <1>2, <1>13, <2>2
        <5>2. QED
          BY <1>2, <5>1 DEF PageOK, NodeOK
      <4>2. QED
        BY <1>3, <2>2, <4>1
    <3>3. sep <= k
      <4>1. CASE j - 1 = m + 1
        BY <1>2, <3>1, <4>1
      <4>2. CASE j - 1 # m + 1
        <5>1. m + 1 < j - 1 /\ e[m + 1] <= e[j - 1]
          BY <1>3, <1>4, <2>2, <3>2, <4>2
        <5>2. QED
          BY <1>2, <1>3, <3>1, <3>2, <5>1
      <4>3. QED
        BY <4>1, <4>2
    <3>4. i > 1 => r.entries[i - 1] <= k
      <4>1. ASSUME i > 1
            PROVE  r.entries[i - 1] = e[j - 1]
        <5>1. i - 1 \in 1 .. (N - m - 1) /\ (i - 1) + (m + 1) = j - 1
          BY <1>3, <2>1, <2>2, <3>2, <4>1
        <5>2. QED
          BY <1>5, <5>1
      <4>2. QED
        BY <3>1, <4>1
    <3>5. i <= Len(r.entries) => k <= r.entries[i]
      <4>1. ASSUME i <= Len(r.entries)
            PROVE  r.entries[i] = e[j] /\ k <= e[j]
        <5>1. i \in 1 .. (N - m - 1)
          BY <1>5, <2>2, <4>1
        <5>2. r.entries[i] = e[j] /\ j <= N
          BY <1>3, <1>5, <2>1, <5>1
        <5>3. QED
          BY <1>12, <2>2, <2>4, <5>2
      <4>2. QED
        BY <4>1
    <3>6. QED
      BY <3>3, <3>4, <3>5
  <2>5. span[d] \subseteq R
    BY <1>8, <2>3, <2>4 DEF From
  <2>6. Fits(r, i, span[d])
    BY <2>4 DEF Fits
  <2>7. QED
    BY <2>1, <2>3, <2>5, <2>6
<1>16. PageOK(l, h, L, height, span)
  BY <1>6, <1>9, <1>14 DEF PageOK
<1>17. PageOK(r, h, R, height, span)
  BY <1>7, <1>10, <1>15 DEF PageOK
<1>18. QED
  BY <1>2, <1>3, <1>8, <1>16, <1>17

-----------------------------------------------------------------------------
(* Forests of pages *)

\* F2 is F but at p, or but at two places.
OnlyAt(F2, F, p) == \A q \in PageIds : q # p => F2[q] = F[q]
OnlyAtBoth(F2, F, c, new) == \A q \in PageIds : q # c /\ q # new => F2[q] = F[q]

\* What a page of a forest has.
LEMMA ForestTypes ==
    ASSUME NEW ns \in Pages, NEW height \in Heights, NEW span \in Spans, NEW p \in PageIds
    PROVE  /\ ns[p] \in Nodes /\ height[p] \in Nat /\ span[p] \in SUBSET Nat
           /\ ns[p].leaf \in BOOLEAN
           /\ ns[p].entries \in Seq(Keys) /\ Len(ns[p].entries) \in Nat
           /\ \A i \in 1 .. Len(ns[p].entries) : ns[p].entries[i] \in Keys /\ ns[p].entries[i] \in Nat
           /\ ns[p].children \in Seq(PageIds) /\ Len(ns[p].children) \in Nat
           /\ \A i \in 1 .. Len(ns[p].children) : ns[p].children[i] \in PageIds
<1>1. ns[p] \in Nodes /\ height[p] \in Nat /\ span[p] \in SUBSET Nat
  BY DEF Pages, Heights, Spans
<1>2. ns[p].leaf \in BOOLEAN /\ ns[p].entries \in Seq(Keys) /\ ns[p].children \in Seq(PageIds)
  BY <1>1 DEF Nodes
<1>3. \A i \in 1 .. Len(ns[p].entries) : ns[p].entries[i] \in Keys /\ ns[p].entries[i] \in Nat
  <2>1. \A i \in 1 .. Len(ns[p].entries) : ns[p].entries[i] \in Keys
    BY <1>2
  <2>2. QED
    BY <2>1, BTreeAssumption
<1>4. QED
  BY <1>1, <1>2, <1>3

\* Members by their places.
LEMMA MemberPlaces ==
    ASSUME NEW S, NEW F \in [PageIds -> Seq(S)], NEW x
    PROVE  x \in Members(F) <=> \E p \in PageIds : \E i \in 1 .. Len(F[p]) : F[p][i] = x
<1>1. \A p \in PageIds : DOMAIN F[p] = 1 .. Len(F[p])
  OBVIOUS
<1>2. \A p \in PageIds : x \in Range(F[p]) <=> \E i \in 1 .. Len(F[p]) : F[p][i] = x
  BY <1>1 DEF Range
<1>3. QED
  BY <1>2 DEF Members

\* The children of the pages are linked, the entries of the pages are the keys.
LEMMA ForestMembers ==
    ASSUME NEW ns \in Pages
    PROVE  /\ ChildrenOf(ns) \in [PageIds -> Seq(PageIds)] /\ EntriesOf(ns) \in [PageIds -> Seq(Keys)]
           /\ \A c : c \in Linked(ns) <=>
                \E p \in PageIds : \E i \in 1 .. Len(ns[p].children) : ns[p].children[i] = c
           /\ \A k : k \in KeysIn(ns) <=>
                \E p \in PageIds : \E i \in 1 .. Len(ns[p].entries) : ns[p].entries[i] = k
<1>1. \A p \in PageIds : ns[p].children \in Seq(PageIds) /\ ns[p].entries \in Seq(Keys)
  BY DEF Pages, Nodes
<1>2. PICK C, E : C = ChildrenOf(ns) /\ E = EntriesOf(ns)
  OBVIOUS
<1>3. /\ C \in [PageIds -> Seq(PageIds)] /\ \A p \in PageIds : C[p] = ns[p].children
      /\ E \in [PageIds -> Seq(Keys)] /\ \A p \in PageIds : E[p] = ns[p].entries
  BY <1>1, <1>2 DEF ChildrenOf, EntriesOf
<1>4. ASSUME NEW c
      PROVE  c \in Linked(ns) <=> \E p \in PageIds : \E i \in 1 .. Len(ns[p].children) : ns[p].children[i] = c
  <2>1. c \in Members(C) <=> \E p \in PageIds : \E i \in 1 .. Len(C[p]) : C[p][i] = c
    <3>1. C \in [PageIds -> Seq(PageIds)]
      BY <1>3
    <3>2. QED
      BY <3>1, MemberPlaces
  <2>2. QED
    BY <1>2, <1>3, <2>1 DEF Linked
<1>5. ASSUME NEW k
      PROVE  k \in KeysIn(ns) <=> \E p \in PageIds : \E i \in 1 .. Len(ns[p].entries) : ns[p].entries[i] = k
  <2>1. k \in Members(E) <=> \E p \in PageIds : \E i \in 1 .. Len(E[p]) : E[p][i] = k
    <3>1. E \in [PageIds -> Seq(Keys)]
      BY <1>3
    <3>2. QED
      BY <3>1, MemberPlaces
  <2>2. QED
    BY <1>2, <1>3, <2>1 DEF KeysIn
<1>6. QED
  BY <1>2, <1>3, <1>4, <1>5

\* A key that goes down from a page may be in the subtree of the child it belongs to.
LEMMA KeyDescends ==
    ASSUME NEW ns \in Pages, NEW height \in Heights, NEW span \in Spans,
           Forest(ns, height, span), OneParent(ns),
           NEW p \in PageIds, NEW i \in 1 .. Len(ns[p].children), NEW k \in span[p], Fits(ns[p], i, {k})
    PROVE  /\ [span EXCEPT ![ns[p].children[i]] = span[ns[p].children[i]] \cup {k}] \in Spans
           /\ Forest(ns, height, [span EXCEPT ![ns[p].children[i]] = span[ns[p].children[i]] \cup {k}])
<1>1. PICK c, span2 : c = ns[p].children[i] /\ span2 = [span EXCEPT ![c] = span[c] \cup {k}]
  OBVIOUS
<1>2. c \in PageIds /\ k \in Nat /\ span[c] \in SUBSET Nat
  BY <1>1, ForestTypes
<1>3. span2 \in Spans /\ span2[c] = span[c] \cup {k} /\ \A q \in PageIds : q # c => span2[q] = span[q]
  BY <1>1, <1>2 DEF Spans
<1>4. ASSUME NEW q \in PageIds
      PROVE  PageOK(ns[q], height[q], span2[q], height, span2)
  <2>1. PageOK(ns[q], height[q], span[q], height, span)
    BY DEF Forest
  <2>2. span[q] \subseteq span2[q]
    BY <1>3
  <2>3. NodeOK(ns[q], height[q]) /\ \A j \in 1 .. Len(ns[q].entries) : ns[q].entries[j] \in span2[q]
    BY <2>1, <2>2 DEF PageOK
  <2>4. ASSUME NEW j \in 1 .. Len(ns[q].children)
        PROVE  LET d == ns[q].children[j]
               IN  height[d] + 1 = height[q] /\ span2[d] \subseteq span2[q] /\ Fits(ns[q], j, span2[d])
    <3>1. PICK d : d = ns[q].children[j]
      OBVIOUS
    <3>2. d \in PageIds
      BY <3>1, ForestTypes
    <3>3. height[d] + 1 = height[q] /\ span[d] \subseteq span[q] /\ Fits(ns[q], j, span[d])
      BY <2>1, <3>1 DEF PageOK
    <3>4. CASE d # c
      <4>1. span2[d] = span[d]
        BY <1>3, <3>2, <3>4
      <4>2. QED
        BY <2>2, <3>1, <3>3, <4>1
    <3>5. CASE d = c
      <4>1. q = p /\ j = i
        <5>1. ns[q].children[j] = ns[p].children[i]
          BY <1>1, <3>1, <3>5
        <5>2. QED
          BY <5>1 DEF OneParent, Once, ChildrenOf
      <4>2. span2[d] = span[d] \cup {k}
        BY <1>3, <3>5
      <4>3. Fits(ns[q], j, span2[d])
        BY <3>3, <4>1, <4>2 DEF Fits
      <4>4. span2[d] \subseteq span2[q]
        BY <2>2, <3>3, <4>1, <4>2
      <4>5. QED
        BY <3>1, <3>3, <4>3, <4>4
    <3>6. QED
      BY <3>4, <3>5
  <2>5. QED
    BY <2>3, <2>4 DEF PageOK
<1>5. QED
  BY <1>1, <1>3, <1>4 DEF Forest

\* A key may come in at a page without a parent.
LEMMA KeyEnters ==
    ASSUME NEW ns \in Pages, NEW height \in Heights, NEW span \in Spans, Forest(ns, height, span),
           NEW r \in PageIds, r \notin Linked(ns), NEW k \in Nat
    PROVE  /\ [span EXCEPT ![r] = span[r] \cup {k}] \in Spans
           /\ Forest(ns, height, [span EXCEPT ![r] = span[r] \cup {k}])
<1>1. PICK span2 : span2 = [span EXCEPT ![r] = span[r] \cup {k}]
  OBVIOUS
<1>2. span[r] \in SUBSET Nat
  BY ForestTypes
<1>3. span2 \in Spans /\ span2[r] = span[r] \cup {k} /\ \A q \in PageIds : q # r => span2[q] = span[q]
  BY <1>1, <1>2 DEF Spans
<1>4. ASSUME NEW q \in PageIds
      PROVE  PageOK(ns[q], height[q], span2[q], height, span2)
  <2>1. /\ PageOK(ns[q], height[q], span[q], height, span) /\ span[q] \subseteq span2[q]
        /\ ns[q] \in Nodes /\ height[q] \in Nat /\ span[q] \in SUBSET Nat /\ span2[q] \in SUBSET Nat
    BY <1>3, ForestTypes DEF Forest
  <2>2. NoMoreBelow(ns[q], height, span, height, span2)
    <3>1. \A i \in 1 .. Len(ns[q].children) : ns[q].children[i] \in PageIds /\ ns[q].children[i] # r
      BY ForestTypes, ForestMembers
    <3>2. QED
      BY <1>3, <3>1 DEF NoMoreBelow
  <2>3. QED
    BY <1>3, <2>1, <2>2, PageKept
<1>5. QED
  BY <1>1, <1>3, <1>4 DEF Forest

\* A page may be replaced by one that does as well.
LEMMA PageReplaced ==
    ASSUME NEW ns \in Pages, NEW height \in Heights, NEW span \in Spans, Forest(ns, height, span),
           NEW c \in PageIds, NEW n \in Nodes, PageOK(n, height[c], span[c], height, span)
    PROVE  [ns EXCEPT ![c] = n] \in Pages /\ Forest([ns EXCEPT ![c] = n], height, span)
  BY DEF Pages, Forest

\* Page c was split: its right half is in the page new, which was blank, and the
\* keys are divided at the separator.
HalvesAt(ns2, ns, c, new, m) ==
    /\ ns[new] = Blank
    /\ Halves(ns[c], m, ns2[c], ns2[new])
    /\ OnlyAtBoth(ns2, ns, c, new)
SplitAt(ns2, height2, span2, ns, height, span, c, new, m) ==
    LET sep == ns[c].entries[m + 1]
    IN  /\ HalvesAt(ns2, ns, c, new, m)
        /\ OnlyAt(height2, height, new) /\ height2[new] = height[c]
        /\ OnlyAtBoth(span2, span, c, new)
        /\ span2[c] = UpTo(span[c], sep) /\ span2[new] = From(span[c], sep)

\* A split whose new half has no parent yet.
LEMMA SplitForest ==
    ASSUME NEW ns \in Pages, NEW height \in Heights, NEW span \in Spans, Forest(ns, height, span),
           NEW ns2 \in Pages, NEW height2 \in Heights, NEW span2 \in Spans,
           NEW c \in PageIds, NEW new \in PageIds, c # new, new \notin Linked(ns),
           NEW m, SplitAt(ns2, height2, span2, ns, height, span, c, new, m)
    PROVE  Forest(ns2, height2, span2)
<1>0. PICK l, r, sep : l = ns2[c] /\ r = ns2[new] /\ sep = ns[c].entries[m + 1]
  OBVIOUS
<1>1. /\ ns[c] \in Nodes /\ height[c] \in Nat /\ span[c] \in SUBSET Nat
      /\ l \in Nodes /\ r \in Nodes /\ Halves(ns[c], m, l, r)
  BY <1>0, ForestTypes DEF Pages, SplitAt, HalvesAt
<1>2. PICK L, R : L = UpTo(span[c], sep) /\ R = From(span[c], sep)
  OBVIOUS
<1>3. L \in SUBSET Nat /\ R \in SUBSET Nat /\ L \subseteq span[c]
  BY <1>1, <1>2 DEF UpTo, From
<1>4. /\ ns2[c] = l /\ ns2[new] = r /\ \A q \in PageIds : q # c /\ q # new => ns2[q] = ns[q]
  BY <1>0 DEF SplitAt, HalvesAt, OnlyAtBoth
<1>5. /\ height2[new] = height[c] /\ \A q \in PageIds : q # new => height2[q] = height[q]
  BY DEF SplitAt, OnlyAt
<1>6. /\ span2[c] = L /\ span2[new] = R
      /\ \A q \in PageIds : q # c /\ q # new => span2[q] = span[q]
  BY <1>0, <1>2 DEF SplitAt, OnlyAtBoth
<1>7. \A q \in PageIds : q # new => height2[q] = height[q] /\ span2[q] \subseteq span[q]
  BY <1>3, <1>5, <1>6
<1>8. PageOK(l, height[c], L, height, span) /\ PageOK(r, height[c], R, height, span)
  <2>1. PageOK(ns[c], height[c], span[c], height, span)
    BY DEF Forest
  <2>2. QED
    BY <1>0, <1>1, <1>2, <2>1, HalfPages
<1>9. \A q \in PageIds : \A i \in 1 .. Len(ns[q].children) :
         ns[q].children[i] \in PageIds /\ ns[q].children[i] # new
  BY ForestTypes, ForestMembers
<1>10. /\ \A i \in 1 .. Len(l.children) : l.children[i] \in PageIds /\ l.children[i] # new
       /\ \A i \in 1 .. Len(r.children) : r.children[i] \in PageIds /\ r.children[i] # new
  <2>1. /\ \A i \in 1 .. Len(l.children) : i \in 1 .. Len(ns[c].children) /\ l.children[i] = ns[c].children[i]
        /\ \A i \in 1 .. Len(r.children) :
              i + (m + 1) \in 1 .. Len(ns[c].children) /\ r.children[i] = ns[c].children[i + (m + 1)]
    BY <1>1 DEF Halves, Divides
  <2>2. QED
    BY <1>9, <2>1
<1>11. ASSUME NEW n \in Nodes, NEW h \in Nat, NEW K \in SUBSET Nat, PageOK(n, h, K, height, span),
              \A i \in 1 .. Len(n.children) : n.children[i] \in PageIds /\ n.children[i] # new
       PROVE  PageOK(n, h, K, height2, span2)
  <2>1. NoMoreBelow(n, height, span, height2, span2)
    BY <1>7, <1>11 DEF NoMoreBelow
  <2>2. K \subseteq K
    OBVIOUS
  <2>3. QED
    BY <1>5, <1>6, <1>11, <2>1, <2>2, PageKept
<1>12. PageOK(ns2[c], height2[c], span2[c], height2, span2)
  <2>1. PageOK(l, height[c], L, height2, span2)
    BY <1>1, <1>3, <1>8, <1>10, <1>11
  <2>2. QED
    BY <1>4, <1>5, <1>6, <2>1
<1>13. PageOK(ns2[new], height2[new], span2[new], height2, span2)
  <2>1. PageOK(r, height[c], R, height2, span2)
    BY <1>1, <1>3, <1>8, <1>10, <1>11
  <2>2. QED
    BY <1>4, <1>5, <1>6, <2>1
<1>14. ASSUME NEW q \in PageIds, q # c, q # new
       PROVE  PageOK(ns2[q], height2[q], span2[q], height2, span2)
  <2>1. /\ PageOK(ns[q], height[q], span[q], height, span)
        /\ ns[q] \in Nodes /\ height[q] \in Nat /\ span[q] \in SUBSET Nat
    BY ForestTypes DEF Forest
  <2>2. PageOK(ns[q], height[q], span[q], height2, span2)
    BY <1>9, <1>11, <2>1
  <2>3. QED
    BY <1>4, <1>5, <1>6, <1>14, <2>2
<1>15. QED
  BY <1>4, <1>5, <1>6, <1>12, <1>13, <1>14 DEF Forest

-----------------------------------------------------------------------------
(* Insertion into a node *)

\* The position of a key is a gap that has room for it.
LEMMA PositionFits ==
    ASSUME NEW n \in Nodes, Sorted(n.entries), NEW k \in Nat, NEW i \in InsertPositions(n, k)
    PROVE  i \in 1 .. (Len(n.entries) + 1) /\ Fits(n, i, {k})
<1>1. PICK e, N : e = n.entries /\ N = Len(e)
  OBVIOUS
<1>2. e \in Seq(Keys) /\ N \in Nat /\ DOMAIN e = 1 .. N
  BY <1>1 DEF Nodes
<1>3. \A j \in 1 .. N : e[j] \in Nat
  <2>1. \A j \in 1 .. N : e[j] \in Keys
    BY <1>1, <1>2
  <2>2. QED
    BY <2>1, BTreeAssumption
<1>4. \A a, b \in 1 .. N : a < b => e[a] <= e[b]
  BY <1>1 DEF Sorted
<1>5. PICK equal, below : equal = {j \in 1 .. N : e[j] = k} /\ below = {j \in 1 .. N : e[j] < k}
  OBVIOUS
<1>6. i \in IF equal # {} THEN equal ELSE {Cardinality(below) + 1}
  BY <1>1, <1>2, <1>5 DEF InsertPositions
<1>7. SUFFICES i \in 1 .. (N + 1) /\ (i > 1 => e[i - 1] <= k) /\ (i <= N => k <= e[i])
  BY <1>1 DEF Fits
<1>8. CASE equal # {}
  <2>1. i \in 1 .. N /\ e[i] = k
    BY <1>5, <1>6, <1>8
  <2>2. i > 1 => i - 1 \in 1 .. N /\ i - 1 < i
    BY <1>2, <2>1
  <2>3. i > 1 => e[i - 1] <= k
    BY <1>4, <2>1, <2>2
  <2>4. QED
    BY <1>2, <2>1, <2>3
<1>9. CASE equal = {}
  <2>1. PICK S : S = {j \in 1 .. (N + 1) : j = N + 1 \/ ~(e[j] < k)}
    OBVIOUS
  <2>2. S \in SUBSET Nat /\ N + 1 \in S
    BY <1>2, <2>1
  <2>3. PICK j \in S : \A a \in S : j <= a
    BY <2>2, LeastExists
  <2>4. j \in 1 .. (N + 1) /\ (j = N + 1 \/ ~(e[j] < k)) /\ \A a \in 1 .. (N + 1) : a < j => a # N + 1 /\ e[a] < k
    <3>1. j \in 1 .. (N + 1) /\ (j = N + 1 \/ ~(e[j] < k))
      BY <2>1, <2>3
    <3>2. ASSUME NEW a \in 1 .. (N + 1), a < j
          PROVE  a # N + 1 /\ e[a] < k
      <4>1. a \notin S
        BY <1>2, <2>3, <3>1, <3>2
      <4>2. QED
        BY <2>1, <4>1
    <3>3. QED
      BY <3>1, <3>2
  <2>5. below = 1 .. (j - 1)
    <3>1. ASSUME NEW a \in 1 .. N
          PROVE  e[a] < k <=> a < j
      <4>1. a < j => e[a] < k
        BY <1>2, <2>4
      <4>2. ASSUME a > j, e[a] < k
            PROVE  FALSE
        <5>1. j \in 1 .. N /\ e[j] <= e[a] /\ ~(e[j] < k)
          BY <1>2, <1>4, <2>4, <4>2
        <5>2. QED
          BY <1>3, <4>2, <5>1
      <4>3. a = j => ~(e[a] < k)
        BY <1>2, <2>4
      <4>4. QED
        BY <1>2, <2>4, <4>1, <4>2, <4>3
    <3>2. \A a : a \in below <=> a \in 1 .. N /\ a < j
      BY <1>5, <3>1
    <3>3. \A a : a \in 1 .. (j - 1) <=> a \in 1 .. N /\ a < j
      BY <1>2, <2>4
    <3>4. QED
      BY <3>2, <3>3
  <2>6. Cardinality(below) = j - 1
    BY <2>4, <2>5, FS_Interval
  <2>7. i = j
    BY <1>6, <1>9, <2>4, <2>6
  <2>8. i > 1 => e[i - 1] <= k
    <3>1. i > 1 => i - 1 \in 1 .. (N + 1) /\ i - 1 < j /\ i - 1 \in 1 .. N
      BY <1>2, <2>4, <2>7
    <3>2. i > 1 => e[i - 1] < k
      BY <2>4, <3>1
    <3>3. QED
      BY <1>3, <3>1, <3>2
  <2>9. i <= N => k <= e[i]
    BY <1>2, <1>3, <2>4, <2>7
  <2>10. QED
    BY <2>4, <2>7, <2>8, <2>9
<1>10. QED
  BY <1>8, <1>9

\* A key that a node does not have belongs to one gap.
LEMMA OneGap ==
    ASSUME NEW n \in Nodes, Sorted(n.entries), NEW k \in Nat,
           \A a \in 1 .. Len(n.entries) : n.entries[a] # k,
           NEW i \in 1 .. (Len(n.entries) + 1), NEW j \in 1 .. (Len(n.entries) + 1),
           Fits(n, i, {k}), Fits(n, j, {k})
    PROVE  i = j
<1>1. PICK e, N : e = n.entries /\ N = Len(e)
  OBVIOUS
<1>2. N \in Nat /\ \A a \in 1 .. N : e[a] \in Nat /\ e[a] # k
  <2>1. N \in Nat /\ \A a \in 1 .. N : e[a] \in Keys /\ e[a] # k
    BY <1>1 DEF Nodes
  <2>2. QED
    BY <2>1, BTreeAssumption
<1>3. \A a, b \in 1 .. N : a < b => e[a] <= e[b]
  BY <1>1 DEF Sorted
<1>4. ASSUME NEW a \in 1 .. (N + 1), NEW b \in 1 .. (N + 1), Fits(n, a, {k}), Fits(n, b, {k}), a < b
      PROVE  FALSE
  <2>1. (a <= N => k <= e[a]) /\ (b > 1 => e[b - 1] <= k)
    BY <1>1, <1>4 DEF Fits
  <2>2. a \in 1 .. N /\ b - 1 \in 1 .. N /\ a <= N /\ b > 1
    BY <1>2, <1>4
  <2>3. e[a] <= e[b - 1]
    <3>1. CASE a = b - 1
      BY <1>2, <2>2, <3>1
    <3>2. CASE a # b - 1
      BY <1>2, <1>3, <1>4, <2>2, <3>2
    <3>3. QED
      BY <3>1, <3>2
  <2>4. k <= e[a] /\ e[b - 1] <= k /\ e[a] # k /\ e[a] \in Nat /\ e[b - 1] \in Nat
    BY <1>2, <2>1, <2>2
  <2>5. QED
    BY <2>3, <2>4
<1>5. i \in Nat /\ j \in Nat
  BY <1>1, <1>2
<1>6. ~(i < j) /\ ~(j < i)
  BY <1>1, <1>4
<1>7. QED
  BY <1>5, <1>6

\* A sorted sequence stays sorted when a key is put into its gap.
LEMMA SortedWith ==
    ASSUME NEW n \in Nodes, Sorted(n.entries), NEW k \in Keys,
           NEW i \in 1 .. (Len(n.entries) + 1), Fits(n, i, {k}),
           NEW new, IsInserted(new, Keys, n.entries, i, k)
    PROVE  Sorted(new)
<1>1. PICK e, N : e = n.entries /\ N = Len(e)
  OBVIOUS
<1>2. N \in Nat /\ k \in Nat /\ \A a \in 1 .. N : e[a] \in Nat
  <2>1. N \in Nat /\ k \in Keys /\ \A a \in 1 .. N : e[a] \in Keys
    BY <1>1 DEF Nodes
  <2>2. QED
    BY <2>1, BTreeAssumption
<1>3. \A a, b \in 1 .. N : a < b => e[a] <= e[b]
  BY <1>1 DEF Sorted
<1>4. i \in 1 .. (N + 1) /\ (i > 1 => e[i - 1] <= k) /\ (i <= N => k <= e[i])
  BY <1>1 DEF Fits
<1>5. /\ Len(new) = N + 1
      /\ \A a \in 1 .. (N + 1) : new[a] = IF a < i THEN e[a] ELSE IF a = i THEN k ELSE e[a - 1]
  BY <1>1 DEF IsInserted
<1>6. \A a \in 1 .. N : a < i => e[a] <= k
  <2>1. ASSUME NEW a \in 1 .. N, a < i
        PROVE  e[a] <= k
    <3>1. i - 1 \in 1 .. N /\ i > 1 /\ (a = i - 1 \/ a < i - 1)
      BY <1>2, <1>4, <2>1
    <3>2. e[a] <= e[i - 1]
      <4>1. CASE a = i - 1
        BY <1>2, <3>1, <4>1
      <4>2. CASE a < i - 1
        BY <1>3, <3>1, <4>2
      <4>3. QED
        BY <3>1, <4>1, <4>2
    <3>3. QED
      BY <1>2, <1>4, <3>1, <3>2
  <2>2. QED
    BY <2>1
<1>7. \A a \in 1 .. N : a >= i => k <= e[a]
  <2>1. ASSUME NEW a \in 1 .. N, a >= i
        PROVE  k <= e[a]
    <3>1. i \in 1 .. N /\ (a = i \/ i < a)
      BY <1>2, <1>4, <2>1
    <3>2. e[i] <= e[a]
      <4>1. CASE a = i
        BY <1>2, <3>1, <4>1
      <4>2. CASE i < a
        BY <1>3, <3>1, <4>2
      <4>3. QED
        BY <3>1, <4>1, <4>2
    <3>3. QED
      BY <1>2, <1>4, <3>1, <3>2
  <2>2. QED
    BY <2>1
<1>8. ASSUME NEW a \in 1 .. (N + 1), NEW b \in 1 .. (N + 1), a < b
      PROVE  new[a] <= new[b]
  <2>1. CASE a < i
    <3>1. a \in 1 .. N /\ new[a] = e[a] /\ e[a] <= k
      BY <1>2, <1>4, <1>5, <1>6, <2>1
    <3>2. CASE b < i
      BY <1>2, <1>3, <1>4, <1>5, <1>8, <3>1, <3>2
    <3>3. CASE b = i
      BY <1>5, <3>1, <3>3
    <3>4. CASE b > i
      <4>1. b - 1 \in 1 .. N /\ new[b] = e[b - 1] /\ b - 1 >= i /\ k <= e[b - 1]
        BY <1>2, <1>4, <1>5, <1>7, <3>4
      <4>2. QED
        BY <1>2, <3>1, <4>1
    <3>5. QED
      BY <1>2, <1>4, <3>2, <3>3, <3>4
  <2>2. CASE a = i
    <3>1. b - 1 \in 1 .. N /\ new[b] = e[b - 1] /\ b - 1 >= i /\ k <= e[b - 1] /\ new[a] = k
      BY <1>2, <1>4, <1>5, <1>7, <1>8, <2>2
    <3>2. QED
      BY <3>1
  <2>3. CASE a > i
    <3>1. /\ b - 1 \in 1 .. N /\ a - 1 \in 1 .. N /\ a - 1 < b - 1
          /\ new[b] = e[b - 1] /\ new[a] = e[a - 1]
      BY <1>2, <1>4, <1>5, <1>8, <2>3
    <3>2. QED
      BY <1>3, <3>1
  <2>4. QED
    BY <1>2, <1>4, <2>1, <2>2, <2>3
<1>9. QED
  BY <1>5, <1>8 DEF Sorted

\* A node of three parts.
LEMMA NodeMade ==
    ASSUME NEW b \in BOOLEAN, NEW e \in Seq(Keys), NEW c \in Seq(PageIds)
    PROVE  /\ Node(b, e, c) \in Nodes
           /\ Node(b, e, c).leaf = b /\ Node(b, e, c).entries = e /\ Node(b, e, c).children = c
  BY DEF Nodes, Node

\* A page with one more entry: the others keep their order.
LEMMA EntryInserted ==
    ASSUME NEW n \in Nodes, NEW K \in SUBSET Nat, NEW k \in Keys, k \in K,
           NEW i \in 1 .. (Len(n.entries) + 1), Fits(n, i, {k}), Sorted(n.entries), ~IsFull(n),
           \A a \in 1 .. Len(n.entries) : n.entries[a] \in K,
           NEW new, IsInserted(new, Keys, n.entries, i, k)
    PROVE  /\ new \in Seq(Keys) /\ Sorted(new) /\ Len(new) <= MaxKeys /\ Len(new) = Len(n.entries) + 1
           /\ \A a \in 1 .. Len(new) : new[a] \in K
<1>1. Sorted(new)
  BY SortedWith
<1>2. PICK e, N : e = n.entries /\ N = Len(e)
  OBVIOUS
<1>3. N \in Nat /\ N < MaxKeys /\ MaxKeys \in Nat
  BY <1>2, BTreeAssumption DEF IsFull, Nodes
<1>4. /\ new \in Seq(Keys) /\ Len(new) = N + 1
      /\ \A a \in 1 .. (N + 1) : new[a] = IF a < i THEN e[a] ELSE IF a = i THEN k ELSE e[a - 1]
  BY <1>2 DEF IsInserted
<1>5. ASSUME NEW a \in 1 .. (N + 1)
      PROVE  new[a] \in K
  <2>1. i \in 1 .. (N + 1) /\ \A b \in 1 .. N : e[b] \in K
    BY <1>2
  <2>2. a < i => a \in 1 .. N
    BY <1>3, <2>1
  <2>3. a > i => a - 1 \in 1 .. N /\ ~(a < i) /\ a # i
    BY <1>3, <2>1
  <2>4. a < i \/ a = i \/ a > i
    BY <1>3, <2>1
  <2>5. QED
    BY <1>4, <2>1, <2>2, <2>3, <2>4
<1>6. QED
  BY <1>1, <1>2, <1>3, <1>4, <1>5

\* Key k, one of K, fits in leaf n at i.
HasRoom(n, i, k, K) ==
    /\ n.leaf /\ ~IsFull(n)
    /\ k \in K /\ i \in 1 .. (Len(n.entries) + 1) /\ Fits(n, i, {k})

\* A leaf with one more entry.
With(n, i, k) == [n EXCEPT !.entries = InsertAt(n.entries, i, k)]

\* The leaf has one more entry, and the others keep their order.
LEMMA LeafWith ==
    ASSUME NEW n \in Nodes, NEW h \in Nat, NEW K \in SUBSET Nat,
           NEW height \in Heights, NEW span \in Spans, PageOK(n, h, K, height, span),
           NEW k \in Keys, NEW i, HasRoom(n, i, k, K)
    PROVE  /\ With(n, i, k) \in Nodes /\ PageOK(With(n, i, k), h, K, height, span)
           /\ With(n, i, k).leaf /\ With(n, i, k).children = n.children
           /\ IsInserted(With(n, i, k).entries, Keys, n.entries, i, k)
<1>0. PICK n2 : n2 = With(n, i, k)
  OBVIOUS
<1>1. n.entries \in Seq(Keys) /\ n.children \in Seq(PageIds) /\ n.leaf \in BOOLEAN
  BY DEF Nodes
<1>2. k \in Nat
  BY BTreeAssumption
<1>3. NodeOK(n, h) /\ Sorted(n.entries) /\ \A a \in 1 .. Len(n.entries) : n.entries[a] \in K
  BY DEF PageOK, NodeOK
<1>4. i \in 1 .. (Len(n.entries) + 1) /\ Fits(n, i, {k}) /\ k \in K /\ ~IsFull(n) /\ n.leaf
  BY DEF HasRoom
<1>5. PICK new : new = InsertAt(n.entries, i, k)
  OBVIOUS
<1>6. IsInserted(new, Keys, n.entries, i, k)
  BY <1>1, <1>4, <1>5, InsertedAt
<1>7. /\ new \in Seq(Keys) /\ Sorted(new) /\ Len(new) <= MaxKeys
      /\ \A a \in 1 .. Len(new) : new[a] \in K
  BY <1>3, <1>4, <1>6, EntryInserted
<1>8. n2 = [leaf |-> n.leaf, entries |-> new, children |-> n.children]
  BY <1>0, <1>5 DEF Nodes, With
<1>9. n2 \in Nodes /\ n2.leaf = n.leaf /\ n2.children = n.children /\ n2.entries = new
  <2>1. PICK b, cs, n3 : b = n.leaf /\ cs = n.children /\ n3 = Node(b, new, cs)
    OBVIOUS
  <2>2. b \in BOOLEAN /\ cs \in Seq(PageIds) /\ new \in Seq(Keys)
    BY <1>1, <1>7, <2>1
  <2>3. n3 \in Nodes /\ n3.leaf = b /\ n3.children = cs /\ n3.entries = new
    <3>1. /\ Node(b, new, cs) \in Nodes
          /\ Node(b, new, cs).leaf = b /\ Node(b, new, cs).entries = new /\ Node(b, new, cs).children = cs
      BY <2>2, NodeMade
    <3>2. QED
      BY <2>1, <3>1
  <2>4. n2 = n3
    BY <1>8, <2>1 DEF Node
  <2>5. QED
    BY <2>1, <2>3, <2>4
<1>10. n2.children = <<>>
  BY <1>3, <1>4, <1>9 DEF NodeOK
<1>11. NodeOK(n2, h)
  BY <1>3, <1>7, <1>9, <1>10 DEF NodeOK
<1>12. PageOK(n2, h, K, height, span)
  BY <1>7, <1>9, <1>10, <1>11 DEF PageOK
<1>13. QED
  BY <1>0, <1>4, <1>6, <1>9, <1>12

\* A leaf with one entry less.
Without(n, i) == [n EXCEPT !.entries = RemoveAt(n.entries, i)]

\* The leaf loses that entry and stays in order.
LEMMA LeafWithout ==
    ASSUME NEW n \in Nodes, NEW h \in Nat, NEW K \in SUBSET Nat,
           NEW height \in Heights, NEW span \in Spans, PageOK(n, h, K, height, span),
           n.leaf, NEW i \in 1 .. Len(n.entries)
    PROVE  /\ Without(n, i) \in Nodes /\ PageOK(Without(n, i), h, K, height, span)
           /\ Without(n, i).leaf /\ Without(n, i).children = n.children
           /\ IsRemoved(Without(n, i).entries, Keys, n.entries, i)
<1>0. PICK n2 : n2 = Without(n, i)
  OBVIOUS
<1>1. n.entries \in Seq(Keys) /\ n.children \in Seq(PageIds) /\ n.leaf \in BOOLEAN
  BY DEF Nodes
<1>2. PICK e, N, new : e = n.entries /\ N = Len(e) /\ new = RemoveAt(e, i)
  OBVIOUS
<1>3. IsRemoved(new, Keys, e, i)
  BY <1>1, <1>2, RemovedAt
<1>4. /\ N \in Nat /\ i \in 1 .. N
      /\ new \in Seq(Keys) /\ Len(new) = N - 1
      /\ \A a \in 1 .. (N - 1) : new[a] = IF a < i THEN e[a] ELSE e[a + 1]
  BY <1>1, <1>2, <1>3 DEF IsRemoved
<1>5. /\ NodeOK(n, h) /\ Len(e) <= MaxKeys
      /\ \A a, b \in 1 .. N : a < b => e[a] <= e[b]
      /\ \A a \in 1 .. N : e[a] \in K
  BY <1>2 DEF PageOK, NodeOK, Sorted
<1>6. PICK f : f = [a \in 1 .. (N - 1) |-> IF a < i THEN a ELSE a + 1]
  OBVIOUS
<1>7. /\ \A a \in 1 .. (N - 1) : f[a] \in 1 .. N /\ new[a] = e[f[a]]
      /\ \A a, b \in 1 .. (N - 1) : a < b => f[a] < f[b]
  BY <1>4, <1>6
<1>8. Sorted(new) /\ \A a \in 1 .. Len(new) : new[a] \in K
  BY <1>4, <1>5, <1>7 DEF Sorted
<1>9. Len(new) <= MaxKeys
  BY <1>2, <1>4, <1>5, BTreeAssumption
<1>10. n2 = [leaf |-> n.leaf, entries |-> new, children |-> n.children]
  BY <1>0, <1>2 DEF Nodes, Without
<1>11. n2 \in Nodes /\ n2.leaf = n.leaf /\ n2.children = n.children /\ n2.entries = new
  <2>1. PICK b, cs, n3 : b = n.leaf /\ cs = n.children /\ n3 = Node(b, new, cs)
    OBVIOUS
  <2>2. b \in BOOLEAN /\ cs \in Seq(PageIds) /\ new \in Seq(Keys)
    BY <1>1, <1>4, <2>1
  <2>3. n3 \in Nodes /\ n3.leaf = b /\ n3.children = cs /\ n3.entries = new
    <3>1. /\ Node(b, new, cs) \in Nodes
          /\ Node(b, new, cs).leaf = b /\ Node(b, new, cs).entries = new /\ Node(b, new, cs).children = cs
      BY <2>2, NodeMade
    <3>2. QED
      BY <2>1, <3>1
  <2>4. n2 = n3
    BY <1>10, <2>1 DEF Node
  <2>5. QED
    BY <2>1, <2>3, <2>4
<1>12. n2.children = <<>>
  BY <1>5, <1>11 DEF NodeOK
<1>13. NodeOK(n2, h)
  BY <1>5, <1>8, <1>9, <1>11, <1>12 DEF NodeOK
<1>14. PageOK(n2, h, K, height, span)
  BY <1>8, <1>11, <1>12, <1>13 DEF PageOK
<1>15. QED
  BY <1>0, <1>2, <1>3, <1>11, <1>14

\* Page new goes behind child i, with sep between them.
Beside(n, h, K, height, span, i, sep, new) ==
    /\ sep \in K /\ Fits(n, i, {sep})
    /\ height[new] + 1 = h /\ span[new] \subseteq K /\ Fits(n, i, span[new])
    /\ span[n.children[i]] \subseteq UpTo(Nat, sep) /\ span[new] \subseteq From(Nat, sep)

\* g is page n with the new child.
IsGrown(g, n, h, K, height, span, i, sep, new) ==
    /\ g \in Nodes /\ PageOK(g, h, K, height, span) /\ ~g.leaf
    /\ IsInserted(g.entries, Keys, n.entries, i, sep)
    /\ IsInserted(g.children, PageIds, n.children, i + 1, new)

\* A parent that has room for a separator and the new half beside it.
LEMMA GrownPage ==
    ASSUME NEW n \in Nodes, NEW h \in Nat, NEW K \in SUBSET Nat,
           NEW height \in Heights, NEW span \in Spans, PageOK(n, h, K, height, span),
           ~IsFull(n), NEW i \in 1 .. Len(n.children), NEW new \in PageIds,
           NEW sep \in Keys, Beside(n, h, K, height, span, i, sep, new)
    PROVE  IsGrown(Grown(n, i, sep, new), n, h, K, height, span, i, sep, new)
<1>0. PICK g : g = Grown(n, i, sep, new)
  OBVIOUS
<1>1. n.entries \in Seq(Keys) /\ n.children \in Seq(PageIds) /\ n.leaf \in BOOLEAN
  BY DEF Nodes
<1>2. /\ NodeOK(n, h) /\ Sorted(n.entries)
      /\ \A a \in 1 .. Len(n.entries) : n.entries[a] \in K
  BY DEF PageOK, NodeOK
<1>3. PICK e, c, N, ge, gc : /\ e = n.entries /\ c = n.children /\ N = Len(e)
                             /\ ge = InsertAt(e, i, sep) /\ gc = InsertAt(c, i + 1, new)
  OBVIOUS
<1>4. e \in Seq(Keys) /\ c \in Seq(PageIds) /\ N \in Nat /\ i \in 1 .. Len(c) /\ Len(c) \in Nat
  BY <1>1, <1>3
<1>5. ~n.leaf /\ Len(c) = N + 1 /\ i \in 1 .. (N + 1) /\ h # 0
  <2>1. c # <<>>
    BY <1>4
  <2>2. ~n.leaf
    BY <1>2, <1>3, <2>1 DEF NodeOK
  <2>3. QED
    BY <1>2, <1>3, <1>4, <2>2 DEF NodeOK
<1>6. IsInserted(ge, Keys, e, i, sep)
  BY <1>3, <1>4, <1>5, InsertedAt
<1>7. IsInserted(gc, PageIds, c, i + 1, new)
  <2>1. PICK j : j = i + 1
    OBVIOUS
  <2>2. j \in 1 .. (Len(c) + 1)
    BY <1>4, <2>1
  <2>3. IsInserted(InsertAt(c, j, new), PageIds, c, j, new)
    BY <1>4, <2>2, InsertedAt
  <2>4. QED
    BY <1>3, <2>1, <2>3
<1>8. /\ ge \in Seq(Keys) /\ Sorted(ge) /\ Len(ge) <= MaxKeys /\ Len(ge) = N + 1
      /\ \A a \in 1 .. Len(ge) : ge[a] \in K
  BY <1>2, <1>3, <1>5, <1>6, EntryInserted DEF Beside
<1>9. /\ gc \in Seq(PageIds) /\ Len(gc) = N + 2
      /\ \A a \in 1 .. (N + 2) : gc[a] = IF a < i + 1 THEN c[a] ELSE IF a = i + 1 THEN new ELSE c[a - 1]
  BY <1>4, <1>5, <1>7 DEF IsInserted
<1>10. g = [leaf |-> n.leaf, entries |-> ge, children |-> gc]
  BY <1>0, <1>3 DEF Nodes, Grown
<1>11. g \in Nodes /\ g.leaf = n.leaf /\ g.entries = ge /\ g.children = gc
  BY <1>1, <1>8, <1>9, <1>10 DEF Nodes
<1>12. NodeOK(g, h)
  <2>1. Len(gc) = Len(ge) + 1
    BY <1>4, <1>8, <1>9
  <2>2. QED
    BY <1>5, <1>8, <1>11, <2>1 DEF NodeOK
<1>13. \A a \in 1 .. (N + 1) : ge[a] = IF a < i THEN e[a] ELSE IF a = i THEN sep ELSE e[a - 1]
  BY <1>3, <1>6 DEF IsInserted
<1>14. \A a \in 1 .. (N + 1) :
         /\ height[c[a]] + 1 = h /\ span[c[a]] \subseteq K
         /\ \A k \in span[c[a]] : (a > 1 => e[a - 1] <= k) /\ (a <= N => k <= e[a])
  <2>1. \A a \in 1 .. Len(c) : height[c[a]] + 1 = h /\ span[c[a]] \subseteq K /\ Fits(n, a, span[c[a]])
    BY <1>3 DEF PageOK
  <2>2. QED
    BY <1>3, <1>5, <2>1 DEF Fits
<1>15. /\ \A k \in span[c[i]] : k <= sep
       /\ \A k \in span[new] : sep <= k /\ (i > 1 => e[i - 1] <= k) /\ (i <= N => k <= e[i])
  BY <1>3 DEF UpTo, From, Fits, Beside
<1>16. ASSUME NEW a \in 1 .. (N + 2)
       PROVE  LET d == gc[a] IN height[d] + 1 = h /\ span[d] \subseteq K /\ Fits(g, a, span[d])
  <2>1. PICK d : d = gc[a]
    OBVIOUS
  <2>2. i \in Nat /\ N \in Nat /\ a \in Nat /\ i >= 1 /\ i <= N + 1 /\ a >= 1 /\ a <= N + 2
    BY <1>4, <1>5
  <2>3. CASE a < i
    <3>1. d = c[a] /\ a \in 1 .. (N + 1)
      BY <1>9, <2>1, <2>2, <2>3
    <3>2. /\ a > 1 => ge[a - 1] = e[a - 1]
          /\ a <= N + 1 => ge[a] = e[a] /\ a <= N
      BY <1>13, <2>2, <2>3
    <3>3. Fits(g, a, span[d])
      BY <1>8, <1>11, <1>14, <3>1, <3>2 DEF Fits
    <3>4. QED
      BY <1>14, <2>1, <3>1, <3>3
  <2>4. CASE a = i
    <3>1. d = c[i] /\ a \in 1 .. (N + 1)
      BY <1>9, <2>1, <2>2, <2>4
    <3>2. /\ a > 1 => ge[a - 1] = e[a - 1]
          /\ ge[a] = sep
      BY <1>13, <2>2, <2>4
    <3>3. Fits(g, a, span[d])
      BY <1>8, <1>11, <1>14, <1>15, <2>4, <3>1, <3>2 DEF Fits
    <3>4. QED
      BY <1>14, <2>1, <2>4, <3>1, <3>3
  <2>5. CASE a = i + 1
    <3>1. d = new /\ a - 1 = i
      BY <1>9, <2>1, <2>2, <2>5
    <3>2. /\ ge[a - 1] = sep
          /\ a <= N + 1 => ge[a] = e[i] /\ i <= N
      BY <1>13, <2>2, <2>5, <3>1
    <3>3. Fits(g, a, span[d])
      BY <1>8, <1>11, <1>15, <3>1, <3>2 DEF Fits
    <3>4. QED
      BY <2>1, <3>1, <3>3 DEF Beside
  <2>6. CASE a > i + 1
    <3>1. PICK b : b = a - 1
      OBVIOUS
    <3>2. d = c[b] /\ b \in 1 .. (N + 1) /\ b > 1 /\ b = a - 1
      BY <1>9, <2>1, <2>2, <2>6, <3>1
    <3>3. /\ ge[a - 1] = e[b - 1]
          /\ a <= N + 1 => ge[a] = e[b] /\ b <= N
      BY <1>13, <2>2, <2>6, <3>2
    <3>4. Fits(g, a, span[d])
      BY <1>8, <1>11, <1>14, <3>2, <3>3 DEF Fits
    <3>5. QED
      BY <1>14, <2>1, <3>2, <3>4
  <2>7. a < i \/ a = i \/ a = i + 1 \/ a > i + 1
    BY <2>2
  <2>8. QED
    BY <2>3, <2>4, <2>5, <2>6, <2>7, Zenon
<1>17. PageOK(g, h, K, height, span)
  BY <1>8, <1>9, <1>11, <1>12, <1>16 DEF PageOK
<1>18. QED
  BY <1>0, <1>3, <1>5, <1>6, <1>7, <1>11, <1>17 DEF IsGrown

\* left and right have the keys K on either side of sep.
Above(h, K, height, span, sep, left, right) ==
    /\ sep \in K
    /\ height[left] + 1 = h /\ height[right] + 1 = h
    /\ span[left] \subseteq K /\ span[right] \subseteq K
    /\ span[left] \subseteq UpTo(Nat, sep) /\ span[right] \subseteq From(Nat, sep)

\* n is a root page with two children.
IsTop(n, h, K, height, span, sep, left, right) ==
    /\ n \in Nodes /\ PageOK(n, h, K, height, span) /\ ~IsFull(n)
    /\ n.entries = <<sep>> /\ n.children = <<left, right>>

\* The new root above the two halves of the old one.
LEMMA RootPage ==
    ASSUME NEW height \in Heights, NEW span \in Spans, NEW h \in Nat, NEW K \in SUBSET Nat,
           NEW sep \in Keys, NEW left \in PageIds, NEW right \in PageIds,
           Above(h, K, height, span, sep, left, right)
    PROVE  IsTop(NewRoot(sep, left, right), h, K, height, span, sep, left, right)
<1>0. PICK top : top = NewRoot(sep, left, right)
  OBVIOUS
<1>1. top = [leaf |-> FALSE, entries |-> <<sep>>, children |-> <<left, right>>]
  BY <1>0 DEF NewRoot, Node
<1>2. /\ <<sep>> \in Seq(Keys) /\ Len(<<sep>>) = 1 /\ <<sep>>[1] = sep
      /\ <<left, right>> \in Seq(PageIds) /\ Len(<<left, right>>) = 2
      /\ <<left, right>>[1] = left /\ <<left, right>>[2] = right
  OBVIOUS
<1>3. top \in Nodes /\ ~top.leaf /\ top.entries = <<sep>> /\ top.children = <<left, right>>
  BY <1>1, <1>2 DEF Nodes
<1>4. MaxKeys \in Nat /\ MaxKeys >= 3
  BY BTreeAssumption
<1>5. h # 0
  BY DEF Heights, Above
<1>6. NodeOK(top, h) /\ ~IsFull(top)
  BY <1>2, <1>3, <1>4, <1>5 DEF NodeOK, Sorted, IsFull
<1>7. (\A k \in span[left] : k <= sep) /\ (\A k \in span[right] : sep <= k)
  BY DEF UpTo, From, Above
<1>8. Fits(top, 1, span[left]) /\ Fits(top, 2, span[right])
  BY <1>2, <1>3, <1>7 DEF Fits
<1>9. \A i \in 1 .. 2 : LET c == <<left, right>>[i]
                        IN  height[c] + 1 = h /\ span[c] \subseteq K /\ Fits(top, i, span[c])
  <2>1. \A i \in 1 .. 2 : i = 1 \/ i = 2
    OBVIOUS
  <2>2. QED
    BY <1>2, <1>8, <2>1 DEF Above
<1>10. PageOK(top, h, K, height, span)
  BY <1>2, <1>3, <1>6, <1>9 DEF PageOK, Above
<1>11. QED
  BY <1>0, <1>3, <1>6, <1>10 DEF IsTop

-----------------------------------------------------------------------------
(* What the sequences of all pages hold *)

\* An element is inserted.
LEMMA MemberInserted ==
    ASSUME NEW S, NEW F \in [PageIds -> Seq(S)], NEW F2 \in [PageIds -> Seq(S)], NEW p \in PageIds,
           NEW i \in 1 .. (Len(F[p]) + 1), NEW x, IsInserted(F2[p], S, F[p], i, x), OnlyAt(F2, F, p)
    PROVE  /\ Members(F2) = Members(F) \cup {x}
           /\ Once(F) /\ x \notin Members(F) => Once(F2)
<1>1. \A q \in PageIds : F[q] \in Seq(S) /\ F2[q] \in Seq(S) /\ Len(F[q]) \in Nat /\ Len(F2[q]) \in Nat
  OBVIOUS
<1>2. PICK N : N = Len(F[p])
  OBVIOUS
<1>3. /\ N \in Nat /\ i \in 1 .. (N + 1) /\ Len(F2[p]) = N + 1
      /\ \A k \in 1 .. (N + 1) : F2[p][k] = IF k < i THEN F[p][k] ELSE IF k = i THEN x ELSE F[p][k - 1]
  BY <1>1, <1>2 DEF IsInserted
<1>4. \A q \in PageIds : q # p => F2[q] = F[q]
  BY DEF OnlyAt
<1>5. \A k \in 1 .. (N + 1) : \/ k = i /\ F2[p][k] = x
                              \/ k < i /\ k \in 1 .. N /\ F2[p][k] = F[p][k]
                              \/ k > i /\ k - 1 \in 1 .. N /\ F2[p][k] = F[p][k - 1]
  BY <1>3
<1>6. \A k \in 1 .. N : \/ k < i /\ k \in 1 .. (N + 1) /\ F2[p][k] = F[p][k]
                        \/ k + 1 > i /\ k + 1 \in 1 .. (N + 1) /\ F2[p][k + 1] = F[p][k]
  <2>1. ASSUME NEW k \in 1 .. N, ~(k < i)
        PROVE  k + 1 > i /\ k + 1 \in 1 .. (N + 1) /\ F2[p][k + 1] = F[p][k]
    <3>1. PICK j : j = k + 1
      OBVIOUS
    <3>2. j > i /\ j \in 1 .. (N + 1) /\ j - 1 = k /\ ~(j < i) /\ j # i
      BY <1>3, <2>1, <3>1
    <3>3. F2[p][j] = F[p][k]
      BY <1>3, <3>2
    <3>4. QED
      BY <3>1, <3>2, <3>3
  <2>2. QED
    BY <1>3, <2>1
<1>7. F2[p][i] = x /\ i \in 1 .. Len(F2[p])
  BY <1>3
<1>8. ASSUME NEW y
      PROVE  y \in Members(F2) <=> y \in Members(F) \/ y = x
  <2>1. ASSUME NEW q \in PageIds, NEW k \in 1 .. Len(F2[q]), F2[q][k] = y, y # x
        PROVE  \E a \in PageIds : \E b \in 1 .. Len(F[a]) : F[a][b] = y
    <3>1. CASE q = p
      BY <1>2, <1>3, <1>5, <2>1, <3>1
    <3>2. CASE q # p
      BY <1>4, <2>1, <3>2
    <3>3. QED
      BY <3>1, <3>2
  <2>2. ASSUME NEW q \in PageIds, NEW k \in 1 .. Len(F[q]), F[q][k] = y
        PROVE  \E a \in PageIds : \E b \in 1 .. Len(F2[a]) : F2[a][b] = y
    <3>1. CASE q = p
      BY <1>2, <1>3, <1>6, <2>2, <3>1
    <3>2. CASE q # p
      BY <1>4, <2>2, <3>2
    <3>3. QED
      BY <3>1, <3>2
  <2>3. y \in Members(F) <=> \E q \in PageIds : \E k \in 1 .. Len(F[q]) : F[q][k] = y
    BY MemberPlaces
  <2>4. y \in Members(F2) <=> \E q \in PageIds : \E k \in 1 .. Len(F2[q]) : F2[q][k] = y
    BY MemberPlaces
  <2>5. QED
    BY <1>7, <2>1, <2>2, <2>3, <2>4
<1>9. Members(F2) = Members(F) \cup {x}
  BY <1>8
<1>10. ASSUME Once(F), x \notin Members(F)
       PROVE  Once(F2)
  <2>1. \A q \in PageIds : \A k \in 1 .. Len(F[q]) : F[q][k] # x
    BY <1>10, MemberPlaces
  <2>2. PICK f : f = [q \in PageIds |-> [k \in 1 .. Len(F2[q]) |-> IF q = p /\ k > i THEN k - 1 ELSE k]]
    OBVIOUS
  <2>3. ASSUME NEW q \in PageIds, NEW k \in 1 .. Len(F2[q]), ~(q = p /\ k = i)
        PROVE  /\ f[q][k] \in 1 .. Len(F[q]) /\ F2[q][k] = F[q][f[q][k]]
               /\ F2[q][k] # x
    <3>1. f[q][k] = IF q = p /\ k > i THEN k - 1 ELSE k
      BY <2>2
    <3>2. CASE q # p
      BY <1>4, <2>1, <3>1, <3>2
    <3>3. CASE q = p /\ k < i
      <4>1. k \in 1 .. N /\ F2[p][k] = F[p][k] /\ f[q][k] = k
        BY <1>3, <1>5, <3>1, <3>3
      <4>2. QED
        BY <1>2, <2>1, <3>3, <4>1
    <3>4. CASE q = p /\ k > i
      <4>1. k - 1 \in 1 .. N /\ F2[p][k] = F[p][k - 1] /\ f[q][k] = k - 1
        BY <1>3, <1>5, <3>1, <3>4
      <4>2. QED
        BY <1>2, <2>1, <3>4, <4>1
    <3>5. q = p => k < i \/ k = i \/ k > i
      BY <1>3
    <3>6. QED
      BY <2>3, <3>2, <3>3, <3>4, <3>5
  <2>4. ASSUME NEW q \in PageIds, NEW j \in 1 .. Len(F2[q]), NEW k \in 1 .. Len(F2[q]),
               q = p => j # i /\ k # i, f[q][j] = f[q][k]
        PROVE  j = k
    <3>1. (IF q = p /\ j > i THEN j - 1 ELSE j) = (IF q = p /\ k > i THEN k - 1 ELSE k)
      BY <2>2, <2>4
    <3>2. i \in Nat /\ j \in Nat /\ k \in Nat
      BY <1>1, <1>3
    <3>3. QED
      BY <2>4, <3>1, <3>2
  <2>5. ASSUME NEW a \in PageIds, NEW b \in PageIds, NEW j \in 1 .. Len(F2[a]), NEW k \in 1 .. Len(F2[b]),
               F2[a][j] = F2[b][k]
        PROVE  a = b /\ j = k
    <3>1. CASE (a = p /\ j = i) \/ (b = p /\ k = i)
      BY <1>7, <2>3, <2>5, <3>1
    <3>2. CASE ~(a = p /\ j = i) /\ ~(b = p /\ k = i)
      <4>1. PICK u, v : u = f[a][j] /\ v = f[b][k]
        OBVIOUS
      <4>2. u \in 1 .. Len(F[a]) /\ v \in 1 .. Len(F[b]) /\ F[a][u] = F[b][v]
        BY <2>3, <2>5, <3>2, <4>1
      <4>3. a = b /\ u = v
        BY <1>10, <4>2 DEF Once
      <4>4. QED
        BY <2>4, <3>2, <4>1, <4>3
    <3>3. QED
      BY <3>1, <3>2
  <2>6. QED
    BY <2>5 DEF Once
<1>11. QED
  BY <1>9, <1>10

\* An element is removed.
LEMMA MemberRemoved ==
    ASSUME NEW S, NEW F \in [PageIds -> Seq(S)], NEW F2 \in [PageIds -> Seq(S)], NEW p \in PageIds,
           NEW i \in 1 .. Len(F[p]), IsRemoved(F2[p], S, F[p], i), OnlyAt(F2, F, p), Once(F)
    PROVE  Members(F2) = Members(F) \ {F[p][i]} /\ Once(F2)
<1>1. \A q \in PageIds : F[q] \in Seq(S) /\ F2[q] \in Seq(S) /\ Len(F[q]) \in Nat /\ Len(F2[q]) \in Nat
  OBVIOUS
<1>2. PICK N, x : N = Len(F[p]) /\ x = F[p][i]
  OBVIOUS
<1>3. /\ N \in Nat /\ i \in 1 .. N /\ Len(F2[p]) = N - 1
      /\ \A k \in 1 .. (N - 1) : F2[p][k] = IF k < i THEN F[p][k] ELSE F[p][k + 1]
  BY <1>1, <1>2 DEF IsRemoved
<1>4. \A q \in PageIds : q # p => F2[q] = F[q]
  BY DEF OnlyAt
<1>5. PICK f : f = [q \in PageIds |-> [k \in 1 .. Len(F2[q]) |-> IF q = p /\ k >= i THEN k + 1 ELSE k]]
  OBVIOUS
<1>6. \A q \in PageIds : \A k \in 1 .. Len(F2[q]) :
        f[q][k] \in 1 .. Len(F[q]) /\ F2[q][k] = F[q][f[q][k]] /\ ~(q = p /\ f[q][k] = i)
  <2>1. ASSUME NEW q \in PageIds, NEW k \in 1 .. Len(F2[q])
        PROVE  f[q][k] \in 1 .. Len(F[q]) /\ F2[q][k] = F[q][f[q][k]] /\ ~(q = p /\ f[q][k] = i)
    <3>1. f[q][k] = IF q = p /\ k >= i THEN k + 1 ELSE k
      BY <1>5
    <3>2. CASE q # p
      BY <1>4, <3>1, <3>2
    <3>3. CASE q = p
      <4>1. k \in 1 .. (N - 1)
        BY <1>3, <3>3
      <4>2. QED
        BY <1>2, <1>3, <3>1, <3>3, <4>1
    <3>4. QED
      BY <3>2, <3>3
  <2>2. QED
    BY <2>1
<1>7. \A q \in PageIds : \A j, k \in 1 .. Len(F2[q]) : f[q][j] = f[q][k] => j = k
  <2>1. ASSUME NEW q \in PageIds, NEW j \in 1 .. Len(F2[q]), NEW k \in 1 .. Len(F2[q]), f[q][j] = f[q][k]
        PROVE  j = k
    <3>1. (IF q = p /\ j >= i THEN j + 1 ELSE j) = (IF q = p /\ k >= i THEN k + 1 ELSE k)
      BY <1>5, <2>1
    <3>2. i \in Nat /\ j \in Nat /\ k \in Nat
      BY <1>1, <1>3
    <3>3. QED
      BY <3>1, <3>2
  <2>2. QED
    BY <2>1
<1>8. Once(F2)
  <2>1. ASSUME NEW a \in PageIds, NEW b \in PageIds, NEW j \in 1 .. Len(F2[a]), NEW k \in 1 .. Len(F2[b]),
               F2[a][j] = F2[b][k]
        PROVE  a = b /\ j = k
    <3>1. PICK u, v : u = f[a][j] /\ v = f[b][k]
      OBVIOUS
    <3>2. u \in 1 .. Len(F[a]) /\ v \in 1 .. Len(F[b]) /\ F[a][u] = F[b][v]
      BY <1>6, <2>1, <3>1
    <3>3. a = b /\ u = v
      BY <3>2 DEF Once
    <3>4. QED
      BY <1>7, <3>1, <3>3
  <2>2. QED
    BY <2>1 DEF Once
<1>9. ASSUME NEW y
      PROVE  y \in Members(F2) <=> y \in Members(F) /\ y # x
  <2>1. ASSUME NEW q \in PageIds, NEW k \in 1 .. Len(F2[q]), F2[q][k] = y
        PROVE  y # x /\ \E a \in PageIds : \E b \in 1 .. Len(F[a]) : F[a][b] = y
    <3>1. PICK u : u = f[q][k]
      OBVIOUS
    <3>2. u \in 1 .. Len(F[q]) /\ F[q][u] = y /\ ~(q = p /\ u = i)
      BY <1>6, <2>1, <3>1
    <3>3. y # x
      BY <1>2, <1>3, <3>2 DEF Once
    <3>4. QED
      BY <3>2, <3>3
  <2>2. ASSUME NEW q \in PageIds, NEW k \in 1 .. Len(F[q]), F[q][k] = y, y # x
        PROVE  \E a \in PageIds : \E b \in 1 .. Len(F2[a]) : F2[a][b] = y
    <3>1. CASE q # p
      BY <1>4, <2>2, <3>1
    <3>2. CASE q = p
      <4>1. k \in 1 .. N /\ k # i
        BY <1>2, <2>2, <3>2
      <4>2. CASE k < i
        <5>1. k \in 1 .. (N - 1) /\ F2[p][k] = F[p][k]
          BY <1>3, <4>1, <4>2
        <5>2. QED
          BY <1>3, <2>2, <3>2, <5>1
      <4>3. CASE k > i
        <5>1. PICK j : j = k - 1
          OBVIOUS
        <5>2. j \in 1 .. (N - 1) /\ ~(j < i) /\ j + 1 = k
          BY <1>3, <4>1, <4>3, <5>1
        <5>3. F2[p][j] = F[p][k]
          BY <1>3, <5>2
        <5>4. QED
          BY <1>3, <2>2, <3>2, <5>2, <5>3
      <4>4. QED
        BY <1>3, <4>1, <4>2, <4>3
    <3>3. QED
      BY <3>1, <3>2
  <2>3. y \in Members(F) <=> \E q \in PageIds : \E k \in 1 .. Len(F[q]) : F[q][k] = y
    BY MemberPlaces
  <2>4. y \in Members(F2) <=> \E q \in PageIds : \E k \in 1 .. Len(F2[q]) : F2[q][k] = y
    BY MemberPlaces
  <2>5. QED
    BY <2>1, <2>2, <2>3, <2>4
<1>10. QED
  BY <1>2, <1>8, <1>9

\* One of the halves replaces the whole.
LEMMA MemberShortened ==
    ASSUME NEW S, NEW F \in [PageIds -> Seq(S)], NEW F2 \in [PageIds -> Seq(S)], NEW c \in PageIds,
           NEW m, NEW r, NEW n, Divides(F[c], F2[c], m, r, n), OnlyAt(F2, F, c)
    PROVE  Members(F2) \subseteq Members(F) /\ (Once(F) => Once(F2))
<1>1. \A q \in PageIds : q # c => F2[q] = F[q]
  BY DEF OnlyAt
<1>2. \A q \in PageIds : \A k \in 1 .. Len(F2[q]) : k \in 1 .. Len(F[q]) /\ F2[q][k] = F[q][k]
  <2>1. \A k \in 1 .. Len(F2[c]) : k \in 1 .. Len(F[c]) /\ F2[c][k] = F[c][k]
    BY DEF Divides
  <2>2. QED
    BY <1>1, <2>1
<1>3. ASSUME NEW y, y \in Members(F2)
      PROVE  y \in Members(F)
  <2>0. PICK q \in PageIds : \E k \in 1 .. Len(F2[q]) : F2[q][k] = y
    BY <1>3, MemberPlaces
  <2>1. PICK k \in 1 .. Len(F2[q]) : F2[q][k] = y
    BY <2>0
  <2>2. k \in 1 .. Len(F[q]) /\ F[q][k] = y
    BY <1>2, <2>1
  <2>3. QED
    BY <2>2, MemberPlaces
<1>4. Once(F) => Once(F2)
  BY <1>2 DEF Once
<1>5. QED
  BY <1>3, <1>4

\* The sequence at c is divided between c and new, where nothing was.
DividedAt(F2, F, c, new, m, n) ==
    /\ m \in Nat /\ n \in Nat /\ m <= n
    /\ Divides(F[c], F2[c], m, F2[new], n)
    /\ F[new] = <<>>
    /\ OnlyAtBoth(F2, F, c, new)

\* Nothing is lost when all goes to one of the two, and the element between them
\* when one is left out.
KeepsAll(F2, F, m, n) == m = n => Members(F2) = Members(F)
LosesOne(F2, F, c, m, n) ==
    n = m + 1 /\ n \in 1 .. Len(F[c]) /\ Once(F) => Members(F2) = Members(F) \ {F[c][n]}

\* One half stays, the other goes to a new page.
LEMMA MemberDivided ==
    ASSUME NEW S, NEW F \in [PageIds -> Seq(S)], NEW F2 \in [PageIds -> Seq(S)],
           NEW c \in PageIds, NEW new \in PageIds, c # new,
           NEW m, NEW n, DividedAt(F2, F, c, new, m, n)
    PROVE  /\ Members(F2) \subseteq Members(F)
           /\ Once(F) => Once(F2)
           /\ KeepsAll(F2, F, m, n) /\ LosesOne(F2, F, c, m, n)
<1>0. /\ m \in Nat /\ n \in Nat /\ m <= n /\ F[new] = <<>>
      /\ \A q \in PageIds : q # c /\ q # new => F2[q] = F[q]
  BY DEF DividedAt, OnlyAtBoth
<1>1. \A q \in PageIds : Len(F[q]) \in Nat /\ Len(F2[q]) \in Nat
  OBVIOUS
<1>2. /\ \A k \in 1 .. Len(F2[c]) : k \in 1 .. Len(F[c]) /\ k <= m /\ F2[c][k] = F[c][k]
      /\ \A k \in 1 .. Len(F2[new]) : k + n \in 1 .. Len(F[c]) /\ F2[new][k] = F[c][k + n]
      /\ \A k \in 1 .. Len(F[c]) : /\ k <= m => k \in 1 .. Len(F2[c])
                                   /\ k > n => k - n \in 1 .. Len(F2[new])
  BY DEF Divides, DividedAt
<1>3. PICK g, h : /\ g = [q \in PageIds |-> IF q = new THEN c ELSE q]
                  /\ h = [q \in PageIds |-> [k \in 1 .. Len(F2[q]) |-> IF q = new THEN k + n ELSE k]]
  OBVIOUS
<1>4. ASSUME NEW q \in PageIds, NEW k \in 1 .. Len(F2[q])
      PROVE  /\ g[q] \in PageIds /\ h[q][k] \in 1 .. Len(F[g[q]]) /\ F2[q][k] = F[g[q]][h[q][k]]
             /\ g[q] = c => h[q][k] <= m \/ h[q][k] > n
  <2>1. g[q] = (IF q = new THEN c ELSE q) /\ h[q][k] = IF q = new THEN k + n ELSE k
    BY <1>3
  <2>2. CASE q = new
    <3>1. k + n \in 1 .. Len(F[c]) /\ F2[new][k] = F[c][k + n] /\ k + n > n
      BY <1>0, <1>1, <1>2, <2>2
    <3>2. QED
      BY <2>1, <2>2, <3>1
  <2>3. CASE q = c
    <3>1. k \in 1 .. Len(F[c]) /\ F2[c][k] = F[c][k] /\ k <= m
      BY <1>2, <2>3
    <3>2. QED
      BY <2>1, <2>3, <3>1
  <2>4. CASE q # new /\ q # c
    BY <1>0, <2>1, <2>4
  <2>5. QED
    BY <2>2, <2>3, <2>4
<1>5. ASSUME NEW a \in PageIds, NEW b \in PageIds, NEW j \in 1 .. Len(F2[a]), NEW k \in 1 .. Len(F2[b]),
             g[a] = g[b], h[a][j] = h[b][k]
      PROVE  a = b /\ j = k
  <2>1. /\ g[a] = (IF a = new THEN c ELSE a) /\ h[a][j] = (IF a = new THEN j + n ELSE j)
        /\ g[b] = (IF b = new THEN c ELSE b) /\ h[b][k] = (IF b = new THEN k + n ELSE k)
    BY <1>3
  <2>2. j \in Nat /\ k \in Nat /\ j >= 1 /\ k >= 1
    BY <1>1
  <2>3. CASE a = new /\ b = new
    <3>1. j + n = k + n
      BY <1>0, <1>5, <2>1, <2>3
    <3>2. QED
      BY <1>0, <2>2, <2>3, <3>1
  <2>4. CASE a # new /\ b # new
    BY <1>5, <2>1, <2>4
  <2>5. CASE a = new /\ b # new
    <3>1. b = c /\ k = j + n
      BY <1>5, <2>1, <2>5
    <3>2. k <= m
      BY <1>2, <3>1
    <3>3. QED
      BY <1>0, <2>2, <3>1, <3>2
  <2>6. CASE a # new /\ b = new
    <3>1. a = c /\ j = k + n
      BY <1>5, <2>1, <2>6
    <3>2. j <= m
      BY <1>2, <3>1
    <3>3. QED
      BY <1>0, <2>2, <3>1, <3>2
  <2>7. QED
    BY <2>3, <2>4, <2>5, <2>6
<1>6. Once(F) => Once(F2)
  <2>1. ASSUME Once(F), NEW a \in PageIds, NEW b \in PageIds,
               NEW j \in 1 .. Len(F2[a]), NEW k \in 1 .. Len(F2[b]), F2[a][j] = F2[b][k]
        PROVE  a = b /\ j = k
    <3>1. PICK p, q, u, v : p = g[a] /\ q = g[b] /\ u = h[a][j] /\ v = h[b][k]
      OBVIOUS
    <3>2. p \in PageIds /\ q \in PageIds /\ u \in 1 .. Len(F[p]) /\ v \in 1 .. Len(F[q]) /\ F[p][u] = F[q][v]
      BY <1>4, <2>1, <3>1
    <3>3. p = q /\ u = v
      BY <2>1, <3>2 DEF Once
    <3>4. g[a] = g[b] /\ h[a][j] = h[b][k]
      BY <3>1, <3>3
    <3>5. QED
      BY <1>5, <3>4
  <2>2. QED
    BY <2>1 DEF Once
<1>7. ASSUME NEW y, y \in Members(F2)
      PROVE  y \in Members(F) /\ (n = m + 1 /\ n \in 1 .. Len(F[c]) /\ Once(F) => y # F[c][n])
  <2>0. PICK q \in PageIds : \E k \in 1 .. Len(F2[q]) : F2[q][k] = y
    BY <1>7, MemberPlaces
  <2>1. PICK k \in 1 .. Len(F2[q]) : F2[q][k] = y
    BY <2>0
  <2>2. PICK p, u : p = g[q] /\ u = h[q][k]
    OBVIOUS
  <2>3. p \in PageIds /\ u \in 1 .. Len(F[p]) /\ F[p][u] = y /\ (p = c => u <= m \/ u > n)
    BY <1>4, <2>1, <2>2
  <2>4. y \in Members(F)
    BY <2>3, MemberPlaces
  <2>5. ASSUME n = m + 1, n \in 1 .. Len(F[c]), Once(F), y = F[c][n]
        PROVE  FALSE
    <3>1. p = c /\ u = n
      BY <2>3, <2>5 DEF Once
    <3>2. QED
      BY <1>0, <2>3, <2>5, <3>1
  <2>6. QED
    BY <2>4, <2>5
<1>8. ASSUME NEW y, y \in Members(F), m = n \/ (n = m + 1 /\ y # F[c][n])
      PROVE  y \in Members(F2)
  <2>0. PICK q \in PageIds : \E k \in 1 .. Len(F[q]) : F[q][k] = y
    BY <1>8, MemberPlaces
  <2>1. PICK k \in 1 .. Len(F[q]) : F[q][k] = y
    BY <2>0
  <2>2. \E a \in PageIds : \E j \in 1 .. Len(F2[a]) : F2[a][j] = y
    <3>1. q # new
      BY <1>0, <2>1
    <3>2. CASE q # c
      BY <1>0, <2>1, <3>1, <3>2
    <3>3. CASE q = c
      <4>1. k <= m \/ k > n \/ (n = m + 1 /\ k = n)
        BY <1>0, <1>1, <1>8, <2>1
      <4>2. CASE k <= m
        <5>1. k \in 1 .. Len(F2[c])
          BY <1>2, <2>1, <3>3, <4>2
        <5>2. F2[c][k] = y
          BY <1>2, <2>1, <3>3, <5>1
        <5>3. QED
          BY <5>1, <5>2
      <4>3. CASE k > n
        <5>1. PICK j : j = k - n
          OBVIOUS
        <5>2. j \in 1 .. Len(F2[new]) /\ j + n = k
          BY <1>0, <1>1, <1>2, <2>1, <3>3, <4>3, <5>1
        <5>3. F2[new][j] = y
          BY <1>2, <2>1, <3>3, <5>2
        <5>4. QED
          BY <5>2, <5>3
      <4>4. CASE n = m + 1 /\ k = n
        BY <1>8, <2>1, <3>3, <4>4
      <4>5. QED
        BY <4>1, <4>2, <4>3, <4>4
    <3>4. QED
      BY <3>2, <3>3
  <2>3. QED
    BY <2>2, MemberPlaces
<1>9. Members(F2) \subseteq Members(F)
  BY <1>7
<1>10. KeepsAll(F2, F, m, n)
  BY <1>7, <1>8 DEF KeepsAll
<1>11. LosesOne(F2, F, c, m, n)
  BY <1>7, <1>8 DEF LosesOne
<1>12. QED
  BY <1>6, <1>9, <1>10, <1>11

\* The members of s are distinct and none is in F.
AllNew(s, F) ==
    /\ \A i, j \in 1 .. Len(s) : s[i] = s[j] => i = j
    /\ \A i \in 1 .. Len(s) : s[i] \notin Members(F)

\* An empty sequence gets new members.
LEMMA MemberPut ==
    ASSUME NEW S, NEW F \in [PageIds -> Seq(S)], NEW F2 \in [PageIds -> Seq(S)], NEW t \in PageIds,
           F[t] = <<>>, OnlyAt(F2, F, t), AllNew(F2[t], F)
    PROVE  /\ \A y : y \in Members(F2) <=> y \in Members(F) \/ \E i \in 1 .. Len(F2[t]) : F2[t][i] = y
           /\ Once(F) => Once(F2)
<1>1. \A q \in PageIds : q # t => F2[q] = F[q]
  BY DEF OnlyAt
<1>2. ASSUME NEW y
      PROVE  y \in Members(F2) <=> y \in Members(F) \/ \E i \in 1 .. Len(F2[t]) : F2[t][i] = y
  <2>1. y \in Members(F) <=> \E q \in PageIds : \E k \in 1 .. Len(F[q]) : F[q][k] = y
    BY MemberPlaces
  <2>2. y \in Members(F2) <=> \E q \in PageIds : \E k \in 1 .. Len(F2[q]) : F2[q][k] = y
    BY MemberPlaces
  <2>3. \A k \in 1 .. Len(F[t]) : FALSE
    OBVIOUS
  <2>4. QED
    BY <1>1, <2>1, <2>2, <2>3
<1>3. ASSUME Once(F), NEW a \in PageIds, NEW b \in PageIds,
             NEW j \in 1 .. Len(F2[a]), NEW k \in 1 .. Len(F2[b]), F2[a][j] = F2[b][k]
      PROVE  a = b /\ j = k
  <2>1. CASE a = t /\ b = t
    BY <1>3, <2>1 DEF AllNew
  <2>2. CASE a # t /\ b # t
    BY <1>1, <1>3, <2>2 DEF Once
  <2>3. ASSUME NEW d \in PageIds, d # t, NEW e \in 1 .. Len(F2[d]), NEW i \in 1 .. Len(F2[t]), F2[t][i] = F2[d][e]
        PROVE  FALSE
    <3>1. e \in 1 .. Len(F[d]) /\ F[d][e] = F2[t][i]
      BY <1>1, <2>3
    <3>2. F2[t][i] \in Members(F)
      BY <3>1, MemberPlaces
    <3>3. QED
      BY <3>2 DEF AllNew
  <2>4. QED
    BY <1>3, <2>1, <2>2, <2>3
<1>4. QED
  BY <1>2, <1>3 DEF Once

-----------------------------------------------------------------------------
(* The pages below a page *)

\* One level more, and the first n levels.
NextLevel(f) == [p \in PageIds |-> UNION {Range(nodes[q].children) : q \in f[p]}]
FirstLevel == [p \in PageIds |-> {p}]
LevelsTo(n, L) ==
    /\ L = [k \in 0 .. n |-> L[k]]
    /\ L[0] = FirstLevel
    /\ \A k \in 1 .. n : L[k] = NextLevel(L[k - 1])

\* There are levels of every number.
LEMMA LevelsExist == \A n \in Nat : \E L : LevelsTo(n, L)
<1>1. SUFFICES ASSUME NEW n0 \in Nat, ~\E L : LevelsTo(n0, L)
               PROVE  FALSE
  OBVIOUS
<1>2. PICK S : S = {n \in Nat : ~\E L : LevelsTo(n, L)}
  OBVIOUS
<1>3. S \in SUBSET Nat /\ n0 \in S
  BY <1>1, <1>2
<1>4. PICK n \in S : \A m \in S : n <= m
  BY <1>3, LeastExists
<1>5. n \in Nat /\ ~\E L : LevelsTo(n, L)
  BY <1>2, <1>4
<1>6. CASE n = 0
  <2>1. PICK L : L = [k \in 0 .. 0 |-> FirstLevel]
    OBVIOUS
  <2>2. LevelsTo(0, L)
    BY <2>1 DEF LevelsTo
  <2>3. QED
    BY <1>5, <1>6, <2>2
<1>7. CASE n # 0
  <2>1. PICK m : m = n - 1
    OBVIOUS
  <2>2. m \in Nat /\ m + 1 = n /\ m \notin S
    BY <1>3, <1>4, <1>5, <1>7, <2>1
  <2>3. PICK L : LevelsTo(m, L)
    BY <1>2, <2>2
  <2>4. PICK L2 : L2 = [k \in 0 .. n |-> IF k = n THEN NextLevel(L[m]) ELSE L[k]]
    OBVIOUS
  <2>5. L2 = [k \in 0 .. n |-> L2[k]]
    BY <2>4
  <2>6. L2[0] = FirstLevel
    BY <1>5, <1>7, <2>3, <2>4 DEF LevelsTo
  <2>7. ASSUME NEW k \in 1 .. n
        PROVE  L2[k] = NextLevel(L2[k - 1])
    <3>1. k - 1 \in 0 .. n /\ k - 1 # n /\ k \in 0 .. n
      BY <1>5
    <3>2. L2[k - 1] = L[k - 1]
      BY <2>4, <3>1
    <3>3. CASE k = n
      <4>1. k - 1 = m /\ L2[k] = NextLevel(L[m])
        BY <2>1, <2>4, <3>1, <3>3
      <4>2. QED
        BY <3>2, <4>1
    <3>4. CASE k # n
      <4>1. k \in 1 .. m /\ L2[k] = L[k]
        BY <2>2, <2>4, <3>1, <3>4
      <4>2. L[k] = NextLevel(L[k - 1])
        BY <2>3, <4>1 DEF LevelsTo
      <4>3. QED
        BY <3>2, <4>1, <4>2
    <3>5. QED
      BY <3>3, <3>4
  <2>8. LevelsTo(n, L2)
    BY <2>5, <2>6, <2>7 DEF LevelsTo
  <2>9. QED
    BY <1>5, <2>8
<1>8. QED
  BY <1>6, <1>7

\* The levels are what their definition says.
LEMMA LevelFacts ==
    /\ \A p \in PageIds : Level[0][p] = {p}
    /\ \A k \in 1 .. PoolFrames : \A p \in PageIds :
         Level[k][p] = UNION {Range(nodes[q].children) : q \in Level[k - 1][p]}
<1> DEFINE Body(L) == [k \in 0 .. PoolFrames |->
                        [p \in PageIds |->
                          IF k = 0 THEN {p} ELSE UNION {Range(nodes[q].children) : q \in L[k - 1][p]}]]
<1>1. PoolFrames \in Nat
  BY BTreeAssumption
<1>2. PICK L : LevelsTo(PoolFrames, L)
  BY <1>1, LevelsExist
<1>3. PICK L2 : L2 = Body(L)
  OBVIOUS
<1>4. ASSUME NEW k \in 0 .. PoolFrames
      PROVE  L[k] = L2[k]
  <2>1. L2[k] = [p \in PageIds |-> IF k = 0 THEN {p} ELSE UNION {Range(nodes[q].children) : q \in L[k - 1][p]}]
    BY <1>3
  <2>2. CASE k = 0
    BY <1>2, <2>1, <2>2 DEF LevelsTo, FirstLevel
  <2>3. CASE k # 0
    <3>1. k \in 1 .. PoolFrames
      BY <1>1, <2>3
    <3>2. L[k] = NextLevel(L[k - 1])
      BY <1>2, <3>1 DEF LevelsTo
    <3>3. QED
      BY <2>1, <2>3, <3>2 DEF NextLevel
  <2>4. QED
    BY <2>2, <2>3
<1>5. L = Body(L)
  <2>1. L = [k \in 0 .. PoolFrames |-> L[k]]
    BY <1>2 DEF LevelsTo
  <2>2. L2 = [k \in 0 .. PoolFrames |-> L2[k]]
    BY <1>3
  <2>3. L = L2
    BY <1>4, <2>1, <2>2
  <2>4. QED
    BY <1>3, <2>3
<1>6. Level = CHOOSE L3 : L3 = Body(L3)
  BY DEF Level
<1>7. Level = Body(Level)
  BY <1>5, <1>6
<1>8. QED
  BY <1>1, <1>7

\* The level of a page below another.
LEMMA BelowLevels ==
    ASSUME used \in PageIds, NEW p \in PageIds, NEW q
    PROVE  q \in Below(p) <=> \E k \in 0 .. used : q \in Level[k][p]
  BY DEF Below

\* In a forest, every page below another is a page, the height says how far below, and
\* its keys are among those of the other.
LEMMA BelowInForest ==
    ASSUME nodes \in Pages, NEW height \in Heights, NEW span \in Spans, Forest(nodes, height, span),
           NEW p \in PageIds
    PROVE  \A k \in 0 .. PoolFrames : \A q \in Level[k][p] :
               q \in PageIds /\ height[q] + k = height[p] /\ span[q] \subseteq span[p]
<1> DEFINE Good(k) == \A q \in Level[k][p] :
                          q \in PageIds /\ height[q] + k = height[p] /\ span[q] \subseteq span[p]
<1>1. SUFFICES ASSUME NEW k0 \in 0 .. PoolFrames, ~Good(k0)
               PROVE  FALSE
  OBVIOUS
<1>2. PICK S : S = {k \in 0 .. PoolFrames : ~Good(k)}
  OBVIOUS
<1>3. PoolFrames \in Nat /\ S \in SUBSET Nat /\ k0 \in S
  BY <1>1, <1>2, BTreeAssumption
<1>4. PICK k \in S : \A m \in S : k <= m
  BY <1>3, LeastExists
<1>5. k \in 0 .. PoolFrames /\ ~Good(k)
  BY <1>2, <1>4
<1>6. k # 0
  <2>1. Level[0][p] = {p} /\ height[p] \in Nat
    BY LevelFacts DEF Heights
  <2>2. Good(0)
    BY <2>1
  <2>3. QED
    BY <1>5, <2>2
<1>7. PICK m : m = k - 1
  OBVIOUS
<1>8. m \in 0 .. PoolFrames /\ k \in 1 .. PoolFrames /\ k = m + 1 /\ m \notin S
  BY <1>3, <1>4, <1>5, <1>6, <1>7
<1>9. Good(m)
  BY <1>2, <1>8
<1>10. Level[k][p] = UNION {Range(nodes[q].children) : q \in Level[m][p]}
  BY <1>7, <1>8, LevelFacts
<1>11. ASSUME NEW q \in Level[k][p]
       PROVE  q \in PageIds /\ height[q] + k = height[p] /\ span[q] \subseteq span[p]
  <2>1. PICK r \in Level[m][p] : q \in Range(nodes[r].children)
    BY <1>10
  <2>2. r \in PageIds /\ height[r] + m = height[p] /\ span[r] \subseteq span[p]
    BY <1>9, <2>1
  <2>3. PICK c : c = nodes[r].children
    OBVIOUS
  <2>4. c \in Seq(PageIds) /\ PageOK(nodes[r], height[r], span[r], height, span)
    BY <2>2, <2>3, ForestTypes DEF Forest
  <2>5. PICK i \in 1 .. Len(c) : c[i] = q
    BY <2>1, <2>3, <2>4 DEF Range
  <2>6. q \in PageIds /\ height[q] + 1 = height[r] /\ span[q] \subseteq span[r]
    BY <2>3, <2>4, <2>5 DEF PageOK
  <2>7. PICK a, b, d : a = height[q] /\ b = height[r] /\ d = height[p]
    OBVIOUS
  <2>8. a \in Nat /\ b \in Nat /\ d \in Nat /\ m \in Nat /\ a + 1 = b /\ b + m = d /\ k = m + 1
    BY <1>8, <2>2, <2>6, <2>7 DEF Heights
  <2>9. a + k = d
    BY <2>8
  <2>10. QED
    BY <2>2, <2>6, <2>7, <2>9
<1>12. QED
  BY <1>5, <1>11

\* The pages below a page are below one of its children.
LEMMA BelowChild ==
    ASSUME nodes \in Pages, NEW p \in PageIds
    PROVE  \A k \in 1 .. PoolFrames : \A q \in Level[k][p] :
               \E i \in 1 .. Len(nodes[p].children) : q \in Level[k - 1][nodes[p].children[i]]
<1> DEFINE Good(k) == \A q \in Level[k][p] :
                          \E i \in 1 .. Len(nodes[p].children) : q \in Level[k - 1][nodes[p].children[i]]
<1>1. SUFFICES ASSUME NEW k0 \in 1 .. PoolFrames, ~Good(k0)
               PROVE  FALSE
  OBVIOUS
<1>2. PICK S : S = {k \in 1 .. PoolFrames : ~Good(k)}
  OBVIOUS
<1>3. PoolFrames \in Nat /\ S \in SUBSET Nat /\ k0 \in S
  BY <1>1, <1>2, BTreeAssumption
<1>4. PICK k \in S : \A m \in S : k <= m
  BY <1>3, LeastExists
<1>5. k \in 1 .. PoolFrames /\ ~Good(k)
  BY <1>2, <1>4
<1>6. PICK c : c = nodes[p].children
  OBVIOUS
<1>7. c \in Seq(PageIds)
  BY <1>6 DEF Pages, Nodes
<1>8. k # 1
  <2>1. Level[0][p] = {p} /\ Level[1][p] = UNION {Range(nodes[q].children) : q \in Level[0][p]}
    <3>1. 1 \in 1 .. PoolFrames /\ 1 - 1 = 0
      BY <1>3, <1>5
    <3>2. QED
      BY <3>1, LevelFacts
  <2>2. ASSUME NEW q \in Level[1][p]
        PROVE  \E i \in 1 .. Len(c) : q \in Level[1 - 1][c[i]]
    <3>1. q \in Range(c)
      BY <1>6, <2>1, <2>2
    <3>2. PICK i \in 1 .. Len(c) : c[i] = q
      BY <1>7, <3>1 DEF Range
    <3>3. q \in PageIds /\ Level[0][q] = {q} /\ 1 - 1 = 0
      BY <1>7, <3>2, LevelFacts
    <3>4. QED
      BY <3>2, <3>3
  <2>3. Good(1)
    BY <1>6, <2>2
  <2>4. QED
    BY <1>5, <2>3
<1>9. PICK m : m = k - 1
  OBVIOUS
<1>10. m \in 1 .. PoolFrames /\ k = m + 1 /\ m \notin S /\ k \in 1 .. PoolFrames
  BY <1>3, <1>4, <1>5, <1>8, <1>9
<1>11. Good(m)
  BY <1>2, <1>10
<1>12. Level[k][p] = UNION {Range(nodes[q].children) : q \in Level[m][p]}
  BY <1>9, <1>10, LevelFacts
<1>13. ASSUME NEW q \in Level[k][p]
       PROVE  \E i \in 1 .. Len(nodes[p].children) : q \in Level[k - 1][nodes[p].children[i]]
  <2>1. PICK r \in Level[m][p] : q \in Range(nodes[r].children)
    BY <1>12
  <2>2. PICK i \in 1 .. Len(c) : r \in Level[m - 1][c[i]]
    BY <1>6, <1>11, <2>1
  <2>3. PICK d : d = c[i]
    OBVIOUS
  <2>4. d \in PageIds
    BY <1>7, <2>3
  <2>5. Level[m][d] = UNION {Range(nodes[a].children) : a \in Level[m - 1][d]}
    BY <1>10, <2>4, LevelFacts
  <2>6. q \in Level[m][d]
    BY <2>1, <2>2, <2>3, <2>5
  <2>7. QED
    BY <1>6, <1>9, <2>3, <2>6
<1>14. QED
  BY <1>5, <1>13

\* Unless a split has failed, every page the tree has is below the root: of the
\* pages that are not, a highest one would have a parent that is not either.
LEMMA AllBelowRoot ==
    ASSUME BtTypes, Links, NEW height \in Heights, NEW span \in Spans, Shape(height, span), ~failed
    PROVE  \A q \in 1 .. used : q \in Below(root)
<1>1. SUFFICES ASSUME NEW q0 \in 1 .. used, q0 \notin Below(root)
               PROVE  FALSE
  OBVIOUS
<1>2. PICK h : h = height[root]
  OBVIOUS
<1>3. /\ PoolFrames \in Nat /\ used \in 1 .. PoolFrames /\ root \in 1 .. used
      /\ \A p \in 1 .. used : p \in PageIds
      /\ nodes \in Pages /\ Forest(nodes, height, span)
  BY BTreeAssumption DEF BtTypes, Shape, PageIds
<1>4. h \in Nat /\ h < used /\ \A p \in PageIds : height[p] \in Nat /\ height[p] <= h
  BY <1>2, <1>3 DEF Heights, Shape
<1>5. PICK S : S = {n \in Nat : \E p \in 1 .. used : p \notin Below(root) /\ n + height[p] = h}
  OBVIOUS
<1>6. S \in SUBSET Nat /\ S # {}
  <2>1. height[q0] \in Nat /\ height[q0] <= h
    BY <1>1, <1>3, <1>4
  <2>2. PICK n : n = h - height[q0]
    OBVIOUS
  <2>3. n \in Nat /\ n + height[q0] = h
    BY <1>4, <2>1, <2>2
  <2>4. QED
    BY <1>1, <1>5, <2>3
<1>7. PICK n \in S : \A m \in S : n <= m
  BY <1>6, LeastExists
<1>8. PICK p \in 1 .. used : p \notin Below(root) /\ n \in Nat /\ n + height[p] = h
  BY <1>5, <1>7
<1>9. p # root
  <2>1. root \in Level[0][root]
    BY <1>3, LevelFacts
  <2>2. root \in Below(root)
    BY <1>3, <2>1, BelowLevels
  <2>3. QED
    BY <1>8, <2>2
<1>10. p \in Linked(nodes)
  BY <1>9 DEF Links
<1>11. PICK r \in PageIds : \E i \in 1 .. Len(nodes[r].children) : nodes[r].children[i] = p
  BY <1>3, <1>10, ForestMembers
<1>12. PICK i \in 1 .. Len(nodes[r].children) : nodes[r].children[i] = p
  BY <1>11
<1>13. height[p] + 1 = height[r]
  BY <1>3, <1>12 DEF Forest, PageOK
<1>14. r \in 1 .. used
  <2>1. nodes[r] # Blank
    BY <1>12 DEF Blank, Node
  <2>2. ~(r > used)
    BY <2>1 DEF Links, Fresh
  <2>3. QED
    BY <1>3, <2>2 DEF PageIds
<1>15. r \in Below(root)
  <2>1. PICK a, b, m : a = height[p] /\ b = height[r] /\ m = n - 1
    OBVIOUS
  <2>2. a \in Nat /\ b \in Nat /\ a + 1 = b /\ b <= h /\ n + a = h /\ n \in Nat
    BY <1>3, <1>4, <1>8, <1>13, <1>14, <2>1
  <2>3. m \in Nat /\ m + b = h /\ ~(n <= m)
    BY <1>4, <2>1, <2>2
  <2>4. m \notin S
    BY <1>7, <2>3
  <2>5. QED
    BY <1>5, <1>14, <2>1, <2>3, <2>4
<1>16. PICK k \in 0 .. used : r \in Level[k][root]
  BY <1>3, <1>15, BelowLevels
<1>17. k + 1 \in 1 .. PoolFrames /\ k + 1 \in 0 .. used /\ (k + 1) - 1 = k
  <2>1. height[r] + k = h
    <3>1. k \in 0 .. PoolFrames /\ root \in PageIds
      BY <1>3
    <3>2. QED
      BY <1>2, <1>3, <1>16, <3>1, BelowInForest
  <2>2. PICK a, b : a = height[p] /\ b = height[r]
    OBVIOUS
  <2>3. a \in Nat /\ b \in Nat /\ a + 1 = b /\ b + k = h
    BY <1>3, <1>4, <1>8, <1>13, <1>14, <2>1, <2>2
  <2>4. QED
    BY <1>3, <1>4, <2>3
<1>18. p \in Level[k + 1][root]
  <2>1. Level[k + 1][root] = UNION {Range(nodes[q].children) : q \in Level[k][root]}
    BY <1>3, <1>17, LevelFacts
  <2>2. p \in Range(nodes[r].children)
    BY <1>12 DEF Range
  <2>3. QED
    BY <1>16, <2>1, <2>2
<1>19. QED
  BY <1>3, <1>8, <1>17, <1>18, BelowLevels

\* The keys below a page are in its span.
LEMMA KeysBelowInSpan ==
    ASSUME BtTypes, NEW height \in Heights, NEW span \in Spans, Forest(nodes, height, span),
           NEW p \in PageIds
    PROVE  KeysBelow(p) \subseteq span[p]
<1>1. nodes \in Pages /\ used \in PageIds /\ PoolFrames \in Nat
  BY BTreeAssumption DEF BtTypes
<1>2. SUFFICES ASSUME NEW k \in KeysBelow(p)
               PROVE  k \in span[p]
  OBVIOUS
<1>3. PICK q \in Below(p) : k \in Range(nodes[q].entries)
  BY DEF KeysBelow
<1>4. PICK a \in 0 .. used : q \in Level[a][p]
  BY <1>1, <1>3, BelowLevels
<1>5. q \in PageIds /\ span[q] \subseteq span[p]
  <2>1. a \in 0 .. PoolFrames
    BY <1>1 DEF PageIds
  <2>2. QED
    BY <1>1, <1>4, <2>1, BelowInForest
<1>6. PICK e : e = nodes[q].entries
  OBVIOUS
<1>7. e \in Seq(Keys) /\ \A i \in 1 .. Len(e) : e[i] \in span[q]
  BY <1>1, <1>5, <1>6, ForestTypes DEF Forest, PageOK
<1>8. k \in span[q]
  BY <1>3, <1>6, <1>7 DEF Range
<1>9. QED
  BY <1>5, <1>8

-----------------------------------------------------------------------------
(* Links and keys when a page is saved *)

\* Only the left half is saved.
LeftAt(ns2, ns, c, m, r) == Halves(ns[c], m, ns2[c], r) /\ OnlyAt(ns2, ns, c)

\* No page gets a second parent and no key a second place.
LEMMA LeftLinks ==
    ASSUME NEW ns \in Pages, NEW ns2 \in Pages, NEW c \in PageIds,
           NEW m, NEW r, LeftAt(ns2, ns, c, m, r)
    PROVE  /\ Linked(ns2) \subseteq Linked(ns) /\ (OneParent(ns) => OneParent(ns2))
           /\ KeysIn(ns2) \subseteq KeysIn(ns) /\ (KeysOnce(ns) => KeysOnce(ns2))
<1>1. PICK C, C2, E, E2 : C = ChildrenOf(ns) /\ C2 = ChildrenOf(ns2) /\ E = EntriesOf(ns) /\ E2 = EntriesOf(ns2)
  OBVIOUS
<1>2. /\ C \in [PageIds -> Seq(PageIds)] /\ C2 \in [PageIds -> Seq(PageIds)]
      /\ E \in [PageIds -> Seq(Keys)] /\ E2 \in [PageIds -> Seq(Keys)]
  BY <1>1, ForestMembers
<1>3. Halves(ns[c], m, ns2[c], r) /\ \A q \in PageIds : q # c => ns2[q] = ns[q]
  BY DEF LeftAt, OnlyAt
<1>4. /\ C[c] = ns[c].children /\ C2[c] = ns2[c].children /\ OnlyAt(C2, C, c)
      /\ E[c] = ns[c].entries /\ E2[c] = ns2[c].entries /\ OnlyAt(E2, E, c)
  BY <1>1, <1>3 DEF ChildrenOf, EntriesOf, OnlyAt
<1>5. /\ Divides(C[c], C2[c], m + 1, r.children, m + 1)
      /\ Divides(E[c], E2[c], m, r.entries, m + 1)
  BY <1>3, <1>4 DEF Halves
<1>6. Members(C2) \subseteq Members(C) /\ (Once(C) => Once(C2))
  BY <1>2, <1>4, <1>5, MemberShortened
<1>7. Members(E2) \subseteq Members(E) /\ (Once(E) => Once(E2))
  BY <1>2, <1>4, <1>5, MemberShortened
<1>8. QED
  BY <1>1, <1>6, <1>7 DEF Linked, OneParent, KeysIn, KeysOnce

\* Both halves are saved, with no parent for the right one yet.
LEMMA HalfLinks ==
    ASSUME NEW ns \in Pages, NEW ns2 \in Pages, NEW c \in PageIds, NEW new \in PageIds, c # new,
           NEW m, HalvesAt(ns2, ns, c, new, m)
    PROVE  /\ Linked(ns2) = Linked(ns) /\ (OneParent(ns) => OneParent(ns2))
           /\ KeysIn(ns2) \subseteq KeysIn(ns)
           /\ KeysOnce(ns) => KeysOnce(ns2) /\ KeysIn(ns2) = KeysIn(ns) \ {ns[c].entries[m + 1]}
<1>1. PICK C, C2, E, E2 : C = ChildrenOf(ns) /\ C2 = ChildrenOf(ns2) /\ E = EntriesOf(ns) /\ E2 = EntriesOf(ns2)
  OBVIOUS
<1>2. /\ C \in [PageIds -> Seq(PageIds)] /\ C2 \in [PageIds -> Seq(PageIds)]
      /\ E \in [PageIds -> Seq(Keys)] /\ E2 \in [PageIds -> Seq(Keys)]
  BY <1>1, ForestMembers
<1>3. ns[new] = Blank /\ \A q \in PageIds : q # c /\ q # new => ns2[q] = ns[q]
  BY DEF HalvesAt, OnlyAtBoth
<1>4. /\ \A q \in PageIds : C[q] = ns[q].children /\ C2[q] = ns2[q].children
      /\ \A q \in PageIds : E[q] = ns[q].entries /\ E2[q] = ns2[q].entries
  BY <1>1 DEF ChildrenOf, EntriesOf
<1>5. OnlyAtBoth(C2, C, c, new) /\ OnlyAtBoth(E2, E, c, new)
  BY <1>3, <1>4 DEF OnlyAtBoth
<1>6. C[new] = <<>> /\ E[new] = <<>>
  BY <1>3, <1>4 DEF Blank, Node
<1>7. PICK d : d = m + 1
  OBVIOUS
<1>8. /\ m \in Nat /\ d \in Nat /\ m <= d /\ d <= d /\ m + 2 <= Len(E[c])
      /\ Divides(C[c], C2[c], d, C2[new], d)
      /\ Divides(E[c], E2[c], m, E2[new], d)
  BY <1>4, <1>7 DEF HalvesAt, Halves
<1>9. d \in 1 .. Len(E[c])
  <2>1. Len(E[c]) \in Nat
    BY <1>2
  <2>2. QED
    BY <1>7, <1>8, <2>1
<1>10. Members(C2) = Members(C) /\ (Once(C) => Once(C2))
  <2>1. DividedAt(C2, C, c, new, d, d)
    BY <1>5, <1>6, <1>8 DEF DividedAt
  <2>2. KeepsAll(C2, C, d, d) /\ (Once(C) => Once(C2))
    BY <1>2, <2>1, MemberDivided
  <2>3. QED
    BY <2>2 DEF KeepsAll
<1>11. /\ Members(E2) \subseteq Members(E) /\ (Once(E) => Once(E2))
       /\ Once(E) => Members(E2) = Members(E) \ {E[c][d]}
  <2>1. DividedAt(E2, E, c, new, m, d)
    BY <1>5, <1>6, <1>8 DEF DividedAt
  <2>2. Members(E2) \subseteq Members(E) /\ (Once(E) => Once(E2)) /\ LosesOne(E2, E, c, m, d)
    BY <1>2, <2>1, MemberDivided
  <2>3. QED
    BY <1>7, <1>9, <2>2 DEF LosesOne
<1>12. QED
  BY <1>1, <1>4, <1>7, <1>10, <1>11 DEF Linked, OneParent, KeysIn, KeysOnce

\* The parent is saved, with the separator and the right half.
GrownAt(ns2, ns, t, i, j, sep, new) ==
    /\ OnlyAt(ns2, ns, t)
    /\ i \in 1 .. (Len(ns[t].entries) + 1) /\ IsInserted(ns2[t].entries, Keys, ns[t].entries, i, sep)
    /\ j \in 1 .. (Len(ns[t].children) + 1) /\ IsInserted(ns2[t].children, PageIds, ns[t].children, j, new)

\* The new half gets its parent, and the separator its place.
LEMMA GrownLinks ==
    ASSUME NEW ns \in Pages, NEW ns2 \in Pages, NEW t \in PageIds,
           NEW i, NEW j, NEW new, NEW sep, GrownAt(ns2, ns, t, i, j, sep, new)
    PROVE  /\ Linked(ns2) = Linked(ns) \cup {new}
           /\ OneParent(ns) /\ new \notin Linked(ns) => OneParent(ns2)
           /\ KeysIn(ns2) = KeysIn(ns) \cup {sep}
           /\ KeysOnce(ns) /\ sep \notin KeysIn(ns) => KeysOnce(ns2)
<1>1. PICK C, C2, E, E2 : C = ChildrenOf(ns) /\ C2 = ChildrenOf(ns2) /\ E = EntriesOf(ns) /\ E2 = EntriesOf(ns2)
  OBVIOUS
<1>2. /\ C \in [PageIds -> Seq(PageIds)] /\ C2 \in [PageIds -> Seq(PageIds)]
      /\ E \in [PageIds -> Seq(Keys)] /\ E2 \in [PageIds -> Seq(Keys)]
  BY <1>1, ForestMembers
<1>3. \A q \in PageIds : q # t => ns2[q] = ns[q]
  BY DEF GrownAt, OnlyAt
<1>4. /\ C[t] = ns[t].children /\ C2[t] = ns2[t].children /\ OnlyAt(C2, C, t)
      /\ E[t] = ns[t].entries /\ E2[t] = ns2[t].entries /\ OnlyAt(E2, E, t)
  BY <1>1, <1>3 DEF ChildrenOf, EntriesOf, OnlyAt
<1>5. /\ IsInserted(E2[t], Keys, E[t], i, sep) /\ i \in 1 .. (Len(E[t]) + 1)
      /\ IsInserted(C2[t], PageIds, C[t], j, new) /\ j \in 1 .. (Len(C[t]) + 1)
  BY <1>4 DEF GrownAt
<1>6. Members(C2) = Members(C) \cup {new} /\ (Once(C) /\ new \notin Members(C) => Once(C2))
  BY <1>2, <1>4, <1>5, MemberInserted
<1>7. Members(E2) = Members(E) \cup {sep} /\ (Once(E) /\ sep \notin Members(E) => Once(E2))
  BY <1>2, <1>4, <1>5, MemberInserted
<1>8. QED
  BY <1>1, <1>6, <1>7 DEF Linked, OneParent, KeysIn, KeysOnce

\* The new root is saved, with the separator and two pages.
TopAt(ns2, ns, t, sep, left, right) ==
    /\ OnlyAt(ns2, ns, t) /\ ns[t] = Blank
    /\ ns2[t].entries = <<sep>> /\ ns2[t].children = <<left, right>>
    /\ left # right /\ left \notin Linked(ns) /\ right \notin Linked(ns)

\* Both halves get their parent, and the separator its place.
LEMMA TopLinks ==
    ASSUME NEW ns \in Pages, NEW ns2 \in Pages, NEW t \in PageIds,
           NEW sep, NEW left, NEW right, TopAt(ns2, ns, t, sep, left, right)
    PROVE  /\ Linked(ns2) = Linked(ns) \cup {left, right}
           /\ OneParent(ns) => OneParent(ns2)
           /\ KeysIn(ns2) = KeysIn(ns) \cup {sep}
           /\ KeysOnce(ns) /\ sep \notin KeysIn(ns) => KeysOnce(ns2)
<1>1. PICK C, C2, E, E2 : C = ChildrenOf(ns) /\ C2 = ChildrenOf(ns2) /\ E = EntriesOf(ns) /\ E2 = EntriesOf(ns2)
  OBVIOUS
<1>2. /\ C \in [PageIds -> Seq(PageIds)] /\ C2 \in [PageIds -> Seq(PageIds)]
      /\ E \in [PageIds -> Seq(Keys)] /\ E2 \in [PageIds -> Seq(Keys)]
  BY <1>1, ForestMembers
<1>3. /\ ns2[t].entries = <<sep>> /\ ns2[t].children = <<left, right>> /\ ns[t] = Blank
      /\ left # right /\ left \notin Linked(ns) /\ right \notin Linked(ns)
      /\ \A q \in PageIds : q # t => ns2[q] = ns[q]
  BY DEF TopAt, OnlyAt
<1>4. /\ C[t] = <<>> /\ C2[t] = <<left, right>> /\ OnlyAt(C2, C, t)
      /\ E[t] = <<>> /\ E2[t] = <<sep>> /\ OnlyAt(E2, E, t)
  BY <1>1, <1>3 DEF ChildrenOf, EntriesOf, OnlyAt, Blank, Node
<1>5. /\ Len(C2[t]) = 2 /\ C2[t][1] = left /\ C2[t][2] = right
      /\ Len(E2[t]) = 1 /\ E2[t][1] = sep
  BY <1>4
<1>6. Members(C) = Linked(ns) /\ Members(E) = KeysIn(ns) /\ Members(C2) = Linked(ns2) /\ Members(E2) = KeysIn(ns2)
  BY <1>1 DEF Linked, KeysIn
<1>7. AllNew(C2[t], C)
  <2>1. \A a \in 1 .. Len(C2[t]) : a = 1 \/ a = 2
    BY <1>5
  <2>2. QED
    BY <1>3, <1>5, <1>6, <2>1 DEF AllNew
<1>8. \A a \in 1 .. Len(E2[t]) : a = 1
  BY <1>5
<1>9. /\ \A y : y \in Members(C2) <=> y \in Members(C) \/ \E a \in 1 .. Len(C2[t]) : C2[t][a] = y
      /\ Once(C) => Once(C2)
  BY <1>2, <1>4, <1>7, MemberPut
<1>10. Linked(ns2) = Linked(ns) \cup {left, right}
  <2>1. \A y : (\E a \in 1 .. Len(C2[t]) : C2[t][a] = y) <=> y \in {left, right}
    <3>1. \A a : a \in 1 .. Len(C2[t]) <=> a = 1 \/ a = 2
      BY <1>5
    <3>2. QED
      BY <1>5, <3>1
  <2>2. QED
    BY <1>6, <1>9, <2>1
<1>11. IsInserted(E2[t], Keys, E[t], 1, sep) /\ 1 \in 1 .. (Len(E[t]) + 1)
  <2>1. Len(E[t]) = 0
    BY <1>4
  <2>2. \A k \in 1 .. (Len(E[t]) + 1) : k = 1
    BY <2>1
  <2>3. E2[t] \in Seq(Keys)
    BY <1>2
  <2>4. QED
    BY <1>5, <2>1, <2>2, <2>3 DEF IsInserted
<1>12. Members(E2) = Members(E) \cup {sep} /\ (Once(E) /\ sep \notin Members(E) => Once(E2))
  BY <1>2, <1>4, <1>11, MemberInserted
<1>13. QED
  BY <1>1, <1>6, <1>9, <1>10, <1>12 DEF OneParent, KeysOnce

\* A page is saved with the same children.
LEMMA LinksKept ==
    ASSUME NEW ns \in Pages, NEW ns2 \in Pages, NEW t \in PageIds,
           OnlyAt(ns2, ns, t), ns2[t].children = ns[t].children
    PROVE  Linked(ns2) = Linked(ns) /\ (OneParent(ns) => OneParent(ns2))
<1>1. \A q \in PageIds : ns2[q].children = ns[q].children
  BY DEF OnlyAt
<1>2. ChildrenOf(ns2) = ChildrenOf(ns)
  BY <1>1 DEF ChildrenOf
<1>3. QED
  BY <1>2 DEF Linked, OneParent

\* A page is saved with one entry more.
EntryAdded(ns2, ns, t, i, k) ==
    /\ OnlyAt(ns2, ns, t)
    /\ i \in 1 .. (Len(ns[t].entries) + 1) /\ IsInserted(ns2[t].entries, Keys, ns[t].entries, i, k)

\* The key is in the tree, and not twice.
LEMMA KeyAdded ==
    ASSUME NEW ns \in Pages, NEW ns2 \in Pages, NEW t \in PageIds,
           NEW i, NEW k, EntryAdded(ns2, ns, t, i, k)
    PROVE  /\ KeysIn(ns2) = KeysIn(ns) \cup {k}
           /\ KeysOnce(ns) /\ k \notin KeysIn(ns) => KeysOnce(ns2)
<1>1. PICK E, E2 : E = EntriesOf(ns) /\ E2 = EntriesOf(ns2)
  OBVIOUS
<1>2. E \in [PageIds -> Seq(Keys)] /\ E2 \in [PageIds -> Seq(Keys)]
  BY <1>1, ForestMembers
<1>3. E[t] = ns[t].entries /\ E2[t] = ns2[t].entries /\ OnlyAt(E2, E, t)
  BY <1>1 DEF EntriesOf, OnlyAt, EntryAdded
<1>4. i \in 1 .. (Len(E[t]) + 1) /\ IsInserted(E2[t], Keys, E[t], i, k)
  BY <1>3 DEF EntryAdded
<1>5. Members(E2) = Members(E) \cup {k} /\ (Once(E) /\ k \notin Members(E) => Once(E2))
  BY <1>2, <1>3, <1>4, MemberInserted
<1>6. QED
  BY <1>1, <1>5 DEF KeysIn, KeysOnce

\* A page is saved with one entry less.
EntryGone(ns2, ns, t, i, k) ==
    /\ OnlyAt(ns2, ns, t) /\ ns[t].entries[i] = k
    /\ i \in 1 .. Len(ns[t].entries) /\ IsRemoved(ns2[t].entries, Keys, ns[t].entries, i)

\* The key is no longer in the tree.
LEMMA KeyGone ==
    ASSUME NEW ns \in Pages, NEW ns2 \in Pages, NEW t \in PageIds,
           NEW i, NEW k, EntryGone(ns2, ns, t, i, k), KeysOnce(ns)
    PROVE  KeysIn(ns2) = KeysIn(ns) \ {k} /\ KeysOnce(ns2)
<1>1. PICK E, E2 : E = EntriesOf(ns) /\ E2 = EntriesOf(ns2)
  OBVIOUS
<1>2. E \in [PageIds -> Seq(Keys)] /\ E2 \in [PageIds -> Seq(Keys)]
  BY <1>1, ForestMembers
<1>3. E[t] = ns[t].entries /\ E2[t] = ns2[t].entries /\ OnlyAt(E2, E, t)
  BY <1>1 DEF EntriesOf, OnlyAt, EntryGone
<1>4. /\ i \in 1 .. Len(E[t]) /\ IsRemoved(E2[t], Keys, E[t], i) /\ E[t][i] = k
      /\ Once(E)
  BY <1>1, <1>3 DEF EntryGone, KeysOnce
<1>5. Members(E2) = Members(E) \ {E[t][i]} /\ Once(E2)
  BY <1>2, <1>3, <1>4, MemberRemoved
<1>6. QED
  BY <1>1, <1>4, <1>5 DEF KeysIn, KeysOnce

\* A page without a parent may become any page that does.
LEMMA PagePut ==
    ASSUME NEW ns \in Pages, NEW height \in Heights, NEW span \in Spans, Forest(ns, height, span),
           NEW ns2 \in Pages, NEW height2 \in Heights, NEW span2 \in Spans,
           NEW t \in PageIds, t \notin Linked(ns),
           OnlyAt(ns2, ns, t), OnlyAt(height2, height, t), OnlyAt(span2, span, t),
           PageOK(ns2[t], height2[t], span2[t], height2, span2)
    PROVE  Forest(ns2, height2, span2)
<1>1. \A q \in PageIds : q # t => ns2[q] = ns[q] /\ height2[q] = height[q] /\ span2[q] = span[q]
  BY DEF OnlyAt
<1>2. ASSUME NEW q \in PageIds, q # t
      PROVE  PageOK(ns2[q], height2[q], span2[q], height2, span2)
  <2>1. /\ PageOK(ns[q], height[q], span[q], height, span)
        /\ ns[q] \in Nodes /\ height[q] \in Nat /\ span[q] \in SUBSET Nat
    BY ForestTypes DEF Forest
  <2>2. NoMoreBelow(ns[q], height, span, height2, span2)
    <3>1. \A i \in 1 .. Len(ns[q].children) : ns[q].children[i] \in PageIds /\ ns[q].children[i] # t
      BY ForestTypes, ForestMembers
    <3>2. QED
      BY <1>1, <3>1 DEF NoMoreBelow
  <2>3. span[q] \subseteq span[q]
    OBVIOUS
  <2>4. PageOK(ns[q], height[q], span[q], height2, span2)
    BY <2>1, <2>2, <2>3, PageKept
  <2>5. QED
    BY <1>1, <1>2, <2>4
<1>3. QED
  BY <1>2 DEF Forest

-----------------------------------------------------------------------------
(* The B-tree: the initial state, and steps that change no page *)

OpType == [kind : CallKinds, key : Keys \cup {0}, at : PageIds \cup {NoPage}]

\* A workload bounds the pages and has keys of the tree.
LEMMA LoadTypes ==
    ASSUME load \in Workloads
    PROVE  load.frames \in 1 .. PoolFrames /\ load.keys \subseteq Keys /\ load.duplicates \in BOOLEAN
  BY BTreeAssumption DEF Workload

\* The pages the tree has are pages.
LEMMA RootIsPage ==
    ASSUME BtTypes
    PROVE  /\ root \in PageIds /\ \A p \in 1 .. used : p \in PageIds
           /\ used \in Nat /\ used >= 1 /\ used <= PoolFrames /\ PoolFrames \in Nat
<1>1. PoolFrames \in Nat
  BY BTreeAssumption
<1>2. QED
  BY <1>1 DEF BtTypes, PageIds

\* A child is a page the tree has.
LEMMA ChildUsed ==
    ASSUME BtTypes, Links, NEW p \in PageIds, NEW i \in 1 .. Len(nodes[p].children)
    PROVE  nodes[p].children[i] \in 1 .. used
<1>1. nodes \in Pages
  BY DEF BtTypes
<1>2. nodes[p].children[i] \in Linked(nodes)
  BY <1>1, ForestMembers
<1>3. QED
  BY <1>2 DEF Links

\* A blank page is a leaf of height 0 without keys.
LEMMA BlankPage ==
    ASSUME NEW height \in Heights, NEW span \in Spans
    PROVE  Blank \in Nodes /\ PageOK(Blank, 0, {}, height, span) /\ ~IsFull(Blank)
<1>1. Blank = [leaf |-> TRUE, entries |-> <<>>, children |-> <<>>]
  BY DEF Blank, Node
<1>2. <<>> \in Seq(Keys) /\ <<>> \in Seq(PageIds) /\ Len(<<>>) = 0 /\ MaxKeys \in Nat /\ MaxKeys >= 3
  BY BTreeAssumption
<1>3. Blank \in Nodes
  BY <1>1, <1>2 DEF Nodes
<1>4. Blank.leaf = TRUE /\ Blank.entries = <<>> /\ Blank.children = <<>>
  BY <1>1
<1>5. NodeOK(Blank, 0)
  BY <1>2, <1>4 DEF NodeOK, Sorted
<1>6. PageOK(Blank, 0, {}, height, span) /\ ~IsFull(Blank)
  BY <1>2, <1>4, <1>5 DEF PageOK, IsFull
<1>7. QED
  BY <1>3, <1>6

\* The empty tree.
LEMMA BtInitInv == BtInit => BtIInv
<1>1. SUFFICES ASSUME BtInit
               PROVE  BtIInv
  OBVIOUS
<1>2. /\ nodes = [p \in PageIds |-> Blank] /\ root = 1 /\ used = 1 /\ op = NoOp
      /\ stack = <<>> /\ out = <<>> /\ present = {} /\ failed = FALSE /\ load \in Workloads
  BY <1>1 DEF BtInit
<1>3. PICK height, span : height = [p \in PageIds |-> 0] /\ span = [p \in PageIds |-> {}]
  OBVIOUS
<1>4. /\ height \in Heights /\ span \in Spans
      /\ \A p \in PageIds : height[p] = 0 /\ span[p] = {} /\ nodes[p] = Blank
  BY <1>2, <1>3 DEF Heights, Spans
<1>5. Blank \in Nodes /\ PageOK(Blank, 0, {}, height, span)
  BY <1>4, BlankPage
<1>6. nodes \in Pages /\ Forest(nodes, height, span)
  BY <1>2, <1>4, <1>5 DEF Pages, Forest
<1>7. PoolFrames \in Nat /\ PoolFrames # 0 /\ 1 \in PageIds
  BY BTreeAssumption DEF PageIds
<1>8. op.kind = "none" /\ op.key = 0 /\ op.at = NoPage /\ op \in OpType
  BY <1>2 DEF NoOp, OpType, CallKinds
<1>9. BtTypes
  <2>1. used <= load.frames
    BY <1>2, LoadTypes
  <2>2. used \in PageIds /\ present \subseteq Keys
    BY <1>2, <1>7
  <2>3. failed \in BOOLEAN
    BY <1>2
  <2>4. root \in 1 .. used
    <3>1. root = 1 /\ used = 1
      BY <1>2
    <3>2. QED
      BY <3>1
  <2>5. QED
    BY <1>2, <1>6, <1>8, <2>1, <2>2, <2>3, <2>4 DEF BtTypes, OpType
<1>10. \A p \in PageIds : nodes[p].children = <<>> /\ nodes[p].entries = <<>>
  BY <1>4 DEF Blank, Node
<1>11. Linked(nodes) = {} /\ KeysIn(nodes) = {} /\ OneParent(nodes) /\ KeysOnce(nodes)
  <2>1. \A p \in PageIds : ChildrenOf(nodes)[p] = <<>> /\ EntriesOf(nodes)[p] = <<>>
    BY <1>10 DEF ChildrenOf, EntriesOf
  <2>2. OneParent(nodes) /\ KeysOnce(nodes)
    BY <2>1 DEF OneParent, KeysOnce, Once
  <2>3. \A p \in PageIds : Range(ChildrenOf(nodes)[p]) = {} /\ Range(EntriesOf(nodes)[p]) = {}
    BY <2>1 DEF Range
  <2>4. (\A c : c \notin Linked(nodes)) /\ (\A k : k \notin KeysIn(nodes))
    BY <2>3 DEF Linked, KeysIn, Members
  <2>5. QED
    BY <2>2, <2>3, <2>4
<1>12. Links
  BY <1>2, <1>4, <1>11 DEF Links, Fresh
<1>13. Contents
  BY <1>2, <1>11 DEF Contents
<1>14. Shape(height, span)
  BY <1>2, <1>4, <1>6, <1>7, <1>8 DEF Shape, Inserting
<1>15. Calls /\ Searching /\ Iterating
  BY <1>2, <1>8 DEF Calls, Searching, Iterating, Inserting
<1>16. QED
  BY <1>4, <1>9, <1>12, <1>13, <1>14, <1>15 DEF BtIInv

\* What holds of the pages holds after a step that changes none; an insertion may
\* have returned an error.
LEMMA SamePages ==
    ASSUME BtIInv, UNCHANGED <<load, nodes, used, root, present>>, failed' \in BOOLEAN, failed => failed'
    PROVE  Links' /\ (~load.duplicates => Contents)'
<1>1. Links'
  BY DEF BtIInv, Links, OneParent, Once, ChildrenOf, Fresh, Linked, Members
<1>2. (~load.duplicates => Contents)'
  BY DEF BtIInv, Contents, KeysOnce, Once, EntriesOf, KeysIn, Members
<1>3. QED
  BY <1>1, <1>2

\* The pages have their shape for a call that inserts nothing.
LEMMA SameShape ==
    ASSUME UNCHANGED <<nodes, used, root>>, ~Inserting', NEW height, NEW span, Shape(height, span)
    PROVE  Shape(height, span)'
  BY DEF Shape, Forest

\* The same pages are below the same pages.
LEMMA SameBelow ==
    ASSUME UNCHANGED <<nodes, used>>
    PROVE  \A p : Below(p)' = Below(p)
<1>1. Level' = Level
  BY DEF Level
<1>2. QED
  BY <1>1 DEF Below

\* After a step that ends a call, or with none in progress, nothing is said of calls.
LEMMA NoCall ==
    ASSUME op' = NoOp
    PROVE  /\ ~Inserting' /\ Calls' /\ Searching'
           /\ op'.kind = "none" /\ op' \in OpType
<1>1. op'.kind = "none" /\ op' \in OpType
  BY DEF NoOp, OpType, CallKinds
<1>2. ~Inserting'
  BY <1>1 DEF Inserting
<1>3. Calls'
  BY <1>1, <1>2 DEF Calls
<1>4. Searching'
  BY <1>1 DEF Searching
<1>5. QED
  BY <1>1, <1>2, <1>3, <1>4

\* A step that changes neither pages nor the call.
LEMMA BtQuiet ==
    ASSUME BtIInv, UNCHANGED <<load, nodes, used, root, present, failed, op>>, Iterating'
    PROVE  BtIInv'
<1>1. Links' /\ (~load.duplicates => Contents)'
  BY SamePages DEF BtIInv, BtTypes
<1>2. BtTypes'
  BY DEF BtIInv, BtTypes
<1>3. PICK height \in Heights, span \in Spans : Shape(height, span)
  BY DEF BtIInv
<1>4. Shape(height, span)'
  BY <1>3 DEF Shape, Forest, Inserting
<1>5. Calls'
  BY DEF BtIInv, Calls, Inserting
<1>6. Searching'
  BY SameBelow DEF BtIInv, Searching
<1>7. QED
  BY <1>1, <1>2, <1>3, <1>4, <1>5, <1>6 DEF BtIInv

\* insert is called: the key may be anywhere below the root.
LEMMA BtInsert ==
    ASSUME BtIInv, load' = load, NEW k \in load.keys, Insert(k)
    PROVE  BtIInv'
<1>1. /\ Idle /\ (load.duplicates \/ k \notin present)
      /\ op' = [kind |-> IF IsFull(nodes[root]) THEN "splitRoot" ELSE "insert", key |-> k, at |-> root]
      /\ UNCHANGED <<nodes, used, root, stack, out, present, failed>>
  BY DEF Insert
<1>2. BtTypes /\ load \in Workloads /\ k \in Keys /\ k \in Nat /\ nodes \in Pages /\ root \in PageIds
  <2>1. BtTypes /\ load \in Workloads /\ nodes \in Pages /\ root \in PageIds
    BY RootIsPage DEF BtIInv, BtTypes
  <2>2. k \in Keys
    BY <2>1, LoadTypes
  <2>3. QED
    BY <2>1, <2>2, BTreeAssumption
<1>3. /\ op'.key = k /\ op'.at = root /\ op'.kind \in {"insert", "splitRoot"} /\ op' \in OpType
      /\ op'.kind = "insert" => ~IsFull(nodes[root])
      /\ op'.kind = "splitRoot" => IsFull(nodes[root])
  BY <1>1, <1>2 DEF OpType, CallKinds
<1>4. BtTypes'
  BY <1>1, <1>2, <1>3 DEF BtTypes, OpType
<1>5. Links' /\ (~load.duplicates => Contents)'
  BY <1>1, <1>2, SamePages DEF BtTypes
<1>6. PICK height \in Heights, span \in Spans : Shape(height, span)
  BY DEF BtIInv
<1>7. PICK span2 : span2 = [span EXCEPT ![root] = span[root] \cup {k}]
  OBVIOUS
<1>8. span2 \in Spans /\ Forest(nodes, height, span2)
  <2>1. root \notin Linked(nodes) /\ Forest(nodes, height, span)
    BY <1>6 DEF BtIInv, Links, Shape
  <2>2. QED
    BY <1>2, <1>7, <2>1, KeyEnters
<1>9. k \in span2[root]
  BY <1>2, <1>7 DEF Spans
<1>10. Shape(height, span2)'
  BY <1>1, <1>3, <1>6, <1>8, <1>9 DEF Shape, Forest
<1>11. Calls'
  <2>1. root' \in 1 .. used'
    BY <1>1, <1>2 DEF BtTypes
  <2>2. QED
    BY <1>1, <1>3, <2>1 DEF Calls, IsFull
<1>12. Searching'
  BY <1>3 DEF Searching
<1>13. Iterating'
  BY <1>1, <1>3 DEF Iterating, Idle
<1>14. QED
  BY <1>4, <1>5, <1>6, <1>8, <1>10, <1>11, <1>12, <1>13 DEF BtIInv

\* search and delete are called.
LEMMA BtSearchDelete ==
    ASSUME BtIInv, load' = load, NEW k \in load.keys, Search(k) \/ Delete(k)
    PROVE  BtIInv'
<1>1. /\ Idle
      /\ op' = [kind |-> "search", key |-> k, at |-> root] \/ op' = [kind |-> "delete", key |-> k, at |-> root]
      /\ UNCHANGED <<nodes, used, root, stack, out, present, failed>>
  BY DEF Search, Delete
<1>2. BtTypes /\ load \in Workloads /\ k \in Keys /\ nodes \in Pages /\ root \in PageIds
  <2>1. BtTypes /\ load \in Workloads /\ nodes \in Pages /\ root \in PageIds
    BY RootIsPage DEF BtIInv, BtTypes
  <2>2. QED
    BY <2>1, LoadTypes
<1>3. op'.key = k /\ op'.at = root /\ op'.kind \in {"search", "delete"} /\ op' \in OpType
  BY <1>1, <1>2 DEF OpType, CallKinds
<1>4. BtTypes'
  BY <1>1, <1>2, <1>3 DEF BtTypes, OpType
<1>5. Links' /\ (~load.duplicates => Contents)'
  BY <1>1, <1>2, SamePages DEF BtTypes
<1>6. PICK height \in Heights, span \in Spans : Shape(height, span)
  BY DEF BtIInv
<1>7. ~Inserting'
  BY <1>3 DEF Inserting
<1>8. Shape(height, span)'
  BY <1>1, <1>6, <1>7, SameShape
<1>9. Calls'
  <2>1. op'.at \in 1 .. used'
    BY <1>1, <1>2, <1>3 DEF BtTypes
  <2>2. QED
    BY <1>3, <1>7, <2>1 DEF Calls, Inserting
<1>10. Searching'
  BY <1>1, <1>3, SameBelow DEF Searching
<1>11. Iterating'
  BY <1>1, <1>3 DEF Iterating, Idle
<1>12. QED
  BY <1>4, <1>5, <1>6, <1>8, <1>9, <1>10, <1>11 DEF BtIInv

\* A call that returns and changes nothing.
LEMMA BtReturns ==
    ASSUME BtIInv, op' = NoOp, UNCHANGED <<load, nodes, used, root, stack, out, present>>,
           failed' \in BOOLEAN, failed => failed', stack = <<>>
    PROVE  BtIInv'
<1>1. Links' /\ (~load.duplicates => Contents)'
  BY SamePages
<1>2. op'.kind = "none" /\ ~Inserting' /\ Calls' /\ Searching' /\ op' \in OpType
  BY NoCall
<1>3. BtTypes'
  BY <1>2 DEF BtIInv, BtTypes, OpType
<1>4. PICK height \in Heights, span \in Spans : Shape(height, span)
  BY DEF BtIInv
<1>5. Shape(height, span)'
  BY <1>2, <1>4, SameShape
<1>6. Iterating'
  BY <1>2 DEF Iterating
<1>7. QED
  BY <1>1, <1>2, <1>3, <1>4, <1>5, <1>6 DEF BtIInv

\* A search ends at a leaf.
LEMMA BtSearchLeaf ==
    ASSUME BtIInv, load' = load, SearchLeaf
    PROVE  BtIInv'
<1>1. /\ op.kind = "search" /\ op' = NoOp
      /\ UNCHANGED <<nodes, used, root, stack, out, present, failed>>
  BY DEF SearchLeaf, Returns
<1>2. stack = <<>> /\ failed \in BOOLEAN
  BY <1>1 DEF BtIInv, Iterating, BtTypes
<1>3. QED
  BY <1>1, <1>2, BtReturns

-----------------------------------------------------------------------------
(* The B-tree: descents and the iterator *)

\* The pool is flushed.
LEMMA BtFlushPages ==
    ASSUME BtIInv, load' = load, FlushPages
    PROVE  BtIInv'
<1>1. Idle /\ UNCHANGED <<nodes, root, used, op, stack, out, present, failed>>
  BY DEF FlushPages
<1>2. Iterating'
  BY <1>1 DEF Iterating, Idle, NoOp
<1>3. QED
  BY <1>1, <1>2, BtQuiet

\* An iterator is made.
LEMMA BtIterNew ==
    ASSUME BtIInv, load' = load, IterNew
    PROVE  BtIInv'
<1>1. /\ Idle
      /\ op' = [kind |-> "iterate", key |-> 0, at |-> root]
      /\ out' = <<>>
      /\ UNCHANGED <<nodes, root, used, stack, present, failed>>
  BY DEF IterNew
<1>2. BtTypes /\ root \in PageIds
  BY RootIsPage DEF BtIInv
<1>3. op'.at = root /\ op'.kind = "iterate" /\ op' \in OpType
  BY <1>1, <1>2 DEF OpType, CallKinds
<1>4. BtTypes'
  BY <1>1, <1>2, <1>3 DEF BtTypes, OpType
<1>5. Links' /\ (~load.duplicates => Contents)'
  BY <1>1, <1>2, SamePages DEF BtTypes
<1>6. PICK height \in Heights, span \in Spans : Shape(height, span)
  BY DEF BtIInv
<1>7. ~Inserting'
  BY <1>3 DEF Inserting
<1>8. Shape(height, span)'
  BY <1>1, <1>6, <1>7, SameShape
<1>9. Calls' /\ Searching'
  <2>1. op'.at \in 1 .. used'
    BY <1>1, <1>2, <1>3 DEF BtTypes
  <2>2. QED
    BY <1>3, <1>7, <2>1 DEF Calls, Searching, Inserting
<1>10. Iterating'
  BY <1>1, <1>3 DEF Iterating, Idle
<1>11. QED
  BY <1>4, <1>5, <1>6, <1>8, <1>9, <1>10 DEF BtIInv

\* The children of a page that is no leaf are one more than its entries.
LEMMA InnerPage ==
    ASSUME NEW ns \in Pages, NEW height \in Heights, NEW span \in Spans, Forest(ns, height, span),
           NEW p \in PageIds, ~ns[p].leaf
    PROVE  /\ Len(ns[p].children) = Len(ns[p].entries) + 1 /\ Sorted(ns[p].entries)
           /\ 1 \in 1 .. Len(ns[p].children) /\ ns[p].children[1] \in PageIds
<1>1. /\ Len(ns[p].children) = Len(ns[p].entries) + 1 /\ Sorted(ns[p].entries)
  BY DEF Forest, PageOK, NodeOK
<1>2. PICK e, c : e = Len(ns[p].entries) /\ c = Len(ns[p].children)
  OBVIOUS
<1>3. e \in Nat /\ c = e + 1
  BY <1>1, <1>2, ForestTypes
<1>4. 1 \in 1 .. c
  BY <1>3
<1>5. ns[p].children[1] \in PageIds
  BY <1>2, <1>4, ForestTypes
<1>6. QED
  BY <1>1, <1>2, <1>4, <1>5

\* The constructor of the iterator goes down one level.
LEMMA BtIterDescend ==
    ASSUME BtIInv, load' = load, IterDescend
    PROVE  BtIInv'
<1>1. /\ op.kind = "iterate"
      /\ stack' = Append(stack, [node |-> nodes[op.at], idx |-> 0])
      /\ op' = IF nodes[op.at].leaf THEN NoOp ELSE [op EXCEPT !.at = nodes[op.at].children[1]]
      /\ UNCHANGED <<nodes, root, used, out, present, failed>>
  BY DEF IterDescend
<1>2. BtTypes /\ root \in PageIds /\ op.at \in PageIds /\ op \in OpType /\ nodes \in Pages
  BY <1>1, RootIsPage DEF BtIInv, BtTypes, OpType
<1>3. PICK height \in Heights, span \in Spans : Shape(height, span)
  BY DEF BtIInv
<1>4. op'.kind \in {"none", "iterate"} /\ op' \in OpType /\ (op'.kind = "none" => op' = NoOp)
      /\ (op'.kind # "none" => op'.at \in PageIds /\ op'.at \in 1 .. used)
  <2>1. CASE nodes[op.at].leaf
    BY <1>1, <2>1, NoCall
  <2>2. CASE ~nodes[op.at].leaf
    <3>1. nodes[op.at].children[1] \in PageIds /\ 1 \in 1 .. Len(nodes[op.at].children)
      BY <1>2, <1>3, <2>2, InnerPage DEF Shape
    <3>2. nodes[op.at].children[1] \in 1 .. used
      BY <1>2, <3>1, ChildUsed DEF BtIInv
    <3>3. QED
      BY <1>1, <1>2, <2>2, <3>1, <3>2 DEF OpType
  <2>3. QED
    BY <2>1, <2>2
<1>5. BtTypes'
  BY <1>1, <1>2, <1>4 DEF BtTypes, OpType
<1>6. Links' /\ (~load.duplicates => Contents)'
  BY <1>1, <1>2, SamePages DEF BtTypes
<1>7. ~Inserting'
  BY <1>4 DEF Inserting
<1>8. Shape(height, span)'
  BY <1>1, <1>3, <1>7, SameShape
<1>9. Calls' /\ Searching'
  BY <1>1, <1>4, <1>7 DEF Calls, Searching, Inserting
<1>10. Iterating'
  <2>1. CASE nodes[root].leaf
    <3>1. op.at = root /\ stack = <<>> /\ out = <<>>
      BY <1>1, <2>1 DEF BtIInv, Iterating
    <3>2. op'.kind = "none" /\ stack' = <<[node |-> nodes[root], idx |-> 0]>>
      BY <1>1, <2>1, <3>1, NoCall
    <3>3. PICK e : e = nodes[root].entries
      OBVIOUS
    <3>4. e \in Seq(Keys) /\ 0 \in 0 .. Len(e)
      BY <1>2, <3>3, ForestTypes DEF Pages, Nodes
    <3>5. SubSeq(e, 1, 0) = <<>>
      BY <3>4
    <3>6. QED
      BY <1>1, <3>1, <3>2, <3>3, <3>4, <3>5 DEF Iterating
  <2>2. CASE ~nodes[root].leaf
    BY <1>1, <1>4, <2>2 DEF Iterating
  <2>3. QED
    BY <2>1, <2>2
<1>11. QED
  BY <1>3, <1>5, <1>6, <1>8, <1>9, <1>10 DEF BtIInv

\* One more entry of a sequence.
LEMMA OneMore ==
    ASSUME NEW s \in Seq(Keys), NEW i \in 0 .. Len(s), i < Len(s)
    PROVE  Append(SubSeq(s, 1, i), s[i + 1]) = SubSeq(s, 1, i + 1)
<1>1. PICK j : j = i + 1
  OBVIOUS
<1>2. i \in 0 .. Len(s) /\ j \in 0 .. Len(s) /\ i \in Nat /\ j \in 1 .. Len(s)
  BY <1>1
<1>3. PICK a, b, c : a = SubSeq(s, 1, i) /\ b = SubSeq(s, 1, j) /\ c = Append(a, s[j])
  OBVIOUS
<1>4. /\ a \in Seq(Keys) /\ Len(a) = i /\ \A k \in 1 .. i : a[k] = s[k]
      /\ b \in Seq(Keys) /\ Len(b) = j /\ \A k \in 1 .. j : b[k] = s[k]
  BY <1>2, <1>3, Parts
<1>5. c \in Seq(Keys) /\ Len(c) = j /\ \A k \in 1 .. j : c[k] = s[k]
  <2>1. s[j] \in Keys
    BY <1>2
  <2>2. c \in Seq(Keys) /\ Len(c) = i + 1 /\ c[i + 1] = s[j] /\ \A k \in 1 .. i : c[k] = a[k]
    BY <1>3, <1>4, <2>1
  <2>3. QED
    BY <1>1, <1>2, <1>4, <2>2
<1>6. b = c
  <2>1. Len(b) = Len(c) /\ \A k \in 1 .. Len(b) : b[k] = c[k]
    BY <1>4, <1>5
  <2>2. QED
    BY <1>4, <1>5, <2>1, SeqEqual
<1>7. QED
  BY <1>1, <1>3, <1>6

\* next returns an entry or goes on to the next node.
LEMMA BtIterNext ==
    ASSUME BtIInv, load' = load, IterNext
    PROVE  BtIInv'
<1>1. op = NoOp /\ stack # <<>> /\ UNCHANGED <<nodes, root, used, op, present, failed>>
  BY DEF IterNext
<1>2. op'.kind = "none"
  BY <1>1 DEF NoOp
<1>3. BtTypes /\ root \in PageIds /\ nodes \in Pages
  BY RootIsPage DEF BtIInv, BtTypes
<1>4. CASE nodes[root].leaf
  <2>1. PICK i \in 0 .. Len(nodes[root].entries) :
            /\ stack = <<[node |-> nodes[root], idx |-> i]>>
            /\ out = SubSeq(nodes[root].entries, 1, i)
    BY <1>1, <1>4 DEF BtIInv, Iterating
  <2>2. PICK e, top : e = nodes[root].entries /\ top = [node |-> nodes[root], idx |-> i]
    OBVIOUS
  <2>3. e \in Seq(Keys) /\ i \in 0 .. Len(e) /\ i \in Nat /\ Len(e) \in Nat
    BY <1>3, <2>1, <2>2, ForestTypes DEF Pages, Nodes
  <2>4. stack = <<top>> /\ Len(stack) = 1 /\ Last(stack) = top /\ top.node.entries = e /\ top.idx = i /\ top.node.leaf
    BY <1>4, <2>1, <2>2 DEF Last
  <2>5. CASE top.idx < Len(top.node.entries)
    <3>1. /\ out' = Append(out, top.node.entries[top.idx + 1])
          /\ stack' = [stack EXCEPT ![Len(stack)].idx = @ + 1]
      BY <2>4, <2>5 DEF IterNext
    <3>2. out' = SubSeq(e, 1, i + 1)
      BY <2>1, <2>2, <2>3, <2>4, <2>5, <3>1, OneMore
    <3>3. stack' = <<[node |-> nodes[root], idx |-> i + 1]>>
      BY <2>2, <2>4, <3>1
    <3>4. i + 1 \in 0 .. Len(e)
      BY <2>3, <2>4, <2>5
    <3>5. Iterating'
      BY <1>1, <1>2, <2>2, <3>2, <3>3, <3>4 DEF Iterating
    <3>6. QED
      BY <1>1, <3>5, BtQuiet
  <2>6. CASE ~(top.idx < Len(top.node.entries))
    <3>1. stack' = Front(stack)
      BY <2>4, <2>6 DEF IterNext
    <3>2. stack' = <<>>
      BY <2>4, <3>1 DEF Front
    <3>3. Iterating'
      BY <1>2, <3>2 DEF Iterating
    <3>4. QED
      BY <1>1, <3>3, BtQuiet
  <2>7. QED
    BY <2>5, <2>6
<1>5. CASE ~nodes[root].leaf
  <2>1. Iterating'
    BY <1>1, <1>2, <1>5 DEF Iterating
  <2>2. QED
    BY <1>1, <2>1, BtQuiet
<1>6. QED
  BY <1>4, <1>5

\* An insertion goes down to a child that is not full.
LEMMA BtInsertDescend ==
    ASSUME BtIInv, load' = load, InsertDescend
    PROVE  BtIInv'
<1>1. /\ op.kind = "insert" /\ ~nodes[op.at].leaf
      /\ UNCHANGED <<nodes, used, root, stack, out, present>>
  BY DEF InsertDescend
<1>2. /\ BtTypes /\ op.at \in PageIds /\ op \in OpType /\ op.key \in Keys /\ op.key \in Nat /\ nodes \in Pages
      /\ load.duplicates \/ op.key \notin present
      /\ stack = <<>> /\ OneParent(nodes)
  <2>1. BtTypes /\ op.at \in PageIds /\ op \in OpType /\ op.key \in Keys /\ nodes \in Pages
    BY <1>1 DEF BtIInv, BtTypes, OpType
  <2>2. load.duplicates \/ op.key \notin present
    BY <1>1 DEF BtIInv, Calls, Inserting
  <2>3. stack = <<>>
    BY <1>1 DEF BtIInv, Iterating
  <2>4. QED
    BY <2>1, <2>2, <2>3, BTreeAssumption DEF BtIInv, Links
<1>3. PICK height \in Heights, span \in Spans : Shape(height, span)
  BY DEF BtIInv
<1>4. PICK p, n : p = op.at /\ n = nodes[p]
  OBVIOUS
<1>5. Forest(nodes, height, span) /\ op.key \in span[p] /\ p \in PageIds /\ n \in Nodes
  BY <1>1, <1>2, <1>3, <1>4 DEF Shape, Inserting, Pages
<1>6. PICK i \in InsertPositions(n, op.key) :
          IF i > Len(n.children) THEN Fails
          ELSE /\ ~IsFull(nodes[n.children[i]])
               /\ op' = [op EXCEPT !.at = n.children[i]]
               /\ UNCHANGED failed
  BY <1>4 DEF InsertDescend
<1>7. Len(n.children) = Len(n.entries) + 1 /\ Sorted(n.entries) /\ Len(n.entries) \in Nat
  BY <1>1, <1>2, <1>4, <1>5, InnerPage, ForestTypes
<1>8. i \in 1 .. Len(n.children) /\ Fits(n, i, {op.key})
  BY <1>2, <1>5, <1>7, PositionFits
<1>9. PICK c : c = n.children[i]
  OBVIOUS
<1>10. c \in PageIds
  BY <1>2, <1>4, <1>5, <1>8, <1>9, ForestTypes
<1>11. ~IsFull(nodes[c]) /\ op' = [op EXCEPT !.at = c] /\ failed' = failed
  BY <1>6, <1>7, <1>8, <1>9
<1>12. op'.kind = "insert" /\ op'.key = op.key /\ op'.at = c /\ op' \in OpType
  BY <1>1, <1>2, <1>10, <1>11 DEF OpType
<1>13. BtTypes'
  BY <1>1, <1>2, <1>10, <1>11, <1>12 DEF BtTypes, OpType
<1>14. Links' /\ (~load.duplicates => Contents)'
  BY <1>1, <1>2, <1>11, SamePages DEF BtTypes
<1>15. PICK span2 : span2 = [span EXCEPT ![c] = span[c] \cup {op.key}]
  OBVIOUS
<1>16. span2 \in Spans /\ Forest(nodes, height, span2)
  BY <1>2, <1>4, <1>5, <1>8, <1>9, <1>15, KeyDescends
<1>17. op.key \in span2[c]
  BY <1>10, <1>15 DEF Spans
<1>18. Shape(height, span2)'
  BY <1>1, <1>3, <1>12, <1>16, <1>17 DEF Shape, Forest
<1>19. Calls'
  <2>1. c \in 1 .. used
    BY <1>2, <1>4, <1>5, <1>8, <1>9, ChildUsed DEF BtIInv
  <2>2. QED
    BY <1>1, <1>2, <1>11, <1>12, <2>1 DEF Calls, IsFull
<1>20. Searching' /\ Iterating'
  BY <1>1, <1>2, <1>12 DEF Searching, Iterating
<1>21. QED
  BY <1>3, <1>13, <1>14, <1>16, <1>18, <1>19, <1>20 DEF BtIInv

\* Search and deletion go down to the only child that could have the key.
LEMMA BtDescend ==
    ASSUME BtIInv, load' = load, Descend
    PROVE  BtIInv'
<1>1. /\ op.kind \in {"search", "delete"} /\ ~nodes[op.at].leaf
      /\ UNCHANGED <<nodes, used, root, stack, out, present>>
  BY DEF Descend
<1>2. /\ BtTypes /\ op.at \in PageIds /\ op \in OpType /\ op.key \in Keys /\ op.key \in Nat /\ nodes \in Pages
      /\ stack = <<>> /\ failed \in BOOLEAN /\ PoolFrames \in Nat /\ used \in Nat /\ used <= PoolFrames
      /\ used \in PageIds /\ root \in PageIds
  <2>1. /\ BtTypes /\ op.at \in PageIds /\ op \in OpType /\ op.key \in Keys /\ nodes \in Pages /\ failed \in BOOLEAN
        /\ used \in PageIds
    BY <1>1 DEF BtIInv, BtTypes, OpType
  <2>2. stack = <<>>
    BY <1>1 DEF BtIInv, Iterating
  <2>3. QED
    BY <2>1, <2>2, BTreeAssumption, RootIsPage
<1>3. PICK height \in Heights, span \in Spans : Shape(height, span)
  BY DEF BtIInv
<1>4. PICK p, n, k : p = op.at /\ n = nodes[p] /\ k = op.key
  OBVIOUS
<1>5. Forest(nodes, height, span) /\ p \in PageIds /\ n \in Nodes /\ k \in Nat
  BY <1>2, <1>3, <1>4 DEF Shape, Pages
<1>6. PICK i \in InsertPositions(n, k) :
          IF i <= Len(n.children)
          THEN op' = [op EXCEPT !.at = n.children[i]] /\ UNCHANGED failed
          ELSE Returns
  BY <1>4 DEF Descend
<1>7. Len(n.children) = Len(n.entries) + 1 /\ Sorted(n.entries) /\ Len(n.entries) \in Nat
  BY <1>1, <1>2, <1>4, <1>5, InnerPage, ForestTypes
<1>8. i \in 1 .. Len(n.children) /\ Fits(n, i, {k})
  BY <1>5, <1>7, PositionFits
<1>9. PICK c : c = n.children[i]
  OBVIOUS
<1>10. c \in PageIds
  BY <1>2, <1>4, <1>5, <1>8, <1>9, ForestTypes
<1>11. op' = [op EXCEPT !.at = c] /\ failed' = failed
  BY <1>6, <1>7, <1>8, <1>9
<1>12. op'.kind = op.kind /\ op'.key = k /\ op'.at = c /\ op' \in OpType
  BY <1>2, <1>4, <1>10, <1>11 DEF OpType
<1>13. BtTypes'
  BY <1>1, <1>2, <1>4, <1>10, <1>11, <1>12 DEF BtTypes, OpType
<1>14. Links' /\ (~load.duplicates => Contents)'
  BY <1>1, <1>2, <1>11, SamePages
<1>15. ~Inserting'
  BY <1>1, <1>12 DEF Inserting
<1>16. Shape(height, span)'
  BY <1>1, <1>3, <1>15, SameShape
<1>17. Calls' /\ Iterating'
  <2>1. c \in 1 .. used
    BY <1>2, <1>4, <1>5, <1>8, <1>9, ChildUsed DEF BtIInv
  <2>2. QED
    BY <1>1, <1>2, <1>12, <1>15, <2>1 DEF Calls, Iterating, Inserting
<1>18. Searching'
  <2>1. SUFFICES ASSUME op.kind = "search", ~load.duplicates, NEW q \in Below(root),
                        nodes[q].leaf, k \in Range(nodes[q].entries)
                 PROVE  q \in Below(c)
    BY <1>1, <1>12, SameBelow DEF Searching
  <2>2. q \in Below(p)
    BY <1>4, <2>1 DEF BtIInv, Searching
  <2>3. PICK a \in 0 .. used : q \in Level[a][p]
    BY <1>2, <1>5, <2>2, BelowLevels
  <2>4. a # 0
    BY <1>1, <1>4, <1>5, <2>1, <2>3, LevelFacts
  <2>5. PICK b : b = a - 1
    OBVIOUS
  <2>6. a \in 1 .. PoolFrames /\ b \in 0 .. used /\ b \in 0 .. PoolFrames
    BY <1>2, <2>4, <2>5
  <2>7. PICK j \in 1 .. Len(n.children) : q \in Level[b][n.children[j]]
    BY <1>2, <1>4, <1>5, <2>3, <2>5, <2>6, BelowChild
  <2>8. PICK d : d = n.children[j]
    OBVIOUS
  <2>9. d \in PageIds
    BY <1>2, <1>4, <1>5, <2>7, <2>8, ForestTypes
  <2>10. q \in PageIds /\ span[q] \subseteq span[d]
    BY <1>2, <1>5, <2>6, <2>7, <2>8, <2>9, BelowInForest
  <2>11. PICK m \in 1 .. Len(nodes[q].entries) : nodes[q].entries[m] = k
    <3>1. nodes[q].entries \in Seq(Keys)
      BY <1>2, <2>10, ForestTypes DEF Pages, Nodes
    <3>2. QED
      BY <2>1, <3>1 DEF Range
  <2>12. k \in span[d]
    BY <1>5, <2>10, <2>11 DEF Forest, PageOK
  <2>13. Fits(n, j, {k})
    <3>1. Fits(n, j, span[d])
      BY <1>4, <1>5, <2>8 DEF Forest, PageOK
    <3>2. QED
      BY <2>12, <3>1 DEF Fits
  <2>14. \A e \in 1 .. Len(n.entries) : n.entries[e] # k
    <3>1. KeysOnce(nodes)
      BY <2>1 DEF BtIInv, Contents
    <3>2. q # p
      BY <1>1, <1>4, <2>1
    <3>3. QED
      BY <1>4, <1>5, <2>10, <2>11, <3>1, <3>2 DEF KeysOnce, Once, EntriesOf
  <2>15. i = j
    <3>1. i \in 1 .. (Len(n.entries) + 1) /\ j \in 1 .. (Len(n.entries) + 1)
      BY <1>7, <1>8
    <3>2. QED
      BY <1>5, <1>7, <1>8, <2>13, <2>14, <3>1, OneGap
  <2>16. q \in Level[b][c]
    BY <1>9, <2>7, <2>15
  <2>17. QED
    BY <1>2, <1>10, <2>6, <2>16, BelowLevels
<1>19. QED
  BY <1>3, <1>13, <1>14, <1>16, <1>17, <1>18 DEF BtIInv

\* A call that ends with a leaf saved.
LEMMA LeafSaved ==
    ASSUME BtIInv, op' = NoOp, UNCHANGED <<load, used, root, stack, out, failed>>, stack = <<>>,
           NEW p \in PageIds, nodes[p].leaf, NEW g \in Nodes, nodes' = [nodes EXCEPT ![p] = g],
           \A height \in Heights, span \in Spans : Shape(height, span) => PageOK(g, height[p], span[p], height, span),
           g.children = nodes[p].children,
           present' \subseteq Keys, (~load.duplicates => Contents)', p <= used
    PROVE  BtIInv'
<1>1. op'.kind = "none" /\ ~Inserting' /\ Calls' /\ Searching' /\ op' \in OpType
  BY NoCall
<1>2. nodes \in Pages /\ BtTypes
  BY DEF BtIInv, BtTypes
<1>3. PICK height \in Heights, span \in Spans : Shape(height, span)
  BY DEF BtIInv
<1>4. PICK ns2 : ns2 = [nodes EXCEPT ![p] = g]
  OBVIOUS
<1>5. ns2 \in Pages /\ Forest(ns2, height, span)
  <2>1. Forest(nodes, height, span) /\ PageOK(g, height[p], span[p], height, span)
    BY <1>3 DEF Shape
  <2>2. QED
    BY <1>2, <1>4, <2>1, PageReplaced
<1>6. nodes' = ns2
  BY <1>4
<1>7. BtTypes'
  BY <1>1, <1>2, <1>5, <1>6 DEF BtTypes, OpType
<1>8. Linked(ns2) = Linked(nodes) /\ (OneParent(nodes) => OneParent(ns2))
  <2>1. OnlyAt(ns2, nodes, p) /\ ns2[p].children = nodes[p].children
    BY <1>2, <1>4 DEF OnlyAt, Pages
  <2>2. QED
    BY <1>2, <1>5, <2>1, LinksKept
<1>9. Fresh(ns2, used)
  <2>1. Fresh(nodes, used) /\ used \in Nat /\ p \in Nat
    BY <1>2, RootIsPage DEF BtIInv, Links, PageIds
  <2>2. \A q \in PageIds : q # p => ns2[q] = nodes[q]
    BY <1>2, <1>4 DEF Pages
  <2>3. \A q \in PageIds : q > used => q # p
    BY <2>1
  <2>4. QED
    BY <2>1, <2>2, <2>3 DEF Fresh
<1>10. Links'
  <2>1. OneParent(nodes') /\ Fresh(nodes', used') /\ Linked(nodes') = Linked(nodes)
    BY <1>6, <1>8, <1>9 DEF BtIInv, Links
  <2>2. QED
    BY <2>1 DEF BtIInv, Links
<1>11. Shape(height, span)'
  BY <1>1, <1>3, <1>5, <1>6 DEF Shape
<1>12. Iterating'
  BY <1>1 DEF Iterating
<1>13. QED
  BY <1>1, <1>3, <1>7, <1>10, <1>11, <1>12 DEF BtIInv

\* An insertion ends at a leaf that has room.
LEMMA BtInsertLeaf ==
    ASSUME BtIInv, load' = load, InsertLeaf
    PROVE  BtIInv'
<1>1. /\ op.kind = "insert" /\ nodes[op.at].leaf /\ op' = NoOp
      /\ UNCHANGED <<used, root, stack, out>>
  BY DEF InsertLeaf, Returns, Fails
<1>2. /\ BtTypes /\ op.at \in PageIds /\ op.key \in Keys /\ nodes \in Pages /\ ~IsFull(nodes[op.at])
      /\ load.duplicates \/ op.key \notin present
      /\ stack = <<>> /\ op.at <= used /\ failed \in BOOLEAN
  <2>1. BtTypes /\ op.at \in PageIds /\ op.key \in Keys /\ nodes \in Pages /\ failed \in BOOLEAN
    BY <1>1 DEF BtIInv, BtTypes
  <2>2. ~IsFull(nodes[op.at]) /\ (load.duplicates \/ op.key \notin present) /\ op.at <= used
    BY <1>1, <2>1, RootIsPage DEF BtIInv, Calls, Inserting
  <2>3. stack = <<>>
    BY <1>1 DEF BtIInv, Iterating
  <2>4. QED
    BY <2>1, <2>2, <2>3
<1>3. PICK p, n, k : p = op.at /\ n = nodes[p] /\ k = op.key
  OBVIOUS
<1>4. n \in Nodes /\ p \in PageIds /\ k \in Keys
  BY <1>2, <1>3 DEF Pages
<1>5. CASE Fails /\ UNCHANGED <<nodes, present>>
  BY <1>1, <1>2, <1>5, BtReturns DEF Fails
<1>6. CASE /\ \E i \in InsertPositions(n, k) : nodes' = [nodes EXCEPT ![p].entries = InsertAt(@, i, k)]
           /\ present' = present \cup {k} /\ failed' = failed
  <2>1. PICK i \in InsertPositions(n, k) : nodes' = [nodes EXCEPT ![p].entries = InsertAt(@, i, k)]
    BY <1>6
  <2>2. PICK g : g = With(n, i, k)
    OBVIOUS
  <2>3. nodes' = [nodes EXCEPT ![p] = g]
    BY <1>2, <1>3, <1>4, <2>1, <2>2 DEF Pages, With
  <2>4. ASSUME NEW height \in Heights, NEW span \in Spans, Shape(height, span)
        PROVE  /\ g \in Nodes /\ PageOK(g, height[p], span[p], height, span)
               /\ g.children = n.children
               /\ i \in 1 .. (Len(n.entries) + 1) /\ IsInserted(g.entries, Keys, n.entries, i, k)
    <3>1. k \in span[p] /\ PageOK(n, height[p], span[p], height, span)
      BY <1>1, <1>3, <1>4, <2>4 DEF Shape, Inserting, Forest
    <3>2. height[p] \in Nat /\ span[p] \in SUBSET Nat
      BY <1>4 DEF Heights, Spans
    <3>3. n.leaf /\ ~IsFull(n)
      BY <1>1, <1>2, <1>3
    <3>4. PICK h, K : h = height[p] /\ K = span[p]
      OBVIOUS
    <3>5. h \in Nat /\ K \in SUBSET Nat /\ k \in K /\ PageOK(n, h, K, height, span)
      BY <3>1, <3>2, <3>4
    <3>6. i \in 1 .. (Len(n.entries) + 1) /\ Fits(n, i, {k})
      <4>1. Sorted(n.entries) /\ k \in Nat
        BY <1>4, <3>5, BTreeAssumption DEF PageOK, NodeOK
      <4>2. QED
        BY <1>4, <4>1, PositionFits
    <3>7. /\ With(n, i, k) \in Nodes /\ PageOK(With(n, i, k), h, K, height, span)
          /\ With(n, i, k).children = n.children
          /\ IsInserted(With(n, i, k).entries, Keys, n.entries, i, k)
      <4>1. HasRoom(n, i, k, K)
        BY <3>3, <3>5, <3>6 DEF HasRoom
      <4>2. QED
        BY <1>4, <3>5, <4>1, LeafWith
    <3>8. QED
      BY <2>2, <3>4, <3>6, <3>7
  <2>5. PICK height \in Heights, span \in Spans : Shape(height, span)
    BY DEF BtIInv
  <2>6. /\ g \in Nodes /\ g.children = n.children
        /\ i \in 1 .. (Len(n.entries) + 1) /\ IsInserted(g.entries, Keys, n.entries, i, k)
    BY <2>4, <2>5
  <2>7. nodes' \in Pages
    BY <1>2, <2>3, <2>6 DEF Pages
  <2>8. /\ KeysIn(nodes') = KeysIn(nodes) \cup {k}
        /\ KeysOnce(nodes) /\ k \notin KeysIn(nodes) => KeysOnce(nodes')
    <3>1. EntryAdded(nodes', nodes, p, i, k)
      BY <1>2, <1>3, <1>4, <2>3, <2>6 DEF EntryAdded, OnlyAt, Pages
    <3>2. QED
      BY <1>2, <1>4, <2>7, <3>1, KeyAdded
  <2>9. (~load.duplicates => Contents)'
    <3>1. SUFFICES ASSUME ~load.duplicates
                   PROVE  Contents'
      OBVIOUS
    <3>2. KeysOnce(nodes) /\ KeysIn(nodes) \subseteq present /\ (failed \/ present \subseteq KeysIn(nodes))
      BY <3>1 DEF BtIInv, Contents
    <3>3. k \notin KeysIn(nodes)
      BY <1>2, <1>3, <3>1, <3>2
    <3>4. QED
      BY <1>6, <2>8, <3>2, <3>3 DEF Contents
  <2>10. present' \subseteq Keys
    BY <1>2, <1>4, <1>6 DEF BtTypes
  <2>11. QED
    BY <1>1, <1>2, <1>3, <1>4, <1>6, <2>3, <2>4, <2>6, <2>9, <2>10, LeafSaved
<1>7. QED
  BY <1>3, <1>5, <1>6 DEF InsertLeaf, Returns

\* A deletion ends at a leaf.
LEMMA BtDeleteLeaf ==
    ASSUME BtIInv, load' = load, DeleteLeaf
    PROVE  BtIInv'
<1>1. /\ op.kind = "delete" /\ nodes[op.at].leaf /\ op' = NoOp
      /\ UNCHANGED <<used, root, stack, out, failed>>
  BY DEF DeleteLeaf, Returns
<1>2. /\ BtTypes /\ op.at \in PageIds /\ op.key \in Keys /\ nodes \in Pages
      /\ stack = <<>> /\ op.at <= used /\ failed \in BOOLEAN
  <2>1. BtTypes /\ op.at \in PageIds /\ op.key \in Keys /\ nodes \in Pages /\ failed \in BOOLEAN
    BY <1>1 DEF BtIInv, BtTypes
  <2>2. op.at <= used
    BY <1>1, <2>1, RootIsPage DEF BtIInv, Calls
  <2>3. stack = <<>>
    BY <1>1 DEF BtIInv, Iterating
  <2>4. QED
    BY <2>1, <2>2, <2>3
<1>3. PICK p, n, k : p = op.at /\ n = nodes[p] /\ k = op.key
  OBVIOUS
<1>4. n \in Nodes /\ p \in PageIds /\ k \in Keys /\ DOMAIN n.entries = 1 .. Len(n.entries)
  BY <1>2, <1>3 DEF Pages, Nodes
<1>5. CASE ~\E i \in DOMAIN n.entries : n.entries[i] = k
  <2>1. UNCHANGED <<nodes, present>>
    BY <1>3, <1>5 DEF DeleteLeaf
  <2>2. QED
    BY <1>1, <1>2, <2>1, BtReturns
<1>6. CASE \E i \in DOMAIN n.entries : n.entries[i] = k
  <2>1. /\ \E i \in DOMAIN n.entries : n.entries[i] = k /\ nodes' = [nodes EXCEPT ![p].entries = RemoveAt(@, i)]
        /\ present' = present \ {k}
    BY <1>3, <1>6 DEF DeleteLeaf
  <2>2. PICK i \in 1 .. Len(n.entries) : n.entries[i] = k /\ nodes' = [nodes EXCEPT ![p].entries = RemoveAt(@, i)]
    BY <1>4, <2>1
  <2>3. PICK g : g = Without(n, i)
    OBVIOUS
  <2>4. nodes' = [nodes EXCEPT ![p] = g]
    BY <1>2, <1>3, <1>4, <2>2, <2>3 DEF Pages, Without
  <2>5. ASSUME NEW height \in Heights, NEW span \in Spans, Shape(height, span)
        PROVE  /\ g \in Nodes /\ PageOK(g, height[p], span[p], height, span)
               /\ g.children = n.children /\ IsRemoved(g.entries, Keys, n.entries, i)
    <3>1. PageOK(n, height[p], span[p], height, span)
      BY <1>3, <1>4, <2>5 DEF Shape, Forest
    <3>2. height[p] \in Nat /\ span[p] \in SUBSET Nat
      BY <1>4 DEF Heights, Spans
    <3>3. n.leaf
      BY <1>1, <1>3
    <3>4. QED
      BY <1>4, <2>3, <3>1, <3>2, <3>3, LeafWithout
  <2>6. PICK height \in Heights, span \in Spans : Shape(height, span)
    BY DEF BtIInv
  <2>7. g \in Nodes /\ g.children = n.children /\ IsRemoved(g.entries, Keys, n.entries, i)
    BY <2>5, <2>6
  <2>8. nodes' \in Pages
    BY <1>2, <2>4, <2>7 DEF Pages
  <2>9. KeysOnce(nodes) => KeysOnce(nodes') /\ KeysIn(nodes') = KeysIn(nodes) \ {k}
    <3>1. EntryGone(nodes', nodes, p, i, k)
      BY <1>2, <1>3, <1>4, <2>2, <2>4, <2>7 DEF EntryGone, OnlyAt, Pages
    <3>2. QED
      BY <1>2, <1>4, <2>8, <3>1, KeyGone
  <2>10. (~load.duplicates => Contents)'
    <3>1. SUFFICES ASSUME ~load.duplicates
                   PROVE  Contents'
      OBVIOUS
    <3>2. KeysOnce(nodes) /\ KeysIn(nodes) \subseteq present /\ (failed \/ present \subseteq KeysIn(nodes))
      BY <3>1 DEF BtIInv, Contents
    <3>3. QED
      BY <1>1, <2>1, <2>9, <3>2 DEF Contents
  <2>11. present' \subseteq Keys
    BY <1>2, <2>1 DEF BtTypes
  <2>12. QED
    BY <1>1, <1>2, <1>3, <1>4, <2>4, <2>5, <2>7, <2>10, <2>11, LeafSaved
<1>7. QED
  BY <1>5, <1>6

-----------------------------------------------------------------------------
(* The B-tree: splits *)

\* An insertion that returns an error after it saved some pages.
LEMMA BtFails ==
    ASSUME BtIInv, op' = NoOp, failed' = TRUE, UNCHANGED <<load, root, stack, out, present>>, stack = <<>>,
           nodes' \in Pages, used' \in PageIds, used <= used', used' <= load.frames,
           NEW height \in Heights, NEW span \in Spans, Forest(nodes', height, span),
           \A p \in PageIds : height[p] <= height[root], height[root] < used,
           OneParent(nodes'), Linked(nodes') \subseteq Linked(nodes), Fresh(nodes', used'),
           KeysOnce(nodes) => KeysOnce(nodes'), KeysIn(nodes') \subseteq KeysIn(nodes)
    PROVE  BtIInv'
<1>1. op'.kind = "none" /\ ~Inserting' /\ Calls' /\ Searching' /\ op' \in OpType
  BY NoCall
<1>2. BtTypes /\ used \in Nat /\ used' \in Nat /\ height[root] \in Nat /\ root \in 1 .. used
  BY RootIsPage DEF BtIInv, BtTypes, Heights, PageIds
<1>3. root' \in 1 .. used'
  BY <1>2
<1>4. BtTypes'
  BY <1>1, <1>2, <1>3 DEF BtTypes, OpType
<1>5. Links'
  <2>1. Linked(nodes') \subseteq (1 .. used) \ {root}
    BY DEF BtIInv, Links
  <2>2. 1 .. used \subseteq 1 .. used'
    BY <1>2
  <2>3. Linked(nodes') \subseteq (1 .. used') \ {root}
    BY <2>1, <2>2
  <2>4. QED
    BY <2>3 DEF Links
<1>6. (~load.duplicates => Contents)'
  <2>1. ASSUME ~load.duplicates
        PROVE  KeysOnce(nodes') /\ KeysIn(nodes') \subseteq present
    BY <2>1 DEF BtIInv, Contents
  <2>2. QED
    BY <2>1 DEF Contents
<1>7. height[root] < used'
  BY <1>2
<1>8. Shape(height, span)'
  BY <1>1, <1>7 DEF Shape
<1>9. Iterating'
  BY <1>1 DEF Iterating
<1>10. QED
  BY <1>1, <1>4, <1>5, <1>6, <1>8, <1>9 DEF BtIInv

\* Pages above the number in use stay blank when the ones up to it change.
LEMMA FreshKept ==
    ASSUME NEW ns, NEW ns2, NEW n \in Nat, NEW n2 \in Nat, n <= n2, Fresh(ns, n),
           \A p \in PageIds : p > n2 => ns2[p] = ns[p]
    PROVE  Fresh(ns2, n2)
<1>1. \A p \in PageIds : p > n2 => p > n
  BY BTreeAssumption DEF PageIds
<1>2. QED
  BY <1>1 DEF Fresh

\* Only the left half of a full page was saved.
LEMMA BtLeftSaved ==
    ASSUME BtIInv, op' = NoOp, failed' = TRUE, UNCHANGED <<load, root, stack, out, present>>, stack = <<>>,
           used' \in PageIds, used <= used', used' <= load.frames,
           NEW c \in PageIds, c <= used, IsFull(nodes[c]),
           nodes' = [nodes EXCEPT ![c] = LeftHalf(nodes[c])]
    PROVE  BtIInv'
<1>1. /\ BtTypes /\ nodes \in Pages /\ used \in Nat /\ used' \in Nat /\ nodes[c] \in Nodes
      /\ root \in PageIds /\ Links
  BY RootIsPage DEF BtIInv, BtTypes, Pages, PageIds
<1>2. PICK height \in Heights, span \in Spans : Shape(height, span)
  BY DEF BtIInv
<1>3. PICK n, h, K, m, l, r, sep :
        /\ n = nodes[c] /\ h = height[c] /\ K = span[c] /\ m = SplitPos(n)
        /\ l = LeftHalf(n) /\ r = RightHalf(n) /\ sep = n.entries[m + 1]
  OBVIOUS
<1>4. n \in Nodes /\ h \in Nat /\ K \in SUBSET Nat /\ PageOK(n, h, K, height, span) /\ Forest(nodes, height, span)
  BY <1>1, <1>2, <1>3 DEF Shape, Forest, Heights, Spans
<1>5. Halves(n, m, l, r)
  <2>1. NodeOK(n, h) /\ IsFull(n)
    BY <1>3, <1>4 DEF PageOK
  <2>2. QED
    BY <1>3, <1>4, <2>1, HalvesOfFull
<1>6. l \in Nodes
  BY <1>5 DEF Halves
<1>7. PageOK(l, h, K, height, span)
  <2>1. PICK K2 : K2 = UpTo(K, sep)
    OBVIOUS
  <2>2. PageOK(l, h, K2, height, span)
    BY <1>3, <1>4, <1>5, <2>1, HalfPages
  <2>3. K2 \in SUBSET Nat /\ K2 \subseteq K
    BY <1>4, <2>1 DEF UpTo
  <2>4. NoMoreBelow(l, height, span, height, span)
    BY DEF NoMoreBelow
  <2>5. QED
    BY <1>4, <1>6, <2>2, <2>3, <2>4, PageKept
<1>8. PICK ns2 : ns2 = [nodes EXCEPT ![c] = l]
  OBVIOUS
<1>9. ns2 \in Pages /\ Forest(ns2, height, span)
  BY <1>1, <1>3, <1>4, <1>6, <1>7, <1>8, PageReplaced
<1>10. OnlyAt(ns2, nodes, c) /\ ns2[c] = l
  BY <1>1, <1>8 DEF OnlyAt, Pages
<1>11. /\ Linked(ns2) \subseteq Linked(nodes) /\ (OneParent(nodes) => OneParent(ns2))
       /\ KeysIn(ns2) \subseteq KeysIn(nodes) /\ (KeysOnce(nodes) => KeysOnce(ns2))
  <2>1. LeftAt(ns2, nodes, c, m, r)
    BY <1>3, <1>5, <1>10 DEF LeftAt
  <2>2. QED
    BY <1>1, <1>9, <2>1, LeftLinks
<1>12. Fresh(ns2, used')
  <2>1. \A p \in PageIds : p > used' => p # c
    BY <1>1 DEF PageIds
  <2>2. \A p \in PageIds : p > used' => ns2[p] = nodes[p]
    BY <1>10, <2>1 DEF OnlyAt
  <2>3. Fresh(nodes, used)
    BY <1>1 DEF Links
  <2>4. QED
    BY <1>1, <2>2, <2>3, FreshKept
<1>13. nodes' = ns2
  BY <1>3, <1>8
<1>14. (\A p \in PageIds : height[p] <= height[root]) /\ height[root] < used /\ OneParent(nodes)
  BY <1>1, <1>2 DEF Shape, Links
<1>15. QED
  BY <1>9, <1>11, <1>12, <1>13, <1>14, BtFails

\* A full page was split; sep is in neither half.
SplitDone(ns2, height2, span2, ns, height, span, c, new, sep) ==
    /\ ns2 = [ns EXCEPT ![c] = LeftHalf(ns[c]), ![new] = RightHalf(ns[c])]
    /\ ns2 \in Pages /\ height2 \in Heights /\ span2 \in Spans /\ Forest(ns2, height2, span2)
    /\ OnlyAtBoth(ns2, ns, c, new) /\ ~IsFull(ns2[c]) /\ ~IsFull(ns2[new])
    /\ OnlyAt(height2, height, new) /\ height2[new] = height[c]
    /\ OnlyAtBoth(span2, span, c, new)
    /\ span2[c] = UpTo(span[c], sep) /\ span2[new] = From(span[c], sep)
    /\ sep \in Keys /\ sep \in span[c] /\ sep \in KeysIn(ns)
    /\ Linked(ns2) = Linked(ns) /\ (OneParent(ns) => OneParent(ns2))
    /\ KeysIn(ns2) \subseteq KeysIn(ns)
    /\ KeysOnce(ns) => KeysOnce(ns2) /\ KeysIn(ns2) = KeysIn(ns) \ {sep}

\* A full page can be split when there is a blank one.
LEMMA PageSplit ==
    ASSUME NEW ns \in Pages, NEW height \in Heights, NEW span \in Spans, Forest(ns, height, span),
           NEW c \in PageIds, NEW new \in PageIds, c # new, new \notin Linked(ns), ns[new] = Blank,
           IsFull(ns[c])
    PROVE  \E ns2, height2, span2 : SplitDone(ns2, height2, span2, ns, height, span, c, new, Separator(ns[c]))
<1>1. PICK n, h, K, m, l, r, sep :
        /\ n = ns[c] /\ h = height[c] /\ K = span[c] /\ m = SplitPos(n)
        /\ l = LeftHalf(n) /\ r = RightHalf(n) /\ sep = Separator(n)
  OBVIOUS
<1>2. n \in Nodes /\ h \in Nat /\ K \in SUBSET Nat /\ PageOK(n, h, K, height, span)
  BY <1>1, ForestTypes DEF Forest
<1>3. Halves(n, m, l, r) /\ sep = n.entries[m + 1]
  <2>1. NodeOK(n, h) /\ IsFull(n)
    BY <1>1, <1>2 DEF PageOK
  <2>2. QED
    BY <1>1, <1>2, <2>1, HalvesOfFull
<1>4. sep \in K /\ sep \in Keys /\ m + 1 \in 1 .. Len(n.entries)
  <2>1. n.entries[m + 1] \in K /\ n.entries[m + 1] \in Keys
    BY <1>2, <1>3, HalfPages
  <2>2. m \in Nat /\ m + 2 <= Len(n.entries) /\ Len(n.entries) \in Nat
    BY <1>2, <1>3 DEF Halves, Nodes
  <2>3. QED
    BY <1>3, <2>1, <2>2
<1>5. PICK L, R : L = UpTo(K, sep) /\ R = From(K, sep)
  OBVIOUS
<1>6. l \in Nodes /\ r \in Nodes /\ L \in SUBSET Nat /\ R \in SUBSET Nat
  BY <1>2, <1>3, <1>5 DEF Halves, UpTo, From
<1>7. PICK ns2, height2, span2 :
        /\ ns2 = [ns EXCEPT ![c] = l, ![new] = r]
        /\ height2 = [height EXCEPT ![new] = h]
        /\ span2 = [span EXCEPT ![c] = L, ![new] = R]
  OBVIOUS
<1>8. ns2 \in Pages /\ ns2[c] = l /\ ns2[new] = r /\ OnlyAtBoth(ns2, ns, c, new)
  BY <1>6, <1>7 DEF Pages, OnlyAtBoth
<1>9. height2 \in Heights /\ height2[new] = h /\ OnlyAt(height2, height, new)
  BY <1>2, <1>7 DEF Heights, OnlyAt
<1>10. span2 \in Spans /\ span2[c] = L /\ span2[new] = R /\ OnlyAtBoth(span2, span, c, new)
  BY <1>6, <1>7 DEF Spans, OnlyAtBoth
<1>11. HalvesAt(ns2, ns, c, new, m)
  BY <1>1, <1>3, <1>8 DEF HalvesAt
<1>12. SplitAt(ns2, height2, span2, ns, height, span, c, new, m)
  BY <1>1, <1>3, <1>5, <1>9, <1>10, <1>11 DEF SplitAt
<1>13. Forest(ns2, height2, span2)
  BY <1>8, <1>9, <1>10, <1>12, SplitForest
<1>14. /\ Linked(ns2) = Linked(ns) /\ (OneParent(ns) => OneParent(ns2))
       /\ KeysIn(ns2) \subseteq KeysIn(ns)
       /\ KeysOnce(ns) => KeysOnce(ns2) /\ KeysIn(ns2) = KeysIn(ns) \ {sep}
  <2>1. /\ Linked(ns2) = Linked(ns) /\ (OneParent(ns) => OneParent(ns2))
        /\ KeysIn(ns2) \subseteq KeysIn(ns)
        /\ KeysOnce(ns) => KeysOnce(ns2) /\ KeysIn(ns2) = KeysIn(ns) \ {ns[c].entries[m + 1]}
    BY <1>8, <1>11, HalfLinks
  <2>2. QED
    BY <1>1, <1>3, <2>1
<1>15. ~IsFull(l) /\ ~IsFull(r)
  <2>1. /\ m \in Nat /\ 1 <= m /\ m + 2 <= Len(n.entries) /\ Len(l.entries) = m
        /\ Len(r.entries) = Len(n.entries) - m - 1
    BY <1>3 DEF Halves
  <2>2. Len(n.entries) <= MaxKeys /\ Len(n.entries) \in Nat /\ MaxKeys \in Nat
    BY <1>2, BTreeAssumption DEF PageOK, NodeOK, Nodes
  <2>3. QED
    BY <2>1, <2>2 DEF IsFull
<1>16. sep \in KeysIn(ns)
  BY <1>1, <1>3, <1>4, ForestMembers
<1>17. SplitDone(ns2, height2, span2, ns, height, span, c, new, sep)
  BY <1>1, <1>4, <1>5, <1>7, <1>8, <1>9, <1>10, <1>13, <1>14, <1>15, <1>16 DEF SplitDone
<1>18. QED
  BY <1>1, <1>17

\* Both halves of a full page were saved, and not its parent.
LEMMA BtHalvesSaved ==
    ASSUME BtIInv, op' = NoOp, failed' = TRUE, UNCHANGED <<load, root, stack, out, present>>, stack = <<>>,
           used' \in PageIds, used <= used', used' <= load.frames,
           NEW c \in PageIds, c <= used, IsFull(nodes[c]),
           NEW new \in PageIds, used < new, new <= used',
           nodes' = [nodes EXCEPT ![c] = LeftHalf(nodes[c]), ![new] = RightHalf(nodes[c])]
    PROVE  BtIInv'
<1>1. /\ BtTypes /\ nodes \in Pages /\ used \in Nat /\ used' \in Nat /\ c \in Nat /\ new \in Nat
      /\ root \in PageIds /\ root <= used /\ root \in Nat /\ Links
  BY RootIsPage DEF BtIInv, BtTypes, PageIds
<1>2. PICK height \in Heights, span \in Spans : Shape(height, span)
  BY DEF BtIInv
<1>3. c # new /\ new \notin Linked(nodes) /\ nodes[new] = Blank /\ root # new
  BY <1>1 DEF Links, Fresh
<1>4. Forest(nodes, height, span)
  BY <1>2 DEF Shape
<1>5. PICK sep : sep = Separator(nodes[c])
  OBVIOUS
<1>6. PICK ns2, height2, span2 : SplitDone(ns2, height2, span2, nodes, height, span, c, new, sep)
  BY <1>1, <1>3, <1>4, <1>5, PageSplit
<1>7. nodes' = ns2
  BY <1>6 DEF SplitDone
<1>8. /\ ns2 \in Pages /\ height2 \in Heights /\ span2 \in Spans /\ Forest(ns2, height2, span2)
      /\ Linked(ns2) \subseteq Linked(nodes) /\ (OneParent(nodes) => OneParent(ns2))
      /\ KeysIn(ns2) \subseteq KeysIn(nodes) /\ (KeysOnce(nodes) => KeysOnce(ns2))
  BY <1>6 DEF SplitDone
<1>9. Fresh(ns2, used')
  <2>1. \A p \in PageIds : p > used' => p # c /\ p # new
    BY <1>1 DEF PageIds
  <2>2. \A p \in PageIds : p > used' => ns2[p] = nodes[p]
    BY <1>6, <2>1 DEF SplitDone, OnlyAtBoth
  <2>3. Fresh(nodes, used)
    BY <1>1 DEF Links
  <2>4. QED
    BY <1>1, <2>2, <2>3, FreshKept
<1>10. (\A p \in PageIds : height2[p] <= height2[root]) /\ height2[root] < used
  <2>1. height2[root] = height[root] /\ height2[new] = height[c] /\ \A p \in PageIds : p # new => height2[p] = height[p]
    BY <1>1, <1>3, <1>6 DEF SplitDone, OnlyAt
  <2>2. (\A p \in PageIds : height[p] <= height[root]) /\ height[root] < used
    BY <1>2 DEF Shape
  <2>3. ASSUME NEW p \in PageIds
        PROVE  height2[p] <= height2[root]
    <3>1. CASE p = new
      BY <2>1, <2>2, <3>1
    <3>2. CASE p # new
      BY <2>1, <2>2, <3>2
    <3>3. QED
      BY <3>1, <3>2
  <2>4. QED
    BY <2>1, <2>2, <2>3
<1>11. OneParent(nodes)
  BY <1>1 DEF Links
<1>12. QED
  BY <1>7, <1>8, <1>9, <1>10, <1>11, BtFails

\* All three pages of a root that was split are saved.
RootSaved ==
    /\ op.kind = "splitRoot" /\ used + 2 <= load.frames
    /\ nodes' = [nodes EXCEPT ![root] = LeftHalf(nodes[root]), ![used + 2] = RightHalf(nodes[root]),
                              ![used + 1] = NewRoot(Separator(nodes[root]), root, used + 2)]
    /\ used' = used + 2 /\ root' = used + 1
    /\ op' = [op EXCEPT !.kind = "insert", !.at = used + 1]
    /\ UNCHANGED <<load, stack, out, present, failed>>

\* The root was split and has a parent now, the new root.
LEMMA BtRootSplit ==
    ASSUME BtIInv, RootSaved
    PROVE  BtIInv'
<1>1. /\ BtTypes /\ Links /\ op \in OpType /\ op.key \in Keys /\ op.at = root /\ IsFull(nodes[root])
      /\ stack = <<>> /\ nodes \in Pages /\ load \in Workloads /\ present \subseteq Keys
      /\ load.duplicates \/ op.key \notin present
  BY DEF BtIInv, BtTypes, OpType, Calls, Iterating, Inserting, RootSaved
<1>2. /\ root \in PageIds /\ root \in 1 .. used /\ root <= used /\ root \in Nat /\ used \in Nat /\ used >= 1
      /\ load.frames \in Nat /\ load.frames <= PoolFrames /\ PoolFrames \in Nat
  <2>1. load.frames \in 1 .. PoolFrames
    BY <1>1, LoadTypes
  <2>2. root \in 1 .. used
    BY <1>1 DEF BtTypes
  <2>3. QED
    BY <1>1, <2>1, <2>2, RootIsPage
<1>u. UNCHANGED <<load, stack, out, present, failed>>
  BY DEF RootSaved
<1>3. PICK t, new, c : t = used + 1 /\ new = used + 2 /\ c = root
  OBVIOUS
<1>4. /\ t \in PageIds /\ new \in PageIds /\ c \in PageIds /\ t \in Nat /\ new \in Nat /\ c \in Nat
      /\ t # new /\ c # t /\ c # new /\ t > used /\ new > used /\ c <= used
  <2>1. used + 2 <= load.frames
    BY DEF RootSaved
  <2>2. QED
    BY <1>2, <1>3, <2>1 DEF PageIds
<1>5. nodes[new] = Blank /\ nodes[t] = Blank /\ new \notin Linked(nodes) /\ t \notin Linked(nodes) /\ c \notin Linked(nodes)
  <2>1. Fresh(nodes, used) /\ Linked(nodes) \subseteq (1 .. used) \ {c}
    BY <1>1, <1>3 DEF Links
  <2>2. new \notin 1 .. used /\ t \notin 1 .. used
    BY <1>2, <1>4
  <2>3. QED
    BY <1>4, <2>1, <2>2 DEF Fresh
<1>6. PICK height \in Heights, span \in Spans : Shape(height, span)
  BY DEF BtIInv
<1>7. Forest(nodes, height, span)
  BY <1>6 DEF Shape
<1>8. PICK sep : sep = Separator(nodes[c])
  OBVIOUS
<1>9. PICK ns1, height1, span1 : SplitDone(ns1, height1, span1, nodes, height, span, c, new, sep)
  <2>1. IsFull(nodes[c])
    BY <1>1, <1>3
  <2>2. QED
    BY <1>1, <1>4, <1>5, <1>7, <1>8, <2>1, PageSplit
<1>10. /\ ns1 \in Pages /\ height1 \in Heights /\ span1 \in Spans /\ Forest(ns1, height1, span1)
       /\ OnlyAtBoth(ns1, nodes, c, new) /\ OnlyAt(height1, height, new) /\ height1[new] = height[c]
       /\ OnlyAtBoth(span1, span, c, new)
       /\ span1[c] = UpTo(span[c], sep) /\ span1[new] = From(span[c], sep)
       /\ sep \in Keys /\ sep \in span[c] /\ sep \in KeysIn(nodes)
       /\ Linked(ns1) = Linked(nodes) /\ (OneParent(nodes) => OneParent(ns1))
       /\ KeysIn(ns1) \subseteq KeysIn(nodes)
       /\ KeysOnce(nodes) => KeysOnce(ns1) /\ KeysIn(ns1) = KeysIn(nodes) \ {sep}
  BY <1>9 DEF SplitDone
<1>11. PICK top, h, K : top = NewRoot(sep, c, new) /\ h = height[c] + 1 /\ K = span[c]
  OBVIOUS
<1>12. height[c] \in Nat /\ h \in Nat /\ K \in SUBSET Nat
  BY <1>1, <1>4, <1>11 DEF Heights, Spans
<1>13. PICK ns2, height2, span2 :
         /\ ns2 = [ns1 EXCEPT ![t] = top] /\ height2 = [height1 EXCEPT ![t] = h] /\ span2 = [span1 EXCEPT ![t] = K]
  OBVIOUS
<1>14. height2 \in Heights /\ height2[t] = h /\ OnlyAt(height2, height1, t)
  BY <1>4, <1>10, <1>12, <1>13 DEF Heights, OnlyAt
<1>15. span2 \in Spans /\ span2[t] = K /\ OnlyAt(span2, span1, t)
  BY <1>4, <1>10, <1>12, <1>13 DEF Spans, OnlyAt
<1>16. Above(h, K, height2, span2, sep, c, new)
  <2>1. height2[c] = height[c] /\ height2[new] = height[c] /\ span2[c] = UpTo(K, sep) /\ span2[new] = From(K, sep)
    BY <1>4, <1>10, <1>11, <1>14, <1>15 DEF OnlyAt
  <2>2. sep \in K
    BY <1>10, <1>11
  <2>3. UpTo(K, sep) \subseteq K /\ UpTo(K, sep) \subseteq UpTo(Nat, sep) /\ From(K, sep) \subseteq K /\ From(K, sep) \subseteq From(Nat, sep)
    BY <1>12 DEF UpTo, From
  <2>4. QED
    BY <1>11, <2>1, <2>2, <2>3 DEF Above
<1>17. /\ top \in Nodes /\ PageOK(top, h, K, height2, span2) /\ ~IsFull(top)
       /\ top.entries = <<sep>> /\ top.children = <<c, new>>
  <2>1. c \in PageIds /\ new \in PageIds /\ sep \in Keys /\ height2 \in Heights /\ span2 \in Spans
    BY <1>4, <1>10, <1>14, <1>15
  <2>2. IsTop(NewRoot(sep, c, new), h, K, height2, span2, sep, c, new)
    BY <1>12, <1>16, <2>1, RootPage
  <2>3. QED
    BY <1>11, <2>2 DEF IsTop
<1>18. ns2 \in Pages /\ ns2[t] = top /\ OnlyAt(ns2, ns1, t)
  BY <1>4, <1>10, <1>13, <1>17 DEF Pages, OnlyAt
<1>19. Forest(ns2, height2, span2)
  <2>1. t \notin Linked(ns1)
    BY <1>5, <1>10
  <2>2. PageOK(ns2[t], height2[t], span2[t], height2, span2)
    BY <1>14, <1>15, <1>17, <1>18
  <2>3. QED
    BY <1>4, <1>10, <1>14, <1>15, <1>18, <2>1, <2>2, PagePut
<1>20. /\ Linked(ns2) = Linked(nodes) \cup {c, new} /\ OneParent(ns2)
       /\ KeysIn(ns2) = KeysIn(ns1) \cup {sep}
       /\ KeysOnce(ns1) /\ sep \notin KeysIn(ns1) => KeysOnce(ns2)
  <2>1. TopAt(ns2, ns1, t, sep, c, new)
    <3>1. ns1[t] = Blank
      BY <1>4, <1>5, <1>10 DEF OnlyAtBoth
    <3>2. QED
      BY <1>4, <1>5, <1>10, <1>17, <1>18, <3>1 DEF TopAt
  <2>2. OneParent(ns1)
    BY <1>1, <1>10 DEF Links
  <2>3. QED
    BY <1>4, <1>10, <1>18, <2>1, <2>2, TopLinks
<1>21. nodes' = ns2
  <2>1. ns1 = [nodes EXCEPT ![c] = LeftHalf(nodes[c]), ![new] = RightHalf(nodes[c])]
    BY <1>9 DEF SplitDone
  <2>2. QED
    BY <1>3, <1>8, <1>11, <1>13, <2>1 DEF RootSaved
<1>22. used' = new /\ root' = t
  BY <1>3 DEF RootSaved
<1>23. op'.kind = "insert" /\ op'.key = op.key /\ op'.at = t /\ op' \in OpType
  <2>1. op' = [op EXCEPT !.kind = "insert", !.at = t]
    BY <1>3 DEF RootSaved
  <2>2. QED
    BY <1>1, <1>4, <2>1 DEF OpType, CallKinds
<1>24. BtTypes'
  <2>1. root' \in 1 .. used'
    BY <1>2, <1>3, <1>4, <1>22
  <2>2. used' \in PageIds /\ used' <= load'.frames
    BY <1>3, <1>4, <1>22 DEF RootSaved
  <2>3. load' \in Workloads /\ nodes' \in Pages /\ present' \subseteq Keys
    BY <1>u, <1>1, <1>18, <1>21
  <2>4. failed' \in BOOLEAN
    BY <1>u DEF BtIInv, BtTypes
  <2>5. QED
    BY <1>1, <1>4, <1>23, <2>1, <2>2, <2>3, <2>4 DEF BtTypes, OpType
<1>25. Links'
  <2>1. Fresh(ns2, new)
    <3>1. \A p \in PageIds : p > new => p # c /\ p # t /\ p # new
      BY <1>2, <1>3, <1>4 DEF PageIds
    <3>2. \A p \in PageIds : p > new => ns2[p] = nodes[p]
      BY <1>10, <1>18, <3>1 DEF OnlyAt, OnlyAtBoth
    <3>3. Fresh(nodes, used) /\ used <= new
      BY <1>1, <1>2, <1>3 DEF Links
    <3>4. QED
      BY <1>2, <1>4, <3>2, <3>3, FreshKept
  <2>2. Linked(nodes) \subseteq (1 .. used) \ {c} /\ (failed \/ (1 .. used) \ {c} \subseteq Linked(nodes))
    BY <1>1, <1>3 DEF Links
  <2>3. \A p : p \in (1 .. new) \ {t} <=> p \in ((1 .. used) \ {c}) \cup {c, new}
    <3>1. c \in 1 .. used
      BY <1>2, <1>3
    <3>2. \A p : p \in 1 .. new <=> p \in 1 .. used \/ p = t \/ p = new
      BY <1>2, <1>3
    <3>3. t \notin 1 .. used
      BY <1>2, <1>4
    <3>4. QED
      BY <1>4, <3>1, <3>2, <3>3
  <2>4. Linked(ns2) \subseteq (1 .. new) \ {t} /\ (failed \/ (1 .. new) \ {t} \subseteq Linked(ns2))
    BY <1>20, <2>2, <2>3
  <2>5. QED
    BY <1>u, <1>20, <1>21, <1>22, <2>1, <2>4 DEF Links
<1>26. (~load.duplicates => Contents)'
  <2>1. SUFFICES ASSUME ~load.duplicates
                 PROVE  Contents'
    BY <1>u
  <2>2. KeysOnce(nodes) /\ KeysIn(nodes) \subseteq present /\ (failed \/ present \subseteq KeysIn(nodes))
    BY <2>1 DEF BtIInv, Contents
  <2>3. KeysOnce(ns2) /\ KeysIn(ns2) = KeysIn(nodes)
    BY <1>10, <1>20, <2>2
  <2>4. QED
    BY <1>u, <1>21, <2>2, <2>3 DEF Contents
<1>27. Shape(height2, span2)'
  <2>1. \A p \in PageIds : height[p] \in Nat /\ height[p] <= height[c]
    BY <1>3, <1>6 DEF Shape, Heights
  <2>2. ASSUME NEW p \in PageIds
        PROVE  height2[p] <= h
    <3>1. CASE p = t
      BY <1>12, <1>14, <3>1
    <3>2. CASE p = new
      BY <1>4, <1>10, <1>11, <1>12, <1>14, <3>2 DEF OnlyAt
    <3>3. CASE p # t /\ p # new
      <4>1. height2[p] = height[p]
        BY <1>10, <1>14, <3>3 DEF OnlyAt
      <4>2. QED
        BY <1>11, <1>12, <2>1, <4>1
    <3>4. QED
      BY <3>1, <3>2, <3>3
  <2>3. h < new
    <3>1. height[c] < used
      BY <1>3, <1>6 DEF Shape
    <3>2. QED
      BY <1>2, <1>3, <1>11, <1>12, <3>1
  <2>4. op.key \in K
    BY <1>1, <1>3, <1>6, <1>11 DEF Shape, Inserting, RootSaved
  <2>5. QED
    BY <1>14, <1>15, <1>19, <1>21, <1>22, <1>23, <2>2, <2>3, <2>4 DEF Shape
<1>28. Calls'
  <2>1. t \in 1 .. new
    BY <1>2, <1>3
  <2>2. ~IsFull(nodes'[t])
    <3>1. nodes'[t] = top /\ ~IsFull(top)
      BY <1>17, <1>18, <1>21
    <3>2. QED
      BY <3>1
  <2>3. op'.key = op.key /\ op'.at = t /\ used' = new /\ op'.kind = "insert" /\ UNCHANGED <<load, present>>
    BY <1>u, <1>22, <1>23
  <2>4. QED
    BY <1>1, <2>1, <2>2, <2>3 DEF Calls, IsFull, Inserting
<1>29. Searching' /\ Iterating'
  BY <1>u, <1>1, <1>23 DEF Searching, Iterating
<1>30. QED
  BY <1>14, <1>15, <1>24, <1>25, <1>26, <1>27, <1>28, <1>29 DEF BtIInv

\* An insertion comes to a root that is full.
LEMMA BtSplitRoot ==
    ASSUME BtIInv, load' = load, SplitRoot
    PROVE  BtIInv'
<1>1. op.kind = "splitRoot" /\ UNCHANGED <<stack, out, present>>
  BY DEF SplitRoot
<1>2. /\ BtTypes /\ stack = <<>> /\ failed \in BOOLEAN /\ root \in PageIds /\ root <= used
      /\ IsFull(nodes[root]) /\ load \in Workloads /\ used <= load.frames
  BY <1>1, RootIsPage DEF BtIInv, BtTypes, Calls, Iterating
<1>3. used \in Nat /\ load.frames \in Nat /\ load.frames <= PoolFrames /\ PoolFrames \in Nat
  <2>1. load.frames \in 1 .. PoolFrames
    BY <1>2, LoadTypes
  <2>2. QED
    BY <1>2, <2>1, RootIsPage
<1>4. CASE /\ used + 2 <= load.frames
           /\ nodes' = [nodes EXCEPT ![root] = LeftHalf(nodes[root]), ![used + 2] = RightHalf(nodes[root]),
                                     ![used + 1] = NewRoot(Separator(nodes[root]), root, used + 2)]
           /\ used' = used + 2 /\ root' = used + 1
           /\ op' = [op EXCEPT !.kind = "insert", !.at = used + 1]
           /\ UNCHANGED failed
  BY <1>1, <1>4, BtRootSplit DEF RootSaved
<1>5. CASE /\ used + 2 > load.frames
           /\ nodes' = IF used < load.frames THEN [nodes EXCEPT ![root] = LeftHalf(nodes[root])] ELSE nodes
           /\ used' = load.frames /\ Fails /\ UNCHANGED root
  <2>1. CASE used < load.frames
    <3>1. used' \in PageIds /\ used <= used' /\ used' <= load.frames
      BY <1>3, <1>5, <2>1 DEF PageIds
    <3>2. nodes' = [nodes EXCEPT ![root] = LeftHalf(nodes[root])] /\ op' = NoOp /\ failed' = TRUE /\ root' = root
      BY <1>5, <2>1 DEF Fails
    <3>3. QED
      BY <1>1, <1>2, <3>1, <3>2, BtLeftSaved
  <2>2. CASE ~(used < load.frames)
    <3>1. used' = used /\ nodes' = nodes
      BY <1>2, <1>3, <1>5, <2>2
    <3>2. QED
      BY <1>1, <1>2, <1>5, <3>1, BtReturns DEF Fails
  <2>3. QED
    BY <2>1, <2>2
<1>6. CASE /\ used + 2 <= load.frames
           /\ nodes' = [nodes EXCEPT ![root] = LeftHalf(nodes[root]), ![used + 2] = RightHalf(nodes[root])]
           /\ used' = used + 2 /\ Fails /\ UNCHANGED root
  <2>1. PICK new : new = used + 2
    OBVIOUS
  <2>2. new \in PageIds /\ used < new /\ used' \in PageIds /\ used <= used' /\ used' <= load.frames /\ new <= used'
    BY <1>3, <1>6, <2>1 DEF PageIds
  <2>3. nodes' = [nodes EXCEPT ![root] = LeftHalf(nodes[root]), ![new] = RightHalf(nodes[root])]
    BY <1>6, <2>1
  <2>4. QED
    BY <1>1, <1>2, <1>6, <2>2, <2>3, BtHalvesSaved DEF Fails
<1>7. QED
  BY <1>4, <1>5, <1>6 DEF SplitRoot

\* At a page that is no leaf, the key goes to one of the children.
LEMMA ChildOfKey ==
    ASSUME BtIInv, op.kind = "insert", ~nodes[op.at].leaf,
           NEW i \in InsertPositions(nodes[op.at], op.key)
    PROVE  /\ i \in 1 .. Len(nodes[op.at].children)
           /\ Len(nodes[op.at].children) = Len(nodes[op.at].entries) + 1 /\ Len(nodes[op.at].entries) \in Nat
           /\ nodes[op.at].children[i] \in 1 .. used
           /\ Fits(nodes[op.at], i, {op.key})
<1>1. BtTypes /\ op.at \in PageIds /\ op.key \in Keys /\ op.key \in Nat /\ nodes \in Pages
  <2>1. BtTypes /\ op.at \in PageIds /\ op.key \in Keys /\ nodes \in Pages
    BY DEF BtIInv, BtTypes
  <2>2. QED
    BY <2>1, BTreeAssumption
<1>2. PICK height \in Heights, span \in Spans : Shape(height, span)
  BY DEF BtIInv
<1>3. PICK p, n, k : p = op.at /\ n = nodes[p] /\ k = op.key
  OBVIOUS
<1>4. Forest(nodes, height, span) /\ p \in PageIds /\ n \in Nodes /\ k \in Nat
  BY <1>1, <1>2, <1>3 DEF Shape, Pages
<1>5. Len(n.children) = Len(n.entries) + 1 /\ Sorted(n.entries) /\ Len(n.entries) \in Nat
  BY <1>1, <1>3, <1>4, InnerPage, ForestTypes
<1>6. i \in 1 .. (Len(n.entries) + 1) /\ Fits(n, i, {k})
  BY <1>3, <1>4, <1>5, PositionFits
<1>7. i \in 1 .. Len(n.children)
  BY <1>5, <1>6
<1>8. n.children[i] \in 1 .. used
  BY <1>1, <1>3, <1>4, <1>7, ChildUsed DEF BtIInv
<1>9. QED
  BY <1>3, <1>5, <1>6, <1>7, <1>8

\* Child i of the page, which was full, is split, and all three pages are saved.
ChildSaved(i) ==
    LET n == nodes[op.at]
        child == n.children[i]
        full == nodes[child]
    IN  /\ op.kind = "insert" /\ ~n.leaf /\ IsFull(full)
        /\ i \in InsertPositions(n, op.key)
        /\ used < load.frames
        /\ nodes' = [nodes EXCEPT ![child] = LeftHalf(full), ![used + 1] = RightHalf(full),
                                  ![op.at] = Grown(n, i, Separator(full), used + 1)]
        /\ used' = used + 1
        /\ op' = [op EXCEPT !.at = Side(op.key, Separator(full), child, used + 1)]
        /\ UNCHANGED <<load, root, stack, out, present, failed>>

\* The child was split, and its parent, which had room, has the new half.
LEMMA BtChildSplit ==
    ASSUME BtIInv, NEW i, ChildSaved(i)
    PROVE  BtIInv'
<1>1. /\ BtTypes /\ Links /\ op \in OpType /\ op.key \in Keys /\ op.at \in PageIds /\ op.at \in 1 .. used
      /\ ~IsFull(nodes[op.at])
      /\ stack = <<>> /\ nodes \in Pages /\ load \in Workloads /\ present \subseteq Keys
      /\ load.duplicates \/ op.key \notin present
  BY DEF BtIInv, BtTypes, OpType, Calls, Iterating, Inserting, ChildSaved
<1>u. UNCHANGED <<load, root, stack, out, present, failed>>
  BY DEF ChildSaved
<1>2. /\ root \in PageIds /\ root \in 1 .. used /\ used \in Nat /\ used >= 1
      /\ load.frames \in Nat /\ load.frames <= PoolFrames /\ PoolFrames \in Nat
  <2>1. load.frames \in 1 .. PoolFrames
    BY <1>1, LoadTypes
  <2>2. root \in 1 .. used
    BY <1>1 DEF BtTypes
  <2>3. QED
    BY <1>1, <2>1, <2>2, RootIsPage
<1>3. PICK p, n, k, c, new :
        p = op.at /\ n = nodes[p] /\ k = op.key /\ c = n.children[i] /\ new = used + 1
  OBVIOUS
<1>4. /\ i \in 1 .. Len(n.children) /\ Len(n.children) = Len(n.entries) + 1 /\ Len(n.entries) \in Nat
      /\ c \in 1 .. used /\ Fits(n, i, {k})
  <2>1. op.kind = "insert" /\ ~nodes[op.at].leaf /\ i \in InsertPositions(nodes[op.at], op.key)
    BY DEF ChildSaved
  <2>2. QED
    BY <1>3, <2>1, ChildOfKey
<1>5. /\ new \in PageIds /\ c \in PageIds /\ p \in PageIds /\ new \in Nat /\ new > used
      /\ c # new /\ p # new /\ root # new /\ n \in Nodes
  <2>1. used < load.frames
    BY DEF ChildSaved
  <2>2. new \in Nat /\ new > used /\ new \in PageIds
    BY <1>2, <1>3, <2>1 DEF PageIds
  <2>3. c \in PageIds /\ c # new
    BY <1>2, <1>4, <2>2 DEF PageIds
  <2>4. p \in PageIds /\ p # new /\ root # new
    BY <1>1, <1>2, <1>3, <2>2
  <2>5. n \in Nodes
    BY <1>1, <1>3, <2>4 DEF Pages
  <2>6. QED
    BY <2>2, <2>3, <2>4, <2>5
<1>6. nodes[new] = Blank /\ new \notin Linked(nodes) /\ OneParent(nodes)
  <2>1. Fresh(nodes, used) /\ Linked(nodes) \subseteq (1 .. used) \ {root} /\ OneParent(nodes)
    BY <1>1 DEF Links
  <2>2. new \notin 1 .. used
    BY <1>2, <1>5
  <2>3. QED
    BY <1>5, <2>1, <2>2 DEF Fresh
<1>7. PICK height \in Heights, span0 \in Spans : Shape(height, span0)
  BY DEF BtIInv
<1>8. Forest(nodes, height, span0) /\ k \in span0[p]
  <2>1. Inserting
    BY DEF ChildSaved, Inserting
  <2>2. QED
    BY <1>3, <1>7, <2>1 DEF Shape
<1>9. PICK span : span = [span0 EXCEPT ![c] = span0[c] \cup {k}]
  OBVIOUS
<1>10. span \in Spans /\ Forest(nodes, height, span)
  BY <1>1, <1>3, <1>4, <1>5, <1>6, <1>8, <1>9, KeyDescends
<1>11. PICK h, K : h = height[p] /\ K = span[p]
  OBVIOUS
<1>12. /\ h \in Nat /\ K \in SUBSET Nat /\ height[c] \in Nat /\ height[c] + 1 = h /\ c # p
       /\ span[c] \subseteq K /\ Fits(n, i, span[c]) /\ k \in span[c]
  <2>1. height[c] + 1 = h /\ span[c] \subseteq K /\ Fits(n, i, span[c])
    BY <1>3, <1>4, <1>5, <1>10, <1>11 DEF Forest, PageOK
  <2>2. h \in Nat /\ K \in SUBSET Nat /\ height[c] \in Nat
    BY <1>5, <1>10, <1>11 DEF Heights, Spans
  <2>3. c # p
    BY <1>11, <2>1, <2>2
  <2>4. k \in span[c]
    BY <1>5, <1>9 DEF Spans
  <2>5. QED
    BY <2>1, <2>2, <2>3, <2>4
<1>13. PICK sep : sep = Separator(nodes[c])
  OBVIOUS
<1>14. PICK ns1, height1, span1 : SplitDone(ns1, height1, span1, nodes, height, span, c, new, sep)
  <2>1. IsFull(nodes[c])
    BY <1>3 DEF ChildSaved
  <2>2. QED
    BY <1>1, <1>5, <1>6, <1>10, <1>13, <2>1, PageSplit
<1>15. /\ ns1 \in Pages /\ height1 \in Heights /\ span1 \in Spans /\ Forest(ns1, height1, span1)
       /\ OnlyAtBoth(ns1, nodes, c, new) /\ OnlyAt(height1, height, new) /\ height1[new] = height[c]
       /\ OnlyAtBoth(span1, span, c, new) /\ ~IsFull(ns1[c]) /\ ~IsFull(ns1[new])
       /\ span1[c] = UpTo(span[c], sep) /\ span1[new] = From(span[c], sep)
       /\ sep \in Keys /\ sep \in span[c] /\ sep \in KeysIn(nodes)
       /\ Linked(ns1) = Linked(nodes) /\ (OneParent(nodes) => OneParent(ns1))
       /\ KeysIn(ns1) \subseteq KeysIn(nodes)
       /\ KeysOnce(nodes) => KeysOnce(ns1) /\ KeysIn(ns1) = KeysIn(nodes) \ {sep}
  BY <1>14 DEF SplitDone
<1>16. ns1[p] = n /\ height1[p] = h /\ span1[p] = K
  BY <1>3, <1>5, <1>11, <1>12, <1>15 DEF OnlyAt, OnlyAtBoth
<1>17. PageOK(n, h, K, height1, span1)
  BY <1>5, <1>15, <1>16 DEF Forest
<1>18. Beside(n, h, K, height1, span1, i, sep, new)
  <2>1. sep \in K /\ Fits(n, i, {sep})
    BY <1>12, <1>15 DEF Fits
  <2>2. height1[new] + 1 = h
    BY <1>12, <1>15
  <2>3. span1[new] \subseteq K /\ Fits(n, i, span1[new]) /\ span1[new] \subseteq From(Nat, sep)
    <3>1. span1[new] \subseteq span[c]
      BY <1>15 DEF From
    <3>2. Fits(n, i, span1[new])
      BY <1>12, <3>1 DEF Fits
    <3>3. QED
      BY <1>12, <1>15, <3>1, <3>2 DEF From
  <2>4. span1[c] \subseteq UpTo(Nat, sep)
    BY <1>12, <1>15 DEF UpTo
  <2>5. QED
    BY <1>3, <2>1, <2>2, <2>3, <2>4 DEF Beside
<1>19. PICK g : g = Grown(n, i, sep, new)
  OBVIOUS
<1>20. IsGrown(g, n, h, K, height1, span1, i, sep, new)
  <2>1. ~IsFull(n) /\ sep \in Keys /\ height1 \in Heights /\ span1 \in Spans
    BY <1>1, <1>3, <1>15
  <2>2. QED
    BY <1>4, <1>5, <1>12, <1>17, <1>18, <1>19, <2>1, GrownPage
<1>21. /\ g \in Nodes /\ PageOK(g, h, K, height1, span1)
       /\ IsInserted(g.entries, Keys, n.entries, i, sep)
       /\ IsInserted(g.children, PageIds, n.children, i + 1, new)
  BY <1>20 DEF IsGrown
<1>22. PICK ns2 : ns2 = [ns1 EXCEPT ![p] = g]
  OBVIOUS
<1>23. ns2 \in Pages /\ Forest(ns2, height1, span1)
  BY <1>5, <1>15, <1>16, <1>21, <1>22, PageReplaced
<1>24. ns2[p] = g /\ OnlyAt(ns2, ns1, p)
  BY <1>5, <1>15, <1>22 DEF Pages, OnlyAt
<1>25. /\ Linked(ns2) = Linked(nodes) \cup {new} /\ OneParent(ns2)
       /\ KeysIn(ns2) = KeysIn(ns1) \cup {sep}
       /\ KeysOnce(ns1) /\ sep \notin KeysIn(ns1) => KeysOnce(ns2)
  <2>1. PICK j : j = i + 1
    OBVIOUS
  <2>2. GrownAt(ns2, ns1, p, i, j, sep, new)
    <3>1. i \in 1 .. (Len(n.entries) + 1) /\ j \in 1 .. (Len(n.children) + 1)
      BY <1>4, <2>1
    <3>2. QED
      BY <1>16, <1>21, <1>24, <2>1, <3>1 DEF GrownAt
  <2>3. OneParent(ns1) /\ new \notin Linked(ns1)
    BY <1>6, <1>15
  <2>4. QED
    BY <1>5, <1>15, <1>23, <2>2, <2>3, GrownLinks
<1>26. nodes' = ns2
  <2>1. ns1 = [nodes EXCEPT ![c] = LeftHalf(nodes[c]), ![new] = RightHalf(nodes[c])]
    BY <1>14 DEF SplitDone
  <2>2. QED
    BY <1>3, <1>13, <1>19, <1>22, <2>1 DEF ChildSaved
<1>27. used' = new
  BY <1>3 DEF ChildSaved
<1>28. PICK d : d = Side(k, sep, c, new)
  OBVIOUS
<1>29. /\ d \in PageIds /\ d \in 1 .. new /\ k \in span1[d] /\ ~IsFull(ns1[d]) /\ ns2[d] = ns1[d]
  <2>1. k \in Nat /\ sep \in Nat /\ \A q : q \in 1 .. used => q \in 1 .. new
    <3>1. \A q : q \in 1 .. used => q \in 1 .. new
      BY <1>2, <1>3
    <3>2. k \in Keys /\ sep \in Keys
      BY <1>1, <1>3, <1>15
    <3>3. QED
      BY <3>1, <3>2, BTreeAssumption
  <2>2. CASE k < sep
    <3>1. d = c /\ k \in UpTo(span[c], sep)
      BY <1>12, <1>28, <2>1, <2>2 DEF Side, UpTo
    <3>2. QED
      BY <1>4, <1>5, <1>12, <1>15, <1>24, <2>1, <3>1 DEF OnlyAt
  <2>3. CASE ~(k < sep)
    <3>1. d = new /\ k \in From(span[c], sep)
      BY <1>12, <1>28, <2>1, <2>3 DEF Side, From
    <3>2. new \in 1 .. new
      BY <1>2, <1>5
    <3>3. QED
      BY <1>5, <1>15, <1>24, <3>1, <3>2 DEF OnlyAt
  <2>4. QED
    BY <2>2, <2>3
<1>30. op'.kind = "insert" /\ op'.key = k /\ op'.at = d /\ op' \in OpType
  <2>1. op.kind = "insert" /\ op' = [op EXCEPT !.at = d]
    BY <1>3, <1>13, <1>28 DEF ChildSaved
  <2>2. QED
    BY <1>1, <1>3, <1>29, <2>1 DEF OpType
<1>31. BtTypes'
  <2>1. root' \in 1 .. used'
    BY <1>u, <1>2, <1>5, <1>27
  <2>2. used' <= load'.frames
    BY <1>u, <1>2, <1>3, <1>27 DEF ChildSaved
  <2>3. used' \in PageIds /\ load' \in Workloads /\ nodes' \in Pages /\ present' \subseteq Keys
    BY <1>u, <1>1, <1>5, <1>23, <1>26, <1>27
  <2>4. failed' \in BOOLEAN
    BY <1>u DEF BtIInv, BtTypes
  <2>5. op'.key \in Keys /\ op'.at \in PageIds
    BY <1>1, <1>3, <1>29, <1>30
  <2>6. QED
    BY <1>30, <2>1, <2>2, <2>3, <2>4, <2>5 DEF BtTypes, OpType
<1>32. Links'
  <2>1. Fresh(ns2, new)
    <3>1. \A q \in PageIds : q > new => q # c /\ q # p /\ q # new
      BY <1>1, <1>2, <1>3, <1>4, <1>5 DEF PageIds
    <3>2. \A q \in PageIds : q > new => ns2[q] = nodes[q]
      BY <1>15, <1>24, <3>1 DEF OnlyAt, OnlyAtBoth
    <3>3. Fresh(nodes, used) /\ used <= new
      BY <1>1, <1>2, <1>5 DEF Links
    <3>4. QED
      BY <1>2, <1>5, <3>2, <3>3, FreshKept
  <2>2. Linked(nodes) \subseteq (1 .. used) \ {root} /\ (failed \/ (1 .. used) \ {root} \subseteq Linked(nodes))
    BY <1>1 DEF Links
  <2>3. \A q : q \in (1 .. new) \ {root} <=> q \in ((1 .. used) \ {root}) \cup {new}
    <3>1. \A q : q \in 1 .. new <=> q \in 1 .. used \/ q = new
      BY <1>2, <1>3
    <3>2. QED
      BY <1>5, <3>1
  <2>4. Linked(ns2) \subseteq (1 .. new) \ {root} /\ (failed \/ (1 .. new) \ {root} \subseteq Linked(ns2))
    BY <1>25, <2>2, <2>3
  <2>5. QED
    BY <1>u, <1>25, <1>26, <1>27, <2>1, <2>4 DEF Links
<1>33. (~load.duplicates => Contents)'
  <2>1. SUFFICES ASSUME ~load.duplicates
                 PROVE  Contents'
    BY <1>u
  <2>2. KeysOnce(nodes) /\ KeysIn(nodes) \subseteq present /\ (failed \/ present \subseteq KeysIn(nodes))
    BY <2>1 DEF BtIInv, Contents
  <2>3. KeysOnce(ns2) /\ KeysIn(ns2) = KeysIn(nodes)
    BY <1>15, <1>25, <2>2
  <2>4. QED
    BY <1>u, <1>26, <2>2, <2>3 DEF Contents
<1>34. Shape(height1, span1)'
  <2>1. \A q \in PageIds : height[q] \in Nat /\ height[q] <= height[root]
    BY <1>7 DEF Shape, Heights
  <2>2. height1[root] = height[root]
    BY <1>2, <1>5, <1>15 DEF OnlyAt
  <2>3. ASSUME NEW q \in PageIds
        PROVE  height1[q] <= height1[root]
    <3>1. CASE q = new
      BY <1>5, <1>15, <2>1, <2>2, <3>1
    <3>2. CASE q # new
      BY <1>15, <2>1, <2>2, <3>2 DEF OnlyAt
    <3>3. QED
      BY <3>1, <3>2
  <2>4. height1[root] < new
    <3>1. height[root] < used /\ height[root] \in Nat
      BY <1>2, <1>7, <2>1 DEF Shape
    <3>2. QED
      BY <1>2, <1>5, <2>2, <3>1
  <2>5. QED
    BY <1>u, <1>23, <1>26, <1>27, <1>29, <1>30, <2>3, <2>4 DEF Shape
<1>35. Calls'
  <2>1. ~IsFull(nodes'[d])
    BY <1>26, <1>29
  <2>2. QED
    BY <1>u, <1>1, <1>3, <1>27, <1>29, <1>30, <2>1 DEF Calls, IsFull, Inserting
<1>36. Searching' /\ Iterating'
  BY <1>u, <1>1, <1>30 DEF Searching, Iterating
<1>37. QED
  BY <1>15, <1>31, <1>32, <1>33, <1>34, <1>35, <1>36 DEF BtIInv

\* An insertion comes to a page whose child is full.
LEMMA BtInsertSplit ==
    ASSUME BtIInv, load' = load, InsertSplit
    PROVE  BtIInv'
<1>1. op.kind = "insert" /\ ~nodes[op.at].leaf /\ UNCHANGED <<root, stack, out, present>>
  BY DEF InsertSplit
<1>2. BtTypes /\ stack = <<>> /\ load \in Workloads /\ used <= load.frames
  BY <1>1 DEF BtIInv, BtTypes, Iterating
<1>3. used \in Nat /\ used \in PageIds /\ load.frames \in Nat /\ load.frames <= PoolFrames /\ PoolFrames \in Nat
  <2>1. load.frames \in 1 .. PoolFrames /\ used \in PageIds
    BY <1>2, LoadTypes DEF BtTypes
  <2>2. QED
    BY <1>2, <2>1, RootIsPage
<1>4. PICK p, n, k : p = op.at /\ n = nodes[p] /\ k = op.key
  OBVIOUS
<1>5. PICK i \in InsertPositions(n, k) :
        LET child == n.children[i]
            full == nodes[child]
            grown == Grown(n, i, Separator(full), used + 1)
        IN  /\ i <= Len(n.children) /\ IsFull(full)
            /\ \/ /\ used < load.frames
                  /\ nodes' = [nodes EXCEPT ![child] = LeftHalf(full),
                                            ![used + 1] = RightHalf(full), ![p] = grown]
                  /\ used' = used + 1
                  /\ op' = [op EXCEPT !.at = Side(k, Separator(full), child, used + 1)]
                  /\ UNCHANGED failed
               \/ /\ used = load.frames
                  /\ nodes' = [nodes EXCEPT ![child] = LeftHalf(full)]
                  /\ Fails
                  /\ UNCHANGED used
               \/ /\ load.large /\ used < load.frames
                  /\ nodes' = [nodes EXCEPT ![child] = LeftHalf(full),
                                            ![used + 1] = RightHalf(full)]
                  /\ used' = used + 1
                  /\ Fails
  BY <1>4 DEF InsertSplit
<1>6. PICK c : c = n.children[i]
  OBVIOUS
<1>7. c \in PageIds /\ c <= used /\ IsFull(nodes[c])
  <2>1. c \in 1 .. used
    BY <1>1, <1>4, <1>5, <1>6, ChildOfKey
  <2>2. QED
    BY <1>2, <1>3, <1>5, <1>6, <2>1, RootIsPage
<1>8. CASE /\ used < load.frames
           /\ nodes' = [nodes EXCEPT ![c] = LeftHalf(nodes[c]), ![used + 1] = RightHalf(nodes[c]),
                                     ![p] = Grown(n, i, Separator(nodes[c]), used + 1)]
           /\ used' = used + 1
           /\ op' = [op EXCEPT !.at = Side(k, Separator(nodes[c]), c, used + 1)]
           /\ UNCHANGED failed
  <2>1. ChildSaved(i)
    BY <1>1, <1>4, <1>5, <1>6, <1>7, <1>8 DEF ChildSaved
  <2>2. QED
    BY <2>1, BtChildSplit
<1>9. CASE used = load.frames /\ nodes' = [nodes EXCEPT ![c] = LeftHalf(nodes[c])] /\ Fails /\ UNCHANGED used
  <2>1. used' \in PageIds /\ used <= used' /\ used' <= load.frames
    BY <1>3, <1>9
  <2>2. op' = NoOp /\ failed' = TRUE /\ nodes' = [nodes EXCEPT ![c] = LeftHalf(nodes[c])]
    BY <1>9 DEF Fails
  <2>3. QED
    BY <1>1, <1>2, <1>7, <2>1, <2>2, BtLeftSaved
<1>10. CASE /\ used < load.frames
            /\ nodes' = [nodes EXCEPT ![c] = LeftHalf(nodes[c]), ![used + 1] = RightHalf(nodes[c])]
            /\ used' = used + 1 /\ Fails
  <2>1. PICK new : new = used + 1
    OBVIOUS
  <2>2. new \in PageIds /\ used < new /\ used' \in PageIds /\ used <= used' /\ used' <= load.frames /\ new <= used'
    BY <1>3, <1>10, <2>1 DEF PageIds
  <2>3. /\ nodes' = [nodes EXCEPT ![c] = LeftHalf(nodes[c]), ![new] = RightHalf(nodes[c])]
        /\ op' = NoOp /\ failed' = TRUE
    BY <1>10, <2>1 DEF Fails
  <2>4. QED
    BY <1>1, <1>2, <1>7, <2>2, <2>3, BtHalvesSaved
<1>11. QED
  BY <1>5, <1>6, <1>8, <1>9, <1>10

-----------------------------------------------------------------------------
(* The B-tree: its theorems *)

\* A step of the tree keeps the invariant.
LEMMA BtStep == BtIInv /\ [BtNext]_btVars => BtIInv'
<1>1. SUFFICES ASSUME BtIInv, [BtNext]_btVars
               PROVE  BtIInv'
  OBVIOUS
<1>2. CASE UNCHANGED btVars
  <2>1. UNCHANGED <<load, nodes, used, root, present, failed, op, stack, out>>
    BY <1>2 DEF btVars
  <2>2. Iterating'
    BY <1>1, <2>1 DEF BtIInv, Iterating
  <2>3. QED
    BY <1>1, <2>1, <2>2, BtQuiet
<1>3. CASE BtNext
  <2>1. load' = load
    BY <1>3 DEF BtNext
  <2>2. ASSUME NEW k \in load.keys, Insert(k)
        PROVE  BtIInv'
    BY <1>1, <2>1, <2>2, BtInsert
  <2>3. ASSUME NEW k \in load.keys, Search(k) \/ Delete(k)
        PROVE  BtIInv'
    BY <1>1, <2>1, <2>3, BtSearchDelete
  <2>4. CASE SplitRoot
    BY <1>1, <2>1, <2>4, BtSplitRoot
  <2>5. CASE InsertLeaf
    BY <1>1, <2>1, <2>5, BtInsertLeaf
  <2>6. CASE InsertDescend
    BY <1>1, <2>1, <2>6, BtInsertDescend
  <2>7. CASE InsertSplit
    BY <1>1, <2>1, <2>7, BtInsertSplit
  <2>8. CASE Descend
    BY <1>1, <2>1, <2>8, BtDescend
  <2>9. CASE SearchLeaf
    BY <1>1, <2>1, <2>9, BtSearchLeaf
  <2>10. CASE DeleteLeaf
    BY <1>1, <2>1, <2>10, BtDeleteLeaf
  <2>11. CASE FlushPages
    BY <1>1, <2>1, <2>11, BtFlushPages
  <2>12. CASE IterNew
    BY <1>1, <2>1, <2>12, BtIterNew
  <2>13. CASE IterDescend
    BY <1>1, <2>1, <2>13, BtIterDescend
  <2>14. CASE IterNext
    BY <1>1, <2>1, <2>14, BtIterNext
  <2>15. QED
    BY <1>3, <2>2, <2>3, <2>4, <2>5, <2>6, <2>7, <2>8, <2>9, <2>10, <2>11, <2>12, <2>13, <2>14 DEF BtNext
<1>4. QED
  BY <1>1, <1>2, <1>3

\* The pages below the root are pages, and their heights say at which level they are.
LEMMA BelowRoot ==
    ASSUME BtTypes, NEW height \in Heights, NEW span \in Spans, Forest(nodes, height, span)
    PROVE  /\ \A k \in 0 .. used : \A p \in Level[k][root] : p \in PageIds /\ height[p] + k = height[root]
           /\ \A p \in Below(root) : p \in PageIds
<1>1. nodes \in Pages /\ used \in PageIds /\ root \in PageIds /\ used <= PoolFrames /\ PoolFrames \in Nat /\ used \in Nat
  BY RootIsPage DEF BtTypes
<1>2. \A k \in 0 .. PoolFrames : \A p \in Level[k][root] :
        p \in PageIds /\ height[p] + k = height[root] /\ span[p] \subseteq span[root]
  BY <1>1, BelowInForest
<1>3. \A k \in 0 .. used : k \in 0 .. PoolFrames
  BY <1>1
<1>4. QED
  BY <1>1, <1>2, <1>3, BelowLevels

\* The invariant implies that every descent finds its way.
LEMMA SoundOfInv == BtIInv => TreeSound
<1>1. SUFFICES ASSUME BtIInv
               PROVE  TreeSound
  OBVIOUS
<1>2. BtTypes /\ nodes \in Pages /\ used \in PageIds /\ root \in PageIds /\ present \subseteq Keys
  BY <1>1, RootIsPage DEF BtIInv, BtTypes
<1>3. PICK height \in Heights, span \in Spans : Shape(height, span)
  BY <1>1 DEF BtIInv
<1>4. Forest(nodes, height, span)
  BY <1>3 DEF Shape
<1>5. BtTypeOK
  <2>1. \A p \in PageIds : nodes[p] \in Nodes
    BY <1>2 DEF Pages
  <2>2. op.at \in PageIds \cup {NoPage}
    BY <1>2 DEF BtTypes
  <2>3. QED
    BY <1>2, <2>1, <2>2 DEF BtTypeOK, Nodes
<1>6. \A p \in Below(root) : p \in PageIds
  BY <1>2, <1>4, BelowRoot
<1>7. ChildrenMatch
  BY <1>2, <1>4, <1>6, InnerPage DEF ChildrenMatch
<1>8. Balanced
  <2>1. ASSUME NEW k \in 0 .. used, NEW p \in Level[k][root], NEW q \in Level[k][root]
        PROVE  nodes[p].leaf = nodes[q].leaf
    <3>1. p \in PageIds /\ q \in PageIds /\ height[p] + k = height[root] /\ height[q] + k = height[root]
      BY <1>2, <1>4, <2>1, BelowRoot
    <3>2. height[p] \in Nat /\ height[q] \in Nat /\ k \in Nat
      BY <3>1 DEF Heights
    <3>3. height[p] = height[q]
      BY <3>1, <3>2
    <3>4. nodes[p].leaf <=> height[p] = 0
      BY <1>4, <3>1 DEF Forest, PageOK, NodeOK
    <3>5. nodes[q].leaf <=> height[q] = 0
      BY <1>4, <3>1 DEF Forest, PageOK, NodeOK
    <3>6. nodes[p].leaf \in BOOLEAN /\ nodes[q].leaf \in BOOLEAN
      BY <1>2, <3>1 DEF Pages, Nodes
    <3>7. QED
      BY <3>3, <3>4, <3>5, <3>6
  <2>2. \A p \in Below(root) : Len(nodes[p].entries) <= MaxKeys
    BY <1>4, <1>6 DEF Forest, PageOK, NodeOK
  <2>3. QED
    BY <2>1, <2>2 DEF Balanced
<1>9. Ordered
  <2>1. ASSUME NEW p \in Below(root), NEW i \in DOMAIN nodes[p].children,
               NEW k \in KeysBelow(nodes[p].children[i])
        PROVE  /\ i > 1 => nodes[p].entries[i - 1] <= k
               /\ i <= Len(nodes[p].entries) => k <= nodes[p].entries[i]
    <3>1. p \in PageIds
      BY <1>6
    <3>2. i \in 1 .. Len(nodes[p].children)
      BY <1>2, <3>1, <2>1 DEF Pages, Nodes
    <3>3. PICK c : c = nodes[p].children[i]
      OBVIOUS
    <3>4. c \in PageIds
      BY <1>2, <1>4, <3>1, <3>2, <3>3, ForestTypes
    <3>5. k \in span[c]
      BY <1>2, <1>4, <2>1, <3>3, <3>4, KeysBelowInSpan
    <3>6. Fits(nodes[p], i, span[c])
      BY <1>4, <3>1, <3>2, <3>3 DEF Forest, PageOK
    <3>7. QED
      BY <3>5, <3>6 DEF Fits
  <2>2. QED
    BY <2>1 DEF Ordered
<1>10. QED
  BY <1>5, <1>7, <1>8, <1>9 DEF TreeSound

\* Nothing is below a leaf but itself.
LEMMA LeafAlone ==
    ASSUME BtIInv, NEW p \in PageIds, nodes[p].leaf, NEW q \in Below(p)
    PROVE  q = p
<1>1. BtTypes /\ nodes \in Pages /\ used \in PageIds /\ used \in Nat /\ used <= PoolFrames /\ PoolFrames \in Nat
  BY RootIsPage DEF BtIInv, BtTypes
<1>2. PICK height \in Heights, span \in Spans : Shape(height, span)
  BY DEF BtIInv
<1>3. Len(nodes[p].children) = 0
  <2>1. nodes[p].children = <<>>
    BY <1>2 DEF Shape, Forest, PageOK, NodeOK
  <2>2. QED
    BY <2>1
<1>4. PICK k \in 0 .. used : q \in Level[k][p]
  BY <1>1, BelowLevels
<1>5. CASE k = 0
  BY <1>4, <1>5, LevelFacts
<1>6. CASE k # 0
  <2>1. k \in 1 .. PoolFrames
    BY <1>1, <1>6
  <2>2. \E i \in 1 .. Len(nodes[p].children) : q \in Level[k - 1][nodes[p].children[i]]
    BY <1>1, <1>4, <2>1, BelowChild
  <2>3. QED
    BY <1>3, <2>2
<1>7. QED
  BY <1>5, <1>6

\* The tree has the keys that were inserted.
LEMMA TreeHasKeys ==
    ASSUME BtIInv, ~failed, ~load.duplicates
    PROVE  KeysBelow(root) = present
<1>1. BtTypes /\ Links /\ nodes \in Pages /\ used \in Nat
  BY RootIsPage DEF BtIInv, BtTypes
<1>2. PICK height \in Heights, span \in Spans : Shape(height, span)
  BY DEF BtIInv
<1>3. KeysIn(nodes) = present
  BY DEF BtIInv, Contents
<1>4. ASSUME NEW k \in KeysBelow(root)
      PROVE  k \in KeysIn(nodes)
  <2>1. PICK q \in Below(root) : k \in Range(nodes[q].entries)
    BY DEF KeysBelow
  <2>2. q \in PageIds
    BY <1>1, <1>2, BelowRoot DEF Shape
  <2>3. PICK e : e = nodes[q].entries
    OBVIOUS
  <2>4. e \in Seq(Keys)
    BY <1>1, <2>2, <2>3 DEF Pages, Nodes
  <2>5. \E i \in 1 .. Len(e) : e[i] = k
    BY <2>1, <2>3, <2>4 DEF Range
  <2>6. QED
    BY <1>1, <2>2, <2>3, <2>5, ForestMembers
<1>5. ASSUME NEW k \in KeysIn(nodes)
      PROVE  k \in KeysBelow(root)
  <2>1. PICK q \in PageIds : \E i \in 1 .. Len(nodes[q].entries) : nodes[q].entries[i] = k
    BY <1>1, ForestMembers
  <2>2. q \in 1 .. used
    <3>1. nodes[q] # Blank
      BY <2>1 DEF Blank, Node
    <3>2. ~(q > used)
      BY <1>1, <3>1 DEF Links, Fresh
    <3>3. QED
      BY <1>1, <3>2, BTreeAssumption DEF PageIds
  <2>3. q \in Below(root)
    BY <1>1, <1>2, <2>2, AllBelowRoot
  <2>4. k \in Range(nodes[q].entries)
    BY <1>1, <2>1 DEF Pages, Nodes, Range
  <2>5. QED
    BY <2>3, <2>4 DEF KeysBelow
<1>6. QED
  BY <1>3, <1>4, <1>5

\* The invariant implies that no key is lost and that every key is found.
LEMMA FoundOfInv == BtIInv => KeysFound
<1>1. SUFFICES ASSUME BtIInv
               PROVE  KeysFound
  OBVIOUS
<1>2. BtTypes /\ nodes \in Pages /\ used \in PageIds /\ root \in PageIds
  BY <1>1, RootIsPage DEF BtIInv, BtTypes
<1>3. KeysKept
  BY <1>1, TreeHasKeys DEF KeysKept
<1>4. SearchExact
  <2>1. SUFFICES ASSUME op.kind = "search", nodes[op.at].leaf, ~load.duplicates,
                        NEW p \in Below(root), nodes[p].leaf, op.key \in Range(nodes[p].entries)
                 PROVE  op.key \in Range(nodes[op.at].entries)
    BY DEF SearchExact
  <2>2. p \in Below(op.at)
    BY <1>1, <2>1 DEF BtIInv, Searching
  <2>3. op.at \in PageIds
    BY <1>2, <2>1 DEF BtTypes
  <2>4. p = op.at
    BY <1>1, <2>1, <2>2, <2>3, LeafAlone
  <2>5. QED
    BY <2>1, <2>4
<1>5. IterationOfLeaf
  <2>1. SUFFICES ASSUME Exhausted, nodes[root].leaf, ~failed, ~load.duplicates
                 PROVE  Lists(out, present)
    BY DEF IterationOfLeaf
  <2>2. PICK e : e = nodes[root].entries
    OBVIOUS
  <2>3. e \in Seq(Keys) /\ Len(e) \in Nat /\ DOMAIN e = 1 .. Len(e)
    BY <1>2, <2>2 DEF Pages, Nodes
  <2>4. out = e
    <3>1. stack # <<>>
      <4>1. Len(stack) = 1
        BY <2>1 DEF Exhausted
      <4>2. Len(<<>>) = 0
        OBVIOUS
      <4>3. QED
        BY <4>1, <4>2
    <3>2. PICK i \in 0 .. Len(e) : stack = <<[node |-> nodes[root], idx |-> i]>> /\ out = SubSeq(e, 1, i)
      BY <1>1, <2>1, <2>2, <3>1 DEF BtIInv, Iterating
    <3>3. Last(stack) = [node |-> nodes[root], idx |-> i]
      BY <3>2 DEF Last
    <3>4. i >= Len(e)
      BY <2>1, <2>2, <3>3 DEF Exhausted
    <3>5. i = Len(e)
      <4>1. i \in 0 .. Len(e)
        BY <3>2
      <4>2. PICK m : m = Len(e)
        OBVIOUS
      <4>3. m \in Nat /\ i \in 0 .. m /\ i >= m
        BY <2>3, <3>4, <4>1, <4>2
      <4>4. i = m
        BY <4>3
      <4>5. QED
        BY <4>2, <4>4
    <3>6. SubSeq(e, 1, Len(e)) = e
      BY <2>3
    <3>7. QED
      BY <3>2, <3>5, <3>6
  <2>5. Range(e) = present
    <3>1. root \in Below(root)
      <4>1. root \in Level[0][root] /\ 0 \in 0 .. used
        BY <1>2, LevelFacts, RootIsPage
      <4>2. QED
        BY <1>2, <4>1, BelowLevels
    <3>2. \A q \in Below(root) : q = root
      BY <1>1, <1>2, <2>1, LeafAlone
    <3>3. KeysBelow(root) = Range(e)
      BY <2>2, <3>1, <3>2 DEF KeysBelow
    <3>4. QED
      BY <1>1, <2>1, <3>3, TreeHasKeys
  <2>6. ASSUME NEW i \in 1 .. Len(e), NEW j \in 1 .. Len(e), i < j
        PROVE  e[i] < e[j]
    <3>1. e[i] \in Keys /\ e[j] \in Keys /\ i # j
      BY <2>3, <2>6
    <3>2. e[i] <= e[j]
      <4>1. PICK height \in Heights, span \in Spans : Shape(height, span)
        BY <1>1 DEF BtIInv
      <4>2. Sorted(e)
        BY <1>2, <2>2, <4>1 DEF Shape, Forest, PageOK, NodeOK
      <4>3. QED
        BY <2>6, <4>2 DEF Sorted
    <3>3. e[i] # e[j]
      <4>1. KeysOnce(nodes)
        BY <1>1, <2>1 DEF BtIInv, Contents
      <4>2. EntriesOf(nodes)[root] = e
        BY <1>2, <2>2 DEF EntriesOf
      <4>3. QED
        BY <1>2, <3>1, <4>1, <4>2 DEF KeysOnce, Once
    <3>4. PICK a, b : a = e[i] /\ b = e[j]
      OBVIOUS
    <3>5. a \in Nat /\ b \in Nat /\ a <= b /\ a # b
      BY <3>1, <3>2, <3>3, <3>4, BTreeAssumption
    <3>6. a < b
      BY <3>5
    <3>7. QED
      BY <3>4, <3>6
  <2>7. QED
    BY <2>3, <2>4, <2>5, <2>6 DEF Lists
<1>6. QED
  BY <1>3, <1>4, <1>5 DEF KeysFound

\* The pages form a forest of balanced trees whose heights and keys fit, no page has
\* two parents, and no key is in two places: of every step of the B-tree.
THEOREM BtInvariant == BtSpec => []BtIInv
<1>1. BtInit => BtIInv
  BY BtInitInv
<1>2. BtIInv /\ [BtNext]_btVars => BtIInv'
  BY BtStep
<1>3. QED
  BY <1>1, <1>2, PTL DEF BtSpec

\* However nodes split, and whatever was inserted twice, deleted or left behind by
\* a split that failed, a node has a child for every gap, leaves are at one depth,
\* no node overflows, and separators are between the keys beside them.
THEOREM TreeIsSound == BtSpec => []TreeSound
<1>1. BtIInv => TreeSound
  BY SoundOfInv
<1>2. QED
  BY <1>1, BtInvariant, PTL

\* No split and no deletion loses a key, a search comes to the leaf that would have
\* its key, and an iteration over a leaf lists its keys.
THEOREM KeysAreFound == BtSpec => []KeysFound
<1>1. BtIInv => KeysFound
  BY FoundOfInv
<1>2. QED
  BY <1>1, BtInvariant, PTL
=============================================================================
