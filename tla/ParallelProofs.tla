---------------------------- MODULE ParallelProofs ----------------------------
(***************************************************************************)
(* Proofs about the parallel executor, for any number of workers, threads, *)
(* limits, demands and any workload: every submitted task is in exactly    *)
(* one place (TaskInOnePlace), and none runs before the tasks it depends   *)
(* on (DependenciesFirst); how far the trackers of memory, threads and     *)
(* I/O can exceed a limit (OvercommitBounded), and that they never forget  *)
(* a grant (UsageCoversGrants); and, for any table and number of workers,  *)
(* that a scan over ranges returns every row once (ScanExact).             *)
(***************************************************************************)
EXTENDS TaskScheduler, ResourceManager, ParallelScan, TLAPS, FiniteSetTheorems, SequenceTheorems,
        WellFoundedInduction

-----------------------------------------------------------------------------
(* TaskScheduler: queues *)

Distinct(q) == \A i, j \in 1 .. Len(q) : q[i] = q[j] => i = j

\* Every nonempty set of naturals has a least element.
LEMMA LeastExists ==
    ASSUME NEW T \in SUBSET Nat, T # {}
    PROVE  \E n \in T : \A m \in T : n <= m
<1> DEFINE R == OpToRel(<, Nat)
<1>1. \E n \in T : \A m \in T : ~(<<m, n>> \in R)
  BY NatLessThanWellFounded, WFMin
<1>2. \A m, n \in Nat : m < n => <<m, n>> \in R
  BY DEF OpToRel
<1>3. PICK L : /\ \E n \in T : \A m \in T : ~(<<m, n>> \in L)
               /\ \A m, n \in Nat : m < n => <<m, n>> \in L
  BY <1>1, <1>2
<1>4. PICK n \in T : \A m \in T : ~(<<m, n>> \in L)
  BY <1>3
<1>5. n \in Nat /\ \A m \in T : m \in Nat
  OBVIOUS
<1>6. \A m \in T : ~(m < n)
  BY <1>3, <1>4, <1>5
<1>7. QED
  BY <1>4, <1>5, <1>6

\* The range of a queue, by its positions.
LEMMA RangeByPosition ==
    ASSUME NEW S, NEW q \in Seq(S)
    PROVE  /\ \A t : t \in Range(q) <=> \E i \in 1 .. Len(q) : q[i] = t
           /\ Range(q) \subseteq S
           /\ Len(q) \in Nat /\ DOMAIN q = 1 .. Len(q)
           /\ \A i \in 1 .. Len(q) : q[i] \in S
<1>1. Len(q) \in Nat /\ DOMAIN q = 1 .. Len(q) /\ \A i \in 1 .. Len(q) : q[i] \in S
  BY LenProperties, ElementOfSeq
<1>2. QED
  BY <1>1 DEF Range

\* r is q with t put in at position k.
PutInAt(q, r, k, t) ==
    /\ Len(r) = Len(q) + 1 /\ r[k] = t
    /\ \A j \in 1 .. Len(r) : j < k => r[j] = q[j]
    /\ \A j \in 1 .. Len(r) : j > k => r[j] = q[j - 1]

\* A queue with one element more, at position k.
LEMMA OneMore ==
    ASSUME NEW S, NEW q \in Seq(S), NEW r \in Seq(S), NEW t, NEW k \in 1 .. Len(r),
           PutInAt(q, r, k, t)
    PROVE  /\ Range(r) = Range(q) \cup {t}
           /\ Distinct(q) /\ t \notin Range(q) => Distinct(r)
<1> USE DEF PutInAt
<1>0. Len(q) \in Nat /\ Len(r) \in Nat /\ k \in Nat
  BY RangeByPosition
<1>1. ASSUME NEW i \in 1 .. Len(q)
      PROVE  q[i] \in Range(r)
  <2>1. CASE i < k
    <3>1. i \in 1 .. Len(r) /\ r[i] = q[i]
      BY <1>0, <2>1
    <3>2. QED
      BY <3>1, RangeByPosition
  <2>2. CASE i >= k
    <3>1. i + 1 \in 1 .. Len(r) /\ i + 1 > k /\ (i + 1) - 1 = i
      BY <1>0, <2>2
    <3>2. r[i + 1] = q[i]
      BY <3>1
    <3>3. QED
      BY <3>1, <3>2, RangeByPosition
  <2>3. QED
    BY <1>0, <2>1, <2>2
<1>2. ASSUME NEW j \in 1 .. Len(r), j # k
      PROVE  LET i == IF j < k THEN j ELSE j - 1 IN i \in 1 .. Len(q) /\ r[j] = q[i]
  BY <1>0, <1>2
<1>3. Range(r) = Range(q) \cup {t}
  <2>1. ASSUME NEW u \in Range(r) PROVE u \in Range(q) \cup {t}
    <3>1. PICK j \in 1 .. Len(r) : u = r[j]
      BY RangeByPosition
    <3>2. CASE j = k
      BY <3>1, <3>2
    <3>3. CASE j # k
      <4>1. PICK i \in 1 .. Len(q) : r[j] = q[i]
        BY <1>2, <3>3
      <4>2. QED
        BY <3>1, <4>1, RangeByPosition
    <3>4. QED
      BY <3>2, <3>3
  <2>2. ASSUME NEW u \in Range(q) \cup {t} PROVE u \in Range(r)
    BY <1>1, RangeByPosition
  <2>3. QED
    BY <2>1, <2>2
<1>4. ASSUME Distinct(q), t \notin Range(q)
      PROVE  Distinct(r)
  <2>1. ASSUME NEW i \in 1 .. Len(r), NEW j \in 1 .. Len(r), r[i] = r[j], i # k, j # k
        PROVE  i = j
    <3>1. PICK a : a = (IF i < k THEN i ELSE i - 1) /\ a \in 1 .. Len(q) /\ r[i] = q[a]
      BY <1>2, <2>1
    <3>2. PICK b : b = (IF j < k THEN j ELSE j - 1) /\ b \in 1 .. Len(q) /\ r[j] = q[b]
      BY <1>2, <2>1
    <3>3. a = b
      BY <1>4, <2>1, <3>1, <3>2 DEF Distinct
    <3>4. QED
      BY <1>0, <2>1, <3>1, <3>2, <3>3
  <2>2. ASSUME NEW i \in 1 .. Len(r), i # k
        PROVE  r[i] # t
    BY <1>2, <1>4, <2>2, RangeByPosition
  <2>3. QED
    BY <2>1, <2>2 DEF Distinct
<1>5. QED
  BY <1>3, <1>4

\* A queue with one element less, the one at position k.
LEMMA OneLess ==
    ASSUME NEW S, NEW q \in Seq(S), NEW r \in Seq(S), NEW k \in 1 .. Len(q),
           Len(r) = Len(q) - 1, Distinct(q),
           \A j \in 1 .. Len(r) : j < k => r[j] = q[j],
           \A j \in 1 .. Len(r) : j >= k => r[j] = q[j + 1]
    PROVE  Range(r) = Range(q) \ {q[k]} /\ Distinct(r)
<1>0. Len(q) \in Nat /\ Len(r) \in Nat /\ k \in Nat
  BY RangeByPosition
<1>1. ASSUME NEW i \in 1 .. Len(q), i # k
      PROVE  q[i] \in Range(r)
  <2>1. CASE i < k
    <3>1. i \in 1 .. Len(r) /\ r[i] = q[i]
      BY <1>0, <2>1
    <3>2. QED
      BY <3>1, RangeByPosition
  <2>2. CASE i > k
    <3>1. i - 1 \in 1 .. Len(r) /\ i - 1 >= k /\ (i - 1) + 1 = i
      BY <1>0, <2>2
    <3>2. r[i - 1] = q[i]
      BY <3>1
    <3>3. QED
      BY <3>1, <3>2, RangeByPosition
  <2>3. QED
    BY <1>0, <1>1, <2>1, <2>2
<1>2. ASSUME NEW j \in 1 .. Len(r)
      PROVE  LET i == IF j < k THEN j ELSE j + 1 IN i \in 1 .. Len(q) /\ i # k /\ r[j] = q[i]
  BY <1>0
<1>3. Range(r) = Range(q) \ {q[k]}
  <2>1. ASSUME NEW u \in Range(r) PROVE u \in Range(q) \ {q[k]}
    BY <1>2, RangeByPosition DEF Distinct
  <2>2. ASSUME NEW u \in Range(q) \ {q[k]} PROVE u \in Range(r)
    BY <1>1, RangeByPosition
  <2>3. QED
    BY <2>1, <2>2
<1>4. Distinct(r)
  BY <1>0, <1>2 DEF Distinct
<1>5. QED
  BY <1>3, <1>4

\* push_front.
LEMMA PushFront ==
    ASSUME NEW S, NEW q \in Seq(S), NEW t \in S
    PROVE  /\ <<t>> \o q \in Seq(S)
           /\ Range(<<t>> \o q) = Range(q) \cup {t}
           /\ Distinct(q) /\ t \notin Range(q) => Distinct(<<t>> \o q)
<1>1. <<t>> \in Seq(S) /\ Len(<<t>>) = 1 /\ <<t>>[1] = t
  OBVIOUS
<1>2. PICK r : r = <<t>> \o q
  OBVIOUS
<1>3. /\ r \in Seq(S) /\ Len(r) = 1 + Len(q)
      /\ \A i \in 1 .. 1 + Len(q) : r[i] = IF i <= 1 THEN <<t>>[i] ELSE q[i - 1]
  BY <1>1, <1>2, ConcatProperties
<1>4. Len(q) \in Nat
  BY LenProperties
<1>5. /\ 1 \in 1 .. Len(r) /\ r[1] = t /\ Len(r) = Len(q) + 1
      /\ \A j \in 1 .. Len(r) : j < 1 => r[j] = q[j]
      /\ \A j \in 1 .. Len(r) : j > 1 => r[j] = q[j - 1]
  BY <1>1, <1>3, <1>4
<1>6. Range(r) = Range(q) \cup {t} /\ (Distinct(q) /\ t \notin Range(q) => Distinct(r))
  <2>1. r \in Seq(S) /\ 1 \in 1 .. Len(r) /\ PutInAt(q, r, 1, t)
    BY <1>3, <1>5 DEF PutInAt
  <2>2. QED
    BY <2>1, OneMore
<1>7. QED
  BY <1>2, <1>3, <1>6

\* push_back.
LEMMA PushBack ==
    ASSUME NEW S, NEW q \in Seq(S), NEW t \in S
    PROVE  /\ Append(q, t) \in Seq(S)
           /\ Range(Append(q, t)) = Range(q) \cup {t}
           /\ Distinct(q) /\ t \notin Range(q) => Distinct(Append(q, t))
<1>1. PICK r : r = Append(q, t)
  OBVIOUS
<1>2. /\ r \in Seq(S) /\ Len(r) = Len(q) + 1 /\ Len(q) \in Nat
      /\ \A i \in 1 .. Len(q) : r[i] = q[i]
      /\ r[Len(q) + 1] = t
  BY <1>1, AppendProperties, LenProperties
<1>3. /\ Len(q) + 1 \in 1 .. Len(r)
      /\ \A j \in 1 .. Len(r) : j < Len(q) + 1 => r[j] = q[j]
      /\ \A j \in 1 .. Len(r) : j > Len(q) + 1 => r[j] = q[j - 1]
  BY <1>2
<1>4. Range(r) = Range(q) \cup {t} /\ (Distinct(q) /\ t \notin Range(q) => Distinct(r))
  <2>1. r \in Seq(S) /\ Len(q) + 1 \in 1 .. Len(r) /\ PutInAt(q, r, Len(q) + 1, t)
    BY <1>2, <1>3 DEF PutInAt
  <2>2. QED
    BY <2>1, OneMore
<1>5. QED
  BY <1>1, <1>2, <1>4

\* VecDeque::insert.
LEMMA Inserted ==
    ASSUME NEW S, NEW q \in Seq(S), NEW t \in S, NEW k \in 1 .. Len(q)
    PROVE  /\ InsertAt(q, k, t) \in Seq(S)
           /\ Range(InsertAt(q, k, t)) = Range(q) \cup {t}
           /\ Distinct(q) /\ t \notin Range(q) => Distinct(InsertAt(q, k, t))
<1> DEFINE a == SubSeq(q, 1, k - 1)
           b == SubSeq(q, k, Len(q))
<1>0. Len(q) \in Nat /\ k \in Nat /\ \A i \in 1 .. Len(q) : q[i] \in S
  BY RangeByPosition
<1>1. /\ a \in Seq(S) /\ Len(a) = k - 1
      /\ \A i \in 1 .. k - 1 : a[i] = q[i]
  <2>1. \A i \in 1 .. k - 1 : q[i] \in S
    BY <1>0
  <2>2. /\ SubSeq(q, 1, k - 1) \in Seq(S)
        /\ Len(SubSeq(q, 1, k - 1)) = IF 1 <= k - 1 THEN (k - 1) - 1 + 1 ELSE 0
        /\ \A i \in 1 .. (k - 1) - 1 + 1 : SubSeq(q, 1, k - 1)[i] = q[1 + i - 1]
    BY <1>0, <2>1, SubSeqProperties
  <2>3. QED
    BY <1>0, <2>2
<1>2. /\ b \in Seq(S) /\ Len(b) = Len(q) - k + 1
      /\ \A i \in 1 .. Len(q) - k + 1 : b[i] = q[k + i - 1]
  <2>1. \A i \in k .. Len(q) : q[i] \in S
    BY <1>0
  <2>2. QED
    BY <1>0, <2>1, SubSeqProperties
<1> HIDE DEF a, b
<1>3. <<t>> \in Seq(S) /\ Len(<<t>>) = 1 /\ <<t>>[1] = t
  OBVIOUS
<1>4. PICK h : h = a \o <<t>>
  OBVIOUS
<1>5. /\ h \in Seq(S) /\ Len(h) = k
      /\ \A i \in 1 .. k : h[i] = IF i <= k - 1 THEN a[i] ELSE <<t>>[i - (k - 1)]
  BY <1>0, <1>1, <1>3, <1>4, ConcatProperties
<1>6. PICK r : r = h \o b
  OBVIOUS
<1>7. /\ r \in Seq(S) /\ Len(r) = Len(q) + 1
      /\ \A i \in 1 .. Len(q) + 1 : r[i] = IF i <= k THEN h[i] ELSE b[i - k]
  BY <1>0, <1>2, <1>5, <1>6, ConcatProperties
<1>8. /\ k \in 1 .. Len(r) /\ r[k] = t
      /\ \A j \in 1 .. Len(r) : j < k => r[j] = q[j]
      /\ \A j \in 1 .. Len(r) : j > k => r[j] = q[j - 1]
  <2>1. k \in 1 .. Len(r)
    BY <1>0, <1>7
  <2>2. r[k] = t
    BY <1>0, <1>3, <1>5, <1>7
  <2>3. ASSUME NEW j \in 1 .. Len(r), j < k
        PROVE  r[j] = q[j]
    <3>1. j \in 1 .. k - 1 /\ j \in 1 .. k /\ j <= k
      BY <1>0, <1>7, <2>3
    <3>2. r[j] = h[j]
      BY <1>7, <3>1
    <3>3. h[j] = a[j]
      BY <1>0, <1>5, <3>1
    <3>4. QED
      BY <1>1, <3>1, <3>2, <3>3
  <2>4. ASSUME NEW j \in 1 .. Len(r), j > k
        PROVE  r[j] = q[j - 1]
    <3>1. j - k \in 1 .. Len(q) - k + 1 /\ k + (j - k) - 1 = j - 1 /\ ~(j <= k)
      <4>1. j \in Nat /\ k \in Nat /\ Len(q) \in Nat /\ j <= Len(q) + 1
        BY <1>0, <1>7
      <4>2. QED
        BY <2>4, <4>1
    <3>2. r[j] = b[j - k]
      BY <1>7, <3>1
    <3>3. QED
      BY <1>2, <3>1, <3>2
  <2>5. QED
    BY <2>1, <2>2, <2>3, <2>4
<1>9. r = InsertAt(q, k, t)
  BY <1>4, <1>6 DEF InsertAt, a, b
<1>10. Range(r) = Range(q) \cup {t} /\ (Distinct(q) /\ t \notin Range(q) => Distinct(r))
  <2>1. r \in Seq(S) /\ k \in 1 .. Len(r) /\ PutInAt(q, r, k, t)
    BY <1>7, <1>8 DEF PutInAt
  <2>2. QED
    BY <2>1, OneMore
<1>11. QED
  BY <1>7, <1>9, <1>10

\* VecDeque::remove.
LEMMA Removed ==
    ASSUME NEW S, NEW q \in Seq(S), NEW k \in 1 .. Len(q)
    PROVE  /\ RemoveAt(q, k) \in Seq(S)
           /\ Distinct(q) => Range(RemoveAt(q, k)) = Range(q) \ {q[k]} /\ Distinct(RemoveAt(q, k))
<1> DEFINE a == SubSeq(q, 1, k - 1)
           b == SubSeq(q, k + 1, Len(q))
<1>0. Len(q) \in Nat /\ k \in Nat /\ \A i \in 1 .. Len(q) : q[i] \in S
  BY RangeByPosition
<1>1. /\ a \in Seq(S) /\ Len(a) = k - 1
      /\ \A i \in 1 .. k - 1 : a[i] = q[i]
  <2>1. \A i \in 1 .. k - 1 : q[i] \in S
    BY <1>0
  <2>2. /\ SubSeq(q, 1, k - 1) \in Seq(S)
        /\ Len(SubSeq(q, 1, k - 1)) = IF 1 <= k - 1 THEN (k - 1) - 1 + 1 ELSE 0
        /\ \A i \in 1 .. (k - 1) - 1 + 1 : SubSeq(q, 1, k - 1)[i] = q[1 + i - 1]
    BY <1>0, <2>1, SubSeqProperties
  <2>3. QED
    BY <1>0, <2>2
<1>2. /\ b \in Seq(S) /\ Len(b) = Len(q) - k
      /\ \A i \in 1 .. Len(q) - k : b[i] = q[k + i]
  <2>1. \A i \in k + 1 .. Len(q) : q[i] \in S
    BY <1>0
  <2>2. /\ SubSeq(q, k + 1, Len(q)) \in Seq(S)
        /\ Len(SubSeq(q, k + 1, Len(q))) = IF k + 1 <= Len(q) THEN Len(q) - (k + 1) + 1 ELSE 0
        /\ \A i \in 1 .. Len(q) - (k + 1) + 1 : SubSeq(q, k + 1, Len(q))[i] = q[(k + 1) + i - 1]
    BY <1>0, <2>1, SubSeqProperties
  <2>3. \A i \in 1 .. Len(q) - k : (k + 1) + i - 1 = k + i /\ i \in 1 .. Len(q) - (k + 1) + 1
    BY <1>0
  <2>4. QED
    BY <1>0, <2>2, <2>3
<1> HIDE DEF a, b
<1>3. PICK r : r = a \o b
  OBVIOUS
<1>4. /\ r \in Seq(S) /\ Len(r) = Len(q) - 1
      /\ \A i \in 1 .. Len(q) - 1 : r[i] = IF i <= k - 1 THEN a[i] ELSE b[i - (k - 1)]
  <2>1. /\ r \in Seq(S) /\ Len(r) = Len(a) + Len(b)
        /\ \A i \in 1 .. Len(a) + Len(b) : r[i] = IF i <= Len(a) THEN a[i] ELSE b[i - Len(a)]
    BY <1>1, <1>2, <1>3, ConcatProperties
  <2>2. Len(a) + Len(b) = Len(q) - 1
    BY <1>0, <1>1, <1>2
  <2>3. QED
    BY <1>1, <2>1, <2>2
<1>5. \A j \in 1 .. Len(r) : j < k => r[j] = q[j]
  BY <1>0, <1>1, <1>4
<1>6. ASSUME NEW j \in 1 .. Len(r), j >= k
      PROVE  r[j] = q[j + 1]
  <2>1. j - (k - 1) \in 1 .. Len(q) - k /\ k + (j - (k - 1)) = j + 1 /\ r[j] = b[j - (k - 1)]
    BY <1>0, <1>4, <1>6
  <2>2. QED
    BY <1>2, <2>1
<1>7. r = RemoveAt(q, k)
  BY <1>3 DEF RemoveAt, a, b
<1>8. QED
  BY <1>4, <1>5, <1>6, <1>7, OneLess

\* position and remove: the first task with the id.
LEMMA FirstRemoved ==
    ASSUME NEW S \in SUBSET Nat, NEW q \in Seq(S), NEW t \in Range(q)
    PROVE  /\ RemoveFirst(q, t) \in Seq(S)
           /\ Distinct(q) => Range(RemoveFirst(q, t)) = Range(q) \ {t} /\ Distinct(RemoveFirst(q, t))
<1> DEFINE I == {i \in 1 .. Len(q) : q[i] = t}
<1>1. I # {} /\ I \subseteq Nat /\ \E i \in 1 .. Len(q) : q[i] = t
  BY RangeByPosition
<1>2. \E n \in I : \A m \in I : n <= m
  BY <1>1, LeastExists
<1>3. PICK k : k = Min(I)
  OBVIOUS
<1>4. k \in I
  BY <1>2, <1>3 DEF Min
<1>5. RemoveFirst(q, t) = RemoveAt(q, k)
  BY <1>1, <1>3 DEF RemoveFirst, SelectInSeq
<1>6. QED
  BY <1>4, <1>5, Removed

\* pop_front.
LEMMA PopFront ==
    ASSUME NEW S, NEW q \in Seq(S), q # <<>>
    PROVE  /\ Head(q) \in Range(q) /\ Tail(q) \in Seq(S)
           /\ Distinct(q) => Range(Tail(q)) = Range(q) \ {Head(q)} /\ Distinct(Tail(q))
<1>1. /\ Tail(q) \in Seq(S) /\ Len(Tail(q)) = Len(q) - 1 /\ Len(q) \in Nat
      /\ \A i \in 1 .. Len(Tail(q)) : Tail(q)[i] = q[i + 1]
  BY HeadTailProperties, LenProperties
<1>2. Len(q) # 0
  BY EmptySeq
<1>3. 1 \in 1 .. Len(q) /\ Head(q) = q[1]
  BY <1>1, <1>2
<1>4. Head(q) \in Range(q)
  BY <1>3, RangeByPosition
<1>5. /\ \A j \in 1 .. Len(Tail(q)) : j < 1 => Tail(q)[j] = q[j]
      /\ \A j \in 1 .. Len(Tail(q)) : j >= 1 => Tail(q)[j] = q[j + 1]
  BY <1>1
<1>6. PICK r : r = Tail(q)
  OBVIOUS
<1>7. Distinct(q) => Range(r) = Range(q) \ {q[1]} /\ Distinct(r)
  <2>1. /\ r \in Seq(S) /\ Len(r) = Len(q) - 1
        /\ \A j \in 1 .. Len(r) : j < 1 => r[j] = q[j]
        /\ \A j \in 1 .. Len(r) : j >= 1 => r[j] = q[j + 1]
    BY <1>1, <1>5, <1>6
  <2>2. QED
    BY <1>3, <2>1, OneLess
<1>8. QED
  BY <1>1, <1>3, <1>4, <1>6, <1>7

\* pop_back.
LEMMA PopBack ==
    ASSUME NEW S, NEW q \in Seq(S), q # <<>>
    PROVE  /\ Last(q) \in Range(q) /\ Front(q) \in Seq(S)
           /\ Distinct(q) => Range(Front(q)) = Range(q) \ {Last(q)} /\ Distinct(Front(q))
<1>1. Len(q) # 0 /\ Len(q) \in Nat /\ \A i \in 1 .. Len(q) : q[i] \in S
  BY EmptySeq, RangeByPosition
<1>2. Len(q) \in 1 .. Len(q) /\ Last(q) = q[Len(q)]
  BY <1>1 DEF Last
<1>3. Last(q) \in Range(q)
  BY <1>2, RangeByPosition
<1>4. PICK r : r = Front(q)
  OBVIOUS
<1>5. /\ r \in Seq(S) /\ Len(r) = Len(q) - 1
      /\ \A i \in 1 .. Len(q) - 1 : r[i] = q[i]
  <2>1. \A i \in 1 .. Len(q) - 1 : q[i] \in S
    BY <1>1
  <2>2. /\ SubSeq(q, 1, Len(q) - 1) \in Seq(S)
        /\ Len(SubSeq(q, 1, Len(q) - 1)) = IF 1 <= Len(q) - 1 THEN (Len(q) - 1) - 1 + 1 ELSE 0
        /\ \A i \in 1 .. (Len(q) - 1) - 1 + 1 : SubSeq(q, 1, Len(q) - 1)[i] = q[1 + i - 1]
    BY <1>1, <2>1, SubSeqProperties
  <2>3. QED
    <3>1. r = SubSeq(q, 1, Len(q) - 1)
      BY <1>4 DEF Front
    <3>2. Len(r) = Len(q) - 1
      <4>1. Len(r) = IF 1 <= Len(q) - 1 THEN (Len(q) - 1) - 1 + 1 ELSE 0
        BY <2>2, <3>1
      <4>2. \A n \in Nat \ {0} : (IF 1 <= n - 1 THEN (n - 1) - 1 + 1 ELSE 0) = n - 1
        OBVIOUS
      <4>3. Len(q) \in Nat \ {0}
        BY <1>1
      <4>4. QED
        BY <4>1, <4>2, <4>3
    <3>3. ASSUME NEW i \in 1 .. Len(q) - 1
          PROVE  r[i] = q[i]
      <4>1. i \in 1 .. (Len(q) - 1) - 1 + 1 /\ 1 + i - 1 = i
        BY <1>1
      <4>2. QED
        BY <2>2, <3>1, <4>1
    <3>4. QED
      BY <2>2, <3>1, <3>2, <3>3
<1>6. /\ \A j \in 1 .. Len(r) : j < Len(q) => r[j] = q[j]
      /\ \A j \in 1 .. Len(r) : j >= Len(q) => r[j] = q[j + 1]
  BY <1>1, <1>5
<1>7. QED
  <2>1. PICK k : k = Len(q)
    OBVIOUS
  <2>2. /\ k \in 1 .. Len(q) /\ Last(q) = q[k]
        /\ \A j \in 1 .. Len(r) : j < k => r[j] = q[j]
        /\ \A j \in 1 .. Len(r) : j >= k => r[j] = q[j + 1]
    BY <1>2, <1>6, <2>1
  <2>3. Distinct(q) => Range(r) = Range(q) \ {q[k]} /\ Distinct(r)
    BY <1>5, <2>2, OneLess
  <2>4. QED
    BY <1>3, <1>4, <1>5, <2>2, <2>3

\* rebalance_tasks turns half of the queue round and loses nothing.
LEMMA RebalancedOK ==
    ASSUME NEW S, NEW q \in Seq(S)
    PROVE  /\ Rebalanced(q) \in Seq(S)
           /\ Range(Rebalanced(q)) = Range(q)
           /\ Distinct(q) => Distinct(Rebalanced(q))
<1>0. Len(q) \in Nat /\ \A i \in 1 .. Len(q) : q[i] \in S
  BY RangeByPosition
<1>1. PICK h : h = Len(q) \div 2
  OBVIOUS
<1>2. h \in Nat /\ h <= Len(q)
  BY <1>0, <1>1
<1> DEFINE a == SubSeq(q, 1, h)
           b == SubSeq(q, h + 1, Len(q))
           c == Reverse(b)
<1>3. a \in Seq(S) /\ Len(a) = h /\ \A i \in 1 .. h : a[i] = q[i]
  <2>1. \A i \in 1 .. h : q[i] \in S
    BY <1>0, <1>2
  <2>2. /\ SubSeq(q, 1, h) \in Seq(S)
        /\ Len(SubSeq(q, 1, h)) = IF 1 <= h THEN h - 1 + 1 ELSE 0
        /\ \A i \in 1 .. h - 1 + 1 : SubSeq(q, 1, h)[i] = q[1 + i - 1]
    BY <1>2, <2>1, SubSeqProperties
  <2>3. QED
    BY <1>2, <2>2
<1>4. b \in Seq(S) /\ Len(b) = Len(q) - h /\ \A i \in 1 .. Len(q) - h : b[i] = q[h + i]
  <2>1. \A i \in h + 1 .. Len(q) : q[i] \in S
    BY <1>0, <1>2
  <2>2. /\ SubSeq(q, h + 1, Len(q)) \in Seq(S)
        /\ Len(SubSeq(q, h + 1, Len(q))) = IF h + 1 <= Len(q) THEN Len(q) - (h + 1) + 1 ELSE 0
        /\ \A i \in 1 .. Len(q) - (h + 1) + 1 : SubSeq(q, h + 1, Len(q))[i] = q[(h + 1) + i - 1]
    BY <1>0, <1>2, <2>1, SubSeqProperties
  <2>3. \A i \in 1 .. Len(q) - h : (h + 1) + i - 1 = h + i /\ i \in 1 .. Len(q) - (h + 1) + 1
    BY <1>0, <1>2
  <2>4. QED
    BY <1>0, <1>2, <2>2, <2>3
<1> HIDE DEF a, b
<1>5. c \in Seq(S) /\ Len(c) = Len(q) - h /\ \A i \in 1 .. Len(q) - h : c[i] = b[(Len(q) - h) - i + 1]
  <2>1. c = [i \in 1 .. Len(b) |-> b[(Len(b) - i) + 1]]
    BY DEF Reverse
  <2>2. \A i \in 1 .. Len(b) : b[(Len(b) - i) + 1] \in S
    BY <1>0, <1>2, <1>4, ElementOfSeq
  <2>3. Len(b) \in Nat
    BY <1>0, <1>2, <1>4
  <2>4. c \in Seq(S)
    BY <2>1, <2>2, <2>3, IsASeq
  <2> HIDE DEF c
  <2>5. Len(c) = Len(b)
    BY <2>1, <2>3, <2>4, LenProperties
  <2>6. QED
    BY <1>4, <2>1, <2>4, <2>5
<1>6. Rebalanced(q) = a \o c
  BY <1>1 DEF Rebalanced, a, b
<1> HIDE DEF c
<1>7. PICK r : r = a \o c
  OBVIOUS
<1>8. /\ r \in Seq(S) /\ Len(r) = Len(q)
      /\ \A i \in 1 .. Len(q) : r[i] = IF i <= h THEN a[i] ELSE c[i - h]
  BY <1>0, <1>2, <1>3, <1>5, <1>7, ConcatProperties
<1> DEFINE p(i) == IF i <= h THEN i ELSE (Len(q) - i) + h + 1
<1>9. ASSUME NEW i \in 1 .. Len(q)
      PROVE  p(i) \in 1 .. Len(q) /\ p(p(i)) = i /\ r[i] = q[p(i)]
  <2>1. p(i) \in 1 .. Len(q) /\ p(p(i)) = i
    BY <1>0, <1>2
  <2>2. CASE i <= h
    BY <1>0, <1>2, <1>3, <1>8, <2>2
  <2>3. CASE i > h
    <3>1. r[i] = c[i - h] /\ i - h \in 1 .. Len(q) - h
      BY <1>0, <1>2, <1>8, <2>3
    <3>2. c[i - h] = b[(Len(q) - h) - (i - h) + 1]
      BY <1>5, <3>1
    <3>3. (Len(q) - h) - (i - h) + 1 = (Len(q) - i) + 1 /\ (Len(q) - i) + 1 \in 1 .. Len(q) - h
      BY <1>0, <1>2, <2>3
    <3>4. b[(Len(q) - i) + 1] = q[h + ((Len(q) - i) + 1)]
      BY <1>4, <3>3
    <3>5. h + ((Len(q) - i) + 1) = p(i)
      BY <1>0, <1>2, <2>3
    <3>6. QED
      BY <2>1, <3>1, <3>2, <3>3, <3>4, <3>5
  <2>4. QED
    BY <1>0, <1>2, <2>1, <2>2, <2>3
<1> HIDE DEF p
<1>10. Range(r) = Range(q)
  <2>1. ASSUME NEW u \in Range(r) PROVE u \in Range(q)
    BY <1>8, <1>9, RangeByPosition
  <2>2. ASSUME NEW u \in Range(q) PROVE u \in Range(r)
    <3>1. PICK i \in 1 .. Len(q) : q[i] = u
      BY RangeByPosition
    <3>2. p(i) \in 1 .. Len(q) /\ r[p(i)] = q[p(p(i))] /\ p(p(i)) = i
      BY <1>9
    <3>3. QED
      BY <1>8, <3>1, <3>2, RangeByPosition
  <2>3. QED
    BY <2>1, <2>2
<1>11. Distinct(q) => Distinct(r)
  BY <1>8, <1>9 DEF Distinct
<1>12. QED
  BY <1>6, <1>7, <1>8, <1>10, <1>11

-----------------------------------------------------------------------------
(* The inductive invariant *)

Busy == {"check", "putBack", "execute"}
WorkerPlaces == Busy \cup {"top", "global", "steal", "balance", "dependents", "follow", "stopped"}

\* The tasks that have been put into a queue.
Placed == 1 .. (IF client = "enqueue" THEN submitted - 1 ELSE submitted)

TypesOK ==
    /\ plan \in Workloads
    /\ global \in Seq(Ids)
    /\ local \in [Workers -> Seq(Ids)]
    /\ at \in [Workers -> WorkerPlaces]
    /\ held \in [Workers -> Ids \cup {NoTask}]
    /\ \A w \in Workers : at[w] \in Busy \cup {"balance", "dependents"} => held[w] \in Ids
    /\ submitted \in 0 .. Len(plan.tasks)
    /\ client = "enqueue" => submitted >= 1
    /\ completed \subseteq Ids /\ cancelled \subseteq Ids
    /\ client = "cancel" => cancelled = {}

\* No queue holds a task twice.
QueuesDistinct == Distinct(global) /\ \A w \in Workers : Distinct(local[w])

\* The places a task can be in: a queue, a worker's hands, or finished.
Home(t, place, w) ==
    \/ place = "global" /\ w = NoAffinity /\ t \in Range(global)
    \/ place = "local" /\ w \in Workers /\ t \in Range(local[w])
    \/ place = "hands" /\ w \in Workers /\ w \in InHands(t)
    \/ place = "done" /\ w = NoAffinity /\ t \in completed \cup cancelled

\* Nothing is in two places, what was placed is in one, and nothing else is.
OneHome == \A t, k, w, l, v : Home(t, k, w) /\ Home(t, l, v) => k = l /\ w = v
Somewhere == \A t \in Placed : \E k, w : Home(t, k, w)
OnlyPlaced == \A t, k, w : Home(t, k, w) => t \in Placed

Housed == OneHome /\ Somewhere /\ OnlyPlaced

\* What a worker runs has its dependencies completed.
ReadyRuns == \A w \in Workers : at[w] = "execute" => Satisfied(held[w])

SchedIInv ==
    /\ TypesOK
    /\ QueuesDistinct
    /\ Housed
    /\ ReadyRuns
    /\ DependenciesFirst

-----------------------------------------------------------------------------
(* Moving a task *)

\* The ids of a workload are positive numbers.
LEMMA IdsAreNat ==
    ASSUME plan \in Workloads
    PROVE  Len(plan.tasks) \in Nat /\ Ids = 1 .. Len(plan.tasks) /\ Ids \subseteq Nat /\ NoTask \notin Ids
<1>1. plan.tasks \in Seq(Task)
  BY SchedulerAssumption DEF Workload
<1>2. Len(plan.tasks) \in Nat
  BY <1>1, LenProperties
<1>3. QED
  BY <1>2 DEF Ids, NoTask

\* A step after which t is at home in one place and the others where they were.
MovesTo(t, k, w) ==
    /\ \A u, l, v : u # t => (Home(u, l, v)' <=> Home(u, l, v))
    /\ \A l, v : Home(t, l, v)' <=> (l = k /\ v = w)
    /\ Placed' = Placed \cup {t}

\* One task changes its place, or gets its first.
LEMMA TaskMoves ==
    ASSUME Housed, NEW t, NEW k, NEW w, MovesTo(t, k, w)
    PROVE  Housed'
<1> USE DEF MovesTo
<1>1. OneHome'
  <2> SUFFICES ASSUME NEW u, NEW k1, NEW w1, NEW l1, NEW v1, Home(u, k1, w1)', Home(u, l1, v1)'
               PROVE  k1 = l1 /\ w1 = v1
    BY DEF OneHome
  <2>1. CASE u = t
    BY <2>1
  <2>2. CASE u # t
    BY <2>2 DEF Housed, OneHome
  <2>3. QED
    BY <2>1, <2>2
<1>2. Somewhere'
  <2> SUFFICES ASSUME NEW u \in Placed' PROVE \E l, v : Home(u, l, v)'
    BY DEF Somewhere
  <2>1. CASE u = t
    BY <2>1
  <2>2. CASE u # t
    BY <2>2 DEF Housed, Somewhere
  <2>3. QED
    BY <2>1, <2>2
<1>3. OnlyPlaced'
  <2> SUFFICES ASSUME NEW u, NEW l, NEW v, Home(u, l, v)' PROVE u \in Placed'
    BY DEF OnlyPlaced
  <2>1. QED
    BY DEF Housed, OnlyPlaced
<1>4. QED
  BY <1>1, <1>2, <1>3 DEF Housed

\* No task changes its place.
LEMMA TasksStay ==
    ASSUME Housed, \A u, l, v : Home(u, l, v)' <=> Home(u, l, v), Placed' = Placed
    PROVE  Housed'
<1>1. OneHome'
  BY DEF Housed, OneHome
<1>2. Somewhere'
  BY DEF Housed, Somewhere
<1>3. OnlyPlaced'
  BY DEF Housed, OnlyPlaced
<1>4. QED
  BY <1>1, <1>2, <1>3 DEF Housed

\* A worker with empty hands takes a task.
LEMMA TakesOK ==
    ASSUME TypesOK, NEW w \in Workers, NEW t \in Ids, at[w] \notin Busy, Takes(w, t)
    PROVE  /\ at' \in [Workers -> WorkerPlaces] /\ held' \in [Workers -> Ids \cup {NoTask}]
           /\ \A v \in Workers : at'[v] \in Busy \cup {"balance", "dependents"} => held'[v] \in Ids
           /\ \A v \in Workers : at'[v] = "execute" => v # w /\ at[v] = "execute" /\ held'[v] = held[v]
           /\ \A u, v : v \in InHands(u)' <=> (v \in InHands(u) \/ (v = w /\ u = t))
<1>1. at' = [at EXCEPT ![w] = "check"] /\ held' = [held EXCEPT ![w] = t]
  BY DEF Takes
<1>2. at \in [Workers -> WorkerPlaces] /\ held \in [Workers -> Ids \cup {NoTask}]
  BY DEF TypesOK
<1>3. /\ at' \in [Workers -> WorkerPlaces] /\ at'[w] = "check"
      /\ \A v \in Workers : v # w => at'[v] = at[v]
  BY <1>1, <1>2 DEF WorkerPlaces, Busy
<1>4. /\ held' \in [Workers -> Ids \cup {NoTask}] /\ held'[w] = t
      /\ \A v \in Workers : v # w => held'[v] = held[v]
  BY <1>1, <1>2
<1>5. \A v \in Workers : at'[v] \in Busy \cup {"balance", "dependents"} => held'[v] \in Ids
  BY <1>3, <1>4 DEF TypesOK
<1>6. \A v \in Workers : at'[v] = "execute" => v # w /\ at[v] = "execute" /\ held'[v] = held[v]
  BY <1>3, <1>4
<1>7. \A u, v : v \in InHands(u)' <=> (v \in InHands(u) \/ (v = w /\ u = t))
  BY <1>3, <1>4 DEF InHands, Busy
<1>8. QED
  BY <1>3, <1>4, <1>5, <1>6, <1>7

\* Steps that leave queues, hands and results alone.
LEMMA PlacesStay ==
    ASSUME SchedIInv, UNCHANGED <<plan, global, local, completed, at, held, cancelled>>,
           submitted' \in 0 .. Len(plan.tasks), client' = "enqueue" => submitted' >= 1, Placed' = Placed,
           client' = "cancel" => cancelled = {}
    PROVE  SchedIInv'
<1>1. Ids' = Ids
  BY DEF Ids
<1>2. TypesOK' /\ QueuesDistinct' /\ ReadyRuns' /\ DependenciesFirst'
  BY <1>1 DEF SchedIInv, TypesOK, QueuesDistinct, ReadyRuns, Satisfied, DependenciesFirst
<1>3. \A u, l, v : Home(u, l, v)' <=> Home(u, l, v)
  BY DEF Home, InHands
<1>4. Housed'
  BY <1>3, TasksStay DEF SchedIInv
<1>5. QED
  BY <1>2, <1>4 DEF SchedIInv

-----------------------------------------------------------------------------
(* The client's steps *)

\* insert_task_sorted.
LEMMA InsertSortedOK ==
    ASSUME NEW S, NEW q \in Seq(S), NEW t \in S
    PROVE  /\ InsertSorted(q, t) \in Seq(S)
           /\ Range(InsertSorted(q, t)) = Range(q) \cup {t}
           /\ Distinct(q) /\ t \notin Range(q) => Distinct(InsertSorted(q, t))
<1> DEFINE later == {i \in DOMAIN q : Before(t, q[i])}
           k == CHOOSE i \in later : \A j \in later : i <= j
<1>1. CASE later = {}
  <2>1. InsertSorted(q, t) = Append(q, t)
    BY <1>1 DEF InsertSorted
  <2>2. QED
    BY <2>1, PushBack
<1>2. CASE later # {}
  <2>1. Len(q) \in Nat /\ DOMAIN q = 1 .. Len(q)
    BY RangeByPosition
  <2>2. later \in SUBSET Nat
    BY <2>1
  <2>3. \E i \in later : \A j \in later : i <= j
    BY <1>2, <2>2, LeastExists
  <2>4. k \in later
    BY <2>3
  <2>5. k \in 1 .. Len(q)
    BY <2>1, <2>4
  <2>6. InsertSorted(q, t) = InsertAt(q, k, t)
    BY <1>2 DEF InsertSorted
  <2> HIDE DEF k, later
  <2>7. QED
    BY <2>5, <2>6, Inserted
<1>3. QED
  BY <1>1, <1>2

\* A local queue is replaced.
LEMMA LocalReplaced ==
    ASSUME TypesOK, NEW w \in Workers, NEW q \in Seq(Ids), local' = [local EXCEPT ![w] = q]
    PROVE  /\ local' \in [Workers -> Seq(Ids)]
           /\ local'[w] = q
           /\ \A v \in Workers : v # w => local'[v] = local[v]
  BY DEF TypesOK

\* schedule_task, second half.
LEMMA EnqueueStep ==
    ASSUME SchedIInv, Enqueue
    PROVE  SchedIInv'
<1>0. TypesOK /\ QueuesDistinct /\ Housed
  BY DEF SchedIInv
<1>1. PICK t : t = submitted
  OBVIOUS
<1>2. /\ client = "enqueue" /\ client' = "submit"
      /\ UNCHANGED <<plan, completed, at, held, submitted, cancelled>>
  BY DEF Enqueue, workerVars
<1>3. Ids' = Ids
  BY <1>2 DEF Ids
<1>4. t \in Ids /\ t \in Nat /\ Ids \subseteq Nat
  <2>1. Len(plan.tasks) \in Nat /\ Ids = 1 .. Len(plan.tasks)
    BY <1>0, IdsAreNat DEF TypesOK
  <2>2. QED
    BY <1>0, <1>1, <1>2, <2>1 DEF TypesOK
<1>5. t \notin Placed /\ Placed' = Placed \cup {t}
  <2>1. Placed = 1 .. t - 1 /\ Placed' = 1 .. t
    BY <1>1, <1>2 DEF Placed
  <2>2. t >= 1
    BY <1>0, <1>1, <1>2 DEF TypesOK
  <2>3. QED
    BY <1>4, <2>1, <2>2
<1>6. \A l, v : ~Home(t, l, v)
  BY <1>0, <1>5 DEF Housed, OnlyPlaced
<1>7. ReadyRuns' /\ DependenciesFirst'
  BY <1>2 DEF SchedIInv, ReadyRuns, Satisfied, DependenciesFirst
<1>8. \A u : InHands(u)' = InHands(u)
  BY <1>2 DEF InHands
<1>9. CASE plan.tasks[submitted].affinity \in Workers
  <2>1. PICK w \in Workers : local' = [local EXCEPT ![w] = InsertSorted(local[w], t)] /\ global' = global
    BY <1>1, <1>9 DEF Enqueue
  <2>2. local[w] \in Seq(Ids) /\ Distinct(local[w]) /\ t \notin Range(local[w])
    BY <1>0, <1>6 DEF TypesOK, QueuesDistinct, Home
  <2>3. PICK q : q = InsertSorted(local[w], t)
    OBVIOUS
  <2>4. q \in Seq(Ids) /\ Range(q) = Range(local[w]) \cup {t} /\ Distinct(q)
    BY <1>4, <2>2, <2>3, InsertSortedOK
  <2>5. /\ local' \in [Workers -> Seq(Ids)] /\ local'[w] = q
        /\ \A v \in Workers : v # w => local'[v] = local[v]
    BY <1>0, <2>1, <2>3, <2>4, LocalReplaced
  <2>6. \A u, l, v : u # t => (Home(u, l, v)' <=> Home(u, l, v))
    BY <1>2, <1>8, <2>1, <2>4, <2>5 DEF Home
  <2>7. \A l, v : Home(t, l, v)' <=> (l = "local" /\ v = w)
    BY <1>2, <1>6, <1>8, <2>1, <2>4, <2>5 DEF Home
  <2>8. Housed'
    <3>1. MovesTo(t, "local", w)
      BY <1>5, <2>6, <2>7 DEF MovesTo
    <3>2. QED
      BY <1>0, <3>1, TaskMoves
  <2>9. QueuesDistinct'
    BY <1>0, <2>1, <2>4, <2>5 DEF QueuesDistinct
  <2>10. TypesOK'
    BY <1>0, <1>2, <1>3, <2>1, <2>5 DEF TypesOK
  <2>11. QED
    BY <1>7, <2>8, <2>9, <2>10 DEF SchedIInv
<1>10. CASE plan.tasks[submitted].affinity \notin Workers
  <2>1. global' = InsertSorted(global, t) /\ local' = local
    BY <1>1, <1>10 DEF Enqueue
  <2>2. global \in Seq(Ids) /\ Distinct(global) /\ t \notin Range(global)
    BY <1>0, <1>6 DEF TypesOK, QueuesDistinct, Home
  <2>3. global' \in Seq(Ids) /\ Range(global') = Range(global) \cup {t} /\ Distinct(global')
    BY <1>4, <2>1, <2>2, InsertSortedOK
  <2>4. \A u, l, v : u # t => (Home(u, l, v)' <=> Home(u, l, v))
    BY <1>2, <1>8, <2>1, <2>3 DEF Home
  <2>5. \A l, v : Home(t, l, v)' <=> (l = "global" /\ v = NoAffinity)
    BY <1>2, <1>6, <1>8, <2>1, <2>3 DEF Home
  <2>6. Housed'
    <3>1. MovesTo(t, "global", NoAffinity)
      BY <1>5, <2>4, <2>5 DEF MovesTo
    <3>2. QED
      BY <1>0, <3>1, TaskMoves
  <2>7. QueuesDistinct'
    BY <1>0, <2>1, <2>3 DEF QueuesDistinct
  <2>8. TypesOK'
    BY <1>0, <1>2, <1>3, <2>1, <2>3 DEF TypesOK
  <2>9. QED
    BY <1>7, <2>6, <2>7, <2>8 DEF SchedIInv
<1>11. QED
  BY <1>9, <1>10

\* schedule_task, first half: the task has no place yet.
LEMMA RegisterStep ==
    ASSUME SchedIInv, Register
    PROVE  SchedIInv'
<1>1. /\ client = "submit" /\ client' = "enqueue" /\ submitted < Len(plan.tasks) /\ submitted' = submitted + 1
      /\ UNCHANGED <<plan, global, local, completed, at, held, cancelled>>
  BY DEF Register, workerVars
<1>2. Len(plan.tasks) \in Nat /\ submitted \in 0 .. Len(plan.tasks)
  BY IdsAreNat DEF SchedIInv, TypesOK
<1>3. submitted' \in 0 .. Len(plan.tasks) /\ submitted' >= 1
  BY <1>1, <1>2
<1>4. Placed' = Placed
  BY <1>1, <1>2 DEF Placed
<1>5. QED
  BY <1>1, <1>3, <1>4, PlacesStay

\* The steps of the client that touch no task.
LEMMA ClientMoves ==
    ASSUME SchedIInv, CancelMisses \/ StartWait \/ Look \/ LookForOne \/ Wake \/ Shutdown \/ Joined
    PROVE  SchedIInv'
<1>1. /\ client # "enqueue" /\ client' # "enqueue"
      /\ client' # "cancel"
      /\ UNCHANGED <<plan, global, local, completed, at, held, submitted, cancelled>>
  BY DEF CancelMisses, StartWait, Look, LookForOne, Wake, Shutdown, Joined, workerVars
<1>2. submitted \in 0 .. Len(plan.tasks)
  BY DEF SchedIInv, TypesOK
<1>3. Placed' = Placed
  BY <1>1 DEF Placed
<1>4. QED
  BY <1>1, <1>2, <1>3, PlacesStay

\* cancel_task, the global queue.
LEMMA CancelStep ==
    ASSUME SchedIInv, NEW t \in Ids, Cancel(t)
    PROVE  SchedIInv'
<1>0. TypesOK /\ QueuesDistinct /\ Housed
  BY DEF SchedIInv
<1>1. /\ client = "submit" /\ client' \in {"wait", "cancel"} /\ cancelled = {}
      /\ UNCHANGED <<plan, local, completed, at, held, submitted>>
  BY DEF Cancel, workerVars
<1>2. Placed' = Placed /\ Ids' = Ids
  BY <1>1 DEF Placed, Ids
<1>3. CASE t \in Range(global)
  <2>1. global' = RemoveFirst(global, t) /\ cancelled' = {t} /\ client' = "wait"
    BY <1>3 DEF Cancel
  <2>2. global \in Seq(Ids) /\ Distinct(global) /\ Ids \in SUBSET Nat
    BY <1>0, IdsAreNat DEF TypesOK, QueuesDistinct
  <2>3. global' \in Seq(Ids) /\ Range(global') = Range(global) \ {t} /\ Distinct(global')
    BY <1>3, <2>1, <2>2, FirstRemoved
  <2>4. Home(t, "global", NoAffinity)
    BY <1>3 DEF Home
  <2>5. \A l, v : Home(t, l, v) => l = "global"
    BY <1>0, <2>4 DEF Housed, OneHome
  <2>6. \A u : InHands(u)' = InHands(u)
    BY <1>1 DEF InHands
  <2>7. \A u, l, v : u # t => (Home(u, l, v)' <=> Home(u, l, v))
    BY <1>1, <2>1, <2>3, <2>6 DEF Home
  <2>8. \A l, v : Home(t, l, v)' <=> (l = "done" /\ v = NoAffinity)
    <3>1. t \notin completed /\ \A v \in Workers : t \notin Range(local[v]) /\ v \notin InHands(t)
      BY <2>5 DEF Home
    <3>2. QED
      BY <1>1, <2>1, <2>3, <2>6, <3>1 DEF Home
  <2>9. Placed' = Placed \cup {t}
    BY <1>0, <1>2, <2>4 DEF Housed, OnlyPlaced
  <2>10. Housed'
    <3>1. MovesTo(t, "done", NoAffinity)
      BY <2>7, <2>8, <2>9 DEF MovesTo
    <3>2. QED
      BY <1>0, <3>1, TaskMoves
  <2>11. QueuesDistinct' /\ ReadyRuns' /\ DependenciesFirst'
    BY <1>1, <2>3 DEF SchedIInv, QueuesDistinct, ReadyRuns, Satisfied, DependenciesFirst
  <2>12. TypesOK'
    BY <1>0, <1>1, <1>2, <2>1, <2>3 DEF TypesOK
  <2>13. QED
    BY <2>10, <2>11, <2>12 DEF SchedIInv
<1>4. CASE t \notin Range(global)
  <2>1. UNCHANGED <<global, cancelled>>
    BY <1>4 DEF Cancel
  <2>2. QED
    BY <1>0, <1>1, <1>2, <2>1, PlacesStay DEF TypesOK
<1>5. QED
  BY <1>3, <1>4

\* cancel_task, the local queues.
LEMMA CancelLocalStep ==
    ASSUME SchedIInv, NEW t \in Ids, CancelLocal(t)
    PROVE  SchedIInv'
<1>0. TypesOK /\ QueuesDistinct /\ Housed
  BY DEF SchedIInv
<1>1. /\ client = "cancel" /\ client' = "wait" /\ cancelled' = {t}
      /\ UNCHANGED <<plan, global, completed, at, held, submitted>>
  BY DEF CancelLocal, workerVars
<1>2. Placed' = Placed /\ Ids' = Ids
  BY <1>1 DEF Placed, Ids
<1>3. PICK w \in Workers : t \in Range(local[w]) /\ local' = [local EXCEPT ![w] = RemoveFirst(local[w], t)]
  BY DEF CancelLocal
<1>4. local[w] \in Seq(Ids) /\ Distinct(local[w]) /\ Ids \in SUBSET Nat
  BY <1>0, IdsAreNat DEF TypesOK, QueuesDistinct
<1>5. PICK q : q = RemoveFirst(local[w], t)
  OBVIOUS
<1>6. q \in Seq(Ids) /\ Range(q) = Range(local[w]) \ {t} /\ Distinct(q)
  BY <1>3, <1>4, <1>5, FirstRemoved
<1>7. /\ local' \in [Workers -> Seq(Ids)] /\ local'[w] = q
      /\ \A v \in Workers : v # w => local'[v] = local[v]
  BY <1>0, <1>3, <1>5, <1>6, LocalReplaced
<1>8. Home(t, "local", w)
  BY <1>3 DEF Home
<1>9. \A l, v : Home(t, l, v) => l = "local" /\ v = w
  BY <1>0, <1>8 DEF Housed, OneHome
<1>10. \A u : InHands(u)' = InHands(u)
  BY <1>1 DEF InHands
<1>11. \A u, l, v : u # t => (Home(u, l, v)' <=> Home(u, l, v))
  <2>1. cancelled = {}
    BY <1>0, <1>1 DEF TypesOK
  <2>2. QED
    BY <1>1, <1>6, <1>7, <1>10, <2>1 DEF Home
<1>12. \A l, v : Home(t, l, v)' <=> (l = "done" /\ v = NoAffinity)
  <2>1. /\ t \notin Range(global)
        /\ \A v \in Workers : (t \in Range(local[v]) => v = w) /\ v \notin InHands(t)
    BY <1>9 DEF Home
  <2>2. QED
    BY <1>1, <1>6, <1>7, <1>10, <2>1 DEF Home
<1>13. Placed' = Placed \cup {t}
  BY <1>0, <1>2, <1>8 DEF Housed, OnlyPlaced
<1>14. Housed'
  <2>1. MovesTo(t, "done", NoAffinity)
    BY <1>11, <1>12, <1>13 DEF MovesTo
  <2>2. QED
    BY <1>0, <2>1, TaskMoves
<1>15. QueuesDistinct' /\ ReadyRuns' /\ DependenciesFirst'
  BY <1>1, <1>6, <1>7 DEF SchedIInv, QueuesDistinct, ReadyRuns, Satisfied, DependenciesFirst
<1>16. TypesOK'
  BY <1>0, <1>1, <1>2, <1>7 DEF TypesOK
<1>17. QED
  BY <1>14, <1>15, <1>16 DEF SchedIInv


-----------------------------------------------------------------------------
(* The workers' steps *)

\* A worker with empty hands goes on with empty hands.
LEMMA WorkerMoves ==
    ASSUME SchedIInv, NEW w \in Workers, NEW x \in WorkerPlaces \ (Busy \cup {"balance", "dependents"}), at[w] \notin Busy,
           at' = [at EXCEPT ![w] = x],
           UNCHANGED <<plan, global, local, completed, held, clientVars>>
    PROVE  SchedIInv'
<1>0. TypesOK /\ QueuesDistinct /\ Housed
  BY DEF SchedIInv
<1>1. UNCHANGED <<client, submitted, cancelled>>
  BY DEF clientVars
<1>2. Ids' = Ids /\ Placed' = Placed
  BY <1>1 DEF Ids, Placed
<1>3. /\ at' \in [Workers -> WorkerPlaces] /\ at'[w] = x
      /\ \A v \in Workers : v # w => at'[v] = at[v]
  BY <1>0 DEF TypesOK
<1>4. \A v \in Workers : at'[v] \in Busy \cup {"balance", "dependents"} => v # w /\ at'[v] = at[v]
  BY <1>3
<1>5. TypesOK'
  BY <1>0, <1>1, <1>2, <1>3, <1>4 DEF TypesOK
<1>6. \A u, v : v \in InHands(u)' <=> v \in InHands(u)
  BY <1>3 DEF InHands, Busy
<1>7. \A u, l, v : Home(u, l, v)' <=> Home(u, l, v)
  BY <1>1, <1>6 DEF Home
<1>8. Housed'
  BY <1>0, <1>2, <1>7, TasksStay
<1>9. ReadyRuns'
  BY <1>4 DEF SchedIInv, ReadyRuns, Satisfied, Busy
<1>10. QueuesDistinct' /\ DependenciesFirst'
  BY DEF SchedIInv, QueuesDistinct, DependenciesFirst
<1>11. QED
  BY <1>5, <1>8, <1>9, <1>10 DEF SchedIInv

\* A worker takes a task out of the global queue.
LEMMA TakeGlobal ==
    ASSUME SchedIInv, NEW w \in Workers, NEW t \in Range(global), at[w] \notin Busy, Takes(w, t),
           global' \in Seq(Ids), Range(global') = Range(global) \ {t}, Distinct(global'),
           UNCHANGED <<plan, local, completed, clientVars>>
    PROVE  SchedIInv'
<1>0. TypesOK /\ QueuesDistinct /\ Housed
  BY DEF SchedIInv
<1>1. UNCHANGED <<client, submitted, cancelled>>
  BY DEF clientVars
<1>2. Ids' = Ids /\ Placed' = Placed
  BY <1>1 DEF Ids, Placed
<1>3. t \in Ids
  BY <1>0, RangeByPosition DEF TypesOK
<1>4. /\ at' \in [Workers -> WorkerPlaces] /\ held' \in [Workers -> Ids \cup {NoTask}]
      /\ \A v \in Workers : at'[v] \in Busy \cup {"balance", "dependents"} => held'[v] \in Ids
      /\ \A v \in Workers : at'[v] = "execute" => v # w /\ at[v] = "execute" /\ held'[v] = held[v]
      /\ \A u, v : v \in InHands(u)' <=> (v \in InHands(u) \/ (v = w /\ u = t))
  BY <1>0, <1>3, TakesOK
<1>5. Home(t, "global", NoAffinity)
  BY DEF Home
<1>6. \A l, v : Home(t, l, v) => l = "global"
  BY <1>0, <1>5 DEF Housed, OneHome
<1>7. \A u, l, v : u # t => (Home(u, l, v)' <=> Home(u, l, v))
  BY <1>1, <1>4 DEF Home
<1>8. \A l, v : Home(t, l, v)' <=> (l = "hands" /\ v = w)
  <2>1. t \notin completed \cup cancelled /\ \A v \in Workers : t \notin Range(local[v]) /\ v \notin InHands(t)
    BY <1>6 DEF Home
  <2>2. QED
    BY <1>1, <1>4, <2>1 DEF Home
<1>9. Placed' = Placed \cup {t}
  BY <1>0, <1>2, <1>5 DEF Housed, OnlyPlaced
<1>10. Housed'
  <2>1. MovesTo(t, "hands", w)
    BY <1>7, <1>8, <1>9 DEF MovesTo
  <2>2. QED
    BY <1>0, <2>1, TaskMoves
<1>11. TypesOK'
  BY <1>0, <1>1, <1>2, <1>4 DEF TypesOK
<1>12. QueuesDistinct' /\ ReadyRuns' /\ DependenciesFirst'
  BY <1>4 DEF SchedIInv, QueuesDistinct, ReadyRuns, Satisfied, DependenciesFirst
<1>13. QED
  BY <1>10, <1>11, <1>12 DEF SchedIInv

\* The flag, then the worker's own queue.
LEMMA LoopTopStep ==
    ASSUME SchedIInv, NEW w \in Workers, LoopTop(w)
    PROVE  SchedIInv'
<1>0. TypesOK /\ QueuesDistinct /\ Housed
  BY DEF SchedIInv
<1>1. at[w] = "top" /\ at[w] \notin Busy /\ UNCHANGED <<plan, global, completed, clientVars>>
  BY DEF LoopTop, Busy
<1>2. ASSUME NEW x \in {"stopped", "global"}, at' = [at EXCEPT ![w] = x], UNCHANGED <<held, local>>
      PROVE  SchedIInv'
  <2>1. x \in WorkerPlaces \ (Busy \cup {"balance", "dependents"})
    BY DEF WorkerPlaces, Busy
  <2>2. QED
    BY <1>1, <1>2, <2>1, WorkerMoves
<1>3. ASSUME local[w] # <<>>, Takes(w, Head(local[w])), local' = [local EXCEPT ![w] = Tail(local[w])]
      PROVE  SchedIInv'
  <2>1. UNCHANGED <<client, submitted, cancelled>>
    BY <1>1 DEF clientVars
  <2>2. Ids' = Ids /\ Placed' = Placed
    BY <1>1, <2>1 DEF Ids, Placed
  <2>3. PICK t, q : t = Head(local[w]) /\ q = Tail(local[w])
    OBVIOUS
  <2>4. local[w] \in Seq(Ids) /\ Distinct(local[w])
    BY <1>0 DEF TypesOK, QueuesDistinct
  <2>5. t \in Range(local[w]) /\ q \in Seq(Ids) /\ Range(q) = Range(local[w]) \ {t} /\ Distinct(q)
    BY <1>3, <2>3, <2>4, PopFront
  <2>6. t \in Ids
    BY <2>4, <2>5, RangeByPosition
  <2>7. /\ local' \in [Workers -> Seq(Ids)] /\ local'[w] = q
        /\ \A v \in Workers : v # w => local'[v] = local[v]
    BY <1>0, <1>3, <2>3, <2>5, LocalReplaced
  <2>8. /\ at' \in [Workers -> WorkerPlaces] /\ held' \in [Workers -> Ids \cup {NoTask}]
        /\ \A v \in Workers : at'[v] \in Busy \cup {"balance", "dependents"} => held'[v] \in Ids
        /\ \A v \in Workers : at'[v] = "execute" => v # w /\ at[v] = "execute" /\ held'[v] = held[v]
        /\ \A u, v : v \in InHands(u)' <=> (v \in InHands(u) \/ (v = w /\ u = t))
    BY <1>0, <1>1, <1>3, <2>3, <2>6, TakesOK
  <2>9. Home(t, "local", w)
    BY <2>5 DEF Home
  <2>10. \A l, v : Home(t, l, v) => l = "local" /\ v = w
    BY <1>0, <2>9 DEF Housed, OneHome
  <2>11. \A u, l, v : u # t => (Home(u, l, v)' <=> Home(u, l, v))
    <3> SUFFICES ASSUME NEW u, NEW l, NEW v, u # t
                 PROVE  Home(u, l, v)' <=> Home(u, l, v)
      OBVIOUS
    <3>1. \A y \in Workers : u \in Range(local'[y]) <=> u \in Range(local[y])
      BY <2>5, <2>7
    <3>2. v \in InHands(u)' <=> v \in InHands(u)
      BY <2>8
    <3>3. QED
      BY <1>1, <2>1, <3>1, <3>2 DEF Home
  <2>12. \A l, v : Home(t, l, v)' <=> (l = "hands" /\ v = w)
    <3>1. /\ t \notin Range(global) /\ t \notin completed \cup cancelled
          /\ \A v \in Workers : (t \in Range(local[v]) => v = w) /\ v \notin InHands(t)
      BY <2>10 DEF Home
    <3>2. QED
      BY <1>1, <2>1, <2>5, <2>7, <2>8, <3>1 DEF Home
  <2>13. Placed' = Placed \cup {t}
    BY <1>0, <2>2, <2>9 DEF Housed, OnlyPlaced
  <2>14. Housed'
    <3>1. MovesTo(t, "hands", w)
      BY <2>11, <2>12, <2>13 DEF MovesTo
    <3>2. QED
      BY <1>0, <3>1, TaskMoves
  <2>15. TypesOK'
    BY <1>0, <1>1, <2>1, <2>2, <2>7, <2>8 DEF TypesOK
  <2>16. QueuesDistinct' /\ ReadyRuns' /\ DependenciesFirst'
    BY <1>1, <2>5, <2>7, <2>8 DEF SchedIInv, QueuesDistinct, ReadyRuns, Satisfied, DependenciesFirst
  <2>17. QED
    BY <2>14, <2>15, <2>16 DEF SchedIInv
<1>4. QED
  BY <1>2, <1>3 DEF LoopTop

\* The front of the global queue, or its back.
LEMMA TakeStep ==
    ASSUME SchedIInv, NEW w \in Workers, PopGlobal(w) \/ Steal(w)
    PROVE  SchedIInv'
<1>0. global \in Seq(Ids) /\ Distinct(global)
  BY DEF SchedIInv, TypesOK, QueuesDistinct
<1>1. at[w] \notin Busy /\ UNCHANGED <<plan, local, completed, clientVars>>
  BY DEF PopGlobal, Steal, Busy
<1>2. ASSUME NEW x \in {"steal", "top"}, at' = [at EXCEPT ![w] = x], UNCHANGED <<held, global>>
      PROVE  SchedIInv'
  <2>1. x \in WorkerPlaces \ (Busy \cup {"balance", "dependents"})
    BY DEF WorkerPlaces, Busy
  <2>2. QED
    BY <1>1, <1>2, <2>1, WorkerMoves
<1>3. ASSUME global # <<>>, Takes(w, Head(global)), global' = Tail(global)
      PROVE  SchedIInv'
  <2>1. PICK t : t = Head(global)
    OBVIOUS
  <2>2. t \in Range(global) /\ global' \in Seq(Ids) /\ Range(global') = Range(global) \ {t} /\ Distinct(global')
    BY <1>0, <1>3, <2>1, PopFront
  <2>3. QED
    BY <1>1, <1>3, <2>1, <2>2, TakeGlobal
<1>4. ASSUME global # <<>>, Takes(w, Last(global)), global' = Front(global)
      PROVE  SchedIInv'
  <2>1. PICK t : t = Last(global)
    OBVIOUS
  <2>2. t \in Range(global) /\ global' \in Seq(Ids) /\ Range(global') = Range(global) \ {t} /\ Distinct(global')
    BY <1>0, <1>4, <2>1, PopBack
  <2>3. QED
    BY <1>1, <1>4, <2>1, <2>2, TakeGlobal
<1>5. QED
  BY <1>2, <1>3, <1>4 DEF PopGlobal, Steal

\* The dependencies are looked at, and only a task that has them all is run.
LEMMA CheckStep ==
    ASSUME SchedIInv, NEW w \in Workers, Check(w)
    PROVE  SchedIInv'
<1>0. TypesOK /\ QueuesDistinct /\ Housed
  BY DEF SchedIInv
<1>1. PICK x \in {"execute", "putBack"} : at' = [at EXCEPT ![w] = x] /\ (x = "execute" => Satisfied(held[w]))
  BY DEF Check
<1>2. at[w] = "check" /\ UNCHANGED <<plan, global, local, completed, held, client, submitted, cancelled>>
  BY DEF Check, clientVars
<1>3. Ids' = Ids /\ Placed' = Placed
  BY <1>2 DEF Ids, Placed
<1>4. /\ at' \in [Workers -> WorkerPlaces] /\ at'[w] = x
      /\ \A v \in Workers : v # w => at'[v] = at[v]
  BY <1>0, <1>1 DEF TypesOK, WorkerPlaces, Busy
<1>5. \A v \in Workers : at'[v] \in Busy \cup {"balance", "dependents"} => held'[v] \in Ids
  BY <1>0, <1>2, <1>4 DEF TypesOK, Busy
<1>6. TypesOK'
  BY <1>0, <1>2, <1>3, <1>4, <1>5 DEF TypesOK
<1>7. \A u, l, v : Home(u, l, v)' <=> Home(u, l, v)
  <2>1. \A u, v : v \in InHands(u)' <=> v \in InHands(u)
    BY <1>2, <1>4 DEF InHands
  <2>2. QED
    BY <1>2, <2>1 DEF Home
<1>8. Housed'
  BY <1>0, <1>3, <1>7, TasksStay
<1>9. ReadyRuns'
  BY <1>1, <1>2, <1>4 DEF SchedIInv, ReadyRuns, Satisfied
<1>10. QueuesDistinct' /\ DependenciesFirst'
  BY <1>2 DEF SchedIInv, QueuesDistinct, DependenciesFirst
<1>11. QED
  BY <1>6, <1>8, <1>9, <1>10 DEF SchedIInv

\* A worker lays its task down: its hands are empty then.
LEMMA HandsEmptied ==
    ASSUME TypesOK, NEW w \in Workers, NEW x \in WorkerPlaces \ (Busy \cup {"balance", "dependents"}),
           at' = [at EXCEPT ![w] = x], held' = [held EXCEPT ![w] = NoTask]
    PROVE  /\ at' \in [Workers -> WorkerPlaces] /\ held' \in [Workers -> Ids \cup {NoTask}]
           /\ \A v \in Workers : at'[v] \in Busy \cup {"balance", "dependents"} => v # w /\ at'[v] = at[v] /\ held'[v] = held[v]
           /\ \A u, v : v \in InHands(u)' <=> (v \in InHands(u) /\ v # w)
<1>1. at \in [Workers -> WorkerPlaces] /\ held \in [Workers -> Ids \cup {NoTask}]
  BY DEF TypesOK
<1>2. /\ at' \in [Workers -> WorkerPlaces] /\ at'[w] = x
      /\ \A v \in Workers : v # w => at'[v] = at[v]
  BY <1>1
<1>3. held' \in [Workers -> Ids \cup {NoTask}] /\ \A v \in Workers : v # w => held'[v] = held[v]
  BY <1>1
<1>4. \A v \in Workers : at'[v] \in Busy \cup {"balance", "dependents"} => v # w /\ at'[v] = at[v] /\ held'[v] = held[v]
  BY <1>2, <1>3
<1>5. \A u, v : v \in InHands(u)' <=> (v \in InHands(u) /\ v # w)
  BY <1>2, <1>3 DEF InHands, Busy
<1>6. QED
  BY <1>2, <1>3, <1>4, <1>5

\* A task that is not ready goes to the front of the worker's own queue.
LEMMA PutBackStep ==
    ASSUME SchedIInv, NEW w \in Workers, PutBack(w)
    PROVE  SchedIInv'
<1>0. TypesOK /\ QueuesDistinct /\ Housed
  BY DEF SchedIInv
<1>1. /\ at[w] = "putBack" /\ at' = [at EXCEPT ![w] = "top"] /\ held' = [held EXCEPT ![w] = NoTask]
      /\ UNCHANGED <<plan, global, completed, client, submitted, cancelled>>
  BY DEF PutBack, clientVars
<1>2. Ids' = Ids /\ Placed' = Placed
  BY <1>1 DEF Ids, Placed
<1>3. PICK t, q : t = held[w] /\ q = <<t>> \o local[w]
  OBVIOUS
<1>4. t \in Ids /\ local[w] \in Seq(Ids) /\ Distinct(local[w])
  BY <1>0, <1>1, <1>3 DEF TypesOK, QueuesDistinct, Busy
<1>5. Home(t, "hands", w)
  BY <1>1, <1>3 DEF Home, InHands
<1>6. \A l, v : Home(t, l, v) => l = "hands" /\ v = w
  BY <1>0, <1>5 DEF Housed, OneHome
<1>7. t \notin Range(local[w])
  BY <1>6 DEF Home
<1>8. q \in Seq(Ids) /\ Range(q) = Range(local[w]) \cup {t} /\ Distinct(q)
  BY <1>3, <1>4, <1>7, PushFront
<1>9. local' = [local EXCEPT ![w] = q]
  BY <1>3 DEF PutBack
<1>10. /\ local' \in [Workers -> Seq(Ids)] /\ local'[w] = q
       /\ \A v \in Workers : v # w => local'[v] = local[v]
  BY <1>0, <1>8, <1>9, LocalReplaced
<1>11. /\ at' \in [Workers -> WorkerPlaces] /\ held' \in [Workers -> Ids \cup {NoTask}]
       /\ \A v \in Workers : at'[v] \in Busy \cup {"balance", "dependents"} => v # w /\ at'[v] = at[v] /\ held'[v] = held[v]
       /\ \A u, v : v \in InHands(u)' <=> (v \in InHands(u) /\ v # w)
  <2>1. "top" \in WorkerPlaces \ (Busy \cup {"balance", "dependents"})
    BY DEF WorkerPlaces, Busy
  <2>2. QED
    BY <1>0, <1>1, <2>1, HandsEmptied
<1>12. \A u : u # t => w \notin InHands(u)
  BY <1>3 DEF InHands
<1>13. \A u, l, v : u # t => (Home(u, l, v)' <=> Home(u, l, v))
  BY <1>1, <1>8, <1>10, <1>11, <1>12 DEF Home
<1>14. \A l, v : Home(t, l, v)' <=> (l = "local" /\ v = w)
  <2>1. /\ t \notin Range(global) /\ t \notin completed \cup cancelled
        /\ \A v \in Workers : t \notin Range(local[v]) /\ (v \in InHands(t) => v = w)
    BY <1>6 DEF Home
  <2>2. QED
    BY <1>1, <1>8, <1>10, <1>11, <2>1 DEF Home
<1>15. Placed' = Placed \cup {t}
  BY <1>0, <1>2, <1>5 DEF Housed, OnlyPlaced
<1>16. Housed'
  <2>1. MovesTo(t, "local", w)
    BY <1>13, <1>14, <1>15 DEF MovesTo
  <2>2. QED
    BY <1>0, <2>1, TaskMoves
<1>17. TypesOK'
  BY <1>0, <1>1, <1>2, <1>10, <1>11 DEF TypesOK
<1>18. QueuesDistinct' /\ ReadyRuns' /\ DependenciesFirst'
  BY <1>1, <1>8, <1>10, <1>11 DEF SchedIInv, QueuesDistinct, ReadyRuns, Satisfied, DependenciesFirst, Busy
<1>19. QED
  BY <1>16, <1>17, <1>18 DEF SchedIInv

\* The task runs and is completed: it leaves its worker's hands.
LEMMA ExecuteStep ==
    ASSUME SchedIInv, NEW w \in Workers, Execute(w)
    PROVE  SchedIInv'
<1>0. TypesOK /\ QueuesDistinct /\ Housed
  BY DEF SchedIInv
<1>1. PICK t : t = held[w]
  OBVIOUS
<1>2. /\ at[w] = "execute" /\ completed' = completed \cup {t} /\ at' = [at EXCEPT ![w] = "balance"]
      /\ UNCHANGED <<plan, global, local, held, client, submitted, cancelled>>
  BY <1>1 DEF Execute, clientVars
<1>3. Ids' = Ids /\ Placed' = Placed
  BY <1>2 DEF Ids, Placed
<1>4. t \in Ids /\ Home(t, "hands", w)
  BY <1>0, <1>1, <1>2 DEF TypesOK, Busy, Home, InHands
<1>5. \A l, v : Home(t, l, v) => l = "hands" /\ v = w
  BY <1>0, <1>4 DEF Housed, OneHome
<1>6. global' \in Seq(Ids) /\ Range(global') = Range(global) /\ Distinct(global')
  BY <1>0, <1>2 DEF TypesOK, QueuesDistinct
<1>7. /\ at' \in [Workers -> WorkerPlaces] /\ at'[w] = "balance"
      /\ \A v \in Workers : v # w => at'[v] = at[v]
  BY <1>0, <1>2 DEF TypesOK, WorkerPlaces
<1>8. \A u, v : v \in InHands(u)' <=> (v \in InHands(u) /\ v # w)
  BY <1>2, <1>7 DEF InHands
<1>9. \A u : u # t => w \notin InHands(u)
  BY <1>1 DEF InHands
<1>10. \A u, l, v : u # t => (Home(u, l, v)' <=> Home(u, l, v))
  BY <1>2, <1>6, <1>8, <1>9 DEF Home
<1>11. \A l, v : Home(t, l, v)' <=> (l = "done" /\ v = NoAffinity)
  <2>1. /\ t \notin Range(global)
        /\ \A v \in Workers : t \notin Range(local[v]) /\ (v \in InHands(t) => v = w)
    BY <1>5 DEF Home
  <2>2. QED
    BY <1>2, <1>6, <1>8, <2>1 DEF Home
<1>12. Placed' = Placed \cup {t}
  BY <1>0, <1>3, <1>4 DEF Housed, OnlyPlaced
<1>13. Housed'
  <2>1. MovesTo(t, "done", NoAffinity)
    BY <1>10, <1>11, <1>12 DEF MovesTo
  <2>2. QED
    BY <1>0, <2>1, TaskMoves
<1>14. \A v \in Workers : at'[v] \in Busy \cup {"balance", "dependents"} => held'[v] \in Ids
  BY <1>0, <1>1, <1>2, <1>4, <1>7 DEF TypesOK
<1>15. TypesOK'
  BY <1>0, <1>2, <1>3, <1>4, <1>6, <1>7, <1>14 DEF TypesOK
<1>16. ReadyRuns'
  BY <1>2, <1>7 DEF SchedIInv, ReadyRuns, Satisfied
<1>17. DependenciesFirst'
  <2>1. Satisfied(t)
    BY <1>1, <1>2 DEF SchedIInv, ReadyRuns
  <2>2. QED
    BY <1>2, <2>1 DEF SchedIInv, DependenciesFirst, Satisfied
<1>18. QueuesDistinct'
  BY <1>0, <1>2, <1>6 DEF QueuesDistinct
<1>19. QED
  BY <1>13, <1>15, <1>16, <1>17, <1>18 DEF SchedIInv

\* The global queue may be rebalanced: every task in it stays in it.
LEMMA BalanceStep ==
    ASSUME SchedIInv, NEW w \in Workers, Balance(w)
    PROVE  SchedIInv'
<1>0. TypesOK /\ QueuesDistinct /\ Housed
  BY DEF SchedIInv
<1>1. /\ at[w] = "balance" /\ at' = [at EXCEPT ![w] = "dependents"]
      /\ UNCHANGED <<plan, local, completed, held, client, submitted, cancelled>>
  BY DEF Balance, clientVars
<1>2. Ids' = Ids /\ Placed' = Placed
  BY <1>1 DEF Ids, Placed
<1>3. global' \in Seq(Ids) /\ Range(global') = Range(global) /\ Distinct(global')
  <2>1. global \in Seq(Ids) /\ Distinct(global)
    BY <1>0 DEF TypesOK, QueuesDistinct
  <2>2. CASE global' = global
    BY <2>1, <2>2
  <2>3. CASE global' = Rebalanced(global)
    BY <2>1, <2>3, RebalancedOK
  <2>4. QED
    BY <2>2, <2>3 DEF Balance
<1>4. /\ at' \in [Workers -> WorkerPlaces] /\ at'[w] = "dependents"
      /\ \A v \in Workers : v # w => at'[v] = at[v]
  BY <1>0, <1>1 DEF TypesOK, WorkerPlaces
<1>5. \A u, v : v \in InHands(u)' <=> v \in InHands(u)
  BY <1>1, <1>4 DEF InHands
<1>6. \A u, l, v : Home(u, l, v)' <=> Home(u, l, v)
  BY <1>1, <1>3, <1>5 DEF Home
<1>7. Housed'
  BY <1>0, <1>2, <1>6, TasksStay
<1>8. \A v \in Workers : at'[v] \in Busy \cup {"balance", "dependents"} => held'[v] \in Ids
  BY <1>0, <1>1, <1>4 DEF TypesOK
<1>9. TypesOK'
  BY <1>0, <1>1, <1>2, <1>3, <1>4, <1>8 DEF TypesOK
<1>10. ReadyRuns' /\ DependenciesFirst'
  BY <1>1, <1>4 DEF SchedIInv, ReadyRuns, Satisfied, DependenciesFirst
<1>11. QueuesDistinct'
  BY <1>0, <1>1, <1>3 DEF QueuesDistinct
<1>12. QED
  BY <1>7, <1>9, <1>10, <1>11 DEF SchedIInv

\* process_dependent_tasks takes its list: the task is completed already.
LEMMA TakeDependentsStep ==
    ASSUME SchedIInv, NEW w \in Workers, TakeDependents(w)
    PROVE  SchedIInv'
<1>0. TypesOK /\ QueuesDistinct /\ Housed
  BY DEF SchedIInv
<1>1. /\ at[w] = "dependents" /\ at' = [at EXCEPT ![w] = "follow"] /\ held' = [held EXCEPT ![w] = NoTask]
      /\ UNCHANGED <<plan, global, local, completed, client, submitted, cancelled>>
  BY DEF TakeDependents, clientVars
<1>2. Ids' = Ids /\ Placed' = Placed
  BY <1>1 DEF Ids, Placed
<1>3. /\ at' \in [Workers -> WorkerPlaces] /\ held' \in [Workers -> Ids \cup {NoTask}]
      /\ \A v \in Workers : at'[v] \in Busy \cup {"balance", "dependents"} => v # w /\ at'[v] = at[v] /\ held'[v] = held[v]
      /\ \A u, v : v \in InHands(u)' <=> (v \in InHands(u) /\ v # w)
  <2>1. "follow" \in WorkerPlaces \ (Busy \cup {"balance", "dependents"})
    BY DEF WorkerPlaces, Busy
  <2>2. QED
    BY <1>0, <1>1, <2>1, HandsEmptied
<1>4. \A u : w \notin InHands(u)
  BY <1>1 DEF InHands
<1>5. \A u, l, v : Home(u, l, v)' <=> Home(u, l, v)
  BY <1>1, <1>3, <1>4 DEF Home
<1>6. Housed'
  BY <1>0, <1>2, <1>5, TasksStay
<1>7. TypesOK'
  BY <1>0, <1>1, <1>2, <1>3 DEF TypesOK
<1>8. QueuesDistinct' /\ ReadyRuns' /\ DependenciesFirst'
  BY <1>1, <1>3 DEF SchedIInv, QueuesDistinct, ReadyRuns, Satisfied, DependenciesFirst, Busy
<1>9. QED
  BY <1>6, <1>7, <1>8 DEF SchedIInv

\* A dependent is moved to the front or the back of the global queue.
LEMMA FollowUpStep ==
    ASSUME SchedIInv, NEW w \in Workers, NEW t \in Ids, FollowUp(w, t)
    PROVE  SchedIInv'
<1>0. TypesOK /\ QueuesDistinct /\ Housed
  BY DEF SchedIInv
<1>1. UNCHANGED <<plan, local, completed, at, held, client, submitted, cancelled>>
  BY DEF FollowUp, clientVars
<1>2. Ids' = Ids /\ Placed' = Placed
  BY <1>1 DEF Ids, Placed
<1>3. global' \in Seq(Ids) /\ Range(global') = Range(global) /\ Distinct(global')
  <2>1. global \in Seq(Ids) /\ Distinct(global) /\ Ids \in SUBSET Nat
    BY <1>0, IdsAreNat DEF TypesOK, QueuesDistinct
  <2>2. CASE t \notin Range(global)
    BY <2>1, <2>2 DEF FollowUp
  <2>3. CASE t \in Range(global)
    <3>1. PICK rest : rest = RemoveFirst(global, t)
      OBVIOUS
    <3>2. rest \in Seq(Ids) /\ Range(rest) = Range(global) \ {t} /\ Distinct(rest)
      BY <2>1, <2>3, <3>1, FirstRemoved
    <3>3. global' = <<t>> \o rest \/ global' = Append(rest, t)
      BY <2>3, <3>1 DEF FollowUp, Moved
    <3>4. global' \in Seq(Ids) /\ Range(global') = Range(rest) \cup {t} /\ Distinct(global')
      <4>1. t \notin Range(rest)
        BY <3>2
      <4>2. CASE global' = <<t>> \o rest
        BY <3>2, <4>1, <4>2, PushFront
      <4>3. CASE global' = Append(rest, t)
        BY <3>2, <4>1, <4>3, PushBack
      <4>4. QED
        BY <3>3, <4>2, <4>3
    <3>5. QED
      BY <2>3, <3>2, <3>4
  <2>4. QED
    BY <2>2, <2>3
<1>4. \A u, l, v : Home(u, l, v)' <=> Home(u, l, v)
  BY <1>1, <1>3 DEF Home, InHands
<1>5. Housed'
  BY <1>0, <1>2, <1>4, TasksStay
<1>6. TypesOK'
  BY <1>0, <1>1, <1>2, <1>3 DEF TypesOK
<1>7. QueuesDistinct' /\ ReadyRuns' /\ DependenciesFirst'
  BY <1>1, <1>3 DEF SchedIInv, QueuesDistinct, ReadyRuns, Satisfied, DependenciesFirst
<1>8. QED
  BY <1>5, <1>6, <1>7 DEF SchedIInv

-----------------------------------------------------------------------------
(* The theorems *)

\* Nothing is submitted and every hand is empty.
LEMMA SchedInitOK == SchedInit => SchedIInv
<1> SUFFICES ASSUME SchedInit PROVE SchedIInv
  OBVIOUS
<1>1. /\ plan \in Workloads /\ global = <<>> /\ local = [w \in Workers |-> <<>>]
      /\ completed = {} /\ cancelled = {} /\ client = "submit" /\ submitted = 0
      /\ at = [w \in Workers |-> "top"] /\ held = [w \in Workers |-> NoTask]
  BY DEF SchedInit
<1>2. Len(plan.tasks) \in Nat
  BY <1>1, IdsAreNat
<1>3. TypesOK
  <2>1. "top" \in WorkerPlaces /\ "top" \notin Busy \cup {"balance", "dependents"}
    BY DEF WorkerPlaces, Busy
  <2>2. <<>> \in Seq(Ids)
    OBVIOUS
  <2>3. 0 \in 0 .. Len(plan.tasks)
    BY <1>2
  <2>4. QED
    BY <1>1, <2>1, <2>2, <2>3 DEF TypesOK
<1>4. Len(<<>>) = 0 /\ Range(<<>>) = {}
  BY DEF Range
<1>5. QueuesDistinct
  BY <1>1, <1>4 DEF QueuesDistinct, Distinct
<1>6. \A t, l, v : ~Home(t, l, v)
  BY <1>1, <1>4 DEF Home, InHands
<1>7. Placed = {}
  BY <1>1 DEF Placed
<1>8. Housed
  BY <1>6, <1>7 DEF Housed, OneHome, Somewhere, OnlyPlaced
<1>9. ReadyRuns /\ DependenciesFirst
  BY <1>1 DEF ReadyRuns, DependenciesFirst
<1>10. QED
  BY <1>3, <1>5, <1>8, <1>9 DEF SchedIInv

\* Every step of the client and of a worker keeps the invariant.
LEMMA SchedNextOK == SchedIInv /\ [SchedNext]_schedVars => SchedIInv'
<1> SUFFICES ASSUME SchedIInv, [SchedNext]_schedVars PROVE SchedIInv'
  OBVIOUS
<1>1. CASE UNCHANGED schedVars
  <2>1. UNCHANGED <<plan, global, local, completed, at, held, client, submitted, cancelled>>
    BY <1>1 DEF schedVars, workerVars, clientVars
  <2>2. Placed' = Placed
    BY <2>1 DEF Placed
  <2>3. QED
    BY <2>1, <2>2, PlacesStay DEF SchedIInv, TypesOK
<1>2. CASE ClientStep
  BY <1>2, RegisterStep, EnqueueStep, CancelStep, CancelLocalStep, ClientMoves DEF ClientStep
<1>3. ASSUME NEW w \in Workers, WorkerStep(w)
      PROVE  SchedIInv'
  <2>1. CASE FollowUpEnds(w)
    <3>1. /\ at[w] \notin Busy /\ at' = [at EXCEPT ![w] = "top"]
          /\ UNCHANGED <<plan, global, local, completed, held, clientVars>>
      BY <2>1 DEF FollowUpEnds, Busy
    <3>2. "top" \in WorkerPlaces \ (Busy \cup {"balance", "dependents"})
      BY DEF WorkerPlaces, Busy
    <3>3. QED
      BY <3>1, <3>2, WorkerMoves
  <2>2. QED
    BY <1>3, <2>1, LoopTopStep, TakeStep, CheckStep, PutBackStep, ExecuteStep, BalanceStep,
       TakeDependentsStep, FollowUpStep
       DEF WorkerStep
<1>4. QED
  BY <1>1, <1>2, <1>3 DEF SchedNext

\* The strengthened invariant holds in every state of every behaviour.
THEOREM SchedInvariant == SchedSpec => []SchedIInv
<1>1. QED
  BY SchedInitOK, SchedNextOK, PTL DEF SchedSpec

\* A task with one home is counted once.
LEMMA CountedOnce == SchedIInv => TaskInOnePlace
<1> SUFFICES ASSUME SchedIInv, NEW t \in Placed
             PROVE  Occurrences(global, t) + Cardinality({w \in Workers : t \in Range(local[w])})
                      + Cardinality(InHands(t)) + Cardinality({t} \cap (completed \cup cancelled)) = 1
  BY DEF TaskInOnePlace, Placed
<1> DEFINE G == {i \in DOMAIN global : global[i] = t}
           L == {w \in Workers : t \in Range(local[w])}
           H == InHands(t)
           D == {t} \cap (completed \cup cancelled)
<1>0. TypesOK /\ QueuesDistinct /\ Housed
  BY DEF SchedIInv
<1>1. PICK k, x : Home(t, k, x)
  BY <1>0 DEF Housed, Somewhere
<1>2. \A l, v : Home(t, l, v) => l = k /\ v = x
  BY <1>0, <1>1 DEF Housed, OneHome
<1>3. IF k = "global" THEN \E i : G = {i} ELSE G = {}
  <2>1. global \in Seq(Ids) /\ Distinct(global)
    BY <1>0 DEF TypesOK, QueuesDistinct
  <2>2. DOMAIN global = 1 .. Len(global) /\ \A u : u \in Range(global) <=> \E i \in 1 .. Len(global) : global[i] = u
    BY <2>1, RangeByPosition
  <2>3. CASE k = "global"
    <3>1. t \in Range(global)
      BY <1>1, <2>3 DEF Home
    <3>2. PICK i \in 1 .. Len(global) : global[i] = t
      BY <2>2, <3>1
    <3>3. G = {i}
      BY <2>1, <2>2, <3>2 DEF Distinct
    <3>4. QED
      BY <2>3, <3>3
  <2>4. CASE k # "global"
    <3>1. t \notin Range(global)
      BY <1>2, <2>4 DEF Home
    <3>2. G = {}
      BY <2>2, <3>1
    <3>3. QED
      BY <2>4, <3>2
  <2>5. QED
    BY <2>3, <2>4
<1>4. IF k = "local" THEN L = {x} ELSE L = {}
  BY <1>1, <1>2 DEF Home
<1>5. IF k = "hands" THEN H = {x} ELSE H = {}
  <2>1. H \subseteq Workers
    BY DEF InHands
  <2>2. QED
    BY <1>1, <1>2, <2>1 DEF Home
<1>6. IF k = "done" THEN D = {t} ELSE D = {}
  BY <1>1, <1>2 DEF Home
<1>7. k \in {"global", "local", "hands", "done"}
  BY <1>1 DEF Home
<1>8. Cardinality({}) = 0 /\ \A i : Cardinality({i}) = 1
  BY FS_EmptySet, FS_Singleton
<1>9. Occurrences(global, t) = Cardinality(G)
  BY DEF Occurrences
<1> HIDE DEF G, L, H, D
<1>10. Cardinality(G) + Cardinality(L) + Cardinality(H) + Cardinality(D) = 1
  <2>1. Cardinality(G) = IF k = "global" THEN 1 ELSE 0
    BY <1>3, <1>8
  <2>2. Cardinality(L) = IF k = "local" THEN 1 ELSE 0
    BY <1>4, <1>8
  <2>3. Cardinality(H) = IF k = "hands" THEN 1 ELSE 0
    BY <1>5, <1>8
  <2>4. Cardinality(D) = IF k = "done" THEN 1 ELSE 0
    BY <1>6, <1>8
  <2>5. QED
    BY <1>7, <2>1, <2>2, <2>3, <2>4
<1>11. QED
  BY <1>9, <1>10 DEF L, H, D

\* Whatever the workers pop, steal, put back, move and rebalance and the client
\* cancels, a submitted task is in one queue, in one worker's hands or finished,
\* and never in two of them: no task is lost and none is run twice.
THEOREM TasksAreInOnePlace == SchedSpec => []TaskInOnePlace
<1>1. QED
  BY SchedInvariant, CountedOnce, PTL

\* No task is completed before all it depends on, in whatever order the queues
\* offer the tasks.
THEOREM DependenciesRunFirst == SchedSpec => []DependenciesFirst
<1>1. SchedIInv => DependenciesFirst
  BY DEF SchedIInv
<1>2. QED
  BY <1>1, SchedInvariant, PTL

-----------------------------------------------------------------------------
(* ResourceManager *)

\* Between its check and its entry in the tracker a thread has a claim that the
\* tracker does not show.  The invariant counts what is in use and claimed together;
\* a claim is a set of units, so that the amounts add up as cardinalities.
Passed == {"unpend", "grant", "count", "track"}
Entered == {"store", "holds", "uncount", "untrack"}
ResPlaces == Passed \cup Entered \cup {"idle", "check", "push", "again", "sleep", "asleep", "notify"}

ResTypeOK ==
    /\ rpc \in [Requesters -> ResPlaces]
    /\ demand \in [Requesters -> Demands]
    /\ inUse \in [Kinds -> Nat]
    /\ \A i \in DOMAIN allocations : allocations[i] \in Nat /\ allocations[i] <= LargestDemand("memory")

\* The units of a kind that threads were told they may have and that are not
\* entered in the tracker yet.
Claims(k) ==
    {c \in Requesters \X (1 .. LargestDemand(k)) :
        rpc[c[1]] \in Passed /\ demand[c[1]].kind = k /\ c[2] <= demand[c[1]].amount}

\* The threads whose grant is in the tracker.
Tracked(k) == {r \in Requesters : demand[r].kind = k /\ rpc[r] \in Entered}

Others == Cardinality(Requesters) - 1
Single(k) == Cardinality({d \in Demands : d.kind = k}) = 1

\* What is in use and what is claimed, together.
ClaimsBounded == \A k \in Kinds : inUse[k] + Cardinality(Claims(k)) <= Limit[k] + Others * LargestDemand(k)

\* The tracker has at least what the threads it was entered for will give back.
TrackedCovered == \A k \in Kinds : Single(k) => inUse[k] >= LargestDemand(k) * Cardinality(Tracked(k))

ResIInv ==
    /\ ResTypeOK
    /\ ClaimsBounded
    /\ TrackedCovered

-----------------------------------------------------------------------------
(* The largest demand *)

\* One of finitely many demands is the largest, by induction on their number.
LEMMA LargestExists ==
    ASSUME NEW V \in SUBSET Demands, V # {}
    PROVE  \E d \in V : \A e \in V : e.amount <= d.amount
<1> DEFINE HasLargest(U) == \E d \in U : \A e \in U : e.amount <= d.amount
           T == {n \in Nat : \E U \in SUBSET Demands : U # {} /\ Cardinality(U) = n /\ ~HasLargest(U)}
<1>0. /\ \A d \in Demands : d.amount \in Nat
      /\ \A U \in SUBSET Demands : IsFiniteSet(U) /\ Cardinality(U) \in Nat
  BY ResourceAssumption, FS_Subset, FS_CardinalityType
<1>1. SUFFICES ASSUME ~HasLargest(V) PROVE FALSE
  OBVIOUS
<1>2. T # {}
  BY <1>0, <1>1
<1>3. PICK n \in T : \A m \in T : n <= m
  BY <1>2, LeastExists
<1>4. PICK U \in SUBSET Demands : U # {} /\ Cardinality(U) = n /\ ~HasLargest(U)
  BY <1>3
<1>5. PICK x : x \in U
  BY <1>4
<1>6. PICK W : W = U \ {x}
  OBVIOUS
<1>7. W \in SUBSET Demands /\ Cardinality(W) = n - 1 /\ n \in Nat
  <2>1. IsFiniteSet(U)
    BY <1>0
  <2>2. Cardinality(U \ {x}) = Cardinality(U) - 1
    BY <1>5, <2>1, FS_RemoveElement
  <2>3. QED
    BY <1>3, <1>4, <1>6, <2>2
<1>8. CASE W = {}
  <2>1. U = {x}
    BY <1>5, <1>6, <1>8
  <2>2. x.amount \in Nat
    BY <1>0, <1>5
  <2>3. HasLargest(U)
    BY <2>1, <2>2
  <2>4. QED
    BY <1>4, <2>3
<1>9. CASE W # {}
  <2>1. n - 1 \notin T
    BY <1>3, <1>7
  <2>2. n - 1 \in Nat
    BY <1>0, <1>7
  <2>3. HasLargest(W)
    BY <1>7, <1>9, <2>1, <2>2
  <2>4. PICK d \in W : \A e \in W : e.amount <= d.amount
    BY <2>3
  <2>5. /\ x.amount \in Nat /\ d.amount \in Nat /\ \A e \in U : e.amount \in Nat
        /\ d \in U /\ \A e \in U : e = x \/ e \in W
    BY <1>0, <1>5, <1>6
  <2>6. CASE x.amount <= d.amount
    BY <1>4, <2>4, <2>5, <2>6
  <2>7. CASE d.amount <= x.amount
    <3>1. \A e \in U : e.amount <= x.amount
      BY <2>4, <2>5, <2>7
    <3>2. QED
      BY <1>4, <1>5, <3>1
  <2>8. QED
    BY <2>5, <2>6, <2>7
<1>10. QED
  BY <1>8, <1>9

\* What LargestDemand says of the demands of a kind.
LEMMA LargestOK ==
    ASSUME NEW k \in Kinds
    PROVE  /\ LargestDemand(k) \in Nat
           /\ \A d \in Demands : d.kind = k => d.amount \in Nat /\ d.amount <= LargestDemand(k)
           /\ Single(k) => \A d \in Demands : d.kind = k => d.amount = LargestDemand(k)
<1> DEFINE V == {e \in Demands : e.kind = k}
           A == {d.amount : d \in V} \cup {0}
<1>0. \A d \in V : d.amount \in Nat
  BY ResourceAssumption
<1>1. LargestDemand(k) = CHOOSE x \in A : \A y \in A : x >= y
  BY DEF LargestDemand, Max
<1>2. \E x \in A : \A y \in A : x >= y
  <2>1. CASE V = {}
    <3>1. A = {0}
      BY <2>1
    <3>2. 0 >= 0
      OBVIOUS
    <3>3. QED
      BY <3>1, <3>2
  <2>2. CASE V # {}
    <3>1. PICK d \in V : \A e \in V : e.amount <= d.amount
      BY <2>2, LargestExists
    <3>2. d.amount \in A /\ \A y \in A : y = 0 \/ \E e \in V : y = e.amount
      OBVIOUS
    <3>3. \A y \in A : d.amount >= y
      BY <1>0, <3>1, <3>2
    <3>4. QED
      BY <3>2, <3>3
  <2>3. QED
    BY <2>1, <2>2
<1>3. LargestDemand(k) \in A /\ \A y \in A : LargestDemand(k) >= y
  BY <1>1, <1>2
<1>4. A \subseteq Nat
  BY <1>0
<1>5. LargestDemand(k) \in Nat
  BY <1>3, <1>4
<1>6. ASSUME NEW d \in Demands, d.kind = k
      PROVE  d.amount \in Nat /\ d.amount <= LargestDemand(k)
  <2>1. d \in V /\ d.amount \in A /\ d.amount \in Nat
    BY <1>0, <1>6
  <2>2. QED
    BY <1>3, <1>5, <2>1
<1>7. ASSUME Single(k), NEW d \in Demands, d.kind = k
      PROVE  d.amount = LargestDemand(k)
  <2>1. IsFiniteSet(V)
    BY ResourceAssumption, FS_Subset
  <2>2. PICK e : V = {e}
    BY <1>7, <2>1, FS_Singleton DEF Single
  <2>3. d \in V
    BY <1>7
  <2>4. A = {d.amount, 0}
    BY <2>2, <2>3
  <2>5. d.amount \in Nat /\ d.amount <= LargestDemand(k)
    BY <1>6, <1>7
  <2>6. LargestDemand(k) = d.amount \/ LargestDemand(k) = 0
    BY <1>3, <2>4
  <2>7. QED
    BY <2>5, <2>6
<1>8. QED
  BY <1>5, <1>6, <1>7

\* Claims are finitely many units, and so are the threads.
LEMMA Finite ==
    ASSUME NEW k \in Kinds
    PROVE  /\ IsFiniteSet(Requesters) /\ Cardinality(Requesters) \in Nat /\ Others \in Nat
           /\ IsFiniteSet(Claims(k)) /\ Cardinality(Claims(k)) \in Nat
           /\ IsFiniteSet(Tracked(k)) /\ Cardinality(Tracked(k)) \in Nat
<1>1. IsFiniteSet(Requesters) /\ Cardinality(Requesters) \in Nat /\ Cardinality(Requesters) # 0
  BY ResourceAssumption, FS_CardinalityType, FS_EmptySet
<1>2. Others \in Nat
  BY <1>1 DEF Others
<1>3. LargestDemand(k) \in Nat
  BY LargestOK
<1>4. IsFiniteSet(1 .. LargestDemand(k))
  BY <1>3, FS_Interval
<1>5. IsFiniteSet(Requesters \X (1 .. LargestDemand(k)))
  BY <1>1, <1>4, FS_Product
<1>6. Claims(k) \in SUBSET (Requesters \X (1 .. LargestDemand(k)))
  BY DEF Claims
<1>7. IsFiniteSet(Claims(k)) /\ Cardinality(Claims(k)) \in Nat
  BY <1>5, <1>6, FS_Subset, FS_CardinalityType
<1>8. Tracked(k) \in SUBSET Requesters
  BY DEF Tracked
<1>9. IsFiniteSet(Tracked(k)) /\ Cardinality(Tracked(k)) \in Nat
  BY <1>1, <1>8, FS_Subset, FS_CardinalityType
<1>10. QED
  BY <1>1, <1>2, <1>7, <1>9

-----------------------------------------------------------------------------
(* The steps *)

\* A thread goes on; the others stay where they are.
LEMMA GoesOK ==
    ASSUME ResTypeOK, NEW r \in Requesters, NEW x \in ResPlaces, Goes(r, x)
    PROVE  /\ rpc' \in [Requesters -> ResPlaces] /\ rpc'[r] = x
           /\ \A q \in Requesters : q # r => rpc'[q] = rpc[q]
  BY DEF ResTypeOK, Goes

\* Steps that change no tracker, no claim and no entry.
LEMMA NothingCounted ==
    ASSUME ResIInv, UNCHANGED <<inUse, allocations>>,
           rpc' \in [Requesters -> ResPlaces], demand' \in [Requesters -> Demands],
           \A r \in Requesters : rpc'[r] \in Passed <=> rpc[r] \in Passed,
           \A r \in Requesters : rpc'[r] \in Entered <=> rpc[r] \in Entered,
           \A r \in Requesters : rpc[r] \in Passed \cup Entered => demand'[r] = demand[r]
    PROVE  ResIInv'
<1>1. ResTypeOK'
  BY DEF ResIInv, ResTypeOK
<1>2. \A k : Claims(k)' = Claims(k)
  <2>1. ASSUME NEW k
        PROVE  \A c \in Requesters \X (1 .. LargestDemand(k)) : c \in Claims(k)' <=> c \in Claims(k)
    BY DEF Claims
  <2>2. QED
    BY <2>1 DEF Claims
<1>3. \A k : Tracked(k)' = Tracked(k)
  BY DEF Tracked
<1>4. ClaimsBounded' /\ TrackedCovered'
  BY <1>2, <1>3 DEF ResIInv, ClaimsBounded, TrackedCovered
<1>5. QED
  BY <1>1, <1>4 DEF ResIInv

\* The steps of a thread that does not pass the check, enter or leave a tracker.
LEMMA QuietStep ==
    ASSUME ResIInv, NEW r \in Requesters,
           \/ Push(r) \/ Unpend(r) \/ Sleep(r) \/ TimesOut(r) \/ GrantId(r) \/ GrantUsage(r)
           \/ StoreGrant(r) \/ TakeGrant(r) \/ ReturnUsage(r)
           \/ (CheckNow(r) /\ ~Available(r)) \/ (CheckAgain(r) /\ ~Available(r))
    PROVE  ResIInv'
<1>0. ResTypeOK
  BY DEF ResIInv
<1>1. UNCHANGED <<inUse, allocations, demand>>
  BY DEF Push, Unpend, Sleep, TimesOut, GrantId, GrantUsage, StoreGrant, TakeGrant, ReturnUsage, CheckNow, CheckAgain
<1>2. PICK x \in ResPlaces : /\ Goes(r, x)
                             /\ x \in Passed <=> rpc[r] \in Passed
                             /\ x \in Entered <=> rpc[r] \in Entered
  <2>1. CASE Push(r) \/ Sleep(r) \/ TimesOut(r)
    BY <2>1 DEF Push, Sleep, TimesOut, Passed, Entered, ResPlaces
  <2>2. CASE Unpend(r) \/ GrantId(r) \/ GrantUsage(r)
    BY <2>2 DEF Unpend, GrantId, GrantUsage, Passed, Entered, ResPlaces
  <2>3. CASE StoreGrant(r) \/ TakeGrant(r) \/ ReturnUsage(r)
    BY <2>3 DEF StoreGrant, TakeGrant, ReturnUsage, Passed, Entered, ResPlaces
  <2>4. CASE (CheckNow(r) /\ ~Available(r)) \/ (CheckAgain(r) /\ ~Available(r))
    BY <2>4 DEF CheckNow, CheckAgain, Passed, Entered, ResPlaces
  <2>5. QED
    BY <2>1, <2>2, <2>3, <2>4
<1>3. /\ rpc' \in [Requesters -> ResPlaces] /\ rpc'[r] = x
      /\ \A q \in Requesters : q # r => rpc'[q] = rpc[q]
  BY <1>0, <1>2, GoesOK
<1>4. /\ \A q \in Requesters : rpc'[q] \in Passed <=> rpc[q] \in Passed
      /\ \A q \in Requesters : rpc'[q] \in Entered <=> rpc[q] \in Entered
  BY <1>2, <1>3
<1>5. demand' \in [Requesters -> Demands] /\ \A q \in Requesters : demand'[q] = demand[q]
  BY <1>0, <1>1 DEF ResTypeOK
<1>6. QED
  BY <1>1, <1>3, <1>4, <1>5, NothingCounted

\* A new request; what a thread asked for before is over.
LEMMA RequestStep ==
    ASSUME ResIInv, NEW r \in Requesters, NEW d \in Demands, Request(r, d)
    PROVE  ResIInv'
<1>0. ResTypeOK
  BY DEF ResIInv
<1>1. rpc[r] = "idle" /\ demand' = [demand EXCEPT ![r] = d] /\ Goes(r, "check") /\ UNCHANGED <<inUse, allocations>>
  BY DEF Request
<1>2. "check" \in ResPlaces
  BY DEF ResPlaces
<1>3. /\ rpc' \in [Requesters -> ResPlaces] /\ rpc'[r] = "check"
      /\ \A q \in Requesters : q # r => rpc'[q] = rpc[q]
  BY <1>0, <1>1, <1>2, GoesOK
<1>4. demand' \in [Requesters -> Demands] /\ \A q \in Requesters : q # r => demand'[q] = demand[q]
  BY <1>0, <1>1 DEF ResTypeOK
<1>5. {"idle", "check"} \cap (Passed \cup Entered) = {}
  BY DEF Passed, Entered
<1>6. /\ \A q \in Requesters : rpc'[q] \in Passed <=> rpc[q] \in Passed
      /\ \A q \in Requesters : rpc'[q] \in Entered <=> rpc[q] \in Entered
      /\ \A q \in Requesters : rpc[q] \in Passed \cup Entered => demand'[q] = demand[q]
  BY <1>1, <1>3, <1>4, <1>5
<1>7. QED
  BY <1>1, <1>3, <1>4, <1>6, NothingCounted

\* notify_all.
LEMMA NotifyStep ==
    ASSUME ResIInv, NEW r \in Requesters, Notify(r)
    PROVE  ResIInv'
<1>0. ResTypeOK
  BY DEF ResIInv
<1>1. /\ rpc[r] = "notify" /\ UNCHANGED <<inUse, allocations, demand>>
      /\ rpc' = [q \in Requesters |-> IF q = r THEN "idle" ELSE IF rpc[q] = "asleep" THEN "again" ELSE rpc[q]]
  BY DEF Notify
<1>2. {"idle", "again"} \subseteq ResPlaces /\ {"idle", "notify", "asleep", "again"} \cap (Passed \cup Entered) = {}
  BY DEF Passed, Entered, ResPlaces
<1>3. rpc' \in [Requesters -> ResPlaces]
  BY <1>0, <1>1, <1>2 DEF ResTypeOK
<1>4. /\ \A q \in Requesters : rpc'[q] \in Passed <=> rpc[q] \in Passed
      /\ \A q \in Requesters : rpc'[q] \in Entered <=> rpc[q] \in Entered
  BY <1>1, <1>2
<1>5. demand' \in [Requesters -> Demands] /\ \A q \in Requesters : demand'[q] = demand[q]
  BY <1>0, <1>1 DEF ResTypeOK
<1>6. QED
  BY <1>1, <1>3, <1>4, <1>5, NothingCounted

\* The thread that copies the statistics.
LEMMA CopyStep ==
    ASSUME ResIInv, CopyUsage
    PROVE  ResIInv'
<1>1. UNCHANGED <<rpc, demand, inUse, allocations>>
  BY DEF CopyUsage
<1>2. rpc' \in [Requesters -> ResPlaces] /\ demand' \in [Requesters -> Demands]
  BY <1>1 DEF ResIInv, ResTypeOK
<1>3. QED
  BY <1>1, <1>2, NothingCounted

\* The units of one thread.
Units(r, n) == {r} \X (1 .. n)

\* There are as many units as the amount says.
LEMMA UnitsCount ==
    ASSUME NEW r, NEW n \in Nat
    PROVE  IsFiniteSet(Units(r, n)) /\ Cardinality(Units(r, n)) = n
<1>1. IsFiniteSet(1 .. n) /\ Cardinality(1 .. n) = n
  BY FS_Interval
<1>2. IsFiniteSet({r}) /\ Cardinality({r}) = 1
  BY FS_Singleton
<1>3. /\ IsFiniteSet({r} \X (1 .. n))
      /\ Cardinality({r} \X (1 .. n)) = Cardinality({r}) * Cardinality(1 .. n)
  BY <1>1, <1>2, FS_Product, Zenon
<1>4. QED
  BY <1>1, <1>2, <1>3 DEF Units

\* A thread passes the check: its claim fits under the limit together with what
\* is in use, and each other thread claims at most one demand.
LEMMA PassStep ==
    ASSUME ResIInv, NEW r \in Requesters, Available(r), CheckNow(r) \/ CheckAgain(r)
    PROVE  ResIInv'
<1>0. ResTypeOK
  BY DEF ResIInv
<1>1. PICK x \in {"grant", "unpend"} : Goes(r, x)
  BY DEF CheckNow, CheckAgain
<1>2. rpc[r] \in {"check", "again"} /\ UNCHANGED <<demand, inUse, allocations>>
  BY DEF CheckNow, CheckAgain
<1>3. x \in Passed /\ x \in ResPlaces /\ x \notin Entered /\ rpc[r] \notin Passed \cup Entered
  BY <1>2 DEF Passed, Entered, ResPlaces
<1>4. /\ rpc' \in [Requesters -> ResPlaces] /\ rpc'[r] = x
      /\ \A q \in Requesters : q # r => rpc'[q] = rpc[q]
  BY <1>0, <1>1, <1>3, GoesOK
<1>5. ResTypeOK'
  BY <1>0, <1>2, <1>4 DEF ResTypeOK
<1>6. \A k : Tracked(k)' = Tracked(k)
  BY <1>2, <1>3, <1>4 DEF Tracked
<1>7. TrackedCovered'
  BY <1>2, <1>6 DEF ResIInv, TrackedCovered
<1>8. PICK a, kind : a = demand[r].amount /\ kind = demand[r].kind
  OBVIOUS
<1>9. demand[r] \in Demands /\ kind \in Kinds /\ a \in Nat
  BY <1>0, <1>8, ResourceAssumption DEF ResTypeOK
<1>10. inUse[kind] + a <= Limit[kind] /\ inUse[kind] \in Nat /\ Limit[kind] \in Nat
  BY <1>0, <1>8, <1>9, ResourceAssumption DEF Available, ResTypeOK
<1>11. ASSUME NEW k \in Kinds, k # kind
       PROVE  inUse'[k] + Cardinality(Claims(k)') <= Limit[k] + Others * LargestDemand(k)
  <2>1. \A c \in Requesters \X (1 .. LargestDemand(k)) : c \in Claims(k)' <=> c \in Claims(k)
    BY <1>2, <1>4, <1>8, <1>11 DEF Claims
  <2>2. Claims(k)' = Claims(k)
    BY <2>1 DEF Claims
  <2>3. QED
    BY <1>2, <2>2 DEF ResIInv, ClaimsBounded
<1>12. inUse'[kind] + Cardinality(Claims(kind)') <= Limit[kind] + Others * LargestDemand(kind)
  <2> DEFINE U == Units(r, a)
             W == (Requesters \ {r}) \X (1 .. LargestDemand(kind))
  <2>1. LargestDemand(kind) \in Nat
    BY <1>9, LargestOK
  <2>2. IsFiniteSet(U) /\ Cardinality(U) = a
    BY <1>9, UnitsCount
  <2>3. IsFiniteSet(W) /\ Cardinality(W) = Others * LargestDemand(kind)
    <3>1. IsFiniteSet(Requesters \ {r}) /\ Cardinality(Requesters \ {r}) = Others
      BY <1>9, Finite, FS_RemoveElement DEF Others
    <3>2. IsFiniteSet(1 .. LargestDemand(kind)) /\ Cardinality(1 .. LargestDemand(kind)) = LargestDemand(kind)
      BY <2>1, FS_Interval
    <3>3. QED
      BY <3>1, <3>2, FS_Product
  <2>4. Claims(kind)' \subseteq U \cup W
    <3>1. ASSUME NEW c \in Requesters \X (1 .. LargestDemand(kind)), c \in Claims(kind)'
          PROVE  c \in U \cup W
      <4>1. PICK q \in Requesters, i \in 1 .. LargestDemand(kind) : c = <<q, i>>
        OBVIOUS
      <4>2. i <= demand'[q].amount /\ i \in Nat /\ i >= 1
        BY <2>1, <3>1, <4>1 DEF Claims
      <4>3. CASE q = r
        BY <1>2, <1>8, <1>9, <4>1, <4>2, <4>3 DEF Units
      <4>4. CASE q # r
        BY <4>1, <4>4
      <4>5. QED
        BY <4>3, <4>4
    <3>2. QED
      BY <3>1 DEF Claims
  <2> HIDE DEF U, W
  <2>5. IsFiniteSet(U \cup W) /\ Cardinality(U \cup W) = Cardinality(U) + Cardinality(W) - Cardinality(U \cap W)
    BY <2>2, <2>3, FS_Union
  <2>6. Cardinality(U \cap W) \in Nat
    <3>1. U \cap W \in SUBSET U
      OBVIOUS
    <3>2. IsFiniteSet(U \cap W)
      BY <2>2, <3>1, FS_Subset
    <3>3. QED
      BY <3>2, FS_CardinalityType
  <2>7. PICK C : C = Claims(kind)'
    OBVIOUS
  <2>8. Cardinality(C) <= Cardinality(U \cup W) /\ Cardinality(C) \in Nat
    <3>1. C \in SUBSET (U \cup W)
      BY <2>4, <2>7
    <3>2. IsFiniteSet(C) /\ Cardinality(C) <= Cardinality(U \cup W)
      BY <2>5, <3>1, FS_Subset
    <3>3. QED
      BY <3>2, FS_CardinalityType
  <2>9. PICK b : b = Others * LargestDemand(kind)
    OBVIOUS
  <2>10. b \in Nat
    BY <1>9, <2>1, <2>9, Finite
  <2>11. inUse[kind] + Cardinality(C) <= Limit[kind] + b
    BY <1>10, <1>9, <2>2, <2>3, <2>5, <2>6, <2>8, <2>9, <2>10
  <2>12. QED
    BY <1>2, <2>7, <2>9, <2>11
<1>13. ClaimsBounded'
  BY <1>11, <1>12 DEF ClaimsBounded
<1>14. QED
  BY <1>5, <1>7, <1>13 DEF ResIInv


\* What the trackers count is the amount: only memory and cores come in amounts
\* other than one.
LEMMA CountedOK ==
    ASSUME NEW d \in Demands
    PROVE  Counted(d) = d.amount
  BY ResourceAssumption DEF Counted

\* A grant is entered in its tracker: what was claimed is now in use.
LEMMA TrackStep ==
    ASSUME ResIInv, NEW r \in Requesters, Track(r)
    PROVE  ResIInv'
<1>0. ResTypeOK
  BY DEF ResIInv
<1>1. PICK a, kind : a = demand[r].amount /\ kind = demand[r].kind
  OBVIOUS
<1>2. demand[r] \in Demands /\ kind \in Kinds /\ a \in Nat
  BY <1>0, <1>1, ResourceAssumption DEF ResTypeOK
<1>3. rpc[r] = "track" /\ Goes(r, "store") /\ demand' = demand /\ inUse' = [inUse EXCEPT ![kind] = @ + a]
  BY <1>1, <1>2, CountedOK DEF Track
<1>4. {"track"} \subseteq Passed /\ "track" \notin Entered /\ "store" \in Entered /\ "store" \notin Passed /\ "store" \in ResPlaces
  BY DEF Passed, Entered, ResPlaces
<1>5. /\ rpc' \in [Requesters -> ResPlaces] /\ rpc'[r] = "store"
      /\ \A q \in Requesters : q # r => rpc'[q] = rpc[q]
  BY <1>0, <1>3, <1>4, GoesOK
<1>6. inUse' \in [Kinds -> Nat] /\ inUse'[kind] = inUse[kind] + a /\ \A k \in Kinds : k # kind => inUse'[k] = inUse[k]
  BY <1>0, <1>2, <1>3 DEF ResTypeOK
<1>7. /\ LargestDemand(kind) \in Nat /\ a <= LargestDemand(kind)
      /\ Single(kind) => a = LargestDemand(kind)
  BY <1>1, <1>2, LargestOK
<1>8. ResTypeOK'
  <2>1. \A i \in DOMAIN allocations' : allocations'[i] \in Nat /\ allocations'[i] <= LargestDemand("memory")
    <3>1. CASE kind = "memory"
      BY <1>0, <1>1, <1>2, <1>7, <3>1 DEF Track, ResTypeOK
    <3>2. CASE kind # "memory"
      BY <1>0, <1>1, <3>2 DEF Track, ResTypeOK
    <3>3. QED
      BY <3>1, <3>2
  <2>2. QED
    BY <1>0, <1>3, <1>5, <1>6, <2>1 DEF ResTypeOK
<1>9. ASSUME NEW k \in Kinds, k # kind
      PROVE  Claims(k)' = Claims(k) /\ Tracked(k)' = Tracked(k)
  <2>1. \A c \in Requesters \X (1 .. LargestDemand(k)) : c \in Claims(k)' <=> c \in Claims(k)
    BY <1>1, <1>3, <1>5, <1>9 DEF Claims
  <2>2. Claims(k)' = Claims(k)
    BY <2>1 DEF Claims
  <2>3. Tracked(k)' = Tracked(k)
    BY <1>1, <1>3, <1>5, <1>9 DEF Tracked
  <2>4. QED
    BY <2>2, <2>3
<1>10. Cardinality(Claims(kind)') + a <= Cardinality(Claims(kind)) /\ Cardinality(Claims(kind)') \in Nat
  <2> DEFINE U == Units(r, a)
  <2>1. PICK C, D : C = Claims(kind) /\ D = Claims(kind)'
    OBVIOUS
  <2>2. U \subseteq C
    <3>1. ASSUME NEW i \in 1 .. a
          PROVE  <<r, i>> \in C
      <4>1. i \in 1 .. LargestDemand(kind) /\ i <= a
        BY <1>2, <1>7
      <4>2. QED
        BY <1>1, <1>3, <1>4, <2>1, <4>1 DEF Claims
    <3>2. QED
      BY <3>1 DEF Units
  <2>3. D \subseteq C \ U
    <3>1. ASSUME NEW c \in D
          PROVE  c \in C \ U
      <4>1. PICK q \in Requesters, i \in 1 .. LargestDemand(kind) : c = <<q, i>>
        BY <2>1 DEF Claims
      <4>2. c \in Claims(kind)'
        BY <2>1
      <4>3. rpc'[q] \in Passed /\ demand'[q].kind = kind /\ i <= demand'[q].amount
        BY <4>1, <4>2 DEF Claims
      <4>4. q # r
        BY <1>4, <1>5, <4>3
      <4>5. rpc[q] \in Passed /\ demand[q].kind = kind /\ i <= demand[q].amount
        BY <1>3, <1>5, <4>3, <4>4
      <4>6. c \in Claims(kind)
        BY <4>1, <4>5 DEF Claims
      <4>7. QED
        BY <2>1, <4>1, <4>4, <4>6 DEF Units
    <3>2. QED
      BY <3>1
  <2>4. IsFiniteSet(U) /\ Cardinality(U) = a
    BY <1>2, UnitsCount
  <2>5. IsFiniteSet(C) /\ Cardinality(C) \in Nat
    BY <1>2, <2>1, Finite
  <2> HIDE DEF U
  <2>6. IsFiniteSet(D)
    BY <2>3, <2>5, FS_Subset
  <2>7. U \cap D = {} /\ U \cup D \in SUBSET C
    BY <2>2, <2>3
  <2>8. IsFiniteSet(U \cup D) /\ Cardinality(U \cup D) = Cardinality(U) + Cardinality(D) - Cardinality(U \cap D)
    BY <2>4, <2>6, FS_Union
  <2>9. Cardinality(U \cap D) = 0
    BY <2>7, FS_EmptySet
  <2>10. Cardinality(U \cup D) <= Cardinality(C)
    BY <2>5, <2>7, FS_Subset
  <2>11. Cardinality(D) \in Nat
    BY <2>6, FS_CardinalityType
  <2>12. Cardinality(D) + a <= Cardinality(C)
    BY <1>2, <2>4, <2>5, <2>8, <2>9, <2>10, <2>11
  <2>13. QED
    BY <2>1, <2>11, <2>12
<1>11. ClaimsBounded'
  <2>1. ASSUME NEW k \in Kinds
        PROVE  inUse'[k] + Cardinality(Claims(k)') <= Limit[k] + Others * LargestDemand(k)
    <3>1. inUse[k] + Cardinality(Claims(k)) <= Limit[k] + Others * LargestDemand(k)
      BY DEF ResIInv, ClaimsBounded
    <3>2. CASE k # kind
      BY <1>6, <1>9, <3>1, <3>2
    <3>3. CASE k = kind
      <4>1. PICK b : b = Limit[k] + Others * LargestDemand(k)
        OBVIOUS
      <4>2. b \in Int
        BY <4>1, <3>3, <1>7, Finite, ResourceAssumption
      <4>3. inUse[k] \in Nat /\ Cardinality(Claims(k)) \in Nat
        BY <1>0, Finite DEF ResTypeOK
      <4>4. inUse'[k] + Cardinality(Claims(k)') <= b
        BY <1>2, <1>6, <1>10, <3>1, <3>3, <4>1, <4>2, <4>3
      <4>5. QED
        BY <4>1, <4>4
    <3>4. QED
      BY <3>2, <3>3
  <2>2. QED
    BY <2>1 DEF ClaimsBounded
<1>12. TrackedCovered'
  <2>1. ASSUME NEW k \in Kinds, Single(k)
        PROVE  inUse'[k] >= LargestDemand(k) * Cardinality(Tracked(k)')
    <3>1. inUse[k] >= LargestDemand(k) * Cardinality(Tracked(k))
      BY <2>1 DEF ResIInv, TrackedCovered
    <3>2. CASE k # kind
      BY <1>6, <1>9, <3>1, <3>2
    <3>3. CASE k = kind
      <4>1. Tracked(k)' = Tracked(k) \cup {r} /\ r \notin Tracked(k)
        BY <1>1, <1>3, <1>4, <1>5, <3>3 DEF Tracked
      <4>2. IsFiniteSet(Tracked(k)) /\ Cardinality(Tracked(k)) \in Nat
        BY Finite
      <4>3. Cardinality(Tracked(k)') = Cardinality(Tracked(k)) + 1
        BY <4>1, <4>2, FS_AddElement
      <4>4. inUse[k] \in Nat
        BY <1>0 DEF ResTypeOK
      <4>5. a = LargestDemand(k)
        BY <1>7, <2>1, <3>3
      <4>6. PICK n : n = Cardinality(Tracked(k))
        OBVIOUS
      <4>7. a * (n + 1) = a * n + a
        BY <1>2, <4>2, <4>6
      <4>8. inUse[k] + a >= a * (n + 1)
        BY <1>2, <3>1, <4>2, <4>4, <4>5, <4>6, <4>7
      <4>9. QED
        BY <1>6, <3>3, <4>3, <4>5, <4>6, <4>8
    <3>4. QED
      BY <3>2, <3>3
  <2>2. QED
    BY <2>1 DEF TrackedCovered, Single
<1>13. QED
  BY <1>8, <1>11, <1>12 DEF ResIInv


\* What leaves a tracker: at most one demand, and nothing of the other kinds.
LEMMA ReleasedOK ==
    ASSUME ResTypeOK, NEW d \in Demands, NEW g
    PROVE  /\ Released(d, g) \in [Kinds -> Nat]
           /\ \A k \in Kinds : k # d.kind => Released(d, g)[k] = inUse[k]
           /\ \A k \in Kinds : Released(d, g)[k] <= inUse[k]
           /\ inUse[d.kind] <= Released(d, g)[d.kind] + LargestDemand(d.kind)
<1>1. d.kind \in Kinds /\ "memory" \in Kinds /\ d.amount \in Nat /\ inUse \in [Kinds -> Nat]
  BY ResourceAssumption DEF ResTypeOK, Kinds
<1>2. LargestDemand(d.kind) \in Nat /\ d.amount <= LargestDemand(d.kind)
  BY <1>1, LargestOK
<1>3. CASE d.kind # "memory"
  BY <1>1, <1>2, <1>3, CountedOK DEF Released, Minus
<1>4. CASE d.kind = "memory" /\ g \in DOMAIN allocations
  <2>1. allocations[g] \in Nat /\ allocations[g] <= LargestDemand("memory")
    BY <1>4 DEF ResTypeOK
  <2>2. QED
    BY <1>1, <1>2, <1>4, <2>1 DEF Released, Minus
<1>5. CASE d.kind = "memory" /\ g \notin DOMAIN allocations
  BY <1>1, <1>2, <1>5 DEF Released
<1>6. QED
  BY <1>3, <1>4, <1>5

\* A grant leaves its tracker.
LEMMA UntrackStep ==
    ASSUME ResIInv, NEW r \in Requesters, Untrack(r)
    PROVE  ResIInv'
<1>0. ResTypeOK
  BY DEF ResIInv
<1>1. PICK kind : kind = demand[r].kind
  OBVIOUS
<1>2. demand[r] \in Demands /\ kind \in Kinds
  BY <1>0, <1>1, ResourceAssumption DEF ResTypeOK
<1>3. rpc[r] = "untrack" /\ Goes(r, "notify") /\ demand' = demand /\ inUse' = Released(demand[r], grantOf[r])
  BY DEF Untrack
<1>4. "untrack" \in Entered /\ "untrack" \notin Passed /\ "notify" \notin Passed \cup Entered /\ "notify" \in ResPlaces
  BY DEF Passed, Entered, ResPlaces
<1>5. /\ rpc' \in [Requesters -> ResPlaces] /\ rpc'[r] = "notify"
      /\ \A q \in Requesters : q # r => rpc'[q] = rpc[q]
  BY <1>0, <1>3, <1>4, GoesOK
<1>6. /\ inUse' \in [Kinds -> Nat]
      /\ \A k \in Kinds : k # kind => inUse'[k] = inUse[k]
      /\ \A k \in Kinds : inUse'[k] <= inUse[k]
      /\ inUse[kind] <= inUse'[kind] + LargestDemand(kind)
  BY <1>0, <1>1, <1>2, <1>3, ReleasedOK
<1>7. ResTypeOK'
  <2>1. \A i \in DOMAIN allocations' : i \in DOMAIN allocations /\ allocations'[i] = allocations[i]
    BY DEF Untrack, Restrict
  <2>2. QED
    BY <1>0, <1>3, <1>5, <1>6, <2>1 DEF ResTypeOK
<1>8. \A k \in Kinds : Claims(k)' = Claims(k)
  <2>1. ASSUME NEW k \in Kinds
        PROVE  \A c \in Requesters \X (1 .. LargestDemand(k)) : c \in Claims(k)' <=> c \in Claims(k)
    BY <1>3, <1>4, <1>5 DEF Claims
  <2>2. QED
    BY <2>1 DEF Claims
<1>9. ClaimsBounded'
  <2>1. ASSUME NEW k \in Kinds
        PROVE  inUse'[k] + Cardinality(Claims(k)') <= Limit[k] + Others * LargestDemand(k)
    <3>1. inUse[k] + Cardinality(Claims(k)) <= Limit[k] + Others * LargestDemand(k)
      BY DEF ResIInv, ClaimsBounded
    <3>2. PICK b : b = Limit[k] + Others * LargestDemand(k)
      OBVIOUS
    <3>3. b \in Int
      BY <3>2, LargestOK, Finite, ResourceAssumption
    <3>4. inUse[k] \in Nat /\ inUse'[k] \in Nat /\ Cardinality(Claims(k)) \in Nat /\ inUse'[k] <= inUse[k]
      BY <1>0, <1>6, Finite DEF ResTypeOK
    <3>5. inUse'[k] + Cardinality(Claims(k)) <= b
      BY <3>1, <3>2, <3>3, <3>4
    <3>6. QED
      BY <1>8, <3>2, <3>5
  <2>2. QED
    BY <2>1 DEF ClaimsBounded
<1>10. TrackedCovered'
  <2>1. ASSUME NEW k \in Kinds, Single(k)
        PROVE  inUse'[k] >= LargestDemand(k) * Cardinality(Tracked(k)')
    <3>1. inUse[k] >= LargestDemand(k) * Cardinality(Tracked(k))
      BY <2>1 DEF ResIInv, TrackedCovered
    <3>2. CASE k # kind
      <4>1. Tracked(k)' = Tracked(k)
        BY <1>1, <1>3, <1>5, <3>2 DEF Tracked
      <4>2. QED
        BY <1>6, <3>1, <3>2, <4>1
    <3>3. CASE k = kind
      <4>1. Tracked(k)' = Tracked(k) \ {r} /\ r \in Tracked(k)
        BY <1>1, <1>3, <1>4, <1>5, <3>3 DEF Tracked
      <4>2. IsFiniteSet(Tracked(k)) /\ Cardinality(Tracked(k)) \in Nat
        BY Finite
      <4>3. Cardinality(Tracked(k)') = Cardinality(Tracked(k)) - 1
        BY <4>1, <4>2, FS_RemoveElement
      <4>4. inUse[k] \in Nat /\ inUse'[k] \in Nat /\ inUse[k] <= inUse'[k] + LargestDemand(k)
        BY <1>0, <1>6, <3>3 DEF ResTypeOK
      <4>5. PICK n, l : n = Cardinality(Tracked(k)) /\ l = LargestDemand(k)
        OBVIOUS
      <4>6. n \in Nat /\ l \in Nat
        BY <4>2, <4>5, LargestOK
      <4>7. l * (n - 1) = l * n - l /\ l * n \in Nat
        BY <4>6
      <4>8. inUse'[k] >= l * (n - 1)
        BY <3>1, <4>4, <4>5, <4>6, <4>7
      <4>9. QED
        BY <4>3, <4>5, <4>8
    <3>4. QED
      BY <3>2, <3>3
  <2>2. QED
    BY <2>1 DEF TrackedCovered, Single
<1>11. QED
  BY <1>7, <1>9, <1>10 DEF ResIInv

-----------------------------------------------------------------------------
(* The theorems *)

\* Nothing is in use or claimed when the manager is created.
LEMMA ResInitOK ==
    ASSUME ResInit
    PROVE  ResIInv
<1>1. ResTypeOK
  BY DEF ResInit, ResTypeOK, ResPlaces
<1>2. \A r \in Requesters : rpc[r] = "idle" /\ "idle" \notin Passed \cup Entered
  BY DEF ResInit, Passed, Entered
<1>3. \A k \in Kinds : Claims(k) = {} /\ Tracked(k) = {} /\ inUse[k] = 0
  BY <1>2 DEF Claims, Tracked, ResInit
<1>4. Cardinality({}) = 0
  BY FS_EmptySet
<1>5. ASSUME NEW k \in Kinds
      PROVE  /\ inUse[k] + Cardinality(Claims(k)) <= Limit[k] + Others * LargestDemand(k)
             /\ inUse[k] >= LargestDemand(k) * Cardinality(Tracked(k))
  <2>1. Limit[k] \in Nat /\ Others \in Nat /\ LargestDemand(k) \in Nat
    BY Finite, LargestOK, ResourceAssumption
  <2>2. Others * LargestDemand(k) \in Nat /\ LargestDemand(k) * 0 = 0
    BY <2>1
  <2>3. PICK b : b = Others * LargestDemand(k)
    OBVIOUS
  <2>4. 0 + 0 <= Limit[k] + b
    BY <2>1, <2>2, <2>3
  <2>5. inUse[k] = 0 /\ Cardinality(Claims(k)) = 0 /\ Cardinality(Tracked(k)) = 0
    BY <1>3, <1>4, Zenon
  <2>6. QED
    BY <2>2, <2>3, <2>4, <2>5
<1>6. QED
  BY <1>1, <1>5 DEF ResIInv, ClaimsBounded, TrackedCovered

\* Every step keeps the invariant.
LEMMA ResNextOK ==
    ASSUME ResIInv, [ResNext]_resVars
    PROVE  ResIInv'
<1>1. ASSUME NEW r \in Requesters, NEW d \in Demands, Request(r, d) PROVE ResIInv'
  BY <1>1, RequestStep
<1>2. ASSUME NEW r \in Requesters, TakeGrant(r) PROVE ResIInv'
  BY <1>2, QuietStep
<1>3. ASSUME NEW r \in Requesters, ThreadStep(r) PROVE ResIInv'
  <2>1. CASE CheckNow(r) \/ CheckAgain(r)
    <3>1. CASE Available(r)
      BY <2>1, <3>1, PassStep
    <3>2. CASE ~Available(r)
      BY <2>1, <3>2, QuietStep
    <3>3. QED
      BY <3>1, <3>2
  <2>2. CASE \/ Push(r) \/ Unpend(r) \/ Sleep(r) \/ TimesOut(r) \/ GrantId(r)
             \/ GrantUsage(r) \/ StoreGrant(r) \/ ReturnUsage(r)
    BY <2>2, QuietStep
  <2>3. CASE Track(r)
    BY <2>3, TrackStep
  <2>4. CASE Untrack(r)
    BY <2>4, UntrackStep
  <2>5. CASE Notify(r)
    BY <2>5, NotifyStep
  <2>6. QED
    BY <1>3, <2>1, <2>2, <2>3, <2>4, <2>5 DEF ThreadStep
<1>4. ASSUME CopyUsage PROVE ResIInv'
  BY <1>4, CopyStep
<1>5. CASE UNCHANGED resVars
  <2>1. UNCHANGED <<rpc, demand, inUse, allocations>>
    BY <1>5 DEF resVars
  <2>2. rpc' \in [Requesters -> ResPlaces] /\ demand' \in [Requesters -> Demands]
    BY <2>1 DEF ResIInv, ResTypeOK
  <2>3. QED
    BY <2>1, <2>2, NothingCounted
<1>6. QED
  BY <1>1, <1>2, <1>3, <1>4, <1>5 DEF ResNext

\* The inductive invariant: what is in use and what is claimed together stay
\* within the bound, and each grant in a tracker is covered.
THEOREM ResInvariant == ResSpec => []ResIInv
<1>1. ResInit => ResIInv
  BY ResInitOK
<1>2. ResIInv /\ [ResNext]_resVars => ResIInv'
  BY ResNextOK
<1>3. QED
  BY <1>1, <1>2, PTL DEF ResSpec

\* Whatever the interleaving of check_availability and grant_resource, the
\* trackers exceed a limit by at most one demand for each other thread.
THEOREM OvercommitIsBounded == ResSpec => []OvercommitBounded
<1>1. ResIInv => OvercommitBounded
  <2>1. ASSUME ResIInv, NEW k \in Kinds
        PROVE  inUse[k] <= Limit[k] + (Cardinality(Requesters) - 1) * LargestDemand(k)
    <3>1. inUse[k] + Cardinality(Claims(k)) <= Limit[k] + Others * LargestDemand(k)
      BY <2>1 DEF ResIInv, ClaimsBounded
    <3>2. PICK b : b = Limit[k] + Others * LargestDemand(k)
      OBVIOUS
    <3>3. b \in Int
      BY <3>2, LargestOK, Finite, ResourceAssumption
    <3>4. inUse[k] \in Nat /\ Cardinality(Claims(k)) \in Nat
      BY <2>1, Finite DEF ResIInv, ResTypeOK
    <3>5. inUse[k] <= b
      BY <3>1, <3>2, <3>3, <3>4
    <3>6. QED
      BY <3>2, <3>5 DEF Others
  <2>2. QED
    BY <2>1 DEF OvercommitBounded
<1>2. QED
  BY <1>1, ResInvariant, PTL

\* Where all demands of a kind are equal, deallocate_resource never takes from a
\* tracker what a thread still holds, although memory is freed by the id of the
\* grant.
THEOREM GrantsAreCovered == ResSpec => []UsageCoversGrants
<1>1. ResIInv => UsageCoversGrants
  <2>1. ASSUME ResIInv, NEW k \in Kinds, Single(k)
        PROVE  inUse[k] >= LargestDemand(k) * Cardinality(Owned(k))
    <3>1. inUse[k] >= LargestDemand(k) * Cardinality(Tracked(k))
      BY <2>1 DEF ResIInv, TrackedCovered
    <3>2. Owned(k) \in SUBSET Tracked(k)
      BY DEF Owned, Tracked, Entered
    <3>3. IsFiniteSet(Tracked(k)) /\ Cardinality(Tracked(k)) \in Nat
      BY Finite
    <3>4. IsFiniteSet(Owned(k)) /\ Cardinality(Owned(k)) <= Cardinality(Tracked(k))
      BY <3>2, <3>3, FS_Subset
    <3>5. PICK l, m, n : l = LargestDemand(k) /\ m = Cardinality(Owned(k)) /\ n = Cardinality(Tracked(k))
      OBVIOUS
    <3>6. l \in Nat /\ m \in Nat /\ n \in Nat /\ m <= n /\ inUse[k] \in Nat
      BY <2>1, <3>3, <3>4, <3>5, LargestOK, FS_CardinalityType DEF ResIInv, ResTypeOK
    <3>7. l * m <= l * n /\ l * m \in Nat /\ l * n \in Nat
      BY <3>6
    <3>8. QED
      BY <3>1, <3>5, <3>6, <3>7
  <2>2. QED
    BY <2>1 DEF UsageCoversGrants, Single
<1>2. QED
  BY <1>1, ResInvariant, PTL

-----------------------------------------------------------------------------
(* ParallelScan: where a row is                                            *)
(*                                                                         *)
(* Until the scan has finished, a row that was in the table when it began  *)
(* is in one place: in a partition of the queue, in the partition that a   *)
(* worker has taken, or in a result.                                       *)

Covers(p, r) == p.start < r /\ r <= p.end

Queued(r, i) == i \in 1 .. Len(queue) /\ Covers(queue[i], r)
Held(r, w) == w \in ScanWorkers /\ part[w] # NoPart /\ Covers(part[w], r)
ReadIn(r, i, j) == i \in 1 .. Len(results) /\ j \in 1 .. Len(results[i]) /\ results[i][j] = r

\* The row is in one place.
InOnePlace(r) ==
    /\ (\E i : Queued(r, i)) \/ (\E w \in ScanWorkers : Held(r, w)) \/ (\E i, j : ReadIn(r, i, j))
    /\ \A i, k : Queued(r, i) /\ Queued(r, k) => i = k
    /\ \A w, v : Held(r, w) /\ Held(r, v) => w = v
    /\ \A i, j, k, l : ReadIn(r, i, j) /\ ReadIn(r, k, l) => i = k /\ j = l
    /\ \A i, w : ~(Queued(r, i) /\ Held(r, w))
    /\ \A i, k, l : ~(Queued(r, i) /\ ReadIn(r, k, l))
    /\ \A w, k, l : ~(Held(r, w) /\ ReadIn(r, k, l))

Ranges == [kind : {"range"}, start : Nat, end : Nat]

\* While only inserts happen the rows stay at their places in the table.
ScanTypes ==
    /\ queue \in Seq(Ranges) /\ part \in [ScanWorkers -> Ranges \cup {NoPart}] /\ results \in Seq(Seq(Nat))
    /\ \A i \in 1 .. Len(results) : Len(results[i]) <= Rows + 1
    /\ Len(table) \in {Rows, Rows + 1} /\ table = [i \in 1 .. Len(table) |-> i]

ScanIInv == RangesReach /\ ~changed => ScanTypes /\ \A r \in 1 .. Rows : InOnePlace(r)

\* The least of two numbers.
LEMMA MinOfTwo ==
    ASSUME NEW a \in Int, NEW b \in Int
    PROVE  Min({a, b}) = IF a <= b THEN a ELSE b
<1>1. PICK S : S = {a, b}
  OBVIOUS
<1>2. \E m \in S : \A y \in S : m <= y
  BY <1>1
<1>3. PICK m : m = CHOOSE x \in S : \A y \in S : x <= y
  OBVIOUS
<1>4. m \in S /\ \A y \in S : m <= y
  BY <1>2, <1>3
<1>5. m = IF a <= b THEN a ELSE b
  BY <1>1, <1>4
<1>6. QED
  BY <1>1, <1>3, <1>5 DEF Min

\* The greatest of three numbers.
LEMMA MaxOfThree ==
    ASSUME NEW a \in Int, NEW b \in Int, NEW c \in Int
    PROVE  Max({a, b, c}) \in {a, b, c} /\ c <= Max({a, b, c})
<1>1. PICK S : S = {a, b, c}
  OBVIOUS
<1>2. \E m \in S : \A y \in S : m >= y
  <2>1. (a >= b /\ a >= c) \/ (b >= a /\ b >= c) \/ (c >= a /\ c >= b)
    OBVIOUS
  <2>2. QED
    BY <1>1, <2>1
<1>3. PICK m : m = CHOOSE x \in S : \A y \in S : x >= y
  OBVIOUS
<1>4. m \in S /\ \A y \in S : m >= y
  BY <1>2, <1>3
<1>5. m \in {a, b, c} /\ c <= m
  BY <1>1, <1>4
<1>6. QED
  BY <1>1, <1>3, <1>5 DEF Max

\* A partition has a row at least.
LEMMA SizeIsPositive ==
    ASSUME NEW c \in ScanConfigs
    PROVE  PartitionSize(c) \in Nat \ {0}
<1>1. c.size \in Nat \ {0} /\ c.estimate \in Nat /\ MinPartition \in Nat \ {0}
  BY ScanAssumption
<1>2. WorkerCount \in Nat \ {0}
  BY ScanAssumption, FS_CardinalityType, FS_EmptySet DEF WorkerCount
<1>3. CASE ~c.adaptive
  BY <1>1, <1>3 DEF PartitionSize
<1>4. CASE c.adaptive
  <2>1. PICK W \in Nat \ {0} : W = WorkerCount
    BY <1>2
  <2>2. PICK x, y, a, b, d : /\ x = c.estimate \div (W * 2) /\ y = c.size \div 4
                             /\ a = Max({x, y}) /\ b = Min({a, c.size * 4}) /\ d = c.estimate \div W
    OBVIOUS
  <2>3. x \in Int /\ y \in Int /\ d \in Int /\ c.size * 4 \in Int
    BY <1>1, <2>1, <2>2
  <2>4. a \in Int
    <3>1. {x, y} = {x, x, y} /\ Max({x, x, y}) \in {x, x, y}
      BY <2>3, MaxOfThree
    <3>2. QED
      BY <2>2, <2>3, <3>1
  <2>5. b \in Int
    <3>1. PICK z \in Int : z = c.size * 4
      BY <2>3
    <3>2. Min({a, z}) = IF a <= z THEN a ELSE z
      BY <2>4, MinOfTwo
    <3>3. QED
      BY <2>2, <2>4, <3>1, <3>2
  <2>6. Max({b, d, MinPartition}) \in {b, d, MinPartition} /\ MinPartition <= Max({b, d, MinPartition})
    BY <1>1, <2>3, <2>5, MaxOfThree
  <2>7. PartitionSize(c) = Max({b, d, MinPartition})
    BY <1>4, <2>1, <2>2 DEF PartitionSize
  <2>8. PICK m : m = PartitionSize(c)
    OBVIOUS
  <2>9. m \in Int /\ MinPartition <= m
    BY <1>1, <2>3, <2>5, <2>6, <2>7, <2>8
  <2>10. QED
    BY <1>1, <2>8, <2>9
<1>5. QED
  BY <1>3, <1>4

\* Cut into pieces of one size, up to n of them have each number once.
LEMMA CutOnce ==
    ASSUME NEW size \in Nat \ {0}, NEW n \in Nat, NEW r \in Nat \ {0}, r <= n * size
    PROVE  /\ \E i \in 1 .. n : (i - 1) * size < r /\ r <= i * size
           /\ \A i, k \in 1 .. n : (i - 1) * size < r /\ r <= i * size /\ (k - 1) * size < r /\ r <= k * size => i = k
<1>1. \E i \in 1 .. n : (i - 1) * size < r /\ r <= i * size
  <2> DEFINE Above == {i \in Nat : r <= i * size}
  <2>1. Above \in SUBSET Nat /\ n \in Above
    OBVIOUS
  <2>2. PICK i \in Above : \A j \in Above : i <= j
    BY <2>1, LeastExists
  <2>3. i \in Nat /\ r <= i * size /\ i <= n
    BY <2>1, <2>2
  <2>4. i # 0
    BY <2>3
  <2>5. i - 1 \in Nat /\ ~(i <= i - 1)
    BY <2>3, <2>4
  <2>6. i - 1 \notin Above
    BY <2>2, <2>5
  <2>7. ~(r <= (i - 1) * size)
    BY <2>5, <2>6
  <2>8. (i - 1) * size \in Int
    BY <2>5
  <2>9. QED
    BY <2>3, <2>4, <2>7, <2>8
<1>2. \A i, k \in 1 .. n : i < k => i * size <= (k - 1) * size
  <2>1. \A a, b \in Nat : a <= b => a * size <= b * size
    <3>1. SUFFICES ASSUME NEW a \in Nat, NEW b \in Nat, a <= b PROVE a * size <= b * size
      OBVIOUS
    <3>2. PICK d \in Nat : b = a + d
      BY <3>1
    <3>3. b * size = a * size + d * size /\ d * size >= 0 /\ a * size \in Int /\ d * size \in Int
      BY <3>2
    <3>4. QED
      BY <3>3
  <2>2. \A i, k \in 1 .. n : i < k => i \in Nat /\ k - 1 \in Nat /\ i <= k - 1
    OBVIOUS
  <2>3. QED
    BY <2>1, <2>2
<1>3. SUFFICES ASSUME NEW i \in 1 .. n, NEW k \in 1 .. n,
                      (i - 1) * size < r, r <= i * size, (k - 1) * size < r, r <= k * size
               PROVE  i = k
  BY <1>1
<1>4. i * size \in Int /\ k * size \in Int /\ (i - 1) * size \in Int /\ (k - 1) * size \in Int
  OBVIOUS
<1>5. ~(i < k)
  <2>1. i < k => i * size <= (k - 1) * size
    BY <1>2
  <2>2. QED
    BY <1>3, <1>4, <2>1
<1>6. ~(k < i)
  <2>1. k < i => k * size <= (i - 1) * size
    BY <1>2
  <2>2. QED
    BY <1>3, <1>4, <2>1
<1>7. QED
  BY <1>5, <1>6

\* The ranges reach as far as the estimate and max_partitions let them.
LEMMA RangesReachFar ==
    ASSUME NEW est \in Nat, NEW size \in Nat \ {0}, NEW max \in Nat, NEW r \in Nat, r <= est, r <= max * size,
           NEW count, count = Min({(est + size - 1) \div size, max})
    PROVE  count \in Nat /\ r <= count * size
<1>1. PICK up : up = (est + size - 1) \div size
  OBVIOUS
<1>2. up \in Nat /\ est <= up * size
  <2>1. PICK e \in Nat : e = est + size - 1
    OBVIOUS
  <2>2. up = e \div size
    BY <1>1, <2>1
  <2>3. up \in Int /\ up * size <= e /\ e < up * size + size
    BY <2>2, Z3
  <2>4. up \in Nat
    BY <1>1, <2>1, <2>2, <2>3
  <2>5. up * size \in Int
    BY <2>4
  <2>6. QED
    BY <2>1, <2>3, <2>4, <2>5
<1>3. count = IF up <= max THEN up ELSE max
  BY <1>1, <1>2, MinOfTwo
<1>4. up * size \in Int /\ max * size \in Int
  BY <1>2
<1>5. CASE count = up
  BY <1>2, <1>4, <1>5
<1>6. CASE count = max
  BY <1>6
<1>7. QED
  BY <1>3, <1>5, <1>6

\* A table cut into the ranges q, and where they begin and end.
CutInto(c, q, size, est, max, count) ==
    /\ size = PartitionSize(c) /\ est = c.estimate /\ max = c.max
    /\ count = Min({(est + size - 1) \div size, max})
    /\ q \in Seq(Ranges) /\ Len(q) = count
    /\ \A i \in 1 .. count :
           /\ i * size \in Nat /\ (i - 1) * size \in Nat
           /\ q[i].start = (i - 1) * size /\ q[i].end = IF i * size <= est THEN i * size ELSE est

\* The ranges that RangePartitions lists.
LEMMA RangesListed ==
    ASSUME NEW c \in ScanConfigs
    PROVE  /\ \E size \in Nat \ {0}, est \in Nat, max \in Nat, count \in Nat :
                  CutInto(c, RangePartitions(c), size, est, max, count)
           /\ RangePartitions(c) \in Seq(Ranges)
<1>1. PICK size \in Nat \ {0} : size = PartitionSize(c)
  BY SizeIsPositive
<1>2. PICK est \in Nat, max \in Nat : est = c.estimate /\ max = c.max
  BY ScanAssumption
<1>3. PICK count : count = Min({(est + size - 1) \div size, max})
  OBVIOUS
<1>4. count \in Nat
  <2>1. 0 \in Nat /\ 0 <= est /\ 0 <= max * size
    OBVIOUS
  <2>2. QED
    BY <1>3, <2>1, RangesReachFar
<1>5. PICK q : q = RangePartitions(c)
  OBVIOUS
<1>6. q = [i \in 1 .. count |-> [kind |-> "range", start |-> (i - 1) * size, end |-> Min({i * size, est})]]
  BY <1>1, <1>2, <1>3, <1>5 DEF RangePartitions
<1>7. ASSUME NEW i \in 1 .. count
      PROVE  /\ i * size \in Nat /\ (i - 1) * size \in Nat /\ q[i] \in Ranges
             /\ q[i].start = (i - 1) * size /\ q[i].end = IF i * size <= est THEN i * size ELSE est
  <2>1. i * size \in Nat /\ (i - 1) * size \in Nat
    <3>1. i \in Nat /\ i - 1 \in Nat
      BY <1>4
    <3>2. QED
      BY <3>1
  <2>2. PICK a \in Nat, b \in Nat : a = (i - 1) * size /\ b = i * size
    BY <2>1
  <2>3. Min({b, est}) = IF b <= est THEN b ELSE est
    BY MinOfTwo
  <2>4. q[i] = [kind |-> "range", start |-> a, end |-> IF b <= est THEN b ELSE est]
    BY <1>6, <2>2, <2>3
  <2>5. QED
    BY <2>2, <2>4 DEF Ranges
<1>8. q \in Seq(Ranges) /\ Len(q) = count
  <2>1. DOMAIN q = 1 .. count /\ q = [i \in 1 .. count |-> q[i]]
    BY <1>6
  <2>2. q \in [1 .. count -> Ranges]
    BY <1>7, <2>1
  <2>3. QED
    BY <1>4, <2>1, <2>2
<1>9. CutInto(c, q, size, est, max, count)
  BY <1>1, <1>2, <1>3, <1>7, <1>8, Zenon DEF CutInto
<1>10. QED
  BY <1>4, <1>5, <1>8, <1>9

\* Every row of the table is in one of the ranges.
LEMMA RangesCover ==
    ASSUME NEW c \in ScanConfigs, Rows <= Min({c.estimate, c.max * PartitionSize(c)}), NEW r \in 1 .. Rows
    PROVE  /\ \E i \in 1 .. Len(RangePartitions(c)) : Covers(RangePartitions(c)[i], r)
           /\ \A i, k \in 1 .. Len(RangePartitions(c)) :
                  Covers(RangePartitions(c)[i], r) /\ Covers(RangePartitions(c)[k], r) => i = k
<1>1. PICK q : q = RangePartitions(c)
  OBVIOUS
<1>2. PICK size \in Nat \ {0}, est \in Nat, max \in Nat, count \in Nat : CutInto(c, q, size, est, max, count)
  BY <1>1, RangesListed
<1>3. /\ size = PartitionSize(c) /\ est = c.estimate /\ max = c.max
      /\ count = Min({(est + size - 1) \div size, max}) /\ Len(q) = count
  BY <1>2, Zenon DEF CutInto
<1>4. ASSUME NEW i \in 1 .. count
      PROVE  /\ i * size \in Nat /\ (i - 1) * size \in Nat
             /\ q[i].start = (i - 1) * size /\ q[i].end = IF i * size <= est THEN i * size ELSE est
  BY <1>2 DEF CutInto
<1>5. r \in Nat \ {0} /\ Rows \in Nat /\ r <= Rows
  BY ScanAssumption
<1>6. PICK limit \in Int : limit = max * size
  OBVIOUS
<1>7. Rows <= Min({est, limit})
  BY <1>3, <1>6
<1>8. r <= est /\ r <= max * size
  <2>1. Min({est, limit}) = IF est <= limit THEN est ELSE limit
    BY MinOfTwo
  <2>2. Rows <= est /\ Rows <= limit
    BY <1>5, <1>7, <2>1
  <2>3. QED
    BY <1>5, <1>6, <2>2
<1>9. r <= count * size
  BY <1>3, <1>5, <1>8, RangesReachFar
<1>10. \A i \in 1 .. count : Covers(q[i], r) <=> (i - 1) * size < r /\ r <= i * size
  <2>1. TAKE i \in 1 .. count
  <2>2. PICK a \in Nat, b \in Nat : a = (i - 1) * size /\ b = i * size
    BY <1>4
  <2>3. q[i].start = a /\ q[i].end = IF b <= est THEN b ELSE est
    BY <1>4, <2>2
  <2>4. Covers(q[i], r) <=> a < r /\ r <= b
    BY <1>5, <1>8, <2>3 DEF Covers
  <2>5. QED
    BY <2>2, <2>4
<1>11. /\ \E i \in 1 .. count : (i - 1) * size < r /\ r <= i * size
      /\ \A i, k \in 1 .. count : (i - 1) * size < r /\ r <= i * size /\ (k - 1) * size < r /\ r <= k * size => i = k
  BY <1>5, <1>9, CutOnce
<1>12. QED
  BY <1>1, <1>3, <1>10, <1>11

\* A range that is scanned returns a row once, if it is in it.
LEMMA RangeScanned ==
    ASSUME ScanTypes, NEW p \in Ranges
    PROVE  /\ ScanPartition(p) \in Seq(Nat) /\ Len(ScanPartition(p)) <= Rows + 1
           /\ \A r \in 1 .. Rows : \A j :
                  j \in 1 .. Len(ScanPartition(p)) /\ ScanPartition(p)[j] = r <=> Covers(p, r) /\ j = r - p.start
<1>1. PICK first \in Nat, last \in Nat : first = p.start /\ last = p.end
  BY DEF Ranges
<1>2. PICK n \in Nat : n = Len(table) /\ Rows \in Nat /\ Rows <= n /\ n <= Rows + 1 /\ table = [i \in 1 .. n |-> i]
  <2>1. Rows \in Nat
    BY ScanAssumption
  <2>2. PICK n : n = Len(table)
    OBVIOUS
  <2>3. n \in {Rows, Rows + 1} /\ table = [i \in 1 .. n |-> i]
    BY <2>2 DEF ScanTypes
  <2>4. n \in Nat /\ Rows <= n /\ n <= Rows + 1
    BY <2>1, <2>3
  <2>5. QED
    BY <2>1, <2>2, <2>3, <2>4
<1>3. PICK m : m = Min({last, n})
  OBVIOUS
<1>4. m = IF last <= n THEN last ELSE n
  BY <1>3, MinOfTwo
<1>5. m \in Nat /\ m <= n /\ m <= last
  BY <1>4
<1>6. PICK x : x = SubSeq(table, first + 1, m)
  OBVIOUS
<1>7. p.kind = "range"
  BY DEF Ranges
<1>8. ScanPartition(p) = x
  BY <1>1, <1>2, <1>3, <1>6, <1>7 DEF ScanPartition
<1>9. /\ x \in Seq(Nat) /\ Len(x) = (IF first + 1 <= m THEN m - (first + 1) + 1 ELSE 0)
      /\ \A i \in 1 .. m - (first + 1) + 1 : x[i] = table[first + 1 + i - 1]
  <2>1. \A i \in (first + 1) .. m : table[i] \in Nat
    <3>1. \A i \in (first + 1) .. m : i \in 1 .. n /\ i \in Nat
      <4>1. TAKE i \in (first + 1) .. m
      <4>2. i \in Int /\ first + 1 <= i /\ i <= m
        BY <1>5
      <4>3. QED
        BY <1>5, <4>2
    <3>2. QED
      BY <1>2, <3>1
  <2>2. first + 1 \in Int /\ m \in Int
    BY <1>5
  <2>3. QED
    BY <1>6, <2>1, <2>2, SubSeqProperties
<1>10. PICK l \in Nat : l = Len(x)
  BY <1>9, LenProperties
<1>11. l = IF first < m THEN m - first ELSE 0
  BY <1>5, <1>9, <1>10
<1>12. \A j \in 1 .. l : x[j] = first + j
  <2>1. TAKE j \in 1 .. l
  <2>2. j \in 1 .. m - (first + 1) + 1 /\ first + 1 + j - 1 = first + j /\ first + j \in 1 .. n
    BY <1>5, <1>11
  <2>3. QED
    BY <1>2, <1>9, <2>2
<1>13. ASSUME NEW r \in 1 .. Rows, NEW j
       PROVE  j \in 1 .. l /\ x[j] = r <=> Covers(p, r) /\ j = r - first
  <2>1. ASSUME j \in 1 .. l, x[j] = r PROVE Covers(p, r) /\ j = r - first
    <3>1. r = first + j
      BY <1>12, <2>1
    <3>2. j \in Nat /\ 1 <= j /\ first < m /\ j <= m - first
      BY <1>5, <1>11, <2>1
    <3>3. first < r /\ r <= last /\ j = r - first
      BY <1>5, <3>1, <3>2
    <3>4. QED
      BY <1>1, <3>3 DEF Covers
  <2>2. ASSUME Covers(p, r), j = r - first PROVE j \in 1 .. l /\ x[j] = r
    <3>1. first < r /\ r <= last /\ r <= n /\ r \in Nat
      BY <1>1, <1>2, <2>2 DEF Covers
    <3>2. j \in 1 .. l /\ first + j = r
      BY <1>4, <1>5, <1>11, <2>2, <3>1
    <3>3. QED
      BY <1>12, <3>2
  <2>3. QED
    BY <2>1, <2>2
<1>14. l <= Rows + 1
  BY <1>2, <1>5, <1>11
<1>15. QED
  BY <1>1, <1>8, <1>9, <1>10, <1>13, <1>14

\* The queue without its first partition.
LEMMA QueueShrinks ==
    ASSUME queue \in Seq(Ranges), queue # <<>>, queue' = Tail(queue)
    PROVE  /\ queue' \in Seq(Ranges) /\ Head(queue) \in Ranges
           /\ \A r, i : Queued(r, i)' <=> i \in Nat \ {0} /\ Queued(r, i + 1)
           /\ \A r, i : Queued(r, i) => i \in Nat \ {0} /\ (i # 1 => i - 1 \in Nat \ {0} /\ Queued(r, i - 1)')
           /\ \A r : Queued(r, 1) <=> Covers(Head(queue), r)
<1>1. PICK n \in Nat : n = Len(queue)
  BY LenProperties
<1>2. /\ Head(queue) \in Ranges /\ Tail(queue) \in Seq(Ranges) /\ Len(Tail(queue)) = Len(queue) - 1
      /\ \A i \in 1 .. Len(Tail(queue)) : Tail(queue)[i] = queue[i + 1]
  BY HeadTailProperties
<1>3. n # 0 /\ Head(queue) = queue[1]
  <2>1. Len(queue) \in Nat \ {0}
    BY EmptySeq
  <2>2. QED
    BY <1>1, <2>1
<1>4. Len(queue') = n - 1 /\ \A i \in 1 .. (n - 1) : queue'[i] = queue[i + 1]
  BY <1>1, <1>2
<1>5. ASSUME NEW r, NEW i PROVE Queued(r, i)' <=> i \in Nat \ {0} /\ Queued(r, i + 1)
  <2>1. i \in 1 .. (n - 1) <=> i \in Nat \ {0} /\ i + 1 \in 1 .. n
    BY <1>3
  <2>2. Queued(r, i)' <=> i \in 1 .. (n - 1) /\ Covers(queue'[i], r)
    BY <1>4 DEF Queued, Covers
  <2>3. Queued(r, i + 1) <=> i + 1 \in 1 .. n /\ Covers(queue[i + 1], r)
    BY <1>1 DEF Queued
  <2>4. i \in 1 .. (n - 1) => queue'[i] = queue[i + 1]
    BY <1>4
  <2>5. QED
    BY <2>1, <2>2, <2>3, <2>4
<1>6. ASSUME NEW r, NEW i, Queued(r, i)
      PROVE  i \in Nat \ {0} /\ (i # 1 => i - 1 \in Nat \ {0} /\ Queued(r, i - 1)')
  <2>1. i \in 1 .. n
    BY <1>1, <1>6 DEF Queued
  <2>2. i \in Nat \ {0} /\ (i # 1 => i - 1 \in Nat \ {0} /\ i - 1 + 1 = i)
    BY <2>1
  <2>3. ASSUME i # 1 PROVE Queued(r, i - 1)'
    <3>1. PICK k : k = i - 1
      OBVIOUS
    <3>2. k \in Nat \ {0} /\ k + 1 = i
      BY <2>2, <2>3, <3>1
    <3>3. Queued(r, k)'
      BY <1>5, <1>6, <3>2
    <3>4. QED
      BY <3>1, <3>3
  <2>4. QED
    BY <2>2, <2>3
<1>7. ASSUME NEW r PROVE Queued(r, 1) <=> Covers(Head(queue), r)
  BY <1>1, <1>3 DEF Queued
<1>8. QED
  BY <1>2, <1>5, <1>6, <1>7

\* A result more, of a partition that was scanned.
LEMMA ResultsGrow ==
    ASSUME ScanTypes, NEW p \in Ranges, results' = Append(results, ScanPartition(p))
    PROVE  /\ results' \in Seq(Seq(Nat)) /\ \A i \in 1 .. Len(results') : Len(results'[i]) <= Rows + 1
           /\ \A r \in 1 .. Rows : \A i, j :
                  ReadIn(r, i, j)' <=> ReadIn(r, i, j) \/ (i = Len(results) + 1 /\ Covers(p, r) /\ j = r - p.start)
           /\ \A r, i, j : ReadIn(r, i, j) => i # Len(results) + 1
<1>1. PICK n \in Nat : n = Len(results) /\ results \in Seq(Seq(Nat))
  BY LenProperties DEF ScanTypes
<1>2. PICK x : x = ScanPartition(p)
  OBVIOUS
<1>3. x \in Seq(Nat) /\ Len(x) <= Rows + 1
  BY <1>2, RangeScanned
<1>4. /\ results' \in Seq(Seq(Nat)) /\ Len(results') = n + 1 /\ results'[n + 1] = x
      /\ \A i \in 1 .. n : results'[i] = results[i]
  BY <1>1, <1>2, <1>3
<1>5. \A i : i \in 1 .. (n + 1) <=> i \in 1 .. n \/ i = n + 1
  OBVIOUS
<1>6. \A i \in 1 .. (n + 1) : Len(results'[i]) <= Rows + 1
  BY <1>1, <1>3, <1>4, <1>5 DEF ScanTypes
<1>7. n + 1 \notin 1 .. n
  OBVIOUS
<1>8. ASSUME NEW r \in 1 .. Rows, NEW i, NEW j
      PROVE  ReadIn(r, i, j)' <=> ReadIn(r, i, j) \/ (i = n + 1 /\ Covers(p, r) /\ j = r - p.start)
  <2>1. CASE i = n + 1
    <3>1. ReadIn(r, i, j)' <=> j \in 1 .. Len(x) /\ x[j] = r
      BY <1>4, <1>5, <2>1 DEF ReadIn
    <3>2. ~ReadIn(r, i, j)
      BY <1>1, <1>7, <2>1 DEF ReadIn
    <3>3. j \in 1 .. Len(x) /\ x[j] = r <=> Covers(p, r) /\ j = r - p.start
      BY <1>2, RangeScanned
    <3>4. QED
      BY <2>1, <3>1, <3>2, <3>3
  <2>2. CASE i # n + 1
    BY <1>1, <1>4, <1>5, <2>2 DEF ReadIn
  <2>3. QED
    BY <2>1, <2>2
<1>9. \A r, i, j : ReadIn(r, i, j) => i # n + 1
  BY <1>1, <1>7 DEF ReadIn
<1>10. QED
  BY <1>1, <1>4, <1>6, <1>8, <1>9

\* Nothing moved: the row stays in its place.
LEMMA PlaceStays ==
    ASSUME UNCHANGED <<queue, part, results>>, NEW r, InOnePlace(r)
    PROVE  InOnePlace(r)'
BY DEF InOnePlace, Queued, Held, ReadIn, Covers, NoPart

\* The partition at the head of the queue goes to a worker: the row with it.
LEMMA PlaceTaken ==
    ASSUME ScanTypes, NEW w \in ScanWorkers, TakePartition(w), NEW r \in 1 .. Rows, InOnePlace(r)
    PROVE  InOnePlace(r)'
<1>1. queue \in Seq(Ranges) /\ queue # <<>> /\ queue' = Tail(queue)
  BY DEF ScanTypes, TakePartition
<1>2. PICK p \in Ranges : p = Head(queue)
  BY <1>1, QueueShrinks
<1>3. /\ \A i : Queued(r, i)' <=> i \in Nat \ {0} /\ Queued(r, i + 1)
      /\ \A i : Queued(r, i) => i \in Nat \ {0} /\ (i # 1 => i - 1 \in Nat \ {0} /\ Queued(r, i - 1)')
      /\ Queued(r, 1) <=> Covers(p, r)
  BY <1>1, <1>2, QueueShrinks
<1>4. p # NoPart
  BY DEF Ranges, NoPart
<1>5. part \in [ScanWorkers -> Ranges \cup {NoPart}] /\ part[w] = NoPart /\ part' = [part EXCEPT ![w] = p]
  BY <1>2 DEF ScanTypes, TakePartition
<1>6. ~Held(r, w) /\ (Held(r, w)' <=> Queued(r, 1))
  <2>1. part'[w] = p
    BY <1>5
  <2>2. QED
    BY <1>3, <1>4, <1>5, <2>1 DEF Held, Covers, NoPart
<1>7. \A v : v # w => (Held(r, v)' <=> Held(r, v))
  BY <1>5 DEF Held, Covers, NoPart
<1>8. \A i, j : ReadIn(r, i, j)' <=> ReadIn(r, i, j)
  BY DEF TakePartition, ReadIn
<1>9. \A v : Held(r, v)' <=> Held(r, v) \/ (v = w /\ Queued(r, 1))
  BY <1>6, <1>7
<1>10. (\E i : Queued(r, i)') \/ (\E v \in ScanWorkers : Held(r, v)') \/ (\E i, j : ReadIn(r, i, j)')
  <2>1. ASSUME NEW i, Queued(r, i) PROVE (\E k : Queued(r, k)') \/ Held(r, w)'
    BY <1>3, <1>6, <2>1
  <2>2. QED
    BY <1>8, <1>9, <2>1 DEF InOnePlace
<1>11. ASSUME NEW i, NEW k, Queued(r, i)', Queued(r, k)' PROVE i = k
  <2>1. i \in Nat /\ k \in Nat /\ Queued(r, i + 1) /\ Queued(r, k + 1)
    BY <1>3, <1>11
  <2>2. i + 1 = k + 1
    BY <2>1 DEF InOnePlace
  <2>3. QED
    BY <2>1, <2>2
<1>12. ASSUME NEW i, Queued(r, i)'
       PROVE  (\A v : ~Held(r, v)') /\ \A k, l : ~ReadIn(r, k, l)'
  <2>1. i \in Nat \ {0} /\ Queued(r, i + 1)
    BY <1>3, <1>12
  <2>2. ~Queued(r, 1)
    <3>1. i + 1 # 1
      BY <2>1
    <3>2. QED
      BY <2>1, <3>1 DEF InOnePlace
  <2>3. QED
    BY <1>8, <1>9, <2>1, <2>2 DEF InOnePlace
<1>13. \A v, u : Held(r, v)' /\ Held(r, u)' => v = u
  BY <1>9 DEF InOnePlace
<1>14. \A v, k, l : ~(Held(r, v)' /\ ReadIn(r, k, l)')
  BY <1>8, <1>9 DEF InOnePlace
<1>15. \A i, j, k, l : ReadIn(r, i, j)' /\ ReadIn(r, k, l)' => i = k /\ j = l
  BY <1>8 DEF InOnePlace
<1>16. QED
  BY <1>10, <1>11, <1>12, <1>13, <1>14, <1>15 DEF InOnePlace

\* A worker's partition becomes a result: the row with it.
LEMMA PlaceFinished ==
    ASSUME ScanTypes, NEW w \in ScanWorkers, FinishPartition(w), NEW r \in 1 .. Rows, InOnePlace(r)
    PROVE  InOnePlace(r)'
<1>1. PICK p : p = part[w]
  OBVIOUS
<1>2. p \in Ranges /\ part \in [ScanWorkers -> Ranges \cup {NoPart}] /\ part' = [part EXCEPT ![w] = NoPart]
  BY <1>1 DEF ScanTypes, FinishPartition
<1>3. results' = Append(results, ScanPartition(p))
  BY <1>1 DEF FinishPartition
<1>4. PICK n : n = Len(results) + 1
  OBVIOUS
<1>5. PICK d : d = r - p.start
  OBVIOUS
<1>6. /\ \A i, j : ReadIn(r, i, j)' <=> ReadIn(r, i, j) \/ (i = n /\ Covers(p, r) /\ j = d)
      /\ \A i, j : ReadIn(r, i, j) => i # n
  BY <1>2, <1>3, <1>4, <1>5, ResultsGrow
<1>7. Held(r, w) <=> Covers(p, r)
  <2>1. p # NoPart
    BY <1>2 DEF Ranges, NoPart
  <2>2. QED
    BY <1>1, <2>1 DEF Held
<1>8. ~Held(r, w)' /\ \A v : v # w => (Held(r, v)' <=> Held(r, v))
  BY <1>2 DEF Held, Covers, NoPart
<1>9. \A i : Queued(r, i)' <=> Queued(r, i)
  BY DEF FinishPartition, Queued, Covers
<1>10. \A v : Held(r, v)' <=> Held(r, v) /\ v # w
  BY <1>8
<1>11. (\E i : Queued(r, i)') \/ (\E v \in ScanWorkers : Held(r, v)') \/ (\E i, j : ReadIn(r, i, j)')
  BY <1>6, <1>7, <1>9, <1>10 DEF InOnePlace
<1>12. \A i, k : Queued(r, i)' /\ Queued(r, k)' => i = k
  BY <1>9 DEF InOnePlace
<1>13. \A v, u : Held(r, v)' /\ Held(r, u)' => v = u
  BY <1>10 DEF InOnePlace
<1>14. \A i, j, k, l : ReadIn(r, i, j)' /\ ReadIn(r, k, l)' => i = k /\ j = l
  BY <1>6, <1>7 DEF InOnePlace
<1>15. \A i, v : ~(Queued(r, i)' /\ Held(r, v)')
  BY <1>9, <1>10 DEF InOnePlace
<1>16. \A i, k, l : ~(Queued(r, i)' /\ ReadIn(r, k, l)')
  BY <1>6, <1>7, <1>9 DEF InOnePlace
<1>17. \A v, k, l : ~(Held(r, v)' /\ ReadIn(r, k, l)')
  BY <1>6, <1>7, <1>10 DEF InOnePlace
<1>18. QED
  BY <1>11, <1>12, <1>13, <1>14, <1>15, <1>16, <1>17 DEF InOnePlace

\* The iterator's next partition becomes a result: the row with it.
LEMMA PlaceRead ==
    ASSUME ScanTypes, NextPartition, NEW r \in 1 .. Rows, InOnePlace(r)
    PROVE  InOnePlace(r)'
<1>1. queue \in Seq(Ranges) /\ queue # <<>> /\ queue' = Tail(queue)
  BY DEF ScanTypes, NextPartition
<1>2. PICK p \in Ranges : p = Head(queue)
  BY <1>1, QueueShrinks
<1>3. /\ \A i : Queued(r, i)' <=> i \in Nat \ {0} /\ Queued(r, i + 1)
      /\ \A i : Queued(r, i) => i \in Nat \ {0} /\ (i # 1 => i - 1 \in Nat \ {0} /\ Queued(r, i - 1)')
      /\ Queued(r, 1) <=> Covers(p, r)
  BY <1>1, <1>2, QueueShrinks
<1>4. results' = Append(results, ScanPartition(p))
  BY <1>2 DEF NextPartition
<1>5. PICK n : n = Len(results) + 1
  OBVIOUS
<1>6. PICK d : d = r - p.start
  OBVIOUS
<1>7. /\ \A i, j : ReadIn(r, i, j)' <=> ReadIn(r, i, j) \/ (i = n /\ Queued(r, 1) /\ j = d)
      /\ \A i, j : ReadIn(r, i, j) => i # n
  <2>1. /\ \A i, j : ReadIn(r, i, j)' <=> ReadIn(r, i, j) \/ (i = n /\ Covers(p, r) /\ j = d)
        /\ \A i, j : ReadIn(r, i, j) => i # n
    BY <1>2, <1>4, <1>5, <1>6, ResultsGrow
  <2>2. QED
    BY <1>3, <2>1
<1>8. \A v : Held(r, v)' <=> Held(r, v)
  BY DEF NextPartition, Held, Covers, NoPart
<1>9. ASSUME NEW i, Queued(r, i)' PROVE i \in Nat /\ Queued(r, i + 1) /\ ~Queued(r, 1)
  <2>1. i \in Nat \ {0} /\ Queued(r, i + 1)
    BY <1>3, <1>9
  <2>2. i + 1 # 1
    BY <2>1
  <2>3. QED
    BY <2>1, <2>2 DEF InOnePlace
<1>10. (\E i : Queued(r, i)') \/ (\E v \in ScanWorkers : Held(r, v)') \/ (\E i, j : ReadIn(r, i, j)')
  <2>1. ASSUME NEW i, Queued(r, i) PROVE (\E k : Queued(r, k)') \/ (\E k, l : ReadIn(r, k, l)')
    BY <1>3, <1>7, <2>1
  <2>2. QED
    BY <1>7, <1>8, <2>1 DEF InOnePlace
<1>11. ASSUME NEW i, NEW k, Queued(r, i)', Queued(r, k)' PROVE i = k
  <2>1. i \in Nat /\ k \in Nat /\ Queued(r, i + 1) /\ Queued(r, k + 1)
    BY <1>9, <1>11
  <2>2. i + 1 = k + 1
    BY <2>1 DEF InOnePlace
  <2>3. QED
    BY <2>1, <2>2
<1>12. \A v, u : Held(r, v)' /\ Held(r, u)' => v = u
  BY <1>8 DEF InOnePlace
<1>13. \A i, j, k, l : ReadIn(r, i, j)' /\ ReadIn(r, k, l)' => i = k /\ j = l
  BY <1>7 DEF InOnePlace
<1>14. \A i, v : ~(Queued(r, i)' /\ Held(r, v)')
  BY <1>8, <1>9 DEF InOnePlace
<1>15. \A i, k, l : ~(Queued(r, i)' /\ ReadIn(r, k, l)')
  BY <1>7, <1>9 DEF InOnePlace
<1>16. \A v, k, l : ~(Held(r, v)' /\ ReadIn(r, k, l)')
  BY <1>7, <1>8 DEF InOnePlace
<1>17. QED
  BY <1>10, <1>11, <1>12, <1>13, <1>14, <1>15, <1>16 DEF InOnePlace

\* At the start every row is in one of the ranges of the queue.
LEMMA ScanStarts == ScanInit => ScanIInv
<1> SUFFICES ASSUME ScanInit, RangesReach
             PROVE  ScanTypes /\ \A r \in 1 .. Rows : InOnePlace(r)
  BY DEF ScanIInv
<1>1. config \in ScanConfigs /\ Rows <= Min({config.estimate, config.max * PartitionSize(config)})
  BY DEF ScanInit, RangesReach
<1>2. queue = RangePartitions(config)
  BY DEF ScanInit, RangesReach, Partitions
<1>3. Rows \in Nat
  BY ScanAssumption
<1>4. queue \in Seq(Ranges)
  BY <1>1, <1>2, RangesListed
<1>5. ScanTypes
  <2>1. results = <<>> /\ results \in Seq(Seq(Nat)) /\ Len(results) = 0
    BY DEF ScanInit
  <2>2. part \in [ScanWorkers -> Ranges \cup {NoPart}]
    BY DEF ScanInit
  <2>3. table = [i \in 1 .. Rows |-> i]
    BY DEF ScanInit
  <2>4. Len(table) = Rows
    BY <1>3, <2>3
  <2>5. \A i \in 1 .. Len(results) : Len(results[i]) <= Rows + 1
    BY <2>1
  <2>6. Len(table) \in {Rows, Rows + 1} /\ table = [i \in 1 .. Len(table) |-> i]
    BY <2>3, <2>4
  <2>7. QED
    BY <1>4, <2>1, <2>2, <2>5, <2>6, Zenon DEF ScanTypes
<1>6. ASSUME NEW r \in 1 .. Rows PROVE InOnePlace(r)
  <2>1. /\ \E i \in 1 .. Len(queue) : Covers(queue[i], r)
        /\ \A i, k \in 1 .. Len(queue) : Covers(queue[i], r) /\ Covers(queue[k], r) => i = k
    BY <1>1, <1>2, RangesCover
  <2>2. \A w : ~Held(r, w)
    BY DEF ScanInit, Held
  <2>3. \A i, j : ~ReadIn(r, i, j)
    BY DEF ScanInit, ReadIn
  <2>4. (\E i : Queued(r, i)) /\ \A i, k : Queued(r, i) /\ Queued(r, k) => i = k
    BY <2>1 DEF Queued
  <2>5. QED
    BY <2>2, <2>3, <2>4 DEF InOnePlace
<1>7. QED
  BY <1>5, <1>6

\* A step that leaves the rows alone keeps the types; and a row inserted comes
\* after the others.
LEMMA ScanTypesKept ==
    ASSUME ScanTypes, ScanNext, ~changed'
    PROVE  ScanTypes'
<1>1. ASSUME NEW w \in ScanWorkers, TakePartition(w) PROVE ScanTypes'
  <2>1. queue' \in Seq(Ranges) /\ Head(queue) \in Ranges
    BY <1>1, QueueShrinks DEF ScanTypes, TakePartition
  <2>2. part' \in [ScanWorkers -> Ranges \cup {NoPart}]
    BY <1>1, <2>1 DEF ScanTypes, TakePartition
  <2>3. results' = results /\ table' = table
    BY <1>1 DEF TakePartition
  <2>4. QED
    BY <2>1, <2>2, <2>3, Zenon DEF ScanTypes, Ranges, NoPart
<1>2. ASSUME NEW w \in ScanWorkers, FinishPartition(w) PROVE ScanTypes'
  <2>1. PICK p : p = part[w]
    OBVIOUS
  <2>2. p \in Ranges
    BY <1>2, <2>1 DEF ScanTypes, FinishPartition
  <2>3. results' = Append(results, ScanPartition(p))
    BY <1>2, <2>1 DEF FinishPartition
  <2>4. results' \in Seq(Seq(Nat)) /\ \A i \in 1 .. Len(results') : Len(results'[i]) <= Rows + 1
    BY <2>2, <2>3, ResultsGrow
  <2>5. part' \in [ScanWorkers -> Ranges \cup {NoPart}] /\ queue' = queue /\ table' = table
    BY <1>2 DEF ScanTypes, FinishPartition
  <2>6. QED
    BY <2>4, <2>5, Zenon DEF ScanTypes, Ranges, NoPart
<1>3. ASSUME NextPartition PROVE ScanTypes'
  <2>1. queue' \in Seq(Ranges) /\ Head(queue) \in Ranges
    BY <1>3, QueueShrinks DEF ScanTypes, NextPartition
  <2>2. PICK p \in Ranges : p = Head(queue)
    BY <2>1
  <2>3. results' = Append(results, ScanPartition(p))
    BY <1>3, <2>2 DEF NextPartition
  <2>4. results' \in Seq(Seq(Nat)) /\ \A i \in 1 .. Len(results') : Len(results'[i]) <= Rows + 1
    BY <2>3, ResultsGrow
  <2>5. part' = part /\ table' = table
    BY <1>3 DEF NextPartition
  <2>6. QED
    BY <2>1, <2>4, <2>5, Zenon DEF ScanTypes, Ranges, NoPart
<1>4. ASSUME OtherInserts PROVE ScanTypes'
  <2>1. PICK t : t = table
    OBVIOUS
  <2>2. Rows \in Nat /\ Len(t) = Rows /\ t = [i \in 1 .. Rows |-> i] /\ table' = Append(t, Rows + 1)
    BY <1>4, <2>1, ScanAssumption DEF ScanTypes, OtherInserts
  <2>3. t \in Seq(Nat)
    BY <2>2
  <2>4. /\ table' \in Seq(Nat) /\ Len(table') = Rows + 1 /\ table'[Rows + 1] = Rows + 1
        /\ \A i \in 1 .. Rows : table'[i] = t[i]
    BY <2>2, <2>3
  <2>5. \A i \in 1 .. (Rows + 1) : table'[i] = i
    <3>1. TAKE i \in 1 .. (Rows + 1)
    <3>2. i \in 1 .. Rows \/ i = Rows + 1
      BY <2>2
    <3>3. QED
      BY <2>2, <2>4, <3>2
  <2>6. DOMAIN table' = 1 .. (Rows + 1) /\ table' = [i \in DOMAIN table' |-> table'[i]]
    BY <2>2, <2>4, LenProperties
  <2>7. table' = [i \in 1 .. (Rows + 1) |-> i]
    BY <2>5, <2>6
  <2>8. queue' = queue /\ part' = part /\ results' = results
    BY <1>4 DEF OtherInserts
  <2>9. QED
    BY <2>4, <2>7, <2>8, Zenon DEF ScanTypes, Ranges, NoPart
<1>5. QED
  BY <1>1, <1>2, <1>3, <1>4 DEF ScanNext, OtherDeletes

\* Every step keeps the rows in their places, until a row is deleted.
LEMMA ScanStepsKeep == ScanIInv /\ [ScanNext]_scanVars => ScanIInv'
<1> SUFFICES ASSUME ScanIInv, [ScanNext]_scanVars, RangesReach', ~changed'
             PROVE  ScanTypes' /\ \A r \in 1 .. Rows : InOnePlace(r)'
  BY DEF ScanIInv
<1>1. config' = config
  BY DEF ScanNext, scanVars, TakePartition, FinishPartition, NextPartition, OtherInserts, OtherDeletes
<1>2. RangesReach
  BY <1>1 DEF RangesReach, PartitionSize, WorkerCount
<1>3. ~changed
  BY DEF ScanNext, scanVars, TakePartition, FinishPartition, NextPartition, OtherInserts, OtherDeletes
<1>4. ScanTypes /\ \A r \in 1 .. Rows : InOnePlace(r)
  BY <1>2, <1>3 DEF ScanIInv
<1>5. CASE UNCHANGED scanVars
  <2>1. ScanTypes'
    BY <1>4, <1>5 DEF scanVars, ScanTypes, Ranges, NoPart
  <2>2. QED
    BY <1>4, <1>5, <2>1, PlaceStays DEF scanVars
<1>6. CASE ScanNext
  <2>1. ScanTypes'
    BY <1>4, <1>6, ScanTypesKept
  <2>2. ASSUME NEW r \in 1 .. Rows PROVE InOnePlace(r)'
    <3>1. InOnePlace(r)
      BY <1>4
    <3>2. ASSUME OtherInserts PROVE InOnePlace(r)'
      BY <3>1, <3>2, PlaceStays DEF OtherInserts
    <3>3. ASSUME NEW w \in ScanWorkers, TakePartition(w) PROVE InOnePlace(r)'
      BY <1>4, <3>1, <3>3, PlaceTaken
    <3>4. ASSUME NEW w \in ScanWorkers, FinishPartition(w) PROVE InOnePlace(r)'
      BY <1>4, <3>1, <3>4, PlaceFinished
    <3>5. ASSUME NextPartition PROVE InOnePlace(r)'
      BY <1>4, <3>1, <3>5, PlaceRead
    <3>6. QED
      BY <1>6, <3>2, <3>3, <3>4, <3>5 DEF ScanNext, OtherDeletes
  <2>3. QED
    BY <2>1, <2>2
<1>7. QED
  BY <1>5, <1>6

\* Where the ranges reach the end of the table and nothing is deleted, a row of
\* the table is in one place: a partition queued, one taken by a worker, or a result.
THEOREM ScanInvariant == ScanSpec => []ScanIInv
<1>1. ScanInit => ScanIInv
  BY ScanStarts
<1>2. ScanIInv /\ [ScanNext]_scanVars => ScanIInv'
  BY ScanStepsKeep
<1>3. QED
  BY <1>1, <1>2, PTL DEF ScanSpec

\* Whatever the order in which workers take the partitions, and although each
\* partition counts the table from its beginning while rows are added, a scan
\* over ranges returns every row of the table once.
THEOREM ScansAreExact == ScanSpec => []ScanExact
<1>1. ScanIInv => ScanExact
  <2>1. ASSUME ScanIInv, Finished, RangesReach, ~changed, NEW r \in 1 .. Rows
        PROVE  Cardinality(ReadAt(r)) = 1
    <3>1. ScanTypes /\ InOnePlace(r)
      BY <2>1 DEF ScanIInv
    <3>2. \A i : ~Queued(r, i)
      BY <2>1 DEF Finished, Queued
    <3>3. \A w : ~Held(r, w)
      BY <2>1 DEF Finished, Held
    <3>4. PICK i, j : ReadIn(r, i, j)
      BY <3>1, <3>2, <3>3 DEF InOnePlace
    <3>5. \A k, l : ReadIn(r, k, l) => k = i /\ l = j
      BY <3>1, <3>4 DEF InOnePlace
    <3>6. ASSUME NEW k \in 1 .. Len(results)
          PROVE  DOMAIN results[k] = 1 .. Len(results[k]) /\ 1 .. Len(results[k]) \subseteq 1 .. (Rows + 1)
      <4>1. results \in Seq(Seq(Nat)) /\ Len(results[k]) <= Rows + 1
        BY <3>1 DEF ScanTypes
      <4>2. results[k] \in Seq(Nat)
        BY <4>1, ElementOfSeq
      <4>3. DOMAIN results[k] = 1 .. Len(results[k]) /\ Len(results[k]) \in Nat
        BY <4>2, LenProperties
      <4>4. QED
        BY <4>1, <4>3, ScanAssumption
    <3>7. ReadAt(r) = {<<i, j>>}
      <4>1. ASSUME NEW place \in ReadAt(r) PROVE place = <<i, j>>
        <5>1. PICK k \in 1 .. Len(results), l \in 1 .. (Rows + 1) :
                  place = <<k, l>> /\ l \in DOMAIN results[k] /\ results[k][l] = r
          BY DEF ReadAt
        <5>2. ReadIn(r, k, l)
          BY <3>6, <5>1 DEF ReadIn
        <5>3. QED
          BY <3>5, <5>1, <5>2
      <4>2. <<i, j>> \in ReadAt(r)
        BY <3>4, <3>6 DEF ReadIn, ReadAt
      <4>3. QED
        BY <4>1, <4>2
    <3>8. QED
      BY <3>7, FS_Singleton
  <2>2. QED
    BY <2>1 DEF ScanExact
<1>2. QED
  BY <1>1, ScanInvariant, PTL
=============================================================================
