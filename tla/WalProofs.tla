------------------------------ MODULE WalProofs ------------------------------
(***************************************************************************)
(* Proofs about Wal, for every buffer size, every set of transactions and  *)
(* any number of restarts and failing writes.                              *)
(***************************************************************************)
EXTENDS Wal, SequenceTheorems, WellFoundedInduction, TLAPS

\* The LSNs of recs strictly increase and lie below bound.  Cut records count:
\* open() continues from the LSN of a cut one when its header was complete.
Ascending(recs, bound) ==
    /\ \A i, j \in DOMAIN recs : i < j => recs[i].lsn < recs[j].lsn
    /\ \A i \in DOMAIN recs : recs[i].lsn < bound

\* A flush may be cut, but what waits in the buffer is whole.
BufferWhole == WholeAt(buffer) = DOMAIN buffer

\* Until a write fails, an LSN handed out since open() belongs to a record that
\* is in the file or still waits for a flush.
IssuedKept == failed \/ issued \subseteq Lsns(file) \cup Lsns(buffer)

\* The inductive invariant.
WalIInv ==
    /\ WalTypeOK
    /\ failed \in BOOLEAN /\ astray \in BOOLEAN
    /\ astray \/ Ascending(file \o buffer, nextLsn)
    /\ BufferWhole
    /\ IssuedKept
    /\ FlushDurable

-----------------------------------------------------------------------------
(* What a write leaves *)

\* The records of a file or of a buffer, one by one.
LEMMA RecordsTyped ==
    ASSUME NEW recs \in Seq(WalRecord)
    PROVE  /\ Len(recs) \in Nat /\ DOMAIN recs = 1 .. Len(recs)
           /\ \A i \in 1 .. Len(recs) : recs[i] \in WalRecord /\ recs[i].lsn \in Nat
<1>1. \A i \in 1 .. Len(recs) : recs[i] \in WalRecord
  OBVIOUS
<1>2. \A rec \in WalRecord : rec.lsn \in Nat
  BY DEF WalRecord
<1> QED
  BY <1>1, <1>2

\* A torn record keeps the LSN of the record it was cut from.
LEMMA TornPieceType ==
    ASSUME NEW rec \in WalRecord, NEW piece \in TornPieces(rec)
    PROVE  piece \in WalRecord /\ piece.lsn = rec.lsn
BY DEF TornPieces, WalRecord, TornKinds

\* A flush that stops early leaves the old file, then records of the buffer in
\* their order and under their LSNs; all but the last are whole.
LEMMA PartlyWrittenPrefix ==
    ASSUME NEW f \in Seq(WalRecord), NEW recs \in Seq(WalRecord),
           NEW g \in PartlyWritten(f, recs)
    PROVE  /\ g \in Seq(WalRecord)
           /\ Len(f) <= Len(g) /\ Len(g) <= Len(f \o recs)
           /\ \A i \in 1 .. Len(g) : g[i].lsn = (f \o recs)[i].lsn
           /\ \A i \in 1 .. Len(f) : g[i] = f[i]
           /\ \A i \in 1 .. Len(g) - 1 : g[i] = (f \o recs)[i]
<1>1. CASE \E n \in 0 .. Len(recs) : g = f \o SubSeq(recs, 1, n)
  BY <1>1
<1>2. CASE \E n \in 0 .. Len(recs) - 1 : \E piece \in TornPieces(recs[n + 1]) :
             g = f \o SubSeq(recs, 1, n) \o <<piece>>
  <2>0. PICK n \in 0 .. Len(recs) - 1 : \E piece \in TornPieces(recs[n + 1]) :
          g = f \o SubSeq(recs, 1, n) \o <<piece>>
    BY <1>2
  <2>1. PICK piece \in TornPieces(recs[n + 1]) : g = f \o SubSeq(recs, 1, n) \o <<piece>>
    BY <2>0
  <2>2. recs[n + 1] \in WalRecord
    OBVIOUS
  <2>3. piece \in WalRecord /\ piece.lsn = recs[n + 1].lsn
    BY <2>2, TornPieceType
  <2> DEFINE p == f \o SubSeq(recs, 1, n)
  <2>4. /\ p \in Seq(WalRecord) /\ Len(p) = Len(f) + n
        /\ \A i \in 1 .. Len(p) : p[i] = (f \o recs)[i]
    OBVIOUS
  <2>5. (f \o recs)[Len(p) + 1] = recs[n + 1] /\ Len(p) + 1 <= Len(f \o recs)
    BY <2>4
  <2> HIDE DEF p
  <2>6. /\ g \in Seq(WalRecord) /\ Len(g) = Len(p) + 1
        /\ \A i \in 1 .. Len(p) : g[i] = p[i]
        /\ g[Len(p) + 1] = piece
    BY <2>1, <2>3, <2>4 DEF p
  <2>7. \A i \in 1 .. Len(f) : p[i] = f[i]
    BY <2>4
  <2>8. \A i \in 1 .. Len(g) : g[i].lsn = (f \o recs)[i].lsn
    <3> SUFFICES ASSUME NEW i \in 1 .. Len(g) PROVE g[i].lsn = (f \o recs)[i].lsn
      OBVIOUS
    <3>1. CASE i \in 1 .. Len(p)
      BY <2>4, <2>6, <3>1
    <3>2. CASE i = Len(p) + 1
      <4>1. g[i] = piece /\ (f \o recs)[i] = recs[n + 1]
        BY <2>5, <2>6, <3>2
      <4> QED
        BY <2>3, <4>1
    <3>3. Len(p) \in Nat /\ Len(g) = Len(p) + 1
      BY <2>4, <2>6
    <3>4. i \in 1 .. Len(p) \/ i = Len(p) + 1
      BY <3>3
    <3> QED
      BY <3>1, <3>2, <3>4
  <2> QED
    BY <2>4, <2>5, <2>6, <2>7, <2>8
<1> QED
  BY <1>1, <1>2 DEF PartlyWritten, Stored

-----------------------------------------------------------------------------
(* LSNs *)

\* A file whose LSNs are a prefix of an ascending sequence is ascending.
LEMMA AscendingPrefix ==
    ASSUME NEW recs \in Seq(WalRecord), NEW g \in Seq(WalRecord), NEW bound \in Nat,
           Ascending(recs, bound), Len(g) <= Len(recs),
           \A i \in 1 .. Len(g) : g[i].lsn = recs[i].lsn
    PROVE  Ascending(g, bound)
BY DEF Ascending

\* The LSN that append_record hands out continues the order.
LEMMA AscendingAppend ==
    ASSUME NEW recs \in Seq(WalRecord), NEW rec \in WalRecord, Ascending(recs, rec.lsn)
    PROVE  Ascending(Append(recs, rec), rec.lsn + 1)
<1> DEFINE all == Append(recs, rec)
<1>1. /\ DOMAIN recs = 1 .. Len(recs) /\ DOMAIN all = 1 .. Len(recs) + 1
      /\ \A i \in 1 .. Len(recs) : all[i] = recs[i]
      /\ all[Len(recs) + 1] = rec
  OBVIOUS
<1>2. rec.lsn \in Nat /\ \A i \in 1 .. Len(recs) : recs[i].lsn \in Nat
  BY RecordsTyped DEF WalRecord
<1>3. Len(recs) \in Nat
  OBVIOUS
<1> HIDE DEF all
<1>4. \A i, j \in DOMAIN all : i < j => all[i].lsn < all[j].lsn
  <2> SUFFICES ASSUME NEW i \in DOMAIN all, NEW j \in DOMAIN all, i < j
               PROVE  all[i].lsn < all[j].lsn
    OBVIOUS
  <2>1. i \in 1 .. Len(recs) /\ all[i] = recs[i]
    BY <1>1, <1>3
  <2>2. CASE j \in 1 .. Len(recs)
    BY <1>1, <2>1, <2>2 DEF Ascending
  <2>3. CASE j = Len(recs) + 1
    BY <1>1, <2>1, <2>3 DEF Ascending
  <2> QED
    BY <1>1, <1>3, <2>2, <2>3
<1>5. \A i \in DOMAIN all : all[i].lsn < rec.lsn + 1
  BY <1>1, <1>2, <1>3 DEF Ascending
<1> QED
  BY <1>4, <1>5 DEF Ascending, all

\* Writing behind a file loses none of its whole records.
LEMMA LsnsPrefix ==
    ASSUME NEW f \in Seq(WalRecord), NEW g \in Seq(WalRecord),
           Len(f) <= Len(g), \A i \in 1 .. Len(f) : g[i] = f[i]
    PROVE  Lsns(f) \subseteq Lsns(g)
<1>1. \A i \in WholeAt(f) : i \in WholeAt(g) /\ g[i].lsn = f[i].lsn
  BY DEF WholeAt
<1> QED
  BY <1>1 DEF Lsns

\* The whole records of a file and of what is written behind it.
LEMMA LsnsConcat ==
    ASSUME NEW f \in Seq(WalRecord), NEW recs \in Seq(WalRecord)
    PROVE  Lsns(f \o recs) = Lsns(f) \cup Lsns(recs)
<1>1. \A i \in WholeAt(f) : i \in WholeAt(f \o recs) /\ (f \o recs)[i].lsn = f[i].lsn
  BY DEF WholeAt
<1>2. \A i \in WholeAt(recs) :
        /\ Len(f) + i \in WholeAt(f \o recs)
        /\ (f \o recs)[Len(f) + i].lsn = recs[i].lsn
  <2> SUFFICES ASSUME NEW i \in WholeAt(recs)
               PROVE  /\ Len(f) + i \in WholeAt(f \o recs)
                      /\ (f \o recs)[Len(f) + i].lsn = recs[i].lsn
    OBVIOUS
  <2>1. i \in 1 .. Len(recs) /\ (f \o recs)[Len(f) + i] = recs[i]
    BY DEF WholeAt
  <2>2. Len(f) + i \in DOMAIN (f \o recs)
    BY <2>1
  <2> QED
    BY <2>1, <2>2 DEF WholeAt
<1>3. \A i \in WholeAt(f \o recs) :
        (f \o recs)[i].lsn \in Lsns(f) \cup Lsns(recs)
  <2> SUFFICES ASSUME NEW i \in WholeAt(f \o recs)
               PROVE  (f \o recs)[i].lsn \in Lsns(f) \cup Lsns(recs)
    OBVIOUS
  <2>1. i \in 1 .. Len(f) + Len(recs)
    BY DEF WholeAt
  <2>2. CASE i <= Len(f)
    <3>1. i \in WholeAt(f) /\ (f \o recs)[i] = f[i]
      BY <2>1, <2>2 DEF WholeAt
    <3> QED
      BY <3>1 DEF Lsns
  <2>3. CASE i > Len(f)
    <3>1. (f \o recs)[i] = recs[i - Len(f)] /\ i - Len(f) \in 1 .. Len(recs)
      BY <2>1, <2>3
    <3>2. i - Len(f) \in WholeAt(recs)
      BY <3>1 DEF WholeAt
    <3> QED
      BY <3>1, <3>2 DEF Lsns
  <2> QED
    BY <2>1, <2>2, <2>3
<1>4. Lsns(f) \subseteq Lsns(f \o recs)
  BY <1>1 DEF Lsns
<1>5. Lsns(recs) \subseteq Lsns(f \o recs)
  BY <1>2 DEF Lsns
<1>6. Lsns(f \o recs) \subseteq Lsns(f) \cup Lsns(recs)
  <2> DEFINE all == f \o recs
             both == Lsns(f) \cup Lsns(recs)
  <2>1. \A i \in WholeAt(all) : all[i].lsn \in both
    BY <1>3
  <2> HIDE DEF all, both
  <2>2. Lsns(all) \subseteq both
    BY <2>1 DEF Lsns
  <2> QED
    BY <2>2 DEF all, both
<1> QED
  BY <1>4, <1>5, <1>6

\* append_record adds one record behind all others and takes none away; when it
\* returns Ok its LSN and all earlier ones are in the file or in the buffer.
LEMMA AppendOnEffect ==
    ASSUME NEW f \in Seq(WalRecord), NEW b \in Seq(WalRecord),
           NEW kind \in AllKinds, NEW t, NEW prev, NEW ok \in BOOLEAN, nextLsn \in Nat,
           Record(kind, t, prev, nextLsn) \in WalRecord,
           AppendOn(f, b, kind, t, prev, ok)
    PROVE  /\ file' \in Seq(WalRecord) /\ buffer' \in Seq(WalRecord)
           /\ nextLsn' = nextLsn + 1
           /\ Lsns(f) \subseteq Lsns(file')
           /\ Ascending(f \o b, nextLsn) => Ascending(file' \o buffer', nextLsn')
           /\ WholeAt(b) = DOMAIN b => WholeAt(buffer') = DOMAIN buffer'
           /\ ok => Lsns(f) \cup Lsns(b) \cup {nextLsn} \subseteq Lsns(file') \cup Lsns(buffer')
<1> DEFINE rec == Record(kind, t, prev, nextLsn)
           full == Append(b, rec)
<1>1. rec \in WalRecord /\ rec.lsn = nextLsn /\ rec.kind = kind /\ kind \notin TornKinds
  BY DEF Record, AllKinds, TornKinds
<1> HIDE DEF rec
<1>2. full \in Seq(WalRecord) /\ full = b \o <<rec>> /\ f \o full \in Seq(WalRecord)
  BY <1>1
<1>3. f \o full = Append(f \o b, rec)
  BY <1>1
<1>4. Lsns(<<rec>>) = {nextLsn}
  <2>1. DOMAIN <<rec>> = {1} /\ <<rec>>[1] = rec
    OBVIOUS
  <2>2. WholeAt(<<rec>>) = {1}
    BY <1>1, <2>1 DEF WholeAt
  <2> QED
    BY <1>1, <2>1, <2>2 DEF Lsns
<1>5. WholeAt(b) = DOMAIN b => WholeAt(full) = DOMAIN full
  <2>1. /\ DOMAIN full = 1 .. Len(b) + 1 /\ DOMAIN b = 1 .. Len(b) /\ Len(b) \in Nat
        /\ full[Len(b) + 1] = rec /\ \A i \in 1 .. Len(b) : full[i] = b[i]
    BY <1>1
  <2> HIDE DEF full
  <2> QED
    BY <1>1, <2>1 DEF WholeAt
<1> HIDE DEF full
<1>6. Lsns(full) = Lsns(b) \cup {nextLsn}
  <2>1. <<rec>> \in Seq(WalRecord)
    BY <1>1
  <2>2. Lsns(b \o <<rec>>) = Lsns(b) \cup Lsns(<<rec>>)
    BY <2>1, LsnsConcat
  <2> QED
    BY <1>2, <1>4, <2>2
<1> DEFINE old == f \o b
           all == f \o full
<1>7. /\ old \in Seq(WalRecord) /\ all \in Seq(WalRecord) /\ all = Append(old, rec)
      /\ Lsns(all) = Lsns(f) \cup Lsns(full)
  <2>1. Lsns(f \o full) = Lsns(f) \cup Lsns(full)
    BY <1>2, LsnsConcat
  <2>2. f \o b \in Seq(WalRecord)
    OBVIOUS
  <2> QED
    BY <1>2, <1>3, <2>1, <2>2
<1> HIDE DEF old, all
<1>8. Ascending(old, nextLsn) => Ascending(all, nextLsn + 1)
  BY <1>1, <1>7, AscendingAppend
<1>9. nextLsn' = nextLsn + 1 /\ WholeAt(<<>>) = DOMAIN <<>>
  BY DEF AppendOn, WholeAt
<1>10. CASE Len(full) < BufferSize /\ ok /\ buffer' = full /\ file' = f
  BY <1>2, <1>5, <1>6, <1>8, <1>9, <1>10 DEF old, all
<1>11. CASE Len(full) >= BufferSize /\ ok /\ buffer' = <<>> /\ file' = f \o Stored(full)
  <2>1. file' = all /\ buffer' = <<>> /\ ok
    BY <1>11 DEF Stored, all
  <2>2. file' \o buffer' = all
    BY <1>7, <2>1, ConcatEmptySeq
  <2>3. buffer' \in Seq(WalRecord)
    BY <2>1
  <2> QED
    BY <1>6, <1>7, <1>8, <1>9, <2>1, <2>2, <2>3 DEF old
<1>12. CASE Len(full) >= BufferSize /\ ~ok /\ buffer' = <<>> /\ file' \in PartlyWritten(f, full)
  <2>1. /\ file' \in Seq(WalRecord)
        /\ Len(f) <= Len(file') /\ Len(file') <= Len(all)
        /\ \A i \in 1 .. Len(file') : file'[i].lsn = all[i].lsn
        /\ \A i \in 1 .. Len(f) : file'[i] = f[i]
    BY <1>2, <1>12, PartlyWrittenPrefix, ZenonT(30) DEF all
  <2>2. file' \o buffer' = file' /\ buffer' \in Seq(WalRecord)
    BY <1>12, <2>1, ConcatEmptySeq
  <2>3. Ascending(all, nextLsn + 1) => Ascending(file', nextLsn + 1)
    <3>1. nextLsn + 1 \in Nat
      OBVIOUS
    <3> QED
      BY <1>7, <2>1, <3>1, AscendingPrefix
  <2>4. Lsns(f) \subseteq Lsns(file')
    BY <2>1, LsnsPrefix
  <2> QED
    BY <1>8, <1>9, <1>12, <2>1, <2>2, <2>3, <2>4 DEF old
<1> QED
  BY <1>10, <1>11, <1>12 DEF AppendOn, full, rec

-----------------------------------------------------------------------------
(* What open() finds *)

\* A set of natural numbers that is not empty has a least element.
LEMMA LeastElement ==
    ASSUME NEW T, T \subseteq Nat, T # {}
    PROVE  \E x \in T : \A y \in T : x <= y
<1>1. \E x \in T : \A y \in T : ~(<<y, x>> \in OpToRel(<, Nat))
  BY WFMin, NatLessThanWellFounded
<1>2. PICK x \in T : \A y \in T : ~(<<y, x>> \in OpToRel(<, Nat))
  BY <1>1
<1>3. \A y \in T : ~(y < x)
  BY <1>2 DEF OpToRel
<1>4. \A y \in T : x <= y
  <2> SUFFICES ASSUME NEW y \in T PROVE x <= y
    OBVIOUS
  <2>1. x \in Nat /\ y \in Nat /\ ~(y < x)
    BY <1>3
  <2> QED
    BY <2>1
<1> QED
  BY <1>4

\* open() returns an error or the LSN to continue with.
LEMMA OpenResultsType ==
    ASSUME NEW f \in Seq(WalRecord), NEW next \in OpenResults(f)
    PROVE  next = OpenFails \/ next \in Nat
<1>1. \A i \in 1 .. Len(f) : f[i].lsn + 1 \in Nat
  BY RecordsTyped
<1>2. CASE Unscannable(f) = {}
  <2>1. CASE f = <<>>
    BY <1>2, <2>1 DEF OpenResults
  <2>2. CASE f # <<>>
    <3>1. Len(f) \in 1 .. Len(f) /\ next = f[Len(f)].lsn + 1
      BY <1>2, <2>2 DEF OpenResults, Last
    <3> QED
      BY <1>1, <3>1
  <2> QED
    BY <2>1, <2>2
<1>3. CASE Unscannable(f) # {}
  <2> DEFINE least(j) == \A k \in Unscannable(f) : j <= k
             i == CHOOSE j \in Unscannable(f) : least(j)
  <2>1. Unscannable(f) \subseteq 1 .. Len(f) /\ Unscannable(f) \subseteq Nat
    BY DEF Unscannable
  <2>2. \E j \in Unscannable(f) : least(j)
    BY <1>3, <2>1, LeastElement
  <2>3. i \in 1 .. Len(f)
    BY <2>1, <2>2
  <2>4. next \in {OpenFails, f[i].lsn + 1} \cup (0 .. MaxLsn)
    BY <1>3 DEF OpenResults
  <2> HIDE DEF i
  <2> QED
    BY <1>1, <2>3, <2>4
<1> QED
  BY <1>2, <1>3

\* As long as the scan has stayed on record boundaries, the LSN that open()
\* continues with lies above all those in the file.
LEMMA OpenContinues ==
    ASSUME NEW f \in Seq(WalRecord), NEW bound, Ascending(f, bound),
           \A i \in Unscannable(f) : ~(i < Len(f)),
           NEW next \in OpenResults(f), next # OpenFails
    PROVE  Ascending(f, next)
<1>1. Unscannable(f) \subseteq {Len(f)} /\ Unscannable(f) \subseteq 1 .. Len(f)
  BY DEF Unscannable
<1>2. CASE f = <<>>
  BY <1>2 DEF Ascending
<1>3. CASE f # <<>>
  <2>1. next = f[Len(f)].lsn + 1
    <3>1. CASE Unscannable(f) = {}
      BY <1>3, <3>1 DEF OpenResults, Last
    <3>2. CASE Unscannable(f) = {Len(f)}
      <4>1. (CHOOSE j \in Unscannable(f) : \A k \in Unscannable(f) : j <= k) = Len(f)
        BY <3>2
      <4> QED
        BY <3>2, <4>1 DEF OpenResults
    <3> QED
      BY <1>1, <3>1, <3>2
  <2>2. /\ Len(f) \in DOMAIN f /\ DOMAIN f = 1 .. Len(f)
        /\ \A i \in DOMAIN f : f[i].lsn \in Nat
    BY <1>3, RecordsTyped
  <2>3. \A i \in DOMAIN f : f[i].lsn < f[Len(f)].lsn + 1
    BY <2>2 DEF Ascending
  <2> QED
    BY <2>1, <2>3 DEF Ascending
<1> QED
  BY <1>2, <1>3

-----------------------------------------------------------------------------
(* The invariant *)

\* An empty log satisfies the invariant.
LEMMA WalInitInv == WalInit => WalIInv
<1> SUFFICES ASSUME WalInit PROVE WalIInv
  OBVIOUS
<1>1. file \o buffer = <<>> /\ <<>> \in Seq(WalRecord) /\ DOMAIN <<>> = {}
  BY DEF WalInit
<1>2. WalTypeOK
  BY <1>1, WalAssumption DEF WalInit, WalTypeOK
<1>3. Ascending(file \o buffer, nextLsn)
  BY <1>1 DEF Ascending
<1>4. BufferWhole /\ IssuedKept /\ FlushDurable
  BY DEF WalInit, BufferWhole, WholeAt, IssuedKept, FlushDurable
<1> QED
  BY <1>2, <1>3, <1>4 DEF WalInit, WalIInv

\* append_record keeps the invariant, whether its flush succeeds or fails.
LEMMA AppendRecordInv ==
    ASSUME WalIInv, NEW kind \in Kinds, NEW t \in LogTxs, NEW prev \in PrevLsns,
           AppendRecord(kind, t, prev)
    PROVE  WalIInv'
<1>1. PICK ok \in BOOLEAN : AppendOn(file, buffer, kind, t, prev, ok) /\ failed' = (failed \/ ~ok)
  BY DEF AppendRecord
<1>2. /\ file \in Seq(WalRecord) /\ buffer \in Seq(WalRecord) /\ nextLsn \in Nat
      /\ kind \in AllKinds
  BY WalAssumption DEF WalIInv, WalTypeOK
<1>3. Record(kind, t, prev, nextLsn) \in WalRecord
  BY <1>2, WalAssumption DEF Record, WalRecord
<1>4. /\ file' \in Seq(WalRecord) /\ buffer' \in Seq(WalRecord)
      /\ nextLsn' = nextLsn + 1
      /\ Lsns(file) \subseteq Lsns(file')
      /\ Ascending(file \o buffer, nextLsn) => Ascending(file' \o buffer', nextLsn')
      /\ WholeAt(buffer) = DOMAIN buffer => WholeAt(buffer') = DOMAIN buffer'
      /\ ok => Lsns(file) \cup Lsns(buffer) \cup {nextLsn} \subseteq Lsns(file') \cup Lsns(buffer')
  BY <1>1, <1>2, <1>3, AppendOnEffect
<1>5. issued' = issued \cup {nextLsn} /\ UNCHANGED <<open, restarts, acked, astray>>
  BY DEF AppendRecord
<1>6. WalTypeOK'
  BY <1>2, <1>4, <1>5 DEF WalIInv, WalTypeOK
<1>7. IssuedKept'
  BY <1>1, <1>4, <1>5 DEF WalIInv, IssuedKept
<1>8. FlushDurable'
  BY <1>1, <1>4, <1>5 DEF WalIInv, FlushDurable
<1>9. BufferWhole' /\ (astray' \/ Ascending(file' \o buffer', nextLsn'))
  BY <1>4, <1>5 DEF WalIInv, BufferWhole
<1>10. failed' \in BOOLEAN /\ astray' \in BOOLEAN
  BY <1>1, <1>5 DEF WalIInv
<1> QED
  BY <1>6, <1>7, <1>8, <1>9, <1>10 DEF WalIInv

\* The state after the buffer was written: in full, or in part.
LEMMA DrainedInv ==
    ASSUME WalIInv, buffer' = <<>>, file' \in {file \o buffer} \cup PartlyWritten(file, buffer)
    PROVE  /\ file' \in Seq(WalRecord) /\ buffer' \in Seq(WalRecord)
           /\ file' \o buffer' = file'
           /\ Lsns(file) \subseteq Lsns(file')
           /\ file' = file \o buffer => Lsns(file') = Lsns(file) \cup Lsns(buffer)
           /\ Ascending(file \o buffer, nextLsn) => Ascending(file', nextLsn)
           /\ BufferWhole'
<1>1. file \in Seq(WalRecord) /\ buffer \in Seq(WalRecord) /\ nextLsn \in Nat
  BY DEF WalIInv, WalTypeOK
<1> DEFINE all == file \o buffer
<1>2. all \in Seq(WalRecord) /\ Lsns(all) = Lsns(file) \cup Lsns(buffer)
  <2>1. Lsns(file \o buffer) = Lsns(file) \cup Lsns(buffer)
    BY <1>1, LsnsConcat
  <2>2. file \o buffer \in Seq(WalRecord)
    BY <1>1
  <2> QED
    BY <2>1, <2>2
<1>3. BufferWhole'
  BY DEF BufferWhole, WholeAt
<1>4. buffer' \in Seq(WalRecord)
  OBVIOUS
<1>5. file' \in PartlyWritten(file, buffer) =>
        /\ file' \in Seq(WalRecord)
        /\ Len(file) <= Len(file') /\ Len(file') <= Len(all)
        /\ \A i \in 1 .. Len(file') : file'[i].lsn = all[i].lsn
        /\ \A i \in 1 .. Len(file) : file'[i] = file[i]
  BY <1>1, PartlyWrittenPrefix
<1> HIDE DEF all
<1>6. CASE file' = all
  <2>1. file' \o buffer' = file'
    BY <1>2, <1>6, ConcatEmptySeq
  <2> QED
    BY <1>2, <1>3, <1>4, <1>6, <2>1 DEF all
<1>7. CASE file' # all
  <2>1. file' \in PartlyWritten(file, buffer)
    BY <1>7 DEF all
  <2>2. file' \o buffer' = file'
    BY <1>5, <2>1, ConcatEmptySeq
  <2>3. Lsns(file) \subseteq Lsns(file')
    BY <1>1, <1>5, <2>1, LsnsPrefix
  <2>4. Ascending(all, nextLsn) => Ascending(file', nextLsn)
    BY <1>1, <1>2, <1>5, <2>1, AscendingPrefix
  <2> QED
    BY <1>3, <1>4, <1>5, <1>7, <2>1, <2>2, <2>3, <2>4 DEF all
<1> QED
  BY <1>6, <1>7

\* flush_buffer keeps the invariant: every LSN issued so far is in the file.
LEMMA FlushBufferInv ==
    ASSUME WalIInv, FlushBuffer
    PROVE  WalIInv'
<1>1. /\ buffer' = <<>> /\ file' = file \o buffer /\ acked' = acked \cup issued
      /\ UNCHANGED <<nextLsn, open, restarts, issued, failed, astray>>
  BY DEF FlushBuffer, Stored
<1>2. /\ file' \in Seq(WalRecord) /\ buffer' \in Seq(WalRecord)
      /\ file' \o buffer' = file'
      /\ Lsns(file') = Lsns(file) \cup Lsns(buffer)
      /\ Ascending(file \o buffer, nextLsn) => Ascending(file', nextLsn)
      /\ BufferWhole'
  BY <1>1, DrainedInv
<1>3. WalTypeOK'
  BY <1>1, <1>2 DEF WalIInv, WalTypeOK
<1>4. IssuedKept' /\ FlushDurable'
  BY <1>1, <1>2 DEF WalIInv, IssuedKept, FlushDurable
<1>5. astray' \/ Ascending(file' \o buffer', nextLsn')
  BY <1>1, <1>2 DEF WalIInv
<1> QED
  BY <1>1, <1>2, <1>3, <1>4, <1>5 DEF WalIInv

\* A flush_buffer that fails keeps the order and what was flushed before.
LEMMA FlushFailsInv ==
    ASSUME WalIInv, FlushFails
    PROVE  WalIInv'
<1>1. /\ buffer' = <<>> /\ file' \in PartlyWritten(file, buffer) /\ failed' = TRUE
      /\ UNCHANGED <<nextLsn, open, restarts, issued, acked, astray>>
  BY DEF FlushFails
<1>2. /\ file' \in Seq(WalRecord) /\ buffer' \in Seq(WalRecord)
      /\ file' \o buffer' = file'
      /\ Ascending(file \o buffer, nextLsn) => Ascending(file', nextLsn)
      /\ BufferWhole'
  BY <1>1, DrainedInv
<1>3. WalTypeOK'
  BY <1>1, <1>2 DEF WalIInv, WalTypeOK
<1>4. IssuedKept' /\ FlushDurable'
  BY <1>1 DEF IssuedKept, FlushDurable
<1>5. astray' \/ Ascending(file' \o buffer', nextLsn')
  BY <1>1, <1>2 DEF WalIInv
<1> QED
  BY <1>1, <1>2, <1>3, <1>4, <1>5 DEF WalIInv

\* checkpoint is a flush followed by an append to the empty buffer.
LEMMA CheckpointInv ==
    ASSUME WalIInv, Checkpoint
    PROVE  WalIInv'
<1> DEFINE all == file \o buffer
<1>1. PICK ok \in BOOLEAN :
        AppendOn(all, <<>>, "Checkpoint", SystemTx, NoLsn, ok) /\ failed' = (failed \/ ~ok)
  BY DEF Checkpoint, Stored
<1>2. file \in Seq(WalRecord) /\ buffer \in Seq(WalRecord) /\ nextLsn \in Nat
  BY DEF WalIInv, WalTypeOK
<1>3. Record("Checkpoint", SystemTx, NoLsn, nextLsn) \in WalRecord /\ "Checkpoint" \in AllKinds
  BY <1>2 DEF Record, WalRecord, AllKinds
<1>4. all \in Seq(WalRecord) /\ Lsns(all) = Lsns(file) \cup Lsns(buffer)
  <2>1. Lsns(file \o buffer) = Lsns(file) \cup Lsns(buffer)
    BY <1>2, LsnsConcat
  <2>2. file \o buffer \in Seq(WalRecord)
    BY <1>2
  <2> QED
    BY <2>1, <2>2
<1>5. astray \/ Ascending(all, nextLsn)
  BY DEF WalIInv
<1>6. issued' = issued \cup {nextLsn} /\ acked' = acked \cup issued /\ UNCHANGED <<open, restarts, astray>>
  BY DEF Checkpoint
<1> HIDE DEF all
<1>7. all \o <<>> = all /\ <<>> \in Seq(WalRecord) /\ WholeAt(<<>>) = DOMAIN <<>>
  BY <1>4, ConcatEmptySeq DEF WholeAt
<1>8. /\ file' \in Seq(WalRecord) /\ buffer' \in Seq(WalRecord)
      /\ nextLsn' = nextLsn + 1
      /\ Lsns(all) \subseteq Lsns(file')
      /\ Ascending(all, nextLsn) => Ascending(file' \o buffer', nextLsn')
      /\ WholeAt(buffer') = DOMAIN buffer'
      /\ ok => Lsns(all) \cup {nextLsn} \subseteq Lsns(file') \cup Lsns(buffer')
  <2> DEFINE empty == <<>>
  <2> HIDE DEF empty
  <2>1. /\ file' \in Seq(WalRecord) /\ buffer' \in Seq(WalRecord)
        /\ nextLsn' = nextLsn + 1
        /\ Lsns(all) \subseteq Lsns(file')
        /\ Ascending(all \o empty, nextLsn) => Ascending(file' \o buffer', nextLsn')
        /\ WholeAt(empty) = DOMAIN empty => WholeAt(buffer') = DOMAIN buffer'
        /\ ok => Lsns(all) \cup Lsns(empty) \cup {nextLsn} \subseteq Lsns(file') \cup Lsns(buffer')
    <3>1. empty \in Seq(WalRecord) /\ AppendOn(all, empty, "Checkpoint", SystemTx, NoLsn, ok)
      BY <1>1, <1>7 DEF empty
    <3> QED
      BY <1>2, <1>3, <1>4, <3>1, AppendOnEffect
  <2> QED
    BY <1>7, <2>1 DEF empty
<1>9. WalTypeOK'
  BY <1>2, <1>6, <1>8 DEF WalIInv, WalTypeOK
<1>10. IssuedKept' /\ FlushDurable'
  BY <1>1, <1>4, <1>6, <1>8 DEF WalIInv, IssuedKept, FlushDurable
<1>11. BufferWhole' /\ (astray' \/ Ascending(file' \o buffer', nextLsn'))
  BY <1>5, <1>6, <1>8 DEF BufferWhole
<1>12. failed' \in BOOLEAN /\ astray' \in BOOLEAN
  BY <1>1, <1>6 DEF WalIInv
<1> QED
  BY <1>9, <1>10, <1>11, <1>12 DEF WalIInv

\* A restart, also in the middle of a flush, keeps the invariant: either open()
\* has left the record boundaries or it continues above all LSNs of the file.
LEMMA RestartInv ==
    ASSUME WalIInv, Restart
    PROVE  WalIInv'
<1>1. /\ buffer' = <<>> /\ file' \in PartlyWritten(file, buffer) /\ issued' = {}
      /\ restarts < Restarts /\ restarts' = restarts + 1
      /\ astray' = (astray \/ \E i \in Unscannable(file') : i < Len(file'))
      /\ UNCHANGED <<acked, failed>>
  BY DEF Restart
<1>2. PICK next \in OpenResults(file') : Opened(next)
  BY DEF Restart
<1>3. /\ file' \in Seq(WalRecord) /\ buffer' \in Seq(WalRecord)
      /\ file' \o buffer' = file'
      /\ Lsns(file) \subseteq Lsns(file')
      /\ Ascending(file \o buffer, nextLsn) => Ascending(file', nextLsn)
      /\ BufferWhole'
  BY <1>1, DrainedInv
<1>4. WalTypeOK'
  <2>1. next = OpenFails \/ next \in Nat
    BY <1>2, <1>3, OpenResultsType
  <2>2. nextLsn' \in Nat /\ open' \in {"open", "failed"}
    BY <1>2, <2>1 DEF Opened, WalIInv, WalTypeOK
  <2>3. restarts' \in 0 .. Restarts
    BY <1>1, WalAssumption DEF WalIInv, WalTypeOK
  <2> QED
    BY <1>1, <1>3, <2>2, <2>3 DEF WalIInv, WalTypeOK
<1>5. IssuedKept' /\ FlushDurable'
  BY <1>1, <1>3 DEF WalIInv, IssuedKept, FlushDurable
<1>6. ASSUME ~astray' PROVE Ascending(file', nextLsn')
  <2>1. Ascending(file', nextLsn) /\ \A i \in Unscannable(file') : ~(i < Len(file'))
    BY <1>1, <1>3, <1>6 DEF WalIInv
  <2>2. CASE next = OpenFails
    BY <1>2, <2>1, <2>2 DEF Opened
  <2>3. CASE next # OpenFails
    <3>1. Ascending(file', next)
      BY <1>2, <1>3, <2>1, <2>3, OpenContinues
    <3> QED
      BY <1>2, <2>3, <3>1 DEF Opened
  <2> QED
    BY <2>2, <2>3
<1>7. failed' \in BOOLEAN /\ astray' \in BOOLEAN
  BY <1>1 DEF WalIInv
<1> QED
  BY <1>3, <1>4, <1>5, <1>6, <1>7 DEF WalIInv

\* Every step of the log preserves the invariant.
LEMMA WalStepInv ==
    ASSUME WalIInv, [WalNext]_walVars
    PROVE  WalIInv'
<1>1. CASE UNCHANGED walVars
  BY <1>1 DEF walVars, WalIInv, WalTypeOK, Ascending, BufferWhole, WholeAt, IssuedKept,
              FlushDurable, Lsns
<1> QED
  BY <1>1, AppendRecordInv, FlushBufferInv, FlushFailsInv, CheckpointInv, RestartInv DEF WalNext

\* The log keeps its inductive invariant in every reachable state.
THEOREM WalInvariant == WalSpec => []WalIInv
<1>1. WalInit => WalIInv
  BY WalInitInv
<1>2. WalIInv /\ [WalNext]_walVars => WalIInv'
  BY WalStepInv
<1> QED
  BY <1>1, <1>2, PTL DEF WalSpec

\* The log is well typed, and unless open() has scanned from within a record,
\* file and buffer together are ordered by LSN below next_lsn: append_record
\* never hands out the LSN of a record that is still there.
THEOREM LogIsOrdered == WalSpec => []WalInv
<1>1. WalIInv => WalInv
  <2> SUFFICES ASSUME WalIInv PROVE WalInv
    OBVIOUS
  <2> DEFINE all == file \o buffer
  <2>1. WalTypeOK /\ (astray \/ Ascending(all, nextLsn))
    BY DEF WalIInv
  <2>2. WholeAt(all) \subseteq DOMAIN all
    BY DEF WholeAt
  <2> HIDE DEF all
  <2>3. astray \/ /\ \A i, j \in WholeAt(all) : i < j => all[i].lsn < all[j].lsn
                  /\ \A i \in WholeAt(all) : all[i].lsn < nextLsn
    BY <2>1, <2>2 DEF Ascending
  <2> QED
    BY <2>1, <2>3 DEF WalInv, LogOrdered, all
<1> QED
  BY <1>1, WalInvariant, PTL

\* Once flush_buffer has returned Ok, the records before it stay in the file.
THEOREM FlushIsDurable == WalSpec => []FlushDurable
<1>1. WalIInv => FlushDurable
  BY DEF WalIInv
<1> QED
  BY <1>1, WalInvariant, PTL
=============================================================================
