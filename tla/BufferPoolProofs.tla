-------------------------- MODULE BufferPoolProofs --------------------------
(***************************************************************************)
(* Proofs about BufferPool for every set of clients and frames and every   *)
(* workload: what is true of a page in a client's hands (HandlesSafe), of  *)
(* the changes made to it (ChangesKept) and of the file (NoCrossWrite).    *)
(***************************************************************************)
EXTENDS BufferPool, TLAPS, FiniteSetTheorems, SequenceTheorems, WellFoundedInduction

-----------------------------------------------------------------------------
(* The inductive invariant *)

Fetching == {"lookup", "hit", "find", "evict", "starved", "load", "remap", "read"}
Places == {"idle", "unpin", "flush", "delete", "hung"} \cup Fetching
MapHeld == {"hit", "unpin", "flush", "evict", "delete"}

\* A frame has a page exactly when it has a cell.
FrameOK(frame) ==
    \/ frame.page = NoPage /\ frame.cell = NoCell
    \/ frame.page \in Pages /\ frame.cell \in 1 .. Len(cells)

\* Frames and handles refer to cells that exist.
CopiesOK ==
    /\ Len(cells) <= load.loads
    /\ \A f \in Frames : FrameOK(frames[f])
    /\ \A c \in Clients : handle[c] # NoHandle =>
        (handle[c].page \in Pages /\ handle[c].cell \in 1 .. Len(cells))

\* A page is being read into the frame: the maps have it there already.
Filling(f) == \E c \in Clients : pc[c] = "read" /\ slot[c] = f

\* As long as no read has failed, the maps, the frames, the cells, the handles
\* and the file agree on which page is where, however calls overlap.
Matched ==
    /\ \A f \in Frames : f2p[f] = frames[f].page \/ Filling(f)
    /\ \A f \in Frames : frames[f].page # NoPage =>
        (cells[frames[f].cell].page = frames[f].page /\ frames[f].page <= total)
    /\ \A p \in Pages : p2f[p] # NoFrame => f2p[p2f[p]] = p
    /\ \A p \in Pages : IF p <= total THEN disk[p].page = p ELSE latest[p] = 0
    /\ \A c \in Clients : handle[c] # NoHandle =>
        (cells[handle[c].cell].page = handle[c].page /\ handle[c].page <= total)

\* PinsCoverHandles, of finite sets.
Covered ==
    stuck \/ (IsFiniteSet(Holders) /\ IsFiniteSet(Pins) /\ PinsCoverHandles)

HoldersOf(p) == {c \in Clients : handle[c].page = p}

\* When calls do not overlap, a page is in the frame the map says and in no other,
\* and that frame has a pin for every client that holds the page.
Resident ==
    /\ \A f \in Frames : frames[f].page # NoPage => p2f[frames[f].page] = f
    /\ \A p \in Pages : IsFiniteSet(HoldersOf(p))
    /\ \A p \in Pages : p2f[p] # NoFrame => Cardinality(HoldersOf(p)) <= frames[p2f[p]].pins

Changed(p) == \E c \in Clients : handle[c].page = p /\ handle[c].changed
Saved(p) == disk[p] = Content(p, latest[p])

\* A page that is not marked dirty, and will not be by a client that holds it, is
\* in the file as last changed.
CleanSaved ==
    \A f \in Frames :
        (frames[f].page # NoPage /\ ~frames[f].dirty) =>
            (Changed(frames[f].page) \/ Saved(frames[f].page))

\* A client that holds a page works on the cell of its frame.
Kept ==
    \A c \in Clients : handle[c] # NoHandle =>
        p2f[handle[c].page] # NoFrame /\ frames[p2f[handle[c].page]].cell = handle[c].cell

\* A page that is in a frame has its last change there, any other in the file.
Fresh(p) ==
    IF p2f[p] # NoFrame THEN cells[frames[p2f[p]].cell] = Content(p, latest[p]) ELSE Saved(p)

NoLost == \A p \in 1 .. total : Fresh(p)

\* Calls that do not overlap, no read has failed, nobody hangs in delete_page; and
\* no frame is between the change of the maps and the read of its page.
Sequential == ~load.overlap
Quiet == \A c \in Clients : pc[c] # "read"
Exact == Sequential /\ ~misread /\ ~stuck /\ Quiet

\* What holds between the calls and through them.
PoolInv ==
    /\ CopiesOK
    /\ ~misread => Matched
    /\ Covered
    /\ Exact => (Resident /\ Kept /\ NoLost /\ CleanSaved)

\* Where the calls are, and that what they go on with is there.
CallsOK ==
    /\ load \in Workload
    /\ pc \in [Clients -> Places]
    /\ want \in [Clients -> 0 .. MaxPages]
    /\ slot \in [Clients -> Frames \cup {NoFrame}]
    /\ todo \in [Clients -> SUBSET Frames]
    /\ stuck \in BOOLEAN /\ misread \in BOOLEAN
    /\ \A c \in Clients :
        /\ pc[c] \in Fetching => (want[c] \in Pages /\ handle[c] = NoHandle)
        /\ pc[c] = "delete" => want[c] \in Pages
        /\ pc[c] \in {"load", "remap", "read"} => slot[c] \in Frames
        /\ pc[c] = "hung" => stuck
        /\ pc[c] = "unpin" => handle[c] # NoHandle

\* What the lock on page_to_frame protects: an entry a client found is still
\* there when it gets to the frame.  What the mutex of a frame protects: one client
\* at a time fills it, and the map keeps the page that is being read into it.
Locks ==
    /\ \A c \in Clients : pc[c] = "hit" => p2f[want[c]] # NoFrame
    /\ \A c \in Clients : pc[c] = "unpin" => p2f[handle[c].page] # NoFrame
    /\ \A c, d \in Clients : (pc[c] = "delete" /\ pc[d] \in MapHeld) => c = d
    /\ \A c, d \in Clients :
        (pc[c] \in {"remap", "read"} /\ pc[d] \in {"remap", "read"} /\ slot[c] = slot[d]) => c = d
    /\ \A c \in Clients : pc[c] = "read" => f2p[slot[c]] = want[c]

\* Calls that do not overlap: one client at a time is in the pool, for good if it
\* hangs there.
OneAtATime ==
    /\ \A c, d \in Clients : (pc[c] # "idle" /\ pc[d] # "idle") => c = d
    /\ stuck => \E c \in Clients : pc[c] = "hung"

\* Then the page a fetch is about to load is not in the pool, and the frame it is
\* about to refill is nobody's.
Steady ==
    /\ \A c \in Clients : pc[c] \in {"find", "evict", "load", "remap"} => p2f[want[c]] = NoFrame
    /\ \A c, d \in Clients : (pc[c] \in {"load", "remap"} /\ handle[d] # NoHandle) =>
        p2f[handle[d].page] # slot[c]

\* And what was written so far by an eviction or a flush is in the file.
Written ==
    /\ \A c \in Clients :
        (pc[c] = "remap" /\ frames[slot[c]].page # NoPage) => Saved(frames[slot[c]].page)
    /\ \A c \in Clients : pc[c] = "flush" =>
        \A p \in 1 .. total :
            (p2f[p] = NoFrame \/ p2f[p] \notin todo[c]) => (Changed(p) \/ Saved(p))

\* While page want[c] is read into frame slot[c]: every other page is as before,
\* the page itself is in nobody's hands, and what was in the frame is in the file.
Between(c) ==
    /\ p2f[want[c]] = slot[c]
    /\ \A q \in Pages : q # want[c] => p2f[q] # slot[c]
    /\ \A f \in Frames \ {slot[c]} : frames[f].page # NoPage =>
        p2f[frames[f].page] = f /\ frames[f].page # want[c]
    /\ \A p \in Pages : IsFiniteSet(HoldersOf(p))
    /\ \A p \in Pages \ {want[c]} : p2f[p] # NoFrame => Cardinality(HoldersOf(p)) <= frames[p2f[p]].pins
    /\ \A d \in Clients : handle[d] # NoHandle => handle[d].page # want[c]
    /\ Kept
    /\ \A p \in 1 .. total : IF p = want[c] THEN Saved(p) ELSE Fresh(p)
    /\ \A f \in Frames \ {slot[c]} :
        (frames[f].page # NoPage /\ ~frames[f].dirty) =>
            (Changed(frames[f].page) \/ Saved(frames[f].page))

Betweens == \A c \in Clients : (Sequential /\ ~misread /\ pc[c] = "read") => Between(c)

\* When a client hangs in delete_page, only its own page has left the pool.
Frozen == (Sequential /\ ~misread /\ stuck) => PinnedResident

\* What holds of the calls under way.
CallInv ==
    /\ CallsOK
    /\ Locks
    /\ Sequential => OneAtATime
    /\ Exact => (Steady /\ Written)
    /\ Betweens
    /\ Frozen

BpIInv == BpTypeOK /\ PoolInv /\ CallInv

-----------------------------------------------------------------------------
(* Facts used throughout *)

\* Every nonempty set of naturals has a least element, from the library's
\* theorem on well-founded relations.
LEMMA LeastExists ==
    ASSUME NEW T \in SUBSET Nat, T # {}
    PROVE  \E n \in T : \A m \in T : n <= m
<1> DEFINE R == OpToRel(<, Nat)
<1>1. \E n \in T : \A m \in T : ~(<<m, n>> \in R)
    BY NatLessThanWellFounded, WFMin
<1>2. \A m, n \in Nat : m < n => <<m, n>> \in R
    BY DEF OpToRel
<1>3. PICK L : /\ \E n \in T : \A m \in T : ~(<<m, n>> \in L)
               /\ \A m, n \in Nat : m < n => <<m, n>> \in L
    BY <1>1, <1>2
<1>4. PICK n \in T : \A m \in T : ~(<<m, n>> \in L)
    BY <1>3
<1>5. n \in Nat /\ \A m \in T : m \in Nat
    OBVIOUS
<1>6. \A m \in T : ~(m < n)
    BY <1>3, <1>4, <1>5
<1>7. \A m \in T : n <= m
    BY <1>5, <1>6
<1> QED
    BY <1>7

\* A step of client c that neither starts nor ends the reading of a page.
Moves(c) ==
    /\ pc[c] \notin {"read", "hung"} /\ (pc[c] = "idle" => MayCall(c))
    /\ pc'[c] \notin {"read", "hung"}
    /\ \A d \in Clients : d # c => pc'[d] = pc[d] /\ slot'[d] = slot[d] /\ want'[d] = want[d]
    /\ UNCHANGED <<load, stuck, misread>>

\* What such a step leaves alone: no frame is being filled that was not before, and
\* when calls do not overlap, the other clients are idle.
Carried(c) ==
    /\ \A f \in Frames : Filling(f)' <=> Filling(f)
    /\ Exact' <=> Exact
    /\ Sequential' <=> Sequential
    /\ Sequential => \A d \in Clients : d # c => pc[d] = "idle" /\ pc'[d] = "idle"
    /\ Exact => \A d \in Clients : d # c => pc[d] = "idle" /\ pc'[d] = "idle"
    /\ Betweens' /\ Frozen'

\* When calls do not overlap, no page is being read then and nobody hangs.
LEMMA MovesKeep ==
    ASSUME BpIInv, NEW c \in Clients, Moves(c)
    PROVE  Carried(c)
<1>1. \A f \in Frames : Filling(f)' <=> Filling(f)
  BY DEF Filling, Moves
<1>2. Sequential' <=> Sequential
  BY DEF Sequential, Moves
<1>3. Sequential => \A d \in Clients : d # c => pc[d] = "idle" /\ pc'[d] = "idle"
  BY DEF Moves, MayCall, Sequential, BpIInv, CallInv, OneAtATime
<1>4. Sequential => Quiet /\ Quiet' /\ ~stuck /\ ~stuck'
  BY <1>3 DEF Moves, Quiet, BpIInv, CallInv, OneAtATime
<1>5. Exact' <=> Exact
  BY <1>2, <1>4 DEF Exact, Moves
<1>6. Betweens'
  BY <1>2, <1>4 DEF Betweens, Quiet
<1>7. Frozen'
  BY <1>2, <1>4 DEF Frozen
<1>8. Exact => Sequential
  BY DEF Exact
<1>9. QED
  BY <1>1, <1>2, <1>3, <1>5, <1>6, <1>7, <1>8 DEF Carried

\* A step that changes neither the pool, the file nor a handle keeps PoolInv.
LEMMA PoolUnchanged ==
    ASSUME PoolInv,
           UNCHANGED <<load, frames, cells, p2f, f2p, total, disk, handle, stuck, misread, latest>>,
           Exact' <=> Exact, \A f \in Frames : Filling(f)' <=> Filling(f)
    PROVE  PoolInv'
<1>1. CopiesOK' = CopiesOK
    BY DEF CopiesOK, FrameOK
<1>2. Matched' <=> Matched
    BY DEF Matched
<1>3. Covered' = Covered
    BY DEF Covered, Holders, Pins, PinsCoverHandles
<1>4. Resident' = Resident
    BY DEF Resident, HoldersOf
<1>5. Kept' = Kept
    BY DEF Kept
<1>6. NoLost' = NoLost
    BY DEF NoLost, Fresh, Saved
<1>7. CleanSaved' = CleanSaved
    BY DEF CleanSaved, Changed, Saved
<1> QED
    BY <1>1, <1>2, <1>3, <1>4, <1>5, <1>6, <1>7 DEF PoolInv

\* An entry of page_to_frame leads to the page's frame, unless the page is still
\* being read into it.
LEMMA MapLeads ==
    ASSUME BpIInv, NEW p \in Pages, p2f[p] # NoFrame
    PROVE  /\ p2f[p] \in Frames /\ p # NoPage
           /\ ~misread => f2p[p2f[p]] = p
           /\ (~misread /\ ~Filling(p2f[p])) =>
                (frames[p2f[p]].page = p /\ frames[p2f[p]].page # NoPage)
           /\ Exact => (frames[p2f[p]].page = p /\ frames[p2f[p]].page # NoPage)
<1>1. p2f[p] \in Frames
    BY DEF BpIInv, BpTypeOK
<1>2. p # NoPage
    BY DEF Pages, NoPage
<1>3. ~misread => f2p[p2f[p]] = p
    BY DEF BpIInv, PoolInv, Matched
<1>4. (~misread /\ ~Filling(p2f[p])) => frames[p2f[p]].page = p
    BY <1>1, <1>3 DEF BpIInv, PoolInv, Matched
<1>5. Exact => (~misread /\ ~Filling(p2f[p]))
    BY DEF Exact, Quiet, Filling
<1> QED
    BY <1>1, <1>2, <1>3, <1>4, <1>5

\* fetch_page starts: nothing but the place of the client changes.
LEMMA FetchStep ==
    ASSUME BpIInv, UNCHANGED load, NEW c \in Clients, NEW p \in Pages, Fetch(c, p)
    PROVE  BpIInv'
<1> USE BufferPoolAssumption DEF Fetch, MayCall, poolVars, fileVars
<1>0. Carried(c)
    BY MovesKeep DEF BpIInv, CallInv, CallsOK, Moves, MayCall, Goto, Done
<1>1. BpTypeOK'
    BY DEF BpIInv, BpTypeOK
<1>2. PoolInv'
    BY <1>0, PoolUnchanged DEF BpIInv, Carried
<1>3. CallsOK'
    BY DEF BpIInv, CallInv, BpTypeOK, CallsOK, Fetching, Places, Pages, NoPage, NoFrame, NoCell, NoHandle
<1>4. Locks'
    BY DEF BpIInv, CallInv, CallsOK, Locks, MapHeld, Fetching
<1>5. Sequential' => OneAtATime'
    BY DEF BpIInv, CallInv, CallsOK, Sequential, OneAtATime
<1>6. Exact' => Steady'
    BY <1>0 DEF Carried, BpIInv, CallInv, PoolInv, BpTypeOK, CallsOK, Exact, Sequential, OneAtATime, Steady, Resident, Kept
<1>7. Exact' => Written'
    BY <1>0 DEF Carried, BpIInv, CallInv, PoolInv, BpTypeOK, CallsOK, Exact, Sequential, OneAtATime, Written, Changed, Saved
<1> QED
    BY <1>0, <1>1, <1>2, <1>3, <1>4, <1>5, <1>6, <1>7 DEF BpIInv, CallInv, Carried

\* fetch_page looks the page up under the lock on page_to_frame.
LEMMA FetchLookupStep ==
    ASSUME BpIInv, UNCHANGED load, NEW c \in Clients, FetchLookup(c)
    PROVE  BpIInv'
<1> USE BufferPoolAssumption DEF FetchLookup, MapReadable, Goto, poolVars, fileVars
<1>0. Carried(c)
    BY MovesKeep DEF BpIInv, CallInv, CallsOK, Moves, MayCall, Goto, Done
<1>1. BpTypeOK'
    BY DEF BpIInv, BpTypeOK
<1>2. PoolInv'
    BY <1>0, PoolUnchanged DEF BpIInv, Carried
<1>3. CallsOK'
    BY DEF BpIInv, CallInv, BpTypeOK, CallsOK, Fetching, Places, Pages, NoPage, NoFrame, NoCell, NoHandle
<1>4. Locks'
    BY DEF BpIInv, CallInv, CallsOK, Locks, MapHeld, Fetching
<1>5. Sequential' => OneAtATime'
    BY DEF BpIInv, CallInv, CallsOK, Sequential, OneAtATime
<1>6. Exact' => Steady'
    BY <1>0 DEF Carried, BpIInv, CallInv, PoolInv, BpTypeOK, CallsOK, Exact, Sequential, OneAtATime, Steady, Resident, Kept
<1>7. Exact' => Written'
    BY <1>0 DEF Carried, BpIInv, CallInv, PoolInv, BpTypeOK, CallsOK, Exact, Sequential, OneAtATime, Written, Changed, Saved
<1> QED
    BY <1>0, <1>1, <1>2, <1>3, <1>4, <1>5, <1>6, <1>7 DEF BpIInv, CallInv, Carried

\* find_available_frame takes an empty frame, which no handle leads to, or goes on to
\* the LRU list.
LEMMA FindEmptyStep ==
    ASSUME BpIInv, UNCHANGED load, NEW c \in Clients, FindEmpty(c)
    PROVE  BpIInv'
<1> USE BufferPoolAssumption DEF FindEmpty, MapReadable, Empty, Workload, poolVars, fileVars
<1>0. Carried(c)
    BY MovesKeep DEF BpIInv, CallInv, CallsOK, Moves, MayCall, Goto, Done
<1>1. BpTypeOK'
    BY DEF BpIInv, BpTypeOK
<1>2. PoolInv'
    BY <1>0, PoolUnchanged DEF BpIInv, Carried
<1>3. CallsOK'
  <2>1. slot' \in [Clients -> Frames \cup {NoFrame}] /\ (pc'[c] = "load" => slot'[c] \in Frames)
    <3>1. CASE UNCHANGED slot /\ pc' = [pc EXCEPT ![c] = "evict"]
      BY <3>1 DEF BpIInv, CallInv, CallsOK
    <3>2. CASE Empty # {} /\ slot' = [slot EXCEPT ![c] = CHOOSE f \in Empty : \A g \in Empty : f <= g]
      <4>1. Empty \in SUBSET Nat /\ Empty \subseteq Frames
        BY DEF BpIInv, CallInv, CallsOK
      <4>2. \E f \in Empty : \A g \in Empty : f <= g
        BY <4>1, <3>2, LeastExists
      <4>3. (CHOOSE f \in Empty : \A g \in Empty : f <= g) \in Frames
        BY <4>1, <4>2
      <4> QED
        BY <4>3, <3>2 DEF BpIInv, CallInv, CallsOK
    <3> QED
      BY <3>1, <3>2
  <2>2. pc' \in [Clients -> Places] /\ pc'[c] \in {"load", "evict"}
    BY DEF BpIInv, CallInv, CallsOK, Places, Fetching
  <2>3. \A d \in Clients : d # c => (pc'[d] = pc[d] /\ slot'[d] = slot[d])
    BY DEF BpIInv, CallInv, CallsOK
  <2> QED
    BY <2>1, <2>2, <2>3 DEF BpIInv, CallInv, CallsOK, Fetching
<1>4. Locks'
    BY DEF BpIInv, CallInv, CallsOK, Locks, MapHeld, Fetching
<1>5. Sequential' => OneAtATime'
    BY DEF BpIInv, CallInv, CallsOK, Sequential, OneAtATime
<1>6. Exact' => Steady'
  <2> SUFFICES ASSUME Exact
               PROVE  Steady'
    BY <1>0 DEF Carried
  <2>1. \A d \in Clients : d # c => (pc'[d] = pc[d] /\ slot'[d] = slot[d])
    BY DEF BpIInv, CallInv, CallsOK
  <2>2. pc'[c] \in {"load", "evict"} /\ p2f[want[c]] = NoFrame
    BY DEF BpIInv, CallInv, CallsOK, Steady
  <2>3. ASSUME pc'[c] = "load", NEW d \in Clients, handle[d] # NoHandle
        PROVE  p2f[handle[d].page] # slot'[c]
    <3>1. slot'[c] \in Frames /\ frames[slot'[c]].page = NoPage
      <4>1. Empty # {} /\ slot' = [slot EXCEPT ![c] = CHOOSE f \in Empty : \A g \in Empty : f <= g]
        BY <2>3 DEF BpIInv, CallInv, CallsOK
      <4>2. Empty \in SUBSET Nat /\ Empty \subseteq Frames
        BY DEF BpIInv, CallInv, CallsOK
      <4>3. \E f \in Empty : \A g \in Empty : f <= g
        BY <4>1, <4>2, LeastExists
      <4>4. (CHOOSE f \in Empty : \A g \in Empty : f <= g) \in Empty
        BY <4>3
      <4>5. slot'[c] \in Empty
        BY <4>1, <4>4 DEF BpIInv, CallInv, CallsOK
      <4> QED
        BY <4>2, <4>5
    <3>2. handle[d].page \in Pages
      BY <2>3 DEF BpIInv, PoolInv, CopiesOK
    <3> QED
      BY <3>1, <3>2, MapLeads, BufferPoolAssumption DEF NoFrame
  <2>4. \A d \in Clients : pc'[d] = "delete" => pc[d] = "delete"
    BY <2>1, <2>2
  <2> QED
    BY <2>1, <2>2, <2>3, <2>4 DEF BpIInv, CallInv, Steady
<1>7. Exact' => Written'
  <2>1. \A d \in Clients : d # c => (pc'[d] = pc[d] /\ slot'[d] = slot[d])
    BY DEF BpIInv, CallInv, CallsOK
  <2>2. pc'[c] \notin {"remap", "flush"}
    BY DEF BpIInv, CallInv, CallsOK
  <2>3. \A p : Changed(p)' = Changed(p) /\ Saved(p)' = Saved(p)
    BY DEF Changed, Saved
  <2> QED
    BY <1>0, <2>1, <2>2, <2>3 DEF BpIInv, CallInv, Carried, Written
<1> QED
    BY <1>0, <1>1, <1>2, <1>3, <1>4, <1>5, <1>6, <1>7 DEF BpIInv, CallInv, Carried

\* find_available_frame takes a frame without pins: no client holds its page, because
\* every handle has a pin.
LEMMA FindVictimStep ==
    ASSUME BpIInv, UNCHANGED load, NEW c \in Clients, FindVictim(c)
    PROVE  BpIInv'
<1> USE BufferPoolAssumption DEF FindVictim, Victims, poolVars, fileVars
<1>0. Carried(c)
    BY MovesKeep DEF BpIInv, CallInv, CallsOK, Moves, MayCall, Goto, Done
<1>1. BpTypeOK'
  <2>1. lru' \in Seq(Pages)
    <3>1. lru \in Seq(Pages)
      BY DEF BpIInv, BpTypeOK
    <3>2. <<>> \in Seq(Pages)
      OBVIOUS
    <3>3. ASSUME NEW i \in Victims
          PROVE  SubSeq(lru, i + 1, Len(lru)) \in Seq(Pages)
      <4>1. i \in 1 .. Len(lru) /\ Len(lru) \in Nat
        BY <3>1, <3>3 DEF Victims
      <4>2. i + 1 \in 1 .. Len(lru) + 1
        BY <4>1
      <4> QED
        BY <3>1, <4>1, <4>2, SubSeqProperties
    <3> QED
      BY <3>2, <3>3
  <2> QED
    BY <2>1 DEF BpIInv, BpTypeOK
<1>2. PoolInv'
    BY <1>0, PoolUnchanged DEF BpIInv, Carried
<1>3. CallsOK'
  <2>1. slot' \in [Clients -> Frames \cup {NoFrame}] /\ (pc'[c] = "load" => slot'[c] \in Frames)
    <3>1. \A i \in Victims : p2f[lru[i]] \in Frames
      BY DEF BpIInv, BpTypeOK
    <3> QED
      BY <3>1 DEF BpIInv, CallInv, CallsOK
  <2>2. pc' \in [Clients -> Places] /\ pc'[c] \in {"load", "starved"}
    BY DEF BpIInv, CallInv, CallsOK, Places, Fetching
  <2>3. \A d \in Clients : d # c => (pc'[d] = pc[d] /\ slot'[d] = slot[d])
    BY DEF BpIInv, CallInv, CallsOK
  <2> QED
    BY <2>1, <2>2, <2>3 DEF BpIInv, CallInv, CallsOK, Fetching
<1>4. Locks'
  <2>1. \A d \in Clients : d # c => pc'[d] = pc[d] /\ slot'[d] = slot[d]
    BY DEF BpIInv, CallInv, CallsOK
  <2>2. pc'[c] \notin MapHeld \cup {"remap", "read"}
    BY DEF BpIInv, CallInv, CallsOK, MapHeld
  <2> QED
    BY <2>1, <2>2 DEF BpIInv, CallInv, Locks, MapHeld
<1>5. Sequential' => OneAtATime'
    BY DEF BpIInv, CallInv, CallsOK, Sequential, OneAtATime
<1>6. Exact' => Steady'
  <2> SUFFICES ASSUME Exact
               PROVE  Steady'
    BY <1>0 DEF Carried
  <2>1. \A d \in Clients : d # c => (pc'[d] = pc[d] /\ slot'[d] = slot[d])
    BY DEF BpIInv, CallInv, CallsOK
  <2>2. pc'[c] \in {"load", "starved"} /\ p2f[want[c]] = NoFrame
    BY DEF BpIInv, CallInv, CallsOK, Steady
  <2>3. ASSUME pc'[c] = "load", NEW d \in Clients, handle[d] # NoHandle
        PROVE  p2f[handle[d].page] # slot'[c]
    <3>1. PICK i \in Victims : slot'[c] = p2f[lru[i]]
      BY <2>3 DEF BpIInv, CallInv, CallsOK
    <3>2. lru[i] \in Pages /\ p2f[lru[i]] \in Frames /\ frames[p2f[lru[i]]].pins = 0
      BY DEF BpIInv, BpTypeOK
    <3>3. HoldersOf(lru[i]) = {}
      BY <3>2, FS_EmptySet, FS_CardinalityType DEF BpIInv, PoolInv, Exact, Resident
    <3>4. handle[d].page \in Pages /\ handle[d].page # lru[i]
      BY <2>3, <3>3 DEF BpIInv, PoolInv, CopiesOK, HoldersOf
    <3> QED
      BY <3>1, <3>2, <3>4, MapLeads DEF Exact
  <2>4. \A d \in Clients : pc'[d] = "delete" => pc[d] = "delete"
    BY <2>1, <2>2
  <2> QED
    BY <2>1, <2>2, <2>3, <2>4 DEF BpIInv, CallInv, Steady
<1>7. Exact' => Written'
  <2>1. \A d \in Clients : d # c => (pc'[d] = pc[d] /\ slot'[d] = slot[d])
    BY DEF BpIInv, CallInv, CallsOK
  <2>2. pc'[c] \notin {"remap", "flush"}
    BY DEF BpIInv, CallInv, CallsOK
  <2>3. \A p : Changed(p)' = Changed(p) /\ Saved(p)' = Saved(p)
    BY DEF Changed, Saved
  <2> QED
    BY <1>0, <2>1, <2>2, <2>3 DEF BpIInv, CallInv, Carried, Written
<1> QED
    BY <1>0, <1>1, <1>2, <1>3, <1>4, <1>5, <1>6, <1>7 DEF BpIInv, CallInv, Carried

\* fetch_page returns an error when every frame is pinned.
LEMMA FetchFailsStep ==
    ASSUME BpIInv, UNCHANGED load, NEW c \in Clients, FetchFails(c)
    PROVE  BpIInv'
<1> USE BufferPoolAssumption DEF FetchFails, Done, poolVars, fileVars
<1>0. Carried(c)
    BY MovesKeep DEF BpIInv, CallInv, CallsOK, Moves, MayCall, Goto, Done
<1>1. BpTypeOK'
    BY DEF BpIInv, BpTypeOK
<1>2. PoolInv'
    BY <1>0, PoolUnchanged DEF BpIInv, Carried
<1>3. CallsOK'
  <2>1. want' \in [Clients -> 0 .. MaxPages] /\ slot' \in [Clients -> Frames \cup {NoFrame}]
    BY DEF BpIInv, CallInv, CallsOK, NoPage, NoFrame
  <2>2. pc' \in [Clients -> Places]
    BY DEF BpIInv, CallInv, CallsOK, Places
  <2>3. \A d \in Clients : d # c => (pc'[d] = pc[d] /\ want'[d] = want[d] /\ slot'[d] = slot[d])
    BY DEF BpIInv, CallInv, CallsOK
  <2>4. pc'[c] = "idle"
    BY DEF BpIInv, CallInv, CallsOK
  <2> QED
    BY <2>1, <2>2, <2>3, <2>4 DEF BpIInv, CallInv, CallsOK, Fetching
<1>4. Locks'
    BY DEF BpIInv, CallInv, CallsOK, Locks, MapHeld, Fetching
<1>5. Sequential' => OneAtATime'
    BY DEF BpIInv, CallInv, CallsOK, Sequential, OneAtATime
<1>6. Exact' => Steady'
    BY <1>0 DEF Carried, BpIInv, CallInv, PoolInv, BpTypeOK, CallsOK, Exact, Sequential, OneAtATime, Steady, Resident, Kept
<1>7. Exact' => Written'
    BY <1>0 DEF Carried, BpIInv, CallInv, PoolInv, BpTypeOK, CallsOK, Exact, Sequential, OneAtATime, Written, Changed, Saved
<1> QED
    BY <1>0, <1>1, <1>2, <1>3, <1>4, <1>5, <1>6, <1>7 DEF BpIInv, CallInv, Carried

\* fetch_page returns an error when the write back fails; the page stays in its frame.
LEMMA WriteBackFailsStep ==
    ASSUME BpIInv, UNCHANGED load, NEW c \in Clients, WriteBackFails(c)
    PROVE  BpIInv'
<1> USE BufferPoolAssumption DEF WriteBackFails, Done, poolVars, fileVars
<1>0. Carried(c)
    BY MovesKeep DEF BpIInv, CallInv, CallsOK, Moves, MayCall, Goto, Done
<1>1. BpTypeOK'
    BY DEF BpIInv, BpTypeOK
<1>2. PoolInv'
    BY <1>0, PoolUnchanged DEF BpIInv, Carried
<1>3. CallsOK'
  <2>1. want' \in [Clients -> 0 .. MaxPages] /\ slot' \in [Clients -> Frames \cup {NoFrame}]
    BY DEF BpIInv, CallInv, CallsOK, NoPage, NoFrame
  <2>2. pc' \in [Clients -> Places]
    BY DEF BpIInv, CallInv, CallsOK, Places
  <2>3. \A d \in Clients : d # c => (pc'[d] = pc[d] /\ want'[d] = want[d] /\ slot'[d] = slot[d])
    BY DEF BpIInv, CallInv, CallsOK
  <2>4. pc'[c] = "idle"
    BY DEF BpIInv, CallInv, CallsOK
  <2> QED
    BY <2>1, <2>2, <2>3, <2>4 DEF BpIInv, CallInv, CallsOK, Fetching
<1>4. Locks'
    BY DEF BpIInv, CallInv, CallsOK, Locks, MapHeld, Fetching
<1>5. Sequential' => OneAtATime'
    BY DEF BpIInv, CallInv, CallsOK, Sequential, OneAtATime
<1>6. Exact' => Steady'
    BY <1>0 DEF Carried, BpIInv, CallInv, PoolInv, BpTypeOK, CallsOK, Exact, Sequential, OneAtATime, Steady, Resident, Kept
<1>7. Exact' => Written'
    BY <1>0 DEF Carried, BpIInv, CallInv, PoolInv, BpTypeOK, CallsOK, Exact, Sequential, OneAtATime, Written, Changed, Saved
<1> QED
    BY <1>0, <1>1, <1>2, <1>3, <1>4, <1>5, <1>6, <1>7 DEF BpIInv, CallInv, Carried

\* flush_all_pages starts: a page it will not visit is in no frame, and so in the file.
LEMMA FlushStep ==
    ASSUME BpIInv, UNCHANGED load, NEW c \in Clients, Flush(c)
    PROVE  BpIInv'
<1> USE BufferPoolAssumption DEF Flush, MayCall, MapReadable, poolVars, fileVars
<1>0. Carried(c)
    BY MovesKeep DEF BpIInv, CallInv, CallsOK, Moves, MayCall, Goto, Done
<1>1. BpTypeOK'
    BY DEF BpIInv, BpTypeOK
<1>2. PoolInv'
    BY <1>0, PoolUnchanged DEF BpIInv, Carried
<1>3. CallsOK'
    BY DEF BpIInv, CallInv, BpTypeOK, CallsOK, Fetching, Places, Pages, NoPage, NoFrame, NoCell, NoHandle
<1>4. Locks'
    BY DEF BpIInv, CallInv, CallsOK, Locks, MapHeld, Fetching
<1>5. Sequential' => OneAtATime'
    BY DEF BpIInv, CallInv, CallsOK, Sequential, OneAtATime
<1>6. Exact' => Steady'
    BY <1>0 DEF Carried, BpIInv, CallInv, PoolInv, BpTypeOK, CallsOK, Exact, Sequential, OneAtATime, Steady, Resident, Kept
<1>7. Exact' => Written'
  <2> SUFFICES ASSUME Exact
               PROVE  Written'
    BY <1>0 DEF Carried
  <2>1. \A d \in Clients : d # c => (pc'[d] = pc[d] /\ todo'[d] = todo[d])
    BY DEF BpIInv, CallInv, CallsOK
  <2>2. pc'[c] = "flush" /\ todo'[c] = {f \in Frames : f2p[f] # NoPage}
    BY DEF BpIInv, CallInv, CallsOK
  <2>3. \A p : Changed(p)' = Changed(p) /\ Saved(p)' = Saved(p)
    BY DEF Changed, Saved
  <2>4. ASSUME NEW p \in 1 .. total, p2f[p] = NoFrame \/ p2f[p] \notin todo'[c]
        PROVE  Saved(p)
    <3>1. p \in Pages
      BY DEF BpIInv, BpTypeOK, Pages
    <3>2. p2f[p] # NoFrame => (p2f[p] \in Frames /\ f2p[p2f[p]] = p)
      <4>1. Matched /\ p2f[p] \in Frames \cup {NoFrame}
        BY <3>1 DEF BpIInv, PoolInv, BpTypeOK, Exact
      <4> QED
        BY <3>1, <4>1 DEF Matched
    <3>3. p2f[p] = NoFrame
      BY <2>2, <2>4, <3>1, <3>2 DEF Pages, NoPage
    <3> QED
      BY <3>3 DEF BpIInv, PoolInv, NoLost, Fresh
  <2>5. pc'[c] # "remap"
    BY <2>2
  <2> QED
    BY <2>1, <2>2, <2>3, <2>4, <2>5 DEF BpIInv, CallInv, Written
<1> QED
    BY <1>0, <1>1, <1>2, <1>3, <1>4, <1>5, <1>6, <1>7 DEF BpIInv, CallInv, Carried

\* flush_all_pages returns an error.
LEMMA FlushFailsStep ==
    ASSUME BpIInv, UNCHANGED load, NEW c \in Clients, NEW f \in Frames, FlushFails(c, f)
    PROVE  BpIInv'
<1> USE BufferPoolAssumption DEF FlushFails, Goto, poolVars, fileVars
<1>0. Carried(c)
    BY MovesKeep DEF BpIInv, CallInv, CallsOK, Moves, MayCall, Goto, Done
<1>1. BpTypeOK'
    BY DEF BpIInv, BpTypeOK
<1>2. PoolInv'
    BY <1>0, PoolUnchanged DEF BpIInv, Carried
<1>3. CallsOK'
    BY DEF BpIInv, CallInv, BpTypeOK, CallsOK, Fetching, Places, Pages, NoPage, NoFrame, NoCell, NoHandle
<1>4. Locks'
    BY DEF BpIInv, CallInv, CallsOK, Locks, MapHeld, Fetching
<1>5. Sequential' => OneAtATime'
    BY DEF BpIInv, CallInv, CallsOK, Sequential, OneAtATime
<1>6. Exact' => Steady'
    BY <1>0 DEF Carried, BpIInv, CallInv, PoolInv, BpTypeOK, CallsOK, Exact, Sequential, OneAtATime, Steady, Resident, Kept
<1>7. Exact' => Written'
  <2>1. \A d \in Clients : d # c => (pc'[d] = pc[d] /\ todo'[d] = todo[d])
    BY DEF BpIInv, CallInv, CallsOK
  <2>2. pc'[c] = "idle"
    BY DEF BpIInv, CallInv, CallsOK
  <2>3. \A p : Changed(p)' = Changed(p) /\ Saved(p)' = Saved(p)
    BY DEF Changed, Saved
  <2> QED
    BY <1>0, <2>1, <2>2, <2>3 DEF BpIInv, CallInv, Carried, Written
<1> QED
    BY <1>0, <1>1, <1>2, <1>3, <1>4, <1>5, <1>6, <1>7 DEF BpIInv, CallInv, Carried

\* flush_all_pages returns.
LEMMA FlushReturnsStep ==
    ASSUME BpIInv, UNCHANGED load, NEW c \in Clients, FlushReturns(c)
    PROVE  BpIInv'
<1> USE BufferPoolAssumption DEF FlushReturns, Goto, poolVars, fileVars
<1>0. Carried(c)
    BY MovesKeep DEF BpIInv, CallInv, CallsOK, Moves, MayCall, Goto, Done
<1>1. BpTypeOK'
    BY DEF BpIInv, BpTypeOK
<1>2. PoolInv'
    BY <1>0, PoolUnchanged DEF BpIInv, Carried
<1>3. CallsOK'
    BY DEF BpIInv, CallInv, BpTypeOK, CallsOK, Fetching, Places, Pages, NoPage, NoFrame, NoCell, NoHandle
<1>4. Locks'
    BY DEF BpIInv, CallInv, CallsOK, Locks, MapHeld, Fetching
<1>5. Sequential' => OneAtATime'
    BY DEF BpIInv, CallInv, CallsOK, Sequential, OneAtATime
<1>6. Exact' => Steady'
    BY <1>0 DEF Carried, BpIInv, CallInv, PoolInv, BpTypeOK, CallsOK, Exact, Sequential, OneAtATime, Steady, Resident, Kept
<1>7. Exact' => Written'
    BY <1>0 DEF Carried, BpIInv, CallInv, PoolInv, BpTypeOK, CallsOK, Exact, Sequential, OneAtATime, Written, Changed, Saved
<1> QED
    BY <1>0, <1>1, <1>2, <1>3, <1>4, <1>5, <1>6, <1>7 DEF BpIInv, CallInv, Carried

\* delete_page locks the map for a page nobody holds.
LEMMA DeleteStep ==
    ASSUME BpIInv, UNCHANGED load, NEW c \in Clients, NEW p \in Pages, Delete(c, p)
    PROVE  BpIInv'
<1> USE BufferPoolAssumption DEF Delete, MayCall, MapWritable, poolVars, fileVars
<1>0. Carried(c)
    BY MovesKeep DEF BpIInv, CallInv, CallsOK, Moves, MayCall, Goto, Done
<1>1. BpTypeOK'
    BY DEF BpIInv, BpTypeOK
<1>2. PoolInv'
    BY <1>0, PoolUnchanged DEF BpIInv, Carried
<1>3. CallsOK'
    BY DEF BpIInv, CallInv, BpTypeOK, CallsOK, Fetching, Places, Pages, NoPage, NoFrame, NoCell, NoHandle
<1>4. Locks'
    BY DEF BpIInv, CallInv, CallsOK, Locks, MapHeld, Fetching
<1>5. Sequential' => OneAtATime'
    BY DEF BpIInv, CallInv, CallsOK, Sequential, OneAtATime
<1>6. Exact' => Steady'
    BY <1>0 DEF Carried, BpIInv, CallInv, PoolInv, BpTypeOK, CallsOK, Exact, Sequential, OneAtATime, Steady, Resident, Kept
<1>7. Exact' => Written'
    BY <1>0 DEF Carried, BpIInv, CallInv, PoolInv, BpTypeOK, CallsOK, Exact, Sequential, OneAtATime, Written, Changed, Saved
<1> QED
    BY <1>0, <1>1, <1>2, <1>3, <1>4, <1>5, <1>6, <1>7 DEF BpIInv, CallInv, Carried

-----------------------------------------------------------------------------
(* Pins and handles *)

\* update_lru keeps a list of pages.
LEMMA TouchType ==
    ASSUME NEW p \in Pages, lru \in Seq(Pages)
    PROVE  Touch(p) \in Seq(Pages)
<1> DEFINE at == {i \in DOMAIN lru : lru[i] = p}
           k == CHOOSE i \in at : TRUE
<1>1. at # {} => RemoveAt(lru, k) \in Seq(Pages)
  <2> SUFFICES ASSUME at # {}
               PROVE  RemoveAt(lru, k) \in Seq(Pages)
    OBVIOUS
  <2>1. k \in 1 .. Len(lru) /\ Len(lru) \in Nat
    OBVIOUS
  <2> HIDE DEF k
  <2>2. SubSeq(lru, 1, k - 1) \in Seq(Pages) /\ SubSeq(lru, k + 1, Len(lru)) \in Seq(Pages)
    BY <2>1, SubSeqProperties
  <2> QED
    BY <2>2, ConcatProperties DEF RemoveAt
<1>2. (IF at = {} THEN lru ELSE RemoveAt(lru, k)) \in Seq(Pages)
    BY <1>1
<1> HIDE DEF k
<1>3. Touch(p) = Append(IF at = {} THEN lru ELSE RemoveAt(lru, k), p)
    BY DEF Touch, k
<1> QED
    BY <1>2, <1>3, AppendProperties

\* A pin is a token of its frame.
LEMMA PinTokens ==
    ASSUME NEW t
    PROVE  t \in Pins <=> \E f \in Frames : \E i \in 1 .. frames[f].pins : t = <<f, i>>
    BY DEF Pins

\* BufferFrame::pin adds one token.
LEMMA PinAdded ==
    ASSUME BpTypeOK, BpTypeOK', NEW f \in Frames, IsFiniteSet(Pins),
           \A g \in Frames : frames'[g].pins = IF g = f THEN frames[f].pins + 1 ELSE frames[g].pins
    PROVE  IsFiniteSet(Pins') /\ Cardinality(Pins') = Cardinality(Pins) + 1
<1> DEFINE new == <<f, frames[f].pins + 1>>
<1>1. \A g \in Frames : frames[g].pins \in Nat
    BY DEF BpTypeOK
<1>2. Pins' = Pins \cup {new}
    BY <1>1 DEF Pins
<1>3. new \notin Pins
    BY <1>1, PinTokens
<1> QED
    BY <1>2, <1>3, FS_AddElement

\* BufferFrame::unpin takes one away.
LEMMA PinRemoved ==
    ASSUME BpTypeOK, BpTypeOK', NEW f \in Frames, IsFiniteSet(Pins), frames[f].pins # 0,
           \A g \in Frames : frames'[g].pins = IF g = f THEN frames[f].pins - 1 ELSE frames[g].pins
    PROVE  IsFiniteSet(Pins') /\ Cardinality(Pins') = Cardinality(Pins) - 1
<1> DEFINE old == <<f, frames[f].pins>>
<1>1. \A g \in Frames : frames[g].pins \in Nat
    BY DEF BpTypeOK
<1>2. Pins' = Pins \ {old}
    BY <1>1 DEF Pins
<1>3. old \in Pins
    BY <1>1, PinTokens
<1> QED
    BY <1>2, <1>3, FS_RemoveElement

-----------------------------------------------------------------------------
(* Steps that write the file *)

\* The pages of the file.
LEMMA InFile ==
    ASSUME BpIInv
    PROVE  1 .. total \subseteq Pages
<1>1. total \in Nat /\ total <= MaxPages /\ MaxPages \in Nat
    BY BufferPoolAssumption DEF BpIInv, BpTypeOK
<1> QED
    BY <1>1 DEF Pages

\* The cell of a frame that has a page, and its content when calls do not overlap.
LEMMA FrameContent ==
    ASSUME BpIInv, NEW f \in Frames, frames[f].page # NoPage
    PROVE  /\ frames[f].page \in Pages
           /\ frames[f].cell \in 1 .. Len(cells)
           /\ cells[frames[f].cell] \in [page : 0 .. MaxPages, change : 0 .. MaxChanges]
           /\ ~misread => (cells[frames[f].cell].page = frames[f].page /\ frames[f].page <= total)
           /\ Exact =>
                cells[frames[f].cell] = Content(frames[f].page, latest[frames[f].page])
<1>1. frames[f].page \in Pages /\ frames[f].cell \in 1 .. Len(cells)
    BY DEF BpIInv, PoolInv, CopiesOK, FrameOK
<1>2. cells[frames[f].cell] \in [page : 0 .. MaxPages, change : 0 .. MaxChanges]
  <2>1. cells \in Seq([page : 0 .. MaxPages, change : 0 .. MaxChanges])
    BY DEF BpIInv, BpTypeOK
  <2> QED
    BY <1>1, <2>1, ElementOfSeq
<1>3. ~misread => (cells[frames[f].cell].page = frames[f].page /\ frames[f].page <= total)
    BY DEF BpIInv, PoolInv, Matched
<1>4. Exact => cells[frames[f].cell] = Content(frames[f].page, latest[frames[f].page])
  <2> SUFFICES ASSUME Exact
               PROVE  cells[frames[f].cell] = Content(frames[f].page, latest[frames[f].page])
    OBVIOUS
  <2>1. frames[f].page \in 1 .. total
    BY <1>1, <1>3 DEF Exact, BpIInv, BpTypeOK, Pages
  <2>2. p2f[frames[f].page] = f /\ f # NoFrame
    BY BufferPoolAssumption DEF BpIInv, PoolInv, Resident, NoFrame
  <2>3. NoLost
    BY DEF BpIInv, PoolInv
  <2> QED
    BY <2>1, <2>2, <2>3 DEF NoLost, Fresh
<1> QED
    BY <1>1, <1>2, <1>3, <1>4

\* write_page of the page in a frame, to the page's own place.
LEMMA PageWritten ==
    ASSUME BpIInv, NEW c \in Clients, Carried(c), NEW f \in Frames, frames[f].page # NoPage,
           UNCHANGED <<load, frames, cells, p2f, f2p, lru, total, handle, stuck, misread, latest>>,
           NEW q, ~misread => q = frames[f].page,
           disk' = [disk EXCEPT ![q] = cells[frames[f].cell]]
    PROVE  /\ BpTypeOK' /\ PoolInv'
           /\ Exact => (Saved(frames[f].page)' /\ \A p \in Pages : Saved(p) => Saved(p)')
<1>1. \A p \in Pages : disk'[p] = IF p = q THEN cells[frames[f].cell] ELSE disk[p]
    BY DEF BpIInv, BpTypeOK
<1>2. disk' \in [Pages -> [page : 0 .. MaxPages, change : 0 .. MaxChanges]]
    BY <1>1, FrameContent DEF BpIInv, BpTypeOK
<1>3. BpTypeOK'
    BY <1>2 DEF BpIInv, BpTypeOK
<1>4. ~misread => Matched'
    BY <1>1, FrameContent DEF BpIInv, PoolInv, Matched, Carried
<1>5. Exact => (Saved(frames[f].page)' /\ \A p \in Pages : Saved(p) => Saved(p)')
  <2> SUFFICES ASSUME Exact
               PROVE  Saved(frames[f].page)' /\ \A p \in Pages : Saved(p) => Saved(p)'
    OBVIOUS
  <2>1. /\ q = frames[f].page /\ q \in Pages
        /\ cells[frames[f].cell] = Content(q, latest[q])
    BY FrameContent DEF Exact
  <2>2. disk'[q] = Content(q, latest'[q])
    BY <1>1, <2>1
  <2> QED
    BY <1>1, <2>1, <2>2 DEF Saved
<1>6. Exact => (NoLost' /\ CleanSaved')
  <2> SUFFICES ASSUME Exact
               PROVE  NoLost' /\ CleanSaved'
    OBVIOUS
  <2>1. \A p \in 1 .. total : p \in Pages
    BY InFile
  <2>2. \A p \in 1 .. total : p2f[p] = NoFrame => Saved(p)
    BY DEF BpIInv, PoolInv, NoLost, Fresh
  <2>3. NoLost'
    BY <1>5, <2>1, <2>2 DEF BpIInv, PoolInv, NoLost, Fresh
  <2>4. \A p : Changed(p)' = Changed(p)
    BY DEF Changed
  <2>5. \A g \in Frames : frames[g].page # NoPage => frames[g].page \in Pages
    BY FrameContent
  <2>6. CleanSaved'
    BY <1>5, <2>4, <2>5 DEF BpIInv, PoolInv, CleanSaved
  <2> QED
    BY <2>3, <2>6
<1>7. CopiesOK' = CopiesOK
    BY DEF CopiesOK, FrameOK
<1>8. Covered' = Covered
    BY DEF Covered, Holders, Pins, PinsCoverHandles
<1>9. Resident' = Resident
    BY DEF Resident, HoldersOf
<1>10. Kept' = Kept
    BY DEF Kept
<1>11. Exact' <=> Exact
    BY DEF Carried
<1>12. PoolInv'
    BY <1>4, <1>6, <1>7, <1>8, <1>9, <1>10, <1>11 DEF BpIInv, PoolInv
<1> QED
    BY <1>3, <1>5, <1>12

\* fetch_page, writing back the dirty page of the frame it takes: the page is in
\* the file as last changed, because it is written or because it was clean.
LEMMA WriteBackStep ==
    ASSUME BpIInv, UNCHANGED load, NEW c \in Clients, WriteBack(c)
    PROVE  BpIInv'
<1> DEFINE f == slot[c]
           Writes == frames[f].dirty /\ frames[f].page # NoPage
<1>0. Carried(c)
    BY MovesKeep DEF WriteBack, BpIInv, CallInv, CallsOK, Moves, MayCall, Goto, Done
<1>1. /\ Unlocked(f) /\ pc[c] = "load" /\ pc' = [pc EXCEPT ![c] = "remap"]
      /\ Writes => disk' = [disk EXCEPT ![frames[f].page] = cells[frames[f].cell]]
      /\ ~Writes => disk' = disk
      /\ UNCHANGED <<frames, cells, p2f, f2p, lru, total, want, slot, handle, todo, stuck, misread, latest>>
    BY DEF WriteBack, Goto, poolVars
<1>2. f \in Frames
    BY <1>1 DEF BpIInv, CallInv, CallsOK
<1>3. pc'[c] = "remap" /\ \A d \in Clients : d # c => pc'[d] = pc[d]
    BY <1>1 DEF BpIInv, CallInv, CallsOK
<1>4. BpTypeOK' /\ PoolInv'
  <2>1. CASE Writes
    BY <1>0, <1>1, <1>2, <2>1, PageWritten
  <2>2. CASE ~Writes
    BY <1>0, <1>1, <2>2, PoolUnchanged DEF BpIInv, BpTypeOK, Carried
  <2> QED
    BY <2>1, <2>2
<1>5. CallsOK'
  <2>1. pc' \in [Clients -> Places]
    BY <1>1 DEF BpIInv, CallInv, CallsOK, Places, Fetching
  <2> QED
    BY <1>1, <1>2, <1>3, <2>1 DEF BpIInv, CallInv, CallsOK, Fetching
<1>6. Locks'
    BY <1>1, <1>3 DEF BpIInv, CallInv, Locks, MapHeld, Unlocked
<1>7. Sequential' => OneAtATime'
    BY <1>1, <1>3 DEF BpIInv, CallInv, Sequential, OneAtATime
<1>8. Exact' => Steady'
    BY <1>0, <1>1, <1>3 DEF BpIInv, CallInv, Carried, Steady
<1>9. Exact' => Written'
  <2> SUFFICES ASSUME Exact
               PROVE  Written'
    BY <1>0 DEF Carried
  <2>1. \A d \in Clients : d # c => pc'[d] = "idle"
    BY <1>0 DEF Carried
  <2>2. frames[f].page # NoPage => Saved(frames[f].page)'
    <3> SUFFICES ASSUME frames[f].page # NoPage
                 PROVE  Saved(frames[f].page)'
      OBVIOUS
    <3>1. CASE Writes
      BY <1>0, <1>1, <1>2, <3>1, PageWritten
    <3>2. CASE ~Writes
      <4>1. frames[f].page \in Pages /\ p2f[frames[f].page] = f
        BY <1>2, FrameContent DEF BpIInv, PoolInv, Resident
      <4>2. ~Changed(frames[f].page)
        BY <1>1, <4>1 DEF BpIInv, CallInv, Steady, Changed, NoHandle
      <4>3. Saved(frames[f].page)
        BY <1>2, <3>2, <4>2 DEF BpIInv, PoolInv, CleanSaved
      <4> QED
        BY <1>1, <3>2, <4>3 DEF Saved
    <3> QED
      BY <3>1, <3>2
  <2> QED
    BY <1>1, <1>3, <2>1, <2>2 DEF Written
<1> QED
    BY <1>0, <1>4, <1>5, <1>6, <1>7, <1>8, <1>9 DEF BpIInv, CallInv, Carried

\* flush_all_pages at one frame: when the frame is done, its page is in the file,
\* unless a client still has a change to mark.
LEMMA FlushFrameStep ==
    ASSUME BpIInv, UNCHANGED load, NEW c \in Clients, NEW f \in Frames, FlushFrame(c, f)
    PROVE  BpIInv'
<1> DEFINE Writes == frames[f].dirty /\ frames[f].cell # NoCell
<1>0. Carried(c)
    BY MovesKeep DEF FlushFrame, BpIInv, CallInv, CallsOK, Moves, MayCall, Goto, Done
<1>1. /\ Unlocked(f) /\ pc[c] = "flush" /\ f \in todo[c]
      /\ todo' = [todo EXCEPT ![c] = @ \ {f}]
      /\ Writes => disk' = [disk EXCEPT ![f2p[f]] = cells[frames[f].cell]]
      /\ ~Writes => disk' = disk
      /\ UNCHANGED <<frames, cells, p2f, f2p, lru, total, pc, want, slot, handle, stuck, misread, latest>>
    BY DEF FlushFrame, poolVars
<1>2. frames[f].page # NoPage <=> frames[f].cell # NoCell
    BY DEF BpIInv, PoolInv, CopiesOK, FrameOK, NoPage, NoCell, Pages
<1>3. ~misread => f2p[f] = frames[f].page
    BY <1>1 DEF BpIInv, PoolInv, Matched, Filling, Unlocked
<1>4. BpTypeOK' /\ PoolInv'
  <2>1. CASE Writes
    BY <1>0, <1>1, <1>2, <1>3, <2>1, PageWritten
  <2>2. CASE ~Writes
    BY <1>0, <1>1, <2>2, PoolUnchanged DEF BpIInv, BpTypeOK, Carried
  <2> QED
    BY <2>1, <2>2
<1>5. CallsOK'
    BY <1>1 DEF BpIInv, CallInv, CallsOK
<1>6. Locks'
    BY <1>1 DEF BpIInv, CallInv, Locks
<1>7. Sequential' => OneAtATime'
    BY <1>1 DEF BpIInv, CallInv, Sequential, OneAtATime
<1>8. Exact' => Steady'
    BY <1>0, <1>1 DEF BpIInv, CallInv, Carried, Steady
<1>9. Exact' => Written'
  <2> SUFFICES ASSUME Exact
               PROVE  Written'
    BY <1>0 DEF Carried
  <2>1. \A d \in Clients : d # c => pc[d] = "idle"
    BY <1>0 DEF Carried
  <2>2. todo'[c] = todo[c] \ {f}
    BY <1>1 DEF BpIInv, CallInv, CallsOK
  <2>3. \A p \in Pages : Saved(p) => Saved(p)'
    <3>1. CASE Writes
      BY <1>0, <1>1, <1>2, <1>3, <3>1, PageWritten
    <3>2. CASE ~Writes
      BY <1>1, <3>2 DEF Saved
    <3> QED
      BY <3>1, <3>2
  <2>4. \A p : Changed(p)' = Changed(p)
    BY <1>1 DEF Changed
  <2>5. ASSUME NEW p \in 1 .. total, p2f[p] = NoFrame \/ p2f[p] \notin todo'[c]
        PROVE  Changed(p) \/ Saved(p)'
    <3>1. p \in Pages
      BY InFile
    <3>2. CASE p2f[p] = NoFrame \/ p2f[p] \notin todo[c]
      BY <1>1, <2>3, <3>1, <3>2 DEF BpIInv, CallInv, Written
    <3>3. CASE p2f[p] # NoFrame /\ p2f[p] = f
      <4>1. frames[f].page = p /\ frames[f].page # NoPage
        BY <3>1, <3>3, MapLeads
      <4>2. CASE Writes
        BY <1>0, <1>1, <1>3, <4>1, <4>2, PageWritten
      <4>3. CASE ~Writes
        BY <1>2, <2>3, <3>1, <4>1, <4>3 DEF BpIInv, PoolInv, CleanSaved
      <4> QED
        BY <4>2, <4>3
    <3> QED
      BY <2>2, <2>5, <3>2, <3>3
  <2> QED
    BY <1>1, <2>1, <2>4, <2>5 DEF Written
<1> QED
    BY <1>0, <1>4, <1>5, <1>6, <1>7, <1>8, <1>9 DEF BpIInv, CallInv, Carried

\* new_page: the page is in no frame, nobody has changed it, and the file has it
\* as allocate_page wrote it.
LEMMA NewPageStep ==
    ASSUME BpIInv, UNCHANGED load, NEW c \in Clients, NewPage(c)
    PROVE  BpIInv'
<1> DEFINE p == total + 1
<1>0. Carried(c)
    BY MovesKeep DEF NewPage, BpIInv, CallInv, CallsOK, Moves, MayCall, Goto, Done
<1>1. /\ MayCall(c) /\ handle[c] = NoHandle /\ total < load.pages
      /\ total' = p /\ disk' = [disk EXCEPT ![p] = Content(p, 0)]
      /\ want' = [want EXCEPT ![c] = p] /\ pc' = [pc EXCEPT ![c] = "lookup"]
      /\ UNCHANGED <<frames, cells, p2f, f2p, lru, slot, handle, todo, stuck, misread, latest>>
    BY DEF NewPage, poolVars
<1>2. p \in Pages /\ total \in Nat /\ load.pages \in 0 .. MaxPages
    BY <1>1, BufferPoolAssumption DEF BpIInv, CallInv, CallsOK, BpTypeOK, Workload, Pages
<1>3. pc'[c] = "lookup" /\ \A d \in Clients : d # c => pc'[d] = pc[d] /\ want'[d] = want[d]
    BY <1>1 DEF BpIInv, CallInv, CallsOK
<1>4. want'[c] = p
    BY <1>1 DEF BpIInv, CallInv, CallsOK
<1>5. \A r \in Pages : disk'[r] = IF r = p THEN Content(p, 0) ELSE disk[r]
    BY <1>1 DEF BpIInv, BpTypeOK
<1>6. Content(p, 0) \in [page : 0 .. MaxPages, change : 0 .. MaxChanges]
    BY <1>2, BufferPoolAssumption DEF Content, Pages
<1>7. BpTypeOK'
  <2>1. disk' \in [Pages -> [page : 0 .. MaxPages, change : 0 .. MaxChanges]]
    BY <1>1, <1>6 DEF BpIInv, BpTypeOK
  <2>2. total' \in 0 .. MaxPages
    BY <1>1, <1>2 DEF Pages
  <2> QED
    BY <1>1, <2>1, <2>2 DEF BpIInv, BpTypeOK
<1>8. ~misread => Matched'
  <2>1. Content(p, 0).page = p
    BY DEF Content
  <2>2. \A r \in Pages : r \in Nat
    BY DEF Pages
  <2>3. \A r \in Pages : r <= p <=> (r <= total \/ r = p)
    BY <1>2, <2>2
  <2>4. \A r \in 0 .. MaxPages : r <= total => r <= p
    BY <1>2
  <2>5. \A g \in Frames : frames[g].page \in 0 .. MaxPages
    BY DEF BpIInv, BpTypeOK
  <2>6. \A d \in Clients : handle[d].page \in 0 .. MaxPages
    BY DEF BpIInv, BpTypeOK
  <2> QED
    BY <1>0, <1>1, <1>5, <2>1, <2>3, <2>4, <2>5, <2>6 DEF BpIInv, PoolInv, Matched, Carried
<1>9. Exact => (NoLost' /\ CleanSaved')
  <2> SUFFICES ASSUME Exact
               PROVE  NoLost' /\ CleanSaved'
    OBVIOUS
  <2>1. p2f[p] = NoFrame /\ latest[p] = 0
    <3>1. ~(p <= total)
      BY <1>2
    <3>2. p2f[p] # NoFrame => (p2f[p] \in Frames /\ frames[p2f[p]].page = p)
      BY <1>2, MapLeads
    <3>3. p # NoPage
      BY <1>2 DEF NoPage
    <3> QED
      BY <1>2, <3>1, <3>2, <3>3 DEF BpIInv, PoolInv, Exact, Matched
  <2>2. \A r \in 1 .. p : r = p \/ r \in 1 .. total
    BY <1>2
  <2>3. \A r \in 1 .. total : r \in Pages /\ r # p
    BY <1>2, InFile
  <2>4. NoLost'
    BY <1>1, <1>2, <1>5, <2>1, <2>2, <2>3 DEF BpIInv, PoolInv, NoLost, Fresh, Saved
  <2>5. \A r : Changed(r)' = Changed(r)
    BY <1>1 DEF Changed
  <2>6. \A g \in Frames : frames[g].page # NoPage => frames[g].page \in 1 .. total
    BY FrameContent DEF Exact, Pages
  <2>7. \A g \in Frames : frames[g].page # NoPage => (Saved(frames[g].page) => Saved(frames[g].page)')
    BY <1>1, <1>5, <2>3, <2>6 DEF Saved
  <2>8. CleanSaved'
    BY <1>1, <2>5, <2>7 DEF BpIInv, PoolInv, CleanSaved
  <2> QED
    BY <2>4, <2>8
<1>10. PoolInv'
  <2>1. CopiesOK' = CopiesOK
    BY <1>1 DEF CopiesOK, FrameOK
  <2>2. Covered' = Covered
    BY <1>1 DEF Covered, Holders, Pins, PinsCoverHandles
  <2>3. Resident' = Resident
    BY <1>1 DEF Resident, HoldersOf
  <2>4. Kept' = Kept
    BY <1>1 DEF Kept
  <2>5. Exact' <=> Exact
    BY <1>0 DEF Carried
  <2> QED
    BY <1>1, <1>8, <1>9, <2>1, <2>2, <2>3, <2>4, <2>5 DEF BpIInv, PoolInv
<1>11. CallsOK'
  <2>1. pc' \in [Clients -> Places] /\ want' \in [Clients -> 0 .. MaxPages]
    BY <1>1, <1>2 DEF BpIInv, CallInv, CallsOK, Places, Fetching, Pages
  <2> QED
    BY <1>1, <1>2, <1>3, <1>4, <2>1 DEF BpIInv, CallInv, CallsOK, Fetching
<1>12. Locks'
    BY <1>1, <1>3 DEF BpIInv, CallInv, Locks, MapHeld
<1>13. Sequential' => OneAtATime'
    BY <1>1, <1>3 DEF BpIInv, CallInv, Sequential, OneAtATime, MayCall
<1>14. Exact' => Steady'
    BY <1>0, <1>1, <1>3 DEF BpIInv, CallInv, Carried, Steady
<1>15. Exact' => Written'
    BY <1>0, <1>1, <1>3 DEF BpIInv, CallInv, Carried, Written
<1> QED
    BY <1>0, <1>7, <1>10, <1>11, <1>12, <1>13, <1>14, <1>15 DEF BpIInv, CallInv, Carried

-----------------------------------------------------------------------------
(* Steps that give a page to a client, or take it back *)

\* The clients that hold a page, after one of them has let go of it.
LEMMA HandleDropped ==
    ASSUME BpIInv, NEW c \in Clients, handle[c] # NoHandle,
           handle' = [handle EXCEPT ![c] = NoHandle]
    PROVE  /\ handle'[c] = NoHandle /\ \A d \in Clients : d # c => handle'[d] = handle[d]
           /\ Holders' = Holders \ {c} /\ c \in Holders
           /\ \A p \in Pages : HoldersOf(p)' = HoldersOf(p) \ {c}
           /\ \A p \in Pages : c \in HoldersOf(p) <=> handle[c].page = p
<1>1. handle'[c] = NoHandle /\ \A d \in Clients : d # c => handle'[d] = handle[d]
    BY DEF BpIInv, BpTypeOK
<1>2. Holders' = Holders \ {c} /\ c \in Holders
    BY <1>1 DEF Holders
<1>3. \A p \in Pages : p # NoHandle.page
    BY DEF NoHandle, NoPage, Pages
<1>4. \A p \in Pages : HoldersOf(p)' = HoldersOf(p) \ {c}
    BY <1>1, <1>3 DEF HoldersOf
<1>5. \A p \in Pages : c \in HoldersOf(p) <=> handle[c].page = p
    BY DEF HoldersOf
<1> QED
    BY <1>1, <1>2, <1>4, <1>5

\* The same after a client has got page p.
LEMMA HandleTaken ==
    ASSUME BpIInv, NEW c \in Clients, handle[c] = NoHandle, NEW p \in Pages, NEW k \in Nat \ {0},
           k <= MaxLoads,
           handle' = [handle EXCEPT ![c] = [page |-> p, cell |-> k, changed |-> FALSE]]
    PROVE  /\ handle' \in [Clients -> [page : 0 .. MaxPages, cell : 0 .. MaxLoads, changed : BOOLEAN]]
           /\ handle'[c].page = p /\ handle'[c].cell = k /\ ~handle'[c].changed
           /\ handle'[c] # NoHandle
           /\ \A d \in Clients : d # c => handle'[d] = handle[d]
           /\ Holders' = Holders \cup {c} /\ c \notin Holders
           /\ \A q \in Pages : HoldersOf(q)' = IF q = p THEN HoldersOf(q) \cup {c} ELSE HoldersOf(q)
           /\ c \notin HoldersOf(p)
           /\ \A q \in Pages : Changed(q)' = Changed(q)
<1> DEFINE h == [page |-> p, cell |-> k, changed |-> FALSE]
<1>1. handle'[c] = h /\ \A d \in Clients : d # c => handle'[d] = handle[d]
    BY DEF BpIInv, BpTypeOK
<1>2. h \in [page : 0 .. MaxPages, cell : 0 .. MaxLoads, changed : BOOLEAN]
    BY BufferPoolAssumption DEF Pages
<1>3. handle' \in [Clients -> [page : 0 .. MaxPages, cell : 0 .. MaxLoads, changed : BOOLEAN]]
    BY <1>2 DEF BpIInv, BpTypeOK
<1>4. h.page = p /\ h.cell = k /\ h.changed = FALSE
    OBVIOUS
<1>5. NoHandle.page = NoPage /\ p # NoPage /\ NoHandle.changed = FALSE
    BY DEF NoHandle, NoPage, Pages
<1>6. \A q \in Pages : q # NoPage
    BY DEF NoPage, Pages
<1> HIDE DEF h
<1>7. Holders' = Holders \cup {c} /\ c \notin Holders
    BY <1>1, <1>4, <1>5 DEF Holders
<1>8. \A q \in Pages : HoldersOf(q)' = IF q = p THEN HoldersOf(q) \cup {c} ELSE HoldersOf(q)
    BY <1>1, <1>4, <1>5, <1>6 DEF HoldersOf
<1>9. c \notin HoldersOf(p)
    BY <1>5 DEF HoldersOf
<1>10. \A q \in Pages : Changed(q)' = Changed(q)
    BY <1>1, <1>4, <1>5 DEF Changed
<1> QED
    BY <1>1, <1>3, <1>4, <1>5, <1>7, <1>8, <1>9, <1>10

\* A client lets go of a page and nothing else changes: no pin is missing, and no
\* change either if it had made none.
LEMMA DropKeepsPool ==
    ASSUME BpIInv, NEW c \in Clients, Carried(c), handle[c] # NoHandle,
           handle' = [handle EXCEPT ![c] = NoHandle],
           Exact => ~handle[c].changed,
           UNCHANGED <<load, frames, cells, p2f, f2p, lru, total, disk, stuck, misread, latest>>
    PROVE  BpTypeOK' /\ PoolInv'
<1>1. handle'[c] = NoHandle /\ \A d \in Clients : d # c => handle'[d] = handle[d]
    BY HandleDropped
<1>2. BpTypeOK'
  <2>1. NoHandle \in [page : 0 .. MaxPages, cell : 0 .. MaxLoads, changed : BOOLEAN]
    BY BufferPoolAssumption DEF NoHandle, NoPage, NoCell
  <2> QED
    BY <2>1 DEF BpIInv, BpTypeOK
<1>3. CopiesOK'
    BY <1>1 DEF BpIInv, PoolInv, CopiesOK, FrameOK
<1>4. ~misread => Matched'
    BY <1>1 DEF BpIInv, PoolInv, Matched, Carried
<1>5. Covered'
  <2> SUFFICES ASSUME ~stuck
               PROVE  IsFiniteSet(Holders') /\ IsFiniteSet(Pins') /\ Cardinality(Holders') <= Cardinality(Pins')
    BY DEF Covered, PinsCoverHandles
  <2>1. IsFiniteSet(Holders) /\ IsFiniteSet(Pins) /\ Cardinality(Holders) <= Cardinality(Pins)
    BY DEF BpIInv, PoolInv, Covered, PinsCoverHandles
  <2>2. Pins' = Pins
    BY DEF Pins
  <2>3. Holders' = Holders \ {c} /\ c \in Holders
    BY HandleDropped
  <2>4. IsFiniteSet(Holders') /\ Cardinality(Holders') = Cardinality(Holders) - 1
    BY <2>1, <2>3, FS_RemoveElement
  <2>5. Cardinality(Holders) \in Nat /\ Cardinality(Pins) \in Nat
    BY <2>1, FS_CardinalityType
  <2> QED
    BY <2>1, <2>2, <2>4, <2>5
<1>6. Exact => (Resident' /\ Kept')
  <2> SUFFICES ASSUME Exact
               PROVE  Resident' /\ Kept'
    OBVIOUS
  <2>1. ASSUME NEW p \in Pages
        PROVE  IsFiniteSet(HoldersOf(p)') /\ Cardinality(HoldersOf(p)') <= Cardinality(HoldersOf(p))
    <3>1. IsFiniteSet(HoldersOf(p)) /\ HoldersOf(p)' = HoldersOf(p) \ {c}
      BY HandleDropped DEF BpIInv, PoolInv, Resident
    <3>2. Cardinality(HoldersOf(p)) \in Nat
      BY <3>1, FS_CardinalityType
    <3>3. /\ IsFiniteSet(HoldersOf(p)')
          /\ Cardinality(HoldersOf(p)') =
                IF c \in HoldersOf(p) THEN Cardinality(HoldersOf(p)) - 1 ELSE Cardinality(HoldersOf(p))
      BY <3>1, FS_RemoveElement
    <3> QED
      BY <3>2, <3>3
  <2>2. \A p \in Pages : p2f[p] # NoFrame =>
            (Cardinality(HoldersOf(p)) <= frames[p2f[p]].pins /\ frames[p2f[p]].pins \in Nat)
    BY DEF BpIInv, PoolInv, BpTypeOK, Resident
  <2>3. \A p \in Pages : Cardinality(HoldersOf(p)) \in Nat /\ Cardinality(HoldersOf(p)') \in Nat
    BY <2>1, FS_CardinalityType DEF BpIInv, PoolInv, Resident
  <2>4. \A p \in Pages : p2f[p] # NoFrame => Cardinality(HoldersOf(p)') <= frames[p2f[p]].pins
    BY <2>1, <2>2, <2>3
  <2>5. Resident'
    BY <2>1, <2>4 DEF BpIInv, PoolInv, Resident
  <2>6. Kept'
    BY <1>1 DEF BpIInv, PoolInv, Kept
  <2> QED
    BY <2>5, <2>6
<1>7. Exact => (NoLost' /\ CleanSaved')
  <2> SUFFICES ASSUME Exact
               PROVE  NoLost' /\ CleanSaved'
    OBVIOUS
  <2>1. NoLost'
    BY DEF BpIInv, PoolInv, NoLost, Fresh, Saved
  <2>2. \A p \in Pages : Changed(p) => Changed(p)'
    BY <1>1 DEF Changed
  <2>3. \A g \in Frames : frames[g].page # NoPage => frames[g].page \in Pages
    BY FrameContent
  <2>4. \A p : Saved(p)' = Saved(p)
    BY DEF Saved
  <2>5. CleanSaved'
    BY <2>2, <2>3, <2>4 DEF BpIInv, PoolInv, CleanSaved
  <2> QED
    BY <2>1, <2>5
<1>8. Exact' <=> Exact
    BY DEF Carried
<1>9. PoolInv'
    BY <1>3, <1>4, <1>5, <1>6, <1>7, <1>8 DEF PoolInv
<1> QED
    BY <1>2, <1>9

\* The client drops its Arc and never unpins.
LEMMA ForgetStep ==
    ASSUME BpIInv, UNCHANGED load, NEW c \in Clients, Forget(c)
    PROVE  BpIInv'
<1>0. Carried(c)
    BY MovesKeep DEF Forget, BpIInv, CallInv, CallsOK, Moves, MayCall, Goto, Done
<1>1. /\ MayCall(c) /\ handle[c] # NoHandle /\ ~handle[c].changed
      /\ handle' = [handle EXCEPT ![c] = NoHandle]
      /\ UNCHANGED <<frames, cells, p2f, f2p, lru, total, disk, pc, want, slot, todo, stuck, misread, latest>>
    BY DEF Forget, poolVars, fileVars
<1>2. handle'[c] = NoHandle /\ \A d \in Clients : d # c => handle'[d] = handle[d]
    BY <1>1, HandleDropped
<1>3. BpTypeOK' /\ PoolInv'
    BY <1>0, <1>1, DropKeepsPool
<1>4. pc[c] = "idle" /\ (Sequential => \A d \in Clients : pc[d] = "idle")
    BY <1>1 DEF MayCall, Sequential
<1>5. CallsOK'
    BY <1>1, <1>2, <1>4 DEF BpIInv, CallInv, CallsOK, Fetching
<1>6. Locks'
    BY <1>1, <1>2, <1>4 DEF BpIInv, CallInv, Locks, MapHeld
<1>7. Sequential' => (OneAtATime' /\ Steady' /\ Written')
    BY <1>0, <1>1, <1>4 DEF BpIInv, CallInv, Carried, OneAtATime, Steady, Written
<1> QED
    BY <1>0, <1>3, <1>5, <1>6, <1>7 DEF BpIInv, CallInv, Exact, Carried

\* unpin_page, the lookup: a page that is not in the map has no pin to release,
\* which happens only after calls overlapped or a read failed.
LEMMA UnpinStep ==
    ASSUME BpIInv, UNCHANGED load, NEW c \in Clients, Unpin(c)
    PROVE  BpIInv'
<1>0. Carried(c)
    BY MovesKeep DEF Unpin, BpIInv, CallInv, CallsOK, Moves, MayCall, Goto, Done
<1>1. /\ MayCall(c) /\ handle[c] # NoHandle /\ MapReadable
      /\ UNCHANGED <<frames, cells, p2f, f2p, lru, total, disk, want, slot, todo, stuck, misread, latest>>
    BY DEF Unpin, poolVars, fileVars
<1>2. pc[c] = "idle" /\ (Sequential => \A d \in Clients : pc[d] = "idle")
    BY <1>1 DEF MayCall, Sequential
<1>3. CASE p2f[handle[c].page] = NoFrame
  <2>1. UNCHANGED pc /\ handle' = [handle EXCEPT ![c] = NoHandle]
    <3>1. pc' = [pc EXCEPT ![c] = "idle"] /\ handle' = [handle EXCEPT ![c] = NoHandle]
      BY <1>3 DEF Unpin
    <3>2. pc' = pc
      BY <1>2, <3>1 DEF BpIInv, CallInv, CallsOK
    <3> QED
      BY <3>1, <3>2
  <2>2. handle'[c] = NoHandle /\ \A d \in Clients : d # c => handle'[d] = handle[d]
    BY <1>1, <2>1, HandleDropped
  <2>3. ~Exact
    BY <1>1, <1>3 DEF BpIInv, PoolInv, Kept
  <2>4. BpTypeOK' /\ PoolInv'
    BY <1>0, <1>1, <2>1, <2>3, DropKeepsPool
  <2>5. CallsOK'
    BY <1>1, <1>2, <2>1, <2>2 DEF BpIInv, CallInv, CallsOK, Fetching
  <2>6. Locks'
    BY <1>1, <1>2, <2>1, <2>2 DEF BpIInv, CallInv, Locks, MapHeld
  <2>7. Sequential' => OneAtATime'
    BY <1>1, <2>1 DEF BpIInv, CallInv, Sequential, OneAtATime
  <2>8. ~Exact'
    BY <1>0, <2>3 DEF Carried
  <2> QED
    BY <1>0, <2>4, <2>5, <2>6, <2>7, <2>8 DEF BpIInv, CallInv, Carried
<1>4. CASE p2f[handle[c].page] # NoFrame
  <2>1. pc' = [pc EXCEPT ![c] = "unpin"] /\ UNCHANGED handle
    <3>1. pc' = [pc EXCEPT ![c] = "unpin"] /\ handle' = [handle EXCEPT ![c] = handle[c]]
      BY <1>4 DEF Unpin
    <3>2. handle' = handle
      BY <3>1 DEF BpIInv, BpTypeOK
    <3> QED
      BY <3>1, <3>2
  <2>2. pc'[c] = "unpin" /\ \A d \in Clients : d # c => pc'[d] = pc[d]
    BY <2>1 DEF BpIInv, CallInv, CallsOK
  <2>3. BpTypeOK' /\ PoolInv'
    BY <1>0, <1>1, <2>1, PoolUnchanged DEF BpIInv, BpTypeOK, Carried
  <2>4. CallsOK'
    <3>1. pc' \in [Clients -> Places]
      BY <2>1 DEF BpIInv, CallInv, CallsOK, Places
    <3> QED
      BY <1>1, <2>1, <2>2, <3>1 DEF BpIInv, CallInv, CallsOK, Fetching
  <2>5. Locks'
    BY <1>1, <1>4, <2>1, <2>2 DEF BpIInv, CallInv, Locks, MapHeld, MapReadable
  <2>6. Sequential' => OneAtATime'
    BY <1>1, <1>2, <2>2 DEF BpIInv, CallInv, Sequential, OneAtATime
  <2>7. Sequential' => (Steady' /\ Written')
    BY <1>1, <1>2, <2>2 DEF Sequential, Steady, Written
  <2> QED
    BY <1>0, <2>3, <2>4, <2>5, <2>6, <2>7 DEF BpIInv, CallInv, Exact, Carried
<1> QED
    BY <1>3, <1>4

\* unpin_page, the release.  The pin that goes is the client's own as long as the
\* map is right, and the change it made is marked.
LEMMA UnpinFrameStep ==
    ASSUME BpIInv, UNCHANGED load, NEW c \in Clients, UnpinFrame(c)
    PROVE  BpIInv'
<1> DEFINE q == handle[c].page
           f == p2f[q]
<1>0. Carried(c)
    BY MovesKeep DEF UnpinFrame, BpIInv, CallInv, CallsOK, Moves, MayCall, Goto, Done
<1>1. /\ pc[c] = "unpin" /\ pc' = [pc EXCEPT ![c] = "idle"]
      /\ frames' = [frames EXCEPT ![f] = Released(@, handle[c].changed)]
      /\ handle' = [handle EXCEPT ![c] = NoHandle]
      /\ UNCHANGED <<cells, p2f, f2p, lru, total, disk, want, slot, todo, stuck, misread, latest>>
    BY DEF UnpinFrame, Goto, fileVars
<1>2. handle[c] # NoHandle /\ q \in Pages /\ f \in Frames
  <2>1. handle[c] # NoHandle /\ q \in Pages /\ f # NoFrame
    BY <1>1 DEF BpIInv, PoolInv, CallInv, CallsOK, CopiesOK, Locks
  <2> QED
    BY <2>1 DEF BpIInv, BpTypeOK
<1>3. pc'[c] = "idle" /\ \A d \in Clients : d # c => pc'[d] = pc[d]
    BY <1>1 DEF BpIInv, CallInv, CallsOK
<1>4. handle'[c] = NoHandle /\ \A d \in Clients : d # c => handle'[d] = handle[d]
    BY <1>1, <1>2, HandleDropped
<1>5. frames'[f] = Released(frames[f], handle[c].changed) /\ \A g \in Frames : g # f => frames'[g] = frames[g]
    BY <1>1, <1>2 DEF BpIInv, BpTypeOK
<1>6. /\ frames[f].pins \in Nat
      /\ frames'[f].page = frames[f].page /\ frames'[f].cell = frames[f].cell
      /\ frames'[f].pins = IF frames[f].pins = 0 THEN 0 ELSE frames[f].pins - 1
      /\ frames[f].pins # 0 => frames'[f].dirty = (frames[f].dirty \/ handle[c].changed)
      /\ frames'[f] \in [page : 0 .. MaxPages, cell : 0 .. MaxLoads, pins : Nat, dirty : BOOLEAN]
  <2>1. frames[f] \in [page : 0 .. MaxPages, cell : 0 .. MaxLoads, pins : Nat, dirty : BOOLEAN]
    BY <1>2 DEF BpIInv, BpTypeOK
  <2>2. handle[c].changed \in BOOLEAN
    BY DEF BpIInv, BpTypeOK
  <2>3. CASE frames[f].pins = 0
    BY <1>5, <2>1, <2>3 DEF Released
  <2>4. CASE frames[f].pins # 0
    <3>1. frames'[f] = [frames[f] EXCEPT !.pins = @ - 1, !.dirty = @ \/ handle[c].changed]
      BY <1>5, <2>4 DEF Released
    <3>2. (frames[f].dirty \/ handle[c].changed) \in BOOLEAN /\ frames[f].pins - 1 \in Nat
      BY <2>1, <2>2, <2>4
    <3> QED
      BY <2>1, <2>4, <3>1, <3>2
  <2> QED
    BY <2>3, <2>4
<1>7. \A g \in Frames : frames'[g].page = frames[g].page /\ frames'[g].cell = frames[g].cell
    BY <1>5, <1>6
<1>8. BpTypeOK'
  <2>1. frames' \in [Frames -> [page : 0 .. MaxPages, cell : 0 .. MaxLoads, pins : Nat, dirty : BOOLEAN]]
    BY <1>1, <1>5, <1>6 DEF BpIInv, BpTypeOK
  <2>2. NoHandle \in [page : 0 .. MaxPages, cell : 0 .. MaxLoads, changed : BOOLEAN]
    BY BufferPoolAssumption DEF NoHandle, NoPage, NoCell
  <2>3. handle' \in [Clients -> [page : 0 .. MaxPages, cell : 0 .. MaxLoads, changed : BOOLEAN]]
    BY <1>1, <2>2 DEF BpIInv, BpTypeOK
  <2> QED
    BY <1>1, <2>1, <2>3 DEF BpIInv, BpTypeOK
<1>9. CopiesOK'
    BY <1>1, <1>4, <1>7 DEF BpIInv, PoolInv, CopiesOK, FrameOK
<1>10. ~misread => Matched'
  <2>2. SUFFICES ASSUME ~misread PROVE Matched'
    OBVIOUS
  <2>3. Matched
    BY <2>2 DEF BpIInv, PoolInv
  <2>4. UNCHANGED <<cells, p2f, f2p, total, disk, latest>>
    BY <1>1
  <2>5. /\ \A g \in Frames : f2p'[g] = frames'[g].page \/ Filling(g)'
        /\ \A g \in Frames : frames'[g].page # NoPage =>
            (cells'[frames'[g].cell].page = frames'[g].page /\ frames'[g].page <= total')
    BY <1>0, <1>7, <2>3, <2>4 DEF Matched, Carried
  <2>6. \A p \in Pages : p2f'[p] # NoFrame => f2p'[p2f'[p]] = p
    BY <2>3, <2>4 DEF Matched
  <2>7. \A p \in Pages : IF p <= total' THEN disk'[p].page = p ELSE latest'[p] = 0
    BY <2>3, <2>4 DEF Matched
  <2>8. \A d \in Clients : handle'[d] # NoHandle =>
          (cells'[handle'[d].cell].page = handle'[d].page /\ handle'[d].page <= total')
    BY <1>4, <2>3, <2>4 DEF Matched
  <2> QED
    BY <2>5, <2>6, <2>7, <2>8 DEF Matched
<1>11. Covered'
  <2> SUFFICES ASSUME ~stuck
               PROVE  IsFiniteSet(Holders') /\ IsFiniteSet(Pins') /\ Cardinality(Holders') <= Cardinality(Pins')
    BY <1>1 DEF Covered, PinsCoverHandles
  <2>1. IsFiniteSet(Holders) /\ IsFiniteSet(Pins) /\ Cardinality(Holders) <= Cardinality(Pins)
    BY DEF BpIInv, PoolInv, Covered, PinsCoverHandles
  <2>2. Cardinality(Holders) \in Nat /\ Cardinality(Pins) \in Nat
    BY <2>1, FS_CardinalityType
  <2>3. IsFiniteSet(Holders') /\ Cardinality(Holders') = Cardinality(Holders) - 1
    <3>1. Holders' = Holders \ {c} /\ c \in Holders
      BY <1>1, <1>2, HandleDropped
    <3> QED
      BY <2>1, <3>1, FS_RemoveElement
  <2>4. CASE frames[f].pins = 0
    <3>1. \A g \in Frames : frames'[g].pins = frames[g].pins
      BY <1>5, <1>6, <2>4
    <3>2. Pins' = Pins
      BY <3>1 DEF Pins
    <3> QED
      BY <2>1, <2>2, <2>3, <3>2
  <2>5. CASE frames[f].pins # 0
    <3>1. \A g \in Frames : frames'[g].pins = IF g = f THEN frames[f].pins - 1 ELSE frames[g].pins
      BY <1>5, <1>6, <2>5
    <3>2. IsFiniteSet(Pins') /\ Cardinality(Pins') = Cardinality(Pins) - 1
      BY <1>2, <1>8, <2>1, <2>5, <3>1, PinRemoved DEF BpIInv
    <3> QED
      BY <2>1, <2>2, <2>3, <3>2
  <2> QED
    BY <2>4, <2>5
<1>12. Exact => frames[f].pins # 0
  <2> SUFFICES ASSUME Exact
               PROVE  frames[f].pins # 0
    OBVIOUS
  <2>1. IsFiniteSet(HoldersOf(q)) /\ Cardinality(HoldersOf(q)) <= frames[f].pins
    BY <1>2, BufferPoolAssumption DEF BpIInv, PoolInv, Resident, NoFrame
  <2>2. c \in HoldersOf(q)
    BY DEF HoldersOf
  <2>3. Cardinality(HoldersOf(q)) # 0 /\ Cardinality(HoldersOf(q)) \in Nat
    BY <2>1, <2>2, FS_EmptySet, FS_CardinalityType
  <2> QED
    BY <1>6, <2>1, <2>3
<1>13. Exact => (Resident' /\ Kept')
  <2> SUFFICES ASSUME Exact
               PROVE  Resident' /\ Kept'
    OBVIOUS
  <2>1. ASSUME NEW p \in Pages
        PROVE  /\ IsFiniteSet(HoldersOf(p)')
               /\ p2f[p] # NoFrame => Cardinality(HoldersOf(p)') <= frames'[p2f[p]].pins
    <3>1. IsFiniteSet(HoldersOf(p)) /\ HoldersOf(p)' = HoldersOf(p) \ {c}
      BY <1>1, <1>2, HandleDropped DEF BpIInv, PoolInv, Resident
    <3>2. c \in HoldersOf(p) <=> p = q
      BY DEF HoldersOf
    <3>3. /\ Cardinality(HoldersOf(p)) \in Nat
          /\ IsFiniteSet(HoldersOf(p)')
          /\ Cardinality(HoldersOf(p)') = IF p = q THEN Cardinality(HoldersOf(p)) - 1 ELSE Cardinality(HoldersOf(p))
      BY <3>1, <3>2, FS_CardinalityType, FS_RemoveElement
    <3>4. ASSUME p2f[p] # NoFrame
          PROVE  Cardinality(HoldersOf(p)') <= frames'[p2f[p]].pins
      <4>1. p2f[p] \in Frames /\ Cardinality(HoldersOf(p)) <= frames[p2f[p]].pins
        BY <3>4 DEF BpIInv, PoolInv, BpTypeOK, Resident
      <4>2. CASE p = q
        BY <1>6, <1>12, <3>3, <4>1, <4>2
      <4>3. CASE p # q
        <5>1. p2f[p] # f
          BY <1>2, <3>4, <4>3, MapLeads, BufferPoolAssumption DEF NoFrame
        <5> QED
          BY <1>5, <3>3, <4>1, <4>3, <5>1
      <4> QED
        BY <4>2, <4>3
    <3> QED
      BY <3>3, <3>4
  <2>2. \A g \in Frames : frames'[g].page # NoPage => p2f'[frames'[g].page] = g
    BY <1>1, <1>7 DEF BpIInv, PoolInv, Resident
  <2>3. Resident'
    BY <1>1, <2>1, <2>2 DEF Resident
  <2>4. \A d \in Clients : handle[d] # NoHandle =>
            (p2f[handle[d].page] \in Frames /\ frames[p2f[handle[d].page]].cell = handle[d].cell)
    BY DEF BpIInv, PoolInv, Kept, BpTypeOK, CopiesOK
  <2>5. \A d \in Clients : handle'[d] # NoHandle => handle'[d] = handle[d]
    BY <1>4
  <2>6. \A g \in Frames : g # NoFrame
    BY BufferPoolAssumption DEF NoFrame
  <2>7. Kept'
    BY <1>1, <1>7, <2>4, <2>5, <2>6 DEF Kept
  <2> QED
    BY <2>3, <2>7
<1>14. Exact => (NoLost' /\ CleanSaved')
  <2> SUFFICES ASSUME Exact
               PROVE  NoLost' /\ CleanSaved'
    OBVIOUS
  <2>1. \A p \in 1 .. total : p2f[p] # NoFrame => p2f[p] \in Frames
    BY InFile DEF BpIInv, BpTypeOK
  <2>2. NoLost'
    BY <1>1, <1>7, <2>1 DEF BpIInv, PoolInv, NoLost, Fresh, Saved
  <2>3. \A p : Saved(p)' = Saved(p)
    BY <1>1 DEF Saved
  <2>4. ASSUME NEW g \in Frames, frames[g].page # NoPage, ~frames'[g].dirty
        PROVE  Changed(frames[g].page)' \/ Saved(frames[g].page)
    <3>1. ~frames[g].dirty
      BY <1>5, <1>6, <1>12, <2>4 DEF BpIInv, BpTypeOK
    <3>2. Changed(frames[g].page) \/ Saved(frames[g].page)
      BY <2>4, <3>1 DEF BpIInv, PoolInv, CleanSaved
    <3>3. CASE frames[g].page = q /\ handle[c].changed
      <4>1. g = f
        BY <2>4, <3>3 DEF BpIInv, PoolInv, Resident
      <4>2. frames'[g].dirty = (frames[g].dirty \/ handle[c].changed)
        BY <1>6, <1>12, <4>1
      <4> QED
        BY <2>4, <3>3, <4>2
    <3>4. CASE ~(frames[g].page = q /\ handle[c].changed)
      <4> SUFFICES ASSUME Changed(frames[g].page)
                   PROVE  Changed(frames[g].page)'
        BY <3>2
      <4>1. PICK d \in Clients : handle[d].page = frames[g].page /\ handle[d].changed
        BY DEF Changed
      <4>2. d # c
        BY <3>4, <4>1
      <4>3. handle'[d].page = frames'[g].page /\ handle'[d].changed
        BY <1>4, <1>7, <4>1, <4>2
      <4> QED
        BY <4>3 DEF Changed
    <3> QED
      BY <3>3, <3>4
  <2>5. CleanSaved'
    BY <1>7, <2>3, <2>4 DEF CleanSaved
  <2> QED
    BY <2>2, <2>5
<1>15. (Exact' <=> Exact) /\ (Sequential' <=> Sequential)
    BY <1>0 DEF Carried
<1>16. PoolInv'
    BY <1>1, <1>9, <1>10, <1>11, <1>13, <1>14, <1>15 DEF PoolInv
<1>17. CallsOK'
  <2>1. pc' \in [Clients -> Places]
    BY <1>1 DEF BpIInv, CallInv, CallsOK, Places
  <2> QED
    BY <1>1, <1>3, <1>4, <2>1 DEF BpIInv, CallInv, CallsOK, Fetching
<1>18. Locks'
    BY <1>1, <1>3, <1>4 DEF BpIInv, CallInv, Locks, MapHeld
<1>19. Sequential => \A d \in Clients : pc'[d] = "idle"
    BY <1>1, <1>3 DEF BpIInv, CallInv, OneAtATime
<1>20. Sequential => OneAtATime'
    BY <1>1, <1>3, <1>19 DEF BpIInv, CallInv, OneAtATime
<1>21. Sequential => (Steady' /\ Written')
    BY <1>19 DEF Steady, Written
<1> QED
    BY <1>0, <1>8, <1>15, <1>16, <1>17, <1>18, <1>20, <1>21 DEF BpIInv, CallInv, Exact, Carried

\* The client changes its page: every later fetch sees the change, because the
\* client's cell is the one in the frame, and unpin_page will mark it.
LEMMA ChangeStep ==
    ASSUME BpIInv, UNCHANGED load, NEW c \in Clients, Change(c)
    PROVE  BpIInv'
<1> DEFINE q == handle[c].page
           k == handle[c].cell
           R == [page : 0 .. MaxPages, change : 0 .. MaxChanges]
<1>0. Carried(c)
    BY MovesKeep DEF Change, BpIInv, CallInv, CallsOK, Moves, MayCall, Goto, Done
<1>1. /\ MayCall(c) /\ handle[c] # NoHandle /\ latest[q] < load.changes
      /\ latest' = [latest EXCEPT ![q] = @ + 1]
      /\ cells' = [cells EXCEPT ![k].change = latest[q] + 1]
      /\ handle' = [handle EXCEPT ![c].changed = TRUE]
      /\ UNCHANGED <<frames, p2f, f2p, lru, total, disk, pc, want, slot, todo, stuck, misread>>
    BY DEF Change, fileVars
<1>2. q \in Pages /\ k \in 1 .. Len(cells)
    BY <1>1 DEF BpIInv, PoolInv, CopiesOK
<1>3. latest[q] + 1 \in 0 .. MaxChanges
  <2>1. latest[q] \in 0 .. MaxChanges /\ load.changes \in 0 .. MaxChanges
    BY <1>2 DEF BpIInv, BpTypeOK, CallInv, CallsOK, Workload
  <2> QED
    BY <1>1, <2>1, BufferPoolAssumption
<1>4. cells \in Seq(R)
    BY DEF BpIInv, BpTypeOK
<1>5. cells[k] \in R
    BY <1>2, <1>4, ElementOfSeq
<1>6. cells' = [cells EXCEPT ![k] = [cells[k] EXCEPT !.change = latest[q] + 1]]
    BY <1>1
<1>7. [cells[k] EXCEPT !.change = latest[q] + 1] \in R
    BY <1>3, <1>5
<1>8. /\ cells' \in Seq(R) /\ Len(cells') = Len(cells)
      /\ \A i \in 1 .. Len(cells) : i # k => cells'[i] = cells[i]
      /\ cells'[k] = [cells[k] EXCEPT !.change = latest[q] + 1]
    BY <1>2, <1>4, <1>6, <1>7
<1>9. cells'[k].page = cells[k].page /\ cells'[k].change = latest[q] + 1
    BY <1>5, <1>8
<1>10. \A i \in 1 .. Len(cells) : cells'[i].page = cells[i].page
    BY <1>8, <1>9
<1>11. latest'[q] = latest[q] + 1 /\ \A p \in Pages : p # q => latest'[p] = latest[p]
    BY <1>1, <1>2 DEF BpIInv, BpTypeOK
<1>12. /\ handle'[c].page = q /\ handle'[c].cell = k /\ handle'[c].changed = TRUE
       /\ \A d \in Clients : d # c => handle'[d] = handle[d]
       /\ handle' \in [Clients -> [page : 0 .. MaxPages, cell : 0 .. MaxLoads, changed : BOOLEAN]]
    BY <1>1 DEF BpIInv, BpTypeOK
<1>13. \A d \in Clients : handle'[d].page = handle[d].page /\ handle'[d].cell = handle[d].cell
    BY <1>12
<1>14. handle'[c] # NoHandle
    BY <1>2, <1>12 DEF NoHandle, NoPage, Pages
<1>15. \A d \in Clients : handle'[d] # NoHandle <=> handle[d] # NoHandle
    BY <1>1, <1>12, <1>14
<1>16. BpTypeOK'
  <2>1. latest' \in [Pages -> 0 .. MaxChanges]
    BY <1>1, <1>3 DEF BpIInv, BpTypeOK
  <2> QED
    BY <1>1, <1>8, <1>12, <2>1 DEF BpIInv, BpTypeOK
<1>17. CopiesOK'
    BY <1>1, <1>8, <1>13, <1>15 DEF BpIInv, PoolInv, CopiesOK, FrameOK
<1>18. ~misread => Matched'
  <2> SUFFICES ASSUME ~misread
               PROVE  Matched'
    OBVIOUS
  <2>1. Matched
    BY DEF BpIInv, PoolInv
  <2>2. q <= total
    BY <1>1, <2>1 DEF Matched
  <2>3. \A g \in Frames : frames[g].page # NoPage => frames[g].cell \in 1 .. Len(cells)
    BY FrameContent
  <2>4. \A d \in Clients : handle[d] # NoHandle => handle[d].cell \in 1 .. Len(cells)
    BY DEF BpIInv, PoolInv, CopiesOK
  <2>5. \A g \in Frames : frames[g].page # NoPage =>
            (cells'[frames[g].cell].page = frames[g].page /\ frames[g].page <= total)
    BY <1>10, <2>1, <2>3 DEF Matched
  <2>6. \A d \in Clients : handle'[d] # NoHandle =>
            (cells'[handle'[d].cell].page = handle'[d].page /\ handle'[d].page <= total)
    BY <1>10, <1>13, <1>15, <2>1, <2>4 DEF Matched
  <2>7. \A p \in Pages : IF p <= total THEN disk[p].page = p ELSE latest'[p] = 0
    BY <1>11, <2>1, <2>2 DEF Matched
  <2> QED
    BY <1>0, <1>1, <2>1, <2>5, <2>6, <2>7 DEF Matched, Carried
<1>19. Covered'
  <2>1. Holders' = Holders
    BY <1>15 DEF Holders
  <2>2. Pins' = Pins
    BY <1>1 DEF Pins
  <2> QED
    BY <1>1, <2>1, <2>2 DEF BpIInv, PoolInv, Covered, PinsCoverHandles
<1>20. Exact => (Resident' /\ Kept')
  <2> SUFFICES ASSUME Exact
               PROVE  Resident' /\ Kept'
    OBVIOUS
  <2>1. \A p : HoldersOf(p)' = HoldersOf(p)
    BY <1>13 DEF HoldersOf
  <2>2. Resident'
    BY <1>1, <2>1 DEF BpIInv, PoolInv, Resident
  <2>3. Kept'
    BY <1>1, <1>13, <1>15 DEF BpIInv, PoolInv, Kept
  <2> QED
    BY <2>2, <2>3
<1>21. Exact => (NoLost' /\ CleanSaved')
  <2> SUFFICES ASSUME Exact
               PROVE  NoLost' /\ CleanSaved'
    OBVIOUS
  <2>1. p2f[q] # NoFrame /\ p2f[q] \in Frames /\ frames[p2f[q]].cell = k
    BY <1>1, <1>2 DEF BpIInv, PoolInv, Kept, BpTypeOK
  <2>2. frames[p2f[q]].page = q /\ frames[p2f[q]].page # NoPage
    BY <1>2, <2>1, MapLeads
  <2>3. cells[k] = Content(q, latest[q])
    BY <2>1, <2>2, FrameContent
  <2>4. cells'[k] = Content(q, latest'[q])
    BY <1>8, <1>11, <2>3 DEF Content
  <2>5. ASSUME NEW p \in 1 .. total, p # q, p2f[p] # NoFrame
        PROVE  cells'[frames[p2f[p]].cell] = Content(p, latest'[p])
    <3>1. p \in Pages
      BY InFile
    <3>2. p2f[p] \in Frames /\ frames[p2f[p]].page = p /\ frames[p2f[p]].page # NoPage
      BY <2>5, <3>1, MapLeads
    <3>3. /\ frames[p2f[p]].cell \in 1 .. Len(cells)
          /\ cells[frames[p2f[p]].cell] = Content(p, latest[p])
          /\ cells[frames[p2f[p]].cell].page = p
      BY <3>2, FrameContent DEF Exact
    <3>4. cells[k].page = q
      BY <2>3 DEF Content
    <3>5. frames[p2f[p]].cell # k
      BY <2>5, <3>3, <3>4
    <3> QED
      BY <1>8, <1>11, <2>5, <3>1, <3>3, <3>5
  <2>6. ASSUME NEW p \in 1 .. total, p2f[p] = NoFrame
        PROVE  disk[p] = Content(p, latest'[p])
    <3>1. p \in Pages /\ p # q
      BY <2>1, <2>6, InFile
    <3>2. disk[p] = Content(p, latest[p])
      BY <2>6 DEF BpIInv, PoolInv, NoLost, Fresh, Saved
    <3> QED
      BY <1>11, <3>1, <3>2
  <2>7. \A p \in 1 .. total : p2f[p] # NoFrame => cells'[frames[p2f[p]].cell] = Content(p, latest'[p])
    BY <2>1, <2>4, <2>5
  <2>8. NoLost'
    BY <1>1, <2>6, <2>7 DEF NoLost, Fresh, Saved
  <2>9. ASSUME NEW g \in Frames, frames[g].page # NoPage, ~frames[g].dirty
        PROVE  Changed(frames[g].page)' \/ Saved(frames[g].page)'
    <3>1. PICK p \in Pages : p = frames[g].page
      BY <2>9, FrameContent
    <3>2. frames'[g].page = p
      BY <1>1, <3>1
    <3>3. Changed(p) \/ Saved(p)
      BY <2>9, <3>1 DEF BpIInv, PoolInv, CleanSaved
    <3>4. CASE p = q
      BY <1>12, <3>2, <3>4 DEF Changed
    <3>5. CASE p # q /\ Saved(p)
      BY <1>1, <1>11, <3>2, <3>5 DEF Saved
    <3>6. CASE p # q /\ Changed(p)
      BY <1>12, <3>2, <3>6 DEF Changed
    <3> QED
      BY <3>3, <3>4, <3>5, <3>6
  <2>10. CleanSaved'
    BY <1>1, <2>9 DEF CleanSaved
  <2> QED
    BY <2>8, <2>10
<1>22. (Exact' <=> Exact) /\ (Sequential' <=> Sequential)
    BY <1>0 DEF Carried
<1>23. PoolInv'
    BY <1>1, <1>17, <1>18, <1>19, <1>20, <1>21, <1>22 DEF PoolInv
<1>24. pc[c] = "idle" /\ (Sequential => \A d \in Clients : pc[d] = "idle")
    BY <1>1 DEF MayCall, Sequential
<1>25. CallsOK'
    BY <1>1, <1>12, <1>15, <1>24 DEF BpIInv, CallInv, CallsOK, Fetching
<1>26. Locks'
    BY <1>1, <1>13 DEF BpIInv, CallInv, Locks
<1>27. Sequential => (OneAtATime' /\ Steady' /\ Written')
    BY <1>1, <1>24 DEF BpIInv, CallInv, OneAtATime, Steady, Written
<1> QED
    BY <1>0, <1>16, <1>22, <1>23, <1>25, <1>26, <1>27 DEF BpIInv, CallInv, Exact, Carried

\* fetch_page of a page that the map has: one pin more and, if the frame is not
\* empty, one handle more, on the frame's cell.
LEMMA FetchHitStep ==
    ASSUME BpIInv, UNCHANGED load, NEW c \in Clients, FetchHit(c)
    PROVE  BpIInv'
<1> DEFINE p == want[c]
           f == p2f[p]
           k == frames[f].cell
           Hit == k # NoCell
<1>1. /\ pc[c] = "hit" /\ Unlocked(f)
      /\ frames' = [frames EXCEPT ![f].pins = @ + 1]
      /\ lru' = Touch(p)
      /\ UNCHANGED <<cells, p2f, f2p, total, disk, todo, stuck, misread, latest>>
    BY DEF FetchHit, fileVars
<1>2. Hit => /\ pc' = [pc EXCEPT ![c] = "idle"]
             /\ want' = [want EXCEPT ![c] = NoPage]
             /\ slot' = [slot EXCEPT ![c] = NoFrame]
             /\ handle' = [handle EXCEPT ![c] = [page |-> p, cell |-> k, changed |-> FALSE]]
    BY DEF FetchHit, Done, Give
<1>3. ~Hit => pc' = [pc EXCEPT ![c] = "find"] /\ UNCHANGED <<want, slot, handle>>
    BY DEF FetchHit, Goto
<1>4. p \in Pages /\ f \in Frames /\ handle[c] = NoHandle
  <2>1. p \in Pages /\ f # NoFrame /\ handle[c] = NoHandle
    BY <1>1 DEF BpIInv, CallInv, CallsOK, Fetching, Locks
  <2> QED
    BY <2>1 DEF BpIInv, BpTypeOK
<1>5. Hit => (frames[f].page \in Pages /\ k \in 1 .. Len(cells) /\ k \in Nat \ {0} /\ k <= MaxLoads)
  <2> SUFFICES ASSUME Hit
               PROVE  frames[f].page \in Pages /\ k \in 1 .. Len(cells) /\ k \in Nat \ {0} /\ k <= MaxLoads
    OBVIOUS
  <2>1. frames[f].page \in Pages /\ k \in 1 .. Len(cells)
    BY <1>4 DEF BpIInv, PoolInv, CopiesOK, FrameOK
  <2>2. k \in 0 .. MaxLoads
    BY <1>4 DEF BpIInv, BpTypeOK
  <2> QED
    BY <2>1, <2>2
<1>6. /\ \A g \in Frames : g # f => frames'[g] = frames[g]
      /\ frames'[f] = [frames[f] EXCEPT !.pins = @ + 1]
    BY <1>1, <1>4 DEF BpIInv, BpTypeOK
<1>7. /\ frames[f].pins \in Nat /\ frames'[f].pins = frames[f].pins + 1
      /\ frames'[f].page = frames[f].page /\ frames'[f].cell = frames[f].cell
      /\ frames'[f].dirty = frames[f].dirty
      /\ frames'[f] \in [page : 0 .. MaxPages, cell : 0 .. MaxLoads, pins : Nat, dirty : BOOLEAN]
  <2>1. frames[f] \in [page : 0 .. MaxPages, cell : 0 .. MaxLoads, pins : Nat, dirty : BOOLEAN]
    BY <1>4 DEF BpIInv, BpTypeOK
  <2> QED
    BY <1>6, <2>1
<1>8. \A g \in Frames : /\ frames'[g].page = frames[g].page /\ frames'[g].cell = frames[g].cell
                        /\ frames'[g].dirty = frames[g].dirty
    BY <1>6, <1>7
<1>9. pc'[c] \in {"idle", "find"} /\ \A d \in Clients : d # c => pc'[d] = pc[d]
    BY <1>2, <1>3 DEF BpIInv, CallInv, CallsOK
<1>10. \A d \in Clients : d # c => want'[d] = want[d] /\ slot'[d] = slot[d] /\ handle'[d] = handle[d]
    BY <1>2, <1>3 DEF BpIInv, BpTypeOK, CallInv, CallsOK
<1>0. Carried(c)
    BY <1>1, <1>9, <1>10, MovesKeep DEF Moves
<1>11. Hit => /\ handle' \in [Clients -> [page : 0 .. MaxPages, cell : 0 .. MaxLoads, changed : BOOLEAN]]
              /\ handle'[c].page = p /\ handle'[c].cell = k /\ handle'[c] # NoHandle
              /\ Holders' = Holders \cup {c} /\ c \notin Holders
              /\ \A q \in Pages : HoldersOf(q)' = IF q = p THEN HoldersOf(q) \cup {c} ELSE HoldersOf(q)
              /\ c \notin HoldersOf(p)
              /\ \A q \in Pages : Changed(q)' = Changed(q)
    BY <1>2, <1>4, <1>5, HandleTaken
<1>12. BpTypeOK'
  <2>1. frames' \in [Frames -> [page : 0 .. MaxPages, cell : 0 .. MaxLoads, pins : Nat, dirty : BOOLEAN]]
    BY <1>1, <1>6, <1>7 DEF BpIInv, BpTypeOK
  <2>2. handle' \in [Clients -> [page : 0 .. MaxPages, cell : 0 .. MaxLoads, changed : BOOLEAN]]
    BY <1>3, <1>11 DEF BpIInv, BpTypeOK
  <2>3. lru' \in Seq(Pages)
    BY <1>1, <1>4, TouchType DEF BpIInv, BpTypeOK
  <2> QED
    BY <1>1, <2>1, <2>2, <2>3 DEF BpIInv, BpTypeOK
<1>13. \A d \in Clients : d # c => (handle'[d] # NoHandle <=> handle[d] # NoHandle)
    BY <1>10
<1>14. handle'[c] # NoHandle => (Hit /\ handle'[c].page = p /\ handle'[c].cell = k)
    BY <1>3, <1>4, <1>11
<1>15. CopiesOK'
  <2>1. \A g \in Frames : FrameOK(frames[g])'
    BY <1>1, <1>8 DEF BpIInv, PoolInv, CopiesOK, FrameOK
  <2>2. \A d \in Clients : handle'[d] # NoHandle =>
            (handle'[d].page \in Pages /\ handle'[d].cell \in 1 .. Len(cells))
    BY <1>4, <1>5, <1>10, <1>14 DEF BpIInv, PoolInv, CopiesOK
  <2> QED
    BY <1>1, <2>1, <2>2 DEF BpIInv, PoolInv, CopiesOK
<1>16. ~misread => Matched'
  <2> SUFFICES ASSUME ~misread
               PROVE  Matched'
    OBVIOUS
  <2>1. Matched /\ f # NoFrame
    BY <1>4, BufferPoolAssumption DEF BpIInv, PoolInv, NoFrame
  <2>2. frames[f].page = p /\ p # NoPage
    BY <1>1, <1>4, <2>1, MapLeads DEF Filling, Unlocked
  <2>3. cells[k].page = p /\ p <= total
    BY <1>4, <2>1, <2>2 DEF Matched
  <2>4. \A d \in Clients : handle'[d] # NoHandle =>
            (cells[handle'[d].cell].page = handle'[d].page /\ handle'[d].page <= total)
    BY <1>10, <1>14, <2>1, <2>3 DEF Matched
  <2>5. \A q \in Pages : p2f[q] # NoFrame => p2f[q] \in Frames
    BY DEF BpIInv, BpTypeOK
  <2> QED
    BY <1>0, <1>1, <1>8, <2>1, <2>4, <2>5 DEF Matched, Carried
<1>17. Covered'
  <2> SUFFICES ASSUME ~stuck
               PROVE  IsFiniteSet(Holders') /\ IsFiniteSet(Pins') /\ Cardinality(Holders') <= Cardinality(Pins')
    BY <1>1 DEF Covered, PinsCoverHandles
  <2>1. IsFiniteSet(Holders) /\ IsFiniteSet(Pins) /\ Cardinality(Holders) <= Cardinality(Pins)
    BY DEF BpIInv, PoolInv, Covered, PinsCoverHandles
  <2>2. Cardinality(Holders) \in Nat /\ Cardinality(Pins) \in Nat
    BY <2>1, FS_CardinalityType
  <2>3. \A g \in Frames : frames'[g].pins = IF g = f THEN frames[f].pins + 1 ELSE frames[g].pins
    BY <1>6, <1>7
  <2>4. IsFiniteSet(Pins') /\ Cardinality(Pins') = Cardinality(Pins) + 1
    BY <1>4, <1>12, <2>1, <2>3, PinAdded DEF BpIInv
  <2>5. CASE Hit
    <3>1. IsFiniteSet(Holders') /\ Cardinality(Holders') = Cardinality(Holders) + 1
      <4>1. Holders' = Holders \cup {c} /\ c \notin Holders
        BY <1>11, <2>5
      <4> QED
        BY <2>1, <4>1, FS_AddElement
    <3> QED
      BY <2>1, <2>2, <2>4, <3>1
  <2>6. CASE ~Hit
    <3>1. Holders' = Holders
      BY <1>3, <2>6 DEF Holders
    <3> QED
      BY <2>1, <2>2, <2>4, <3>1
  <2> QED
    BY <2>5, <2>6
<1>18. Exact => Hit
  <2> SUFFICES ASSUME Exact
               PROVE  Hit
    OBVIOUS
  <2>1. f # NoFrame
    BY <1>4, BufferPoolAssumption DEF NoFrame
  <2>2. frames[f].page # NoPage
    BY <1>4, <2>1, MapLeads
  <2>3. k \in 1 .. Len(cells)
    BY <1>4, <2>2, FrameContent
  <2> QED
    BY <2>3 DEF NoCell
<1>19. Exact => (Resident' /\ Kept')
  <2> SUFFICES ASSUME Exact
               PROVE  Resident' /\ Kept'
    OBVIOUS
  <2>1. ASSUME NEW q \in Pages
        PROVE  /\ IsFiniteSet(HoldersOf(q)')
               /\ p2f[q] # NoFrame => Cardinality(HoldersOf(q)') <= frames'[p2f[q]].pins
    <3>1. IsFiniteSet(HoldersOf(q)) /\ Cardinality(HoldersOf(q)) \in Nat
      BY FS_CardinalityType DEF BpIInv, PoolInv, Resident
    <3>2. CASE q = p
      <4>1. HoldersOf(q)' = HoldersOf(q) \cup {c} /\ c \notin HoldersOf(q)
        BY <1>11, <1>18, <3>2
      <4>2. IsFiniteSet(HoldersOf(q)') /\ Cardinality(HoldersOf(q)') = Cardinality(HoldersOf(q)) + 1
        BY <3>1, <4>1, FS_AddElement
      <4>3. p2f[q] # NoFrame => Cardinality(HoldersOf(q)) <= frames[p2f[q]].pins
        BY DEF BpIInv, PoolInv, Resident
      <4> QED
        BY <1>7, <3>1, <3>2, <4>2, <4>3
    <3>3. CASE q # p
      <4>1. HoldersOf(q)' = HoldersOf(q)
        BY <1>11, <1>18, <3>3
      <4>2. p2f[q] # NoFrame => (p2f[q] \in Frames /\ p2f[q] # f)
        <5>1. f # NoFrame
          BY <1>4, BufferPoolAssumption DEF NoFrame
        <5>2. frames[f].page = p
          BY <1>4, <5>1, MapLeads
        <5>3. p2f[q] # NoFrame => (p2f[q] \in Frames /\ frames[p2f[q]].page = q)
          BY MapLeads
        <5> QED
          BY <3>3, <5>2, <5>3
      <4> QED
        BY <1>6, <3>1, <4>1, <4>2 DEF BpIInv, PoolInv, Resident
    <3> QED
      BY <3>2, <3>3
  <2>2. \A g \in Frames : frames'[g].page # NoPage => p2f'[frames'[g].page] = g
    BY <1>1, <1>8 DEF BpIInv, PoolInv, Resident
  <2>3. Resident'
    BY <1>1, <2>1, <2>2 DEF Resident
  <2>4. \A d \in Clients : handle[d] # NoHandle =>
            (p2f[handle[d].page] \in Frames /\ frames[p2f[handle[d].page]].cell = handle[d].cell)
    BY DEF BpIInv, PoolInv, Kept, BpTypeOK, CopiesOK
  <2>5. \A g \in Frames : g # NoFrame
    BY BufferPoolAssumption DEF NoFrame
  <2>6. \A d \in Clients : handle'[d] # NoHandle =>
            (p2f[handle'[d].page] \in Frames /\ frames[p2f[handle'[d].page]].cell = handle'[d].cell)
    BY <1>4, <1>10, <1>14, <2>4
  <2>7. Kept'
    BY <1>1, <1>8, <2>5, <2>6 DEF Kept
  <2> QED
    BY <2>3, <2>7
<1>20. Exact => (NoLost' /\ CleanSaved')
  <2> SUFFICES ASSUME Exact
               PROVE  NoLost' /\ CleanSaved'
    OBVIOUS
  <2>1. \A q \in 1 .. total : p2f[q] # NoFrame => p2f[q] \in Frames
    BY InFile DEF BpIInv, BpTypeOK
  <2>2. NoLost'
    BY <1>1, <1>8, <2>1 DEF BpIInv, PoolInv, NoLost, Fresh, Saved
  <2>3. \A q : Saved(q)' = Saved(q)
    BY <1>1 DEF Saved
  <2>4. \A g \in Frames : frames[g].page # NoPage => frames[g].page \in Pages
    BY FrameContent
  <2>5. CleanSaved'
    BY <1>8, <1>11, <1>18, <2>3, <2>4 DEF BpIInv, PoolInv, CleanSaved
  <2> QED
    BY <2>2, <2>5
<1>21. (Exact' <=> Exact) /\ (Sequential' <=> Sequential)
    BY <1>0 DEF Carried
<1>22. PoolInv'
    BY <1>1, <1>15, <1>16, <1>17, <1>19, <1>20, <1>21 DEF PoolInv
<1>23. CallsOK'
  <2>1. pc' \in [Clients -> Places]
    BY <1>2, <1>3 DEF BpIInv, CallInv, CallsOK, Places, Fetching
  <2>2. want' \in [Clients -> 0 .. MaxPages]
    BY <1>2, <1>3, BufferPoolAssumption DEF BpIInv, CallInv, CallsOK, NoPage
  <2>3. slot' \in [Clients -> Frames \cup {NoFrame}]
    BY <1>2, <1>3 DEF BpIInv, CallInv, CallsOK
  <2>4. pc'[c] = "find" => (want'[c] \in Pages /\ handle'[c] = NoHandle)
    BY <1>2, <1>3, <1>4 DEF BpIInv, CallInv, CallsOK
  <2> QED
    BY <1>1, <1>9, <1>10, <2>1, <2>2, <2>3, <2>4 DEF BpIInv, CallInv, CallsOK, Fetching
<1>24. Locks'
    BY <1>1, <1>9, <1>10 DEF BpIInv, CallInv, Locks, MapHeld
<1>25. Sequential => \A d \in Clients : d # c => pc[d] = "idle"
    BY <1>0 DEF Carried
<1>26. Sequential => OneAtATime'
    BY <1>1, <1>9, <1>25 DEF BpIInv, CallInv, OneAtATime
<1>27. Exact => pc'[c] = "idle"
    BY <1>2, <1>18 DEF BpIInv, CallInv, CallsOK
<1>28. Exact => (Steady' /\ Written')
    BY <1>9, <1>25, <1>27 DEF Exact, Steady, Written
<1> QED
    BY <1>0, <1>1, <1>12, <1>21, <1>22, <1>23, <1>24, <1>26, <1>28 DEF BpIInv, CallInv, Carried

-----------------------------------------------------------------------------
(* Steps that change the maps *)

\* delete_page: the frame of the page is reset, whoever holds the page; every other
\* page in a client's hands stays where it was.
LEMMA DeleteFrameStep ==
    ASSUME BpIInv, UNCHANGED load, NEW c \in Clients, DeleteFrame(c)
    PROVE  BpIInv'
<1> DEFINE p == want[c]
           f == p2f[p]
           none == [page |-> NoPage, cell |-> NoCell, pins |-> 0, dirty |-> FALSE]
<1>1. /\ pc[c] = "delete" /\ pc' = [pc EXCEPT ![c] = "hung"]
      /\ stuck' = TRUE
      /\ UNCHANGED <<cells, lru, total, disk, want, slot, handle, todo, misread, latest>>
    BY DEF DeleteFrame, Goto, fileVars
<1>2. f = NoFrame => UNCHANGED <<frames, p2f, f2p>>
    BY DEF DeleteFrame
<1>3. f # NoFrame => /\ Unlocked(f)
                     /\ p2f' = [p2f EXCEPT ![p] = NoFrame]
                     /\ f2p' = [f2p EXCEPT ![f] = NoPage]
                     /\ frames' = [frames EXCEPT ![f] = none]
    BY DEF DeleteFrame
<1>4. p \in Pages
    BY <1>1 DEF BpIInv, CallInv, CallsOK
<1>5. pc'[c] = "hung" /\ \A d \in Clients : d # c => pc'[d] = pc[d]
    BY <1>1 DEF BpIInv, CallInv, CallsOK
<1>6. p2f'[p] = NoFrame /\ \A q \in Pages : q # p => p2f'[q] = p2f[q]
    BY <1>2, <1>3, <1>4 DEF BpIInv, BpTypeOK
<1>7. none \in [page : 0 .. MaxPages, cell : 0 .. MaxLoads, pins : Nat, dirty : BOOLEAN]
    BY BufferPoolAssumption DEF NoPage, NoCell
<1>8. none.page = NoPage /\ none.cell = NoCell
    OBVIOUS
<1>9. /\ \A g \in Frames : g # f => (frames'[g] = frames[g] /\ f2p'[g] = f2p[g])
      /\ f # NoFrame => (f \in Frames /\ frames'[f] = none /\ f2p'[f] = NoPage)
  <2>1. f # NoFrame => f \in Frames
    BY <1>4 DEF BpIInv, BpTypeOK
  <2> QED
    BY <1>2, <1>3, <2>1 DEF BpIInv, BpTypeOK
<1>10. \A g \in Frames : g = f => f # NoFrame
    BY BufferPoolAssumption DEF NoFrame
<1> HIDE DEF none
<1>11. BpTypeOK'
  <2>1. frames' \in [Frames -> [page : 0 .. MaxPages, cell : 0 .. MaxLoads, pins : Nat, dirty : BOOLEAN]]
    BY <1>2, <1>3, <1>7 DEF BpIInv, BpTypeOK
  <2>2. p2f' \in [Pages -> Frames \cup {NoFrame}]
    BY <1>2, <1>3 DEF BpIInv, BpTypeOK
  <2>3. f2p' \in [Frames -> 0 .. MaxPages]
    <3>1. NoPage \in 0 .. MaxPages
      BY BufferPoolAssumption DEF NoPage
    <3> QED
      BY <1>2, <1>3, <3>1 DEF BpIInv, BpTypeOK
  <2> QED
    BY <1>1, <2>1, <2>2, <2>3 DEF BpIInv, BpTypeOK
<1>12. CopiesOK'
  <2>1. \A g \in Frames : FrameOK(frames[g])'
    BY <1>1, <1>8, <1>9, <1>10 DEF BpIInv, PoolInv, CopiesOK, FrameOK
  <2> QED
    BY <1>1, <2>1 DEF BpIInv, PoolInv, CopiesOK
<1>13. \A q \in Pages : q # p /\ p2f[q] # NoFrame =>
            (p2f[q] \in Frames /\ (~misread => (p2f[q] # f /\ f2p[p2f[q]] = q)))
  <2> SUFFICES ASSUME NEW q \in Pages, q # p, p2f[q] # NoFrame
               PROVE  p2f[q] \in Frames /\ (~misread => (p2f[q] # f /\ f2p[p2f[q]] = q))
    OBVIOUS
  <2>1. p2f[q] \in Frames /\ (~misread => f2p[p2f[q]] = q)
    BY MapLeads
  <2>2. (~misread /\ f # NoFrame) => f2p[f] = p
    BY <1>4, MapLeads
  <2> QED
    BY <2>1, <2>2
<1>14. ~misread => Matched'
  <2> SUFFICES ASSUME ~misread
               PROVE  Matched'
    OBVIOUS
  <2>1. Matched
    BY DEF BpIInv, PoolInv
  <2>2. \A g \in Frames : Filling(g)' <=> Filling(g)
    BY <1>1, <1>5 DEF Filling
  <2>3. \A g \in Frames : f2p'[g] = frames'[g].page \/ Filling(g)'
    BY <1>8, <1>9, <1>10, <2>1, <2>2 DEF Matched
  <2>4. \A g \in Frames : frames'[g].page # NoPage => frames'[g] = frames[g]
    BY <1>8, <1>9, <1>10
  <2>5. \A q \in Pages : p2f'[q] # NoFrame => f2p'[p2f'[q]] = q
    BY <1>6, <1>9, <1>13
  <2> QED
    BY <1>1, <2>1, <2>3, <2>4, <2>5 DEF Matched
<1>15. Covered'
    BY <1>1 DEF Covered
<1>16. ~Exact' /\ (Sequential' <=> Sequential)
    BY <1>1 DEF Exact, Sequential
<1>17. PoolInv'
    BY <1>1, <1>12, <1>14, <1>15, <1>16 DEF PoolInv
<1>18. Frozen'
  <2> SUFFICES ASSUME Sequential, ~misread
               PROVE  PinnedResident'
    BY <1>1, <1>16 DEF Frozen
  <2>1. Exact
    BY <1>1 DEF BpIInv, CallInv, OneAtATime, Exact, Quiet
  <2>2. ASSUME NEW d \in Clients, handle[d] # NoHandle, handle[d].page # p
        PROVE  p2f'[handle[d].page] # NoFrame /\ frames'[p2f'[handle[d].page]].cell = handle[d].cell
    <3>1. handle[d].page \in Pages
      BY <2>2 DEF BpIInv, PoolInv, CopiesOK
    <3>2. p2f[handle[d].page] # NoFrame /\ frames[p2f[handle[d].page]].cell = handle[d].cell
      BY <2>1, <2>2 DEF BpIInv, PoolInv, Kept
    <3>3. p2f[handle[d].page] \in Frames /\ p2f[handle[d].page] # f
      BY <1>13, <2>2, <3>1, <3>2
    <3> QED
      BY <1>6, <1>9, <2>2, <3>1, <3>2, <3>3
  <2>3. Deleted(p)'
    BY <1>1, <1>5 DEF Deleted
  <2> QED
    BY <1>1, <2>2, <2>3 DEF PinnedResident
<1>19. CallsOK'
  <2>1. pc' \in [Clients -> Places]
    BY <1>1 DEF BpIInv, CallInv, CallsOK, Places
  <2> QED
    BY <1>1, <1>5, <2>1 DEF BpIInv, CallInv, CallsOK, Fetching
<1>20. Locks'
  <2>1. \A d \in Clients : pc'[d] \notin MapHeld
    BY <1>1, <1>5 DEF BpIInv, CallInv, Locks, MapHeld
  <2>2. \A d, e \in Clients :
            (pc'[d] \in {"remap", "read"} /\ pc'[e] \in {"remap", "read"} /\ slot'[d] = slot'[e]) => d = e
    BY <1>1, <1>5 DEF BpIInv, CallInv, Locks
  <2>3. ASSUME NEW d \in Clients, pc'[d] = "read"
        PROVE  f2p'[slot'[d]] = want'[d]
    <3>1. pc[d] = "read" /\ slot[d] \in Frames /\ f2p[slot[d]] = want[d]
      BY <1>5, <2>3 DEF BpIInv, CallInv, CallsOK, Locks
    <3>2. slot[d] # f
      BY <1>3, <1>10, <3>1 DEF Unlocked
    <3> QED
      BY <1>1, <1>9, <3>1, <3>2
  <2> QED
    BY <2>1, <2>2, <2>3 DEF Locks, MapHeld
<1>21. Sequential => \A d \in Clients : d # c => pc'[d] = "idle"
    BY <1>1, <1>5 DEF BpIInv, CallInv, OneAtATime
<1>22. Sequential => (OneAtATime' /\ Betweens')
    BY <1>5, <1>21 DEF OneAtATime, Betweens
<1>23. Betweens'
    BY <1>16, <1>22 DEF Betweens
<1> QED
    BY <1>11, <1>16, <1>17, <1>18, <1>19, <1>20, <1>22, <1>23 DEF BpIInv, CallInv

\* The maps are changed: the page is in the frame for them, and what was in the frame
\* is no more.  When calls do not overlap, that page is in the file as last changed.
LEMMA RemapStep ==
    ASSUME BpIInv, UNCHANGED load, NEW c \in Clients, Remap(c)
    PROVE  BpIInv'
<1> DEFINE f == slot[c]
           p == want[c]
           old == frames[f].page
<1>1. /\ pc[c] = "remap" /\ MapWritable
      /\ pc' = [pc EXCEPT ![c] = "read"]
      /\ p2f' = Remapped(p, f)
      /\ f2p' = [f2p EXCEPT ![f] = p]
      /\ UNCHANGED <<frames, cells, lru, total, disk, want, slot, handle, todo, stuck, misread, latest>>
    BY DEF Remap, Goto, fileVars
<1>2. p \in Pages /\ f \in Frames /\ handle[c] = NoHandle /\ f # NoFrame
    BY <1>1, BufferPoolAssumption DEF BpIInv, CallInv, CallsOK, Fetching, NoFrame
<1>3. \A q \in Pages : p2f'[q] = IF q = p THEN f ELSE IF q = old THEN NoFrame ELSE p2f[q]
    BY <1>1, <1>2 DEF Remapped
<1>4. \A g \in Frames : f2p'[g] = IF g = f THEN p ELSE f2p[g]
    BY <1>1, <1>2 DEF BpIInv, BpTypeOK
<1>5. pc'[c] = "read" /\ \A d \in Clients : d # c => pc'[d] = pc[d]
    BY <1>1 DEF BpIInv, CallInv, CallsOK
<1>6. BpTypeOK'
  <2>1. p2f' \in [Pages -> Frames \cup {NoFrame}]
    BY <1>1, <1>2 DEF BpIInv, BpTypeOK, Remapped
  <2>2. f2p' \in [Frames -> 0 .. MaxPages]
    BY <1>1, <1>2 DEF BpIInv, BpTypeOK, Pages
  <2> QED
    BY <1>1, <2>1, <2>2 DEF BpIInv, BpTypeOK
<1>7. CopiesOK' /\ Covered'
    BY <1>1 DEF BpIInv, PoolInv, CopiesOK, FrameOK, Covered, Holders, Pins, PinsCoverHandles
<1>8. ~Filling(f) /\ Filling(f)' /\ \A g \in Frames : Filling(g) => Filling(g)'
  <2>1. ~Filling(f)
    BY <1>1 DEF BpIInv, CallInv, Locks, Filling
  <2>2. Filling(f)' /\ \A g \in Frames : Filling(g) => Filling(g)'
    BY <1>1, <1>5 DEF Filling
  <2> QED
    BY <2>1, <2>2
<1>9. ~misread => \A q \in Pages : (q # p /\ p2f'[q] # NoFrame) =>
            (q # old /\ p2f'[q] = p2f[q] /\ p2f[q] \in Frames /\ p2f[q] # f /\ f2p[p2f[q]] = q)
  <2> SUFFICES ASSUME ~misread, NEW q \in Pages, q # p, p2f'[q] # NoFrame
               PROVE  q # old /\ p2f'[q] = p2f[q] /\ p2f[q] \in Frames /\ p2f[q] # f /\ f2p[p2f[q]] = q
    OBVIOUS
  <2>1. q # old /\ p2f'[q] = p2f[q] /\ p2f[q] # NoFrame
    BY <1>3
  <2>2. p2f[q] \in Frames /\ f2p[p2f[q]] = q /\ (~Filling(p2f[q]) => frames[p2f[q]].page = q)
    BY <2>1, MapLeads
  <2> QED
    BY <1>8, <2>1, <2>2
<1>10. ~misread => Matched'
  <2> SUFFICES ASSUME ~misread
               PROVE  Matched'
    OBVIOUS
  <2>1. Matched
    BY DEF BpIInv, PoolInv
  <2>2. \A g \in Frames : f2p'[g] = frames'[g].page \/ Filling(g)'
    BY <1>1, <1>4, <1>8, <2>1 DEF Matched
  <2>3. \A q \in Pages : p2f'[q] # NoFrame => f2p'[p2f'[q]] = q
    BY <1>2, <1>3, <1>4, <1>9
  <2> QED
    BY <1>1, <2>1, <2>2, <2>3 DEF Matched
<1>11. ~Exact'
    BY <1>5 DEF Exact, Quiet
<1>12. PoolInv'
    BY <1>1, <1>7, <1>10, <1>11 DEF PoolInv
<1>13. CallsOK'
  <2>1. pc' \in [Clients -> Places]
    BY <1>1 DEF BpIInv, CallInv, CallsOK, Places, Fetching
  <2> QED
    BY <1>1, <1>2, <1>5, <2>1 DEF BpIInv, CallInv, CallsOK, Fetching
<1>14. Locks'
  <2>1. \A d \in Clients : pc'[d] \notin MapHeld
    BY <1>1, <1>5 DEF MapWritable, MapHeld
  <2>2. \A d, e \in Clients :
            (pc'[d] \in {"remap", "read"} /\ pc'[e] \in {"remap", "read"} /\ slot'[d] = slot'[e]) => d = e
    BY <1>1, <1>5 DEF BpIInv, CallInv, Locks
  <2>3. ASSUME NEW d \in Clients, pc'[d] = "read"
        PROVE  f2p'[slot'[d]] = want'[d]
    <3>1. CASE d = c
      BY <1>1, <1>2, <1>4, <3>1
    <3>2. CASE d # c
      <4>1. pc[d] = "read" /\ slot[d] \in Frames /\ slot[d] # f /\ f2p[slot[d]] = want[d]
        BY <1>1, <1>5, <2>3, <3>2 DEF BpIInv, CallInv, CallsOK, Locks
      <4> QED
        BY <1>1, <1>4, <4>1
    <3> QED
      BY <3>1, <3>2
  <2> QED
    BY <2>1, <2>2, <2>3 DEF Locks, MapHeld
<1>15. Sequential => /\ \A d \in Clients : d # c => pc[d] = "idle" /\ pc'[d] = "idle"
                     /\ Quiet /\ ~stuck
    BY <1>1, <1>5 DEF BpIInv, CallInv, OneAtATime, Quiet
<1>16. Sequential' <=> Sequential
    BY DEF Sequential
<1>17. Sequential' => OneAtATime'
    BY <1>1, <1>15, <1>16 DEF OneAtATime
<1>18. (Sequential /\ ~misread) => Between(c)'
  <2> SUFFICES ASSUME Sequential, ~misread
               PROVE  Between(c)'
    OBVIOUS
  <2>1. Exact
    BY <1>15 DEF Exact
  <2>2. Resident /\ Kept /\ NoLost /\ CleanSaved /\ Steady /\ Written
    BY <2>1 DEF BpIInv, PoolInv, CallInv
  <2>3. p2f[p] = NoFrame /\ \A d \in Clients : handle[d] # NoHandle => p2f[handle[d].page] # f
    BY <1>1, <2>2 DEF Steady
  <2>4. old # NoPage => (old \in Pages /\ p2f[old] = f /\ Saved(old))
    BY <1>1, <1>2, <2>2, FrameContent DEF Resident, Written
  <2>5. \A q \in Pages : q # p => p2f'[q] # f
    BY <1>2, <1>9
  <2>6. ASSUME NEW g \in Frames \ {f}, frames[g].page # NoPage
        PROVE  p2f'[frames[g].page] = g /\ frames[g].page # p
    <3>1. frames[g].page \in Pages /\ p2f[frames[g].page] = g /\ g # NoFrame
      BY <2>2, <2>6, FrameContent, BufferPoolAssumption DEF Resident, NoFrame
    <3>2. frames[g].page # p /\ frames[g].page # old
      BY <2>3, <2>4, <2>6, <3>1
    <3> QED
      BY <1>3, <3>1, <3>2
  <2>7. \A q : HoldersOf(q)' = HoldersOf(q) /\ Changed(q)' = Changed(q) /\ Saved(q)' = Saved(q)
    BY <1>1 DEF HoldersOf, Changed, Saved
  <2>8. \A q \in Pages \ {p} : p2f'[q] # NoFrame => Cardinality(HoldersOf(q)) <= frames[p2f'[q]].pins
    BY <1>9, <2>2 DEF Resident
  <2>9. ASSUME NEW d \in Clients, handle[d] # NoHandle
        PROVE  /\ handle[d].page # p
               /\ p2f'[handle[d].page] # NoFrame /\ frames[p2f'[handle[d].page]].cell = handle[d].cell
    <3>1. handle[d].page \in Pages /\ handle[d].page # NoPage
      BY <2>9 DEF BpIInv, PoolInv, CopiesOK, Pages, NoPage
    <3>2. p2f[handle[d].page] # NoFrame /\ frames[p2f[handle[d].page]].cell = handle[d].cell
      BY <2>2, <2>9 DEF Kept
    <3>3. handle[d].page # p /\ handle[d].page # old
      BY <2>3, <2>4, <2>9, <3>1, <3>2
    <3> QED
      BY <1>3, <3>1, <3>2, <3>3
  <2>10. Kept'
    BY <1>1, <2>9 DEF Kept
  <2>11. ASSUME NEW q \in 1 .. total
         PROVE  IF q = p THEN Saved(q) ELSE Fresh(q)'
    <3>1. q \in Pages /\ q # NoPage /\ Fresh(q)
      BY <2>2, InFile DEF NoLost, NoPage
    <3>2. CASE q = p
      BY <2>3, <3>1, <3>2 DEF Fresh
    <3>3. CASE q # p /\ q = old
      <4>1. p2f'[q] = NoFrame
        BY <1>3, <3>1, <3>3
      <4> QED
        BY <2>4, <2>7, <3>1, <3>3, <4>1 DEF Fresh
    <3>4. CASE q # p /\ q # old
      <4>1. p2f'[q] = p2f[q]
        BY <1>3, <3>1, <3>4
      <4> QED
        BY <1>1, <2>7, <3>1, <3>4, <4>1 DEF Fresh
    <3> QED
      BY <3>2, <3>3, <3>4
  <2>12. p2f'[p] = f
    BY <1>2, <1>3
  <2>13. \A q \in Pages : IsFiniteSet(HoldersOf(q))
    BY <2>2 DEF Resident
  <2>14. \A g \in Frames \ {f} : (frames[g].page # NoPage /\ ~frames[g].dirty) =>
            (Changed(frames[g].page) \/ Saved(frames[g].page))
    BY <2>2 DEF CleanSaved
  <2>15. \A q \in 1 .. total : IF q = p THEN Saved(q)' ELSE Fresh(q)'
    BY <2>7, <2>11
  <2>16. \A g \in Frames \ {f} : (frames'[g].page # NoPage /\ ~frames'[g].dirty) =>
            (Changed(frames[g].page)' \/ Saved(frames[g].page)')
    BY <1>1, <2>7, <2>14
  <2>17. \A g \in Frames \ {f} : (frames'[g].page # NoPage /\ ~frames'[g].dirty) =>
            (Changed(frames[g].page) \/ Saved(frames[g].page))'
    BY <1>1, <2>16 DEF Changed, Saved
  <2>18. want' = want /\ slot' = slot /\ frames' = frames /\ handle' = handle /\ total' = total
    BY <1>1
  <2>19. \A q \in Pages : IsFiniteSet(HoldersOf(q)')
    BY <2>7, <2>13
  <2>20. \A q \in Pages \ {p} : p2f'[q] # NoFrame => Cardinality(HoldersOf(q)') <= frames'[p2f'[q]].pins
    BY <2>7, <2>8, <2>18
  <2> QED
    BY <2>5, <2>6, <2>9, <2>10, <2>12, <2>15, <2>17, <2>18, <2>19, <2>20 DEF Between
<1>19. Betweens'
    BY <1>1, <1>5, <1>15, <1>16, <1>18 DEF Betweens
<1>20. Frozen'
    BY <1>1, <1>15, <1>16 DEF Frozen
<1> QED
    BY <1>6, <1>11, <1>12, <1>13, <1>14, <1>17, <1>19, <1>20 DEF BpIInv, CallInv

\* The part of fetch_page's last step that both outcomes of read_page share.
LEMMA LoadEnds ==
    ASSUME BpIInv, UNCHANGED load, NEW c \in Clients, NEW readOk \in BOOLEAN, Load(c, readOk)
    PROVE  /\ pc[c] = "read" /\ want[c] \in Pages /\ slot[c] \in Frames /\ handle[c] = NoHandle
           /\ ~stuck
           /\ pc'[c] = "idle" /\ \A d \in Clients : d # c =>
                pc'[d] = pc[d] /\ want'[d] = want[d] /\ slot'[d] = slot[d]
           /\ pc' \in [Clients -> Places]
           /\ want' \in [Clients -> 0 .. MaxPages]
           /\ slot' \in [Clients -> Frames \cup {NoFrame}]
           /\ misread' = (misread \/ ~readOk)
           /\ UNCHANGED <<p2f, f2p, total, disk, todo, stuck, latest>>
<1>1. /\ pc[c] = "read" /\ ~stuck
      /\ pc' = [pc EXCEPT ![c] = "idle"]
      /\ want' = [want EXCEPT ![c] = NoPage]
      /\ slot' = [slot EXCEPT ![c] = NoFrame]
      /\ misread' = (misread \/ ~readOk)
      /\ UNCHANGED <<p2f, f2p, total, disk, todo, stuck, latest>>
    BY DEF Load, Done, fileVars
<1>2. want[c] \in Pages /\ slot[c] \in Frames /\ handle[c] = NoHandle
    BY <1>1 DEF BpIInv, CallInv, CallsOK, Fetching
<1>3. pc'[c] = "idle" /\ \A d \in Clients : d # c =>
                pc'[d] = pc[d] /\ want'[d] = want[d] /\ slot'[d] = slot[d]
    BY <1>1 DEF BpIInv, CallInv, CallsOK
<1>4. pc' \in [Clients -> Places]
    BY <1>1 DEF BpIInv, CallInv, CallsOK, Places
<1>5. want' \in [Clients -> 0 .. MaxPages] /\ slot' \in [Clients -> Frames \cup {NoFrame}]
    BY <1>1, BufferPoolAssumption DEF BpIInv, CallInv, CallsOK, NoPage
<1> QED
    BY <1>1, <1>2, <1>3, <1>4, <1>5

\* After it the call is over.
LEMMA LoadCalls ==
    ASSUME BpIInv, UNCHANGED load, NEW c \in Clients, NEW readOk \in BOOLEAN, Load(c, readOk),
           \A d \in Clients : d # c => handle'[d] = handle[d]
    PROVE  CallInv'
<1>1. CallsOK'
  <2>1. misread' \in BOOLEAN
    BY LoadEnds DEF BpIInv, CallInv, CallsOK
  <2> QED
    BY <2>1, LoadEnds DEF BpIInv, CallInv, CallsOK, Fetching
<1>2. Locks'
    BY LoadEnds DEF BpIInv, CallInv, Locks, MapHeld
<1>3. Sequential => \A d \in Clients : pc'[d] = "idle"
    BY LoadEnds DEF BpIInv, CallInv, OneAtATime
<1>4. (Sequential' <=> Sequential) /\ ~stuck'
    BY LoadEnds DEF Sequential
<1>5. Sequential => (OneAtATime' /\ Steady' /\ Written')
    BY <1>3, <1>4 DEF OneAtATime, Steady, Written
<1>6. Betweens' /\ Frozen'
    BY <1>3, <1>4 DEF Betweens, Frozen
<1>7. Exact' => Sequential'
    BY DEF Exact
<1> QED
    BY <1>1, <1>2, <1>4, <1>5, <1>6, <1>7 DEF CallInv

\* read_page fails: the maps say that the page is in the frame, which has the old
\* page still; from then on only what does not trust the maps is claimed.
LEMMA LoadFailsStep ==
    ASSUME BpIInv, UNCHANGED load, NEW c \in Clients, Load(c, FALSE)
    PROVE  BpIInv'
<1>1. UNCHANGED <<cells, frames, lru, handle>>
    BY DEF Load
<1>2. misread' /\ UNCHANGED <<p2f, f2p, total, disk, stuck, latest>>
    BY LoadEnds
<1>3. BpTypeOK'
    BY <1>1, <1>2 DEF BpIInv, BpTypeOK
<1>4. CopiesOK'
    BY <1>1 DEF BpIInv, PoolInv, CopiesOK, FrameOK
<1>5. Covered'
    BY <1>1, <1>2 DEF BpIInv, PoolInv, Covered, Holders, Pins, PinsCoverHandles
<1>6. PoolInv'
    BY <1>2, <1>4, <1>5 DEF PoolInv, Exact
<1>7. CallInv'
    BY <1>1, LoadCalls
<1> QED
    BY <1>3, <1>6, <1>7 DEF BpIInv

\* read_page succeeds: the page is in a new cell of the frame, as it is in the
\* file.  The page that was in the frame is in the file too, and nobody's, if
\* calls do not overlap; if they do, its handles keep the old cell.
LEMMA LoadStep ==
    ASSUME BpIInv, UNCHANGED load, NEW c \in Clients, Load(c, TRUE)
    PROVE  BpIInv'
<1> DEFINE f == slot[c]
           p == want[c]
           old == frames[f].page
           n == Len(cells) + 1
           R == [page : 0 .. MaxPages, change : 0 .. MaxChanges]
<1>1. /\ p <= total /\ Len(cells) < load.loads
      /\ cells' = Append(cells, disk[p])
      /\ frames' = [frames EXCEPT ![f] = Filled(@, p, n)]
      /\ lru' = Touch(p)
      /\ handle' = [handle EXCEPT ![c] = [page |-> p, cell |-> n, changed |-> FALSE]]
    BY DEF Load, Give
<1>2. /\ pc[c] = "read" /\ p \in Pages /\ f \in Frames /\ handle[c] = NoHandle /\ ~stuck
      /\ UNCHANGED <<p2f, f2p, total, disk, stuck, latest>>
      /\ misread' = misread
    BY LoadEnds DEF BpIInv, CallInv, CallsOK
<1>3. f2p[f] = p /\ \A g \in Frames : g # f => (Filling(g)' <=> Filling(g))
  <2>1. f2p[f] = p
    BY <1>2 DEF BpIInv, CallInv, Locks
  <2>2. \A g \in Frames : g # f => (Filling(g)' <=> Filling(g))
    BY <1>2, LoadEnds DEF Filling
  <2> QED
    BY <2>1, <2>2
<1>4. Sequential => /\ \A d \in Clients : d # c => pc[d] = "idle"
                    /\ \A g \in Frames : g # f => ~Filling(g)
  <2>1. Sequential => \A d \in Clients : d # c => pc[d] = "idle"
    BY <1>2 DEF BpIInv, CallInv, OneAtATime
  <2> QED
    BY <2>1 DEF Filling
<1>5. cells \in Seq(R) /\ disk[p] \in R
    BY <1>2 DEF BpIInv, BpTypeOK
<1>6. /\ cells' \in Seq(R) /\ Len(cells') = n /\ cells'[n] = disk[p]
      /\ \A i \in 1 .. Len(cells) : cells'[i] = cells[i]
    BY <1>1, <1>5, AppendProperties
<1>7. Len(cells) \in Nat /\ n \in Nat \ {0} /\ n <= load.loads /\ n <= MaxLoads
  <2>1. Len(cells) \in Nat
    BY <1>5, LenProperties
  <2>2. load.loads \in 0 .. MaxLoads
    BY DEF BpIInv, CallInv, CallsOK, Workload
  <2> QED
    BY <1>1, <2>1, <2>2, BufferPoolAssumption
<1>8. /\ \A g \in Frames : g # f => frames'[g] = frames[g]
      /\ frames'[f] = Filled(frames[f], p, n)
    BY <1>1, <1>2 DEF BpIInv, BpTypeOK
<1>9. /\ frames'[f].page = p /\ frames'[f].cell = n /\ ~frames'[f].dirty
      /\ frames'[f].pins = frames[f].pins + 1 /\ frames[f].pins \in Nat
      /\ frames'[f] \in [page : 0 .. MaxPages, cell : 0 .. MaxLoads, pins : Nat, dirty : BOOLEAN]
  <2>1. frames[f].pins \in Nat
    BY <1>2 DEF BpIInv, BpTypeOK
  <2>2. p \in 0 .. MaxPages /\ n \in 0 .. MaxLoads /\ frames[f].pins + 1 \in Nat
    BY <1>2, <1>7, <2>1, BufferPoolAssumption DEF Pages
  <2> QED
    BY <1>8, <2>1, <2>2 DEF Filled
<1>10. /\ handle' \in [Clients -> [page : 0 .. MaxPages, cell : 0 .. MaxLoads, changed : BOOLEAN]]
       /\ handle'[c].page = p /\ handle'[c].cell = n /\ handle'[c] # NoHandle
       /\ \A d \in Clients : d # c => handle'[d] = handle[d]
       /\ Holders' = Holders \cup {c} /\ c \notin Holders
       /\ \A q \in Pages : HoldersOf(q)' = IF q = p THEN HoldersOf(q) \cup {c} ELSE HoldersOf(q)
       /\ c \notin HoldersOf(p)
       /\ \A q \in Pages : Changed(q)' = Changed(q)
    BY <1>1, <1>2, <1>7, HandleTaken
<1> HIDE DEF n
<1>11. BpTypeOK'
  <2>1. frames' \in [Frames -> [page : 0 .. MaxPages, cell : 0 .. MaxLoads, pins : Nat, dirty : BOOLEAN]]
    BY <1>1, <1>8, <1>9 DEF BpIInv, BpTypeOK
  <2>2. lru' \in Seq(Pages)
    BY <1>1, <1>2, TouchType DEF BpIInv, BpTypeOK
  <2> QED
    BY <1>2, <1>6, <1>10, <2>1, <2>2 DEF BpIInv, BpTypeOK
<1>12. \A i \in 1 .. Len(cells) : i \in 1 .. Len(cells')
    BY <1>6, <1>7 DEF n
<1>13. n \in 1 .. Len(cells') /\ n # NoCell
    BY <1>6, <1>7 DEF NoCell
<1>14. CopiesOK'
  <2>1. \A g \in Frames : FrameOK(frames[g])'
    <3> SUFFICES ASSUME NEW g \in Frames
                 PROVE  FrameOK(frames[g])'
      OBVIOUS
    <3>1. CASE g = f
      BY <1>2, <1>9, <1>13, <3>1 DEF FrameOK
    <3>2. CASE g # f
      BY <1>8, <1>12, <3>2 DEF BpIInv, PoolInv, CopiesOK, FrameOK
    <3> QED
      BY <3>1, <3>2
  <2>2. \A d \in Clients : handle'[d] # NoHandle =>
            (handle'[d].page \in Pages /\ handle'[d].cell \in 1 .. Len(cells'))
    BY <1>2, <1>10, <1>12, <1>13 DEF BpIInv, PoolInv, CopiesOK
  <2>3. Len(cells') <= load'.loads
    BY <1>6, <1>7
  <2> QED
    BY <2>1, <2>2, <2>3 DEF CopiesOK
<1>15. \A g \in Frames : g # f /\ frames[g].page # NoPage =>
            (frames[g].page \in Pages /\ cells'[frames[g].cell] = cells[frames[g].cell])
    BY <1>6, FrameContent
<1>18. ~misread => Matched'
  <2> SUFFICES ASSUME ~misread
               PROVE  Matched'
    OBVIOUS
  <2>1. Matched
    BY DEF BpIInv, PoolInv
  <2>2. disk[p].page = p
    BY <1>1, <1>2, <2>1 DEF Matched
  <2>3. \A g \in Frames : f2p[g] = frames'[g].page \/ Filling(g)'
    BY <1>3, <1>8, <1>9, <2>1 DEF Matched
  <2>4. \A g \in Frames : frames'[g].page # NoPage =>
            (cells'[frames'[g].cell].page = frames'[g].page /\ frames'[g].page <= total)
    <3>1. cells'[frames'[f].cell].page = frames'[f].page /\ frames'[f].page <= total
      BY <1>1, <1>6, <1>9, <2>2
    <3>2. \A g \in Frames : (g # f /\ frames[g].page # NoPage) =>
            (cells'[frames[g].cell].page = frames[g].page /\ frames[g].page <= total)
      BY <1>15, <2>1 DEF Matched
    <3> QED
      BY <1>8, <3>1, <3>2
  <2>6. \A d \in Clients : handle[d] # NoHandle => cells'[handle[d].cell] = cells[handle[d].cell]
    BY <1>6 DEF BpIInv, PoolInv, CopiesOK
  <2>7. \A d \in Clients : handle'[d] # NoHandle =>
            (cells'[handle'[d].cell].page = handle'[d].page /\ handle'[d].page <= total)
    <3>1. cells'[handle'[c].cell].page = handle'[c].page /\ handle'[c].page <= total
      BY <1>1, <1>6, <1>10, <2>2
    <3>2. \A d \in Clients : handle[d] # NoHandle =>
            (cells'[handle[d].cell].page = handle[d].page /\ handle[d].page <= total)
      BY <2>1, <2>6 DEF Matched
    <3> QED
      BY <1>10, <3>1, <3>2
  <2> QED
    BY <1>2, <2>1, <2>3, <2>4, <2>7 DEF Matched
<1>19. Covered'
  <2>1. IsFiniteSet(Holders) /\ IsFiniteSet(Pins) /\ Cardinality(Holders) <= Cardinality(Pins)
    BY <1>2 DEF BpIInv, PoolInv, Covered, PinsCoverHandles
  <2>2. Cardinality(Holders) \in Nat /\ Cardinality(Pins) \in Nat
    BY <2>1, FS_CardinalityType
  <2>3. \A g \in Frames : frames'[g].pins = IF g = f THEN frames[f].pins + 1 ELSE frames[g].pins
    BY <1>8, <1>9
  <2>4. IsFiniteSet(Pins') /\ Cardinality(Pins') = Cardinality(Pins) + 1
    BY <1>2, <1>11, <2>1, <2>3, PinAdded DEF BpIInv
  <2>5. Holders' = Holders \cup {c} /\ c \notin Holders
    BY <1>10
  <2>6. IsFiniteSet(Holders') /\ Cardinality(Holders') = Cardinality(Holders) + 1
    BY <2>1, <2>5, FS_AddElement
  <2>7. Cardinality(Holders') <= Cardinality(Pins')
    BY <2>1, <2>2, <2>4, <2>6
  <2> QED
    BY <2>4, <2>6, <2>7 DEF Covered, PinsCoverHandles
<1>20. (Sequential /\ ~misread) => (Resident' /\ Kept')
  <2> SUFFICES ASSUME Sequential, ~misread
               PROVE  Resident' /\ Kept'
    OBVIOUS
  <2>1. Between(c)
    BY <1>2 DEF BpIInv, CallInv, Betweens
  <2>2. p2f[p] = f /\ \A q \in Pages : q # p => p2f[q] # f
    BY <2>1 DEF Between
  <2>3. HoldersOf(p) = {}
    <3>1. \A d \in Clients : handle[d].page = p => handle[d] # NoHandle
      BY <1>2 DEF NoHandle, NoPage, Pages
    <3> QED
      BY <2>1, <3>1 DEF HoldersOf, Between
  <2>4. ASSUME NEW q \in Pages, q = p
        PROVE  IsFiniteSet(HoldersOf(q)') /\ Cardinality(HoldersOf(q)') = 1
    <3>1. HoldersOf(q)' = {c}
      BY <1>10, <2>3, <2>4
    <3> QED
      BY <3>1, FS_Singleton
  <2>5. \A q \in Pages : (q # p /\ p2f[q] # NoFrame) => frames'[p2f[q]] = frames[p2f[q]]
    BY <1>8, <2>2 DEF BpIInv, BpTypeOK
  <2>6. ASSUME NEW q \in Pages
        PROVE  /\ IsFiniteSet(HoldersOf(q)')
               /\ p2f[q] # NoFrame => Cardinality(HoldersOf(q)') <= frames'[p2f[q]].pins
    <3>1. CASE q = p
      BY <1>9, <2>2, <2>4, <3>1
    <3>2. CASE q # p
      <4>1. HoldersOf(q)' = HoldersOf(q)
        BY <1>10, <3>2
      <4> QED
        BY <2>1, <2>5, <3>2, <4>1 DEF Between
    <3> QED
      BY <3>1, <3>2
  <2>7. \A g \in Frames : frames'[g].page # NoPage => p2f[frames'[g].page] = g
    BY <1>8, <1>9, <2>1, <2>2 DEF Between
  <2>8. Resident'
    BY <1>2, <2>6, <2>7 DEF Resident
  <2>9. ASSUME NEW d \in Clients, handle'[d] # NoHandle
        PROVE  p2f[handle'[d].page] # NoFrame /\ frames'[p2f[handle'[d].page]].cell = handle'[d].cell
    <3>1. CASE d = c
      BY <1>2, <1>9, <1>10, <2>2, <3>1, BufferPoolAssumption DEF NoFrame
    <3>2. CASE d # c
      <4>1. handle'[d] = handle[d]
        BY <1>10, <3>2
      <4>2. /\ handle[d].page \in Pages /\ handle[d].page # p
            /\ p2f[handle[d].page] # NoFrame /\ frames[p2f[handle[d].page]].cell = handle[d].cell
        BY <2>1, <2>9, <4>1 DEF BpIInv, PoolInv, CopiesOK, Between, Kept
      <4> QED
        BY <2>5, <4>1, <4>2
    <3> QED
      BY <3>1, <3>2
  <2>10. Kept'
    BY <1>2, <2>9 DEF Kept
  <2> QED
    BY <2>8, <2>10
<1>21. (Sequential /\ ~misread) => (NoLost' /\ CleanSaved')
  <2> SUFFICES ASSUME Sequential, ~misread
               PROVE  NoLost' /\ CleanSaved'
    OBVIOUS
  <2>1. Between(c)
    BY <1>2 DEF BpIInv, CallInv, Betweens
  <2>2. p2f[p] = f /\ (\A q \in Pages : q # p => p2f[q] # f) /\ f # NoFrame
    BY <1>2, <2>1, BufferPoolAssumption DEF Between, NoFrame
  <2>3. \A q : Saved(q)' = Saved(q)
    BY <1>2 DEF Saved
  <2>4. p \in 1 .. total /\ Saved(p)
    <3>1. p \in 1 .. total
      BY <1>1, <1>2 DEF Pages, BpIInv, BpTypeOK
    <3> QED
      BY <2>1, <3>1 DEF Between
  <2>5. ASSUME NEW q \in 1 .. total
        PROVE  IF p2f[q] # NoFrame THEN cells'[frames'[p2f[q]].cell] = Content(q, latest[q])
               ELSE disk[q] = Content(q, latest[q])
    <3>1. q \in Pages /\ q # NoPage /\ (q # p => Fresh(q))
      BY <2>1, InFile DEF NoPage, Between
    <3>2. CASE q = p
      BY <1>6, <1>9, <2>2, <2>4, <3>2 DEF Saved
    <3>3. CASE q # p /\ p2f[q] = NoFrame
      BY <3>1, <3>3 DEF Fresh, Saved
    <3>4. CASE q # p /\ p2f[q] # NoFrame
      <4>1. p2f[q] \in Frames /\ p2f[q] # f /\ frames'[p2f[q]] = frames[p2f[q]]
        BY <1>8, <2>2, <3>1, <3>4 DEF BpIInv, BpTypeOK
      <4>2. frames[p2f[q]].page = q /\ frames[p2f[q]].page # NoPage
        BY <1>4, <3>1, <3>4, <4>1, MapLeads
      <4>3. cells[frames[p2f[q]].cell] = Content(q, latest[q])
        BY <3>1, <3>4 DEF Fresh
      <4> QED
        BY <1>15, <3>4, <4>1, <4>2, <4>3
    <3> QED
      BY <3>2, <3>3, <3>4
  <2>6. NoLost'
    BY <1>2, <2>5 DEF NoLost, Fresh, Saved
  <2>7. ASSUME NEW g \in Frames, frames'[g].page # NoPage, ~frames'[g].dirty
        PROVE  Changed(frames[g].page)' \/ Saved(frames[g].page)'
    <3>1. CASE g = f
      <4>1. disk'[p] = Content(p, latest'[p])
        BY <1>2, <2>4 DEF Saved
      <4> QED
        BY <1>9, <3>1, <4>1 DEF Saved
    <3>2. CASE g # f
      <4>1. PICK q \in Pages : q = frames[g].page
        BY <1>8, <2>7, <3>2, FrameContent
      <4>2. Changed(q) \/ Saved(q)
        BY <1>8, <2>1, <2>7, <3>2, <4>1 DEF Between
      <4>3. Changed(q)' \/ Saved(q)'
        BY <1>10, <2>3, <4>2
      <4> QED
        BY <1>8, <3>2, <4>1, <4>3 DEF Changed, Saved
    <3> QED
      BY <3>1, <3>2
  <2>8. CleanSaved'
    BY <2>7 DEF CleanSaved
  <2> QED
    BY <2>6, <2>8
<1>22. Exact' => (Sequential /\ ~misread)
    BY <1>2 DEF Exact, Sequential
<1>23. PoolInv'
    BY <1>2, <1>14, <1>18, <1>19, <1>20, <1>21, <1>22 DEF PoolInv
<1>24. CallInv'
    BY <1>10, LoadCalls
<1> QED
    BY <1>11, <1>23, <1>24 DEF BpIInv

-----------------------------------------------------------------------------
(* The theorems *)

\* An empty pool over an empty file.
LEMMA InitOK ==
    ASSUME BpInit
    PROVE  BpIInv
<1>1. NoPage \in 0 .. MaxPages /\ NoCell \in 0 .. MaxLoads /\ 0 \in 0 .. MaxPages /\ 0 \in 0 .. MaxChanges
    BY BufferPoolAssumption DEF NoPage, NoCell
<1>2. BpTypeOK
  <2>1. frames \in [Frames -> [page : 0 .. MaxPages, cell : 0 .. MaxLoads, pins : Nat, dirty : BOOLEAN]]
    BY <1>1 DEF BpInit
  <2>2. cells \in Seq([page : 0 .. MaxPages, change : 0 .. MaxChanges]) /\ lru \in Seq(Pages)
    BY DEF BpInit
  <2>3. p2f \in [Pages -> Frames \cup {NoFrame}] /\ f2p \in [Frames -> 0 .. MaxPages]
    BY <1>1 DEF BpInit
  <2>4. total \in 0 .. MaxPages /\ latest \in [Pages -> 0 .. MaxChanges]
    BY <1>1 DEF BpInit
  <2>5. disk \in [Pages -> [page : 0 .. MaxPages, change : 0 .. MaxChanges]]
    BY <1>1 DEF BpInit, Content
  <2>6. handle \in [Clients -> [page : 0 .. MaxPages, cell : 0 .. MaxLoads, changed : BOOLEAN]]
    BY <1>1 DEF BpInit, NoHandle
  <2> QED
    BY <2>1, <2>2, <2>3, <2>4, <2>5, <2>6 DEF BpTypeOK
<1>3. load \in Workload /\ load.loads \in Nat
    BY BufferPoolAssumption DEF BpInit, Workload
<1>4. CopiesOK
  <2>1. Len(cells) <= load.loads
    BY <1>3 DEF BpInit
  <2>2. \A f \in Frames : frames[f].page = NoPage /\ frames[f].cell = NoCell
    BY DEF BpInit
  <2>3. \A c \in Clients : handle[c] = NoHandle
    BY DEF BpInit
  <2> QED
    BY <2>1, <2>2, <2>3 DEF CopiesOK, FrameOK
<1>5. Matched
  <2>1. \A p \in Pages : ~(p <= total)
    BY DEF BpInit, Pages
  <2> QED
    BY <2>1 DEF BpInit, Matched
<1>6. Covered
  <2>1. Holders = {} /\ Pins = {}
    <3>1. \A f \in Frames : 1 .. frames[f].pins = {}
      BY DEF BpInit
    <3> QED
      BY <3>1 DEF BpInit, Holders, Pins
  <2> QED
    BY <2>1, FS_EmptySet DEF Covered, PinsCoverHandles
<1>7. Resident /\ Kept
  <2>1. \A p \in Pages : HoldersOf(p) = {}
    BY DEF BpInit, HoldersOf, NoHandle, NoPage, Pages
  <2> QED
    BY <2>1, FS_EmptySet DEF BpInit, Resident, Kept
<1>8. NoLost /\ CleanSaved
    BY DEF BpInit, NoLost, CleanSaved
<1>9. CallsOK
  <2>1. pc \in [Clients -> Places] /\ todo \in [Clients -> SUBSET Frames]
    BY DEF BpInit, Places
  <2>2. want \in [Clients -> 0 .. MaxPages] /\ slot \in [Clients -> Frames \cup {NoFrame}]
    BY <1>1 DEF BpInit
  <2>3. stuck \in BOOLEAN /\ misread \in BOOLEAN
    BY DEF BpInit
  <2>4. \A c \in Clients : pc[c] = "idle"
    BY DEF BpInit
  <2> QED
    BY <1>3, <2>1, <2>2, <2>3, <2>4 DEF CallsOK, Fetching
<1>10. Locks /\ OneAtATime /\ Steady /\ Written /\ Betweens /\ Frozen
  <2>1. \A c \in Clients : pc[c] = "idle"
    BY DEF BpInit
  <2>2. ~stuck
    BY DEF BpInit
  <2> QED
    BY <2>1, <2>2 DEF Locks, OneAtATime, Steady, Written, MapHeld, Betweens, Frozen
<1> QED
    BY <1>2, <1>4, <1>5, <1>6, <1>7, <1>8, <1>9, <1>10 DEF BpIInv, PoolInv, CallInv

\* Every step keeps the invariant.
LEMMA NextOK ==
    ASSUME BpIInv, [BpNext]_bpVars
    PROVE  BpIInv'
<1>1. CASE UNCHANGED bpVars
  <2>1. /\ UNCHANGED <<load, frames, cells, p2f, f2p, total, disk, handle, stuck, misread, latest>>
        /\ UNCHANGED <<lru, pc, want, slot, todo>>
    BY <1>1 DEF bpVars, poolVars, fileVars, callVars
  <2>2. (Exact' <=> Exact) /\ (Sequential' <=> Sequential)
    BY <2>1 DEF Exact, Sequential, Quiet
  <2>3. \A f \in Frames : Filling(f)' <=> Filling(f)
    BY <2>1 DEF Filling
  <2>4. PoolInv'
    BY <2>1, <2>2, <2>3, PoolUnchanged DEF BpIInv
  <2>5. BpTypeOK' = BpTypeOK
    BY <2>1 DEF BpTypeOK
  <2>6. CallsOK' = CallsOK
    BY <2>1 DEF CallsOK
  <2>7. Locks' = Locks /\ OneAtATime' = OneAtATime /\ Steady' = Steady
    BY <2>1 DEF Locks, OneAtATime, Steady
  <2>8. Written' = Written
    BY <2>1 DEF Written, Changed, Saved
  <2>9. Betweens'
    <3>1. \A c \in Clients : Between(c)' <=> Between(c)
      <4>1. Kept' <=> Kept
        BY <2>1 DEF Kept
      <4>2. \A p : /\ HoldersOf(p)' = HoldersOf(p) /\ (Changed(p)' <=> Changed(p))
                    /\ (Saved(p)' <=> Saved(p)) /\ (Fresh(p)' <=> Fresh(p))
        BY <2>1 DEF HoldersOf, Changed, Saved, Fresh
      <4> QED
        BY <2>1, <4>1, <4>2 DEF Between
    <3> QED
      BY <2>1, <2>2, <3>1 DEF BpIInv, CallInv, Betweens
  <2>10. Frozen'
    <3>1. PinnedResident' <=> PinnedResident
      BY <2>1 DEF PinnedResident, Deleted
    <3> QED
      BY <2>1, <2>2, <3>1 DEF BpIInv, CallInv, Frozen
  <2> QED
    BY <2>1, <2>4, <2>5, <2>6, <2>7, <2>8, <2>2, <2>9, <2>10 DEF BpIInv, CallInv
<1>2. CASE BpNext
  <2>1. UNCHANGED load
    BY <1>2 DEF BpNext
  <2>2. PICK c \in Clients :
        \/ \E p \in Pages : Fetch(c, p) \/ Delete(c, p)
        \/ FetchLookup(c) \/ FetchHit(c) \/ FindEmpty(c) \/ FindVictim(c)
        \/ FetchFails(c) \/ WriteBack(c) \/ WriteBackFails(c)
        \/ Remap(c) \/ \E readOk \in BOOLEAN : Load(c, readOk)
        \/ NewPage(c) \/ Change(c) \/ Unpin(c) \/ UnpinFrame(c) \/ Forget(c)
        \/ Flush(c) \/ FlushReturns(c)
        \/ \E f \in Frames : FlushFrame(c, f) \/ FlushFails(c, f)
        \/ DeleteFrame(c)
    BY <1>2 DEF BpNext
  <2>3. CASE \E p \in Pages : Fetch(c, p) \/ Delete(c, p)
    BY <2>1, <2>3, FetchStep, DeleteStep
  <2>4. CASE FetchLookup(c) \/ FetchHit(c) \/ FindEmpty(c) \/ FindVictim(c)
    BY <2>1, <2>4, FetchLookupStep, FetchHitStep, FindEmptyStep, FindVictimStep
  <2>5. CASE FetchFails(c) \/ WriteBack(c) \/ WriteBackFails(c)
    BY <2>1, <2>5, FetchFailsStep, WriteBackStep, WriteBackFailsStep
  <2>6. CASE Remap(c) \/ Load(c, TRUE) \/ Load(c, FALSE)
    BY <2>1, <2>6, RemapStep, LoadStep, LoadFailsStep
  <2>7. CASE NewPage(c) \/ Change(c) \/ Unpin(c) \/ UnpinFrame(c) \/ Forget(c)
    BY <2>1, <2>7, NewPageStep, ChangeStep, UnpinStep, UnpinFrameStep, ForgetStep
  <2>8. CASE Flush(c) \/ FlushReturns(c)
    BY <2>1, <2>8, FlushStep, FlushReturnsStep
  <2>9. CASE \E f \in Frames : FlushFrame(c, f) \/ FlushFails(c, f)
    BY <2>1, <2>9, FlushFrameStep, FlushFailsStep
  <2>10. CASE DeleteFrame(c)
    BY <2>1, <2>10, DeleteFrameStep
  <2> QED
    BY <2>2, <2>3, <2>4, <2>5, <2>6, <2>7, <2>8, <2>9, <2>10
<1> QED
    BY <1>1, <1>2

\* The invariant holds, for every pool, every number of clients and pages, and
\* every workload.
THEOREM BufferPoolInvariant == BpSpec => []BpIInv
<1>1. BpInit => BpIInv
    BY InitOK
<1>2. BpIInv /\ [BpNext]_bpVars => BpIInv'
    BY NextOK
<1> QED
    BY <1>1, <1>2, PTL DEF BpSpec

\* Between fetch_page and unpin_page a client has the page it asked for until a read
\* fails, and the pool never has fewer pins than there are pages in clients' hands until
\* a page is deleted, however calls overlap.  That the frame of its page is not reused is
\* claimed only of calls that do not overlap, as long as no read has failed and nobody
\* has deleted the page.
THEOREM HandlesAreSafe == BpSpec => []HandlesSafe
<1>1. BpIInv => HandlesSafe
  <2> SUFFICES ASSUME BpIInv
               PROVE  HandlesSafe
    OBVIOUS
  <2>1. BpTypeOK
    BY DEF BpIInv
  <2>2. PinnedResident
    <3> SUFFICES ASSUME NEW c \in Clients, handle[c] # NoHandle, Sequential, ~misread,
                        ~Deleted(handle[c].page)
                 PROVE  /\ p2f[handle[c].page] # NoFrame
                        /\ frames[p2f[handle[c].page]].cell = handle[c].cell
      BY DEF PinnedResident, Sequential
    <3>1. CASE stuck
      <4>1. PinnedResident
        BY <3>1 DEF BpIInv, CallInv, Frozen
      <4> QED
        BY <4>1 DEF PinnedResident, Sequential
    <3>2. CASE ~stuck /\ Quiet
      BY <3>2 DEF BpIInv, PoolInv, Exact, Kept
    <3>3. CASE ~Quiet
      BY <3>3 DEF BpIInv, CallInv, Quiet, Betweens, Between, Kept
    <3> QED
      BY <3>1, <3>2, <3>3
  <2>3. PinsCoverHandles
    BY DEF BpIInv, PoolInv, Covered, PinsCoverHandles
  <2>4. FetchReturnsPage
    BY DEF BpIInv, PoolInv, FetchReturnsPage, Matched
  <2> QED
    BY <2>1, <2>2, <2>3, <2>4 DEF HandlesSafe
<1> QED
    BY <1>1, BufferPoolInvariant, PTL

\* No change is lost by evictions, failing writes and flushes, and a flush that
\* returns has brought every released change to the file.
THEOREM ChangesAreKept == BpSpec => []ChangesKept
<1>1. BpIInv => ChangesKept
  <2> SUFFICES ASSUME BpIInv
               PROVE  ChangesKept
    OBVIOUS
  <2>1. NoLostChange
    <3> SUFFICES ASSUME NEW p \in 1 .. total, ~stuck, Sequential, ~misread
                 PROVE  IF InPool(p) THEN cells[frames[p2f[p]].cell] = Content(p, latest[p])
                        ELSE disk[p] = Content(p, latest[p])
      BY DEF NoLostChange, Sequential
    <3>1. CASE Quiet
      <4>1. Fresh(p)
        BY <3>1 DEF BpIInv, PoolInv, NoLost, Exact
      <4>2. InPool(p) <=> p2f[p] # NoFrame
        BY <3>1 DEF InPool, Quiet
      <4> QED
        BY <4>1, <4>2 DEF Fresh, Saved
    <3>2. CASE ~Quiet
      <4>1. PICK d \in Clients : pc[d] = "read"
        BY <3>2 DEF Quiet
      <4>2. Between(d) /\ \A e \in Clients : pc[e] = "read" => e = d
        BY <4>1 DEF BpIInv, CallInv, Betweens, OneAtATime
      <4>3. CASE p = want[d]
        BY <4>1, <4>2, <4>3 DEF Between, InPool, Saved
      <4>4. CASE p # want[d]
        <5>1. Fresh(p)
          BY <4>2, <4>4 DEF Between
        <5>2. InPool(p) <=> p2f[p] # NoFrame
          BY <4>2, <4>4 DEF InPool
        <5> QED
          BY <5>1, <5>2 DEF Fresh, Saved
      <4> QED
        BY <4>3, <4>4
    <3> QED
      BY <3>1, <3>2
  <2>2. FlushSavesAll
    <3> SUFFICES ASSUME NEW c \in Clients, pc[c] = "flush", todo[c] = {}, NEW p \in 1 .. total,
                        ~stuck, ~load.overlap, ~misread,
                        \A d \in Clients : ~(handle[d].page = p /\ handle[d].changed)
                 PROVE  disk[p] = Content(p, latest[p])
      BY DEF FlushSavesAll
    <3>1. Changed(p) \/ Saved(p)
      <4>1. Exact
        BY DEF BpIInv, CallInv, OneAtATime, Exact, Sequential, Quiet
      <4> QED
        BY <4>1 DEF BpIInv, CallInv, Written
    <3> QED
      BY <3>1 DEF Changed, Saved
  <2> QED
    BY <2>1, <2>2 DEF ChangesKept
<1> QED
    BY <1>1, BufferPoolInvariant, PTL

\* However calls overlap and race for frames, every page of the file holds some
\* version of itself as long as no read has failed.
THEOREM NoPageOverwritten == BpSpec => []NoCrossWrite
<1>1. BpIInv => NoCrossWrite
    BY InFile DEF BpIInv, PoolInv, Matched, NoCrossWrite
<1> QED
    BY <1>1, BufferPoolInvariant, PTL

-----------------------------------------------------------------------------
(* The LRU list *)

LruDistinct == \A i, j \in DOMAIN lru : lru[i] = lru[j] => i = j

\* update_lru leaves one entry of the page, the last one, and no entry twice.
LEMMA TouchDistinct ==
    ASSUME lru \in Seq(Pages), LruDistinct, NEW p \in Pages
    PROVE  \A i, j \in DOMAIN Touch(p) : Touch(p)[i] = Touch(p)[j] => i = j
<1> DEFINE at == {i \in DOMAIN lru : lru[i] = p}
           k == CHOOSE i \in at : TRUE
           s == IF at = {} THEN lru ELSE RemoveAt(lru, k)
           n == Len(lru)
<1>1. n \in Nat /\ DOMAIN lru = 1 .. n
    OBVIOUS
<1>2. /\ s \in Seq(Pages)
      /\ \A i \in 1 .. Len(s) : s[i] # p
      /\ \A i, j \in 1 .. Len(s) : s[i] = s[j] => i = j
  <2>1. CASE at = {}
    BY <1>1, <2>1 DEF LruDistinct
  <2>2. CASE at # {}
    <3>1. k \in 1 .. n /\ lru[k] = p
      BY <1>1, <2>2
    <3> HIDE DEF k
    <3> DEFINE a == SubSeq(lru, 1, k - 1)
               b == SubSeq(lru, k + 1, n)
    <3>2. a \in Seq(Pages) /\ Len(a) = k - 1 /\ \A i \in 1 .. k - 1 : a[i] = lru[i]
      <4>1. 1 \in Int /\ k - 1 \in Int /\ \A i \in 1 .. k - 1 : lru[i] \in Pages
        BY <1>1, <3>1
      <4> QED
        BY <3>1, <4>1, SubSeqProperties
    <3>3. b \in Seq(Pages) /\ Len(b) = n - k /\ \A i \in 1 .. n - k : b[i] = lru[k + i]
      <4>1. k + 1 \in Int /\ n \in Int /\ \A i \in k + 1 .. n : lru[i] \in Pages
        BY <1>1, <3>1
      <4>2. /\ b \in Seq(Pages)
            /\ Len(b) = IF k + 1 <= n THEN n - (k + 1) + 1 ELSE 0
            /\ \A i \in 1 .. n - (k + 1) + 1 : b[i] = lru[(k + 1) + i - 1]
        BY <4>1, SubSeqProperties
      <4> HIDE DEF b, n
      <4>3. n - (k + 1) + 1 = n - k
        BY <1>1, <3>1
      <4>4. \A i \in 1 .. n - k : (k + 1) + i - 1 = k + i
        BY <1>1, <3>1
      <4>5. n \in Int /\ k \in Int /\ k <= n
        BY <1>1, <3>1
      <4>6. (IF k + 1 <= n THEN n - (k + 1) + 1 ELSE 0) = n - k
        BY <4>5
      <4>7. Len(b) = n - k
        BY <4>2, <4>6
      <4> QED
        BY <4>2, <4>3, <4>4, <4>7
    <3> HIDE DEF a, b
    <3>4. s = a \o b
      BY <2>2 DEF RemoveAt, a, b
    <3>5. /\ s \in Seq(Pages) /\ Len(s) = n - 1
          /\ \A i \in 1 .. n - 1 : s[i] = IF i < k THEN lru[i] ELSE lru[i + 1]
      <4>1. /\ a \o b \in Seq(Pages) /\ Len(a \o b) = Len(a) + Len(b)
            /\ \A i \in 1 .. Len(a) + Len(b) : (a \o b)[i] = IF i <= Len(a) THEN a[i] ELSE b[i - Len(a)]
        BY <3>2, <3>3, ConcatProperties
      <4>2. ASSUME NEW i \in 1 .. n - 1
            PROVE  (a \o b)[i] = IF i < k THEN lru[i] ELSE lru[i + 1]
        <5>1. CASE i < k
          BY <1>1, <3>1, <3>2, <3>3, <4>1, <5>1
        <5>2. CASE ~(i < k)
          <6>1. (a \o b)[i] = b[i - (k - 1)] /\ i - (k - 1) \in 1 .. n - k
            BY <1>1, <3>1, <3>2, <3>3, <4>1, <5>2
          <6>2. b[i - (k - 1)] = lru[k + (i - (k - 1))]
            BY <3>3, <6>1
          <6>3. k + (i - (k - 1)) = i + 1
            BY <1>1, <3>1
          <6> QED
            BY <5>2, <6>1, <6>2, <6>3
        <5> QED
          BY <5>1, <5>2
      <4>3. Len(a) + Len(b) = n - 1
        BY <1>1, <3>1, <3>2, <3>3
      <4> QED
        BY <3>4, <4>1, <4>2, <4>3
    <3>6. \A i \in 1 .. n : i # k => lru[i] # p
      BY <1>1, <3>1 DEF LruDistinct
    <3> HIDE DEF s
    <3>7. \A i \in 1 .. n - 1 : s[i] # p
      BY <1>1, <3>1, <3>5, <3>6
    <3>8. ASSUME NEW i \in 1 .. n - 1, NEW j \in 1 .. n - 1, s[i] = s[j]
          PROVE  i = j
      <4> DEFINE u(x) == IF x < k THEN x ELSE x + 1
      <4>1. u(i) \in 1 .. n /\ u(j) \in 1 .. n
        BY <1>1, <3>1
      <4>2. s[i] = lru[u(i)] /\ s[j] = lru[u(j)]
        BY <3>5
      <4>3. u(i) = u(j)
        BY <1>1, <3>8, <4>1, <4>2 DEF LruDistinct
      <4> QED
        BY <1>1, <3>1, <4>3
    <3> QED
      BY <3>5, <3>7, <3>8
  <2> QED
    BY <2>1, <2>2
<1>3. Touch(p) = Append(s, p)
    BY DEF Touch
<1> HIDE DEF s
<1>4. /\ DOMAIN Append(s, p) = 1 .. Len(s) + 1
      /\ Append(s, p)[Len(s) + 1] = p
      /\ \A i \in 1 .. Len(s) : Append(s, p)[i] = s[i]
    BY <1>2
<1>5. Len(s) \in Nat
    BY <1>2
<1> QED
    BY <1>2, <1>3, <1>4, <1>5

\* The LRU list has no page twice: retain in update_lru drops at most one entry,
\* which is how Touch models it.
THEOREM LruListsAPageOnce == BpSpec => []LruDistinct
<1>1. BpInit => LruDistinct
    BY DEF BpInit, LruDistinct
<1>2. ASSUME BpIInv, LruDistinct, [BpNext]_bpVars
      PROVE  LruDistinct'
  <2>1. lru \in Seq(Pages)
    BY <1>2 DEF BpIInv, BpTypeOK
  <2>2. CASE UNCHANGED lru
    BY <1>2, <2>2 DEF LruDistinct
  <2>3. ASSUME NEW p \in Pages, lru' = Touch(p)
        PROVE  LruDistinct'
    BY <1>2, <2>1, <2>3, TouchDistinct DEF LruDistinct
  <2>4. ASSUME NEW i \in DOMAIN lru, lru' = SubSeq(lru, i + 1, Len(lru))
        PROVE  LruDistinct'
    <3>1. i \in 1 .. Len(lru) /\ Len(lru) \in Nat /\ DOMAIN lru = 1 .. Len(lru)
      BY <2>1
    <3>2. /\ lru' \in Seq(Pages) /\ Len(lru') = Len(lru) - i
          /\ \A j \in 1 .. Len(lru) - i : lru'[j] = lru[i + j]
      <4>1. i + 1 \in Int /\ Len(lru) \in Int /\ \A j \in i + 1 .. Len(lru) : lru[j] \in Pages
        BY <2>1, <3>1
      <4> QED
        BY <2>4, <3>1, <4>1, SubSeqProperties
    <3>3. DOMAIN lru' = 1 .. Len(lru) - i
      BY <3>2
    <3>4. \A j \in 1 .. Len(lru) - i : i + j \in 1 .. Len(lru)
      BY <3>1
    <3> QED
      BY <1>2, <3>1, <3>2, <3>3, <3>4 DEF LruDistinct
  <2>5. CASE lru' = <<>>
    BY <2>5 DEF LruDistinct
  <2>6. ASSUME NEW c \in Clients, FetchHit(c)
        PROVE  LruDistinct'
    <3>1. lru' = Touch(want[c]) /\ want[c] \in Pages
      BY <1>2, <2>6 DEF FetchHit, BpIInv, CallInv, CallsOK, Fetching
    <3> QED
      BY <2>3, <3>1
  <2>7. ASSUME NEW c \in Clients, NEW readOk \in BOOLEAN, Load(c, readOk), UNCHANGED load
        PROVE  LruDistinct'
    <3>1. lru' = Touch(want[c]) \/ UNCHANGED lru
      BY <2>7 DEF Load
    <3>2. want[c] \in Pages
      BY <1>2, <2>7, LoadEnds
    <3> QED
      BY <2>2, <2>3, <3>1, <3>2
  <2>8. ASSUME NEW c \in Clients, FindVictim(c)
        PROVE  LruDistinct'
    <3>1. lru' = <<>> \/ \E i \in DOMAIN lru : lru' = SubSeq(lru, i + 1, Len(lru))
      BY <2>8 DEF FindVictim, Victims
    <3> QED
      BY <2>4, <2>5, <3>1
  <2>9. CASE UNCHANGED bpVars
    BY <2>2, <2>9 DEF bpVars, poolVars
  <2>10. CASE BpNext
    <3>1. UNCHANGED load
      BY <2>10 DEF BpNext
    <3>2. PICK c \in Clients :
        \/ \E p \in Pages : Fetch(c, p) \/ Delete(c, p)
        \/ FetchLookup(c) \/ FetchHit(c) \/ FindEmpty(c) \/ FindVictim(c)
        \/ FetchFails(c) \/ WriteBack(c) \/ WriteBackFails(c)
        \/ Remap(c) \/ \E readOk \in BOOLEAN : Load(c, readOk)
        \/ NewPage(c) \/ Change(c) \/ Unpin(c) \/ UnpinFrame(c) \/ Forget(c)
        \/ Flush(c) \/ FlushReturns(c)
        \/ \E f \in Frames : FlushFrame(c, f) \/ FlushFails(c, f)
        \/ DeleteFrame(c)
      BY <2>10 DEF BpNext
    <3>3. CASE \E p \in Pages : Fetch(c, p) \/ Delete(c, p)
      BY <2>2, <3>3 DEF Fetch, Delete, poolVars
    <3>4. CASE FetchLookup(c) \/ FindEmpty(c) \/ FetchFails(c) \/ WriteBack(c) \/ WriteBackFails(c) \/ Remap(c)
      BY <2>2, <3>4 DEF FetchLookup, FindEmpty, FetchFails, WriteBack, WriteBackFails, Remap, poolVars
    <3>5. CASE NewPage(c) \/ Change(c) \/ Unpin(c) \/ UnpinFrame(c) \/ Forget(c)
      BY <2>2, <3>5 DEF NewPage, Change, Unpin, UnpinFrame, Forget, poolVars
    <3>6. CASE Flush(c) \/ FlushReturns(c) \/ DeleteFrame(c)
      BY <2>2, <3>6 DEF Flush, FlushReturns, DeleteFrame, poolVars
    <3>7. CASE \E f \in Frames : FlushFrame(c, f) \/ FlushFails(c, f)
      BY <2>2, <3>7 DEF FlushFrame, FlushFails, poolVars
    <3> QED
      BY <2>6, <2>7, <2>8, <3>1, <3>2, <3>3, <3>4, <3>5, <3>6, <3>7
  <2> QED
    BY <1>2, <2>9, <2>10
<1>3. BpIInv /\ LruDistinct /\ [BpNext]_bpVars => LruDistinct'
    BY <1>2
<1> QED
    BY <1>1, <1>3, BufferPoolInvariant, PTL DEF BpSpec
=============================================================================
