----------------------------- MODULE BufferPool -----------------------------
(***************************************************************************)
(* BufferPoolManager of src/storage/buffer.rs: frames, the two page/frame  *)
(* maps, the LRU list, pins and dirty marks, over the page file.           *)
(*                                                                         *)
(* A call is cut where it gives up a lock.  A client at "hit", "unpin" or  *)
(* "flush" holds page_to_frame for reading, one at "evict" that and the    *)
(* LRU list, one at "delete" holds page_to_frame for writing, and one at   *)
(* "remap" or "read" the mutex of the frame it fills.  The scan for an     *)
(* empty frame locks one frame at a time; it is one step here.             *)
(*                                                                         *)
(* A cell is an Arc<Mutex<Page>>, which lives on in the handles of clients *)
(* after its frame is used for another page.  Of a page's content the      *)
(* model keeps the id in its header and the number of its last change.     *)
(***************************************************************************)
EXTENDS Integers, FiniteSets, Sequences, SequencesExt

CONSTANTS
    Clients,
    Frames,         \* indices of BufferPool.frames, of the largest pool
    MaxPages,       \* bound: pages the file grows to
    MaxLoads,       \* bound: cells created by fetch_page
    MaxChanges,     \* bound: changes of each page
    MaxPins,        \* bound: pins of a frame, which leaked pins add up to
    Workloads       \* what the clients do; see Workload

Pages == 1 .. MaxPages
NoPage == 0
NoFrame == -1
NoCell == 0

\* A workload has the frames of the pool, bounds on pages, cells and changes, and
\* whether calls of different clients overlap and read_page and write_page may
\* fail.
Workload ==
    [frames : SUBSET Frames \ {{}}, pages : 0 .. MaxPages, loads : 0 .. MaxLoads,
     changes : 0 .. MaxChanges, overlap : BOOLEAN, failing : BOOLEAN]

ASSUME BufferPoolAssumption ==
    /\ Frames \subseteq Nat /\ Frames # {}
    /\ MaxPages \in Nat /\ MaxLoads \in Nat
    /\ MaxChanges \in Nat /\ MaxPins \in Nat
    /\ Workloads \subseteq Workload

VARIABLES
    load,       \* the workload of this behaviour
    frames,     \* BufferFrame: page_id, page, pin_count, dirty
    cells,      \* the content of each cell
    p2f, f2p,   \* page_to_frame and frame_to_page
    lru,        \* lru_list
    total,      \* total_pages of the file
    disk,       \* the content of the file's pages
    pc,         \* where the call of each client is
    want,       \* its page_id argument
    slot,       \* the frame find_available_frame returned to it
    handle,     \* what the client holds: page, Arc and whether it changed it
    todo,       \* frames its flush_all_pages has not visited
    stuck,      \* a client hangs in deallocate_page, holding the file manager
    misread,    \* a read_page has failed
    latest      \* the last change made to each page

poolVars == <<frames, cells, p2f, f2p, lru>>
fileVars == <<total, disk>>
callVars == <<pc, want, slot, handle, todo, stuck, misread>>
bpVars == <<load, poolVars, fileVars, callVars, latest>>

Content(p, change) == [page |-> p, change |-> change]
NoHandle == [page |-> NoPage, cell |-> NoCell, changed |-> FALSE]

BpInit ==
    /\ frames = [f \in Frames |->
                    [page |-> NoPage, cell |-> NoCell, pins |-> 0, dirty |-> FALSE]]
    /\ cells = <<>>
    /\ p2f = [p \in Pages |-> NoFrame]
    /\ f2p = [f \in Frames |-> NoPage]
    /\ lru = <<>>
    /\ total = 0
    /\ disk = [p \in Pages |-> Content(NoPage, 0)]
    /\ pc = [c \in Clients |-> "idle"]
    /\ want = [c \in Clients |-> NoPage]
    /\ slot = [c \in Clients |-> NoFrame]
    /\ handle = [c \in Clients |-> NoHandle]
    /\ todo = [c \in Clients |-> {}]
    /\ stuck = FALSE /\ misread = FALSE
    /\ load \in Workloads
    /\ latest = [p \in Pages |-> 0]

-----------------------------------------------------------------------------
(* Building blocks *)

Goto(c, from, to) == pc[c] = from /\ pc' = [pc EXCEPT ![c] = to]

\* fetch_page returns.
Done(c) ==
    /\ pc' = [pc EXCEPT ![c] = "idle"]
    /\ want' = [want EXCEPT ![c] = NoPage]
    /\ slot' = [slot EXCEPT ![c] = NoFrame]

MayCall(c) == pc[c] = "idle" /\ (load.overlap \/ \A d \in Clients : pc[d] = "idle")

MapReadable == \A c \in Clients : pc[c] # "delete"
MapWritable == \A c \in Clients : pc[c] \notin {"hit", "unpin", "flush", "evict", "delete"}
LruFree == \A c \in Clients : pc[c] # "evict"
Unlocked(f) == \A c \in Clients : ~(pc[c] \in {"remap", "read"} /\ slot[c] = f)

\* update_lru.  It alone adds to the list, so a page is in it at most once and
\* retain drops at most one entry.
Touch(p) ==
    LET at == {i \in DOMAIN lru : lru[i] = p} IN
    Append(IF at = {} THEN lru ELSE RemoveAt(lru, CHOOSE i \in at : TRUE), p)

Give(c, p, cell) ==
    handle' = [handle EXCEPT ![c] = [page |-> p, cell |-> cell, changed |-> FALSE]]

-----------------------------------------------------------------------------
(* fetch_page *)

Fetch(c, p) ==
    /\ MayCall(c) /\ handle[c] = NoHandle
    /\ p <= total \/ (load.failing /\ p <= load.pages)
    /\ pc' = [pc EXCEPT ![c] = "lookup"]
    /\ want' = [want EXCEPT ![c] = p]
    /\ UNCHANGED <<poolVars, fileVars, slot, handle, todo, stuck, misread, latest>>

FetchLookup(c) ==
    /\ MapReadable
    /\ Goto(c, "lookup", IF p2f[want[c]] = NoFrame THEN "find" ELSE "hit")
    /\ UNCHANGED <<poolVars, fileVars, want, slot, handle, todo, stuck, misread, latest>>

\* The pin and the LRU entry stay also when the frame turns out to be empty.
FetchHit(c) ==
    LET f == p2f[want[c]] IN
    /\ pc[c] = "hit"
    /\ Unlocked(f) /\ LruFree
    /\ frames[f].pins < MaxPins
    /\ frames' = [frames EXCEPT ![f].pins = @ + 1]
    /\ lru' = Touch(want[c])
    /\ IF frames[f].cell # NoCell
       THEN Done(c) /\ Give(c, want[c], frames[f].cell)
       ELSE Goto(c, "hit", "find") /\ UNCHANGED <<want, slot, handle>>
    /\ UNCHANGED <<cells, p2f, f2p, fileVars, todo, stuck, misread, latest>>

Empty == {f \in load.frames : frames[f].page = NoPage}

\* find_available_frame: the first empty frame, if there is one.
FindEmpty(c) ==
    /\ pc[c] = "find"
    /\ \A f \in Frames : Unlocked(f)
    /\ \/ /\ Empty # {}
          /\ slot' = [slot EXCEPT ![c] = CHOOSE f \in Empty : \A g \in Empty : f <= g]
          /\ pc' = [pc EXCEPT ![c] = "load"]
       \/ /\ Empty = {} /\ MapReadable /\ LruFree
          /\ pc' = [pc EXCEPT ![c] = "evict"]
          /\ UNCHANGED slot
    /\ UNCHANGED <<poolVars, fileVars, want, handle, todo, stuck, misread, latest>>

\* Mutant of Victims: is_evictable is not asked.
VictimsPinned == {i \in DOMAIN lru : p2f[lru[i]] # NoFrame}

\* The LRU entries that can be evicted.
Victims == {i \in DOMAIN lru : p2f[lru[i]] # NoFrame /\ frames[p2f[lru[i]]].pins = 0}

\* The rest of it: the list is popped up to and including the first victim, so
\* an entry that is pinned now is dropped for good.
FindVictim(c) ==
    /\ pc[c] = "evict"
    /\ \A f \in Frames : Unlocked(f)
    /\ \/ /\ Victims = {}
          /\ lru' = <<>>
          /\ pc' = [pc EXCEPT ![c] = "starved"]
          /\ UNCHANGED slot
       \/ \E i \in Victims :
          /\ \A j \in Victims : i <= j
          /\ slot' = [slot EXCEPT ![c] = p2f[lru[i]]]
          /\ lru' = SubSeq(lru, i + 1, Len(lru))
          /\ pc' = [pc EXCEPT ![c] = "load"]
    /\ UNCHANGED <<frames, cells, p2f, f2p, fileVars, want, handle, todo, stuck, misread, latest>>

\* Err("No available buffer frames").
FetchFails(c) ==
    /\ pc[c] = "starved"
    /\ Done(c)
    /\ UNCHANGED <<poolVars, fileVars, handle, todo, stuck, misread, latest>>

\* Mutant of WriteBack: the page is written to the place of the page that replaces it.
WriteBackAstray(c) ==
    LET frame == frames[slot[c]] IN
    /\ Goto(c, "load", "remap")
    /\ Unlocked(slot[c])
    /\ IF frame.dirty /\ frame.page # NoPage
       THEN ~stuck /\ disk' = [disk EXCEPT ![want[c]] = cells[frame.cell]]
       ELSE UNCHANGED disk
    /\ UNCHANGED <<poolVars, total, want, slot, handle, todo, stuck, misread, latest>>

\* The frame is locked and a dirty page in it is written back.
WriteBack(c) ==
    LET frame == frames[slot[c]] IN
    /\ Goto(c, "load", "remap")
    /\ Unlocked(slot[c])
    /\ IF frame.dirty /\ frame.page # NoPage
       THEN ~stuck /\ disk' = [disk EXCEPT ![frame.page] = cells[frame.cell]]
       ELSE UNCHANGED disk
    /\ UNCHANGED <<poolVars, total, want, slot, handle, todo, stuck, misread, latest>>

\* write_page fails: the frame keeps its page, which has left the LRU list.
WriteBackFails(c) ==
    /\ load.failing /\ ~stuck
    /\ pc[c] = "load"
    /\ Unlocked(slot[c])
    /\ frames[slot[c]].dirty /\ frames[slot[c]].page # NoPage
    /\ Done(c)
    /\ UNCHANGED <<poolVars, fileVars, handle, todo, stuck, misread, latest>>

\* page_to_frame after frame f is given to page p.
Remapped(p, f) ==
    [[q \in Pages |-> IF q = frames[f].page THEN NoFrame ELSE p2f[q]] EXCEPT ![p] = f]

\* The frame after page p was read into a new cell; a pin it has is kept.
Filled(frame, p, cell) ==
    [page |-> p, cell |-> cell, pins |-> frame.pins + 1, dirty |-> FALSE]

\* Both maps are changed under their locks ...
Remap(c) ==
    LET f == slot[c] IN
    /\ Goto(c, "remap", "read")
    /\ MapWritable
    /\ p2f' = Remapped(want[c], f)
    /\ f2p' = [f2p EXCEPT ![f] = want[c]]
    /\ UNCHANGED <<frames, cells, lru, fileVars, want, slot, handle, todo, stuck, misread, latest>>

\* ... which others use while the page is read into the frame, still locked.  When
\* read_page fails, the maps keep the page and the frame its old content.
Load(c, readOk) ==
    LET f == slot[c]  p == want[c] IN
    /\ pc[c] = "read"
    /\ Done(c)
    /\ ~stuck
    /\ \/ /\ readOk /\ p <= total
          /\ LruFree
          /\ Len(cells) < load.loads
          /\ cells' = Append(cells, disk[p])
          /\ frames' = [frames EXCEPT ![f] = Filled(@, p, Len(cells) + 1)]
          /\ lru' = Touch(p)
          /\ Give(c, p, Len(cells) + 1)
       \/ /\ ~readOk /\ load.failing
          /\ UNCHANGED <<cells, frames, lru, handle>>
    /\ misread' = (misread \/ ~readOk)
    /\ UNCHANGED <<p2f, f2p, fileVars, todo, stuck, latest>>

-----------------------------------------------------------------------------
(* The other operations *)

\* new_page: allocate_page, then fetch_page.  The pin is the caller's.
NewPage(c) ==
    /\ MayCall(c) /\ handle[c] = NoHandle
    /\ ~stuck
    /\ total < load.pages
    /\ total' = total + 1
    /\ disk' = [disk EXCEPT ![total + 1] = Content(total + 1, 0)]
    /\ want' = [want EXCEPT ![c] = total + 1]
    /\ pc' = [pc EXCEPT ![c] = "lookup"]
    /\ UNCHANGED <<poolVars, slot, handle, todo, stuck, misread, latest>>

\* The client changes the page through its Arc; no lock of the pool is held.
Change(c) ==
    LET p == handle[c].page IN
    /\ MayCall(c) /\ handle[c] # NoHandle
    /\ latest[p] < load.changes
    /\ latest' = [latest EXCEPT ![p] = @ + 1]
    /\ cells' = [cells EXCEPT ![handle[c].cell].change = latest[p] + 1]
    /\ handle' = [handle EXCEPT ![c].changed = TRUE]
    /\ UNCHANGED <<frames, p2f, f2p, lru, fileVars, pc, want, slot, todo, stuck, misread>>

\* unpin_page: looks the page up ...
Unpin(c) ==
    /\ MayCall(c) /\ handle[c] # NoHandle
    /\ MapReadable
    /\ pc' = [pc EXCEPT ![c] = IF p2f[handle[c].page] = NoFrame THEN "idle" ELSE "unpin"]
    /\ handle' = [handle EXCEPT ![c] = IF p2f[@.page] = NoFrame THEN NoHandle ELSE @]
    /\ UNCHANGED <<poolVars, fileVars, want, slot, todo, stuck, misread, latest>>

\* Mutant of Released: the last caller decides on dirty.
ReleasedClean(frame, changed) ==
    IF frame.pins = 0 THEN frame ELSE [frame EXCEPT !.pins = @ - 1, !.dirty = changed]

\* BufferFrame::unpin and the dirty mark; with no pin, Err and no change.
Released(frame, changed) ==
    IF frame.pins = 0 THEN frame
    ELSE [frame EXCEPT !.pins = @ - 1, !.dirty = @ \/ changed]

\* ... and releases one pin of the frame.
\* A client passes dirty = true when it has changed the page.
UnpinFrame(c) ==
    LET f == p2f[handle[c].page] IN
    /\ Goto(c, "unpin", "idle")
    /\ Unlocked(f)
    /\ frames' = [frames EXCEPT ![f] = Released(@, handle[c].changed)]
    /\ handle' = [handle EXCEPT ![c] = NoHandle]
    /\ UNCHANGED <<cells, p2f, f2p, lru, fileVars, want, slot, todo, stuck, misread, latest>>

\* The client drops its Arc and never unpins, as load_node of the B-tree does.
Forget(c) ==
    /\ MayCall(c) /\ handle[c] # NoHandle
    /\ ~handle[c].changed
    /\ handle' = [handle EXCEPT ![c] = NoHandle]
    /\ UNCHANGED <<poolVars, fileVars, pc, want, slot, todo, stuck, misread, latest>>

\* flush_all_pages holds both maps, visits the frames in any order, and writes
\* under the page id the map has for the frame.  The dirty mark stays.
Flush(c) ==
    /\ MayCall(c)
    /\ MapReadable
    /\ todo' = [todo EXCEPT ![c] = {f \in Frames : f2p[f] # NoPage}]
    /\ pc' = [pc EXCEPT ![c] = "flush"]
    /\ UNCHANGED <<poolVars, fileVars, want, slot, handle, stuck, misread, latest>>

FlushFrame(c, f) ==
    /\ pc[c] = "flush"
    /\ f \in todo[c] /\ Unlocked(f)
    /\ todo' = [todo EXCEPT ![c] = @ \ {f}]
    /\ IF frames[f].dirty /\ frames[f].cell # NoCell
       THEN ~stuck /\ disk' = [disk EXCEPT ![f2p[f]] = cells[frames[f].cell]]
       ELSE UNCHANGED disk
    /\ UNCHANGED <<poolVars, total, pc, want, slot, handle, stuck, misread, latest>>

\* write_page fails: the frames not visited yet are left out.
FlushFails(c, f) ==
    /\ load.failing /\ ~stuck
    /\ Goto(c, "flush", "idle")
    /\ f \in todo[c] /\ Unlocked(f)
    /\ frames[f].dirty /\ frames[f].cell # NoCell
    /\ todo' = [todo EXCEPT ![c] = {}]
    /\ UNCHANGED <<poolVars, fileVars, want, slot, handle, stuck, misread, latest>>

FlushReturns(c) ==
    /\ Goto(c, "flush", "idle")
    /\ todo[c] = {}
    /\ UNCHANGED <<poolVars, fileVars, want, slot, handle, todo, stuck, misread, latest>>

\* delete_page does not ask who holds the page: both maps are locked ...
Delete(c, p) ==
    /\ MayCall(c)
    /\ p <= total
    /\ MapWritable
    /\ want' = [want EXCEPT ![c] = p]
    /\ pc' = [pc EXCEPT ![c] = "delete"]
    /\ UNCHANGED <<poolVars, fileVars, slot, handle, todo, stuck, misread, latest>>

\* ... the frame is reset whatever its pins are, its LRU entry stays, and
\* deallocate_page, called with the file manager locked, never returns.
DeleteFrame(c) ==
    LET f == p2f[want[c]] IN
    /\ Goto(c, "delete", "hung")
    /\ IF f = NoFrame THEN UNCHANGED <<frames, p2f, f2p>>
       ELSE /\ Unlocked(f)
            /\ p2f' = [p2f EXCEPT ![want[c]] = NoFrame]
            /\ f2p' = [f2p EXCEPT ![f] = NoPage]
            /\ frames' = [frames EXCEPT ![f] = [page |-> NoPage, cell |-> NoCell,
                                                pins |-> 0, dirty |-> FALSE]]
    /\ stuck' = TRUE
    /\ UNCHANGED <<cells, lru, fileVars, want, slot, handle, todo, misread, latest>>

BpNext ==
    /\ UNCHANGED load
    /\ \E c \in Clients :
        \/ \E p \in Pages : Fetch(c, p) \/ Delete(c, p)
        \/ FetchLookup(c) \/ FetchHit(c) \/ FindEmpty(c) \/ FindVictim(c)
        \/ FetchFails(c) \/ WriteBack(c) \/ WriteBackFails(c)
        \/ Remap(c) \/ \E readOk \in BOOLEAN : Load(c, readOk)
        \/ NewPage(c) \/ Change(c) \/ Unpin(c) \/ UnpinFrame(c) \/ Forget(c)
        \/ Flush(c) \/ FlushReturns(c)
        \/ \E f \in Frames : FlushFrame(c, f) \/ FlushFails(c, f)
        \/ DeleteFrame(c)

BpSpec == BpInit /\ [][BpNext]_bpVars

-----------------------------------------------------------------------------
(* Properties *)

BpTypeOK ==
    /\ frames \in [Frames -> [page : 0 .. MaxPages, cell : 0 .. MaxLoads,
                              pins : Nat, dirty : BOOLEAN]]
    /\ cells \in Seq([page : 0 .. MaxPages, change : 0 .. MaxChanges])
    /\ p2f \in [Pages -> Frames \cup {NoFrame}]
    /\ f2p \in [Frames -> 0 .. MaxPages]
    /\ lru \in Seq(Pages)
    /\ total \in 0 .. MaxPages
    /\ disk \in [Pages -> [page : 0 .. MaxPages, change : 0 .. MaxChanges]]
    /\ handle \in [Clients -> [page : 0 .. MaxPages, cell : 0 .. MaxLoads, changed : BOOLEAN]]
    /\ latest \in [Pages -> 0 .. MaxChanges]

\* delete_page was called for the page, and hangs for good.
Deleted(p) == \E c \in Clients : pc[c] = "hung" /\ want[c] = p

\* Whatever page a frame is used for next, a client that holds a page works on
\* the copy that later fetches return: the frame of a held page is not reused
\* (the test at buffer.rs:340 asserts that a pinned frame is not evictable).
\* It needs calls that do not overlap (see PinnedNotEvicted), no failed read
\* before, and that nobody deletes the page: delete_page takes the pins away
\* (buffer.rs:299).
PinnedResident ==
    \A c \in Clients :
        (handle[c] # NoHandle /\ ~load.overlap /\ ~misread /\ ~Deleted(handle[c].page)) =>
            /\ p2f[handle[c].page] # NoFrame
            /\ frames[p2f[handle[c].page]].cell = handle[c].cell

\* A page is in the pool when the map has a frame for it that is not just being
\* filled.
InPool(p) == p2f[p] # NoFrame /\ \A c \in Clients : ~(pc[c] = "read" /\ want[c] = p)

\* No change is lost: the copy the next fetch_page would return, in the pool or
\* else in the file, has the last change anybody made to the page, through failing
\* writes too, as long as calls do not overlap, no read has failed and no page was
\* deleted.
NoLostChange ==
    \A p \in 1 .. total :
        \/ stuck \/ load.overlap \/ misread
        \/ IF InPool(p) THEN cells[frames[p2f[p]].cell] = Content(p, latest[p])
           ELSE disk[p] = Content(p, latest[p])

\* flush_all_pages makes every change durable that was unpinned before: when it
\* returns, a page in no client's hands is in the file as last changed.
FlushSavesAll ==
    \A c \in Clients : (pc[c] = "flush" /\ todo[c] = {}) =>
        \A p \in 1 .. total :
            (~stuck /\ ~load.overlap /\ ~misread /\ \A d \in Clients : ~(handle[d].page = p /\ handle[d].changed)) =>
                disk[p] = Content(p, latest[p])

\* The pins of all frames, as tokens, and the clients with a page in their hands.
Pins == UNION {{f} \X (1 .. frames[f].pins) : f \in Frames}
Holders == {c \in Clients : handle[c] # NoHandle}

\* Failed reads and overlapping calls leave the maps wrong, so that a client may
\* release a pin of another frame than its own; no pin is lost on the way: the
\* frames together have a pin for every page that is in a client's hands, unless
\* delete_page has taken pins away and hangs (stuck).
PinsCoverHandles == stuck \/ Cardinality(Holders) <= Cardinality(Pins)

\* However calls overlap and race for frames, no page is written over the place
\* of another: every page of the file holds some version of itself, and "flush all
\* dirty pages to disk" (buffer.rs:246) means each to its own place.
NoCrossWrite == misread \/ \A p \in 1 .. total : disk[p].page = p

\* The test at buffer.rs:359 asserts that the page fetch_page returns is the
\* page asked for.
FetchReturnsPage ==
    \A c \in Clients :
        (handle[c] # NoHandle /\ ~misread) => cells[handle[c].cell].page = handle[c].page

\* What a client relies on between fetch_page and unpin_page: it got the page it
\* asked for and the frames have a pin for it, however calls overlap, and, under
\* the conditions of PinnedResident, the pool keeps the page.
HandlesSafe == BpTypeOK /\ PinnedResident /\ PinsCoverHandles /\ FetchReturnsPage

\* What it relies on afterwards: a change that unpin_page marked dirty survives
\* evictions, and flush_all_pages brings it to the file.
ChangesKept == NoLostChange /\ FlushSavesAll

\* buffer.rs:50, a frame is "available for eviction" only while nobody has it pinned:
\* a frame with pins is not given to another page.  (The choice is made at
\* buffer.rs:96-121 and not looked at again when the frame is locked at 189.)
PinnedNotEvicted ==
    [][\A f \in Frames : frames[f].pins > 0 => frames'[f].page \in {frames[f].page, NoPage}]_bpVars

\* buffer.rs:11, "shared via Arc for concurrent access": no client waits for a
\* frame whose holder waits for the map that client holds.
NoLockCycle ==
    \A c, d \in Clients :
        ~(pc[c] = "remap" /\ pc[d] = "hit" /\ p2f[want[d]] = slot[c])
=============================================================================
