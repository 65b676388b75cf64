----------------------------- MODULE FileManager -----------------------------
(***************************************************************************)
(* DefaultFileManager of src/storage/file_manager.rs over one database     *)
(* file: the header with total_pages, the pages, and what a crash leaves.  *)
(*                                                                         *)
(* All users hold it behind Arc<Mutex<dyn FileManager>>, so calls do not   *)
(* overlap; a call is cut into its writes because a crash may fall between *)
(* them.  write_page ends with sync_all on the file, which also makes an   *)
(* earlier write of the header durable; write_header itself only flushes.  *)
(*                                                                         *)
(* deallocate_page calls read_page while it holds the header mutex, and    *)
(* read_page locks that mutex again (page_offset): the call never returns. *)
(* No page is ever freed, so first_free_page stays None and the free-list  *)
(* branch of allocate_page, which would do the same, is never taken.       *)
(***************************************************************************)
EXTENDS Integers

CONSTANTS
    MaxPages,       \* bound: page ids lie below it; page 0 is the header
    Data,           \* what clients write
    IoFailures      \* whether a write may fail

ASSUME FileManagerAssumption ==
    /\ MaxPages \in Nat \ {0}
    /\ Data \cap {"unwritten", "fresh", "torn"} = {}
    /\ IoFailures \in BOOLEAN

VARIABLES
    total,      \* header.total_pages in memory
    fileTotal,  \* total_pages in the header as last written to the file
    diskTotal,  \* total_pages in the header that is known to be durable
    pages,      \* the pages of the file
    pc,         \* the write the current call is about to make, or "ready"
    page,       \* the page the current call is about
    value,      \* what it writes there
    granted,    \* page ids allocate_page has returned
    acked       \* pages whose last client write returned Ok

fmVars == <<total, fileTotal, diskTotal, pages, pc, page, value, granted, acked>>

DataPages == 1 .. MaxPages - 1

FmInit ==
    /\ total = 1 /\ fileTotal = 1 /\ diskTotal = 1
    /\ pages = [p \in DataPages |-> "unwritten"]
    /\ pc = "ready"
    /\ page = 0
    /\ value = "unwritten"
    /\ granted = {}
    /\ acked = {}

-----------------------------------------------------------------------------
\* Mutant of AllocateId: the last page of the file is handed out again.
AllocateLast ==
    /\ pc = "ready"
    /\ total < MaxPages
    /\ total' = total + 1
    /\ page' = (IF total > 1 THEN total - 1 ELSE total) /\ value' = "fresh"
    /\ pc' = "allocWrite"
    /\ UNCHANGED <<fileTotal, diskTotal, pages, granted, acked>>

\* allocate_page: the id is taken from total_pages in memory first.
AllocateId ==
    /\ pc = "ready"
    /\ total < MaxPages
    /\ total' = total + 1
    /\ page' = total /\ value' = "fresh"
    /\ pc' = "allocWrite"
    /\ UNCHANGED <<fileTotal, diskTotal, pages, granted, acked>>

\* write_page of a client, on a page it was given.
StartWrite(p, d) ==
    /\ pc = "ready"
    /\ page' = p /\ value' = d
    /\ pc' = "write"
    /\ acked' = acked \ {p}
    /\ UNCHANGED <<total, fileTotal, diskTotal, pages, granted>>

\* Mutant of FinishWrite: the file is not synced.
FinishUnsynced ==
    /\ pc \in {"allocWrite", "write"}
    /\ pages' = [pages EXCEPT ![page] = value]
    /\ pc' = IF pc = "allocWrite" THEN "allocHeader" ELSE "ready"
    /\ acked' = IF pc = "write" THEN acked \cup {page} ELSE acked
    /\ UNCHANGED <<total, fileTotal, diskTotal, page, value, granted>>

\* The write and its sync_all.
FinishWrite ==
    /\ pc \in {"allocWrite", "write"}
    /\ pages' = [pages EXCEPT ![page] = value]
    /\ diskTotal' = fileTotal
    /\ pc' = IF pc = "allocWrite" THEN "allocHeader" ELSE "ready"
    /\ acked' = IF pc = "write" THEN acked \cup {page} ELSE acked
    /\ UNCHANGED <<total, fileTotal, page, value, granted>>

\* Mutant of WriteFails: any failing write takes a page id back.
WriteFailsShrinks ==
    /\ IoFailures
    /\ pc \in {"allocWrite", "write"}
    /\ pages' = [pages EXCEPT ![page] = "torn"]
    /\ total' = total - 1
    /\ pc' = "ready"
    /\ UNCHANGED <<fileTotal, diskTotal, page, value, granted, acked>>

\* A failing write: allocate_page takes the id back.
WriteFails ==
    /\ IoFailures
    /\ pc \in {"allocWrite", "write"}
    /\ \E found \in {pages[page], "torn", value} : pages' = [pages EXCEPT ![page] = found]
    /\ total' = IF pc = "allocWrite" THEN total - 1 ELSE total
    /\ pc' = "ready"
    /\ UNCHANGED <<fileTotal, diskTotal, page, value, granted, acked>>

\* write_header at the end of allocate_page; when it fails the call returns
\* Err, and the page stays allocated in memory.
AllocateHeader ==
    /\ pc = "allocHeader"
    /\ pc' = "ready"
    /\ \/ fileTotal' = total /\ granted' = granted \cup {page}
       \/ IoFailures /\ UNCHANGED <<fileTotal, granted>>
    /\ UNCHANGED <<total, diskTotal, pages, page, value, acked>>

\* deallocate_page returns Err for an id out of range, and hangs otherwise.
Deallocate(p) ==
    /\ pc = "ready"
    /\ p < total
    /\ pc' = "hung"
    /\ UNCHANGED <<total, fileTotal, diskTotal, pages, page, value, granted, acked>>

\* sync.
Sync ==
    /\ pc = "ready"
    /\ diskTotal' = fileTotal
    /\ UNCHANGED <<total, fileTotal, pages, pc, page, value, granted, acked>>

\* A crash, or the end of a hung process, keeps every synced write and perhaps
\* the others; open() then reads the header.  Of the pages they were given,
\* clients find those again that they had written.
CrashAndOpen ==
    /\ \/ UNCHANGED pages
       \/ /\ pc \in {"allocWrite", "write"}
          /\ \E found \in {"torn", value} : pages' = [pages EXCEPT ![page] = found]
    /\ \E header \in {fileTotal, diskTotal} \cup (IF pc = "allocHeader" THEN {total} ELSE {}) :
         total' = header /\ fileTotal' = header /\ diskTotal' = header
    /\ pc' = "ready"
    /\ page' = 0 /\ value' = "unwritten"
    /\ granted' = acked
    /\ UNCHANGED acked

FmNext ==
    \/ AllocateId
    \/ \E p \in granted, d \in Data : StartWrite(p, d)
    \/ FinishWrite
    \/ WriteFails
    \/ AllocateHeader
    \/ \E p \in 0 .. MaxPages : Deallocate(p)
    \/ Sync
    \/ CrashAndOpen

FmSpec == FmInit /\ [][FmNext]_fmVars

-----------------------------------------------------------------------------
(* Properties *)

FmTypeOK ==
    /\ total \in 1 .. MaxPages /\ fileTotal \in 1 .. MaxPages /\ diskTotal \in 1 .. MaxPages
    /\ pages \in [DataPages -> Data \cup {"unwritten", "fresh", "torn"}]
    /\ pc \in {"ready", "allocWrite", "write", "allocHeader", "hung"}
    /\ page \in 0 .. MaxPages - 1
    /\ value \in Data \cup {"fresh", "unwritten"}
    /\ granted \subseteq DataPages
    /\ acked \subseteq DataPages

\* A page whose write returned Ok is below the durable total_pages: no crash
\* can bring back a header that does not know it.
AckedCovered == \A p \in acked : p < diskTotal

\* allocate_page never writes over a page that holds a client's data, however
\* crashes, failed writes and lost header updates are interleaved.
AllocationFresh == pc \in {"allocWrite", "allocHeader"} => page \notin granted \cup acked

\* A page whose last write_page returned Ok holds client data, never a torn page
\* or the fresh page of an allocate_page that was given the same id.
AckedIntact == \A p \in acked : pages[p] \in Data
=============================================================================
