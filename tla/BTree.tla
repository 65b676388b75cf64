------------------------------- MODULE BTree -------------------------------
(***************************************************************************)
(* The B-tree of src/storage/btree.rs: nodes in pages, insertion that      *)
(* splits full nodes on the way down, deletion, search and the iterator.   *)
(*                                                                         *)
(* A call visits one node per step.  Calls do not overlap (insert and      *)
(* delete take &mut self); a split saves several pages one after another   *)
(* and an error returns between two saves, with nothing undone.            *)
(*                                                                         *)
(* Neither new_page nor load_node is ever followed by the unpin it needs,  *)
(* so every node stays pinned in the pool and new_page fails as soon as    *)
(* all frames have one (module BufferPool has the pool itself).            *)
(***************************************************************************)
EXTENDS Integers, Sequences, SequencesExt, FiniteSets

CONSTANTS
    Keys,           \* keys, as numbers
    MaxKeys,        \* MAX_KEYS
    PoolFrames,     \* frames of the largest buffer pool
    Workloads       \* what is done with the tree; see Workload

\* A workload has the keys, the frames of the pool and bounds on insertions and
\* deletions; whether a node may outgrow its page, a key that is present may be
\* inserted again, and the iterator is used.
Workload ==
    [keys : SUBSET Keys, frames : 1 .. PoolFrames, inserts : Nat, deletes : Nat,
     large : BOOLEAN, duplicates : BOOLEAN, iterations : BOOLEAN]

ASSUME BTreeAssumption ==
    /\ Keys \subseteq Nat
    /\ MaxKeys \in Nat \ {0, 1, 2}
    /\ PoolFrames \in Nat \ {0}
    /\ Workloads \subseteq Workload

PageIds == 1 .. PoolFrames
NoPage == 0

VARIABLES
    load,       \* the workload of this behaviour
    nodes,      \* the node of each page, as the buffer pool has it
    saved,      \* the same as the file has it, for the iterator
    root,       \* root_page_id
    used,       \* pages the tree has
    op,         \* the call in progress and the node it is at
    stack,      \* BTreeIterator.stack, its top last
    out,        \* what next() has returned
    present,    \* keys inserted with Ok and not deleted since
    failed,     \* an insertion returned Err
    inserts, deletes

btVars == <<load, nodes, saved, root, used, op, stack, out, present, failed, inserts, deletes>>

Node(leaf, entries, children) == [leaf |-> leaf, entries |-> entries, children |-> children]
Blank == Node(TRUE, <<>>, <<>>)

\* A page of the file without a node in it: an internal node never lacks children.
Unflushed == Node(FALSE, <<>>, <<>>)
NoOp == [kind |-> "none", key |-> 0, at |-> NoPage]

BtInit ==
    /\ nodes = [p \in PageIds |-> Blank]
    /\ saved = [p \in PageIds |-> Unflushed]
    /\ root = 1
    /\ used = 1
    /\ op = NoOp
    /\ stack = <<>> /\ out = <<>>
    /\ present = {}
    /\ failed = FALSE
    /\ inserts = 0 /\ deletes = 0
    /\ load \in Workloads

-----------------------------------------------------------------------------
(* BTreeNode.  An entry is its key: the value goes wherever the key goes. *)

IsFull(n) == Len(n.entries) >= MaxKeys

\* find_insert_position: with equal keys, binary_search may return any of them.
InsertPositions(n, k) ==
    LET equal == {i \in DOMAIN n.entries : n.entries[i] = k}
    IN  IF equal # {} THEN equal
        ELSE {Cardinality({i \in DOMAIN n.entries : n.entries[i] < k}) + 1}

SplitPos(n) == Len(n.entries) \div 2

\* The part of s from index i to j; children is empty in a leaf.
Part(s, i, j) == IF s = <<>> THEN s ELSE SubSeq(s, i, j)

\* Mutant of LeftHalf: the entry before the separator goes nowhere.
LeftHalfShort(n) ==
    Node(n.leaf, SubSeq(n.entries, 1, SplitPos(n) - 1), Part(n.children, 1, SplitPos(n) + 1))

\* split: left and right node and the entry between them, which is in neither.
LeftHalf(n) ==
    Node(n.leaf, SubSeq(n.entries, 1, SplitPos(n)), Part(n.children, 1, SplitPos(n) + 1))

RightHalf(n) ==
    Node(n.leaf, SubSeq(n.entries, SplitPos(n) + 2, Len(n.entries)),
         Part(n.children, SplitPos(n) + 2, Len(n.children)))

Separator(n) == n.entries[SplitPos(n) + 1]

NewRoot(sep, left, right) == Node(FALSE, <<sep>>, <<left, right>>)

\* Mutant of Grown: the new child is not linked.
GrownUnlinked(n, i, sep, right) == [n EXCEPT !.entries = InsertAt(@, i, sep)]

\* The parent of a node that was split at child index i.
Grown(n, i, sep, right) ==
    [n EXCEPT !.entries = InsertAt(@, i, sep), !.children = InsertAt(@, i + 1, right)]

-----------------------------------------------------------------------------
(* insert *)

Idle == op = NoOp /\ stack = <<>>

\* The call returns Ok, or Err.
Returns == op' = NoOp /\ UNCHANGED failed
Fails == op' = NoOp /\ failed' = TRUE

Insert(k) ==
    /\ Idle
    /\ inserts < load.inserts /\ inserts' = inserts + 1
    /\ load.duplicates \/ k \notin present
    /\ op' = [kind |-> IF IsFull(nodes[root]) THEN "splitRoot" ELSE "insert",
              key |-> k, at |-> root]
    /\ UNCHANGED <<nodes, saved, root, used, stack, out, present, failed, deletes>>

\* A full root: new_page for the new root, the left half is saved, new_page for
\* the right half, both saved.  Each new_page, and the last save, may fail.
SplitRoot ==
    LET old == nodes[root]
        top == NewRoot(Separator(old), root, used + 2)
    IN  /\ op.kind = "splitRoot"
        /\ \/ /\ used + 2 <= load.frames
              /\ nodes' = [nodes EXCEPT ![root] = LeftHalf(old), ![used + 2] = RightHalf(old),
                                        ![used + 1] = top]
              /\ used' = used + 2
              /\ root' = used + 1
              /\ op' = [op EXCEPT !.kind = "insert", !.at = used + 1]
              /\ UNCHANGED failed
           \/ /\ used + 2 > load.frames
              /\ nodes' = IF used < load.frames THEN [nodes EXCEPT ![root] = LeftHalf(old)]
                          ELSE nodes
              /\ used' = load.frames
              /\ Fails
              /\ UNCHANGED root
           \/ /\ load.large /\ used + 2 <= load.frames
              /\ nodes' = [nodes EXCEPT ![root] = LeftHalf(old), ![used + 2] = RightHalf(old)]
              /\ used' = used + 2
              /\ Fails
              /\ UNCHANGED root
        /\ UNCHANGED <<saved, stack, out, present, inserts, deletes>>

\* insert_into_node at a leaf.  The save fails when the node outgrew the page.
InsertLeaf ==
    LET n == nodes[op.at] IN
    /\ op.kind = "insert" /\ n.leaf
    /\ \/ /\ \E i \in InsertPositions(n, op.key) :
               nodes' = [nodes EXCEPT ![op.at].entries = InsertAt(@, i, op.key)]
          /\ present' = present \cup {op.key}
          /\ Returns
       \/ load.large /\ Fails /\ UNCHANGED <<nodes, present>>
    /\ UNCHANGED <<saved, root, used, stack, out, inserts, deletes>>

\* The half a key goes to after a split.
Side(k, sep, left, right) == IF k < sep THEN left ELSE right

\* insert_into_node at an internal node whose child is not full.
InsertDescend ==
    LET n == nodes[op.at] IN
    /\ op.kind = "insert" /\ ~n.leaf
    /\ \E i \in InsertPositions(n, op.key) :
        IF i > Len(n.children) THEN Fails
        ELSE /\ ~IsFull(nodes[n.children[i]])
             /\ op' = [op EXCEPT !.at = n.children[i]]
             /\ UNCHANGED failed
    /\ UNCHANGED <<nodes, saved, root, used, stack, out, present, inserts, deletes>>

\* The same with a full child, which is split first: the left half is saved,
\* new_page, the right half is saved, and last this node.
InsertSplit ==
    LET n == nodes[op.at] IN
    /\ op.kind = "insert" /\ ~n.leaf
    /\ \E i \in InsertPositions(n, op.key) :
        LET child == n.children[i]
            full == nodes[child]
            grown == Grown(n, i, Separator(full), used + 1)
        IN  /\ i <= Len(n.children) /\ IsFull(full)
            /\ \/ /\ used < load.frames
                  /\ nodes' = [nodes EXCEPT ![child] = LeftHalf(full),
                                            ![used + 1] = RightHalf(full), ![op.at] = grown]
                  /\ used' = used + 1
                  /\ op' = [op EXCEPT !.at = Side(op.key, Separator(full), child, used + 1)]
                  /\ UNCHANGED failed
               \/ /\ used = load.frames
                  /\ nodes' = [nodes EXCEPT ![child] = LeftHalf(full)]
                  /\ Fails
                  /\ UNCHANGED used
               \/ /\ load.large /\ used < load.frames
                  /\ nodes' = [nodes EXCEPT ![child] = LeftHalf(full),
                                            ![used + 1] = RightHalf(full)]
                  /\ used' = used + 1
                  /\ Fails
    /\ UNCHANGED <<saved, root, stack, out, present, inserts, deletes>>

-----------------------------------------------------------------------------
(* search and delete.  After a deletion the nodes on the path are saved again, *)
(* unchanged: borrowing and merging are empty functions that return false.     *)

Search(k) ==
    /\ Idle
    /\ op' = [kind |-> "search", key |-> k, at |-> root]
    /\ UNCHANGED <<nodes, saved, root, used, stack, out, present, failed, inserts, deletes>>

Delete(k) ==
    /\ Idle
    /\ deletes < load.deletes /\ deletes' = deletes + 1
    /\ op' = [kind |-> "delete", key |-> k, at |-> root]
    /\ UNCHANGED <<nodes, saved, root, used, stack, out, present, failed, inserts>>

Descend ==
    LET n == nodes[op.at] IN
    /\ op.kind \in {"search", "delete"} /\ ~n.leaf
    /\ \E i \in InsertPositions(n, op.key) :
        IF i <= Len(n.children)
        THEN op' = [op EXCEPT !.at = n.children[i]] /\ UNCHANGED failed
        ELSE Returns
    /\ UNCHANGED <<nodes, saved, root, used, stack, out, present, inserts, deletes>>

SearchLeaf ==
    /\ op.kind = "search" /\ nodes[op.at].leaf
    /\ Returns
    /\ UNCHANGED <<nodes, saved, root, used, stack, out, present, inserts, deletes>>

DeleteLeaf ==
    LET n == nodes[op.at] IN
    /\ op.kind = "delete" /\ n.leaf
    /\ IF \E i \in DOMAIN n.entries : n.entries[i] = op.key
       THEN /\ \E i \in DOMAIN n.entries : n.entries[i] = op.key /\
                 nodes' = [nodes EXCEPT ![op.at].entries = RemoveAt(@, i)]
            /\ present' = present \ {op.key}
       ELSE UNCHANGED <<nodes, present>>
    /\ Returns
    /\ UNCHANGED <<saved, root, used, stack, out, inserts, deletes>>

-----------------------------------------------------------------------------
(* BTreeIterator, and flush_all_pages of the pool: the iterator gets the nodes *)
(* on the leftmost path from the pool, and the others from the file.           *)

FlushPages ==
    /\ Idle /\ load.iterations
    /\ saved' = [p \in PageIds |-> IF p <= used THEN nodes[p] ELSE Unflushed]
    /\ UNCHANGED <<nodes, root, used, op, stack, out, present, failed, inserts, deletes>>

IterNew ==
    /\ Idle /\ load.iterations
    /\ op' = [kind |-> "iterate", key |-> 0, at |-> root]
    /\ out' = <<>>
    /\ UNCHANGED <<nodes, saved, root, used, stack, present, failed, inserts, deletes>>

\* The constructor pushes the nodes of the leftmost path.
IterDescend ==
    LET n == nodes[op.at] IN
    /\ op.kind = "iterate"
    /\ stack' = Append(stack, [node |-> n, idx |-> 0])
    /\ op' = IF n.leaf THEN NoOp ELSE [op EXCEPT !.at = n.children[1]]
    /\ UNCHANGED <<nodes, saved, root, used, out, present, failed, inserts, deletes>>

\* next(): an entry of the node on top; an exhausted leaf is dropped; for an
\* exhausted internal node the child before the last one is pushed in its place.
\* The bytes of a page that was never flushed do not parse: next() returns the
\* error, and has dropped the internal node.
IterNext ==
    LET top == Last(stack) IN
    /\ op = NoOp /\ stack # <<>>
    /\ \/ /\ top.idx < Len(top.node.entries)
          /\ out' = Append(out, top.node.entries[top.idx + 1])
          /\ stack' = [stack EXCEPT ![Len(stack)].idx = @ + 1]
       \/ /\ top.idx >= Len(top.node.entries) /\ top.node.leaf
          /\ stack' = Front(stack)
          /\ UNCHANGED out
       \/ /\ top.idx >= Len(top.node.entries) /\ ~top.node.leaf
          /\ LET child == saved[top.node.children[top.idx]]
             IN  stack' = IF child = Unflushed THEN Front(stack)
                          ELSE Append(Front(stack), [node |-> child, idx |-> 0])
          /\ UNCHANGED out
    /\ UNCHANGED <<nodes, saved, root, used, op, present, failed, inserts, deletes>>

BtNext ==
    /\ UNCHANGED load
    /\ \/ \E k \in load.keys : Insert(k) \/ Search(k) \/ Delete(k)
       \/ SplitRoot \/ InsertLeaf \/ InsertDescend \/ InsertSplit
       \/ Descend \/ SearchLeaf \/ DeleteLeaf
       \/ FlushPages \/ IterNew \/ IterDescend \/ IterNext

BtSpec == BtInit /\ [][BtNext]_btVars

-----------------------------------------------------------------------------
(* Properties *)

BtTypeOK ==
    /\ \A p \in PageIds : /\ nodes[p].leaf \in BOOLEAN
                          /\ nodes[p].entries \in Seq(Keys)
                          /\ nodes[p].children \in Seq(PageIds)
    /\ root \in PageIds /\ used \in PageIds
    /\ op.at \in PageIds \cup {NoPage}
    /\ present \subseteq Keys

\* Level[k][p] has the pages k levels below page p.
Level[k \in 0 .. PoolFrames] ==
    [p \in PageIds |->
        IF k = 0 THEN {p} ELSE UNION {Range(nodes[q].children) : q \in Level[k - 1][p]}]

Below(p) == UNION {Level[k][p] : k \in 0 .. used}

KeysBelow(p) == UNION {Range(nodes[q].entries) : q \in Below(p)}

\* btree.rs:336, "An internal node with n entries should have n+1 children":
\* however nodes split, and whatever was deleted, no descent runs out of them.
ChildrenMatch ==
    \A p \in Below(root) :
        ~nodes[p].leaf => Len(nodes[p].children) = Len(nodes[p].entries) + 1

\* The tree stays balanced and no node overflows: insertion splits every full
\* node it passes, so that a parent always has room for the next separator.
Balanced ==
    /\ \A k \in 0 .. used : \A p, q \in Level[k][root] : nodes[p].leaf = nodes[q].leaf
    /\ \A p \in Below(root) : Len(nodes[p].entries) <= MaxKeys

\* Search order: the keys of a subtree lie between the separators beside it.
Ordered ==
    \A p \in Below(root) : \A i \in DOMAIN nodes[p].children :
        \A k \in KeysBelow(nodes[p].children[i]) :
            /\ i > 1 => nodes[p].entries[i - 1] <= k
            /\ i <= Len(nodes[p].entries) => k <= nodes[p].entries[i]

\* Between calls the tree holds exactly the keys that were inserted and not
\* deleted, in leaves or as separators: split divides a node "into two nodes"
\* (btree.rs:133) and no key is lost between them, as long as no insertion
\* returned an error and no key was inserted twice.
KeysKept ==
    (op.kind \in {"none", "search", "iterate"} /\ ~failed /\ ~load.duplicates) =>
        KeysBelow(root) = present

\* What every descent relies on, whatever was inserted twice or deleted, and also
\* after a split that failed between two of its pages.
TreeSound == BtTypeOK /\ ChildrenMatch /\ Balanced /\ Ordered

\* A search that reaches a leaf without the key could not find it elsewhere:
\* no other leaf of the tree holds it, unless keys were inserted twice.
SearchExact ==
    (op.kind = "search" /\ nodes[op.at].leaf /\ ~load.duplicates) =>
        \A p \in Below(root) : nodes[p].leaf /\ op.key \in Range(nodes[p].entries) =>
            op.key \in Range(nodes[op.at].entries)

\* The leaf on top of the stack is exhausted, and nothing is below it.
Exhausted ==
    /\ op = NoOp /\ Len(stack) = 1
    /\ LET top == Last(stack) IN top.node.leaf /\ top.idx >= Len(top.node.entries)

\* s lists the set S in order, each member once.
Lists(s, S) == Range(s) = S /\ \A i, j \in DOMAIN s : i < j => s[i] < s[j]

\* An iteration over a tree that is a single leaf returns its keys in order,
\* whatever insertions and deletions it went through, as long as no insertion
\* returned an error and no key was inserted twice.
IterationOfLeaf ==
    (Exhausted /\ nodes[root].leaf /\ ~failed /\ ~load.duplicates) => Lists(out, present)

\* No key is lost by splits and deletions, and the descents of search and of the
\* iterator come to the leaf that would hold theirs.
KeysFound == KeysKept /\ SearchExact /\ IterationOfLeaf
=============================================================================
