------------------------------- MODULE Dcache -------------------------------
(***************************************************************************)
(* Path lookup in the ext4 file system (src/fs/ext4/inode.c,               *)
(* inode_get_idx_by_path) through the directory entry cache                *)
(* (src/fs/ext4/dcache.c).  The FUSE threads share the cache without a     *)
(* lock, so each read or write of a shared pointer is a step of its own.   *)
(* Where the code reads parent->childs again, the compiler may use the     *)
(* value it already has: both are allowed.  Stores take effect in program  *)
(* order.  The search of a directory on disk is external here: the tree    *)
(* is constant.  Entries are never freed.                                  *)
(***************************************************************************)
EXTENDS Integers, Sequences, FiniteSets

CONSTANTS
    Thread,
    Entry,       \* addresses calloc may give to cache entries
    Root,        \* the static root entry
    NULL,
    Name,
    LongName,    \* names that do not fit into an entry
    Inode,       \* inode numbers, 0 not among them
    RootInode,
    Child,       \* the tree: inode of a name in a directory, 0 if none
    Paths,       \* what is looked up: sequences of names
    Target       \* what each prefix of a path leads to, 0 if nothing

ASSUME TreeAssumption ==
    /\ 0 \notin Inode /\ RootInode \in Inode
    /\ Child \in [Inode -> [Name -> Inode \cup {0}]]
    /\ LongName \subseteq Name
    /\ Paths \subseteq Seq(Name)
    /\ \A p \in Paths :
          /\ Target[p] \in [0 .. Len(p) -> Inode \cup {0}]
          /\ Target[p][0] = RootInode
          /\ \A i \in 1 .. Len(p) :
                Target[p][i] = IF \E j \in 0 .. i - 1 : Target[p][j] = 0
                               THEN 0
                               ELSE Child[Target[p][i - 1]][p[i]]

ASSUME HeapAssumption ==
    /\ Root \notin Entry
    /\ NULL \notin Entry /\ NULL # Root /\ NULL \notin Name

Node == Entry \cup {Root}

VARIABLES
    childs,     \* of each node, one of its children
    siblings,   \* of each entry, the next in its ring
    name,
    inode,
    used,       \* the entries that were allocated
    parent,     \* auxiliary, in no guard: the node an entry was made for
    pc,         \* of each thread
    path,       \* of each thread, the path it looks up
    at,         \* of each thread, the components it has consumed
    dc,         \* of each thread, dc_entry (Root for NULL)
    idx,        \* of each thread, inode_idx
    head,       \* of each thread, parent->childs as last read
    iter,       \* of each thread, iter of dcache_lookup
    new         \* of each thread, new_entry of dcache_insert

heap == <<childs, siblings, name, inode, used, parent>>
vars == <<childs, siblings, name, inode, used, parent,
          pc, path, at, dc, idx, head, iter, new>>

Pcs == {"idle", "lookup", "scan", "compare", "walk", "insert", "alloced",
        "link", "linked", "splice", "publish", "done"}

Init ==
    /\ childs = [e \in Node |-> NULL]
    /\ siblings = [e \in Entry |-> NULL]
    /\ name = [e \in Entry |-> NULL]
    /\ inode = [e \in Node |-> IF e = Root THEN RootInode ELSE 0]
    /\ used = {}
    /\ parent = [e \in Entry |-> Root]
    /\ pc = [t \in Thread |-> "idle"]
    /\ path = [t \in Thread |-> << >>]
    /\ at = [t \in Thread |-> 0]
    /\ dc = [t \in Thread |-> Root]
    /\ idx = [t \in Thread |-> 0]
    /\ head = [t \in Thread |-> NULL]
    /\ iter = [t \in Thread |-> NULL]
    /\ new = [t \in Thread |-> NULL]

\* The component a thread has come to.
Component(t) == path[t][at[t] + 1]

\* parent->childs, read again or taken from the last read.
Childs(t) == {head[t], childs[dc[t]]}

\* Mutant: the next component is looked up in the same directory.
BelowHitStays(t) == dc[t]

\* The entry below which the next component is looked up after a hit.
BelowHit(t) == iter[t]

\* Mutant: only the first child is looked at.
ScanOnlyFirst(t) == TRUE

\* The scan is back where it began.
ScanIsRound(t) == iter[t] \in Childs(t)

\* Mutant: the next component is inserted beside the last.
BelowNewStays(t) == dc[t]

\* The entry below which the next component is inserted.
BelowNew(t) == new[t]

\* The same when dcache_insert returned NULL: that means the root.
BelowTooLong == Root

\* Mutant: a new entry is published without its siblings.
ThenPublishOnly(t) == "publish"

\* Where an insertion goes on once the entry is made.
ThenLink(t) == IF childs[dc[t]] = NULL THEN "publish" ELSE "alloced"

\* new_entry->siblings = parent->childs->siblings.
Linked(t) == [siblings EXCEPT ![new[t]] = siblings[head[t]]]

\* Mutant: the second assignment is left out.
NotSpliced(t) == siblings

\* parent->childs->siblings = new_entry.
Spliced(t) == [siblings EXCEPT ![head[t]] = new[t]]

-----------------------------------------------------------------------------
(* get_cached_inode_num and dcache_lookup.                                 *)

\* Bound: a lookup starts only while there are entries for every component
\* it and the others may still insert.
EntriesLeft(p) ==
    LET wanted == UNION {{t} \X (at[t] + 1 .. Len(path[t])) :
                            t \in {u \in Thread : pc[u] # "idle"}}
    IN  Cardinality(wanted) + Len(p) <= Cardinality(Entry \ used)

inode_get_idx_by_path(t, p) ==
    /\ pc[t] = "idle"
    /\ EntriesLeft(p)
    /\ pc' = [pc EXCEPT ![t] = "lookup"]
    /\ path' = [path EXCEPT ![t] = p]
    /\ at' = [at EXCEPT ![t] = 0]
    /\ dc' = [dc EXCEPT ![t] = Root]
    /\ idx' = [idx EXCEPT ![t] = 0]
    /\ UNCHANGED <<heap, head, iter, new>>

\* No path left, or no children: on to the directories with the entry found
\* so far.
LookupStops(t) ==
    /\ pc[t] = "lookup"
    /\ at[t] = Len(path[t]) \/ childs[dc[t]] = NULL
    /\ pc' = [pc EXCEPT ![t] = "walk"]
    /\ idx' = [idx EXCEPT ![t] = inode[dc[t]]]
    /\ UNCHANGED <<heap, path, at, dc, head, iter, new>>

LookupStarts(t) ==
    /\ pc[t] = "lookup"
    /\ at[t] < Len(path[t])
    /\ childs[dc[t]] # NULL
    /\ head' = [head EXCEPT ![t] = childs[dc[t]]]
    /\ iter' = [iter EXCEPT ![t] = childs[dc[t]]]
    /\ pc' = [pc EXCEPT ![t] = "scan"]
    /\ UNCHANGED <<heap, path, at, dc, idx, new>>

\* The names match: the entry becomes the first child, and the next
\* component is looked up below it.
ScanHit(t) ==
    /\ pc[t] = "scan"
    /\ name[iter[t]] = Component(t)
    /\ childs' = [childs EXCEPT ![dc[t]] = iter[t]]
    /\ dc' = [dc EXCEPT ![t] = BelowHit(t)]
    /\ at' = [at EXCEPT ![t] = @ + 1]
    /\ pc' = [pc EXCEPT ![t] = "lookup"]
    /\ head' = [head EXCEPT ![t] = NULL]
    /\ iter' = [iter EXCEPT ![t] = NULL]
    /\ UNCHANGED <<siblings, name, inode, used, parent, path, idx, new>>

\* The names differ: on to the next of the ring.
ScanNext(t) ==
    /\ pc[t] = "scan"
    /\ name[iter[t]] # Component(t)
    /\ iter' = [iter EXCEPT ![t] = siblings[iter[t]]]
    /\ pc' = [pc EXCEPT ![t] = "compare"]
    /\ UNCHANGED <<heap, path, at, dc, idx, head, new>>

\* Not yet back at parent->childs.
ScanContinues(t) ==
    /\ pc[t] = "compare"
    /\ \E h \in Childs(t) : iter[t] # h /\ head' = [head EXCEPT ![t] = h]
    /\ pc' = [pc EXCEPT ![t] = "scan"]
    /\ UNCHANGED <<heap, path, at, dc, idx, iter, new>>

\* Once round the ring: not cached.
ScanEnds(t) ==
    /\ pc[t] = "compare"
    /\ ScanIsRound(t)
    /\ pc' = [pc EXCEPT ![t] = "walk"]
    /\ idx' = [idx EXCEPT ![t] = inode[dc[t]]]
    /\ head' = [head EXCEPT ![t] = NULL]
    /\ iter' = [iter EXCEPT ![t] = NULL]
    /\ UNCHANGED <<heap, path, at, dc, new>>

-----------------------------------------------------------------------------
(* The walk through the directories, and dcache_insert.                    *)

\* The path is used up, or the name is not in the directory.
WalkEnds(t) ==
    /\ pc[t] = "walk"
    /\ \/ at[t] = Len(path[t]) /\ UNCHANGED idx
       \/ /\ at[t] < Len(path[t])
          /\ Child[idx[t]][Component(t)] = 0
          /\ idx' = [idx EXCEPT ![t] = 0]
    /\ pc' = [pc EXCEPT ![t] = "done"]
    /\ UNCHANGED <<heap, path, at, dc, head, iter, new>>

\* The name is found.  idx was a directory, so it is to be cached.
WalkFinds(t) ==
    /\ pc[t] = "walk"
    /\ at[t] < Len(path[t])
    /\ Child[idx[t]][Component(t)] # 0
    /\ idx' = [idx EXCEPT ![t] = Child[idx[t]][Component(t)]]
    /\ pc' = [pc EXCEPT ![t] = "insert"]
    /\ UNCHANGED <<heap, path, at, dc, head, iter, new>>

\* dcache_insert returns NULL: to the next call that is the root.
InsertTooLong(t) ==
    /\ pc[t] = "insert"
    /\ Component(t) \in LongName
    /\ dc' = [dc EXCEPT ![t] = BelowTooLong]
    /\ at' = [at EXCEPT ![t] = @ + 1]
    /\ pc' = [pc EXCEPT ![t] = "walk"]
    /\ UNCHANGED <<heap, path, idx, head, iter, new>>

\* A new entry, in a ring of its own if the parent has no children yet.
InsertAlloc(t) ==
    /\ pc[t] = "insert"
    /\ Component(t) \notin LongName
    /\ \E e \in Entry \ used :
          /\ used' = used \cup {e}
          /\ name' = [name EXCEPT ![e] = Component(t)]
          /\ inode' = [inode EXCEPT ![e] = idx[t]]
          /\ parent' = [parent EXCEPT ![e] = dc[t]]
          /\ new' = [new EXCEPT ![t] = e]
          /\ siblings' = IF childs[dc[t]] = NULL
                         THEN [siblings EXCEPT ![e] = e] ELSE siblings
    /\ head' = [head EXCEPT ![t] = childs[dc[t]]]
    /\ pc' = [pc EXCEPT ![t] = ThenLink(t)]
    /\ UNCHANGED <<childs, path, at, dc, idx, iter>>

\* parent->childs, for the next assignment.
InsertReread(t) ==
    /\ \/ pc[t] = "alloced" /\ pc' = [pc EXCEPT ![t] = "link"]
       \/ pc[t] = "linked" /\ pc' = [pc EXCEPT ![t] = "splice"]
    /\ \E h \in Childs(t) : head' = [head EXCEPT ![t] = h]
    /\ UNCHANGED <<heap, path, at, dc, idx, iter, new>>

InsertLink(t) ==
    /\ pc[t] = "link"
    /\ siblings' = Linked(t)
    /\ pc' = [pc EXCEPT ![t] = "linked"]
    /\ UNCHANGED <<childs, name, inode, used, parent, path, at, dc, idx, head,
                   iter, new>>

InsertSplice(t) ==
    /\ pc[t] = "splice"
    /\ siblings' = Spliced(t)
    /\ head' = [head EXCEPT ![t] = NULL]
    /\ pc' = [pc EXCEPT ![t] = "publish"]
    /\ UNCHANGED <<childs, name, inode, used, parent, path, at, dc, idx, iter, new>>

\* parent->childs = new_entry; the walk goes on below it.
InsertPublish(t) ==
    /\ pc[t] = "publish"
    /\ childs' = [childs EXCEPT ![dc[t]] = new[t]]
    /\ dc' = [dc EXCEPT ![t] = BelowNew(t)]
    /\ at' = [at EXCEPT ![t] = @ + 1]
    /\ new' = [new EXCEPT ![t] = NULL]
    /\ pc' = [pc EXCEPT ![t] = "walk"]
    /\ UNCHANGED <<siblings, name, inode, used, parent, path, idx, head, iter>>

\* The inode number goes back to the caller.
Return(t) ==
    /\ pc[t] = "done"
    /\ pc' = [pc EXCEPT ![t] = "idle"]
    /\ dc' = [dc EXCEPT ![t] = Root]
    /\ UNCHANGED <<heap, path, at, idx, head, iter, new>>

-----------------------------------------------------------------------------
Step(t) ==
    \/ LookupStops(t) \/ LookupStarts(t)
    \/ ScanHit(t) \/ ScanNext(t) \/ ScanContinues(t) \/ ScanEnds(t)
    \/ WalkEnds(t) \/ WalkFinds(t)
    \/ InsertTooLong(t) \/ InsertAlloc(t)
    \/ InsertReread(t) \/ InsertLink(t) \/ InsertSplice(t) \/ InsertPublish(t)
    \/ Return(t)

Next == \E t \in Thread : Step(t) \/ \E p \in Paths : inode_get_idx_by_path(t, p)

Spec == Init /\ [][Next]_vars

\* The operating system runs every FUSE thread that can run.
FairSpec == Spec /\ \A t \in Thread : WF_vars(Step(t))

-----------------------------------------------------------------------------
(* Properties.                                                             *)

\* Every variable has its type, and no thread consumes more components than
\* its path has.
TypeOK ==
    /\ childs \in [Node -> Entry \cup {NULL}]
    /\ siblings \in [Entry -> Entry \cup {NULL}]
    /\ name \in [Entry -> Name \cup {NULL}]
    /\ inode \in [Node -> Inode \cup {0}]
    /\ used \subseteq Entry
    /\ parent \in [Entry -> Node]
    /\ pc \in [Thread -> Pcs]
    /\ path \in [Thread -> Paths \cup {<< >>}]
    /\ at \in [Thread -> Nat] /\ \A t \in Thread : at[t] <= Len(path[t])
    /\ dc \in [Thread -> Node]
    /\ idx \in [Thread -> Inode \cup {0}]
    /\ head \in [Thread -> Entry \cup {NULL}]
    /\ iter \in [Thread -> Entry \cup {NULL}]
    /\ new \in [Thread -> Entry \cup {NULL}]

\* Whatever other threads look up and insert meanwhile, a lookup returns
\* the inode its path has in the file system (0 if there is none).
LookupRight ==
    \A t \in Thread : pc[t] = "done" => idx[t] = Target[path[t]][Len(path[t])]

\* What the cache says is true of the file system, and the rings do not mix:
\* childs leads to entries made for that node, siblings to entries made for
\* the same node, and each has the inode its name has in its directory.
CacheSound ==
    /\ \A d \in Node : childs[d] # NULL => /\ childs[d] \in used
                                           /\ parent[childs[d]] = d
    /\ \A e \in used : /\ inode[parent[e]] # 0
                       /\ inode[e] = Child[inode[parent[e]]][name[e]]
    /\ \A e \in used : siblings[e] # NULL => /\ siblings[e] \in used
                                             /\ parent[siblings[e]] = parent[e]

\* A lookup never follows a NULL pointer: an entry that can be reached has
\* its siblings set.
NoNullSibling ==
    /\ \A d \in Node : childs[d] # NULL => siblings[childs[d]] # NULL
    /\ \A t \in Thread : pc[t] = "scan" => /\ iter[t] # NULL
                                           /\ siblings[iter[t]] # NULL

\* The entries passed from e on along siblings.
Ring(e) ==
    LET Upto[n \in Nat] == IF n = 0 THEN {e}
                           ELSE Upto[n - 1] \cup {siblings[f] : f \in Upto[n - 1]}
    IN  Upto[Cardinality(used)]

\* Between lookups the children of every node form one ring: from its first
\* child all of them are reached, no two have the same successor, and no two
\* the same name.
RingsClosed ==
    (\A t \in Thread : pc[t] = "idle") =>
        \A d \in Node : LET kids == {e \in used : parent[e] = d}
                        IN  /\ childs[d] # NULL => Ring(childs[d]) = kids
                            /\ childs[d] = NULL => kids = {}
                            /\ \A e, f \in kids :
                                  siblings[e] = siblings[f] \/ name[e] = name[f] => e = f

\* Between lookups the first child of every node is on its own ring, so that
\* a scan for a name that is not there comes back to it and ends.
RingsReturn ==
    (\A t \in Thread : pc[t] = "idle") =>
        \A d \in Node : childs[d] # NULL =>
            \E e \in Ring(childs[d]) : siblings[e] = childs[d]

\* Every lookup returns.
LookupsEnd == \A t \in Thread : pc[t] = "lookup" ~> pc[t] = "idle"
=============================================================================
