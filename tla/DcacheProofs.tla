---------------------------- MODULE DcacheProofs ----------------------------
(***************************************************************************)
(* Proofs about Dcache, for any number of threads, any tree, any paths and *)
(* any heap: the unlocked cache never makes a lookup return a wrong inode, *)
(* as long as only last components of paths are too long to be cached; and *)
(* with one thread the children of every node stay a ring.                 *)
(***************************************************************************)
EXTENDS Dcache, FiniteSetTheorems, LeastNumber

\* Names that do not fit into an entry are last components only.
LongNamesLast == \A p \in Paths : \A i \in 1 .. Len(p) - 1 : p[i] \notin LongName

\* e can be reached as a child of d: it is linked, and made for d.
Reachable(e, d) == e \in used /\ parent[e] = d /\ siblings[e] # NULL

\* The shared part of the inductive invariant: CacheSound, and whatever can
\* be reached through the heap is linked.
HeapInv ==
    /\ CacheSound
    /\ inode[Root] = RootInode
    /\ \A e \in used : inode[e] # 0 /\ parent[e] \in used \cup {Root}
    /\ \A e \in Entry \ used : siblings[e] = NULL
    /\ \A d \in Node : childs[d] # NULL => siblings[childs[d]] # NULL
    /\ \A e \in Entry : siblings[e] # NULL => siblings[siblings[e]] # NULL

Looking == {"lookup", "scan", "compare"}
Scanning == {"scan", "compare"}
Inserting == {"insert", "alloced", "link", "linked", "splice", "publish"}

\* What thread t knows at each point of a lookup: dc and idx are where the
\* components consumed so far lead, and its pointers are children of dc.
ThreadInv(t) ==
    /\ pc[t] # "idle" => path[t] \in Paths
    /\ dc[t] \in used \cup {Root}
    /\ pc[t] \in Looking => inode[dc[t]] = Target[path[t]][at[t]]
    /\ pc[t] \in Scanning => /\ at[t] < Len(path[t])
                             /\ Reachable(head[t], dc[t])
                             /\ Reachable(iter[t], dc[t])
    /\ pc[t] = "walk" => /\ idx[t] # 0
                         /\ idx[t] = Target[path[t]][at[t]]
                         /\ at[t] < Len(path[t]) => inode[dc[t]] = idx[t]
    /\ pc[t] \in Inserting => /\ at[t] < Len(path[t])
                              /\ idx[t] # 0
                              /\ idx[t] = Target[path[t]][at[t] + 1]
                              /\ inode[dc[t]] # 0
                              /\ idx[t] = Child[inode[dc[t]]][Component(t)]
    /\ pc[t] \in Inserting \ {"insert"} => /\ new[t] \in used
                                           /\ parent[new[t]] = dc[t]
                                           /\ inode[new[t]] = idx[t]
    /\ pc[t] \in Inserting \ {"insert", "publish"} => Reachable(head[t], dc[t])
    /\ pc[t] \in Scanning \cup (Inserting \ {"insert", "publish"}) =>
          childs[dc[t]] # NULL
    /\ pc[t] \in {"linked", "splice", "publish"} => siblings[new[t]] # NULL
    /\ pc[t] = "done" => idx[t] = Target[path[t]][Len(path[t])]

IInv == TypeOK /\ HeapInv /\ \A t \in Thread : ThreadInv(t)

\* What no step of any thread takes back: entries stay, with their names,
\* inodes and parents, an entry that is linked stays linked, and a node that
\* has a first child keeps having one.
HeapGrows ==
    /\ used \subseteq used'
    /\ \A e \in used : /\ name'[e] = name[e]
                       /\ parent'[e] = parent[e]
                       /\ siblings[e] # NULL => siblings'[e] # NULL
    /\ \A e \in used \cup {Root} : inode'[e] = inode[e]
    /\ \A d \in Node : childs[d] # NULL => childs'[d] # NULL

-----------------------------------------------------------------------------
(* The tree.                                                               *)

\* From a prefix that leads somewhere, the next component is looked up in
\* the directory it leads to.
LEMMA NextOnPath ==
    ASSUME NEW p \in Paths, NEW i \in Nat, i < Len(p), Target[p][i] # 0
    PROVE  /\ p[i + 1] \in Name
           /\ Target[p][i] \in Inode
           /\ Target[p][i + 1] = Child[Target[p][i]][p[i + 1]]
           /\ Target[p][i + 1] \in Inode \cup {0}
<1>1. p \in Seq(Name) /\ Len(p) \in Nat
    BY TreeAssumption
<1>2. p[i + 1] \in Name
    BY <1>1
<1>3. i \in 0 .. Len(p) /\ i + 1 \in 1 .. Len(p) /\ i + 1 \in 0 .. Len(p)
    BY <1>1
<1>4. Target[p][i] \in Inode /\ Target[p][i + 1] \in Inode \cup {0}
    <2>1. Target[p] \in [0 .. Len(p) -> Inode \cup {0}]
        BY TreeAssumption
    <2> QED
        BY <1>3, <2>1
<1>5. ~ \E j \in 0 .. i - 1 : Target[p][j] = 0
    <2>1. CASE i = 0
        BY <2>1
    <2>2. CASE i # 0
        <3>1. i \in 1 .. Len(p)
            BY <1>3, <2>2
        <3> QED
            BY <3>1, TreeAssumption
    <2> QED
        BY <2>1, <2>2
<1>6. ~ \E j \in 0 .. (i + 1) - 1 : Target[p][j] = 0
    BY <1>5
<1>7. Target[p][i + 1] = Child[Target[p][(i + 1) - 1]][p[i + 1]]
    BY <1>3, <1>6, TreeAssumption
<1> QED
    BY <1>2, <1>4, <1>7

\* A path with a prefix that leads nowhere leads nowhere.
LEMMA Nowhere ==
    ASSUME NEW p \in Paths, NEW i \in 0 .. Len(p), Target[p][i] = 0
    PROVE  Target[p][Len(p)] = 0
<1>1. Len(p) \in Nat
    BY TreeAssumption
<1>2. CASE i = Len(p)
    BY <1>2
<1>3. CASE i # Len(p)
    <2>1. Len(p) \in 1 .. Len(p) /\ i \in 0 .. Len(p) - 1
        BY <1>1, <1>3
    <2> QED
        BY <2>1, TreeAssumption
<1> QED
    BY <1>2, <1>3

-----------------------------------------------------------------------------
(* Types.                                                                  *)

\* No thread has begun.
LEMMA InitIInv == Init => IInv
<1> SUFFICES ASSUME Init PROVE IInv
    OBVIOUS
<1> USE DEF Init
<1>1. TypeOK
    BY TreeAssumption, HeapAssumption DEF TypeOK, Node, Pcs
<1>2. HeapInv
    BY TreeAssumption, HeapAssumption DEF HeapInv, CacheSound, Node
<1>3. ASSUME NEW t \in Thread PROVE ThreadInv(t)
    BY DEF ThreadInv, Looking, Scanning, Inserting
<1> QED
    BY <1>1, <1>2, <1>3 DEF IInv

\* What the invariant says of the path of a thread that is looking up.
LEMMA OnPath ==
    ASSUME IInv, NEW t \in Thread, pc[t] # "idle"
    PROVE  /\ path[t] \in Paths /\ path[t] \in Seq(Name) /\ Len(path[t]) \in Nat
           /\ at[t] \in 0 .. Len(path[t])
           /\ at[t] < Len(path[t]) => Component(t) \in Name
<1>1. path[t] \in Paths
    BY DEF IInv, ThreadInv
<1>2. path[t] \in Seq(Name) /\ Len(path[t]) \in Nat
    BY <1>1, TreeAssumption
<1>3. at[t] \in 0 .. Len(path[t])
    BY <1>2 DEF IInv, TypeOK
<1>4. at[t] < Len(path[t]) => Component(t) \in Name
    BY <1>2, <1>3 DEF Component
<1> QED
    BY <1>1, <1>2, <1>3, <1>4

\* A lookup begins.
LEMMA TypeStart ==
    ASSUME IInv, NEW t \in Thread, NEW p \in Paths, inode_get_idx_by_path(t, p)
    PROVE  TypeOK'
<1>1. p \in Seq(Name) /\ Len(p) \in Nat
    BY TreeAssumption
<1> QED
    BY <1>1 DEF IInv, TypeOK, inode_get_idx_by_path, heap, Pcs, Node

\* No step of a thread leaves the types.
LEMMA TypeStep ==
    ASSUME IInv, NEW t \in Thread, Step(t)
    PROVE  TypeOK'
<1> USE DEF heap, Pcs, Node
<1>1. TypeOK
    BY DEF IInv
<1>2. CASE LookupStops(t)
    BY <1>1, <1>2 DEF TypeOK, LookupStops
<1>3. CASE LookupStarts(t)
    BY <1>1, <1>3 DEF TypeOK, LookupStarts
<1>4. CASE ScanHit(t)
    <2>1. /\ iter[t] \in Entry
          /\ at[t] + 1 \in Nat /\ at[t] + 1 <= Len(path[t])
        BY <1>1, <1>4, OnPath DEF IInv, TypeOK, ThreadInv, Scanning, Reachable, ScanHit
    <2> QED
        BY <1>1, <1>4, <2>1 DEF TypeOK, ScanHit, BelowHit
<1>5. CASE ScanNext(t)
    <2>1. iter[t] \in Entry
        BY <1>1, <1>5 DEF IInv, TypeOK, ThreadInv, Scanning, Reachable, ScanNext
    <2> QED
        BY <1>1, <1>5, <2>1 DEF TypeOK, ScanNext
<1>6. CASE ScanContinues(t)
    BY <1>1, <1>6 DEF TypeOK, ScanContinues, Childs
<1>7. CASE ScanEnds(t)
    BY <1>1, <1>7 DEF TypeOK, ScanEnds
<1>8. CASE WalkEnds(t)
    BY <1>1, <1>8 DEF TypeOK, WalkEnds
<1>9. CASE WalkFinds(t)
    <2>1. Component(t) \in Name /\ idx[t] \in Inode
        BY <1>1, <1>9, OnPath DEF IInv, TypeOK, ThreadInv, WalkFinds
    <2>2. Child[idx[t]][Component(t)] \in Inode \cup {0}
        BY <2>1, TreeAssumption
    <2> QED
        BY <1>1, <1>9, <2>2 DEF TypeOK, WalkFinds
<1>10. CASE InsertTooLong(t)
    <2>1. at[t] + 1 \in Nat /\ at[t] + 1 <= Len(path[t])
        BY <1>1, <1>10, OnPath DEF IInv, TypeOK, ThreadInv, Inserting, InsertTooLong
    <2> QED
        BY <1>1, <1>10, <2>1 DEF TypeOK, InsertTooLong, BelowTooLong
<1>11. CASE InsertAlloc(t)
    <2>1. Component(t) \in Name
        BY <1>11, OnPath DEF IInv, ThreadInv, Inserting, InsertAlloc
    <2>2. PICK e \in Entry \ used :
             /\ used' = used \cup {e}
             /\ name' = [name EXCEPT ![e] = Component(t)]
             /\ inode' = [inode EXCEPT ![e] = idx[t]]
             /\ parent' = [parent EXCEPT ![e] = dc[t]]
             /\ new' = [new EXCEPT ![t] = e]
             /\ siblings' = IF childs[dc[t]] = NULL
                            THEN [siblings EXCEPT ![e] = e] ELSE siblings
        BY <1>11 DEF InsertAlloc
    <2>3. /\ siblings' \in [Entry -> Entry \cup {NULL}]
          /\ name' \in [Entry -> Name \cup {NULL}]
          /\ inode' \in [Node -> Inode \cup {0}]
          /\ used' \subseteq Entry
          /\ parent' \in [Entry -> Node]
          /\ new' \in [Thread -> Entry \cup {NULL}]
        BY <1>1, <2>1, <2>2 DEF TypeOK
    <2>4. /\ head' \in [Thread -> Entry \cup {NULL}]
          /\ pc' \in [Thread -> Pcs]
        BY <1>1, <1>11 DEF TypeOK, InsertAlloc, ThenLink
    <2>5. /\ childs' \in [Node -> Entry \cup {NULL}]
          /\ path' \in [Thread -> Paths \cup {<< >>}]
          /\ at' \in [Thread -> Nat]
          /\ \A u \in Thread : at'[u] <= Len(path'[u])
          /\ dc' \in [Thread -> Node]
          /\ idx' \in [Thread -> Inode \cup {0}]
          /\ iter' \in [Thread -> Entry \cup {NULL}]
        BY <1>1, <1>11 DEF TypeOK, InsertAlloc
    <2> QED
        BY <2>3, <2>4, <2>5 DEF TypeOK
<1>12. CASE InsertReread(t)
    <2>1. PICK h \in Childs(t) : head' = [head EXCEPT ![t] = h]
        BY <1>12 DEF InsertReread
    <2>2. h \in Entry \cup {NULL}
        BY <1>1 DEF TypeOK, Childs
    <2>3. pc' \in [Thread -> Pcs]
        BY <1>1, <1>12 DEF TypeOK, InsertReread
    <2>4. head' \in [Thread -> Entry \cup {NULL}]
        BY <1>1, <2>1, <2>2 DEF TypeOK
    <2>5. UNCHANGED <<heap, path, at, dc, idx, iter, new>>
        BY <1>12 DEF InsertReread
    <2> QED
        BY <1>1, <2>3, <2>4, <2>5 DEF TypeOK
<1>13. CASE InsertLink(t)
    <2>1. new[t] \in Entry /\ head[t] \in Entry
        BY <1>1, <1>13 DEF IInv, TypeOK, ThreadInv, Inserting, Reachable, InsertLink
    <2> QED
        BY <1>1, <1>13, <2>1 DEF TypeOK, InsertLink, Linked
<1>14. CASE InsertSplice(t)
    BY <1>1, <1>14 DEF TypeOK, InsertSplice, Spliced
<1>15. CASE InsertPublish(t)
    <2>1. /\ new[t] \in Entry
          /\ at[t] + 1 \in Nat /\ at[t] + 1 <= Len(path[t])
        BY <1>1, <1>15, OnPath DEF IInv, TypeOK, ThreadInv, Inserting, InsertPublish
    <2> QED
        BY <1>1, <1>15, <2>1 DEF TypeOK, InsertPublish, BelowNew
<1>16. CASE Return(t)
    BY <1>1, <1>16 DEF TypeOK, Return
<1> QED
    BY <1>2, <1>3, <1>4, <1>5, <1>6, <1>7, <1>8, <1>9, <1>10, <1>11, <1>12,
       <1>13, <1>14, <1>15, <1>16 DEF Step

-----------------------------------------------------------------------------
(* The heap.                                                               *)

\* A step that writes no pointer and no entry leaves the heap as it is.
LEMMA HeapSame ==
    ASSUME HeapInv, UNCHANGED heap
    PROVE  HeapInv' /\ HeapGrows
BY DEF HeapInv, CacheSound, HeapGrows, heap

\* Making an entry the first child of its parent, once it is linked, keeps
\* the heap: a hit and the last assignment of an insertion.
LEMMA HeapFirst ==
    ASSUME TypeOK, HeapInv, NEW d \in Node, NEW e \in Entry, Reachable(e, d),
           childs' = [childs EXCEPT ![d] = e],
           UNCHANGED <<siblings, name, inode, used, parent>>
    PROVE  HeapInv' /\ HeapGrows
<1>1. HeapGrows
    BY HeapAssumption DEF HeapGrows, TypeOK
<1>2. childs \in [Node -> Entry \cup {NULL}]
    BY DEF TypeOK
<1>3. CacheSound'
    BY <1>2 DEF HeapInv, CacheSound, Reachable
<1>4. \A c \in Node : childs'[c] # NULL => siblings'[childs'[c]] # NULL
    BY <1>2 DEF HeapInv, Reachable
<1> QED
    BY <1>1, <1>3, <1>4 DEF HeapInv

\* Pointing the siblings of an entry at a linked child of the same parent
\* keeps the heap: the other two assignments of an insertion.
LEMMA HeapLink ==
    ASSUME TypeOK, HeapInv, NEW e \in used, NEW f \in used,
           parent[e] = parent[f], siblings[f] # NULL,
           siblings' = [siblings EXCEPT ![e] = f],
           UNCHANGED <<childs, name, inode, used, parent>>
    PROVE  HeapInv' /\ HeapGrows
<1>1. /\ siblings \in [Entry -> Entry \cup {NULL}]
      /\ used \subseteq Entry
      /\ e \in Entry /\ f \in Entry /\ f # NULL
    BY HeapAssumption DEF TypeOK
<1>2. \A g \in Entry : siblings[g] # NULL => siblings'[g] # NULL
    BY <1>1
<1>3. HeapGrows
    BY <1>1, <1>2 DEF HeapGrows
<1>4. CacheSound'
    BY <1>1 DEF HeapInv, CacheSound
<1>5. \A c \in Node : childs'[c] # NULL => siblings'[childs'[c]] # NULL
    <2>1. childs \in [Node -> Entry \cup {NULL}]
        BY DEF TypeOK
    <2> QED
        BY <1>2, <2>1 DEF HeapInv
<1>6. \A g \in Entry : siblings'[g] # NULL => siblings'[siblings'[g]] # NULL
    <2>1. siblings'[f] # NULL
        BY <1>1, <1>2
    <2> QED
        BY <1>1, <1>2, <2>1 DEF HeapInv
<1>7. \A g \in Entry \ used' : siblings'[g] = NULL
    BY <1>1 DEF HeapInv
<1> QED
    BY <1>3, <1>4, <1>5, <1>6, <1>7 DEF HeapInv

\* A new entry keeps the heap: nothing points at it but itself.
LEMMA HeapNew ==
    ASSUME IInv, TypeOK', NEW t \in Thread, InsertAlloc(t)
    PROVE  HeapInv' /\ HeapGrows
<1>1. PICK e \in Entry \ used :
         /\ used' = used \cup {e}
         /\ name' = [name EXCEPT ![e] = Component(t)]
         /\ inode' = [inode EXCEPT ![e] = idx[t]]
         /\ parent' = [parent EXCEPT ![e] = dc[t]]
         /\ siblings' = IF childs[dc[t]] = NULL
                        THEN [siblings EXCEPT ![e] = e] ELSE siblings
    BY DEF InsertAlloc
<1>2. /\ childs \in [Node -> Entry \cup {NULL}]
      /\ siblings \in [Entry -> Entry \cup {NULL}]
      /\ name \in [Entry -> Name \cup {NULL}]
      /\ inode \in [Node -> Inode \cup {0}]
      /\ used \subseteq Entry
      /\ parent \in [Entry -> Node]
    BY DEF IInv, TypeOK
<1>3. HeapInv /\ childs' = childs /\ e # Root /\ e # NULL /\ e \in Node
    BY HeapAssumption DEF IInv, InsertAlloc, Node
<1>4. /\ dc[t] \in used \cup {Root} /\ dc[t] \in Node /\ dc[t] # e
      /\ idx[t] # 0 /\ inode[dc[t]] # 0
      /\ idx[t] = Child[inode[dc[t]]][Component(t)]
    BY <1>2, HeapAssumption DEF IInv, ThreadInv, Inserting, InsertAlloc, Node
<1>5. /\ name'[e] = Component(t) /\ inode'[e] = idx[t] /\ parent'[e] = dc[t]
      /\ siblings'[e] \in {NULL, e}
    BY <1>1, <1>2, <1>3 DEF HeapInv
<1>6. \A g \in Entry : g # e => /\ name'[g] = name[g] /\ parent'[g] = parent[g]
                                /\ siblings'[g] = siblings[g]
    BY <1>1, <1>2
<1>7. \A g \in Node : g # e => inode'[g] = inode[g]
    BY <1>1, <1>2
<1>8. \A g \in used : g \in Entry /\ g # e /\ g \in Node
    BY <1>1, <1>2 DEF Node
<1>9. HeapGrows
    <2>1. Root \in Node
        BY DEF Node
    <2> QED
        BY <1>1, <1>3, <1>6, <1>7, <1>8, <2>1 DEF HeapGrows
<1>10. \A g \in used : parent[g] \in Node /\ parent[g] # e
    BY <1>3, <1>8 DEF HeapInv, Node
<1>11. \A g \in used : siblings[g] # e
    BY <1>1, <1>3 DEF HeapInv, CacheSound
<1>12. CacheSound'
    <2>1. \A d \in Node : childs'[d] # NULL => /\ childs'[d] \in used'
                                               /\ parent'[childs'[d]] = d
        BY <1>1, <1>3, <1>6, <1>8 DEF HeapInv, CacheSound
    <2>2. \A g \in used : /\ inode'[parent'[g]] # 0
                          /\ inode'[g] = Child[inode'[parent'[g]]][name'[g]]
        BY <1>3, <1>6, <1>7, <1>8, <1>10 DEF HeapInv, CacheSound
    <2>3. /\ inode'[parent'[e]] # 0
          /\ inode'[e] = Child[inode'[parent'[e]]][name'[e]]
        BY <1>4, <1>5, <1>7
    <2>4. \A g \in used : siblings'[g] # NULL =>
             siblings'[g] \in used' /\ parent'[siblings'[g]] = parent'[g]
        BY <1>1, <1>3, <1>6, <1>8 DEF HeapInv, CacheSound
    <2>5. siblings'[e] # NULL =>
             siblings'[e] \in used' /\ parent'[siblings'[e]] = parent'[e]
        BY <1>1, <1>5
    <2> QED
        BY <1>1, <2>1, <2>2, <2>3, <2>4, <2>5 DEF CacheSound
<1>13. inode'[Root] = RootInode
    BY <1>3, <1>7 DEF HeapInv, Node
<1>14. \A g \in used' : inode'[g] # 0 /\ parent'[g] \in used' \cup {Root}
    BY <1>1, <1>3, <1>4, <1>5, <1>6, <1>7, <1>8 DEF HeapInv
<1>15. \A g \in Entry \ used' : siblings'[g] = NULL
    BY <1>1, <1>3, <1>6 DEF HeapInv
<1>16. \A d \in Node : childs'[d] # NULL => siblings'[childs'[d]] # NULL
    <2>1. \A d \in Node : childs[d] # NULL => childs[d] \in used
        BY <1>3 DEF HeapInv, CacheSound
    <2> QED
        BY <1>3, <1>6, <1>8, <2>1 DEF HeapInv
<1>17. \A g \in Entry : siblings'[g] # NULL => siblings'[siblings'[g]] # NULL
    <2>1. \A g \in Entry : siblings[g] # NULL => siblings[g] \in used
        BY <1>3 DEF HeapInv, CacheSound
    <2> QED
        BY <1>3, <1>5, <1>6, <1>8, <2>1 DEF HeapInv
<1> QED
    BY <1>9, <1>12, <1>13, <1>14, <1>15, <1>16, <1>17 DEF HeapInv

\* No step of a thread disturbs the heap.
LEMMA HeapStep ==
    ASSUME IInv, TypeOK', NEW t \in Thread, Step(t)
    PROVE  HeapInv' /\ HeapGrows
<1>1. TypeOK /\ HeapInv /\ ThreadInv(t)
    BY DEF IInv
<1>2. CASE UNCHANGED heap
    BY <1>1, <1>2, HeapSame
<1>3. CASE ScanHit(t)
    <2>1. dc[t] \in Node /\ iter[t] \in Entry /\ Reachable(iter[t], dc[t])
        BY <1>1, <1>3 DEF TypeOK, ThreadInv, Scanning, Reachable, ScanHit
    <2> QED
        BY <1>1, <1>3, <2>1, HeapFirst DEF ScanHit
<1>4. CASE InsertAlloc(t)
    BY <1>4, HeapNew
<1>5. CASE InsertLink(t)
    <2>1. /\ new[t] \in used /\ parent[new[t]] = dc[t]
          /\ Reachable(head[t], dc[t])
        BY <1>1, <1>5 DEF ThreadInv, Inserting, InsertLink
    <2>2. /\ siblings[head[t]] \in used
          /\ parent[siblings[head[t]]] = dc[t]
          /\ siblings[siblings[head[t]]] # NULL
        BY <1>1, <2>1 DEF TypeOK, Reachable, HeapInv, CacheSound
    <2> QED
        BY <1>1, <1>5, <2>1, <2>2, HeapLink DEF InsertLink, Linked
<1>6. CASE InsertSplice(t)
    <2>1. /\ new[t] \in used /\ parent[new[t]] = dc[t] /\ siblings[new[t]] # NULL
          /\ Reachable(head[t], dc[t])
        BY <1>1, <1>6 DEF ThreadInv, Inserting, InsertSplice
    <2> QED
        BY <1>1, <1>6, <2>1, HeapLink DEF InsertSplice, Spliced, Reachable
<1>7. CASE InsertPublish(t)
    <2>1. dc[t] \in Node /\ new[t] \in Entry /\ Reachable(new[t], dc[t])
        BY <1>1, <1>7 DEF TypeOK, ThreadInv, Inserting, Reachable, InsertPublish
    <2> QED
        BY <1>1, <1>7, <2>1, HeapFirst DEF InsertPublish
<1> QED
    BY <1>2, <1>3, <1>4, <1>5, <1>6, <1>7
    DEF Step, LookupStops, LookupStarts, ScanNext, ScanContinues, ScanEnds,
        WalkEnds, WalkFinds, InsertTooLong, InsertReread, Return

-----------------------------------------------------------------------------
(* The threads.                                                            *)

\* What a thread knows outlasts the steps of the others.
LEMMA ThreadFrame ==
    ASSUME TypeOK, NEW u \in Thread, ThreadInv(u), HeapGrows,
           pc'[u] = pc[u], path'[u] = path[u], at'[u] = at[u], dc'[u] = dc[u],
           idx'[u] = idx[u], head'[u] = head[u], iter'[u] = iter[u],
           new'[u] = new[u]
    PROVE  ThreadInv(u)'
<1>2. dc'[u] \in used' \cup {Root} /\ inode'[dc[u]] = inode[dc[u]]
    BY DEF ThreadInv, HeapGrows
<1>3. Component(u)' = Component(u)
    BY DEF Component
<1>4. new[u] \in used => /\ new[u] \in used'
                         /\ parent'[new[u]] = parent[new[u]]
                         /\ inode'[new[u]] = inode[new[u]]
                         /\ siblings[new[u]] # NULL => siblings'[new[u]] # NULL
    BY DEF HeapGrows
<1>5. pc[u] \in Scanning => /\ Reachable(head[u], dc[u])'
                            /\ Reachable(iter[u], dc[u])'
    <2>1. pc[u] \in Scanning => /\ Reachable(head[u], dc[u])
                                /\ Reachable(iter[u], dc[u])
        BY DEF ThreadInv
    <2> QED
        BY <2>1 DEF Reachable, HeapGrows
<1>6. pc[u] \in Inserting \ {"insert", "publish"} => Reachable(head[u], dc[u])'
    <2>1. pc[u] \in Inserting \ {"insert", "publish"} => Reachable(head[u], dc[u])
        BY DEF ThreadInv
    <2> QED
        BY <2>1 DEF Reachable, HeapGrows
<1>7. pc[u] \in {"linked", "splice", "publish"} => siblings'[new[u]] # NULL
    BY <1>4 DEF ThreadInv, Inserting
<1>8. pc[u] \in Scanning \cup (Inserting \ {"insert", "publish"}) =>
         childs'[dc[u]] # NULL
    BY DEF ThreadInv, HeapGrows, TypeOK
<1> QED
    BY <1>2, <1>3, <1>4, <1>5, <1>6, <1>7, <1>8 DEF ThreadInv

\* A lookup begins at the root.
LEMMA ThreadStart ==
    ASSUME IInv, NEW t \in Thread, NEW p \in Paths, inode_get_idx_by_path(t, p)
    PROVE  ThreadInv(t)'
<1>1. /\ pc'[t] = "lookup" /\ path'[t] = p /\ at'[t] = 0 /\ dc'[t] = Root
      /\ inode' = inode
    BY DEF IInv, TypeOK, inode_get_idx_by_path, heap
<1>2. inode[Root] = Target[p][0]
    BY TreeAssumption DEF IInv, HeapInv
<1> QED
    BY <1>1, <1>2 DEF ThreadInv, Looking, Scanning, Inserting

\* The scan: a hit leads where the component leads.
LEMMA ThreadLookup ==
    ASSUME IInv, NEW t \in Thread,
           \/ LookupStops(t) \/ LookupStarts(t)
           \/ ScanHit(t) \/ ScanNext(t) \/ ScanContinues(t) \/ ScanEnds(t)
    PROVE  ThreadInv(t)'
<1> USE DEF Looking, Scanning, Inserting
<1>1. TypeOK /\ HeapInv /\ ThreadInv(t) /\ t \in Thread
    BY DEF IInv
<1>2. pc[t] # "idle" /\ pc[t] \in Looking
    BY DEF LookupStops, LookupStarts, ScanHit, ScanNext, ScanContinues, ScanEnds
<1>3. /\ path[t] \in Paths /\ dc[t] \in used \cup {Root} /\ dc[t] \in Node
      /\ inode[dc[t]] = Target[path[t]][at[t]]
    BY <1>1, <1>2 DEF ThreadInv, TypeOK
<1>4. inode[dc[t]] # 0
    BY <1>1, <1>3, TreeAssumption DEF HeapInv
<1>5. at[t] \in Nat
    BY <1>1 DEF TypeOK
<1>6. CASE LookupStops(t) \/ ScanEnds(t)
    <2>1. /\ pc'[t] = "walk" /\ idx'[t] = inode[dc[t]]
          /\ path' = path /\ at' = at /\ dc' = dc /\ inode' = inode /\ used' = used
        BY <1>1, <1>6 DEF TypeOK, LookupStops, ScanEnds, heap
    <2> QED
        BY <1>3, <1>4, <2>1 DEF ThreadInv
<1>7. CASE LookupStarts(t)
    <2>1. /\ pc'[t] = "scan" /\ head'[t] = childs[dc[t]] /\ iter'[t] = childs[dc[t]]
          /\ path' = path /\ at' = at /\ dc' = dc /\ UNCHANGED heap
          /\ at[t] < Len(path[t]) /\ childs[dc[t]] # NULL
        BY <1>1, <1>7 DEF TypeOK, LookupStarts
    <2>2. Reachable(childs[dc[t]], dc[t])
        BY <1>1, <1>3, <1>7 DEF Reachable, HeapInv, CacheSound, LookupStarts
    <2> QED
        BY <1>3, <2>1, <2>2 DEF ThreadInv, Reachable, heap
<1>8. CASE ScanHit(t)
    <2>1. Reachable(iter[t], dc[t]) /\ at[t] < Len(path[t])
        BY <1>1, <1>8 DEF ThreadInv, ScanHit
    <2>2. /\ pc'[t] = "lookup" /\ dc'[t] = iter[t] /\ at'[t] = at[t] + 1
          /\ path' = path /\ inode' = inode /\ used' = used
        BY <1>1, <1>8 DEF TypeOK, ScanHit, BelowHit
    <2>3. Target[path[t]][at[t] + 1] = Child[inode[dc[t]]][Component(t)]
        BY <1>3, <1>4, <1>5, <2>1, NextOnPath DEF Component
    <2>4. inode[iter[t]] = Child[inode[dc[t]]][Component(t)]
        BY <1>1, <1>8, <2>1 DEF Reachable, HeapInv, CacheSound, ScanHit
    <2> QED
        BY <1>3, <2>1, <2>2, <2>3, <2>4 DEF ThreadInv, Reachable
<1>9. CASE ScanNext(t)
    <2>1. /\ Reachable(iter[t], dc[t]) /\ at[t] < Len(path[t])
          /\ Reachable(head[t], dc[t]) /\ childs[dc[t]] # NULL
        BY <1>1, <1>9 DEF ThreadInv, ScanNext
    <2>2. /\ pc'[t] = "compare" /\ iter'[t] = siblings[iter[t]]
          /\ UNCHANGED <<heap, path, at, dc, head>>
        BY <1>1, <1>9 DEF TypeOK, ScanNext
    <2>3. Reachable(siblings[iter[t]], dc[t])
        BY <1>1, <2>1 DEF TypeOK, Reachable, HeapInv, CacheSound
    <2> QED
        BY <1>3, <2>1, <2>2, <2>3 DEF ThreadInv, Reachable, heap
<1>10. CASE ScanContinues(t)
    <2>1. /\ Reachable(iter[t], dc[t]) /\ at[t] < Len(path[t])
          /\ Reachable(head[t], dc[t])
        BY <1>1, <1>10 DEF ThreadInv, ScanContinues
    <2>2. PICK h \in Childs(t) : head' = [head EXCEPT ![t] = h]
        BY <1>10 DEF ScanContinues
    <2>3. /\ pc'[t] = "scan" /\ head'[t] = h
          /\ UNCHANGED <<heap, path, at, dc, iter>>
        BY <1>1, <1>10, <2>2 DEF TypeOK, ScanContinues
    <2>4. childs[dc[t]] # NULL => Reachable(childs[dc[t]], dc[t])
        BY <1>1, <1>3 DEF Reachable, HeapInv, CacheSound
    <2>5. childs[dc[t]] # NULL
        BY <1>1, <1>10 DEF ThreadInv, ScanContinues
    <2>6. Reachable(h, dc[t])
        BY <2>1, <2>4, <2>5 DEF Childs
    <2> QED
        BY <1>3, <2>1, <2>3, <2>5, <2>6 DEF ThreadInv, Reachable, heap
<1> QED
    BY <1>6, <1>7, <1>8, <1>9, <1>10

\* The walk: the directories lead where the path leads.
LEMMA ThreadWalk ==
    ASSUME IInv, NEW t \in Thread, WalkEnds(t) \/ WalkFinds(t)
    PROVE  ThreadInv(t)'
<1> USE DEF Looking, Scanning, Inserting
<1>1. TypeOK /\ HeapInv /\ ThreadInv(t) /\ pc[t] = "walk"
    BY DEF IInv, WalkEnds, WalkFinds
<1>2. /\ path[t] \in Paths /\ dc[t] \in used \cup {Root}
      /\ idx[t] # 0 /\ idx[t] = Target[path[t]][at[t]]
      /\ at[t] < Len(path[t]) => inode[dc[t]] = idx[t]
    BY <1>1 DEF ThreadInv
<1>3. at[t] \in Nat /\ at[t] <= Len(path[t]) /\ Len(path[t]) \in Nat
    BY <1>1, OnPath DEF TypeOK
<1>4. at[t] < Len(path[t]) =>
         Target[path[t]][at[t] + 1] = Child[idx[t]][Component(t)]
    BY <1>2, <1>3, NextOnPath DEF Component
<1>5. CASE WalkEnds(t)
    <2>1. /\ pc'[t] = "done" /\ path' = path /\ dc' = dc /\ used' = used
          /\ \/ at[t] = Len(path[t]) /\ idx'[t] = idx[t]
             \/ /\ at[t] < Len(path[t]) /\ idx'[t] = 0
                /\ Child[idx[t]][Component(t)] = 0
        BY <1>1, <1>5 DEF TypeOK, WalkEnds, heap
    <2>2. idx'[t] = Target[path[t]][Len(path[t])]
        <3>1. CASE at[t] = Len(path[t]) /\ idx'[t] = idx[t]
            BY <1>2, <3>1
        <3>2. CASE /\ at[t] < Len(path[t]) /\ idx'[t] = 0
                   /\ Child[idx[t]][Component(t)] = 0
            <4>1. /\ at[t] + 1 \in 0 .. Len(path[t])
                  /\ Target[path[t]][at[t] + 1] = 0
                BY <1>3, <1>4, <3>2
            <4> QED
                BY <1>2, <3>2, <4>1, Nowhere
        <3> QED
            BY <2>1, <3>1, <3>2
    <2> QED
        BY <1>2, <2>1, <2>2 DEF ThreadInv
<1>6. CASE WalkFinds(t)
    <2>1. /\ pc'[t] = "insert" /\ idx'[t] = Child[idx[t]][Component(t)]
          /\ idx'[t] # 0 /\ at[t] < Len(path[t])
          /\ UNCHANGED <<heap, path, at, dc>>
        BY <1>1, <1>6 DEF TypeOK, WalkFinds
    <2>2. Component(t)' = Component(t)
        BY <2>1 DEF Component
    <2> QED
        BY <1>2, <1>4, <2>1, <2>2 DEF ThreadInv, heap
<1> QED
    BY <1>5, <1>6

\* The insertion.
LEMMA ThreadInsert ==
    ASSUME LongNamesLast, IInv, TypeOK', NEW t \in Thread,
           \/ InsertTooLong(t) \/ InsertAlloc(t) \/ InsertReread(t)
           \/ InsertLink(t) \/ InsertSplice(t) \/ InsertPublish(t),
           HeapGrows
    PROVE  ThreadInv(t)'
<1> USE DEF Looking, Scanning, Inserting
<1>1. TypeOK /\ HeapInv /\ ThreadInv(t) /\ pc[t] \in Inserting
    BY DEF IInv, InsertTooLong, InsertAlloc, InsertReread, InsertLink,
           InsertSplice, InsertPublish
<1>2. /\ path[t] \in Paths /\ dc[t] \in used \cup {Root} /\ dc[t] \in Node
      /\ at[t] < Len(path[t])
      /\ idx[t] # 0 /\ idx[t] = Target[path[t]][at[t] + 1]
      /\ inode[dc[t]] # 0 /\ idx[t] = Child[inode[dc[t]]][Component(t)]
    BY <1>1 DEF ThreadInv, TypeOK
<1>3. at[t] \in Nat /\ Len(path[t]) \in Nat
    BY <1>1, OnPath DEF TypeOK
<1>4. inode'[dc[t]] = inode[dc[t]] /\ dc[t] \in used' \cup {Root}
    BY <1>2 DEF HeapGrows
<1>5. ASSUME at' = at, path' = path PROVE Component(t)' = Component(t)
    BY <1>5 DEF Component
<1>6. CASE InsertTooLong(t)
    <2>1. /\ pc'[t] = "walk" /\ at'[t] = at[t] + 1 /\ dc'[t] = Root
          /\ path' = path /\ idx' = idx
        BY <1>1, <1>6 DEF TypeOK, InsertTooLong, BelowTooLong
    <2>2. ~ (at[t] + 1 < Len(path[t]))
        <3>1. Component(t) \in LongName
            BY <1>6 DEF InsertTooLong
        <3>2. at[t] + 1 < Len(path[t]) => at[t] + 1 \in 1 .. Len(path[t]) - 1
            BY <1>3
        <3> QED
            BY <1>2, <3>1, <3>2 DEF LongNamesLast, Component
    <2> QED
        BY <1>2, <2>1, <2>2 DEF ThreadInv
<1>7. CASE InsertAlloc(t)
    <2>1. PICK e \in Entry \ used :
             /\ used' = used \cup {e}
             /\ inode' = [inode EXCEPT ![e] = idx[t]]
             /\ parent' = [parent EXCEPT ![e] = dc[t]]
             /\ new' = [new EXCEPT ![t] = e]
             /\ siblings' = IF childs[dc[t]] = NULL
                            THEN [siblings EXCEPT ![e] = e] ELSE siblings
        BY <1>7 DEF InsertAlloc
    <2>2. /\ new'[t] = e /\ e \in used' /\ inode'[e] = idx[t] /\ parent'[e] = dc[t]
          /\ e # NULL /\ e \notin used
          /\ childs[dc[t]] = NULL => siblings'[e] # NULL
        BY <1>1, <2>1, HeapAssumption DEF TypeOK, Node
    <2>3. /\ pc'[t] = IF childs[dc[t]] = NULL THEN "publish" ELSE "alloced"
          /\ head'[t] = childs[dc[t]]
          /\ UNCHANGED <<childs, path, at, dc, idx>>
        BY <1>1, <1>7 DEF TypeOK, InsertAlloc, ThenLink
    <2>4. childs[dc[t]] # NULL => Reachable(childs[dc[t]], dc[t])
        BY <1>1, <1>2 DEF Reachable, HeapInv, CacheSound
    <2>5. childs[dc[t]] # NULL => Reachable(childs[dc[t]], dc[t])'
        BY <2>3, <2>4 DEF Reachable, HeapGrows
    <2>6. Component(t)' = Component(t)
        BY <1>5, <2>3
    <2> QED
        BY <1>2, <1>4, <2>2, <2>3, <2>5, <2>6 DEF ThreadInv, Reachable
<1>8. CASE pc[t] # "insert" /\ ~ InsertPublish(t)
    <2>1. /\ new[t] \in used /\ parent[new[t]] = dc[t] /\ inode[new[t]] = idx[t]
          /\ pc[t] # "publish" =>
                Reachable(head[t], dc[t]) /\ childs[dc[t]] # NULL
          /\ pc[t] \in {"linked", "splice"} => siblings[new[t]] # NULL
        BY <1>1, <1>8 DEF ThreadInv
    <2>2. /\ new[t] \in used' /\ parent'[new[t]] = dc[t]
          /\ inode'[new[t]] = idx[t]
          /\ siblings[new[t]] # NULL => siblings'[new[t]] # NULL
        BY <2>1 DEF HeapGrows
    <2>3. CASE InsertReread(t)
        <3>1. PICK h \in Childs(t) : head' = [head EXCEPT ![t] = h]
            BY <2>3 DEF InsertReread
        <3>2. /\ \/ pc[t] = "alloced" /\ pc'[t] = "link"
                 \/ pc[t] = "linked" /\ pc'[t] = "splice"
              /\ head'[t] = h
              /\ UNCHANGED <<heap, path, at, dc, idx, new>>
            BY <1>1, <2>3, <3>1 DEF TypeOK, InsertReread
        <3>3. childs[dc[t]] # NULL => Reachable(childs[dc[t]], dc[t])
            BY <1>1, <1>2 DEF Reachable, HeapInv, CacheSound
        <3>4. Reachable(h, dc[t]) /\ childs[dc[t]] # NULL
            BY <2>1, <3>2, <3>3 DEF Childs
        <3>5. Component(t)' = Component(t)
            BY <1>5, <3>2
        <3> QED
            BY <1>2, <2>1, <3>2, <3>4, <3>5 DEF ThreadInv, Reachable, heap
    <2>4. CASE InsertLink(t)
        <3>1. /\ pc[t] = "link" /\ pc'[t] = "linked"
              /\ siblings' = [siblings EXCEPT ![new[t]] = siblings[head[t]]]
              /\ UNCHANGED <<childs, path, at, dc, idx, head, new>>
            BY <1>1, <2>4 DEF TypeOK, InsertLink, Linked
        <3>2. siblings'[new[t]] # NULL
            BY <1>1, <2>1, <3>1 DEF TypeOK, Reachable
        <3>3. Reachable(head[t], dc[t])'
            BY <2>1, <3>1 DEF Reachable, HeapGrows
        <3>4. Component(t)' = Component(t)
            BY <1>5, <3>1
        <3> QED
            BY <1>2, <1>4, <2>1, <2>2, <3>1, <3>2, <3>3, <3>4 DEF ThreadInv, Reachable
    <2>5. CASE InsertSplice(t)
        <3>1. /\ pc[t] = "splice" /\ pc'[t] = "publish"
              /\ UNCHANGED <<path, at, dc, idx, new>>
            BY <1>1, <2>5 DEF TypeOK, InsertSplice
        <3>2. Component(t)' = Component(t)
            BY <1>5, <3>1
        <3> QED
            BY <1>2, <1>4, <2>1, <2>2, <3>1, <3>2 DEF ThreadInv
    <2> QED
        BY <1>8, <2>3, <2>4, <2>5 DEF InsertTooLong, InsertAlloc
<1>9. CASE InsertPublish(t)
    <2>1. new[t] \in used /\ inode[new[t]] = idx[t]
        BY <1>1, <1>9 DEF ThreadInv, InsertPublish
    <2>2. /\ pc'[t] = "walk" /\ at'[t] = at[t] + 1 /\ dc'[t] = new[t]
          /\ UNCHANGED <<inode, used, path, idx>>
        BY <1>1, <1>9 DEF TypeOK, InsertPublish, BelowNew
    <2> QED
        BY <1>2, <2>1, <2>2 DEF ThreadInv
<1> QED
    BY <1>6, <1>7, <1>8, <1>9 DEF InsertReread, InsertLink, InsertSplice

-----------------------------------------------------------------------------
(* The whole.                                                              *)

\* One thread steps, and every thread's part of the invariant is kept.
LEMMA NextIInv ==
    ASSUME LongNamesLast, IInv, [Next]_vars
    PROVE  IInv'
<1>1. CASE UNCHANGED vars
    BY <1>1 DEF vars, IInv, TypeOK, HeapInv, CacheSound, ThreadInv, Reachable,
                Component
<1>2. ASSUME NEW t \in Thread, NEW p \in Paths, inode_get_idx_by_path(t, p)
      PROVE  IInv'
    <2>1. TypeOK' /\ TypeOK
        BY <1>2, TypeStart DEF IInv
    <2>2. HeapInv' /\ HeapGrows
        BY <1>2, HeapSame DEF IInv, inode_get_idx_by_path
    <2>3. ASSUME NEW u \in Thread PROVE ThreadInv(u)'
        <3>1. CASE u = t
            BY <1>2, <3>1, ThreadStart
        <3>2. CASE u # t
            <4>1. /\ pc'[u] = pc[u] /\ path'[u] = path[u] /\ at'[u] = at[u]
                  /\ dc'[u] = dc[u] /\ idx'[u] = idx[u] /\ head'[u] = head[u]
                  /\ iter'[u] = iter[u] /\ new'[u] = new[u]
                BY <1>2, <2>1, <3>2 DEF TypeOK, inode_get_idx_by_path
            <4> QED
                BY <2>1, <2>2, <4>1, ThreadFrame DEF IInv
        <3> QED
            BY <3>1, <3>2
    <2> QED
        BY <2>1, <2>2, <2>3 DEF IInv
<1>3. ASSUME NEW t \in Thread, Step(t)
      PROVE  IInv'
    <2>1. TypeOK' /\ TypeOK
        BY <1>3, TypeStep DEF IInv
    <2>2. HeapInv' /\ HeapGrows
        BY <1>3, <2>1, HeapStep
    <2>3. ThreadInv(t)'
        <3>1. CASE Return(t)
            <4>1. pc'[t] = "idle" /\ dc'[t] = Root
                BY <2>1, <3>1 DEF TypeOK, Return
            <4> QED
                BY <4>1 DEF ThreadInv, Looking, Scanning, Inserting
        <3> QED
            BY <1>3, <2>1, <2>2, <3>1, ThreadLookup, ThreadWalk, ThreadInsert DEF Step
    <2>4. ASSUME NEW u \in Thread, u # t PROVE ThreadInv(u)'
        <3>1. /\ pc'[u] = pc[u] /\ path'[u] = path[u] /\ at'[u] = at[u]
              /\ dc'[u] = dc[u] /\ idx'[u] = idx[u]
            BY <1>3, <2>1, <2>4
            DEF TypeOK, Step, LookupStops, LookupStarts, ScanHit, ScanNext,
                ScanContinues, ScanEnds, WalkEnds, WalkFinds, InsertTooLong,
                InsertAlloc, InsertReread, InsertLink, InsertSplice,
                InsertPublish, Return
        <3>2. head \in [Thread -> Entry \cup {NULL}]
            BY <2>1 DEF TypeOK
        <3>3. \/ head' = head
              \/ \E h : head' = [head EXCEPT ![t] = h]
            BY <1>3
            DEF Step, LookupStops, LookupStarts, ScanHit, ScanNext,
                ScanContinues, ScanEnds, WalkEnds, WalkFinds, InsertTooLong,
                InsertAlloc, InsertReread, InsertLink, InsertSplice,
                InsertPublish, Return
        <3>4. head'[u] = head[u]
            BY <2>4, <3>2, <3>3
        <3>5. /\ iter \in [Thread -> Entry \cup {NULL}]
              /\ new \in [Thread -> Entry \cup {NULL}]
            BY <2>1 DEF TypeOK
        <3>6. iter' = iter \/ \E e : iter' = [iter EXCEPT ![t] = e]
            BY <1>3
            DEF Step, LookupStops, LookupStarts, ScanHit, ScanNext,
                ScanContinues, ScanEnds, WalkEnds, WalkFinds, InsertTooLong,
                InsertAlloc, InsertReread, InsertLink, InsertSplice,
                InsertPublish, Return
        <3>7. new' = new \/ \E e : new' = [new EXCEPT ![t] = e]
            BY <1>3
            DEF Step, LookupStops, LookupStarts, ScanHit, ScanNext,
                ScanContinues, ScanEnds, WalkEnds, WalkFinds, InsertTooLong,
                InsertAlloc, InsertReread, InsertLink, InsertSplice,
                InsertPublish, Return
        <3>8. iter'[u] = iter[u] /\ new'[u] = new[u]
            BY <2>4, <3>5, <3>6, <3>7
        <3> QED
            BY <2>1, <2>2, <3>1, <3>4, <3>8, ThreadFrame DEF IInv
    <2> QED
        BY <2>1, <2>2, <2>3, <2>4 DEF IInv
<1> QED
    BY <1>1, <1>2, <1>3 DEF Next

\* Whatever the threads do to the cache at once, without a lock: it holds
\* only what the directories hold, no scan follows a NULL pointer, and every
\* lookup returns the inode of its path (dcache_insert, dcache_lookup and
\* inode_get_idx_by_path), if only last components are too long to be cached.
THEOREM DcacheSafe ==
    ASSUME LongNamesLast
    PROVE  Spec => [](TypeOK /\ CacheSound /\ NoNullSibling /\ LookupRight)
<1>1. Init => IInv
    BY InitIInv
<1>2. IInv /\ [Next]_vars => IInv'
    BY NextIInv
<1>3. IInv => TypeOK /\ CacheSound /\ NoNullSibling /\ LookupRight
    <2> SUFFICES ASSUME IInv
                 PROVE  TypeOK /\ CacheSound /\ NoNullSibling /\ LookupRight
        OBVIOUS
    <2>1. TypeOK /\ CacheSound
        BY DEF IInv, HeapInv
    <2>2. ASSUME NEW t \in Thread, pc[t] = "scan"
          PROVE  iter[t] # NULL /\ siblings[iter[t]] # NULL
        <3>1. Reachable(iter[t], dc[t])
            BY <2>2 DEF IInv, ThreadInv, Scanning
        <3> QED
            BY <2>1, <3>1, HeapAssumption DEF Reachable, TypeOK
    <2>3. NoNullSibling
        BY <2>2 DEF IInv, HeapInv, NoNullSibling
    <2>4. LookupRight
        BY DEF IInv, ThreadInv, LookupRight
    <2> QED
        BY <2>1, <2>3, <2>4
<1> QED
    BY <1>1, <1>2, <1>3, PTL DEF Spec
-----------------------------------------------------------------------------
(* The rings, while there is one thread.                                   *)

SingleThread == \E t : Thread = {t}

\* The entries made for node d.
Kids(d) == {e \in used : parent[e] = d}

\* Along s the elements of K form one ring: from any of them all are reached.
OneRing(K, s) ==
    /\ \A e \in K : s[e] \in K
    /\ \A S \in SUBSET K : S # {} /\ (\A e \in S : s[e] \in S) => S = K
    /\ \A e, f \in K : s[e] = s[f] => e = f

\* dcache_insert has an entry that is not in the ring yet.
Unspliced == {"alloced", "link", "linked", "splice"}

\* The children of d that are in its ring.
InRing(t, d) == Kids(d) \ (IF pc[t] \in Unspliced THEN {new[t]} ELSE {})

\* The rings are closed but for the entry at hand, and no two children have
\* the same name.
RingsInv(t) ==
    \A d \in Node :
        /\ OneRing(InRing(t, d), siblings)
        /\ childs[d] # NULL => childs[d] \in InRing(t, d)
        /\ childs[d] = NULL => \/ InRing(t, d) = {}
                               \/ pc[t] = "publish" /\ d = dc[t]
        /\ \A e, f \in Kids(d) : name[e] = name[f] => e = f

\* The component is not among the children of dc.
NotCached(t) == \A e \in Kids(dc[t]) : name[e] # Component(t)

\* What the thread knows of the rings: the children passed so far have other
\* names; what it is about to insert was not there; the new entry has no
\* children and takes the first child's place in the ring.
KnowsRing(t) ==
    /\ pc[t] \in Scanning \cup Unspliced => head[t] = childs[dc[t]]
    /\ pc[t] \in Scanning =>
          \E S \in SUBSET Kids(dc[t]) :
             /\ \A e \in S : name[e] # Component(t) /\ siblings[e] \in S \cup {iter[t]}
             /\ head[t] \in S \/ (pc[t] = "scan" /\ iter[t] = head[t])
    /\ pc[t] = "walk" /\ at[t] < Len(path[t]) => NotCached(t)
    /\ pc[t] = "insert" => NotCached(t)
    /\ pc[t] \in Unspliced \cup {"publish"} => Kids(new[t]) = {}
    /\ pc[t] \in {"linked", "splice"} => siblings[new[t]] = siblings[head[t]]

RInv == IsFiniteSet(used) /\ \A t \in Thread : RingsInv(t) /\ KnowsRing(t)
-----------------------------------------------------------------------------
(* Along a ring.                                                           *)

\* What Ring passes in n steps from e.
Passed(e) ==
    [n \in Nat |->
        {x \in used : \E m \in 0 .. n : \E s \in [0 .. m -> used] :
            /\ s[0] = e /\ s[m] = x
            /\ \A i \in 0 .. m - 1 : s[i + 1] = siblings[s[i]]}]

\* The next step passes one more.
LEMMA PassedStep ==
    ASSUME NEW K \in SUBSET used, \A x \in K : siblings[x] \in K, NEW e \in K
    PROVE  /\ Passed(e)[0] = {e}
           /\ \A n \in Nat \ {0} :
                 Passed(e)[n] = Passed(e)[n - 1] \cup {siblings[f] : f \in Passed(e)[n - 1]}
           /\ \A n \in Nat : Passed(e)[n] \subseteq K
<1> DEFINE Way(m, s) == s[0] = e /\ \A i \in 0 .. m - 1 : s[i + 1] = siblings[s[i]]
<1>1. ASSUME NEW n \in Nat, NEW x
      PROVE  x \in Passed(e)[n]
                <=> x \in used /\ \E m \in 0 .. n : \E s \in [0 .. m -> used] : Way(m, s) /\ s[m] = x
  BY DEF Passed
<1>2. ASSUME NEW m \in Nat, NEW s \in [0 .. m -> used], Way(m, s)
      PROVE  s[m] \in K
  <2> DEFINE S == {i \in 0 .. m : s[i] \in K}
  <2>1. 0 \in S
    BY <1>2
  <2>2. \A i \in 0 .. m - 1 : i \in S => i + 1 \in S
    BY <1>2
  <2>3. 0 .. m \subseteq S
    <3> HIDE DEF S, Way
    <3> QED BY <1>2, <2>1, <2>2, Induction, Zenon
  <2> QED BY <1>2, <2>3
<1>3. ASSUME NEW n \in Nat, NEW x \in Passed(e)[n] PROVE x \in K
  <2>1. PICK m \in 0 .. n : \E s \in [0 .. m -> used] : Way(m, s) /\ s[m] = x
    BY <1>1, <1>3
  <2>2. PICK s \in [0 .. m -> used] : Way(m, s) /\ s[m] = x
    BY <2>1
  <2>3. m \in Nat
    OBVIOUS
  <2> HIDE DEF Way
  <2> QED BY <1>2, <2>2, <2>3
<1>4. Passed(e)[0] = {e}
  <2>1. ASSUME NEW x \in Passed(e)[0] PROVE x = e
    BY <1>1, <2>1
  <2>2. e \in Passed(e)[0]
    <3> DEFINE s == [i \in 0 .. 0 |-> e]
    <3>1. s \in [0 .. 0 -> used] /\ Way(0, s) /\ s[0] = e
      OBVIOUS
    <3>2. 0 \in 0 .. 0 /\ 0 \in Nat /\ e \in used
      OBVIOUS
    <3> HIDE DEF s, Way
    <3> QED BY <1>1, <3>1, <3>2, Zenon
  <2> QED BY <2>1, <2>2
<1>5. ASSUME NEW n \in Nat \ {0}, NEW x \in Passed(e)[n]
      PROVE  x \in Passed(e)[n - 1] \/ \E f \in Passed(e)[n - 1] : x = siblings[f]
  <2>1. PICK m \in 0 .. n : \E s \in [0 .. m -> used] : Way(m, s) /\ s[m] = x
    BY <1>1, <1>5
  <2>2. PICK s \in [0 .. m -> used] : Way(m, s) /\ s[m] = x
    BY <2>1
  <2>3. CASE m < n
    <3>1. m \in 0 .. n - 1 /\ n - 1 \in Nat /\ x \in used
      BY <2>2, <2>3, <1>1, <1>5
    <3> HIDE DEF Way
    <3> QED BY <1>1, <2>2, <3>1
  <2>4. CASE m = n
    <3> DEFINE r == [i \in 0 .. n - 1 |-> s[i]]
    <3>1. n - 1 \in Nat /\ n - 1 \in 0 .. n - 1 /\ n - 1 \in 0 .. m /\ n - 1 \in 0 .. m - 1
      BY <2>4
    <3>2. r \in [0 .. n - 1 -> used]
      BY <2>4
    <3>3. Way(n - 1, r)
      BY <2>2, <2>4
    <3>4. r[n - 1] = s[n - 1] /\ s[n - 1] \in used
      BY <3>1
    <3>5. s[(n - 1) + 1] = siblings[s[n - 1]]
      BY <2>2, <3>1
    <3>6. x = siblings[s[n - 1]]
      BY <2>2, <2>4, <3>5
    <3>7. s[n - 1] \in Passed(e)[n - 1]
      <4> HIDE DEF r, Way
      <4> QED BY <1>1, <3>1, <3>2, <3>3, <3>4
    <3> QED BY <3>6, <3>7
  <2> QED BY <2>3, <2>4
<1>6. ASSUME NEW n \in Nat \ {0}, NEW x \in Passed(e)[n - 1]
      PROVE  x \in Passed(e)[n] /\ siblings[x] \in Passed(e)[n]
  <2>0. n - 1 \in Nat
    OBVIOUS
  <2>1. PICK m \in 0 .. n - 1 : \E s \in [0 .. m -> used] : Way(m, s) /\ s[m] = x
    <3> HIDE DEF Way
    <3> QED BY <1>1, <1>6, <2>0
  <2>2. PICK s \in [0 .. m -> used] : Way(m, s) /\ s[m] = x
    BY <2>1
  <2>3. x \in K /\ siblings[x] \in K /\ x \in used /\ siblings[x] \in used
    BY <1>3, <1>6, <2>0
  <2>4. x \in Passed(e)[n]
    <3>1. m \in 0 .. n
      OBVIOUS
    <3> HIDE DEF Way
    <3> QED BY <1>1, <2>2, <2>3, <3>1
  <2>5. siblings[x] \in Passed(e)[n]
    <3> DEFINE r == [i \in 0 .. m + 1 |-> IF i <= m THEN s[i] ELSE siblings[x]]
    <3>1. r \in [0 .. m + 1 -> used]
      BY <2>3
    <3>2. r[m + 1] = siblings[x] /\ m + 1 \in 0 .. n
      OBVIOUS
    <3>3. Way(m + 1, r)
      <4>1. r[0] = e
        BY <2>2
      <4>2. ASSUME NEW i \in 0 .. (m + 1) - 1 PROVE r[i + 1] = siblings[r[i]]
        <5>1. r[i] = s[i]
          OBVIOUS
        <5>2. CASE i = m
          BY <5>1, <5>2, <2>2, <3>2
        <5>3. CASE i # m
          <6>1. i \in 0 .. m - 1 /\ i + 1 \in 0 .. m + 1 /\ i + 1 <= m
            BY <5>3
          <6>2. r[i + 1] = s[i + 1]
            BY <6>1
          <6> QED BY <5>1, <6>1, <6>2, <2>2
        <5> QED BY <5>2, <5>3
      <4> QED BY <4>1, <4>2
    <3> HIDE DEF r, Way
    <3> QED BY <1>1, <2>3, <3>1, <3>2, <3>3
  <2> QED BY <2>4, <2>5
<1>7. ASSUME NEW n \in Nat \ {0}
      PROVE  Passed(e)[n] = Passed(e)[n - 1] \cup {siblings[f] : f \in Passed(e)[n - 1]}
  <2> DEFINE A == Passed(e)[n]
             B == Passed(e)[n - 1]
  <2>1. \A x \in A : x \in B \/ \E f \in B : x = siblings[f]
    BY <1>5
  <2>2. \A x \in B : x \in A /\ siblings[x] \in A
    BY <1>6
  <2> HIDE DEF A, B
  <2>3. A = B \cup {siblings[f] : f \in B}
    BY <2>1, <2>2
  <2> QED BY <2>3 DEF A, B
<1> QED BY <1>3, <1>4, <1>7

\* The recursive definition of Ring defines a function.
LEMMA RingIs ==
    ASSUME NEW K \in SUBSET used, \A x \in K : siblings[x] \in K, NEW e \in K
    PROVE  \E g : /\ Ring(e) = g[Cardinality(used)]
                  /\ g[0] = {e}
                  /\ \A n \in Nat \ {0} :
                        g[n] = g[n - 1] \cup {siblings[f] : f \in g[n - 1]}
<1> DEFINE Turn(g) == [n \in Nat |-> IF n = 0 THEN {e}
                                     ELSE g[n - 1] \cup {siblings[f] : f \in g[n - 1]}]
           Upto == CHOOSE g : g = Turn(g)
<1>1. Passed(e) = Turn(Passed(e))
  <2> DEFINE p == Passed(e)
  <2>1. p = [n \in Nat |-> p[n]]
    BY DEF Passed
  <2>2. \A n \in Nat : p[n] = Turn(p)[n]
    BY PassedStep
  <2> HIDE DEF p
  <2> QED BY <2>1, <2>2 DEF p
<1>2. Upto = Turn(Upto)
  <2> HIDE DEF Turn
  <2> QED BY <1>1, Zenon
<1>3. Ring(e) = Upto[Cardinality(used)]
  BY Zenon DEF Ring
<1> HIDE DEF Upto
<1>4. \A n \in Nat : Upto[n] = IF n = 0 THEN {e}
                               ELSE Upto[n - 1] \cup {siblings[f] : f \in Upto[n - 1]}
  BY <1>2
<1> QED BY <1>3, <1>4
\* From any of its elements, all of a ring are reached in as many steps as
\* there are entries: each step passes another one, until all are passed.
LEMMA RingReached ==
    ASSUME NEW K \in SUBSET used, IsFiniteSet(used), OneRing(K, siblings), NEW e \in K
    PROVE  Ring(e) = K
<1>1. \A x \in K : siblings[x] \in K
  BY DEF OneRing
<1>2. PICK g : /\ Ring(e) = g[Cardinality(used)]
               /\ g[0] = {e}
               /\ \A n \in Nat \ {0} : g[n] = g[n - 1] \cup {siblings[f] : f \in g[n - 1]}
  BY <1>1, RingIs
<1> DEFINE N == Cardinality(used)
           Closed(S) == \A x \in S : siblings[x] \in S
           M == {n \in 0 .. N : /\ g[n] \subseteq K /\ e \in g[n]
                                /\ Closed(g[n]) \/ Cardinality(g[n]) >= n + 1}
<1>3. N \in Nat
  BY FS_CardinalityType
<1> HIDE DEF N
<1>4. 0 \in M
  <2>1. Cardinality({e}) = 1
    BY FS_Singleton
  <2> QED BY <1>2, <1>3, <2>1
<1>5. ASSUME NEW n \in 0 .. N - 1, n \in M PROVE n + 1 \in M
  <2>1. g[n + 1] = g[n] \cup {siblings[f] : f \in g[n]}
    <3>1. n + 1 \in Nat \ {0} /\ (n + 1) - 1 = n
      BY <1>3
    <3> QED BY <1>2, <3>1
  <2>2. g[n] \subseteq K /\ e \in g[n] /\ (Closed(g[n]) \/ Cardinality(g[n]) >= n + 1)
    BY <1>5
  <2>3. g[n + 1] \subseteq K /\ e \in g[n + 1] /\ g[n] \subseteq g[n + 1]
    BY <1>1, <2>1, <2>2
  <2>4. n + 1 \in 0 .. N
    BY <1>3
  <2>5. CASE Closed(g[n])
    <3>1. g[n + 1] = g[n]
      BY <2>1, <2>5
    <3> QED BY <2>3, <2>4, <2>5, <3>1
  <2>6. CASE ~Closed(g[n])
    <3>1. g[n + 1] # g[n]
      BY <2>1, <2>6
    <3>2. IsFiniteSet(g[n + 1])
      BY <2>3, FS_Subset
    <3>3. /\ Cardinality(g[n]) <= Cardinality(g[n + 1])
          /\ Cardinality(g[n]) # Cardinality(g[n + 1])
          /\ Cardinality(g[n]) \in Nat /\ Cardinality(g[n + 1]) \in Nat
      <4>1. g[n] \in SUBSET g[n + 1]
        BY <2>3
      <4> QED BY <3>1, <3>2, <4>1, FS_Subset, FS_CardinalityType
    <3>4. Cardinality(g[n + 1]) >= (n + 1) + 1
      BY <2>2, <2>6, <3>3
    <3> QED BY <2>3, <2>4, <3>4
  <2> QED BY <2>5, <2>6
<1>6. N \in M
  <2> HIDE DEF M
  <2>1. 0 .. N \subseteq M
    BY <1>3, <1>4, <1>5, Induction, Zenon
  <2> QED BY <1>3, <2>1
<1>7. Closed(g[N])
  <2>1. g[N] \in SUBSET used
    BY <1>6
  <2>2. Cardinality(g[N]) <= N /\ Cardinality(g[N]) \in Nat
    BY <2>1, FS_Subset, FS_CardinalityType DEF N
  <2> QED BY <1>3, <1>6, <2>2
<1>8. g[N] = K
  BY <1>6, <1>7 DEF OneRing
<1> QED BY <1>2, <1>8 DEF N

\* An entry that is put behind another one is in the ring: the assignments of
\* dcache_insert.
LEMMA RingSpliced ==
    ASSUME NEW K, NEW s, NEW r, OneRing(K, s), NEW h \in K, NEW e, e \notin K,
           r[e] = s[h], r[h] = e, \A x \in K : x # h => r[x] = s[x]
    PROVE  OneRing(K \cup {e}, r)
<1>1. \A x \in K \cup {e} : r[x] \in K \cup {e}
  BY DEF OneRing
<1>2. ASSUME NEW S \in SUBSET (K \cup {e}), S # {}, \A x \in S : r[x] \in S
      PROVE  S = K \cup {e}
  <2> DEFINE T == S \ {e}
  <2>1. T \in SUBSET K
    OBVIOUS
  <2>2. \A x \in T : s[x] \in T
    BY <1>2 DEF OneRing
  <2>3. T # {}
    BY <1>2 DEF OneRing
  <2>4. T = K
    BY <2>1, <2>2, <2>3 DEF OneRing
  <2> QED BY <1>2, <2>4
<1>3. \A x, y \in K \cup {e} : r[x] = r[y] => x = y
  BY DEF OneRing
<1> QED BY <1>1, <1>2, <1>3 DEF OneRing
-----------------------------------------------------------------------------
(* Steps of the only thread.                                               *)

\* A step that touches neither the rings nor what is inserted keeps them.
LEMMA RingsSame ==
    ASSUME NEW t, RingsInv(t), UNCHANGED <<used, parent, siblings, name, childs>>,
           pc[t] \notin Unspliced \cup {"publish"}, pc'[t] \notin Unspliced
    PROVE  RingsInv(t)'
<1>1. ASSUME NEW d PROVE Kids(d)' = Kids(d) /\ InRing(t, d)' = InRing(t, d)
  BY DEF Kids, InRing
<1> QED BY <1>1 DEF RingsInv

\* The types of what a thread has.
LEMMA ThreadTypes ==
    ASSUME TypeOK, NEW t \in Thread
    PROVE  /\ t \in DOMAIN pc /\ t \in DOMAIN head /\ t \in DOMAIN iter /\ t \in DOMAIN new
           /\ t \in DOMAIN dc /\ t \in DOMAIN at /\ t \in DOMAIN path
           /\ dc[t] \in Node /\ at[t] \in Nat /\ at[t] <= Len(path[t])
BY DEF TypeOK

\* A lookup begins, goes through a ring, and ends.
LEMMA RingLookup ==
    ASSUME NEW t \in Thread, TypeOK, ThreadInv(t), RingsInv(t), KnowsRing(t),
           \/ LookupStops(t) \/ LookupStarts(t) \/ ScanNext(t)
           \/ ScanContinues(t) \/ ScanEnds(t)
    PROVE  RingsInv(t)' /\ KnowsRing(t)'
<1> USE DEF Unspliced, Scanning
<1>0. /\ UNCHANGED <<used, parent, siblings, name, childs, path, at, dc>>
      /\ pc[t] \in {"lookup", "scan", "compare"}
      /\ pc'[t] \in {"scan", "compare", "walk"}
  BY ThreadTypes DEF LookupStops, LookupStarts, ScanNext, ScanContinues, ScanEnds, heap
<1>1. RingsInv(t)'
  BY <1>0, RingsSame
<1>2. Kids(dc[t])' = Kids(dc[t]) /\ Component(t)' = Component(t) /\ (NotCached(t) => NotCached(t)')
  BY <1>0 DEF Kids, Component, NotCached
<1>3. CASE LookupStops(t)
  <2>1. pc[t] = "lookup" /\ pc'[t] = "walk"
    BY <1>3, ThreadTypes DEF LookupStops
  <2>2. at[t] < Len(path[t]) => childs[dc[t]] = NULL
    BY <1>3, ThreadTypes DEF LookupStops
  <2>3. at[t] < Len(path[t]) => Kids(dc[t]) = {}
    BY <2>1, <2>2, ThreadTypes DEF RingsInv, InRing
  <2>4. at[t] < Len(path[t]) => NotCached(t)
    BY <2>3 DEF NotCached
  <2> QED BY <1>0, <1>1, <1>2, <2>1, <2>4 DEF KnowsRing
<1>4. CASE LookupStarts(t)
  <2>1. pc'[t] = "scan" /\ head'[t] = childs[dc[t]] /\ iter'[t] = head'[t]
    BY <1>4, ThreadTypes DEF LookupStarts
  <2>2. \E S \in SUBSET Kids(dc[t])' :
             /\ \A e \in S : name'[e] # Component(t)' /\ siblings'[e] \in S \cup {iter'[t]}
             /\ head'[t] \in S \/ (pc'[t] = "scan" /\ iter'[t] = head'[t])
    <3>1. {} \in SUBSET Kids(dc[t])'
      OBVIOUS
    <3> QED BY <2>1, <3>1
  <2> QED BY <1>0, <1>1, <2>1, <2>2 DEF KnowsRing
<1>5. CASE ScanNext(t)
  <2>1. /\ pc[t] = "scan" /\ pc'[t] = "compare" /\ iter'[t] = siblings[iter[t]]
        /\ head'[t] = head[t] /\ name[iter[t]] # Component(t)
    BY <1>5, ThreadTypes DEF ScanNext
  <2>2. PICK S \in SUBSET Kids(dc[t]) :
             /\ \A e \in S : name[e] # Component(t) /\ siblings[e] \in S \cup {iter[t]}
             /\ head[t] \in S \/ (pc[t] = "scan" /\ iter[t] = head[t])
    BY <2>1 DEF KnowsRing
  <2>3. iter[t] \in Kids(dc[t])
    BY <2>1 DEF ThreadInv, Reachable, Kids
  <2> DEFINE T == S \cup {iter[t]}
  <2>4. T \in SUBSET Kids(dc[t])'
    BY <1>2, <2>3
  <2>5. /\ \A e \in T : name'[e] # Component(t)' /\ siblings'[e] \in T \cup {iter'[t]}
        /\ head'[t] \in T
    BY <1>0, <1>2, <2>1, <2>2
  <2>6. head'[t] = childs'[dc'[t]]
    BY <1>0, <2>1 DEF KnowsRing
  <2> HIDE DEF T
  <2> QED BY <1>0, <1>1, <2>1, <2>4, <2>5, <2>6 DEF KnowsRing
<1>6. CASE ScanContinues(t)
  <2>1. /\ pc[t] = "compare" /\ pc'[t] = "scan" /\ iter'[t] = iter[t]
        /\ head'[t] \in Childs(t)
    BY <1>6, ThreadTypes DEF ScanContinues
  <2>2. head[t] = childs[dc[t]] /\ head'[t] = head[t]
    BY <2>1 DEF KnowsRing, Childs
  <2>3. PICK S \in SUBSET Kids(dc[t]) :
             /\ \A e \in S : name[e] # Component(t) /\ siblings[e] \in S \cup {iter[t]}
             /\ head[t] \in S \/ (pc[t] = "scan" /\ iter[t] = head[t])
    BY <2>1 DEF KnowsRing
  <2>4. /\ S \in SUBSET Kids(dc[t])'
        /\ \A e \in S : name'[e] # Component(t)' /\ siblings'[e] \in S \cup {iter'[t]}
        /\ head'[t] \in S
    BY <1>0, <1>2, <2>1, <2>2, <2>3
  <2> QED BY <1>0, <1>1, <2>1, <2>2, <2>4 DEF KnowsRing
<1>7. CASE ScanEnds(t)
  <2>1. pc[t] = "compare" /\ pc'[t] = "walk" /\ iter[t] \in Childs(t)
    BY <1>7, ThreadTypes DEF ScanEnds, ScanIsRound
  <2>2. head[t] = childs[dc[t]] /\ iter[t] = head[t]
    BY <2>1 DEF KnowsRing, Childs
  <2>3. PICK S \in SUBSET Kids(dc[t]) :
             /\ \A e \in S : name[e] # Component(t) /\ siblings[e] \in S \cup {iter[t]}
             /\ head[t] \in S \/ (pc[t] = "scan" /\ iter[t] = head[t])
    BY <2>1 DEF KnowsRing
  <2>4. \A e \in S : siblings[e] \in S
    BY <2>1, <2>2, <2>3
  <2>5. OneRing(Kids(dc[t]), siblings)
    BY <2>1, ThreadTypes DEF RingsInv, InRing
  <2>6. S = Kids(dc[t])
    BY <2>1, <2>3, <2>4, <2>5 DEF OneRing
  <2>7. NotCached(t)
    BY <2>3, <2>6 DEF NotCached
  <2> QED BY <1>0, <1>1, <1>2, <2>1, <2>7 DEF KnowsRing
<1> QED BY <1>3, <1>4, <1>5, <1>6, <1>7
\* A lookup starts, finds a name in the cache or in a directory, or returns.
LEMMA RingWalk ==
    ASSUME LongNamesLast, NEW t \in Thread, TypeOK, ThreadInv(t), RingsInv(t), KnowsRing(t),
           \/ \E p \in Paths : inode_get_idx_by_path(t, p)
           \/ ScanHit(t) \/ WalkEnds(t) \/ WalkFinds(t) \/ InsertTooLong(t) \/ Return(t)
    PROVE  RingsInv(t)' /\ KnowsRing(t)'
<1> USE DEF Unspliced, Scanning
<1>1. CASE ScanHit(t)
  <2>1. /\ pc[t] = "scan" /\ pc'[t] = "lookup"
        /\ UNCHANGED <<used, parent, siblings, name>>
        /\ childs' = [childs EXCEPT ![dc[t]] = iter[t]]
    BY <1>1, ThreadTypes DEF ScanHit
  <2>2. iter[t] \in Kids(dc[t]) /\ iter[t] # NULL
    BY <2>1, HeapAssumption DEF ThreadInv, Reachable, Kids, TypeOK
  <2>3. ASSUME NEW d PROVE Kids(d)' = Kids(d) /\ InRing(t, d)' = Kids(d) /\ InRing(t, d) = Kids(d)
    BY <2>1 DEF Kids, InRing
  <2>4. RingsInv(t)'
    <3> SUFFICES ASSUME NEW d \in Node
                 PROVE  /\ OneRing(InRing(t, d)', siblings')
                        /\ childs'[d] # NULL => childs'[d] \in InRing(t, d)'
                        /\ childs'[d] = NULL => InRing(t, d)' = {}
                        /\ \A e, f \in Kids(d)' : name'[e] = name'[f] => e = f
      BY DEF RingsInv
    <3>1. childs'[d] = IF d = dc[t] THEN iter[t] ELSE childs[d]
      BY <2>1 DEF TypeOK
    <3> QED BY <2>1, <2>2, <2>3, <3>1 DEF RingsInv
  <2> QED BY <2>1, <2>4 DEF KnowsRing
<1>2. CASE (\E p \in Paths : inode_get_idx_by_path(t, p)) \/ WalkEnds(t) \/ Return(t)
  <2>1. /\ UNCHANGED <<used, parent, siblings, name, childs>>
        /\ pc[t] \in {"idle", "walk", "done"} /\ pc'[t] \in {"lookup", "done", "idle"}
    BY <1>2, ThreadTypes DEF inode_get_idx_by_path, WalkEnds, Return, heap
  <2> QED BY <2>1, RingsSame DEF KnowsRing
<1>3. CASE WalkFinds(t)
  <2>1. /\ UNCHANGED <<used, parent, siblings, name, childs, path, at, dc>>
        /\ pc[t] = "walk" /\ at[t] < Len(path[t]) /\ pc'[t] = "insert"
    BY <1>3, ThreadTypes DEF WalkFinds, heap
  <2>2. NotCached(t)'
    BY <2>1 DEF KnowsRing, NotCached, Kids, Component
  <2> QED BY <2>1, <2>2, RingsSame DEF KnowsRing
<1>4. CASE InsertTooLong(t)
  <2>1. /\ UNCHANGED <<used, parent, siblings, name, childs, path>>
        /\ pc[t] = "insert" /\ pc'[t] = "walk" /\ at'[t] = at[t] + 1
        /\ Component(t) \in LongName
    BY <1>4, ThreadTypes DEF InsertTooLong, heap
  <2>2. path[t] \in Paths /\ at[t] < Len(path[t]) /\ at[t] \in Nat
    BY <2>1, ThreadTypes DEF ThreadInv, Inserting
  <2>3. Len(path[t]) \in Nat
    BY <2>2, TreeAssumption
  <2>4. ~ (at[t] + 1 \in 1 .. Len(path[t]) - 1)
    BY <2>1, <2>2 DEF LongNamesLast, Component
  <2>5. ~ (at'[t] < Len(path'[t]))
    BY <2>1, <2>2, <2>3, <2>4
  <2> QED BY <2>1, <2>5, RingsSame DEF KnowsRing
<1> QED BY <1>1, <1>2, <1>3, <1>4

\* A new entry is made, which is not in a ring yet or in one of its own.
LEMMA RingAlloc ==
    ASSUME NEW t \in Thread, TypeOK, HeapInv, ThreadInv(t), RingsInv(t), KnowsRing(t),
           IsFiniteSet(used), InsertAlloc(t)
    PROVE  IsFiniteSet(used') /\ RingsInv(t)' /\ KnowsRing(t)'
<1> USE DEF Unspliced, Scanning
<1>1. PICK e \in Entry \ used :
          /\ used' = used \cup {e}
          /\ name' = [name EXCEPT ![e] = Component(t)]
          /\ parent' = [parent EXCEPT ![e] = dc[t]]
          /\ new' = [new EXCEPT ![t] = e]
          /\ siblings' = IF childs[dc[t]] = NULL
                         THEN [siblings EXCEPT ![e] = e] ELSE siblings
  BY DEF InsertAlloc
<1>2. /\ pc[t] = "insert" /\ UNCHANGED <<childs, path, at, dc>>
      /\ head'[t] = childs[dc[t]] /\ new'[t] = e
      /\ pc'[t] = IF childs[dc[t]] = NULL THEN "publish" ELSE "alloced"
  BY <1>1, ThreadTypes DEF InsertAlloc, ThenLink
<1>3. dc[t] \in Node /\ dc[t] # e /\ e \in Node /\ e # NULL
  BY <1>1, HeapAssumption, ThreadTypes DEF ThreadInv, Node
<1>4. /\ \A x \in used : name'[x] = name[x] /\ parent'[x] = parent[x] /\ siblings'[x] = siblings[x]
      /\ name'[e] = Component(t) /\ parent'[e] = dc[t]
      /\ childs[dc[t]] = NULL => siblings'[e] = e
  BY <1>1 DEF TypeOK
<1>5. ASSUME NEW d \in Node
      PROVE  /\ Kids(d)' = Kids(d) \cup (IF d = dc[t] THEN {e} ELSE {})
             /\ InRing(t, d) = Kids(d) /\ e \notin Kids(d)
             /\ \A x \in Kids(d) : x \in used
  BY <1>1, <1>2, <1>4 DEF Kids, InRing
<1>6. ASSUME NEW d \in Node
      PROVE  InRing(t, d)' = IF d = dc[t] /\ childs[d] = NULL THEN {e} ELSE Kids(d)
  <2>1. childs[d] = NULL => Kids(d) = {}
    BY <1>2, <1>5 DEF RingsInv
  <2> QED BY <1>2, <1>5, <2>1 DEF InRing
<1>7. Kids(e)' = {}
  <2>1. Kids(e) = {}
    BY <1>1, HeapAssumption DEF HeapInv, Kids
  <2> QED BY <1>3, <1>5, <2>1
<1>8. RingsInv(t)'
  <2> SUFFICES ASSUME NEW d \in Node
               PROVE  /\ OneRing(InRing(t, d)', siblings')
                      /\ childs'[d] # NULL => childs'[d] \in InRing(t, d)'
                      /\ childs'[d] = NULL => \/ InRing(t, d)' = {}
                                              \/ pc'[t] = "publish" /\ d = dc'[t]
                      /\ \A x, y \in Kids(d)' : name'[x] = name'[y] => x = y
    BY DEF RingsInv
  <2>1. OneRing(Kids(d), siblings')
    <3>1. OneRing(Kids(d), siblings)
      BY <1>5 DEF RingsInv
    <3>2. \A x \in Kids(d) : siblings'[x] = siblings[x]
      BY <1>4, <1>5
    <3> QED BY <3>1, <3>2 DEF OneRing
  <2>2. childs[dc[t]] = NULL => OneRing({e}, siblings')
    BY <1>4 DEF OneRing
  <2>3. \A x, y \in Kids(d)' : name'[x] = name'[y] => x = y
    <3>1. \A x, y \in Kids(d) : name[x] = name[y] => x = y
      BY DEF RingsInv
    <3>2. \A x \in Kids(dc[t]) : name[x] # Component(t)
      BY <1>2 DEF KnowsRing, NotCached
    <3> QED BY <1>4, <1>5, <3>1, <3>2
  <2>4. /\ childs'[d] # NULL => childs'[d] \in Kids(d)
        /\ childs'[d] = NULL => Kids(d) = {}
    BY <1>2, <1>5 DEF RingsInv
  <2> QED BY <1>2, <1>6, <2>1, <2>2, <2>3, <2>4
<1>9. KnowsRing(t)'
  BY <1>2, <1>7 DEF KnowsRing
<1>10. IsFiniteSet(used')
  BY <1>1, FS_AddElement
<1> QED BY <1>8, <1>9, <1>10

\* The assignments that put a new entry into the ring of its siblings.
LEMMA RingInsert ==
    ASSUME NEW t \in Thread, TypeOK, HeapInv, ThreadInv(t), RingsInv(t), KnowsRing(t),
           InsertReread(t) \/ InsertLink(t) \/ InsertSplice(t) \/ InsertPublish(t)
    PROVE  RingsInv(t)' /\ KnowsRing(t)'
<1> USE DEF Unspliced, Scanning
<1>1. UNCHANGED <<used, parent, name>> /\ (\A d : Kids(d)' = Kids(d))
  BY DEF InsertReread, InsertLink, InsertSplice, InsertPublish, heap, Kids
<1>2. /\ pc[t] \in Unspliced \cup {"publish"}
      /\ new[t] \in used /\ parent[new[t]] = dc[t] /\ new[t] \in Entry /\ dc[t] \in Node
  BY ThreadTypes DEF InsertReread, InsertLink, InsertSplice, InsertPublish, ThreadInv, Inserting,
                     TypeOK
<1>3. pc[t] \in Unspliced => head[t] = childs[dc[t]] /\ head[t] \in InRing(t, dc[t])
  <2>1. pc[t] \in Unspliced => head[t] = childs[dc[t]] /\ childs[dc[t]] # NULL
    BY DEF KnowsRing, ThreadInv, Inserting
  <2> QED BY <1>2, <2>1 DEF RingsInv
<1>4. CASE InsertReread(t)
  <2>1. /\ \/ pc[t] = "alloced" /\ pc'[t] = "link"
           \/ pc[t] = "linked" /\ pc'[t] = "splice"
        /\ head'[t] \in Childs(t) /\ UNCHANGED <<siblings, childs, dc, new>>
    BY <1>4, ThreadTypes DEF InsertReread, heap
  <2>2. head'[t] = head[t]
    BY <1>3, <2>1 DEF Childs
  <2>3. \A d : InRing(t, d)' = InRing(t, d)
    BY <1>1, <2>1 DEF InRing
  <2>4. RingsInv(t)'
    BY <1>1, <2>1, <2>3 DEF RingsInv
  <2>5. KnowsRing(t)'
    BY <1>1, <1>3, <2>1, <2>2 DEF KnowsRing
  <2> QED BY <2>4, <2>5
<1>5. CASE InsertLink(t)
  <2>1. /\ pc[t] = "link" /\ pc'[t] = "linked" /\ UNCHANGED <<childs, dc, new, head>>
        /\ siblings' = [siblings EXCEPT ![new[t]] = siblings[head[t]]]
    BY <1>5, ThreadTypes DEF InsertLink, Linked
  <2>2. \A d : InRing(t, d)' = InRing(t, d) /\ new[t] \notin InRing(t, d)
    BY <1>1, <2>1 DEF InRing
  <2>3. \A x : x # new[t] => siblings'[x] = siblings[x]
    BY <2>1
  <2>4. siblings'[new[t]] = siblings[head[t]]
    BY <1>2, <2>1 DEF TypeOK
  <2>5. RingsInv(t)'
    <3>1. ASSUME NEW d \in Node PROVE OneRing(InRing(t, d)', siblings')
      <4>1. OneRing(InRing(t, d), siblings)
        BY DEF RingsInv
      <4>2. \A x \in InRing(t, d) : siblings'[x] = siblings[x]
        BY <2>2, <2>3
      <4> QED BY <2>2, <4>1, <4>2 DEF OneRing
    <3> QED BY <1>1, <2>1, <2>2, <3>1 DEF RingsInv
  <2>6. siblings'[head[t]] = siblings[head[t]]
    BY <1>3, <2>1, <2>2, <2>3
  <2>7. KnowsRing(t)'
    BY <1>1, <1>3, <2>1, <2>4, <2>6 DEF KnowsRing
  <2> QED BY <2>5, <2>7
<1>6. CASE InsertSplice(t)
  <2>1. /\ pc[t] = "splice" /\ pc'[t] = "publish" /\ UNCHANGED <<childs, dc, new>>
        /\ siblings' = [siblings EXCEPT ![head[t]] = new[t]]
    BY <1>6, ThreadTypes DEF InsertSplice, Spliced
  <2>2. head[t] \in InRing(t, dc[t]) /\ head[t] \in Entry /\ head[t] # new[t]
    BY <1>3, <2>1 DEF InRing, Kids, TypeOK
  <2>3. /\ siblings'[head[t]] = new[t] /\ siblings'[new[t]] = siblings[head[t]]
        /\ \A x : x # head[t] => siblings'[x] = siblings[x]
    BY <2>1, <2>2 DEF KnowsRing, TypeOK
  <2>4. ASSUME NEW d \in Node
        PROVE  /\ InRing(t, d)' = Kids(d)
               /\ d # dc[t] => InRing(t, d) = Kids(d) /\ head[t] \notin Kids(d)
               /\ d = dc[t] => Kids(d) = InRing(t, d) \cup {new[t]} /\ new[t] \notin InRing(t, d)
    BY <1>1, <1>2, <2>1, <2>2 DEF InRing, Kids
  <2>5. ASSUME NEW d \in Node PROVE OneRing(InRing(t, d)', siblings')
    <3>1. OneRing(InRing(t, d), siblings)
      BY DEF RingsInv
    <3>2. CASE d = dc[t]
      <4> DEFINE K == InRing(t, d)
                 h == head[t]
                 e == new[t]
      <4>1. /\ h \in K /\ e \notin K /\ siblings'[e] = siblings[h] /\ siblings'[h] = e
            /\ \A x \in K : x # h => siblings'[x] = siblings[x]
        BY <2>2, <2>3, <2>4, <3>2
      <4>2. InRing(t, d)' = K \cup {e}
        BY <2>4, <3>2
      <4> HIDE DEF K, h, e
      <4>3. OneRing(K, siblings)
        BY <3>1 DEF K
      <4>4. OneRing(K \cup {e}, siblings')
        BY <4>1, <4>3, RingSpliced
      <4> QED BY <4>2, <4>4
    <3>3. CASE d # dc[t]
      BY <2>3, <2>4, <3>1, <3>3 DEF OneRing
    <3> QED BY <3>2, <3>3
  <2>6. ASSUME NEW d \in Node
        PROVE  /\ childs[d] # NULL => childs[d] \in Kids(d)
               /\ childs[d] = NULL => Kids(d) = {} \/ d = dc[t]
    BY <2>1, <2>4 DEF RingsInv, InRing
  <2>7. RingsInv(t)'
    <3> SUFFICES ASSUME NEW d \in Node
                 PROVE  /\ OneRing(InRing(t, d)', siblings')
                        /\ childs'[d] # NULL => childs'[d] \in InRing(t, d)'
                        /\ childs'[d] = NULL => InRing(t, d)' = {} \/ d = dc'[t]
                        /\ \A e, f \in Kids(d)' : name'[e] = name'[f] => e = f
      BY <2>1 DEF RingsInv
    <3>1. \A e, f \in Kids(d) : name[e] = name[f] => e = f
      BY DEF RingsInv
    <3> QED BY <1>1, <2>1, <2>4, <2>5, <2>6, <3>1
  <2>8. KnowsRing(t)'
    BY <1>1, <2>1 DEF KnowsRing
  <2> QED BY <2>7, <2>8
<1>7. CASE InsertPublish(t)
  <2>1. /\ pc[t] = "publish" /\ pc'[t] = "walk" /\ UNCHANGED siblings
        /\ childs' = [childs EXCEPT ![dc[t]] = new[t]] /\ dc'[t] = new[t]
    BY <1>7, ThreadTypes DEF InsertPublish, BelowNew
  <2>2. ASSUME NEW d \in Node
        PROVE  /\ InRing(t, d)' = Kids(d) /\ InRing(t, d) = Kids(d)
               /\ childs'[d] = IF d = dc[t] THEN new[t] ELSE childs[d]
    BY <1>1, <2>1 DEF InRing, TypeOK
  <2>3. new[t] \in Kids(dc[t]) /\ new[t] # NULL
    BY <1>2, HeapAssumption DEF Kids
  <2>4. RingsInv(t)'
    <3> SUFFICES ASSUME NEW d \in Node
                 PROVE  /\ OneRing(InRing(t, d)', siblings')
                        /\ childs'[d] # NULL => childs'[d] \in InRing(t, d)'
                        /\ childs'[d] = NULL => InRing(t, d)' = {}
                        /\ \A e, f \in Kids(d)' : name'[e] = name'[f] => e = f
      BY DEF RingsInv
    <3> QED BY <1>1, <2>1, <2>2, <2>3 DEF RingsInv
  <2>5. Kids(dc[t])' = {}
    <3>1. Kids(new[t]) = {}
      BY <2>1 DEF KnowsRing
    <3> QED BY <1>1, <2>1, <3>1 DEF Kids
  <2>6. NotCached(t)'
    BY <2>5 DEF NotCached
  <2>7. KnowsRing(t)'
    BY <2>1, <2>6 DEF KnowsRing
  <2> QED BY <2>4, <2>7
<1> QED BY <1>4, <1>5, <1>6, <1>7
\* With one thread the rings are proper after every step.
LEMMA RingsNext ==
    ASSUME LongNamesLast, SingleThread, IInv, RInv, [Next]_vars
    PROVE  RInv'
<1>1. PICK t : Thread = {t}
  BY DEF SingleThread
<1>2. t \in Thread /\ TypeOK /\ HeapInv /\ ThreadInv(t) /\ RingsInv(t) /\ KnowsRing(t)
  BY <1>1 DEF IInv, RInv
<1>3. SUFFICES IsFiniteSet(used') /\ RingsInv(t)' /\ KnowsRing(t)'
  BY <1>1 DEF RInv
<1>4. CASE InsertAlloc(t)
  BY <1>2, <1>4, RingAlloc DEF RInv
<1>5. CASE Step(t) /\ ~InsertAlloc(t)
  <2>1. UNCHANGED used
    BY <1>5 DEF Step, LookupStops, LookupStarts, ScanHit, ScanNext, ScanContinues, ScanEnds,
                WalkEnds, WalkFinds, InsertTooLong, InsertReread, InsertLink, InsertSplice,
                InsertPublish, Return, heap
  <2>2. RingsInv(t)' /\ KnowsRing(t)'
    BY <1>2, <1>5, RingLookup, RingWalk, RingInsert DEF Step
  <2> QED BY <2>1, <2>2 DEF RInv
<1>6. CASE \E p \in Paths : inode_get_idx_by_path(t, p)
  <2>1. UNCHANGED used
    BY <1>6 DEF inode_get_idx_by_path, heap
  <2>2. RingsInv(t)' /\ KnowsRing(t)'
    BY <1>2, <1>6, RingWalk
  <2> QED BY <2>1, <2>2 DEF RInv
<1>7. CASE UNCHANGED vars
  <2>1. \A d : Kids(d)' = Kids(d) /\ InRing(t, d)' = InRing(t, d)
    BY <1>7 DEF vars, Kids, InRing
  <2>2. RingsInv(t)'
    BY <1>2, <1>7, <2>1 DEF vars, RingsInv
  <2>3. KnowsRing(t)'
    BY <1>2, <1>7 DEF vars, KnowsRing, NotCached, Component, Kids
  <2> QED BY <1>7, <2>2, <2>3 DEF vars, RInv
<1> QED BY <1>1, <1>4, <1>5, <1>6, <1>7 DEF Next

\* At first there are no children.
LEMMA RingsInit == Init => RInv
<1> SUFFICES ASSUME Init PROVE RInv
  OBVIOUS
<1>1. IsFiniteSet(used)
  BY FS_EmptySet DEF Init
<1>2. ASSUME NEW t \in Thread PROVE RingsInv(t) /\ KnowsRing(t)
  <2>1. \A d : Kids(d) = {} /\ InRing(t, d) = {}
    BY DEF Init, Kids, InRing
  <2>2. RingsInv(t)
    BY <2>1 DEF Init, RingsInv, OneRing
  <2>3. KnowsRing(t)
    BY DEF Init, KnowsRing, Scanning, Unspliced
  <2> QED BY <2>2, <2>3
<1> QED BY <1>1, <1>2 DEF RInv

\* As long as one thread at a time looks paths up, the children of every node
\* form one ring between lookups, without a name twice: the insertions of
\* dcache_insert keep it closed, and dcache_lookup misses no name, or it would
\* be inserted again.
THEOREM RingsStayClosed ==
    ASSUME LongNamesLast, SingleThread
    PROVE  Spec => []RingsClosed
<1>1. Init => IInv /\ RInv
  BY InitIInv, RingsInit
<1>2. (IInv /\ RInv) /\ [Next]_vars => (IInv /\ RInv)'
  BY NextIInv, RingsNext
<1>3. IInv /\ RInv => RingsClosed
  <2> SUFFICES ASSUME IInv, RInv, \A t \in Thread : pc[t] = "idle", NEW d \in Node
               PROVE  /\ childs[d] # NULL => Ring(childs[d]) = Kids(d)
                      /\ childs[d] = NULL => Kids(d) = {}
                      /\ \A e, f \in Kids(d) :
                            siblings[e] = siblings[f] \/ name[e] = name[f] => e = f
    BY DEF RingsClosed, Kids
  <2>1. PICK t : Thread = {t}
    BY DEF SingleThread
  <2>2. RingsInv(t) /\ InRing(t, d) = Kids(d) /\ pc[t] # "publish"
    BY <2>1 DEF RInv, InRing, Unspliced
  <2>3. OneRing(Kids(d), siblings)
    BY <2>2 DEF RingsInv
  <2>4. childs[d] # NULL => Ring(childs[d]) = Kids(d)
    <3> SUFFICES ASSUME childs[d] # NULL PROVE Ring(childs[d]) = Kids(d)
      OBVIOUS
    <3>1. childs[d] \in Kids(d) /\ Kids(d) \in SUBSET used /\ IsFiniteSet(used)
      BY <2>2 DEF RingsInv, Kids, RInv
    <3> QED BY <2>3, <3>1, RingReached
  <2> QED BY <2>2, <2>3, <2>4 DEF RingsInv, OneRing
<1> QED BY <1>1, <1>2, <1>3, PTL DEF Spec
=============================================================================
