--------------------------- MODULE XzReaderProofs ---------------------------
(***************************************************************************)
(* Proofs about the xz reader, for every file, every cache size and every  *)
(* length of read.                                                         *)
(***************************************************************************)
EXTENDS XzReader, TLAPS

\* Promoting an entry permutes the places.
LEMMA PromotedPlaced ==
    ASSUME NEW n \in Nat, NEW p, Placed(p, n), NEW e \in Entry, p[e] > 0
    PROVE  Placed(Promoted(p, e), n)
<1> DEFINE q == Promoted(p, e)
<1>0. p \in [Entry -> 0 .. n]
  BY DEF Placed
<1>1. q \in [Entry -> 0 .. n]
  BY <1>0 DEF Promoted
<1>2. ASSUME NEW k \in 1 .. n PROVE \E x \in Entry : q[x] = k
  <2>1. CASE k = 1
    BY <2>1, <1>0 DEF Promoted
  <2>2. CASE k > 1 /\ k <= p[e]
    <3>1. PICK x \in Entry : p[x] = k - 1
      BY <2>2, <1>0 DEF Placed
    <3> QED BY <3>1, <2>2, <1>0 DEF Promoted
  <2>3. CASE k > p[e]
    <3>1. PICK x \in Entry : p[x] = k
      BY <2>3, <1>0 DEF Placed
    <3> QED BY <3>1, <2>3, <1>0 DEF Promoted
  <2> QED BY <2>1, <2>2, <2>3, <1>0
<1>3. ASSUME NEW x \in Entry, NEW y \in Entry, q[x] = q[y], q[x] > 0
      PROVE  x = y
  <2>1. \A a, b \in Entry : p[a] = p[b] /\ p[a] > 0 => a = b
    BY DEF Placed
  <2> QED BY <1>3, <2>1, <1>0 DEF Promoted
<1> HIDE DEF q
<1> QED BY <1>1, <1>2, <1>3 DEF Placed, q

\* move_to_cache_head keeps a proper list proper.
LEMMA MoveToHeadLinked ==
    ASSUME NEW n \in Nat, NEW p, NEW l \in ListType,
           Placed(p, n), Linked(l, p, n), NEW e \in Entry, p[e] > 0
    PROVE  /\ move_to_cache_head(l, e) \in ListType
           /\ Linked(move_to_cache_head(l, e), Promoted(p, e), n)
<1>0. /\ p \in [Entry -> 0 .. n]
      /\ \A k \in 1 .. n : \E x \in Entry : p[x] = k
      /\ \A x, y \in Entry : p[x] = p[y] /\ p[x] > 0 => x = y
  BY DEF Placed
<1>1. /\ \A x \in Entry : p[x] > 0 =>
            /\ l.first = x <=> p[x] = 1
            /\ l.last = x <=> p[x] = n
            /\ p[x] = 1 => l.prev[x] = NULL
            /\ p[x] = n => l.next[x] = NULL
      /\ \A x, y \in Entry : p[x] > 0 /\ p[y] = p[x] + 1 =>
            l.next[x] = y /\ l.prev[y] = x
  BY DEF Linked
<1>2. PICK f \in Entry : p[f] = 1
  BY <1>0
<1>3. l.first = f
  BY <1>1, <1>2
<1>4. PICK z \in Entry : p[z] = n
  BY <1>0
<1>5. l.last = z
  BY <1>1, <1>4, <1>0
<1>a. NULL \notin Entry
  BY HeapAssumption
<1>6. CASE e = f
  <2>1. move_to_cache_head(l, e) = l
    BY <1>6, <1>3 DEF move_to_cache_head
  <2>2. Promoted(p, e) = p
    BY <1>6, <1>2, <1>0 DEF Promoted
  <2> QED BY <2>1, <2>2
<1>7. CASE e # f
  <2> DEFINE nx == l.next[e]
             pv == l.prev[e]
             m == move_to_cache_head(l, e)
             q == Promoted(p, e)
  <2>1. p[e] > 1
    BY <1>7, <1>2, <1>0
  <2>2. pv \in Entry /\ p[pv] = p[e] - 1
    <3>1. PICK x \in Entry : p[x] = p[e] - 1
      BY <2>1, <1>0
    <3> QED BY <3>1, <1>1, <2>1, <1>0
  <2>3. /\ nx = NULL => p[e] = n
        /\ nx # NULL => nx \in Entry /\ p[nx] = p[e] + 1
    <3>1. CASE p[e] = n
      BY <3>1, <1>1
    <3>2. CASE p[e] # n
      <4>1. PICK x \in Entry : p[x] = p[e] + 1
        BY <3>2, <1>0
      <4> QED BY <4>1, <1>1, <1>a
    <3> QED BY <3>1, <3>2
  <2>4. m = [first |-> e, last |-> IF nx = NULL THEN pv ELSE l.last,
             next |-> [x \in Entry |-> IF x = e THEN f
                                       ELSE IF x = pv THEN nx ELSE l.next[x]],
             prev |-> [x \in Entry |-> IF x = f THEN e
                                       ELSE IF x = e THEN NULL
                                       ELSE IF x = nx THEN pv ELSE l.prev[x]]]
    BY <1>3, <1>7 DEF move_to_cache_head
  <2>t. /\ l.next \in [Entry -> Entry \cup {NULL}]
        /\ l.prev \in [Entry -> Entry \cup {NULL}]
        /\ l.last \in Entry \cup {NULL}
        /\ nx \in Entry \cup {NULL}
    BY DEF ListType
  <2>5. m \in ListType
    BY <2>4, <2>2, <2>t DEF ListType
  <2>q. q = [x \in Entry |-> IF x = e THEN 1
                     ELSE IF 0 < p[x] /\ p[x] < p[e] THEN p[x] + 1 ELSE p[x]]
    BY DEF Promoted
  <2>m. /\ m.first = e
        /\ m.last = IF nx = NULL THEN pv ELSE l.last
        /\ \A x \in Entry : m.next[x] = IF x = e THEN f
                                       ELSE IF x = pv THEN nx ELSE l.next[x]
        /\ \A x \in Entry : m.prev[x] = IF x = f THEN e
                                       ELSE IF x = e THEN NULL
                                       ELSE IF x = nx THEN pv ELSE l.prev[x]
    BY <2>4
  <2> HIDE DEF m, q
  <2>6. ASSUME NEW x \in Entry, q[x] > 0
        PROVE  /\ m.first = x <=> q[x] = 1
               /\ m.last = x <=> q[x] = n
               /\ q[x] = 1 => m.prev[x] = NULL
               /\ q[x] = n => m.next[x] = NULL
    <3>1. m.first = x <=> q[x] = 1
      BY <2>m, <2>q, <2>6, <1>0
    <3>2. m.last = x <=> q[x] = n
      BY <2>m, <2>q, <2>6, <1>0, <1>4, <1>5, <2>2, <2>3, <2>1
    <3>3. q[x] = 1 => m.prev[x] = NULL
      BY <2>m, <3>1, <1>7
    <3>4. q[x] = n => m.next[x] = NULL
      BY <2>m, <2>q, <2>6, <1>0, <1>1, <1>2, <2>1, <2>2, <2>3
    <3> QED BY <3>1, <3>2, <3>3, <3>4
  <2>7. ASSUME NEW x \in Entry, NEW y \in Entry, q[x] > 0, q[y] = q[x] + 1
        PROVE  m.next[x] = y /\ m.prev[y] = x
    <3>1. CASE x = e
      <4>1. y = f
        BY <3>1, <2>7, <2>q, <1>0, <1>2, <1>7
      <4> QED BY <4>1, <3>1, <2>m
    <3>2. CASE x = pv
      <4>1. nx = y
        BY <3>2, <2>7, <2>q, <1>0, <2>2, <2>3, <2>1
      <4>2. p[y] = p[e] + 1
        BY <4>1, <2>3, <1>a
      <4>3. y # f /\ y # e /\ x # e
        BY <4>2, <3>2, <2>2, <2>1, <1>2, <1>0
      <4> QED BY <4>1, <4>3, <3>2, <2>m
    <3>3. CASE x # e /\ x # pv
      <4>1. q[x] # 1
        BY <3>3, <2>7, <2>q, <1>0
      <4>2. y # e
        BY <2>7, <2>q, <1>0
      <4>3. p[x] > 0 /\ p[x] # p[e] /\ p[x] # p[e] - 1
        BY <3>3, <2>7, <2>q, <1>0, <2>2, <2>1
      <4>4. p[y] > 0 /\ p[y] # p[e]
        BY <4>2, <2>7, <2>q, <1>0
      <4>5. /\ q[x] = IF p[x] < p[e] THEN p[x] + 1 ELSE p[x]
            /\ q[y] = IF p[y] < p[e] THEN p[y] + 1 ELSE p[y]
        BY <2>q, <3>3, <4>2, <4>3, <4>4, <1>0
      <4>6. p[y] = p[x] + 1
        BY <4>3, <4>4, <4>5, <2>7, <1>0
      <4>7. y # f /\ (nx # NULL => y # nx)
        BY <4>6, <4>3, <1>2, <2>3, <1>0
      <4> QED BY <4>2, <4>3, <4>6, <4>7, <3>3, <1>1, <1>a, <2>m
    <3> QED BY <3>1, <3>2, <3>3
  <2>8. /\ n = 0 => m.first = NULL /\ m.last = NULL
        /\ m.first = NULL \/ q[m.first] = 1
    BY <2>m, <2>q, <1>0
  <2>9. m.last = NULL \/ q[m.last] = n
    BY <2>m, <2>q, <1>0, <1>4, <1>5, <2>1, <2>2, <2>3
  <2> QED BY <2>5, <2>6, <2>7, <2>8, <2>9 DEF Linked, m, q
<1> QED BY <1>6, <1>7

\* add_new_block's links put a new entry before all others.
LEMMA PushFrontLinked ==
    ASSUME NEW n \in Nat, NEW p, NEW l \in ListType,
           Placed(p, n), Linked(l, p, n), NEW e \in Entry, p[e] = 0
    PROVE  /\ push_front(l, e) \in ListType
           /\ Placed(Pushed(p, e), n + 1)
           /\ Linked(push_front(l, e), Pushed(p, e), n + 1)
<1>0. /\ p \in [Entry -> 0 .. n]
      /\ \A k \in 1 .. n : \E x \in Entry : p[x] = k
      /\ \A x, y \in Entry : p[x] = p[y] /\ p[x] > 0 => x = y
  BY DEF Placed
<1>1. /\ n = 0 => l.first = NULL /\ l.last = NULL
      /\ \A x \in Entry : p[x] > 0 =>
            /\ l.first = x <=> p[x] = 1
            /\ l.last = x <=> p[x] = n
            /\ p[x] = 1 => l.prev[x] = NULL
            /\ p[x] = n => l.next[x] = NULL
      /\ \A x, y \in Entry : p[x] > 0 /\ p[y] = p[x] + 1 =>
            l.next[x] = y /\ l.prev[y] = x
      /\ l.first = NULL \/ p[l.first] = 1
      /\ l.last = NULL \/ p[l.last] = n
  BY DEF Linked
<1>a. NULL \notin Entry
  BY HeapAssumption
<1> DEFINE m == push_front(l, e)
           q == Pushed(p, e)
<1>t. /\ l.next \in [Entry -> Entry \cup {NULL}]
      /\ l.prev \in [Entry -> Entry \cup {NULL}]
      /\ l.last \in Entry \cup {NULL}
      /\ l.first \in Entry \cup {NULL}
  BY DEF ListType
<1>2. m \in ListType
  BY <1>t DEF push_front, ListType
<1>m. /\ m.first = e
      /\ m.last = IF l.last = NULL THEN e ELSE l.last
      /\ \A x \in Entry : m.next[x] = IF x = e THEN l.first ELSE l.next[x]
      /\ \A x \in Entry : m.prev[x] = IF x = l.first THEN e
                              ELSE IF x = e THEN NULL ELSE l.prev[x]
  BY <1>t DEF push_front
<1>q. q = [x \in Entry |-> IF x = e THEN 1 ELSE IF 0 < p[x] THEN p[x] + 1 ELSE 0]
  BY DEF Pushed
<1> HIDE DEF m, q
<1>3. Placed(q, n + 1)
  <2>1. q \in [Entry -> 0 .. n + 1]
    BY <1>0, <1>q
  <2>2. ASSUME NEW k \in 1 .. n + 1 PROVE \E x \in Entry : q[x] = k
    <3>1. CASE k = 1
      BY <3>1, <1>q
    <3>2. CASE k > 1
      <4>1. PICK x \in Entry : p[x] = k - 1
        BY <3>2, <1>0
      <4> QED BY <4>1, <3>2, <1>q, <1>0
    <3> QED BY <3>1, <3>2
  <2>3. ASSUME NEW x \in Entry, NEW y \in Entry, q[x] = q[y], q[x] > 0
        PROVE  x = y
    BY <2>3, <1>0, <1>q
  <2> QED BY <2>1, <2>2, <2>3 DEF Placed
<1>n. l.last = NULL <=> n = 0
  <2>1. CASE n = 0
    BY <2>1, <1>1
  <2>2. CASE n > 0
    <3>1. PICK x \in Entry : p[x] = n
      BY <2>2, <1>0
    <3> QED BY <3>1, <2>2, <1>1, <1>a
  <2> QED BY <2>1, <2>2
<1>f. /\ n = 0 => l.first = NULL
      /\ n > 0 => l.first \in Entry /\ p[l.first] = 1
  <2>1. CASE n > 0
    <3>1. PICK x \in Entry : p[x] = 1
      BY <2>1, <1>0
    <3> QED BY <3>1, <1>1
  <2> QED BY <2>1, <1>1
<1>4. ASSUME NEW x \in Entry, q[x] > 0
      PROVE  /\ m.first = x <=> q[x] = 1
             /\ m.last = x <=> q[x] = n + 1
             /\ q[x] = 1 => m.prev[x] = NULL
             /\ q[x] = n + 1 => m.next[x] = NULL
  <2>1. m.first = x <=> q[x] = 1
    BY <1>4, <1>m, <1>q, <1>0
  <2>2. m.last = x <=> q[x] = n + 1
    BY <1>4, <1>m, <1>q, <1>0, <1>n, <1>1
  <2>3. q[x] = 1 => m.prev[x] = NULL
    BY <1>4, <1>m, <1>q, <1>0, <1>f
  <2>4. q[x] = n + 1 => m.next[x] = NULL
    BY <1>4, <1>m, <1>q, <1>0, <1>f, <1>1
  <2> QED BY <2>1, <2>2, <2>3, <2>4
<1>5. ASSUME NEW x \in Entry, NEW y \in Entry, q[x] > 0, q[y] = q[x] + 1
      PROVE  m.next[x] = y /\ m.prev[y] = x
  <2>1. CASE x = e
    <3>1. p[y] = 1 /\ y # e
      BY <2>1, <1>5, <1>q, <1>0
    <3>2. l.first = y
      BY <3>1, <1>1
    <3> QED BY <3>1, <3>2, <2>1, <1>m
  <2>2. CASE x # e
    <3>1. p[x] > 0 /\ p[y] = p[x] + 1 /\ y # e
      BY <2>2, <1>5, <1>q, <1>0
    <3>2. y # l.first
      BY <3>1, <1>f, <1>0
    <3> QED BY <3>1, <3>2, <2>2, <1>1, <1>m
  <2> QED BY <2>1, <2>2
<1>6. /\ n + 1 = 0 => m.first = NULL /\ m.last = NULL
      /\ m.first = NULL \/ q[m.first] = 1
      /\ m.last = NULL \/ q[m.last] = n + 1
  BY <1>m, <1>q, <1>0, <1>n, <1>1, <1>t
<1> QED BY <1>2, <1>3, <1>4, <1>5, <1>6 DEF Linked, m, q

-----------------------------------------------------------------------------
(* What holds whatever fails: the list and the loops over it.              *)

\* Where the loops are, and that the block xz_read has covers the offset.
LoopInv ==
    /\ call.got <= call.want
    /\ pc = "scan" => iter = NULL \/ pos[iter] > 0
    /\ pc = "free" => /\ cells = {e \in Entry : pos[e] > count}
                      /\ IF iter = NULL THEN count = num_blocks
                                        ELSE pos[iter] = count + 1
    /\ pc = "closed" => num_blocks = 0
    /\ pc \in {"add", "copy"} =>
          blk.start <= offset /\ offset < blk.start + blk.size

StructInv == TypeOK /\ ListWellFormed /\ LoopInv

\* No reader is open: the list is empty.
LEMMA StructInit == Init => StructInv
<1> SUFFICES ASSUME Init PROVE StructInv
  OBVIOUS
<1> USE BlockAssumption, HeapAssumption DEF Init, EmptyList, Blank, NoBlock
<1>1. TypeOK
  BY DEF TypeOK, Pcs, Unset, ListType, EntryType, CallType, BlkType
<1>2. ListWellFormed
  BY DEF ListWellFormed, Placed, Linked
<1>3. LoopInv
  BY DEF LoopInv
<1> QED BY <1>1, <1>2, <1>3 DEF StructInv

\* The entry after a listed one is listed, one place further, or the end.
LEMMA NextPlace ==
    ASSUME NEW n \in Nat, NEW p, NEW l \in ListType,
           Placed(p, n), Linked(l, p, n), NEW e \in Entry, p[e] > 0
    PROVE  /\ l.next[e] = NULL => p[e] = n
           /\ l.next[e] # NULL => l.next[e] \in Entry /\ p[l.next[e]] = p[e] + 1
<1>0. p \in [Entry -> 0 .. n] /\ NULL \notin Entry
  BY HeapAssumption DEF Placed
<1>1. CASE p[e] = n
  BY <1>1 DEF Linked
<1>2. CASE p[e] # n
  <2>1. PICK x \in Entry : p[x] = p[e] + 1
    BY <1>0, <1>2 DEF Placed
  <2> QED BY <2>1, <1>0 DEF Linked
<1> QED BY <1>1, <1>2

\* The list starts with the entry at place 1 and ends with the one at n.
LEMMA Ends ==
    ASSUME NEW n \in Nat, NEW p, NEW l \in ListType,
           Placed(p, n), Linked(l, p, n)
    PROVE  /\ l.first = NULL <=> n = 0
           /\ l.first # NULL => l.first \in Entry /\ p[l.first] = 1
           /\ l.last = NULL <=> n = 0
           /\ l.last # NULL => l.last \in Entry /\ p[l.last] = n
<1>0. p \in [Entry -> 0 .. n] /\ NULL \notin Entry
  BY HeapAssumption DEF Placed
<1>1. l.first \in Entry \cup {NULL} /\ l.last \in Entry \cup {NULL}
  BY DEF ListType
<1>2. CASE n = 0
  BY <1>2, <1>1 DEF Linked
<1>3. CASE n > 0
  <2>1. PICK x \in Entry : p[x] = 1
    BY <1>3 DEF Placed
  <2>2. PICK y \in Entry : p[y] = n
    BY <1>3 DEF Placed
  <2> QED BY <2>1, <2>2, <1>0, <1>1, <1>3 DEF Linked
<1> QED BY <1>2, <1>3

\* Every step of xz_read and xz_reader_free keeps the list a proper one.
LEMMA StructNext == StructInv /\ [Next]_vars => StructInv'
<1> SUFFICES ASSUME StructInv, [Next]_vars PROVE StructInv'
  OBVIOUS
<1>h. /\ NULL \notin Entry /\ NULL \notin Buffer
      /\ MAX_NUM_BLOCKS_CACHE \in Nat /\ MaxLen \in Nat /\ ImageSize \in Nat
      /\ BlockStart \in [Blocks -> Nat] /\ BlockSize \in [Blocks -> Nat]
  BY BlockAssumption, HeapAssumption
<1>i. TypeOK /\ ListWellFormed /\ LoopInv
  BY DEF StructInv
<1>n. /\ num_blocks \in Nat /\ num_blocks <= MAX_NUM_BLOCKS_CACHE
      /\ list \in ListType
      /\ Placed(pos, num_blocks) /\ Linked(list, pos, num_blocks)
  BY <1>i, <1>h DEF TypeOK, ListWellFormed
<1>p. pos \in [Entry -> Nat]
  BY <1>n DEF Placed
<1>c. /\ call.origin \in Nat /\ call.want \in Nat /\ call.got \in Nat
      /\ call.want <= MaxLen /\ call.got <= call.want /\ offset \in Nat
  BY <1>i, <1>h DEF TypeOK, CallType, LoopInv, offset
<1>e. /\ list.first = NULL <=> num_blocks = 0
      /\ list.first # NULL => list.first \in Entry /\ pos[list.first] = 1
      /\ list.last = NULL <=> num_blocks = 0
      /\ list.last # NULL => list.last \in Entry /\ pos[list.last] = num_blocks
  BY <1>n, Ends
<1>1. CASE xz_reader_alloc
  <2>0. pos = [e \in Entry |-> 0]
    BY <1>1, <1>i, <1>n DEF Placed, LoopInv, xz_reader_alloc
  <2>1. list' \in ListType
    BY <1>1 DEF xz_reader_alloc, EmptyList, ListType
  <2>2. TypeOK'
    BY <1>1, <1>i, <2>1, <1>h DEF xz_reader_alloc, TypeOK, Pcs
  <2>3. ListWellFormed'
    BY <1>1, <1>i, <2>0, <1>h
    DEF xz_reader_alloc, EmptyList, ListWellFormed, Placed, Linked
  <2>4. LoopInv'
    BY <1>1, <1>i, <1>c DEF xz_reader_alloc, LoopInv
  <2> QED BY <2>2, <2>3, <2>4 DEF StructInv
<1>2. ASSUME NEW o \in 0 .. ImageSize, NEW k \in 0 .. MaxLen, xz_read(o, k)
      PROVE  StructInv'
  <2>1. call' \in CallType
    BY <1>2, <1>h DEF xz_read, CallType
  <2>2. out' \in [0 .. MaxLen - 1 -> Int] /\ iter' \in Entry \cup {NULL}
    BY <1>2, <1>e DEF xz_read, Unset
  <2>3. TypeOK'
    BY <1>2, <1>i, <2>1, <2>2 DEF xz_read, TypeOK, Pcs
  <2>4. ListWellFormed'
    BY <1>2, <1>i DEF xz_read, ListWellFormed
  <2>5. LoopInv'
    BY <1>2, <1>e, <1>h DEF xz_read, LoopInv
  <2> QED BY <2>3, <2>4, <2>5 DEF StructInv
<1>3. CASE xz_reader_free
  <2>1. TypeOK'
    BY <1>3, <1>i, <1>e DEF xz_reader_free, cacheVars, TypeOK, Pcs
  <2>2. ListWellFormed'
    BY <1>3, <1>i DEF xz_reader_free, cacheVars, ListWellFormed
  <2>3. LoopInv'
    BY <1>3, <1>i, <1>e, <1>c, <1>p
    DEF xz_reader_free, cacheVars, LoopInv, ListWellFormed
  <2> QED BY <2>1, <2>2, <2>3 DEF StructInv
<1>4. CASE ScanNext
  <2>0. iter \in Entry /\ pos[iter] > 0
    BY <1>4, <1>i DEF ScanNext, TypeOK, LoopInv
  <2>n. list.next[iter] # NULL =>
          list.next[iter] \in Entry /\ pos[list.next[iter]] = pos[iter] + 1
    BY <1>n, <2>0, NextPlace
  <2>1. TypeOK'
    BY <1>4, <1>i, <2>n DEF ScanNext, TypeOK
  <2>2. ListWellFormed'
    BY <1>4, <1>i DEF ScanNext, ListWellFormed
  <2>3. LoopInv'
    BY <1>4, <1>c, <2>0, <2>n, <1>p DEF ScanNext, LoopInv
  <2> QED BY <2>1, <2>2, <2>3 DEF StructInv
<1>5. CASE ScanHit
  <2>0. /\ iter \in Entry /\ pos[iter] > 0
        /\ list' = move_to_cache_head(list, iter)
        /\ pos' = Promoted(pos, iter)
    BY <1>5, <1>i DEF ScanHit, MoveToHead, TypeOK, LoopInv
  <2>p. /\ list' \in ListType
        /\ Placed(pos', num_blocks) /\ Linked(list', pos', num_blocks)
    BY <1>n, <2>0, PromotedPlaced, MoveToHeadLinked
  <2>q. pos' \in [Entry -> 0 .. MAX_NUM_BLOCKS_CACHE]
    BY <2>p, <1>n, <1>h DEF Placed
  <2>r. \A e \in Entry : pos'[e] > 0 <=> pos[e] > 0
    BY <2>0, <1>p DEF Promoted
  <2>b. blk' \in BlkType
    <3>1. entry[iter] \in EntryType
      BY <1>i, <2>0 DEF TypeOK
    <3> QED BY <1>5, <3>1 DEF ScanHit, EntryType, BlkType
  <2>1. TypeOK'
    BY <1>5, <1>i, <2>p, <2>q, <2>b DEF ScanHit, TypeOK, Pcs
  <2>2. ListWellFormed'
    BY <1>5, <1>i, <2>p, <2>r DEF ScanHit, ListWellFormed
  <2>3. LoopInv'
    BY <1>5, <1>c DEF ScanHit, LoopInv, EntryCovers, offset
  <2> QED BY <2>1, <2>2, <2>3 DEF StructInv
<1>6. CASE LocateFails \/ HeaderFails \/ MismatchFails \/ DecodeFails
  <2>0. /\ UNCHANGED <<list, num_blocks, entry, cells, pos, iter, count, call, blk, out>>
        /\ pc = "scan"
        /\ pc' \in {"idle", "dead"}
        /\ ret' = ret \/ ret' = call.got + READER_ERROR
        /\ mem' = mem \/ \E d \in Buffer : mem' = [mem EXCEPT ![d] = Free]
    BY <1>6 DEF LocateFails, HeaderFails, MismatchFails, DecodeFails,
                ReturnError, Miss, cacheVars
  <2>m. mem' \in [Buffer -> Blocks \cup {Free}]
    BY <2>0, <1>i DEF TypeOK
  <2>r. ret' \in Int
    BY <2>0, <1>i, <1>c DEF TypeOK, READER_ERROR
  <2>1. TypeOK'
    BY <2>0, <1>i, <2>m, <2>r DEF TypeOK, Pcs
  <2>2. ListWellFormed'
    BY <2>0, <1>i DEF ListWellFormed
  <2>3. LoopInv'
    BY <2>0, <1>c DEF LoopInv
  <2> QED BY <2>1, <2>2, <2>3 DEF StructInv
<1>7. CASE ReadBlockOk \/ MallocFails \/ DataReadFails
  <2>0. /\ UNCHANGED <<list, num_blocks, entry, cells, pos, iter, count, call, out, ret>>
        /\ pc = "scan" /\ pc' = "add"
    BY <1>7 DEF ReadBlockOk, MallocFails, DataReadFails, Miss, cacheVars
  <2>1. PICK b \in Blocks, d \in Buffer \cup {NULL} :
              /\ Covers(b, offset)
              /\ BlockIs(b, d)
              /\ mem' = mem \/ mem' = [mem EXCEPT ![d] = b]
    BY <1>7 DEF ReadBlockOk, MallocFails, DataReadFails
  <2>m. mem' \in [Buffer -> Blocks \cup {Free}]
    BY <2>1, <1>i DEF TypeOK
  <2>b. blk' \in BlkType
    BY <2>1, <1>h DEF BlockIs, BlkType
  <2>2. TypeOK'
    BY <2>0, <1>i, <2>m, <2>b DEF TypeOK, Pcs
  <2>3. ListWellFormed'
    BY <2>0, <1>i DEF ListWellFormed
  <2>4. LoopInv'
    BY <2>0, <2>1, <1>c DEF LoopInv, BlockIs, Covers, offset
  <2> QED BY <2>2, <2>3, <2>4 DEF StructInv
<1>8. CASE AddRefused
  <2>1. TypeOK'
    BY <1>8, <1>i DEF AddRefused, cacheVars, TypeOK, Pcs
  <2>2. ListWellFormed'
    BY <1>8, <1>i DEF AddRefused, cacheVars, ListWellFormed
  <2>3. LoopInv'
    BY <1>8, <1>i, <1>c DEF AddRefused, cacheVars, LoopInv, offset
  <2> QED BY <2>1, <2>2, <2>3 DEF StructInv
<1>b. blk \in BlkType => /\ NewContent \in EntryType
                         /\ [blk EXCEPT !.hit = 1] \in BlkType
                         /\ [blk EXCEPT !.hit = 1].start = blk.start
                         /\ [blk EXCEPT !.hit = 1].size = blk.size
  BY DEF NewContent, EntryType, BlkType
<1>9. CASE AddPush
  <2>0. PICK e \in Entry \ cells :
          /\ cells' = cells \cup {e}
          /\ entry' = [entry EXCEPT ![e] = NewContent]
          /\ list' = push_front(list, e)
          /\ pos' = Pushed(pos, e)
    BY <1>9 DEF AddPush
  <2>z. pos[e] = 0
    BY <1>9, <2>0, <1>i, <1>p DEF AddPush, ListWellFormed
  <2>p. /\ list' \in ListType
        /\ Placed(pos', num_blocks + 1) /\ Linked(list', pos', num_blocks + 1)
    BY <1>n, <2>0, <2>z, PushFrontLinked
  <2>m. num_blocks' \in 0 .. MAX_NUM_BLOCKS_CACHE /\ num_blocks' = num_blocks + 1
    BY <1>9, <1>n, <1>h DEF AddPush
  <2>q. pos' \in [Entry -> 0 .. MAX_NUM_BLOCKS_CACHE]
    BY <2>p, <2>m, <1>n, <1>h DEF Placed
  <2>r. \A x \in Entry : pos'[x] > 0 <=> pos[x] > 0 \/ x = e
    BY <2>0, <2>z, <1>p DEF Pushed
  <2>b. entry' \in [Entry -> EntryType] /\ blk' \in BlkType
    BY <1>9, <2>0, <1>b, <1>i DEF AddPush, TypeOK
  <2>1. TypeOK'
    BY <1>9, <1>i, <2>0, <2>b, <2>m, <2>p, <2>q DEF AddPush, TypeOK, Pcs
  <2>2. ListWellFormed'
    BY <1>9, <1>i, <2>0, <2>m, <2>p, <2>r DEF AddPush, ListWellFormed
  <2>3. LoopInv'
    BY <1>9, <1>i, <1>c, <1>b DEF AddPush, LoopInv, offset, TypeOK
  <2> QED BY <2>1, <2>2, <2>3 DEF StructInv
<1>10. CASE AddEvict
  <2>0. /\ list.last \in Entry /\ pos[list.last] > 0
        /\ list' = move_to_cache_head(list, list.last)
        /\ pos' = Promoted(pos, list.last)
    BY <1>10, <1>e, <1>n, <1>h DEF AddEvict, MoveToHead
  <2>p. /\ list' \in ListType
        /\ Placed(pos', num_blocks) /\ Linked(list', pos', num_blocks)
    BY <1>n, <2>0, PromotedPlaced, MoveToHeadLinked
  <2>q. pos' \in [Entry -> 0 .. MAX_NUM_BLOCKS_CACHE]
    BY <2>p, <1>n, <1>h DEF Placed
  <2>r. \A e \in Entry : pos'[e] > 0 <=> pos[e] > 0
    BY <2>0, <1>p DEF Promoted
  <2>b. entry' \in [Entry -> EntryType] /\ blk' \in BlkType
    BY <1>10, <1>b, <1>i DEF AddEvict, TypeOK
  <2>m. mem' \in [Buffer -> Blocks \cup {Free}]
    BY <1>10, <1>i DEF AddEvict, Freed, TypeOK
  <2>1. TypeOK'
    BY <1>10, <1>i, <2>b, <2>m, <2>p, <2>q DEF AddEvict, TypeOK, Pcs
  <2>2. ListWellFormed'
    BY <1>10, <1>i, <2>p, <2>r DEF AddEvict, ListWellFormed
  <2>3. LoopInv'
    BY <1>10, <1>i, <1>c, <1>b DEF AddEvict, LoopInv, offset, TypeOK
  <2> QED BY <2>1, <2>2, <2>3 DEF StructInv
<1>11. CASE Copy
  <2>b. /\ blk.start \in Nat /\ blk.size \in Nat /\ blk.data \in Buffer \cup {NULL}
        /\ blk.start <= offset /\ offset < blk.start + blk.size
    BY <1>11, <1>i DEF Copy, TypeOK, BlkType, LoopInv
  <2>0. Chunk \in Nat /\ call.got + Chunk <= call.want
    BY <1>c, <2>b DEF Chunk, length
  <2>1. mem' \in [Buffer -> Blocks \cup {Free}]
    BY <1>11, <1>i DEF Copy, Freed, TypeOK
  <2>2. out' \in [0 .. MaxLen - 1 -> Int]
    <3>1. ASSUME NEW i \in 0 .. MaxLen - 1, call.got <= i, i < call.got + Chunk
          PROVE  ByteAt(blk.data, offset - blk.start + (i - call.got)) \in Int
      <4>1. blk.data \in Buffer
        BY <1>11, <3>1, <2>0, <2>b, <1>c, <1>h DEF Copy
      <4>2. mem[blk.data] # Free => BlockStart[mem[blk.data]] \in Nat
        BY <4>1, <1>i, <1>h DEF TypeOK
      <4>3. offset - blk.start + (i - call.got) \in Int
        BY <2>b, <1>c, <1>h
      <4> QED BY <4>2, <4>3 DEF ByteAt, Garbage
    <3>2. out \in [0 .. MaxLen - 1 -> Int]
      BY <1>i DEF TypeOK
    <3> QED BY <1>11, <3>1, <3>2 DEF Copy
  <2>3. call' = [call EXCEPT !.got = call.got + Chunk]
    BY <1>11 DEF Copy
  <2>4. /\ call' \in CallType
        /\ call'.got = call.got + Chunk /\ call'.want = call.want
    <3>1. call \in CallType
      BY <1>i DEF TypeOK
    <3>2. call.got + Chunk \in 0 .. MaxLen
      BY <2>0, <1>c, <1>h
    <3> QED BY <2>3, <3>1, <3>2 DEF CallType
  <2>5. iter' \in Entry \cup {NULL} /\ ret' \in Int /\ pc' \in Pcs
    BY <1>11, <2>0, <1>e, <1>c, <1>i DEF Copy, TypeOK, Pcs
  <2>6. blk' \in BlkType
    BY <1>11 DEF Copy, NoBlock, BlkType
  <2>7. TypeOK'
    BY <1>11, <1>i, <2>1, <2>2, <2>4, <2>5, <2>6 DEF TypeOK, Copy, cacheVars
  <2>8. ListWellFormed'
    BY <1>11, <1>i DEF Copy, cacheVars, ListWellFormed
  <2>9. LoopInv'
    BY <1>11, <2>0, <2>4, <1>c, <1>e DEF Copy, cacheVars, LoopInv
  <2> QED BY <2>7, <2>8, <2>9 DEF StructInv
<1>12. CASE Crash
  <2>1. TypeOK'
    BY <1>12, <1>i DEF Crash, cacheVars, TypeOK, Pcs
  <2>2. ListWellFormed'
    BY <1>12, <1>i DEF Crash, cacheVars, ListWellFormed
  <2>3. LoopInv'
    BY <1>12, <1>c DEF Crash, cacheVars, LoopInv
  <2> QED BY <2>1, <2>2, <2>3 DEF StructInv
<1>13. CASE FreeEntry
  <2>0. /\ iter \in Entry /\ count \in Nat /\ pos[iter] = count + 1
        /\ cells = {e \in Entry : pos[e] > count}
    BY <1>13, <1>i DEF FreeEntry, TypeOK, LoopInv
  <2>n. /\ list.next[iter] = NULL => pos[iter] = num_blocks
        /\ list.next[iter] # NULL =>
             list.next[iter] \in Entry /\ pos[list.next[iter]] = pos[iter] + 1
    BY <1>n, <2>0, NextPlace
  <2>c. cells' = {e \in Entry : pos[e] > count + 1}
    <3>1. \A e, f \in Entry : pos[e] = pos[f] /\ pos[e] > 0 => e = f
      BY <1>n DEF Placed
    <3> QED BY <1>13, <3>1, <2>0, <1>p DEF FreeEntry
  <2>b. Blank \in EntryType
    BY DEF Blank, EntryType
  <2>1. TypeOK'
    BY <1>13, <1>i, <2>0, <2>b, <2>n DEF FreeEntry, TypeOK, Freed
  <2>2. ListWellFormed'
    BY <1>13, <1>i DEF FreeEntry, ListWellFormed
  <2>3. LoopInv'
    BY <1>13, <1>c, <2>0, <2>c, <2>n DEF FreeEntry, LoopInv
  <2> QED BY <2>1, <2>2, <2>3 DEF StructInv
<1>14. CASE FreeDone
  <2>0. pos \in [Entry -> 0 .. num_blocks]
    BY <1>n DEF Placed
  <2>1. cells = {}
    BY <1>14, <1>i, <1>n, <2>0 DEF FreeDone, LoopInv
  <2>2. list' \in ListType
    BY <1>14 DEF FreeDone, EmptyList, ListType
  <2>3. TypeOK'
    BY <1>14, <1>i, <1>h, <2>2 DEF FreeDone, TypeOK, Pcs
  <2>4. ListWellFormed'
    BY <1>14, <2>1, <1>h DEF FreeDone, EmptyList, ListWellFormed, Placed, Linked
  <2>5. LoopInv'
    BY <1>14, <1>c DEF FreeDone, LoopInv
  <2> QED BY <2>3, <2>4, <2>5 DEF StructInv
<1>15. CASE UNCHANGED vars
  BY <1>15 DEF vars, StructInv, TypeOK, ListWellFormed, LoopInv, offset
<1> QED
  BY <1>1, <1>2, <1>3, <1>4, <1>5, <1>6, <1>7, <1>8, <1>9, <1>10, <1>11,
     <1>12, <1>13, <1>14, <1>15 DEF Next, Step, ReadBlock

\* The linked list of the cache stays a proper one, whatever fails, and the
\* count free_cache_entries asserts is right.
THEOREM ListAlwaysWellFormed ==
    Spec => [](TypeOK /\ ListWellFormed /\ FreeCountsAll)
<1>1. StructInv => TypeOK /\ ListWellFormed /\ FreeCountsAll
  BY DEF StructInv, LoopInv, FreeCountsAll
<1> QED BY <1>1, StructInit, StructNext, PTL DEF Spec

\* A read of bytes of the image is not done, or brought all of them, or met an
\* error.
ReadInProgress ==
    call.want > 0 /\ call.origin + call.want <= ImageSize =>
        /\ pc \in {"scan", "add", "copy"} => call.got < call.want
        /\ pc \in {"idle", "free", "closed"} =>
              \/ call.got = call.want /\ ret = call.want
              \/ call.got < call.want /\ ret = call.got + READER_ERROR

\* Every recursive call has something left to read, and the last one returns
\* what all have copied.
LEMMA ProgressNext == StructInv /\ ReadInProgress /\ [Next]_vars => ReadInProgress'
<1> SUFFICES ASSUME StructInv, ReadInProgress, [Next]_vars PROVE ReadInProgress'
  OBVIOUS
<1>1. /\ call.origin \in Nat /\ call.want \in Nat /\ call.got \in Nat /\ MaxLen \in Nat
      /\ call.got <= call.want /\ call \in CallType /\ ImageSize \in Nat
      /\ blk.start \in Nat /\ blk.size \in Nat
  BY BlockAssumption, HeapAssumption DEF StructInv, TypeOK, CallType, BlkType, LoopInv
<1>2. ASSUME NEW o \in 0 .. ImageSize, NEW k \in 0 .. MaxLen, xz_read(o, k)
      PROVE  ReadInProgress'
  BY <1>2, <1>1 DEF xz_read, ReadInProgress
<1>3. CASE Copy
  <2>1. pc = "copy" /\ offset \in Nat /\ offset < blk.start + blk.size
    BY <1>3, <1>1 DEF Copy, StructInv, LoopInv, offset
  <2>2. Chunk \in Nat /\ Chunk <= call.want - call.got
    BY <1>1, <2>1 DEF Chunk, length
  <2> HIDE DEF Chunk
  <2>3. call' = [call EXCEPT !.got = call.got + Chunk]
    BY <1>3 DEF Copy
  <2>4. call'.got = call.got + Chunk /\ call'.want = call.want /\ call'.origin = call.origin
    BY <2>3, <1>1 DEF CallType
  <2>5. CASE More
    <3>1. pc' = "scan" /\ call.got + Chunk < call.want
      BY <2>2, <2>5, <1>1, <1>3 DEF Copy, More, length
    <3> QED BY <3>1, <2>4 DEF ReadInProgress
  <2>6. CASE ~More
    <3>1. pc' = "idle" /\ ret' = call.got + Chunk
      BY <2>6, <1>3 DEF Copy
    <3>2. call.got + Chunk = call.want
      BY <2>2, <2>6, <1>1 DEF More, length
    <3> QED BY <3>1, <3>2, <2>4 DEF ReadInProgress
  <2> QED BY <2>5, <2>6
<1>4. CASE xz_reader_alloc \/ xz_reader_free \/ FreeEntry \/ FreeDone
  BY <1>4 DEF xz_reader_alloc, xz_reader_free, FreeEntry, FreeDone, ReadInProgress
<1>5. CASE ScanNext \/ ScanHit \/ AddRefused \/ AddPush \/ AddEvict \/ Crash
  BY <1>5 DEF ScanNext, ScanHit, AddRefused, AddPush, AddEvict, Crash, ReadInProgress
<1>6. CASE ReadBlock
  <2>1. pc = "scan" /\ UNCHANGED call
    BY <1>6 DEF ReadBlock, LocateFails, HeaderFails, MismatchFails, DecodeFails,
                ReadBlockOk, MallocFails, DataReadFails, Miss
  <2>2. pc' \in {"add", "dead"} \/ (pc' = "idle" /\ ret' = call.got + READER_ERROR)
    BY <1>6 DEF ReadBlock, LocateFails, HeaderFails, MismatchFails, DecodeFails,
                ReadBlockOk, MallocFails, DataReadFails, ReturnError
  <2> QED BY <2>1, <2>2 DEF ReadInProgress
<1>7. CASE UNCHANGED vars
  BY <1>7 DEF vars, ReadInProgress
<1> QED BY <1>2, <1>3, <1>4, <1>5, <1>6, <1>7 DEF Next, Step

\* Whatever fails, the unhandled failures included, a read of bytes of the
\* image brings all it was asked for and says so, or its result shows that a
\* block failed, and is READER_ERROR when nothing had been copied.
THEOREM ReadsComplete == Spec => []ReadComplete
<1>1. Init => ReadInProgress
  BY DEF Init, ReadInProgress
<1>2. StructInv /\ ReadInProgress => ReadComplete
  <2>1. StructInv => call.want \in Nat /\ call.got \in Nat
    BY HeapAssumption DEF StructInv, TypeOK, CallType
  <2> QED BY <2>1 DEF ReadInProgress, ReadComplete, READER_ERROR
<1> QED BY <1>1, <1>2, StructInit, StructNext, ProgressNext, PTL DEF Spec

-----------------------------------------------------------------------------
(* What holds when the failures are those the code handles: the data.      *)

\* An entry in use describes a block of the file and owns a live buffer that
\* holds it.
EntriesOwn ==
    /\ \A e \in cells :
          /\ entry[e].data \in Buffer
          /\ mem[entry[e].data] \in Blocks
          /\ entry[e].offset = BlockStart[mem[entry[e].data]]
          /\ entry[e].size = BlockSize[mem[entry[e].data]]
    /\ \A e, f \in cells :
          entry[e].data = entry[f].data \/ entry[e].offset = entry[f].offset
             => e = f

\* xz_read holds a block no entry has.
HoldsNew == pc \in {"add", "copy"} /\ blk.hit = 0

\* Every live buffer is an entry's or the one xz_read holds.
Claimed ==
    \A d \in Buffer : mem[d] # Free =>
        (\E e \in cells : entry[e].data = d) \/ (HoldsNew /\ blk.data = d)

\* What xz_read knows: the entries it passed do not cover the offset, and
\* the block it has is the right one.
ReadKnows ==
    /\ pc = "scan" => \A e \in cells :
          iter = NULL \/ pos[e] < pos[iter] => ~EntryCovers(e)
    /\ pc \in {"add", "copy"} =>
          /\ blk.data \in Buffer
          /\ mem[blk.data] \in Blocks
          /\ blk.start = BlockStart[mem[blk.data]]
          /\ blk.size = BlockSize[mem[blk.data]]
    /\ pc = "add" => blk.hit = 0
    /\ HoldsNew => \A e \in cells :
          entry[e].data # blk.data /\ entry[e].offset # blk.start

\* What was copied so far is right.
PrefixRight ==
    /\ \A i \in 0 .. call.got - 1 : out[i] = call.origin + i
    /\ ret <= call.got

DataInv ==
    pc # "dead" /\ EntriesOwn /\ Claimed /\ ReadKnows /\ PrefixRight

\* Blocks that start at the same byte are the same block.
LEMMA SameStart ==
    ASSUME NEW b \in Blocks, NEW c \in Blocks, BlockStart[b] = BlockStart[c]
    PROVE  b = c
<1>1. BlockStart[b] \in 0 .. ImageSize - 1
  BY BlockAssumption
<1>2. Covers(b, BlockStart[b]) /\ Covers(c, BlockStart[b])
  BY BlockAssumption DEF Covers
<1> QED BY <1>1, <1>2, BlockAssumption

\* No reader is open: nothing is allocated.
LEMMA DataInit == Init => DataInv
  BY DEF Init, DataInv, EntriesOwn, Claimed, ReadKnows, HoldsNew, PrefixRight

\* Every step keeps what the cache, the buffers and the caller's buffer hold
\* right, as long as only faults occur that the code handles.
LEMMA DataNext ==
    ASSUME Faults \subseteq HandledFaults, StructInv, DataInv, [Next]_vars
    PROVE  DataInv'
<1>h. /\ NULL \notin Entry /\ NULL \notin Buffer /\ Free \notin Blocks
      /\ MAX_NUM_BLOCKS_CACHE \in Nat /\ MaxLen \in Nat /\ ImageSize \in Nat
      /\ BlockStart \in [Blocks -> Nat] /\ BlockSize \in [Blocks -> Nat \ {0}]
  BY BlockAssumption, HeapAssumption
<1>f. /\ "mismatch" \notin Faults /\ "malloc" \notin Faults /\ "io" \notin Faults
  BY DEF HandledFaults
<1>i. TypeOK /\ ListWellFormed /\ LoopInv
  BY DEF StructInv
<1>d. pc # "dead" /\ EntriesOwn /\ Claimed /\ ReadKnows /\ PrefixRight
  BY DEF DataInv
<1>n. /\ num_blocks \in Nat /\ num_blocks <= MAX_NUM_BLOCKS_CACHE
      /\ list \in ListType
      /\ Placed(pos, num_blocks) /\ Linked(list, pos, num_blocks)
      /\ pc \notin {"free", "dead"} => cells = {e \in Entry : pos[e] > 0}
  BY <1>i, <1>h DEF TypeOK, ListWellFormed
<1>p. pos \in [Entry -> Nat]
  BY <1>n DEF Placed
<1>c. /\ call.origin \in Nat /\ call.want \in Nat /\ call.got \in Nat
      /\ call.want <= MaxLen /\ call.got <= call.want /\ offset \in Nat
      /\ ret \in Int
  BY <1>i, <1>h DEF TypeOK, CallType, LoopInv, offset
<1>m. /\ mem \in [Buffer -> Blocks \cup {Free}]
      /\ cells \subseteq Entry
      /\ entry \in [Entry -> EntryType]
  BY <1>i DEF TypeOK
<1>e. /\ list.first = NULL <=> num_blocks = 0
      /\ list.first # NULL => list.first \in Entry /\ pos[list.first] = 1
      /\ list.last = NULL <=> num_blocks = 0
      /\ list.last # NULL => list.last \in Entry /\ pos[list.last] = num_blocks
  BY <1>n, Ends
\* A scan that starts now has passed nobody.
<1>s. pc \notin {"free", "dead"} =>
        \A e \in cells : ~(list.first = NULL \/ pos[e] < pos[list.first])
  <2>1. CASE num_blocks = 0
    BY <2>1, <1>n DEF Placed
  <2>2. CASE num_blocks # 0
    BY <2>2, <1>n, <1>e, <1>p
  <2> QED BY <2>1, <2>2
<1>1. CASE xz_reader_alloc
  BY <1>1, <1>d DEF xz_reader_alloc, DataInv, EntriesOwn, Claimed, ReadKnows,
                    HoldsNew, PrefixRight
<1>2. ASSUME NEW o \in 0 .. ImageSize, NEW k \in 0 .. MaxLen, xz_read(o, k)
      PROVE  DataInv'
  <2>1. EntriesOwn' /\ Claimed'
    BY <1>2, <1>d DEF xz_read, EntriesOwn, Claimed, HoldsNew
  <2>2. ReadKnows'
    BY <1>2, <1>s DEF xz_read, ReadKnows, HoldsNew
  <2>3. PrefixRight'
    BY <1>2 DEF xz_read, PrefixRight
  <2> QED BY <1>2, <2>1, <2>2, <2>3 DEF xz_read, DataInv
<1>3. CASE xz_reader_free
  BY <1>3, <1>d DEF xz_reader_free, cacheVars, DataInv, EntriesOwn, Claimed,
                    ReadKnows, HoldsNew, PrefixRight
<1>4. CASE ScanNext
  <2>0. iter \in Entry /\ pos[iter] > 0
    BY <1>4, <1>i DEF ScanNext, TypeOK, LoopInv
  <2>1. EntriesOwn' /\ Claimed' /\ PrefixRight'
    BY <1>4, <1>d DEF ScanNext, EntriesOwn, Claimed, HoldsNew, PrefixRight
  <2>2. ASSUME NEW e \in cells,
               list.next[iter] = NULL \/ pos[e] < pos[list.next[iter]]
        PROVE  ~EntryCovers(e)
    <3>1. /\ list.next[iter] = NULL => pos[iter] = num_blocks
          /\ list.next[iter] # NULL => pos[list.next[iter]] = pos[iter] + 1
      BY <1>n, <2>0, NextPlace
    <3>2. pos[e] <= num_blocks
      BY <1>n, <1>m DEF Placed
    <3>3. pos[e] <= pos[iter]
      BY <3>1, <3>2, <2>2, <2>0, <1>p, <1>m
    <3>4. CASE pos[e] = pos[iter]
      BY <3>4, <1>4, <1>n, <2>0, <1>m DEF ScanNext, Placed
    <3>5. CASE pos[e] < pos[iter]
      BY <3>5, <1>4, <1>d DEF ScanNext, ReadKnows
    <3> QED BY <3>3, <3>4, <3>5, <1>p, <2>0, <1>m
  <2>3. ReadKnows'
    BY <1>4, <2>2 DEF ScanNext, ReadKnows, HoldsNew, EntryCovers, offset
  <2> QED BY <1>4, <2>1, <2>3 DEF ScanNext, DataInv
<1>5. CASE ScanHit
  <2>0. iter \in cells
    BY <1>5, <1>i, <1>n DEF ScanHit, TypeOK, LoopInv
  <2>b. blk' = [data |-> entry[iter].data, start |-> entry[iter].offset,
                size |-> entry[iter].size, hit |-> 1]
    BY <1>5 DEF ScanHit
  <2>1. EntriesOwn' /\ PrefixRight'
    BY <1>5, <1>d DEF ScanHit, EntriesOwn, PrefixRight
  <2>2. Claimed'
    BY <1>5, <1>d DEF ScanHit, Claimed, HoldsNew
  <2>3. ReadKnows'
    BY <1>5, <1>d, <2>0, <2>b DEF ScanHit, ReadKnows, HoldsNew, EntriesOwn
  <2> QED BY <1>5, <2>1, <2>2, <2>3 DEF ScanHit, DataInv
<1>6. CASE LocateFails \/ HeaderFails \/ MismatchFails \/ DecodeFails
  <2>0. /\ UNCHANGED <<entry, cells, call, blk, out, mem>>
        /\ pc = "scan" /\ pc' = "idle"
        /\ ret' = call.got - 1
    BY <1>6, <1>f DEF LocateFails, HeaderFails, MismatchFails, DecodeFails,
                      ReturnError, READER_ERROR, Miss, cacheVars
  <2>1. EntriesOwn' /\ Claimed' /\ ReadKnows'
    BY <2>0, <1>d DEF EntriesOwn, Claimed, HoldsNew, ReadKnows
  <2>2. PrefixRight'
    BY <2>0, <1>d, <1>c DEF PrefixRight
  <2> QED BY <2>0, <2>1, <2>2 DEF DataInv
<1>7. CASE ReadBlockOk \/ MallocFails \/ DataReadFails
  <2>0. /\ UNCHANGED <<entry, cells, call, out, ret>>
        /\ pc = "scan" /\ pc' = "add" /\ iter = NULL
    BY <1>7 DEF ReadBlockOk, MallocFails, DataReadFails, Miss, cacheVars
  <2>1. PICK b \in Blocks, d \in Buffer :
              /\ Covers(b, offset)
              /\ mem[d] = Free
              /\ mem' = [mem EXCEPT ![d] = b]
              /\ blk' = [data |-> d, start |-> BlockStart[b],
                         size |-> BlockSize[b], hit |-> 0]
    BY <1>7, <1>f DEF ReadBlockOk, MallocFails, DataReadFails, BlockIs
  <2>2. \A e \in cells : entry[e].data # d
    BY <2>1, <1>d, <1>h DEF EntriesOwn
  <2>3. ASSUME NEW e \in cells PROVE entry[e].offset # BlockStart[b]
    <3>1. SUFFICES ASSUME entry[e].offset = BlockStart[b] PROVE FALSE
      OBVIOUS
    <3>2. mem[entry[e].data] = b
      BY <3>1, <1>d, SameStart DEF EntriesOwn
    <3>3. EntryCovers(e)
      BY <3>2, <2>1, <1>d DEF EntriesOwn, EntryCovers, Covers
    <3> QED BY <3>3, <2>0, <1>d DEF ReadKnows
  <2>4. \A x \in Buffer : mem'[x] = IF x = d THEN b ELSE mem[x]
    BY <2>1, <1>m
  <2>5. EntriesOwn'
    BY <2>0, <2>2, <2>4, <1>d DEF EntriesOwn
  <2>6. Claimed'
    BY <2>0, <2>1, <2>4, <1>d DEF Claimed, HoldsNew
  <2>7. ReadKnows'
    BY <2>0, <2>1, <2>2, <2>3, <2>4 DEF ReadKnows, HoldsNew
  <2>8. PrefixRight'
    BY <2>0, <1>d DEF PrefixRight
  <2> QED BY <2>0, <2>5, <2>6, <2>7, <2>8 DEF DataInv
<1>8. CASE AddRefused
  BY <1>8, <1>d DEF AddRefused, cacheVars, DataInv, EntriesOwn, Claimed,
                    ReadKnows, HoldsNew, PrefixRight
<1>b. pc = "add" => /\ blk \in BlkType
                    /\ blk.data \in Buffer
                    /\ mem[blk.data] \in Blocks
                    /\ blk.start = BlockStart[mem[blk.data]]
                    /\ blk.size = BlockSize[mem[blk.data]]
                    /\ blk.hit = 0
                    /\ \A e \in cells : entry[e].data # blk.data
                                     /\ entry[e].offset # blk.start
  BY <1>i, <1>d DEF ReadKnows, HoldsNew, TypeOK
<1>9. CASE AddPush
  <2>0. PICK e \in Entry \ cells :
          /\ cells' = cells \cup {e}
          /\ entry' = [entry EXCEPT ![e] = NewContent]
    BY <1>9 DEF AddPush
  <2>1. \A x \in Entry : entry'[x] = IF x = e THEN NewContent ELSE entry[x]
    BY <2>0, <1>m
  <2>2. /\ NewContent.data = blk.data /\ NewContent.offset = blk.start
        /\ NewContent.size = blk.size
    BY DEF NewContent
  <2>3. blk'.data = blk.data /\ blk'.start = blk.start /\ blk'.size = blk.size
        /\ blk'.hit = 1
    BY <1>9, <1>b DEF AddPush, BlkType
  <2>4. EntriesOwn'
    BY <1>9, <1>b, <1>d, <1>m, <2>0, <2>1, <2>2 DEF AddPush, EntriesOwn
  <2>5. Claimed'
    <3>1. ASSUME NEW d \in Buffer, mem[d] # Free
          PROVE  \E x \in cells' : entry'[x].data = d
      <4>1. CASE d = blk.data
        BY <4>1, <2>0, <2>1, <2>2
      <4>2. CASE d # blk.data
        <5>1. PICK x \in cells : entry[x].data = d
          BY <3>1, <4>2, <1>d DEF Claimed
        <5> QED BY <5>1, <2>0, <2>1, <1>m
      <4> QED BY <4>1, <4>2
    <3> QED BY <3>1, <1>9 DEF AddPush, Claimed
  <2>6. ReadKnows'
    BY <1>9, <1>b, <2>3 DEF AddPush, ReadKnows, HoldsNew
  <2>7. PrefixRight'
    BY <1>9, <1>d DEF AddPush, PrefixRight
  <2> QED BY <1>9, <2>4, <2>5, <2>6, <2>7 DEF AddPush, DataInv
<1>10. CASE AddEvict
  <2> DEFINE e == list.last
             old == entry[e].data
  <2>0. e \in cells /\ e \in Entry
    BY <1>10, <1>e, <1>n, <1>h DEF AddEvict
  <2>o. old \in Buffer /\ old # blk.data
    BY <1>10, <2>0, <1>b, <1>d DEF AddEvict, EntriesOwn
  <2>1. \A x \in Entry : entry'[x] = IF x = e THEN NewContent ELSE entry[x]
    BY <1>10, <1>m DEF AddEvict
  <2>2. /\ NewContent.data = blk.data /\ NewContent.offset = blk.start
        /\ NewContent.size = blk.size
    BY DEF NewContent
  <2>3. blk'.data = blk.data /\ blk'.start = blk.start /\ blk'.size = blk.size
        /\ blk'.hit = 1
    BY <1>10, <1>b DEF AddEvict, BlkType
  <2>4. \A x \in Buffer : mem'[x] = IF x = old THEN Free ELSE mem[x]
    BY <1>10 DEF AddEvict, Freed
  <2>c. cells' = cells
    BY <1>10 DEF AddEvict
  <2>v. \A x \in cells : x # e => entry[x].data # old
    BY <2>0, <1>d DEF EntriesOwn
  <2> HIDE DEF e, old
  <2>p. pc = "add"
    BY <1>10 DEF AddEvict
  <2>5. EntriesOwn'
    <3>1. ASSUME NEW x \in cells
          PROVE  /\ entry'[x].data \in Buffer
                 /\ mem'[entry'[x].data] \in Blocks
                 /\ entry'[x].offset = BlockStart[mem'[entry'[x].data]]
                 /\ entry'[x].size = BlockSize[mem'[entry'[x].data]]
      <4>1. CASE x = e
        BY <4>1, <2>p, <2>1, <2>2, <2>4, <2>o, <2>0, <1>b
      <4>2. CASE x # e
        BY <4>2, <2>1, <2>4, <2>v, <1>d, <1>m DEF EntriesOwn
      <4> QED BY <4>1, <4>2
    <3>2. ASSUME NEW x \in cells, NEW y \in cells,
                 \/ entry'[x].data = entry'[y].data
                 \/ entry'[x].offset = entry'[y].offset
          PROVE  x = y
      BY <3>2, <2>p, <2>1, <2>2, <1>b, <1>d, <1>m DEF EntriesOwn
    <3> QED BY <3>1, <3>2, <2>c DEF EntriesOwn
  <2>6. Claimed'
    <3>1. ASSUME NEW d \in Buffer, mem'[d] # Free
          PROVE  \E x \in cells : entry'[x].data = d
      <4>1. CASE d = blk.data
        BY <4>1, <2>0, <2>1, <2>2
      <4>2. CASE d # blk.data
        <5>1. mem[d] # Free /\ d # old
          BY <3>1, <2>4
        <5>2. PICK x \in cells : entry[x].data = d
          BY <5>1, <4>2, <1>d DEF Claimed
        <5>3. x # e
          BY <5>1, <5>2 DEF old
        <5> QED BY <5>2, <5>3, <2>1, <1>m
      <4> QED BY <4>1, <4>2
    <3> QED BY <3>1, <2>c DEF Claimed
  <2>7. ReadKnows'
    BY <1>10, <1>b, <2>3, <2>4, <2>o DEF AddEvict, ReadKnows, HoldsNew
  <2>8. PrefixRight'
    BY <1>10, <1>d DEF AddEvict, PrefixRight
  <2> QED BY <1>10, <2>5, <2>6, <2>7, <2>8 DEF AddEvict, DataInv
<1>11. CASE Copy
  <2>p. pc = "copy" /\ pc' \in {"scan", "idle"} /\ cells' = cells /\ entry' = entry
    BY <1>11 DEF Copy, cacheVars
  <2>b. /\ blk.data \in Buffer
        /\ mem[blk.data] \in Blocks
        /\ blk.start = BlockStart[mem[blk.data]]
        /\ blk.size = BlockSize[mem[blk.data]]
        /\ blk.hit = 0 => \A e \in cells : entry[e].data # blk.data
        /\ blk.start <= offset /\ offset < blk.start + blk.size
        /\ blk.start \in Nat /\ blk.size \in Nat
        /\ blk.hit \in {0, 1}
    <3>1. blk \in BlkType
      BY <1>i DEF TypeOK
    <3> QED BY <3>1, <2>p, <1>d, <1>i DEF ReadKnows, HoldsNew, LoopInv, BlkType
  <2>c. Chunk \in Nat /\ call.got + Chunk <= call.want
        /\ Chunk <= blk.start + blk.size - offset
    BY <1>c, <2>b DEF Chunk, length
  <2>g. /\ call'.got = call.got + Chunk /\ call'.want = call.want
        /\ call'.origin = call.origin
    <3>1. call \in CallType
      BY <1>i DEF TypeOK
    <3>2. call' = [call EXCEPT !.got = call.got + Chunk]
      BY <1>11 DEF Copy
    <3> QED BY <3>1, <3>2 DEF CallType
  <2>1. \A x \in Buffer : mem'[x] = IF blk.hit = 0 /\ x = blk.data
                                    THEN Free ELSE mem[x]
    BY <1>11, <2>b DEF Copy, Freed
  <2>2. EntriesOwn'
    BY <2>1, <2>b, <2>p, <1>d DEF EntriesOwn
  <2>3. Claimed'
    BY <2>1, <2>b, <2>p, <1>d DEF Claimed, HoldsNew
  <2>4. ReadKnows'
    <3>1. pc' = "scan" => iter' = list.first /\ list' = list /\ pos' = pos
      BY <1>11 DEF Copy, cacheVars
    <3> QED BY <3>1, <2>p, <1>s DEF ReadKnows, HoldsNew
  <2>5. PrefixRight'
    <3>1. ASSUME NEW i \in 0 .. call.got + Chunk - 1
          PROVE  out'[i] = call.origin + i
      <4>0. i \in 0 .. MaxLen - 1
        BY <2>c, <1>c, <1>h
      <4>1. CASE i < call.got
        BY <4>0, <4>1, <1>11, <1>d, <1>c DEF Copy, PrefixRight
      <4>2. CASE i >= call.got
        <5>1. out'[i] = ByteAt(blk.data, offset - blk.start + (i - call.got))
          BY <4>0, <4>2, <1>11, <1>c, <2>c DEF Copy
        <5>2. offset - blk.start + (i - call.got) \in 0 .. blk.size - 1
          BY <4>2, <1>c, <2>c, <2>b
        <5>3. out'[i] = blk.start + (offset - blk.start + (i - call.got))
          BY <5>1, <5>2, <2>b, <1>h DEF ByteAt
        <5> QED BY <5>3, <2>b, <1>c DEF offset
      <4> QED BY <4>1, <4>2, <1>c, <2>c
    <3>2. ret' \in {ret, call.got + Chunk}
      BY <1>11 DEF Copy
    <3>3. ret' <= call.got + Chunk
      BY <3>2, <1>c, <2>c, <1>d DEF PrefixRight
    <3>4. \A i \in 0 .. call'.got - 1 : out'[i] = call'.origin + i
      BY ONLY <3>1, <2>g, <1>c, <2>c
    <3>5. ret' <= call'.got
      BY <3>3, <2>g
    <3> QED BY ONLY <3>4, <3>5 DEF PrefixRight
  <2> QED BY <2>p, <2>2, <2>3, <2>4, <2>5 DEF DataInv
<1>12. CASE Crash
  <2>1. \A e \in cells : CanFree(entry[e].data)
    BY <1>d, <1>h DEF EntriesOwn, CanFree
  <2>2. CASE pc = "copy"
    BY <2>2, <1>12, <1>d, <1>h DEF Crash, ReadKnows, CanFree
  <2>3. CASE pc = "add"
    <3>1. list.last \in cells
      BY <2>3, <1>12, <1>e, <1>n, <1>h DEF Crash
    <3> QED BY <3>1, <2>1, <2>3, <1>12 DEF Crash
  <2>4. CASE pc = "free"
    <3>1. iter # NULL => iter \in cells
      BY <2>4, <1>i DEF LoopInv, TypeOK
    <3> QED BY <3>1, <2>1, <2>4, <1>12 DEF Crash
  <2> QED BY <2>2, <2>3, <2>4, <1>12 DEF Crash
<1>13. CASE FreeEntry
  <2>0. /\ pc = "free" /\ pc' = "free" /\ iter \in cells
        /\ UNCHANGED <<call, out, ret>>
        /\ cells' = cells \ {iter}
        /\ mem' = Freed(entry[iter].data)
        /\ entry' = [entry EXCEPT ![iter] = Blank]
    BY <1>13, <1>i DEF FreeEntry, LoopInv, TypeOK
  <2>1. \A x \in Entry : x # iter => entry'[x] = entry[x]
    BY <2>0, <1>m
  <2>2. \A x \in Buffer : mem'[x] = IF x = entry[iter].data THEN Free ELSE mem[x]
    BY <2>0 DEF Freed
  <2>3. EntriesOwn'
    BY <2>0, <2>1, <2>2, <1>d, <1>m DEF EntriesOwn
  <2>4. Claimed'
    BY <2>0, <2>1, <2>2, <1>d, <1>m DEF Claimed, HoldsNew
  <2>5. ReadKnows' /\ PrefixRight'
    BY <2>0, <1>d DEF ReadKnows, HoldsNew, PrefixRight
  <2> QED BY <2>0, <2>3, <2>4, <2>5 DEF DataInv
<1>14. CASE FreeDone
  BY <1>14, <1>d DEF FreeDone, DataInv, EntriesOwn, Claimed, ReadKnows,
                     HoldsNew, PrefixRight
<1>15. CASE UNCHANGED vars
  BY <1>15, <1>d DEF vars, DataInv, EntriesOwn, Claimed, ReadKnows, HoldsNew,
                     PrefixRight, EntryCovers, offset
<1> QED
  BY <1>1, <1>2, <1>3, <1>4, <1>5, <1>6, <1>7, <1>8, <1>9, <1>10, <1>11,
     <1>12, <1>13, <1>14, <1>15 DEF Next, Step, ReadBlock

\* As long as only what the code handles fails (an unreadable or undecodable
\* block, no memory for an entry), every cached entry is coherent, nothing
\* leaks, and the bytes xz_read says it has read are those of the image: for
\* every file, cache size and length of read.
THEOREM XzReaderCorrect ==
    ASSUME Faults \subseteq HandledFaults
    PROVE  Spec => [](CacheCoherent /\ NoLeak /\ ReadCorrect)
<1>1. StructInv /\ DataInv => CacheCoherent /\ NoLeak /\ ReadCorrect
  <2> SUFFICES ASSUME StructInv, DataInv
               PROVE  CacheCoherent /\ NoLeak /\ ReadCorrect
    OBVIOUS
  <2>0. /\ pc # "free" => cells = Cached
        /\ cells \subseteq Entry /\ mem \in [Buffer -> Blocks \cup {Free}]
        /\ NULL \notin Buffer /\ Free \notin Blocks
    BY HeapAssumption DEF StructInv, DataInv, ListWellFormed, TypeOK, Cached
  <2>1. CacheCoherent
    BY <2>0 DEF DataInv, EntriesOwn, CacheCoherent
  <2>2. NoLeak
    <3>1. CASE pc = "idle"
      BY <3>1, <2>0 DEF NoLeak, DataInv, Claimed, HoldsNew, EntriesOwn
    <3>2. CASE pc = "closed"
      <4>1. cells = {}
        BY <3>2, <2>0 DEF StructInv, LoopInv, ListWellFormed, Placed, Cached
      <4> QED BY <4>1, <3>2 DEF NoLeak, DataInv, Claimed, HoldsNew
    <3> QED BY <3>1, <3>2 DEF NoLeak
  <2>3. ReadCorrect
    <3>1. ret \in Int /\ call.got \in Int
      BY HeapAssumption DEF StructInv, TypeOK, CallType
    <3> QED BY <3>1 DEF DataInv, PrefixRight, ReadCorrect
  <2> QED BY <2>1, <2>2, <2>3
<1>2. DataInv /\ StructInv /\ [Next]_vars => DataInv'
  BY DataNext
<1> QED BY <1>1, <1>2, StructInit, StructNext, DataInit, PTL DEF Spec
=============================================================================
