---------------------------- MODULE XzLruProofs -----------------------------
(***************************************************************************)
(* The block cache of the xz reader implements LruCache, for every file    *)
(* and every size of the cache: proved step by step under the mapping of   *)
(* XzReader, from the invariants of XzReaderProofs.                        *)
(***************************************************************************)
EXTENDS XzReaderProofs

\* The rank of a block is the place of the entry that holds it.
RankKnown ==
    \A b \in Blocks :
        IF pc \in {"free", "closed"} THEN RankOf(b) = 0
        ELSE /\ \A e \in Entry : Holds(e, b) => RankOf(b) = pos[e]
             /\ (\A e \in Entry : ~Holds(e, b)) => RankOf(b) = 0

\* The block being served is the one in xz_read's hand.
ServingKnown ==
    IF pc = "copy" THEN servingBar \in Blocks /\ BlockStart[servingBar] = blk.start
    ELSE servingBar = Free

\* Two entries never hold the same block, so both are well defined.
LEMMA BarKnown == StructInv /\ DataInv => RankKnown /\ ServingKnown
<1> SUFFICES ASSUME StructInv, DataInv PROVE RankKnown /\ ServingKnown
  OBVIOUS
<1>1. RankKnown
  <2>1. SUFFICES ASSUME NEW b \in Blocks
                 PROVE  IF pc \in {"free", "closed"} THEN RankOf(b) = 0
                        ELSE /\ \A e \in Entry : Holds(e, b) => RankOf(b) = pos[e]
                             /\ (\A e \in Entry : ~Holds(e, b)) => RankOf(b) = 0
    BY DEF RankKnown
  <2>2. CASE pc \in {"free", "closed"}
    BY <2>2 DEF RankOf
  <2>3. CASE pc \notin {"free", "closed"}
    <3>1. pc \notin {"free", "dead"} /\ cells = {e \in Entry : pos[e] > 0}
      BY <2>3 DEF StructInv, ListWellFormed, DataInv
    <3>2. \A e, f \in Entry : Holds(e, b) /\ Holds(f, b) => e = f
      BY <3>1 DEF Holds, DataInv, EntriesOwn
    <3>3. ASSUME NEW e \in Entry, Holds(e, b) PROVE RankOf(b) = pos[e]
      <4>1. (CHOOSE f \in Entry : Holds(f, b)) = e
        BY <3>2, <3>3, Zenon
      <4> QED BY <2>3, <3>3, <4>1 DEF RankOf
    <3>4. (\A e \in Entry : ~Holds(e, b)) => RankOf(b) = 0
      BY DEF RankOf
    <3> QED BY <2>3, <3>3, <3>4
  <2> QED BY <2>2, <2>3
<1>2. ServingKnown
  <2>1. CASE pc = "copy"
    <3>1. \E b \in Blocks : BlockStart[b] = blk.start
      BY <2>1 DEF DataInv, ReadKnows
    <3> QED BY <2>1, <3>1 DEF ServingKnown, servingBar
  <2>2. CASE pc # "copy"
    BY <2>2 DEF ServingKnown, servingBar
  <2> QED BY <2>1, <2>2
<1> QED BY <1>1, <1>2

\* Nothing is cached before the first block, and none is served.
LEMMA LruInit == Init => Lru!Init
<1> SUFFICES ASSUME Init PROVE Lru!Init
  OBVIOUS
<1>1. rankBar = [b \in Blocks |-> 0]
  BY DEF Init, rankBar, RankOf
<1>2. servingBar = Free
  BY DEF Init, servingBar
<1> QED BY <1>1, <1>2 DEF Lru!Init

\* Ranks stay when places and contents do and the reader is not freed.
LEMMA RankStays ==
    ASSUME UNCHANGED <<pos, entry>>,
           pc \in {"free", "closed"} <=> pc' \in {"free", "closed"}
    PROVE  rankBar' = rankBar
BY DEF rankBar, RankOf, Holds

\* Every step of the reader is a step of the LRU cache or changes nothing of
\* it: a hit touches, a new block is admitted or bypassed, Copy ends the use
\* of a block and xz_reader_free clears.
LEMMA LruNext ==
    ASSUME Faults \subseteq HandledFaults, StructInv, DataInv, StructInv', DataInv',
           RankKnown, ServingKnown, RankKnown', ServingKnown', [Next]_vars
    PROVE  [Lru!Next]_<<rankBar, servingBar>>
<1>1. /\ NULL \notin Entry /\ Free \notin Blocks /\ MAX_NUM_BLOCKS_CACHE \in Nat
      /\ BlockStart \in [Blocks -> Nat]
      /\ "mismatch" \notin Faults /\ "malloc" \notin Faults /\ "io" \notin Faults
  BY BlockAssumption, HeapAssumption DEF HandledFaults
<1>2. /\ num_blocks \in 0 .. MAX_NUM_BLOCKS_CACHE /\ pos \in [Entry -> 0 .. num_blocks]
      /\ cells \subseteq Entry
      /\ entry \in [Entry -> EntryType]
      /\ pc \notin {"free", "dead"} => cells = {e \in Entry : pos[e] > 0}
      /\ blk \in BlkType /\ iter \in Entry \cup {NULL}
  BY DEF StructInv, TypeOK, ListWellFormed, Placed
<1>3. \A b \in Blocks : rankBar[b] = RankOf(b) /\ rankBar'[b] = RankOf(b)'
  BY DEF rankBar
<1>4. /\ pc # "copy" => servingBar = Free
      /\ pc' # "copy" => servingBar' = Free
  BY DEF ServingKnown
<1>5. CASE xz_reader_alloc
  <2>1. pc = "closed" /\ pc' = "idle" /\ pos' = pos
    BY <1>5 DEF xz_reader_alloc
  <2>2. \A e \in Entry : pos[e] = 0
    BY <2>1, <1>2 DEF StructInv, LoopInv
  <2>3. \A b \in Blocks : RankOf(b) = 0 /\ RankOf(b)' = 0
    BY <2>1, <2>2 DEF RankKnown, RankOf, Holds
  <2>4. rankBar' = rankBar
    BY <2>3 DEF rankBar
  <2> QED BY <2>1, <2>4, <1>4
<1>6. ASSUME NEW o \in 0 .. ImageSize, NEW k \in 0 .. MaxLen, xz_read(o, k)
      PROVE  UNCHANGED <<rankBar, servingBar>>
  BY <1>4, <1>6, RankStays DEF xz_read
<1>7. CASE xz_reader_free
  <2>1. pc = "idle" /\ pc' = "free"
    BY <1>7 DEF xz_reader_free
  <2>2. rankBar' = [b \in Blocks |-> 0]
    BY <2>1 DEF rankBar, RankOf
  <2> QED BY <2>1, <2>2, <1>4 DEF Lru!Next, Lru!Clear
<1>8. CASE ScanNext \/ LocateFails \/ HeaderFails \/ DecodeFails \/ ReadBlockOk
  <2>1. UNCHANGED <<pos, entry>> /\ pc = "scan" /\ pc' \in {"scan", "idle", "add"}
    BY <1>8 DEF ScanNext, LocateFails, HeaderFails, DecodeFails, ReadBlockOk, Miss,
                ReturnError, cacheVars
  <2> QED BY <2>1, <1>4, RankStays
<1>9. CASE FreeEntry \/ FreeDone
  <2>1. pc = "free" /\ pc' \in {"free", "closed"}
    BY <1>9 DEF FreeEntry, FreeDone
  <2>2. rankBar' = rankBar
    BY <2>1 DEF rankBar, RankOf
  <2> QED BY <2>1, <2>2, <1>4
<1>10. CASE Copy
  <2>1. UNCHANGED <<pos, entry>> /\ pc = "copy" /\ pc' \in {"scan", "idle"}
    BY <1>10 DEF Copy, cacheVars
  <2>2. servingBar # Free /\ servingBar' = Free /\ rankBar' = rankBar
    BY <2>1, <1>1, <1>4, RankStays DEF ServingKnown
  <2> QED BY <2>2 DEF Lru!Next, Lru!Done
<1>11. CASE ScanHit
  <2>1. /\ pc = "scan" /\ pc' = "copy" /\ iter \in Entry /\ UNCHANGED entry
        /\ pos' = Promoted(pos, iter) /\ blk'.start = entry[iter].offset
    BY <1>11, <1>2 DEF ScanHit, MoveToHead
  <2>2. pos[iter] > 0 /\ iter \in cells
    BY <1>11, <2>1, <1>2 DEF ScanHit, StructInv, LoopInv
  <2> DEFINE b == servingBar'
  <2>3. b \in Blocks /\ Holds(iter, b)
    BY <2>1, <2>2 DEF ServingKnown, Holds
  <2>4. servingBar = Free /\ rankBar[b] = pos[iter]
    BY <2>1, <2>3, <1>3, <1>4 DEF RankKnown
  <2> HIDE DEF b
  <2>5. \A e \in Entry : pos'[e] = IF e = iter THEN 1
                                   ELSE IF 0 < pos[e] /\ pos[e] < pos[iter]
                                        THEN pos[e] + 1 ELSE pos[e]
    BY <2>1 DEF Promoted
  <2>6. ASSUME NEW c \in Blocks
        PROVE  rankBar'[c] = IF c = b THEN 1
                             ELSE IF 0 < rankBar[c] /\ rankBar[c] < rankBar[b]
                                  THEN rankBar[c] + 1 ELSE rankBar[c]
    <3>1. CASE \E e \in Entry : Holds(e, c)
      <4>1. PICK e \in Entry : Holds(e, c)
        BY <3>1
      <4>2. pos[e] > 0 /\ rankBar[c] = pos[e]
        BY <4>1, <2>1, <1>3 DEF Holds, RankKnown
      <4>3. Holds(e, c)'
        BY <4>1, <4>2, <2>1, <2>5, <1>2 DEF Holds
      <4>4. rankBar'[c] = pos'[e]
        BY <4>3, <2>1, <1>3 DEF RankKnown
      <4>5. e = iter <=> c = b
        <5>1. e = iter => c = b
          BY <4>1, <2>3, SameStart DEF Holds
        <5>2. c = b => e = iter
          BY <4>1, <4>2, <2>1, <2>2, <2>3, <1>2 DEF Holds, DataInv, EntriesOwn
        <5> QED BY <5>1, <5>2
      <4> QED BY <4>2, <4>4, <4>5, <2>4, <2>5
    <3>2. CASE \A e \in Entry : ~Holds(e, c)
      <4>1. rankBar[c] = 0 /\ c # b
        BY <3>2, <2>1, <2>3, <1>3 DEF RankKnown
      <4>2. \A e \in Entry : ~Holds(e, c)'
        BY <3>2, <2>1, <2>2, <2>5, <1>2 DEF Holds
      <4>3. rankBar'[c] = 0
        BY <4>2, <2>1, <1>3 DEF RankKnown
      <4> QED BY <4>1, <4>3
    <3> QED BY <3>1, <3>2
  <2>7. rankBar' = [c \in Blocks |-> IF c = b THEN 1
                                     ELSE IF 0 < rankBar[c] /\ rankBar[c] < rankBar[b]
                                          THEN rankBar[c] + 1 ELSE rankBar[c]]
    BY <2>6 DEF rankBar
  <2>8. Lru!Touch(b)
    BY <2>2, <2>4, <2>7, <1>2 DEF Lru!Touch, Lru!Serve, b
  <2> QED BY <2>3, <2>8 DEF Lru!Next
<1>12. ASSUME pc = "add"
       PROVE  /\ servingBar = Free /\ blk.start \in Nat
              /\ \A b \in Blocks : BlockStart[b] = blk.start => rankBar[b] = 0
              /\ \A e \in Entry, b \in Blocks :
                    BlockStart[b] = blk.start => ~Holds(e, b)
  <2>1. \A e \in Entry, b \in Blocks : BlockStart[b] = blk.start => ~Holds(e, b)
    BY <1>12, <1>2 DEF Holds, DataInv, ReadKnows, HoldsNew
  <2>2. \A b \in Blocks : BlockStart[b] = blk.start => rankBar[b] = 0
    BY <1>12, <2>1, <1>3 DEF RankKnown
  <2> QED BY <1>4, <1>12, <2>1, <2>2, <1>2 DEF BlkType
<1>13. CASE AddRefused
  <2>1. /\ pc = "add" /\ pc' = "copy" /\ UNCHANGED <<pos, entry, blk>>
        /\ MAX_NUM_BLOCKS_CACHE = 0 \/ num_blocks < MAX_NUM_BLOCKS_CACHE
    BY <1>13 DEF AddRefused, cacheVars
  <2> DEFINE b == servingBar'
  <2>2. b \in Blocks /\ BlockStart[b] = blk.start
    BY <2>1 DEF ServingKnown
  <2>3. servingBar = Free /\ rankBar[b] = 0 /\ rankBar' = rankBar
    BY <2>1, <2>2, <1>12, RankStays
  <2>4. MAX_NUM_BLOCKS_CACHE > 0 => \A c \in Blocks : rankBar[c] < MAX_NUM_BLOCKS_CACHE
    <3>1. SUFFICES ASSUME MAX_NUM_BLOCKS_CACHE > 0, NEW c \in Blocks
                   PROVE  rankBar[c] < MAX_NUM_BLOCKS_CACHE
      OBVIOUS
    <3>2. CASE \E e \in Entry : Holds(e, c)
      BY <3>1, <3>2, <2>1, <1>1, <1>2, <1>3 DEF RankKnown
    <3>3. CASE \A e \in Entry : ~Holds(e, c)
      BY <3>1, <3>3, <2>1, <1>3 DEF RankKnown
    <3> QED BY <3>2, <3>3
  <2> HIDE DEF b
  <2>5. Lru!Bypass(b)
    BY <2>3, <2>4 DEF Lru!Bypass, Lru!Serve, b
  <2> QED BY <2>2, <2>5 DEF Lru!Next
<1>14. CASE AddPush
  <2>1. PICK x \in Entry \ cells :
           /\ entry' = [entry EXCEPT ![x] = NewContent] /\ pos' = Pushed(pos, x)
    BY <1>14 DEF AddPush
  <2>2. /\ pc = "add" /\ pc' = "copy" /\ num_blocks < MAX_NUM_BLOCKS_CACHE
        /\ blk' = [blk EXCEPT !.hit = 1]
    BY <1>14 DEF AddPush
  <2> DEFINE b == servingBar'
  <2>3. b \in Blocks /\ BlockStart[b] = blk.start
    BY <2>2, <1>2 DEF ServingKnown, BlkType
  <2>4. servingBar = Free /\ rankBar[b] = 0 /\ \A e \in Entry : ~Holds(e, b)
    BY <2>2, <2>3, <1>12
  <2>5. pos[x] = 0 /\ entry'[x].offset = blk.start
        /\ \A e \in Entry : e # x => entry'[e] = entry[e]
    BY <2>1, <2>2, <1>2 DEF NewContent
  <2>6. \A e \in Entry : pos'[e] = IF e = x THEN 1 ELSE IF 0 < pos[e] THEN pos[e] + 1 ELSE 0
    BY <2>1 DEF Pushed
  <2> HIDE DEF b
  <2>7. ASSUME NEW c \in Blocks
        PROVE  rankBar'[c] = IF c = b THEN 1
                             ELSE IF rankBar[c] = 0 \/ rankBar[c] = MAX_NUM_BLOCKS_CACHE
                                  THEN 0 ELSE rankBar[c] + 1
    <3>1. CASE c = b
      <4>1. Holds(x, c)'
        BY <3>1, <2>3, <2>5, <2>6 DEF Holds
      <4> QED BY <3>1, <4>1, <2>2, <2>6, <1>3 DEF RankKnown
    <3>2. CASE c # b /\ \E e \in Entry : Holds(e, c)
      <4>1. PICK e \in Entry : Holds(e, c)
        BY <3>2
      <4>2. pos[e] > 0 /\ rankBar[c] = pos[e] /\ e # x /\ pos[e] < MAX_NUM_BLOCKS_CACHE
        BY <4>1, <2>2, <2>5, <1>1, <1>2, <1>3 DEF Holds, RankKnown
      <4>3. Holds(e, c)'
        BY <4>1, <4>2, <2>5, <2>6, <1>2 DEF Holds
      <4>4. rankBar'[c] = pos[e] + 1
        BY <4>2, <4>3, <2>2, <2>6, <1>3 DEF RankKnown
      <4> QED BY <3>2, <4>2, <4>4, <1>1, <1>2
    <3>3. CASE c # b /\ \A e \in Entry : ~Holds(e, c)
      <4>1. rankBar[c] = 0
        BY <3>3, <2>2, <1>3 DEF RankKnown
      <4>2. BlockStart[c] # blk.start
        BY <3>3, <2>3, SameStart
      <4>3. \A e \in Entry : ~Holds(e, c)'
        BY <3>3, <4>2, <2>5, <2>6, <1>2 DEF Holds
      <4>4. rankBar'[c] = 0
        BY <4>3, <2>2, <1>3 DEF RankKnown
      <4> QED BY <3>3, <4>1, <4>4
    <3> QED BY <3>1, <3>2, <3>3
  <2>8. rankBar' = [c \in Blocks |->
                      IF c = b THEN 1
                      ELSE IF rankBar[c] = 0 \/ rankBar[c] = MAX_NUM_BLOCKS_CACHE
                           THEN 0 ELSE rankBar[c] + 1]
    BY <2>7 DEF rankBar
  <2>9. MAX_NUM_BLOCKS_CACHE > 0
    BY <2>2, <1>1, <1>2
  <2>10. Lru!Admit(b)
    BY <2>4, <2>8, <2>9 DEF Lru!Admit, Lru!Serve, b
  <2> QED BY <2>3, <2>10 DEF Lru!Next
<1>15. CASE AddEvict
  <2>1. /\ pc = "add" /\ pc' = "copy" /\ num_blocks = MAX_NUM_BLOCKS_CACHE
        /\ MAX_NUM_BLOCKS_CACHE > 0
        /\ blk' = [blk EXCEPT !.hit = 1]
        /\ entry' = [entry EXCEPT ![list.last] = NewContent]
        /\ pos' = Promoted(pos, list.last)
    BY <1>15, <1>1, <1>2 DEF AddEvict, MoveToHead
  <2>2. PICK x \in Entry :
           /\ pos[x] = MAX_NUM_BLOCKS_CACHE /\ pos' = Promoted(pos, x)
           /\ entry' = [entry EXCEPT ![x] = NewContent]
    <3>1. list \in ListType /\ Placed(pos, num_blocks) /\ Linked(list, pos, num_blocks)
      BY DEF StructInv, TypeOK, ListWellFormed
    <3>2. list.last \in Entry /\ pos[list.last] = MAX_NUM_BLOCKS_CACHE
      BY <2>1, <3>1, <1>1, Ends
    <3> QED BY <2>1, <3>2
  <2> DEFINE b == servingBar'
  <2>3. b \in Blocks /\ BlockStart[b] = blk.start
    BY <2>1, <1>2 DEF ServingKnown, BlkType
  <2>4. servingBar = Free /\ rankBar[b] = 0 /\ \A e \in Entry : ~Holds(e, b)
    BY <2>1, <2>3, <1>12
  <2>5. /\ entry'[x].offset = blk.start
        /\ \A e \in Entry : e # x => entry'[e] = entry[e]
    BY <2>1, <2>2, <1>2 DEF NewContent
  <2>6. \A e \in Entry : pos'[e] = IF e = x THEN 1
                                   ELSE IF 0 < pos[e] THEN pos[e] + 1 ELSE 0
    <3>1. \A e \in Entry : e # x /\ pos[e] > 0 => pos[e] < pos[x]
      BY <2>1, <2>2, <1>1, <1>2 DEF StructInv, ListWellFormed, Placed
    <3> QED BY <2>2, <3>1, <1>2 DEF Promoted
  <2> HIDE DEF b
  <2>7. ASSUME NEW c \in Blocks
        PROVE  rankBar'[c] = IF c = b THEN 1
                             ELSE IF rankBar[c] = 0 \/ rankBar[c] = MAX_NUM_BLOCKS_CACHE
                                  THEN 0 ELSE rankBar[c] + 1
    <3>1. CASE c = b
      <4>1. Holds(x, c)'
        BY <3>1, <2>2, <2>3, <2>5, <2>6 DEF Holds
      <4> QED BY <3>1, <4>1, <2>1, <2>2, <2>6, <1>3 DEF RankKnown
    <3>2. ASSUME c # b, NEW e \in Entry, Holds(e, c), e # x
          PROVE  /\ rankBar[c] = pos[e] /\ pos[e] > 0 /\ pos[e] # MAX_NUM_BLOCKS_CACHE
                 /\ rankBar'[c] = pos[e] + 1
      <4>1. pos[e] > 0 /\ rankBar[c] = pos[e]
        BY <3>2, <2>1, <1>3 DEF Holds, RankKnown
      <4>2. Holds(e, c)'
        BY <3>2, <4>1, <2>5, <2>6, <1>2 DEF Holds
      <4>3. rankBar'[c] = pos[e] + 1
        BY <3>2, <4>1, <4>2, <2>1, <2>6, <1>3 DEF RankKnown
      <4>4. pos[e] # MAX_NUM_BLOCKS_CACHE
        BY <3>2, <2>1, <2>2 DEF StructInv, ListWellFormed, Placed
      <4> QED BY <4>1, <4>3, <4>4
    <3>3. ASSUME c # b, \A e \in Entry : e # x => ~Holds(e, c)
          PROVE  /\ rankBar[c] \in {0, MAX_NUM_BLOCKS_CACHE}
                 /\ rankBar'[c] = 0
      <4>1. rankBar[c] \in {0, MAX_NUM_BLOCKS_CACHE}
        BY <3>3, <2>1, <2>2, <1>3 DEF RankKnown
      <4>2. BlockStart[c] # blk.start
        BY <3>3, <2>3, SameStart
      <4>3. \A e \in Entry : ~Holds(e, c)'
        BY <3>3, <4>2, <2>5, <2>6, <1>2 DEF Holds
      <4>4. rankBar'[c] = 0
        BY <4>3, <2>1, <1>3 DEF RankKnown
      <4> QED BY <4>1, <4>4
    <3>4. CASE c # b /\ \E e \in Entry : Holds(e, c) /\ e # x
      BY <3>2, <3>4, <1>2
    <3> QED BY <3>1, <3>3, <3>4
  <2>8. rankBar' = [c \in Blocks |->
                      IF c = b THEN 1
                      ELSE IF rankBar[c] = 0 \/ rankBar[c] = MAX_NUM_BLOCKS_CACHE
                           THEN 0 ELSE rankBar[c] + 1]
    BY <2>7 DEF rankBar
  <2>9. Lru!Admit(b)
    BY <2>1, <2>4, <2>8 DEF Lru!Admit, Lru!Serve, b
  <2> QED BY <2>3, <2>9 DEF Lru!Next
<1>16. CASE UNCHANGED vars
  <2>1. UNCHANGED <<pos, entry, pc, blk>>
    BY <1>16 DEF vars
  <2>2. rankBar' = rankBar /\ servingBar' = servingBar
    BY <2>1, RankStays DEF servingBar
  <2> QED BY <2>2
\* A crash, or a failure the code does not handle, does not happen.
<1>17. ~Crash /\ ~MismatchFails /\ ~MallocFails /\ ~DataReadFails
  BY <1>1 DEF Crash, MismatchFails, MallocFails, DataReadFails, DataInv
<1> QED BY <1>5, <1>6, <1>7, <1>8, <1>9, <1>10, <1>11, <1>13, <1>14, <1>15, <1>16, <1>17
     DEF Next, Step, ReadBlock

\* The linked list with its hits, misses, evictions and failed reads is an LRU
\* cache of MAX_NUM_BLOCKS_CACHE blocks, whatever the file and the size.
THEOREM CacheIsLru ==
    ASSUME Faults \subseteq HandledFaults
    PROVE  Spec => LruRefinement
<1>1. DataInv /\ StructInv /\ [Next]_vars => DataInv'
  BY DataNext
<1>2. /\ StructInv /\ DataInv /\ RankKnown /\ ServingKnown
      /\ StructInv' /\ DataInv' /\ RankKnown' /\ ServingKnown' /\ [Next]_vars
      => [Lru!Next]_<<rankBar, servingBar>>
  BY LruNext
<1>3. Spec => Lru!Init /\ [][Lru!Next]_<<rankBar, servingBar>>
  BY <1>1, <1>2, StructInit, StructNext, DataInit, BarKnown, LruInit, PTL DEF Spec
<1> QED BY <1>3 DEF LruRefinement, Lru!Spec
=============================================================================
