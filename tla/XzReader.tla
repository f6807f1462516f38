------------------------------ MODULE XzReader ------------------------------
(***************************************************************************)
(* The xz reader (src/compression/xz/xz_reader.c): xz_read, the block      *)
(* cache it keeps (a doubly linked list of entries in order of last use),  *)
(* every way read_block can end, and xz_reader_free.                       *)
(*                                                                         *)
(* The image is a sequence of bytes in which byte a has the value a, so a  *)
(* byte read from the wrong place has the wrong value.  A heap buffer      *)
(* holds one decompressed block or is free; liblzma is external and is     *)
(* modelled by what read_block makes of its answers.  The recursion of     *)
(* xz_read is a loop: `got' is what the outer calls have already copied.   *)
(***************************************************************************)
EXTENDS Integers, FiniteSets

CONSTANTS
    Blocks,                \* the blocks of the xz file
    BlockStart,            \* uncompressed offset of each block
    BlockSize,             \* uncompressed size of each block
    ImageSize,             \* uncompressed size of the file
    MAX_NUM_BLOCKS_CACHE,
    Entry,                 \* addresses malloc may give to cache entries
    Buffer,                \* addresses malloc may give to blocks
    NULL,
    Free,                  \* content of a buffer that is not allocated
    MaxLen,                \* bound: longest read
    Faults                 \* what may go wrong, subset of AllFaults

\* Outcomes of read_block and add_new_block other than success.  The first
\* three reach xz_read as an error or are handled; the others do not.
HandledFaults == {"header", "decode", "entry_malloc"}
AllFaults == HandledFaults \cup {"mismatch", "malloc", "io"}

Covers(b, a) == BlockStart[b] <= a /\ a < BlockStart[b] + BlockSize[b]

ASSUME BlockAssumption ==
    /\ ImageSize \in Nat
    /\ BlockStart \in [Blocks -> Nat]
    /\ BlockSize \in [Blocks -> Nat \ {0}]
    /\ \A b \in Blocks : BlockStart[b] + BlockSize[b] <= ImageSize
    /\ \A a \in 0 .. ImageSize - 1 : \E b \in Blocks : Covers(b, a)
    /\ \A b, c \in Blocks : \A a \in 0 .. ImageSize - 1 :
          Covers(b, a) /\ Covers(c, a) => b = c

ASSUME HeapAssumption ==
    /\ MAX_NUM_BLOCKS_CACHE \in Nat
    /\ NULL \notin Entry
    /\ NULL \notin Buffer
    /\ Free \notin Blocks
    /\ MaxLen \in Nat
    /\ Faults \subseteq AllFaults

READER_ERROR == -1
Unset == -1      \* a byte of the caller's buffer nobody has written
Garbage == -2    \* a byte read from memory that is not the reader's

VARIABLES
    list,        \* the links: first, last, next, prev
    num_blocks,
    entry,       \* offset, size and data of each entry
    cells,       \* the entries that are allocated
    mem,         \* content of each buffer
    pc,          \* where the reader is
    iter,        \* the entry a loop over the list has reached
    count,       \* the counter of free_cache_entries
    call,        \* the read under way or last done: where, how much, copied
    blk,         \* xz_read's locals block, start, size and cache_hit
    out,         \* the caller's buffer
    ret,         \* what the last xz_read returned
    pos          \* auxiliary, in no guard: place of each entry in the list

cacheVars == <<list, num_blocks, entry, cells, pos>>
vars == <<list, num_blocks, entry, cells, mem, pc, iter, count, call, blk,
          out, ret, pos>>

Pcs == {"closed", "idle", "scan", "add", "copy", "free", "dead"}

\* The offset the current (recursive) call of xz_read was given.
offset == call.origin + call.got

\* length of the current call.
length == call.want - call.got

NoBlock == [data |-> NULL, start |-> 0, size |-> 0, hit |-> 0]

EmptyList == [first |-> NULL, last |-> NULL,
              next |-> [e \in Entry |-> NULL], prev |-> [e \in Entry |-> NULL]]

\* The content of an entry nobody has written to.
Blank == [offset |-> 0, size |-> 0, data |-> NULL]

Init ==
    /\ list = EmptyList
    /\ num_blocks = 0
    /\ entry = [e \in Entry |-> Blank]
    /\ cells = {}
    /\ mem = [b \in Buffer |-> Free]
    /\ pc = "closed"
    /\ iter = NULL
    /\ count = 0
    /\ call = [origin |-> 0, want |-> 0, got |-> 0]
    /\ blk = NoBlock
    /\ out = [i \in 0 .. MaxLen - 1 |-> Unset]
    /\ ret = 0
    /\ pos = [e \in Entry |-> 0]

-----------------------------------------------------------------------------
(* The list.                                                               *)

\* Mutant: the tail moves to the head and `last' keeps pointing at it.
MoveForgetsLast(l, e) ==
    IF l.first = e THEN l
    ELSE [first |-> e, last |-> l.last,
          next |-> [l.next EXCEPT ![l.prev[e]] = l.next[e], ![e] = l.first],
          prev |-> [x \in Entry |-> IF x = l.first THEN e
                                    ELSE IF x = e THEN NULL
                                    ELSE IF x = l.next[e] THEN l.prev[e]
                                    ELSE l.prev[x]]]

move_to_cache_head(l, e) ==
    IF l.first = e THEN l
    ELSE LET n == l.next[e]
             p == l.prev[e]
         IN  [first |-> e,
              last  |-> IF n = NULL THEN p ELSE l.last,
              next  |-> [x \in Entry |-> IF x = e THEN l.first
                                         ELSE IF x = p THEN n ELSE l.next[x]],
              prev  |-> [x \in Entry |-> IF x = l.first THEN e
                                         ELSE IF x = e THEN NULL
                                         ELSE IF x = n THEN p ELSE l.prev[x]]]

\* The links add_new_block sets for an entry it has allocated.
push_front(l, e) ==
    [first |-> e,
     last  |-> IF l.last = NULL THEN e ELSE l.last,
     next  |-> [l.next EXCEPT ![e] = l.first],
     prev  |-> [x \in Entry |-> IF x = l.first THEN e
                                ELSE IF x = e THEN NULL ELSE l.prev[x]]]

\* What the two do to the places.
Promoted(p, e) ==
    [x \in Entry |-> IF x = e THEN 1
                     ELSE IF 0 < p[x] /\ p[x] < p[e] THEN p[x] + 1 ELSE p[x]]
Pushed(p, e) ==
    [x \in Entry |-> IF x = e THEN 1 ELSE IF 0 < p[x] THEN p[x] + 1 ELSE 0]

\* Mutant: a used entry stays where it is, as in a FIFO cache.
StayInPlace(e) == UNCHANGED <<list, pos>>

MoveToHead(e) ==
    /\ list' = move_to_cache_head(list, e)
    /\ pos' = Promoted(pos, e)

-----------------------------------------------------------------------------
(* xz_reader_alloc and the entry of xz_read.                               *)

xz_reader_alloc ==
    /\ pc = "closed"
    /\ pc' = "idle"
    /\ list' = EmptyList
    /\ num_blocks' = 0
    /\ UNCHANGED <<entry, cells, mem, iter, count, call, blk, out, ret, pos>>

\* The caller's buffer is fresh; get_cache_block starts at the first entry.
xz_read(o, n) ==
    /\ pc = "idle"
    /\ pc' = "scan"
    /\ call' = [origin |-> o, want |-> n, got |-> 0]
    /\ out' = [i \in 0 .. MaxLen - 1 |-> Unset]
    /\ ret' = 0
    /\ iter' = list.first
    /\ UNCHANGED <<list, num_blocks, entry, cells, mem, count, blk, pos>>

\* Mutants: the entry's start is not tested; its end is taken as inside.
CoversBelowEnd(e) == offset < entry[e].offset + entry[e].size
CoversEnd(e) ==
    entry[e].offset <= offset /\ offset <= entry[e].offset + entry[e].size

\* get_cache_block: one turn of its loop.
EntryCovers(e) ==
    /\ entry[e].offset <= offset
    /\ offset < entry[e].offset + entry[e].size

ScanNext ==
    /\ pc = "scan"
    /\ iter # NULL
    /\ ~EntryCovers(iter)
    /\ iter' = list.next[iter]
    /\ UNCHANGED <<list, num_blocks, entry, cells, mem, pc, count, call, blk,
                   out, ret, pos>>

ScanHit ==
    /\ pc = "scan"
    /\ iter # NULL
    /\ EntryCovers(iter)
    /\ blk' = [data |-> entry[iter].data, start |-> entry[iter].offset,
               size |-> entry[iter].size, hit |-> 1]
    /\ MoveToHead(iter)
    /\ pc' = "copy"
    /\ iter' = NULL
    /\ UNCHANGED <<num_blocks, entry, cells, mem, count, call, out, ret>>

-----------------------------------------------------------------------------
(* read_block, reached when the scan found nothing.                        *)

Miss == pc = "scan" /\ iter = NULL

\* xz_read returns READER_ERROR; the calls around it add what they copied.
ReturnError ==
    /\ pc' = "idle"
    /\ ret' = call.got + READER_ERROR

\* lzma_index_iter_locate finds no block: the offset is past the end.
LocateFails ==
    /\ Miss
    /\ \A b \in Blocks : ~Covers(b, offset)
    /\ ReturnError
    /\ UNCHANGED <<cacheVars, mem, iter, count, call, blk, out>>

\* The header cannot be read or decoded: *data was not touched.
HeaderFails ==
    /\ Miss
    /\ "header" \in Faults
    /\ \E b \in Blocks : Covers(b, offset)
    /\ ReturnError
    /\ UNCHANGED <<cacheVars, mem, iter, count, call, blk, out>>

\* The header disagrees with the index, or no decoder can be set up: error1
\* frees *data, which xz_read never initialised.  free(NULL) does nothing, a
\* stale pointer to a block's data frees that block (of the objects this module
\* has only those are taken to be hit, not list entries), anything else aborts.
MismatchFails ==
    /\ Miss
    /\ "mismatch" \in Faults
    /\ \E b \in Blocks : Covers(b, offset)
    /\ \/ ReturnError /\ UNCHANGED mem
       \/ \E d \in Buffer : /\ mem[d] # Free
                            /\ mem' = [mem EXCEPT ![d] = Free]
                            /\ ReturnError
       \/ pc' = "dead" /\ UNCHANGED <<mem, ret>>
    /\ UNCHANGED <<cacheVars, iter, count, call, blk, out>>

\* lzma_code fails after *data was allocated: error2 frees it.
DecodeFails ==
    /\ Miss
    /\ "decode" \in Faults
    /\ \E b \in Blocks : Covers(b, offset)
    /\ \E d \in Buffer : mem[d] = Free
    /\ ReturnError
    /\ UNCHANGED <<cacheVars, mem, iter, count, call, blk, out>>

\* read_block returns LZMA_OK with block b in the buffer d.
BlockIs(b, d) ==
    blk' = [data |-> d, start |-> BlockStart[b], size |-> BlockSize[b],
            hit |-> 0]

ReadBlockOk ==
    /\ Miss
    /\ \E b \in Blocks, d \in Buffer :
          /\ Covers(b, offset)
          /\ mem[d] = Free
          /\ mem' = [mem EXCEPT ![d] = b]
          /\ BlockIs(b, d)
    /\ pc' = "add"
    /\ UNCHANGED <<cacheVars, iter, count, call, out, ret>>

\* malloc fails: error2 is reached while return_value is still LZMA_OK.
MallocFails ==
    /\ Miss
    /\ "malloc" \in Faults
    /\ \E b \in Blocks : Covers(b, offset) /\ BlockIs(b, NULL)
    /\ pc' = "add"
    /\ UNCHANGED <<cacheVars, mem, iter, count, call, out, ret>>

\* A pread of block data comes up short: error2 frees *data, and again
\* return_value is still LZMA_OK.
DataReadFails ==
    /\ Miss
    /\ "io" \in Faults
    /\ \E b \in Blocks, d \in Buffer :
          Covers(b, offset) /\ mem[d] = Free /\ BlockIs(b, d)
    /\ pc' = "add"
    /\ UNCHANGED <<cacheVars, mem, iter, count, call, out, ret>>

-----------------------------------------------------------------------------
(* add_new_block.                                                          *)

\* Mutant: the entry records the offset asked for, not the block's start.
ContentAtOffset == [offset |-> offset, size |-> blk.size, data |-> blk.data]

NewContent == [offset |-> blk.start, size |-> blk.size, data |-> blk.data]

\* No cache at all, or no memory for an entry: the block stays uncached.
AddRefused ==
    /\ pc = "add"
    /\ \/ MAX_NUM_BLOCKS_CACHE = 0
       \/ num_blocks < MAX_NUM_BLOCKS_CACHE /\ "entry_malloc" \in Faults
    /\ pc' = "copy"
    /\ UNCHANGED <<cacheVars, mem, iter, count, call, blk, out, ret>>

AddPush ==
    /\ pc = "add"
    /\ num_blocks < MAX_NUM_BLOCKS_CACHE
    /\ \E e \in Entry \ cells :
          /\ cells' = cells \cup {e}
          /\ entry' = [entry EXCEPT ![e] = NewContent]
          /\ list' = push_front(list, e)
          /\ pos' = Pushed(pos, e)
    /\ num_blocks' = num_blocks + 1
    /\ blk' = [blk EXCEPT !.hit = 1]
    /\ pc' = "copy"
    /\ UNCHANGED <<mem, iter, count, call, out, ret>>

\* Mutant: the old data is not freed.
NotFreed(d) == mem

\* free(p): a second free of the same buffer aborts the program.
CanFree(d) == d # NULL => mem[d] # Free
Freed(d) == [b \in Buffer |-> IF b = d THEN Free ELSE mem[b]]

\* The cache is full: the last entry moves to the front and is overwritten.
AddEvict ==
    /\ pc = "add"
    /\ MAX_NUM_BLOCKS_CACHE > 0
    /\ num_blocks >= MAX_NUM_BLOCKS_CACHE
    /\ CanFree(entry[list.last].data)
    /\ mem' = Freed(entry[list.last].data)
    /\ entry' = [entry EXCEPT ![list.last] = NewContent]
    /\ MoveToHead(list.last)
    /\ blk' = [blk EXCEPT !.hit = 1]
    /\ pc' = "copy"
    /\ UNCHANGED <<num_blocks, cells, iter, count, call, out, ret>>

-----------------------------------------------------------------------------
(* The rest of xz_read: memcpy, free, recursion or return.                 *)

\* Bytes the current call takes from the block it has.
Chunk == IF blk.start + blk.size - offset < length
         THEN blk.start + blk.size - offset ELSE length

\* Byte i of the buffer at d.
ByteAt(d, i) ==
    IF mem[d] # Free /\ i \in 0 .. BlockSize[mem[d]] - 1
    THEN BlockStart[mem[d]] + i ELSE Garbage

\* Mutant: a last byte in the next block is forgotten.
MoreThanOne == length - Chunk > 1

\* The recursive call is due.
More == length - Chunk > 0

Copy ==
    /\ pc = "copy"
    /\ blk.data # NULL \/ Chunk = 0
    /\ blk.hit = 1 \/ CanFree(blk.data)
    /\ out' = [i \in 0 .. MaxLen - 1 |->
                 IF call.got <= i /\ i < call.got + Chunk
                 THEN ByteAt(blk.data, offset - blk.start + (i - call.got))
                 ELSE out[i]]
    /\ mem' = IF blk.hit = 1 THEN mem ELSE Freed(blk.data)
    /\ call' = [call EXCEPT !.got = @ + Chunk]
    /\ IF More
       THEN pc' = "scan" /\ iter' = list.first /\ UNCHANGED ret
       ELSE pc' = "idle" /\ ret' = call.got + Chunk /\ UNCHANGED iter
    /\ blk' = NoBlock
    /\ UNCHANGED <<cacheVars, count>>

\* memcpy from NULL, or a double free: the process is killed.
Crash ==
    /\ \/ pc = "copy" /\ blk.data = NULL /\ Chunk > 0
       \/ pc = "copy" /\ blk.hit = 0 /\ ~CanFree(blk.data)
       \/ /\ pc = "add"
          /\ num_blocks >= MAX_NUM_BLOCKS_CACHE /\ MAX_NUM_BLOCKS_CACHE > 0
          /\ ~CanFree(entry[list.last].data)
       \/ pc = "free" /\ iter # NULL /\ ~CanFree(entry[iter].data)
    /\ pc' = "dead"
    /\ UNCHANGED <<cacheVars, mem, iter, count, call, blk, out, ret>>

-----------------------------------------------------------------------------
(* xz_reader_free: free_cache_entries walks the list.                      *)

xz_reader_free ==
    /\ pc = "idle"
    /\ pc' = "free"
    /\ iter' = list.first
    /\ count' = 0
    /\ UNCHANGED <<cacheVars, mem, call, blk, out, ret>>

FreeEntry ==
    /\ pc = "free"
    /\ iter # NULL
    /\ CanFree(entry[iter].data)
    /\ mem' = Freed(entry[iter].data)
    /\ cells' = cells \ {iter}
    /\ entry' = [entry EXCEPT ![iter] = Blank]
    /\ iter' = list.next[iter]
    /\ count' = count + 1
    /\ UNCHANGED <<list, num_blocks, pos, pc, call, blk, out, ret>>

FreeDone ==
    /\ pc = "free"
    /\ iter = NULL
    /\ num_blocks' = 0
    /\ count' = 0
    /\ list' = EmptyList
    /\ pos' = [e \in Entry |-> 0]
    /\ pc' = "closed"
    /\ UNCHANGED <<entry, cells, mem, iter, call, blk, out, ret>>

-----------------------------------------------------------------------------
ReadBlock ==
    \/ LocateFails \/ HeaderFails \/ MismatchFails \/ DecodeFails
    \/ ReadBlockOk \/ MallocFails \/ DataReadFails

\* The steps of an operation that has begun.
Step ==
    \/ ScanNext \/ ScanHit
    \/ ReadBlock
    \/ AddRefused \/ AddPush \/ AddEvict
    \/ Copy \/ Crash
    \/ FreeEntry \/ FreeDone

Next ==
    \/ xz_reader_alloc
    \/ \E o \in 0 .. ImageSize, n \in 0 .. MaxLen : xz_read(o, n)
    \/ xz_reader_free
    \/ Step

Spec == Init /\ [][Next]_vars

\* The thread that called the reader runs on until the operation is done.
FairSpec == Spec /\ WF_vars(Step)

-----------------------------------------------------------------------------
(* Properties.                                                             *)

ListType == [first : Entry \cup {NULL}, last : Entry \cup {NULL},
             next : [Entry -> Entry \cup {NULL}],
             prev : [Entry -> Entry \cup {NULL}]]
EntryType == [offset : Nat, size : Nat, data : Buffer \cup {NULL}]
CallType == [origin : Nat, want : 0 .. MaxLen, got : 0 .. MaxLen]
BlkType == [data : Buffer \cup {NULL}, start : Nat, size : Nat, hit : {0, 1}]

\* Every variable has its type: num_blocks never exceeds the limit and no
\* read copies more than the caller's buffer holds.
TypeOK ==
    /\ list \in ListType
    /\ num_blocks \in 0 .. MAX_NUM_BLOCKS_CACHE
    /\ entry \in [Entry -> EntryType]
    /\ cells \subseteq Entry
    /\ mem \in [Buffer -> Blocks \cup {Free}]
    /\ pc \in Pcs
    /\ iter \in Entry \cup {NULL}
    /\ count \in Nat
    /\ call \in CallType
    /\ blk \in BlkType
    /\ out \in [0 .. MaxLen - 1 -> Int]
    /\ ret \in Int
    /\ pos \in [Entry -> 0 .. MAX_NUM_BLOCKS_CACHE]

\* The links l hold exactly n entries, each at the place p gives it.
Placed(p, n) ==
    /\ p \in [Entry -> 0 .. n]
    /\ \A k \in 1 .. n : \E e \in Entry : p[e] = k
    /\ \A e, f \in Entry : p[e] = p[f] /\ p[e] > 0 => e = f

Linked(l, p, n) ==
    /\ n = 0 => l.first = NULL /\ l.last = NULL
    /\ \A e \in Entry : p[e] > 0 =>
          /\ l.first = e <=> p[e] = 1
          /\ l.last = e <=> p[e] = n
          /\ p[e] = 1 => l.prev[e] = NULL
          /\ p[e] = n => l.next[e] = NULL
    /\ \A e, f \in Entry : p[e] > 0 /\ p[f] = p[e] + 1 =>
          l.next[e] = f /\ l.prev[f] = e
    /\ l.first = NULL \/ p[l.first] = 1
    /\ l.last = NULL \/ p[l.last] = n

\* Whatever reads, hits, evictions and failures came before, the list is a
\* proper doubly linked one: following next from first visits num_blocks
\* entries and ends at last, prev is its inverse, and none of them has been
\* freed while the list is in use.  (The asserts of move_to_cache_head,
\* add_new_block and free_cache_entries are consequences.)
ListWellFormed ==
    /\ Placed(pos, num_blocks)
    /\ Linked(list, pos, num_blocks)
    /\ pc \notin {"free", "dead"} => cells = {e \in Entry : pos[e] > 0}

Cached == {e \in Entry : pos[e] > 0}

\* Every cached entry describes a block of the file and its buffer is live
\* and holds that block; no two entries share a block or a buffer.
CacheCoherent ==
    pc \notin {"free", "dead"} =>
        /\ \A e \in Cached :
              /\ entry[e].data # NULL
              /\ mem[entry[e].data] # Free
              /\ entry[e].offset = BlockStart[mem[entry[e].data]]
              /\ entry[e].size = BlockSize[mem[entry[e].data]]
        /\ \A e, f \in Cached :
              entry[e].data = entry[f].data \/ entry[e].offset = entry[f].offset
                 => e = f

\* Between reads every live buffer belongs to exactly one cached entry, and
\* after xz_reader_free nothing is allocated: no path of xz_read, the failing
\* ones included, loses a buffer.
NoLeak ==
    /\ pc = "idle" => {d \in Buffer : mem[d] # Free} = {entry[e].data : e \in Cached}
    /\ pc = "closed" => cells = {} /\ \A d \in Buffer : mem[d] = Free

\* The bytes xz_read says it has read are the bytes of the image: when it
\* returns n, the first n bytes of the caller's buffer are bytes
\* origin .. origin + n - 1, whatever mix of hits and misses served them.
ReadCorrect ==
    pc = "idle" => \A i \in 0 .. ret - 1 : out[i] = call.origin + i

\* A read of bytes of the image brings all of them and says so, or one of its
\* blocks failed: then its result is neither the length asked for, which is what
\* __disk_read tests, nor the number of bytes copied, as if the read had ended
\* there, and it is READER_ERROR if nothing had been copied.  Which value it is
\* after some bytes were copied is left open: by xz_reader.h it should be
\* READER_ERROR too, and it is one less than the number of those bytes.
ReadComplete ==
    (pc = "idle" /\ call.want > 0 /\ call.origin + call.want <= ImageSize) =>
        \/ call.got = call.want /\ ret = call.want
        \/ /\ call.got < call.want
           /\ ret # call.want /\ ret # call.got
           /\ call.got = 0 => ret = READER_ERROR

\* free_cache_entries: `assert(count == cache->num_blocks)'.
FreeCountsAll ==
    pc = "free" /\ iter = NULL => count = num_blocks

\* Every xz_read returns and every xz_reader_free finishes, unless the process
\* is killed on the way: the loops over the list end, whatever has failed
\* before, and each recursive call has less to read.
OperationsEnd == pc \in {"scan", "free"} ~> pc \in {"idle", "closed", "dead"}

-----------------------------------------------------------------------------
(* The cache implements LruCache: the place of a block is the place of the *)
(* entry that holds it.  Freeing the reader empties it at once.            *)

Holds(e, b) == pos[e] > 0 /\ entry[e].offset = BlockStart[b]

RankOf(b) ==
    IF pc \notin {"free", "closed"} /\ \E e \in Entry : Holds(e, b)
    THEN pos[CHOOSE e \in Entry : Holds(e, b)]
    ELSE 0

rankBar == [b \in Blocks |-> RankOf(b)]

\* Free is not a block and stands for none.
servingBar ==
    IF pc = "copy" THEN CHOOSE b \in Blocks : BlockStart[b] = blk.start ELSE Free

Lru == INSTANCE LruCache WITH Capacity <- MAX_NUM_BLOCKS_CACHE, None <- Free,
                              rank <- rankBar, serving <- servingBar

\* Hits, misses, failures and evictions are the steps of an LRU cache of
\* MAX_NUM_BLOCKS_CACHE blocks: a hit makes its block the most recently used,
\* a full cache gives up exactly the least recently used block, and a failed
\* read changes nothing.
LruRefinement == Lru!Spec
=============================================================================
