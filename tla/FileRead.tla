------------------------------ MODULE FileRead ------------------------------
(***************************************************************************)
(* Reading a file of the ext4 file system (src/fs/ext4): op_read, the      *)
(* extent tree (extents.c), the ext2/3 style block pointers (inode.c) and  *)
(* the disk context (disk.c).  The disk never changes and op_read keeps    *)
(* nothing between calls, so one reader is enough; each node of a tree     *)
(* that is fetched from the disk is a step.  A byte is represented by its  *)
(* place on the disk; a byte of a hole by Zero.                            *)
(***************************************************************************)
EXTENDS Integers, Sequences, FiniteSetsExt

CONSTANTS
    BLOCK_SIZE,
    NDIR,         \* EXT4_NDIR_BLOCKS, direct pointers of an inode
    ADDR,         \* ADDRESSES_IN_IND_BLOCK
    DiskBlocks,   \* blocks of the disk, the first being 0
    Word,         \* 2^32: the arithmetic of uint32_t is modulo Word
    File,         \* file names
    Size,         \* of each file, in bytes
    HasExtents,   \* of each file, EXT4_EXTENTS_FL
    Root,         \* of each file with extents, the node in the inode
    Tree,         \* of each block, the node of extents it holds
    IBlock,       \* of each file without extents, i_block
    Pointers,     \* of each block, the block numbers it holds
    BlockOf,      \* what mke2fs and the kernel mean: the block of each
                  \* logical block of a file, 0 for a hole
    Request       \* the reads: file, offset and size

ASSUME SizeAssumption ==
    /\ BLOCK_SIZE \in Nat \ {0} /\ NDIR \in Nat \ {0} /\ ADDR \in Nat \ {0}
    /\ DiskBlocks \in Nat \ {0} /\ Word \in Nat /\ Word >= DiskBlocks
    /\ Size \in [File -> Nat]
    /\ HasExtents \in [File -> BOOLEAN]
    /\ Request \subseteq File \X Nat \X Nat

Block == 0 .. DiskBlocks - 1
Zero == -1

\* What a file holds: its byte i, wherever that is.
ByteOf(f, i) ==
    LET b == BlockOf[f][i \div BLOCK_SIZE]
    IN  IF b = 0 THEN Zero ELSE b * BLOCK_SIZE + (i % BLOCK_SIZE)

VARIABLES
    pc,
    file,
    offset,
    want,         \* the size argument
    size,         \* want after truncate_size
    buf,          \* the bytes read so far; ret is its length
    lblock,
    for,          \* who asked for a block: first_read, the loop, or (in
                  \* FileSystem) the walk of a directory or readlink
    node,         \* the extent node looked at
    index,        \* the pointer block looked at, its level, the block wanted
    pblock,
    extent_len

vars == <<pc, file, offset, want, size, buf, lblock, for, node, index, pblock,
          extent_len>>

NoNode == [depth |-> 0, entries |-> << >>]
NoIndex == [level |-> 0, block |-> 0, rel |-> 0]

Init ==
    /\ pc = "idle"
    /\ file \in {r[1] : r \in Request}
    /\ offset = 0 /\ want = 0 /\ size = 0 /\ buf = << >>
    /\ lblock = 0 /\ for = "loop" /\ node = NoNode /\ index = NoIndex
    /\ pblock = 0 /\ extent_len = 1

ret == Len(buf)

-----------------------------------------------------------------------------
(* op_read.c                                                               *)

\* Mutant: one byte short.
TruncateBeforeEnd(f, s, o) ==
    IF o >= Size[f] THEN 0
    ELSE IF o + s >= Size[f] THEN Size[f] - o - 1
    ELSE s

\* The read is truncated at the end of the file.
truncate_size(f, s, o) ==
    IF o >= Size[f] THEN 0
    ELSE IF o + s >= Size[f] THEN Size[f] - o
    ELSE s

\* inode_get_data_pblock is called for logical block l, by w.
GetPblock(l, w) ==
    /\ lblock' = l
    /\ for' = w
    /\ extent_len' = 1
    /\ pc' = "map"

\* op_read up to the call of first_read, which asks for a block if the
\* offset is not at the start of one.
op_read(f, o, s) ==
    /\ pc = "idle"
    /\ file' = f /\ offset' = o /\ want' = s
    /\ size' = truncate_size(f, s, o)
    /\ buf' = << >>
    /\ IF size' = 0 \/ o % BLOCK_SIZE = 0
       THEN /\ pc' = "loop" /\ lblock' = o \div BLOCK_SIZE
            /\ UNCHANGED <<for, extent_len>>
       ELSE GetPblock(o \div BLOCK_SIZE, "first_read")
    /\ UNCHANGED <<node, index, pblock>>

\* What disk_read brings: n bytes from byte b of the disk on.
Bytes(b, n) == [i \in 1 .. n |-> b + i - 1]
OnDisk(b, n) == b + n <= DiskBlocks * BLOCK_SIZE

\* An ASSERT fails: the process ends.
Abort ==
    /\ pc' = "abort"
    /\ UNCHANGED <<file, offset, want, size, buf, lblock, for, node, index,
                   pblock, extent_len>>

\* How much first_read takes: all, or up to the end of the block.
FirstSize ==
    IF (offset + size - 1) \div BLOCK_SIZE = offset \div BLOCK_SIZE
    THEN size
    ELSE BLOCK_SIZE - (offset % BLOCK_SIZE)

first_read ==
    /\ pc = "mapped" /\ for = "first_read"
    /\ LET where == pblock * BLOCK_SIZE + (offset % BLOCK_SIZE)
       IN  IF OnDisk(where, FirstSize)
           THEN /\ buf' = Bytes(where, FirstSize)
                /\ lblock' = (offset + FirstSize) \div BLOCK_SIZE
                /\ pc' = "loop"
                /\ UNCHANGED <<file, offset, want, size, for, node, index,
                               pblock, extent_len>>
           ELSE Abort

\* The loop goes on for the next logical block.
LoopContinues ==
    /\ pc = "loop" /\ size > ret
    /\ GetPblock(lblock, "loop")
    /\ UNCHANGED <<file, offset, want, size, buf, node, index, pblock>>

\* How much a context of extent_len blocks gives.
ContextSize == Min({size - ret, BLOCK_SIZE * extent_len})

\* Consecutive blocks are read with one context.
LoopReads ==
    /\ pc = "mapped" /\ for = "loop" /\ pblock # 0
    /\ IF extent_len > 0 /\ OnDisk(pblock * BLOCK_SIZE, ContextSize)
       THEN /\ buf' = buf \o Bytes(pblock * BLOCK_SIZE, ContextSize)
            /\ lblock' = lblock + extent_len
            /\ pc' = "loop"
            /\ UNCHANGED <<file, offset, want, size, for, node, index, pblock,
                           extent_len>>
       ELSE Abort

\* A hole is read as zeroes, a block at a time.
LoopSkips ==
    /\ pc = "mapped" /\ for = "loop" /\ pblock = 0
    /\ buf' = buf \o [i \in 1 .. Min({size - ret, BLOCK_SIZE}) |-> Zero]
    /\ lblock' = lblock + extent_len
    /\ pc' = "loop"
    /\ UNCHANGED <<file, offset, want, size, for, node, index, pblock, extent_len>>

\* The last ASSERT, and back to FUSE.
LoopEnds ==
    /\ pc = "loop" /\ size <= ret
    /\ IF size = ret
       THEN /\ pc' = "done"
            /\ UNCHANGED <<file, offset, want, size, buf, lblock, for, node,
                           index, pblock, extent_len>>
       ELSE Abort

\* The call is over and its locals are gone.
Return ==
    /\ pc = "done"
    /\ pc' = "idle"
    /\ offset' = 0 /\ want' = 0 /\ size' = 0 /\ buf' = << >>
    /\ lblock' = 0 /\ for' = "loop" /\ node' = NoNode /\ index' = NoIndex
    /\ pblock' = 0 /\ extent_len' = 1
    /\ UNCHANGED file

-----------------------------------------------------------------------------
(* extents.c                                                               *)

\* extent_get_pblock is called with the node in the inode.  Every node of Root
\* and Tree has the magic number ASSERTed of its header: a block without it is
\* outside the model.
MapExtents ==
    /\ pc = "map" /\ HasExtents[file]
    /\ node' = Root[file]
    /\ pc' = "extents"
    /\ UNCHANGED <<file, offset, want, size, buf, lblock, for, index, pblock,
                   extent_len>>

\* Mutant: an entry that begins at lblock is not taken.
EntriesBefore(n, l) ==
    {i \in DOMAIN n.entries : \A j \in 1 .. i : n.entries[j].block < l}

\* The entries before the first one that begins after lblock.
EntriesUpto(n, l) ==
    {i \in DOMAIN n.entries : \A j \in 1 .. i : n.entries[j].block <= l}

\* The node below an entry, fetched from the disk.
extent_get_extents_in_block(e) == Tree[e.leaf]

\* Down to the last entry that begins at lblock or before.  The ASSERT that
\* ei_leaf_hi is 0 holds since all blocks of the disk are below Word.
ExtentsDown ==
    /\ pc = "extents" /\ node.depth > 0
    /\ LET upto == EntriesUpto(node, lblock)
       IN  IF upto # {}
           THEN /\ node' = extent_get_extents_in_block(node.entries[Max(upto)])
                /\ UNCHANGED <<pc, file, offset, want, size, buf, lblock, for,
                               index, pblock, extent_len>>
           ELSE Abort

\* The first extent that ends after lblock.
EndsAfter(e, l) == e.block + e.len > l
Covering(n, l) == {i \in DOMAIN n.entries : EndsAfter(n.entries[i], l)}

\* extent_get_block_from_ees.  The difference is one of uint32_t.  The ASSERT
\* that ee_start_hi is 0 holds since all blocks of the disk are below Word.
ExtentsLeaf ==
    /\ pc = "extents" /\ node.depth = 0
    /\ LET i == Min(Covering(node, lblock))
           e == node.entries[i]
       IN  IF Covering(node, lblock) # {}
           THEN /\ pblock' = (e.start + (lblock - e.block)) % Word
                /\ extent_len' = IF for = "loop"
                                 THEN e.block + e.len - lblock
                                 ELSE extent_len
           ELSE pblock' = 0 /\ UNCHANGED extent_len
    /\ pc' = "mapped"
    /\ UNCHANGED <<file, offset, want, size, buf, lblock, for, node, index>>

-----------------------------------------------------------------------------
(* inode_get_data_pblock without extents                                   *)

\* Logical blocks below this one are found with at most n levels.
MaxBlock(n) ==
    CASE n = 0 -> NDIR
      [] n = 1 -> NDIR + ADDR
      [] n = 2 -> NDIR + ADDR + ADDR * ADDR
      [] n = 3 -> NDIR + ADDR + ADDR * ADDR + ADDR * ADDR * ADDR

BytesToBlocks(n) == (n \div BLOCK_SIZE) + (IF n % BLOCK_SIZE = 0 THEN 0 ELSE 1)

\* A direct pointer.
MapDirect ==
    /\ pc = "map" /\ ~ HasExtents[file]
    /\ lblock < NDIR
    /\ lblock <= BytesToBlocks(Size[file])
    /\ pblock' = IBlock[file][lblock]
    /\ pc' = "mapped"
    /\ UNCHANGED <<file, offset, want, size, buf, lblock, for, node, index,
                   extent_len>>

\* Mutant: always the single indirect block.
SinglePointer(n) == IBlock[file][NDIR]

\* Where the pointers of n levels begin.
FirstPointer(n) == IBlock[file][NDIR + n - 1]

\* One, two or three levels of pointers.
MapIndirect(n) ==
    /\ pc = "map" /\ ~ HasExtents[file]
    /\ lblock >= MaxBlock(n - 1) /\ lblock < MaxBlock(n)
    /\ lblock <= BytesToBlocks(Size[file])
    /\ index' = [level |-> n, block |-> FirstPointer(n),
                 rel |-> lblock - MaxBlock(n - 1)]
    /\ pc' = "pointers"
    /\ UNCHANGED <<file, offset, want, size, buf, lblock, for, node, pblock,
                   extent_len>>

\* Beyond the pointers, or beyond the file.
MapFails ==
    /\ pc = "map" /\ ~ HasExtents[file]
    /\ lblock >= MaxBlock(3) \/ lblock > BytesToBlocks(Size[file])
    /\ Abort

\* Logical blocks below one pointer of a block of pointers at a level.
Span(level) == CASE level = 1 -> 1 [] level = 2 -> ADDR [] level = 3 -> ADDR * ADDR

\* __inode_get_data_pblock_tind and _dind: one pointer is read, and its block
\* is the next.
PointersDown ==
    /\ pc = "pointers" /\ index.level > 1
    /\ index' = [level |-> index.level - 1,
                 block |-> Pointers[index.block][index.rel \div Span(index.level)],
                 rel |-> index.rel % Span(index.level)]
    /\ UNCHANGED <<pc, file, offset, want, size, buf, lblock, for, node, pblock,
                   extent_len>>

\* __inode_get_data_pblock_ind.
PointersLeaf ==
    /\ pc = "pointers" /\ index.level = 1
    /\ pblock' = Pointers[index.block][index.rel]
    /\ pc' = "mapped"
    /\ UNCHANGED <<file, offset, want, size, buf, lblock, for, node, index,
                   extent_len>>

-----------------------------------------------------------------------------
Step ==
    \/ first_read \/ LoopContinues \/ LoopReads \/ LoopSkips \/ LoopEnds \/ Return
    \/ MapExtents \/ ExtentsDown \/ ExtentsLeaf
    \/ MapDirect \/ (\E n \in 1 .. 3 : MapIndirect(n)) \/ MapFails
    \/ PointersDown \/ PointersLeaf

Next == Step \/ \E r \in Request : op_read(r[1], r[2], r[3])

Spec == Init /\ [][Next]_vars

-----------------------------------------------------------------------------
(* Properties.                                                             *)

\* Every variable has its type, and op_read is never after more bytes than
\* its caller asked for.
TypeOK ==
    /\ pc \in {"idle", "map", "extents", "pointers", "mapped", "loop", "done",
               "abort"}
    /\ file \in File
    /\ offset \in Nat /\ want \in Nat /\ size \in 0 .. want
    /\ buf \in Seq(Nat \cup {Zero})
    /\ lblock \in Nat /\ for \in {"first_read", "loop", "dir", "link"}
    /\ node.depth \in Nat
    /\ index.level \in 0 .. 3 /\ index.block \in Block /\ index.rel \in Nat
    /\ pblock \in 0 .. Word - 1 /\ extent_len \in Nat

\* At every moment of a read the buffer holds the file's bytes from the
\* offset on, holes as zeroes, and no more of them than were asked for.
ReadSoFar ==
    /\ ret <= want
    /\ \A i \in 1 .. ret : offset + i <= Size[file] /\ buf[i] = ByteOf(file, offset + i - 1)

\* When a read returns, it has read what is there: everything asked for, or
\* everything up to the end of the file.
ReadAll ==
    pc = "done" => ret = Max({0, Min({want, Size[file] - offset})})

\* No ASSERT fails, on any way through either kind of tree, but the one for
\* a block that three levels of pointers cannot reach ("File-system
\* corruption?").
AssertsHold ==
    pc = "abort" => ~ HasExtents[file] /\ lblock >= MaxBlock(3)
=============================================================================
