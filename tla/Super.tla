------------------------------- MODULE Super --------------------------------
(***************************************************************************)
(* Superblock and group descriptors (src/fs/ext4/super.c): where group     *)
(* descriptors and inodes lie.  A geometry g has the superblock's fields   *)
(* blocks, bpg, ipg, isize, desc and bsize (s_blocks_count_lo,             *)
(* s_blocks_per_group, s_inodes_per_group, s_inode_size, s_desc_size and   *)
(* the size of a block), and `table', the block at which the inode table   *)
(* of each group begins.  Of that block number the code uses the lower 32  *)
(* bits only, bg_inode_table_lo.                                           *)
(***************************************************************************)
EXTENDS Integers

CONSTANT Word       \* 2^32: what bg_inode_table_lo and s_blocks_count_lo are below

ASSUME WordAssumption == Word \in Nat \ {0}

BOOT_SECTOR_SIZE == 1024
SUPER_SIZE == 1024            \* sizeof(struct ext4_super_block)
GROUP_DESC_MIN_SIZE == 32
GROUP_DESC_SIZE == 64         \* sizeof(struct ext4_group_desc)
MAGIC_OFFSET == BOOT_SECTOR_SIZE + 56

\* Whole groups; one if there is none.
super_n_block_groups(g) ==
    LET n == g.blocks \div g.bpg IN IF n = 0 THEN 1 ELSE n

\* Mutant: descriptors are always as large as the struct.
DescSizeFixed(g) == GROUP_DESC_SIZE

super_group_desc_size(g) == IF g.desc = 0 THEN GROUP_DESC_MIN_SIZE ELSE GROUP_DESC_SIZE

ALIGN_TO(n, align) == IF n % align = 0 THEN n ELSE (n - (n % align)) + align

\* Where super_group_fill reads descriptor i.
DescOffset(g, i) ==
    ALIGN_TO(BOOT_SECTOR_SIZE + SUPER_SIZE, g.bsize) + i * super_group_desc_size(g)

\* The group of inode n, which is n - 1 on disk.
n_group(g, n) == (n - 1) \div g.ipg

\* inode_get_by_number: n in a table that begins at byte `table'.
InodeOffset(g, table, n) == table + ((n - 1) % g.ipg) * g.isize

-----------------------------------------------------------------------------
(* What the file system format says.                                       *)

\* With blocks of 1024 bytes, block 0 is before the first group.
FirstBlock(g) == IF g.bsize = 1024 THEN 1 ELSE 0
Groups(g) == (g.blocks - FirstBlock(g) + g.bpg - 1) \div g.bpg
DescPlace(g, i) == (FirstBlock(g) + 1) * g.bsize + i * (IF g.desc = 0 THEN 32 ELSE g.desc)
\* A superblock mke2fs writes: blocks of 1024 bytes or a larger power of two,
\* a bitmap of them for each group, and descriptors of 32 bytes or, with the
\* 64bit feature, of 64.  There are fewer than 2^32 blocks, so that the upper
\* halves of the block numbers, which the code drops, are zero.
ValidGeometry(g) ==
    /\ g.bsize \in {1024, 2048} \/ (g.bsize \in Nat /\ g.bsize > 2048)
    /\ g.blocks \in Nat /\ g.blocks > FirstBlock(g) /\ g.blocks < Word
    /\ g.bpg \in Nat /\ g.bpg > 1
    /\ g.ipg \in Nat \ {0} /\ g.isize \in Nat /\ g.desc \in {0, 64}
    /\ \A i \in 0 .. Groups(g) - 1 : g.table[i] \in Nat /\ g.table[i] < g.blocks

InodePlace(g, n) ==
    g.table[(n - 1) \div g.ipg] * g.bsize + ((n - 1) % g.ipg) * g.isize

\* super_group_inode_table_offset: the table a descriptor read at this place
\* points to by bg_inode_table_lo, or -1.
TableAt(g, place) ==
    IF \E i \in 0 .. Groups(g) - 1 : DescPlace(g, i) = place
    THEN (g.table[CHOOSE i \in 0 .. Groups(g) - 1 : DescPlace(g, i) = place] % Word) * g.bsize
    ELSE -1
=============================================================================
