----------------------------- MODULE MCFileRead -----------------------------
(***************************************************************************)
(* Instances of FileRead for TLC, with two direct pointers and two         *)
(* pointers in a block: five files with extents and two with block         *)
(* pointers of up to three levels.                                         *)
(***************************************************************************)
EXTENDS FileRead

Extent(b, n, s) == [block |-> b, len |-> n, start |-> s]
Leaf(es) == [depth |-> 0, entries |-> es]
Entry(b, l) == [block |-> b, leaf |-> l]

Files == {"dense", "tail", "deep", "lead", "middle", "old", "corrupt"}
Sizes == [f \in Files |->
            CASE f \in {"dense", "tail"} -> 4 * BLOCK_SIZE + 1
              [] f = "deep" -> 6 * BLOCK_SIZE
              [] f \in {"lead", "middle"} -> 4 * BLOCK_SIZE
              [] f = "old" -> 15 * BLOCK_SIZE + 1
              [] f = "corrupt" -> 17 * BLOCK_SIZE + 1]
WithExtents == [f \in Files |-> f \notin {"old", "corrupt"}]

\* deep has three levels, the nodes below the root in blocks 2 to 5.
Nodes == [b \in 2 .. 5 |->
            CASE b = 2 -> [depth |-> 1, entries |-> <<Entry(0, 4)>>]
              [] b = 3 -> [depth |-> 1, entries |-> <<Entry(3, 5)>>]
              [] b = 4 -> Leaf(<<Extent(0, 1, 20), Extent(1, 2, 24)>>)
              [] b = 5 -> Leaf(<<Extent(3, 3, 10)>>)]
Roots == [f \in Files |->
            CASE f = "dense" -> Leaf(<<Extent(0, 2, 10), Extent(2, 3, 20)>>)
              [] f = "tail" -> Leaf(<<Extent(0, 2, 30)>>)
              [] f = "deep" -> [depth |-> 2, entries |-> <<Entry(0, 2), Entry(3, 3)>>]
              [] f = "lead" -> Leaf(<<Extent(2, 2, 24)>>)
              [] f = "middle" -> Leaf(<<Extent(0, 1, 12), Extent(3, 1, 33)>>)
              [] OTHER -> NoNode]

LeafExtents(f) ==
    CASE f = "deep" -> {Extent(0, 1, 20), Extent(1, 2, 24), Extent(3, 3, 10)}
      [] OTHER -> {Roots[f].entries[i] : i \in DOMAIN Roots[f].entries}

\* old has holes in a direct and in an indirect pointer; corrupt is old with
\* a size beyond what pointers can reach.
OldBlocks == [l \in 0 .. 18 |-> IF l \in {1, 3, 16, 17, 18} THEN 0 ELSE 40 + l]

Blocks == [f \in Files |->
    CASE f \in {"old", "corrupt"} -> OldBlocks
      [] OTHER -> [l \in 0 .. 8 |->
            IF \E e \in LeafExtents(f) : l \in e.block .. e.block + e.len - 1
            THEN LET e == CHOOSE x \in LeafExtents(f) :
                              l \in x.block .. x.block + x.len - 1
                 IN  e.start + l - e.block
            ELSE 0]]

IBlocks == [f \in Files |->
    CASE f \in {"old", "corrupt"} -> [i \in 0 .. 4 |->
            CASE i = 0 -> 40 [] i = 1 -> 0 [] i = 2 -> 60 [] i = 3 -> 61
              [] i = 4 -> 64]
      [] OTHER -> [i \in 0 .. 4 |-> 0]]

PointerBlocks == [b \in 0 .. 70 |-> [i \in 0 .. 1 |->
    CASE b = 60 -> OldBlocks[2 + i]
      [] b = 61 -> 62 + i
      [] b \in {62, 63} -> OldBlocks[4 + 2 * (b - 62) + i]
      [] b = 64 -> 65 + i
      [] b \in {65, 66} -> 67 + 2 * (b - 65) + i
      [] b \in 67 .. 70 -> OldBlocks[8 + 2 * (b - 67) + i]
      [] OTHER -> 0]]

Reads(f) == {f} \X (0 .. Sizes[f] + 1) \X (0 .. Sizes[f] + 2)

\* A read that begins inside a hole, at no block boundary.
InsideHole(r) ==
    /\ r[2] % BLOCK_SIZE # 0 /\ r[3] # 0 /\ r[2] < Sizes[r[1]]
    /\ Blocks[r[1]][r[2] \div BLOCK_SIZE] = 0

\* Reads of files with a hole before an extent.
SparseReads == {r \in Reads("lead") \cup Reads("middle") : ~ InsideHole(r)}
=============================================================================
