---------------------------- MODULE MCFileSystem ----------------------------
(***************************************************************************)
(* An instance of FileSystem for TLC: MCFileRead's files, with blocks of   *)
(* four bytes, in two directories: the root, with extents, and sub, with   *)
(* block pointers, which also has three links.                             *)
(***************************************************************************)
EXTENDS MCFileRead, FileSystem

Others == {"root", "sub", "short", "edge", "long"}
Inodes == Files \cup Others
SizeOf == [f \in Inodes |->
             CASE f = "root" -> 16 [] f = "sub" -> 12
               [] f = "short" -> 1 [] f = "edge" -> 2 [] f = "long" -> 3
               [] OTHER -> Sizes[f]]
KindOf == [f \in Inodes |->
             CASE f \in {"root", "sub"} -> "dir"
               [] f \in {"short", "edge", "long"} -> "link" [] OTHER -> "file"]
ExtentsOf == [f \in Inodes |-> IF f \in Files THEN WithExtents[f] ELSE f # "sub"]
RootOf == [f \in Inodes |->
             CASE f = "root" -> Leaf(<<Extent(0, 1, 72), Extent(1, 3, 74)>>)
               [] f = "edge" -> Leaf(<<Extent(0, 1, 81)>>)
               [] f = "long" -> Leaf(<<Extent(0, 1, 82)>>)
               [] f \in Files -> Roots[f] [] OTHER -> NoNode]
IBlockOf == [f \in Inodes |->
             CASE f = "sub" -> [i \in 0 .. 4 |-> CASE i = 0 -> 77 [] i = 1 -> 78
                                                   [] i = 2 -> 79 [] OTHER -> 0]
               [] f \in Files -> IBlocks[f] [] OTHER -> [i \in 0 .. 4 |-> 0]]
PointersOf == [b \in 0 .. 82 |->
             CASE b = 79 -> [i \in 0 .. 1 |-> IF i = 0 THEN 80 ELSE 0]
               [] b <= 70 -> PointerBlocks[b] [] OTHER -> [i \in 0 .. 1 |-> 0]]
BlocksOf == [f \in Inodes |->
             CASE f = "root" -> [l \in 0 .. 3 |-> IF l = 0 THEN 72 ELSE 73 + l]
               [] f = "sub" -> [l \in 0 .. 2 |-> IF l = 2 THEN 80 ELSE 77 + l]
               [] f = "edge" -> [l \in {0} |-> 81]
               [] f = "long" -> [l \in {0} |-> 82]
               [] f \in Files -> Blocks[f] [] OTHER -> [l \in {0} |-> 0]]

BelowOf == [b \in DOMAIN Nodes |->
             [file |-> "deep", from |-> IF b \in {2, 4} THEN 0 ELSE 3,
              to |-> IF b \in {2, 4} THEN 3 ELSE Sizes["deep"] + 1]]

D(n, i, r) == [name |-> n, inode |-> i, rec_len |-> r]
None == "none"

\* The root is hashed: ".." reaches to the end of its block, and the next
\* block is an inner node under an entry not in use.  Deleted entries keep
\* their name; the last one of a block with a checksum has none.
DentriesOf == [b \in {72, 74, 75, 76, 77, 78, 80} |->
    CASE b = 72 -> (0 :> D(".", "root", 1) @@ 1 :> D("..", "root", 3))
      [] b = 74 -> (0 :> D("", None, 4))
      [] b = 75 -> (0 :> D("dense", "dense", 1) @@ 1 :> D("tail", "tail", 1)
                    @@ 2 :> D("gone", None, 1) @@ 3 :> D("sub", "sub", 1))
      [] b = 76 -> (0 :> D("deep", "deep", 1) @@ 1 :> D("old", "old", 1)
                    @@ 2 :> D("corrupt", "corrupt", 1) @@ 3 :> D("", None, 1))
      [] b = 77 -> (0 :> D(".", "sub", 1) @@ 1 :> D("..", "root", 1)
                    @@ 2 :> D("dense", None, 2))
      [] b = 78 -> (0 :> D("dense", "deep", 2) @@ 2 :> D("gone", None, 2))
      [] b = 80 -> (0 :> D("short", "short", 1) @@ 1 :> D("edge", "edge", 1)
                    @@ 2 :> D("long", "long", 2))]

SomePaths ==
    {<<>>, <<"dense">>, <<"tail">>, <<"deep">>, <<"old">>, <<"corrupt">>,
     <<"gone">>, <<"sub">>, <<"sub", "dense">>, <<"sub", "tail">>,
     <<"sub", "short">>, <<"sub", "edge">>, <<"sub", "long">>}

\* Reads that begin and end at a block boundary or next to one.
NearEdge(n) == n % BLOCK_SIZE # 2
AtEdges(r) == NearEdge(r[2]) /\ NearEdge(r[2] + r[3])

\* Such reads of the files whose holes the code handles, and long ones of
\* corrupt.
SoundReads ==
    {r \in Reads("dense") \cup Reads("tail") \cup Reads("deep") \cup Reads("old")
            \cup {x \in Reads("corrupt") : x[2] % 13 = 0 /\ x[3] % 13 = 0} :
        AtEdges(r) /\ ~ InsideHole(r)}
=============================================================================
