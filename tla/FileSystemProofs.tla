-------------------------- MODULE FileSystemProofs --------------------------
(***************************************************************************)
(* Proofs about FileSystem and the FileRead it is built on, for every disk *)
(* that has what BlockAssumption and NameAssumption say, and every         *)
(* sequence of calls: reads deliver the bytes of the file, lookups come to *)
(* what the directories hold, and listings are complete, wherever they are *)
(* cut off and resumed.                                                    *)
(***************************************************************************)
EXTENDS FileSystem, SequenceTheorems, LeastNumber

-----------------------------------------------------------------------------
(* The inductive invariant.                                                *)

\* A block is being mapped.
Mapping == pc \in {"map", "extents", "pointers", "mapped"}

\* What the nodes of a file are for.
Ranges(f) == {<<0, Size[f] + 1>>} \cup {<<Below[b].from, Below[b].to>> : b \in DOMAIN Tree}

\* The node at hand is for the logical block wanted.
NodeInv ==
    /\ HasExtents[file]
    /\ \E r \in Ranges(file) :
          SoundNode(file, node, r[1], r[2]) /\ r[1] <= lblock /\ lblock < r[2]

\* The pointers from index on lead to block b.
LeadsTo(b) ==
    /\ ~ HasExtents[file]
    /\ index.level \in 1 .. 3 /\ index.block \in Block /\ index.rel \in Nat
    /\ index.level = 1 => /\ index.rel < ADDR
                          /\ Pointers[index.block][index.rel] = b
    /\ index.level = 2 => \E i, j \in 0 .. ADDR - 1 :
          /\ index.rel = ADDR * i + j
          /\ Pointers[Pointers[index.block][i]][j] = b
    /\ index.level = 3 => \E i, j, k \in 0 .. ADDR - 1 :
          /\ index.rel = ADDR * ADDR * i + ADDR * j + k
          /\ Pointers[Pointers[Pointers[index.block][i]][j]][k] = b

\* Block p is that of logical block l, and n blocks follow each other there.
Found(f, l, p, n) ==
    /\ p = BlockOf[f][l] /\ n \in Nat \ {0}
    /\ p = 0 => n = 1
    /\ p # 0 => /\ p + n <= DiskBlocks
                /\ \A k \in 0 .. n - 1 : l + k \in InFile(f) => BlockOf[f][l + k] = p + k

MapInv ==
    Mapping =>
        /\ file \in Mapped /\ lblock \in InFile(file)
        /\ pc # "mapped" => extent_len = 1
        /\ pc = "extents" => NodeInv
        /\ pc = "pointers" => LeadsTo(BlockOf[file][lblock])
        /\ pc = "mapped" => Found(file, lblock, pblock, extent_len)

\* op_read runs.
Reading == pc \in {"loop", "done"} \/ (Mapping /\ for \in {"first_read", "loop"})

ReadInv ==
    /\ Reading => file \in Mapped /\ size = truncate_size(file, want, offset) /\ ret <= size
    /\ ~Reading /\ pc # "abort" => offset = 0 /\ want = 0 /\ size = 0 /\ buf = << >>
    /\ Mapping /\ for = "first_read" =>
          /\ buf = << >> /\ size > 0
          /\ lblock = offset \div BLOCK_SIZE /\ BlockOf[file][lblock] # 0
    /\ Mapping /\ for = "loop" => ret < size /\ offset + ret = lblock * BLOCK_SIZE
    /\ pc = "loop" => ret = size \/ offset + ret = lblock * BLOCK_SIZE
    /\ pc = "done" => ret = size

\* Which block mapping belongs to which call.
StepInv ==
    /\ step = "idle" => pc = "idle" \/ Reading \/ pc = "abort"
    /\ step = "dentry" => pc = "idle" \/ (Mapping /\ for = "dir") \/ pc = "abort"
    /\ step = "link" => (Mapping /\ for = "link") \/ pc = "abort"
    /\ step \notin {"idle", "dentry", "link"} => pc = "idle"

\* An offset where a directory has an entry, or its end.
IsPlace(d, o) ==
    \/ o = Size[d]
    \/ /\ o \in Nat /\ o < Size[d]
       /\ o % BLOCK_SIZE \in DOMAIN Dentries[BlockOf[d][o \div BLOCK_SIZE]]

\* What is left of the path is its end, and the lookup has come to the inode
\* of the rest.
PathInv ==
    /\ \E k \in 0 .. Len(asked) :
          /\ path = SubSeq(asked, k + 1, Len(asked))
          /\ step \in {"lookup", "dentry"} =>
                inode_idx = Resolve(SubSeq(asked, 1, k)) /\ inode_idx # NoInode
    /\ step \in {"resolved", "link"} => inode_idx = Resolve(asked) /\ path = << >>

\* The walk of a directory.
WalkInv ==
    step = "dentry" =>
        /\ file = inode_idx /\ Kind[file] = "dir"
        /\ dctx # NoCtx => dctx.lblock \in InFile(file) /\ dctx.buf = BlockOf[file][dctx.lblock]
        /\ Searching => /\ IsPlace(file, pos)
                        /\ \A x \in Entries(file) : x.at < pos => x.name # path[1]
        /\ Listing => /\ op = "readdir"
                      /\ IsPlace(file, pos) \/ (pos = client.next /\ pos > Size[file])
                      /\ client.next <= pos
                      /\ Between(file, client.next, pos) = {}

\* What the kernel has asked for, and holds.
ClientType ==
    {NoClient} \cup [kind : {"file"}, fh : File \cup {NoInode}]
        \cup [kind : {"dir"}, path : Directories, from : Nat, next : Nat,
              got : Seq([name : STRING, next : Nat]), eof : BOOLEAN]

CallInv ==
    /\ client \in ClientType
    /\ op = "readdir" /\ step # "idle" => client.kind = "dir" /\ asked = client.path
    /\ op = "readlink" /\ step # "idle" => asked \in Existing
    /\ step = "link" => /\ op = "readlink" /\ file = inode_idx /\ (Mapping => lblock = 0)
                        /\ Kind[file] = "link" /\ Size[file] > FAST_LINK

\* The listing the kernel holds.
ClientInv ==
    client.kind = "dir" =>
        LET d == Resolve(client.path)
        IN  /\ IsPlace(d, client.from) \/ client.from > Size[d]
            /\ IsPlace(d, client.next) \/ (client.next = client.from /\ client.next > Size[d])
            /\ client.from <= client.next
            /\ \A i \in 1 .. Len(client.got) :
                  IsPlace(d, client.got[i].next) /\ client.got[i].next <= client.next

\* What is said of FileRead's variables, and of the others.
RInv == TypeOK /\ MapInv /\ ReadInv /\ ReadSoFar /\ AssertsHold

IInv ==
    /\ RInv /\ FsTypeOK /\ StepInv /\ PathInv /\ WalkInv /\ CallInv /\ ClientInv
    /\ FsAssertsHold /\ ListingExact /\ ListingComplete /\ LinkRight

-----------------------------------------------------------------------------
(* Blocks of files.                                                        *)

\* The sizes the disk has.
LEMMA SizeFacts ==
    /\ BLOCK_SIZE \in Nat \ {0} /\ NDIR \in Nat \ {0} /\ ADDR \in Nat \ {0}
    /\ DiskBlocks \in Nat \ {0} /\ Word \in Nat /\ Word >= DiskBlocks
    /\ \A f \in File : Size[f] \in Nat /\ HasExtents[f] \in BOOLEAN
BY SizeAssumption

\* Files whose blocks are asked for are files.
LEMMA MappedFiles == Mapped \subseteq File
<1>1. \A r \in Request : r[1] \in File
  BY SizeAssumption
<1> QED BY <1>1 DEF Mapped

\* The blocks of a file are those its bytes lie in.
LEMMA ByteInFile ==
    ASSUME NEW f \in File, NEW i \in Nat, i < Size[f]
    PROVE  i \div BLOCK_SIZE \in InFile(f) /\ i \div BLOCK_SIZE \in Nat
<1>1. PICK b \in Nat \ {0} : b = BLOCK_SIZE
  BY SizeFacts
<1>2. PICK n \in Nat : n = Size[f]
  BY SizeFacts
<1>3. i \div b \in Nat /\ b * (i \div b) <= i
  BY DivBelow
<1>4. PICK q \in Nat : q = i \div b /\ b * q <= i
  BY <1>3
<1>5. q <= b * q /\ q * b = b * q
  BY <1>1, <1>4, Z3
<1>6. q \in 0 .. n /\ q * b < n
  BY <1>2, <1>4, <1>5, i < n
<1> QED BY <1>1, <1>2, <1>4, <1>6 DEF InFile

\* A block of a file is not beyond its last one.
LEMMA BlockInFile ==
    ASSUME NEW f \in File, NEW l \in InFile(f)
    PROVE  l \in Nat /\ l < Size[f] + 1 /\ l <= BytesToBlocks(Size[f])
<1>1. PICK b \in Nat \ {0} : b = BLOCK_SIZE
  BY SizeFacts
<1>2. PICK n \in Nat : n = Size[f]
  BY SizeFacts
<1>3. l \in 0 .. n /\ l * b < n
  BY <1>1, <1>2 DEF InFile
<1>4. l \in Nat /\ b * l <= n
  BY <1>3, Z3
<1>5. l <= n \div b
  BY <1>4, DivBounds
<1>6. n \div b \in Nat
  BY DivFacts
<1> QED BY <1>1, <1>2, <1>3, <1>5, <1>6 DEF BytesToBlocks

\* The greatest and the least of a set of places in a sequence.
LEMMA MaxIs ==
    ASSUME NEW n \in Nat, NEW T \in SUBSET (0 .. n), T # {}
    PROVE  Max(T) \in T /\ \A k \in T : k <= Max(T)
<1>1. PICK m \in T : \A k \in T : k <= m
  BY GreatestExists
<1>2. \A k \in T : m >= k
  BY <1>1
<1>3. Max(T) \in T /\ \A k \in T : Max(T) >= k
  BY <1>2 DEF Max
<1> QED BY <1>3

\* The same for the least.
LEMMA MinIs ==
    ASSUME NEW T \in SUBSET Nat, T # {}
    PROVE  Min(T) \in T /\ \A k \in T : Min(T) <= k
<1>1. PICK m \in T : \A k \in T : m <= k
  BY LeastExists
<1> QED BY <1>1 DEF Min

-----------------------------------------------------------------------------
(* The block mapping.                                                      *)

\* Steps inside the mapping leave what is known of the read.
LEMMA MapFrame ==
    ASSUME RInv, Mapping, Mapping',
           UNCHANGED <<file, offset, want, size, buf, lblock, for>>
    PROVE  ReadInv' /\ ReadSoFar' /\ AssertsHold'
<1>1. ret' = ret /\ (for' = for) /\ lblock' = lblock
  BY DEF ret
<1>2. pc # "abort" /\ pc' # "abort" /\ pc' \notin {"loop", "done"} /\ pc \notin {"loop", "done"}
  BY DEF Mapping
<1>3. ReadInv'
  BY <1>1, <1>2 DEF RInv, ReadInv, Reading, Mapping, truncate_size
<1>4. ReadSoFar'
  BY <1>1 DEF RInv, ReadSoFar, ByteOf
<1> QED BY <1>2, <1>3, <1>4 DEF AssertsHold

\* The extent tree of a file that is asked for.
LEMMA ExtentsSound ==
    ASSUME NEW f \in Mapped, HasExtents[f]
    PROVE  SoundExtents(f)
BY BlockAssumption

\* The mapping starts at the node in the inode.
LEMMA MapExtentsR ==
    ASSUME RInv, MapExtents PROVE RInv'
<1>1. /\ pc = "map" /\ HasExtents[file] /\ node' = Root[file] /\ pc' = "extents"
      /\ UNCHANGED <<file, offset, want, size, buf, lblock, for, index, pblock, extent_len>>
  BY DEF MapExtents
<1>2. Mapping /\ Mapping' /\ file \in Mapped /\ lblock \in InFile(file) /\ extent_len = 1
  BY <1>1 DEF Mapping, RInv, MapInv
<1>3. SoundNode(file, Root[file], 0, Size[file] + 1)
  BY <1>1, <1>2, ExtentsSound DEF SoundExtents
<1>4. file \in File /\ lblock \in Nat /\ 0 <= lblock /\ lblock < Size[file] + 1
  BY <1>2, BlockInFile, MappedFiles
<1>5. NodeInv'
  <2>1. <<0, Size[file] + 1>> \in Ranges(file)
    BY DEF Ranges
  <2>2. \E r \in Ranges(file) :
           SoundNode(file, Root[file], r[1], r[2]) /\ r[1] <= lblock /\ lblock < r[2]
    BY <2>1, <1>3, <1>4
  <2> QED BY <2>2, <1>1 DEF NodeInv, SoundNode, SoundLeaf, SoundInner, InFile, InExtent, Ranges
<1>6. TypeOK'
  <2>1. node'.depth \in Nat
    BY <1>1, <1>3 DEF SoundNode
  <2> QED BY <2>1, <1>1 DEF RInv, TypeOK
<1>7. MapInv'
  BY <1>1, <1>2, <1>5 DEF MapInv, InFile
<1> QED BY <1>1, <1>2, <1>6, <1>7, MapFrame DEF RInv

\* A node the mapping has come to.
LEMMA NodeHere ==
    ASSUME RInv, pc = "extents"
    PROVE  /\ file \in Mapped /\ file \in File /\ lblock \in InFile(file) /\ lblock \in Nat
           /\ HasExtents[file] /\ SoundExtents(file) /\ extent_len = 1
           /\ \E r \in Ranges(file) :
                 SoundNode(file, node, r[1], r[2]) /\ r[1] <= lblock /\ lblock < r[2]
<1>1. file \in Mapped /\ lblock \in InFile(file) /\ NodeInv /\ extent_len = 1
  BY DEF RInv, MapInv, Mapping
<1>2. HasExtents[file]
  BY <1>1 DEF NodeInv
<1> QED BY <1>1, <1>2, ExtentsSound, MappedFiles, BlockInFile DEF NodeInv

\* The entry an inner node is left by: its subtree is for the block wanted.
LEMMA DownSound ==
    ASSUME NEW f \in File, NEW n, NEW lo, NEW hi, NEW l \in Nat,
           SoundInner(f, n, lo, hi), lo \in Nat, lo <= l, l < hi, hi \in Nat
    PROVE  /\ EntriesUpto(n, l) # {}
           /\ LET e == n.entries[Max(EntriesUpto(n, l))]
              IN  /\ e.leaf \in DOMAIN Tree /\ Below[e.leaf].file = f
                  /\ Below[e.leaf].from <= l /\ l < Below[e.leaf].to
<1> DEFINE N == Len(n.entries)  U == EntriesUpto(n, l)  m == Max(U)
<1>1. N \in Nat \ {0} /\ DOMAIN n.entries = 1 .. N
  BY LenProperties DEF SoundInner
<1>2. \A i \in 1 .. N : n.entries[i].block \in Nat /\ n.entries[i].leaf \in DOMAIN Tree
  <2> TAKE i \in 1 .. N
  <2>1. n.entries[i] \in IndexType
    BY ElementOfSeq DEF SoundInner
  <2> QED BY <2>1 DEF IndexType
<1>3. U = {i \in 1 .. N : \A j \in 1 .. i : n.entries[j].block <= l}
  BY <1>1 DEF EntriesUpto
<1>4. n.entries[1].block <= lo
  BY DEF SoundInner
<1>5. \A i \in 1 .. N :
         Below[n.entries[i].leaf] =
            [file |-> f, from |-> n.entries[i].block,
             to |-> IF i = N THEN hi ELSE n.entries[i + 1].block]
  BY DEF SoundInner
<1> HIDE DEF N, U
<1>6. 1 \in U
  <2>1. 1 \in 1 .. N /\ n.entries[1].block \in Nat
    BY <1>1, <1>2
  <2>2. n.entries[1].block <= l
    BY <2>1, <1>4
  <2>3. \A j \in 1 .. 1 : j = 1
    OBVIOUS
  <2> QED BY <1>3, <2>1, <2>2, <2>3
<1>7. m \in U /\ \A k \in U : k <= m
  <2>1. U \in SUBSET (0 .. N)
    BY <1>3
  <2>2. N \in Nat
    BY <1>1
  <2> QED BY <1>6, <2>1, <2>2, MaxIs
<1> HIDE DEF m
<1>8. m \in 1 .. N /\ n.entries[m].block <= l
  BY <1>3, <1>7
<1>9. PICK b : b = n.entries[m].leaf
  OBVIOUS
<1>10. /\ b \in DOMAIN Tree /\ Below[b].file = f /\ Below[b].from <= l
      /\ Below[b].to = IF m = N THEN hi ELSE n.entries[m + 1].block
  <2>1. b \in DOMAIN Tree
    BY <1>9, <1>2, <1>8
  <2>2. Below[b] = [file |-> f, from |-> n.entries[m].block,
                    to |-> IF m = N THEN hi ELSE n.entries[m + 1].block]
    BY <1>9, <1>5, <1>8, Zenon
  <2> QED BY <2>1, <2>2, <1>8
<1>11. CASE m = N
  <2>1. l < Below[b].to
    BY <1>10, <1>11
  <2> QED BY <2>1, <1>9, <1>10, <1>6 DEF m, U
<1>12. CASE m # N
  <2>1. m + 1 \in 1 .. N /\ ~(m + 1 <= m)
    BY <1>1, <1>8, <1>12
  <2>2. m + 1 \notin U
    BY <2>1, <1>7
  <2>3. PICK j \in 1 .. m + 1 : ~(n.entries[j].block <= l)
    BY <2>1, <2>2, <1>3
  <2>4. j \notin 1 .. m
    BY <2>3, <1>7, <1>3
  <2>5. j = m + 1
    BY <2>4, <1>8
  <2>6. l < n.entries[m + 1].block
    BY <2>1, <2>3, <2>5, <1>2
  <2>7. l < Below[b].to
    BY <1>10, <1>12, <2>6
  <2> QED BY <2>7, <1>9, <1>10, <1>6 DEF m, U
<1> QED BY <1>11, <1>12

\* It goes down a level, to a node that is for the block too.
LEMMA ExtentsDownR ==
    ASSUME RInv, ExtentsDown PROVE RInv'
<1>1. pc = "extents" /\ node.depth > 0
  BY DEF ExtentsDown
<1>2. /\ file \in Mapped /\ file \in File /\ lblock \in InFile(file) /\ lblock \in Nat
      /\ HasExtents[file] /\ SoundExtents(file) /\ extent_len = 1
  BY <1>1, NodeHere
<1>3. PICK r \in Ranges(file) :
         SoundNode(file, node, r[1], r[2]) /\ r[1] <= lblock /\ lblock < r[2]
  BY <1>1, NodeHere
<1>4. r[1] \in Nat /\ r[2] \in Nat
  BY <1>2, <1>3, BlockAssumption, SizeFacts DEF Ranges
<1>5. SoundInner(file, node, r[1], r[2])
  BY <1>1, <1>3 DEF SoundNode
<1>6. PICK e : e = node.entries[Max(EntriesUpto(node, lblock))]
  OBVIOUS
<1>7. /\ EntriesUpto(node, lblock) # {}
      /\ e.leaf \in DOMAIN Tree /\ Below[e.leaf].file = file
      /\ Below[e.leaf].from <= lblock /\ lblock < Below[e.leaf].to
  BY <1>2, <1>3, <1>4, <1>5, <1>6, DownSound
<1>8. /\ node' = Tree[e.leaf] /\ pc' = pc
      /\ UNCHANGED <<file, offset, want, size, buf, lblock, for, index, pblock, extent_len>>
  BY <1>6, <1>7 DEF ExtentsDown, extent_get_extents_in_block
<1>9. SoundNode(file, Tree[e.leaf], Below[e.leaf].from, Below[e.leaf].to)
  BY <1>2, <1>7 DEF SoundExtents
<1>10. NodeInv'
  <2>1. <<Below[e.leaf].from, Below[e.leaf].to>> \in Ranges(file)
    BY <1>7 DEF Ranges
  <2>2. \E x \in Ranges(file) :
           SoundNode(file, Tree[e.leaf], x[1], x[2]) /\ x[1] <= lblock /\ lblock < x[2]
    BY <2>1, <1>7, <1>9
  <2> QED BY <2>2, <1>2, <1>8
          DEF NodeInv, SoundNode, SoundLeaf, SoundInner, InFile, InExtent, Ranges
<1>11. TypeOK'
  <2>1. node'.depth \in Nat
    BY <1>8, <1>9 DEF SoundNode
  <2> QED BY <2>1, <1>8 DEF RInv, TypeOK
<1>12. Mapping /\ Mapping'
  BY <1>1, <1>8 DEF Mapping
<1>13. MapInv'
  BY <1>1, <1>2, <1>8, <1>10 DEF MapInv, InFile
<1> QED BY <1>8, <1>11, <1>12, <1>13, MapFrame DEF RInv

\* What a leaf says of a logical block it is for: where it is and how many
\* blocks follow, or that it is in a hole.
LEMMA LeafFound ==
    ASSUME NEW f \in File, NEW n, NEW lo \in Nat, NEW hi \in Nat, NEW l \in InFile(f),
           SoundLeaf(f, n, lo, hi), lo <= l, l < hi
    PROVE  /\ Covering(n, l) = {} => BlockOf[f][l] = 0
           /\ Covering(n, l) # {} =>
                 LET e == n.entries[Min(Covering(n, l))]
                     p == (e.start + (l - e.block)) % Word
                 IN  /\ p = BlockOf[f][l] /\ p \in 0 .. Word - 1
                     /\ Found(f, l, p, e.block + e.len - l) /\ Found(f, l, p, 1)
<1> DEFINE N == Len(n.entries)  C == Covering(n, l)  m == Min(C)
<1>1. N \in Nat /\ DOMAIN n.entries = 1 .. N
  BY LenProperties DEF SoundLeaf
<1>2. \A i \in 1 .. N :
         /\ n.entries[i].block \in Nat /\ n.entries[i].len \in Nat \ {0}
         /\ n.entries[i].start \in Nat \ {0}
  <2> TAKE i \in 1 .. N
  <2>1. n.entries[i] \in ExtentType
    BY ElementOfSeq DEF SoundLeaf
  <2> QED BY <2>1 DEF ExtentType
<1>3. l \in Nat
  BY BlockInFile
<1>4. C = {i \in 1 .. N : n.entries[i].block + n.entries[i].len > l}
  BY <1>1 DEF Covering, EndsAfter
<1>5. \A i \in 1 .. N :
         /\ n.entries[i].start + n.entries[i].len <= DiskBlocks
         /\ \A j \in 1 .. i - 1 : n.entries[j].block + n.entries[j].len <= n.entries[i].block
         /\ \A x \in InFile(f) : InExtent(n.entries[i], x) =>
               BlockOf[f][x] = n.entries[i].start + (x - n.entries[i].block)
  BY DEF SoundLeaf
<1>6. \/ \E i \in 1 .. N : InExtent(n.entries[i], l)
      \/ /\ BlockOf[f][l] = 0
         /\ \A i \in 1 .. N : n.entries[i].block + n.entries[i].len <= l
  BY DEF SoundLeaf
<1> HIDE DEF N, C
<1>7. CASE C = {}
  <2>1. \A i \in 1 .. N : ~InExtent(n.entries[i], l)
    <3> TAKE i \in 1 .. N
    <3>1. ~(n.entries[i].block + n.entries[i].len > l)
      BY <1>4, <1>7
    <3> QED BY <3>1, <1>2, <1>3 DEF InExtent
  <2>2. BlockOf[f][l] = 0
    BY <2>1, <1>6
  <2> QED BY <1>7, <2>2 DEF C
<1>8. CASE C # {}
  <2>1. PICK i \in 1 .. N : InExtent(n.entries[i], l)
    <3>1. PICK k \in 1 .. N : n.entries[k].block + n.entries[k].len > l
      BY <1>4, <1>8
    <3>2. ~(n.entries[k].block + n.entries[k].len <= l)
      BY <3>1, <1>2, <1>3
    <3> QED BY <3>2, <1>6
  <2>2. m \in C /\ \A k \in C : m <= k
    <3>1. C \in SUBSET Nat
      BY <1>4
    <3> QED BY <3>1, <1>8, MinIs
  <2> HIDE DEF m
  <2>3. m \in 1 .. N /\ n.entries[m].block + n.entries[m].len > l
    BY <2>2, <1>4
  <2>4. m <= i
    <3>1. i \in C
      BY <2>1, <1>2, <1>3, <1>4 DEF InExtent
    <3> QED BY <3>1, <2>2
  <2>5. m = i
    <3> SUFFICES ASSUME m < i PROVE FALSE
      BY <2>3, <2>4
    <3>1. m \in 1 .. i - 1
      BY <2>3
    <3>2. n.entries[m].block + n.entries[m].len <= n.entries[i].block
      BY <3>1, <1>5
    <3>3. n.entries[i].block <= l
      BY <2>1 DEF InExtent
    <3>4. /\ n.entries[m].block \in Nat /\ n.entries[m].len \in Nat /\ n.entries[i].block \in Nat
      BY <2>3, <1>2
    <3> QED BY <2>3, <3>2, <3>3, <3>4, <1>3
  <2>6. PICK b \in Nat, c \in Nat \ {0}, s \in Nat \ {0} :
           b = n.entries[m].block /\ c = n.entries[m].len /\ s = n.entries[m].start
    BY <2>3, <1>2
  <2>7. b <= l /\ l < b + c /\ s + c <= DiskBlocks
    BY <2>1, <2>5, <2>6, <1>5 DEF InExtent
  <2>8. \A x \in InFile(f) : b <= x /\ x < b + c => BlockOf[f][x] = s + (x - b)
    BY <2>5, <2>6, <1>5 DEF InExtent
  <2>9. PICK p \in Nat : p = s + (l - b)
    BY <2>7, <1>3
  <2>10. p % Word = p /\ p \in 0 .. Word - 1 /\ p # 0 /\ p + (b + c - l) <= DiskBlocks
         /\ p + 1 <= DiskBlocks /\ b + c - l \in Nat \ {0}
    BY <2>7, <2>9, <1>3, SizeFacts
  <2>11. p = BlockOf[f][l]
    BY <2>7, <2>8, <2>9
  <2>12. \A k \in 0 .. (b + c - l) - 1 : l + k \in InFile(f) => BlockOf[f][l + k] = p + k
    <3> SUFFICES ASSUME NEW k \in 0 .. (b + c - l) - 1, l + k \in InFile(f)
                 PROVE  BlockOf[f][l + k] = p + k
      OBVIOUS
    <3>1. b <= l + k /\ l + k < b + c /\ s + ((l + k) - b) = p + k
      BY <2>7, <2>9, <1>3
    <3> QED BY <3>1, <2>8
  <2>13. Found(f, l, p, b + c - l)
    BY <2>10, <2>11, <2>12 DEF Found
  <2>14. Found(f, l, p, 1)
    <3>1. \A k \in 0 .. 1 - 1 : k \in 0 .. (b + c - l) - 1
      BY <2>10
    <3> QED BY <3>1, <2>10, <2>11, <2>12 DEF Found
  <2> QED BY <2>6, <2>9, <2>10, <2>11, <2>13, <2>14, <1>8 DEF m, C
<1> QED BY <1>7, <1>8

\* A leaf gives the block, and how many follow it.
LEMMA ExtentsLeafR ==
    ASSUME RInv, ExtentsLeaf PROVE RInv'
<1>1. /\ pc = "extents" /\ node.depth = 0 /\ pc' = "mapped"
      /\ UNCHANGED <<file, offset, want, size, buf, lblock, for, node, index>>
  BY DEF ExtentsLeaf
<1>2. /\ file \in Mapped /\ file \in File /\ lblock \in InFile(file) /\ lblock \in Nat
      /\ HasExtents[file] /\ extent_len = 1
  BY <1>1, NodeHere
<1>3. PICK r \in Ranges(file) :
         SoundNode(file, node, r[1], r[2]) /\ r[1] <= lblock /\ lblock < r[2]
  BY <1>1, NodeHere
<1>4. r[1] \in Nat /\ r[2] \in Nat
  BY <1>2, <1>3, BlockAssumption, SizeFacts DEF Ranges
<1>5. SoundLeaf(file, node, r[1], r[2])
  BY <1>1, <1>3 DEF SoundNode
<1>6. pblock' \in 0 .. Word - 1 /\ Found(file, lblock, pblock', extent_len')
  <2>1. CASE Covering(node, lblock) = {}
    <3>1. BlockOf[file][lblock] = 0
      BY <2>1, <1>2, <1>3, <1>4, <1>5, LeafFound
    <3>2. pblock' = 0 /\ extent_len' = 1
      BY <2>1, <1>2 DEF ExtentsLeaf
    <3> QED BY <3>1, <3>2, SizeFacts DEF Found
  <2>2. CASE Covering(node, lblock) # {}
    <3>1. PICK e : e = node.entries[Min(Covering(node, lblock))]
      OBVIOUS
    <3>2. PICK p : p = (e.start + (lblock - e.block)) % Word
      OBVIOUS
    <3>3. /\ p \in 0 .. Word - 1
          /\ Found(file, lblock, p, e.block + e.len - lblock) /\ Found(file, lblock, p, 1)
      BY <2>2, <3>1, <3>2, <1>2, <1>3, <1>4, <1>5, LeafFound
    <3>4. /\ pblock' = p
          /\ extent_len' = IF for = "loop" THEN e.block + e.len - lblock ELSE 1
      BY <2>2, <3>1, <3>2, <1>2 DEF ExtentsLeaf
    <3> QED BY <3>3, <3>4
  <2> QED BY <2>1, <2>2
<1>7. MapInv'
  BY <1>1, <1>2, <1>6 DEF MapInv, InFile, Found
<1>8. TypeOK'
  <2>1. extent_len' \in Nat
    BY <1>6 DEF Found
  <2> QED BY <2>1, <1>1, <1>6 DEF RInv, TypeOK
<1>9. Mapping /\ Mapping'
  BY <1>1 DEF Mapping
<1> QED BY <1>1, <1>7, <1>8, <1>9, MapFrame DEF RInv

\* A number below a square has two digits.
LEMMA TwoDigits ==
    ASSUME NEW a \in Nat \ {0}, NEW r \in Nat, r < a * a
    PROVE  \E i, j \in 0 .. a - 1 : r = a * i + j
<1>1. r \div a \in Nat /\ r % a \in 0 .. a - 1 /\ r = a * (r \div a) + (r % a)
  BY DivFacts
<1>2. r \div a < a
  <2>1. a \in Nat
    OBVIOUS
  <2> QED BY ONLY <2>1, a \in Nat \ {0}, r \in Nat, r < a * a, DivBounds, Zenon
<1>3. r \div a \in 0 .. a - 1
  BY <1>1, <1>2
<1> QED BY <1>1, <1>3, Zenon

\* One below a cube has three.
LEMMA ThreeDigits ==
    ASSUME NEW a \in Nat \ {0}, NEW r \in Nat, r < a * a * a
    PROVE  \E i, j, k \in 0 .. a - 1 : r = a * a * i + a * j + k
<1>1. PICK q \in Nat \ {0} : q = a * a
  BY Z3
<1>2. r \div q \in Nat /\ r % q \in 0 .. q - 1 /\ r = q * (r \div q) + (r % q)
  BY DivFacts
<1>3. r \div q < a
  <2>1. a \in Nat /\ r < q * a
    BY <1>1
  <2> QED BY ONLY <2>1, q \in Nat \ {0}, r \in Nat, DivBounds, Zenon
<1>4. r \div q \in 0 .. a - 1
  BY <1>2, <1>3
<1>5. PICK s \in Nat : s = r % q /\ s < a * a
  BY <1>1, <1>2
<1>6. PICK j, k \in 0 .. a - 1 : s = a * j + k
  BY <1>5, TwoDigits
<1>7. r = a * a * (r \div q) + a * j + k
  <2>1. PICK d \in Nat : d = r \div q /\ r = q * d + s
    BY <1>2, <1>5
  <2>2. r = a * a * d + a * j + k
    BY <2>1, <1>1, <1>6, Z3
  <2> QED BY <2>1, <2>2
<1> QED BY <1>4, <1>6, <1>7, Zenon

\* The pointers of a file without extents that is asked for.
LEMMA PointersSound ==
    ASSUME NEW f \in Mapped, ~HasExtents[f]
    PROVE  SoundPointers(f) /\ Pointers \in [Block -> [0 .. ADDR - 1 -> Block]]
BY BlockAssumption

\* How far one, two and three levels reach.
LEMMA Reaches ==
    /\ MaxBlock(0) = NDIR /\ MaxBlock(1) = NDIR + ADDR
    /\ MaxBlock(2) = NDIR + ADDR + ADDR * ADDR
    /\ MaxBlock(3) = NDIR + ADDR + ADDR * ADDR + ADDR * ADDR * ADDR
BY DEF MaxBlock

\* A direct pointer is the block.
LEMMA MapDirectR ==
    ASSUME RInv, MapDirect PROVE RInv'
<1>1. /\ pc = "map" /\ ~HasExtents[file] /\ lblock < NDIR /\ pc' = "mapped"
      /\ pblock' = IBlock[file][lblock]
      /\ UNCHANGED <<file, offset, want, size, buf, lblock, for, node, index, extent_len>>
  BY DEF MapDirect
<1>2. Mapping /\ Mapping' /\ file \in Mapped /\ lblock \in InFile(file) /\ extent_len = 1
  BY <1>1 DEF Mapping, RInv, MapInv
<1>3. file \in File /\ lblock \in 0 .. NDIR - 1 /\ lblock \in 0 .. NDIR + 2
  BY <1>1, <1>2, BlockInFile, MappedFiles, SizeFacts
<1>4. BlockOf[file][lblock] = IBlock[file][lblock] /\ IBlock[file] \in [0 .. NDIR + 2 -> Block]
  BY <1>1, <1>2, <1>3, PointersSound DEF SoundPointers
<1>5. pblock' \in 0 .. DiskBlocks - 1
  BY <1>1, <1>3, <1>4 DEF Block
<1>6. Found(file, lblock, pblock', 1)
  BY <1>1, <1>2, <1>3, <1>4, <1>5, SizeFacts DEF Found
<1>7. MapInv'
  BY <1>1, <1>2, <1>6 DEF MapInv, InFile, Found
<1>8. TypeOK'
  <2>1. pblock' \in 0 .. Word - 1
    BY <1>5, SizeFacts
  <2> QED BY <2>1, <1>1, <1>2 DEF RInv, TypeOK
<1> QED BY <1>1, <1>2, <1>7, <1>8, MapFrame DEF RInv

\* The pointers of one, two or three levels lead to the block.
LEMMA MapIndirectR ==
    ASSUME RInv, NEW n \in 1 .. 3, MapIndirect(n) PROVE RInv'
<1> DEFINE b == BlockOf[file][lblock]
           rel == lblock - MaxBlock(n - 1)
<1>1. /\ pc = "map" /\ ~HasExtents[file] /\ pc' = "pointers"
      /\ MaxBlock(n - 1) <= lblock /\ lblock < MaxBlock(n)
      /\ index' = [level |-> n, block |-> IBlock[file][NDIR + n - 1], rel |-> rel]
      /\ UNCHANGED <<file, offset, want, size, buf, lblock, for, node, pblock, extent_len>>
  <2>1. lblock >= MaxBlock(n - 1)
    BY DEF MapIndirect
  <2> QED BY <2>1 DEF MapIndirect, FirstPointer
<1>2. Mapping /\ Mapping' /\ file \in Mapped /\ lblock \in InFile(file) /\ extent_len = 1
  BY <1>1 DEF Mapping, RInv, MapInv
<1>3. file \in File /\ lblock \in Nat
  BY <1>2, BlockInFile, MappedFiles
<1>4. SoundPointers(file) /\ Pointers \in [Block -> [0 .. ADDR - 1 -> Block]]
  BY <1>1, <1>2, PointersSound
<1>5. IBlock[file][NDIR + n - 1] \in Block
  <2>1. NDIR + n - 1 \in 0 .. NDIR + 2
    BY SizeFacts
  <2> QED BY <2>1, <1>4 DEF SoundPointers
<1>6. PICK a \in Nat \ {0} : a = ADDR
  BY SizeFacts
<1>7. PICK m \in Nat : m = NDIR
  BY SizeFacts
<1>8. rel \in Nat
  <2>1. MaxBlock(n - 1) \in Nat
    BY <1>6, <1>7, Reaches, n - 1 \in {0, 1, 2}, Z3
  <2> QED BY <2>1, <1>1, <1>3
<1>9. ASSUME n = 1 PROVE LeadsTo(BlockOf[file][lblock])'
  <2>1. rel \in 0 .. ADDR - 1 /\ lblock = NDIR + rel
    BY <1>1, <1>3, <1>6, <1>7, <1>8, <1>9, Reaches
  <2>2. b = Pointers[IBlock[file][NDIR]][rel]
    BY <2>1, <1>2, <1>4 DEF SoundPointers
  <2>3. index' = [level |-> 1, block |-> IBlock[file][NDIR], rel |-> rel]
    BY <1>1, <1>9, <1>7
  <2> HIDE DEF b, rel
  <2>4. LeadsTo(BlockOf[file][lblock])'
    BY <2>1, <2>2, <2>3, <1>1, <1>5, <1>7, <1>8, <1>9, SizeFacts DEF LeadsTo, b
  <2> QED BY <2>4
<1>10. ASSUME n = 2 PROVE LeadsTo(BlockOf[file][lblock])'
  <2>1. lblock = NDIR + ADDR + rel /\ rel < a * a
    BY <1>1, <1>3, <1>6, <1>7, <1>8, <1>10, Reaches, Z3
  <2> HIDE DEF b, rel
  <2>2. PICK i, j \in 0 .. a - 1 : rel = a * i + j
    BY <2>1, <1>8, TwoDigits
  <2>3. lblock = NDIR + ADDR + ADDR * i + j
    <3>1. m + a + (a * i + j) = m + a + a * i + j
      BY Z3
    <3> QED BY <3>1, <2>1, <2>2, <1>6, <1>7
  <2>4. b = Pointers[Pointers[IBlock[file][NDIR + 1]][i]][j]
    BY <2>2, <2>3, <1>2, <1>4, <1>6 DEF SoundPointers, b
  <2>5. index' = [level |-> 2, block |-> IBlock[file][NDIR + 1], rel |-> rel]
    BY <1>1, <1>10, <1>7
  <2>6. LeadsTo(BlockOf[file][lblock])'
    BY <2>2, <2>4, <2>5, <1>1, <1>5, <1>6, <1>7, <1>8, <1>10 DEF LeadsTo, b
  <2> QED BY <2>6
<1>11. ASSUME n = 3 PROVE LeadsTo(BlockOf[file][lblock])'
  <2>1. lblock = NDIR + ADDR + ADDR * ADDR + rel /\ rel < a * a * a
    BY <1>1, <1>3, <1>6, <1>7, <1>8, <1>11, Reaches, Z3
  <2> HIDE DEF b, rel
  <2>2. PICK i, j, k \in 0 .. a - 1 : rel = a * a * i + a * j + k
    BY <2>1, <1>8, ThreeDigits
  <2>3. lblock = NDIR + ADDR + ADDR * ADDR + ADDR * ADDR * i + ADDR * j + k
    <3>1. m + a + a * a + (a * a * i + a * j + k) = m + a + a * a + a * a * i + a * j + k
      BY Z3
    <3> QED BY <3>1, <2>1, <2>2, <1>6, <1>7
  <2>4. b = Pointers[Pointers[Pointers[IBlock[file][NDIR + 2]][i]][j]][k]
    BY <2>2, <2>3, <1>2, <1>4, <1>6 DEF SoundPointers, b
  <2>5. index' = [level |-> 3, block |-> IBlock[file][NDIR + 2], rel |-> rel]
    BY <1>1, <1>11, <1>7
  <2>6. \E x, y, z \in 0 .. ADDR - 1 :
           /\ rel = ADDR * ADDR * x + ADDR * y + z
           /\ Pointers[Pointers[Pointers[IBlock[file][NDIR + 2]][x]][y]][z] = b
    BY <2>2, <2>4, <1>6
  <2>7. IBlock[file][NDIR + 2] \in Block
    BY <1>5, <1>7, <1>11
  <2>8. /\ index'.level \in 1 .. 3 /\ index'.level # 1 /\ index'.level # 2
        /\ index'.block = IBlock[file][NDIR + 2] /\ index'.rel = rel
    BY <2>5
  <2>9. (BlockOf[file][lblock])' = b /\ file' = file
    BY <1>1 DEF b
  <2> QED BY <2>6, <2>7, <2>8, <2>9, <1>1, <1>8, Zenon DEF LeadsTo
<1>12. LeadsTo(BlockOf[file][lblock])'
  BY <1>9, <1>10, <1>11, n \in {1, 2, 3}
<1> HIDE DEF rel
<1>13. MapInv'
  BY <1>1, <1>2, <1>12 DEF MapInv, InFile
<1>14. TypeOK'
  BY <1>1, <1>5, <1>8 DEF RInv, TypeOK
<1> QED BY <1>1, <1>2, <1>13, <1>14, MapFrame DEF RInv

\* Where a walk of pointers is.
LEMMA PointersHere ==
    ASSUME RInv, pc = "pointers"
    PROVE  /\ Mapping /\ file \in Mapped /\ file \in File /\ lblock \in InFile(file)
           /\ lblock \in Nat /\ extent_len = 1 /\ LeadsTo(BlockOf[file][lblock])
           /\ Pointers \in [Block -> [0 .. ADDR - 1 -> Block]]
<1>1. /\ Mapping /\ file \in Mapped /\ lblock \in InFile(file) /\ extent_len = 1
      /\ LeadsTo(BlockOf[file][lblock])
  BY DEF RInv, MapInv, Mapping
<1> QED BY <1>1, MappedFiles, BlockInFile, BlockAssumption

\* They still do a level further down.
LEMMA PointersDownR ==
    ASSUME RInv, PointersDown PROVE RInv'
<1> DEFINE b == BlockOf[file][lblock]
<1>1. /\ pc = "pointers" /\ index.level > 1 /\ pc' = "pointers"
      /\ index' = [level |-> index.level - 1,
                   block |-> Pointers[index.block][index.rel \div Span(index.level)],
                   rel |-> index.rel % Span(index.level)]
      /\ UNCHANGED <<file, offset, want, size, buf, lblock, for, node, pblock, extent_len>>
  BY DEF PointersDown
<1>2. /\ Mapping /\ file \in Mapped /\ file \in File /\ lblock \in InFile(file)
      /\ lblock \in Nat /\ extent_len = 1 /\ LeadsTo(b)
      /\ Pointers \in [Block -> [0 .. ADDR - 1 -> Block]]
  BY <1>1, PointersHere
<1>3. PICK a \in Nat \ {0} : a = ADDR
  BY SizeFacts
<1>4. index.level \in 1 .. 3 /\ index.block \in Block /\ index.rel \in Nat /\ ~HasExtents[file]
  BY <1>2 DEF LeadsTo
<1>5. (BlockOf[file][lblock])' = b /\ file' = file
  BY <1>1
<1> HIDE DEF b
<1>6. ASSUME index.level = 2 PROVE LeadsTo(b)' /\ TypeOK'
  <2>1. PICK i, j \in 0 .. a - 1 :
           index.rel = a * i + j /\ Pointers[Pointers[index.block][i]][j] = b
    BY <1>2, <1>3, <1>6 DEF LeadsTo
  <2>2. index.rel \div a = i /\ index.rel % a = j
    BY <2>1, <1>4, DivUnique
  <2>3. Span(2) = a
    BY <1>3 DEF Span
  <2>4. index' = [level |-> 1, block |-> Pointers[index.block][i], rel |-> j]
    BY <1>1, <1>6, <2>2, <2>3
  <2>5. Pointers[index.block][i] \in Block /\ j \in Nat /\ j < ADDR
    BY <2>1, <1>2, <1>3, <1>4
  <2>6. LeadsTo(b)'
    BY <2>1, <2>4, <2>5, <1>4, <1>5 DEF LeadsTo, b
  <2>7. TypeOK'
    BY <2>4, <2>5, <1>1 DEF RInv, TypeOK
  <2> QED BY <2>6, <2>7
<1>7. ASSUME index.level = 3 PROVE LeadsTo(b)' /\ TypeOK'
  <2>1. PICK i, j, k \in 0 .. a - 1 :
           /\ index.rel = a * a * i + a * j + k
           /\ Pointers[Pointers[Pointers[index.block][i]][j]][k] = b
    BY <1>2, <1>3, <1>7 DEF LeadsTo
  <2>2. PICK q \in Nat \ {0} : q = a * a
    BY Z3
  <2>3. PICK s \in 0 .. q - 1 : s = a * j + k
    <3>1. a * j <= a * (a - 1)
      BY Z3
    <3>2. a * (a - 1) = a * a - a /\ a * j \in Nat
      BY Z3
    <3> QED BY <2>2, <3>1, <3>2
  <2>4. index.rel = q * i + s
    <3>1. a * a * i + a * j + k = a * a * i + (a * j + k)
      BY Z3
    <3> QED BY <2>1, <2>2, <2>3, <3>1
  <2>5. index.rel \div q = i /\ index.rel % q = s
    <3>1. i \in Nat
      OBVIOUS
    <3> QED BY ONLY <3>1, <2>4, <1>4, q \in Nat \ {0}, s \in 0 .. q - 1, DivUnique, Zenon
  <2>6. Span(3) = q
    BY <1>3, <2>2 DEF Span
  <2>7. index' = [level |-> 2, block |-> Pointers[index.block][i], rel |-> s]
    BY <1>1, <1>7, <2>5, <2>6
  <2>8. Pointers[index.block][i] \in Block /\ s \in Nat
    BY <2>1, <1>2, <1>3, <1>4
  <2>9. \E x, y \in 0 .. ADDR - 1 :
           s = ADDR * x + y /\ Pointers[Pointers[Pointers[index.block][i]][x]][y] = b
    BY <2>1, <2>3, <1>3
  <2>10. /\ index'.level \in 1 .. 3 /\ index'.level # 1 /\ index'.level # 3
         /\ index'.block = Pointers[index.block][i] /\ index'.rel = s
    BY <2>7
  <2>11. LeadsTo(b)'
    BY <2>8, <2>9, <2>10, <1>4, <1>5, Zenon DEF LeadsTo, b
  <2>12. TypeOK'
    BY <2>7, <2>8, <1>1 DEF RInv, TypeOK
  <2> QED BY <2>11, <2>12
<1>8. LeadsTo(b)' /\ TypeOK'
  <2>1. index.level \in {2, 3}
    BY <1>1, <1>4
  <2> QED BY <2>1, <1>6, <1>7
<1>9. MapInv'
  BY <1>1, <1>2, <1>8 DEF MapInv, InFile, b
<1>10. Mapping'
  BY <1>1 DEF Mapping
<1> QED BY <1>1, <1>2, <1>8, <1>9, <1>10, MapFrame DEF RInv

\* The last pointer is the block.
LEMMA PointersLeafR ==
    ASSUME RInv, PointersLeaf PROVE RInv'
<1>1. /\ pc = "pointers" /\ index.level = 1 /\ pc' = "mapped"
      /\ pblock' = Pointers[index.block][index.rel]
      /\ UNCHANGED <<file, offset, want, size, buf, lblock, for, node, index, extent_len>>
  BY DEF PointersLeaf
<1>2. /\ Mapping /\ file \in Mapped /\ file \in File /\ lblock \in InFile(file)
      /\ lblock \in Nat /\ extent_len = 1 /\ LeadsTo(BlockOf[file][lblock])
      /\ Pointers \in [Block -> [0 .. ADDR - 1 -> Block]]
  BY <1>1, PointersHere
<1>3. pblock' = BlockOf[file][lblock] /\ index.block \in Block /\ index.rel \in 0 .. ADDR - 1
  BY <1>1, <1>2, SizeFacts DEF LeadsTo
<1>4. pblock' \in 0 .. DiskBlocks - 1
  BY <1>1, <1>2, <1>3 DEF Block
<1>5. Found(file, lblock, pblock', 1)
  BY <1>2, <1>3, <1>4, SizeFacts DEF Found
<1>6. MapInv'
  BY <1>1, <1>2, <1>5 DEF MapInv, InFile, Found
<1>7. TypeOK'
  <2>1. pblock' \in 0 .. Word - 1
    BY <1>4, SizeFacts
  <2> QED BY <2>1, <1>1, <1>2 DEF RInv, TypeOK
<1>8. Mapping'
  BY <1>1 DEF Mapping
<1> QED BY <1>1, <1>2, <1>6, <1>7, <1>8, MapFrame DEF RInv

\* The ASSERT of inode_get_data_pblock fails only for a block that three
\* levels do not reach.
LEMMA MapFailsR ==
    ASSUME RInv, MapFails PROVE RInv'
<1>1. /\ pc = "map" /\ ~HasExtents[file] /\ pc' = "abort"
      /\ lblock >= MaxBlock(3) \/ lblock > BytesToBlocks(Size[file])
      /\ UNCHANGED <<file, offset, want, size, buf, lblock, for, node, index, pblock,
                     extent_len>>
  BY DEF MapFails, Abort
<1>2. file \in Mapped /\ lblock \in InFile(file)
  BY <1>1 DEF Mapping, RInv, MapInv
<1>3. lblock \in Nat /\ lblock <= BytesToBlocks(Size[file]) /\ file \in File
  BY <1>2, BlockInFile, MappedFiles
<1>4. Size[file] \in Nat /\ BytesToBlocks(Size[file]) \in Nat
  <2>1. PICK n \in Nat : n = Size[file]
    BY <1>3, SizeFacts
  <2>2. n \div BLOCK_SIZE \in Nat
    BY SizeFacts, DivFacts
  <2> QED BY <2>1, <2>2 DEF BytesToBlocks
<1>5. lblock >= MaxBlock(3)
  BY <1>1, <1>3, <1>4
<1>6. AssertsHold'
  BY <1>1, <1>5 DEF AssertsHold, MaxBlock
<1>7. TypeOK' /\ ReadSoFar'
  BY <1>1 DEF RInv, TypeOK, ReadSoFar, ret, ByteOf
<1>8. MapInv' /\ ReadInv'
  BY <1>1 DEF MapInv, ReadInv, Reading, Mapping
<1> QED BY <1>6, <1>7, <1>8 DEF RInv

-----------------------------------------------------------------------------
(* op_read.                                                                *)

\* The lesser of two numbers.
LEMMA MinTwo ==
    ASSUME NEW a \in Int, NEW b \in Int
    PROVE  Min({a, b}) = IF a <= b THEN a ELSE b
<1>1. CASE a <= b
  <2>1. a \in {a, b} /\ \A y \in {a, b} : a <= y
    BY <1>1
  <2>2. Min({a, b}) \in {a, b} /\ \A y \in {a, b} : Min({a, b}) <= y
    BY <2>1 DEF Min
  <2> QED BY <1>1, <2>2
<1>2. CASE ~(a <= b)
  <2>1. b \in {a, b} /\ \A y \in {a, b} : b <= y
    BY <1>2
  <2>2. Min({a, b}) \in {a, b} /\ \A y \in {a, b} : Min({a, b}) <= y
    BY <2>1 DEF Min
  <2> QED BY <1>2, <2>2
<1> QED BY <1>1, <1>2

\* A function on 1 .. n is a sequence of length n.
LEMMA FunctionIsSeq ==
    ASSUME NEW n \in Nat, NEW S, NEW g \in [1 .. n -> S]
    PROVE  g \in Seq(S) /\ Len(g) = n
<1>1. g \in Seq(S)
  BY SeqDef
<1>2. Len(g) \in Nat /\ DOMAIN g = 1 .. Len(g) /\ DOMAIN g = 1 .. n
  BY <1>1, LenProperties
<1> QED BY <1>1, <1>2

Byte == Nat \cup {Zero}

\* What is left of a request within the file.
LEMMA Truncated ==
    ASSUME NEW f \in File, NEW s \in Nat, NEW o \in Nat
    PROVE  /\ truncate_size(f, s, o) \in 0 .. s
           /\ truncate_size(f, s, o) > 0 => o + truncate_size(f, s, o) <= Size[f]
BY SizeFacts DEF truncate_size

\* The variables of op_read have their types.
LEMMA ReadTypes ==
    ASSUME RInv
    PROVE  /\ file \in File /\ offset \in Nat /\ want \in Nat /\ size \in 0 .. want
           /\ buf \in Seq(Byte) /\ ret \in Nat /\ lblock \in Nat
           /\ Reading => /\ file \in Mapped /\ size = truncate_size(file, want, offset)
                         /\ ret <= size /\ (size > 0 => offset + size <= Size[file])
<1>1. /\ file \in File /\ offset \in Nat /\ want \in Nat /\ size \in 0 .. want
      /\ buf \in Seq(Byte) /\ lblock \in Nat
  BY DEF RInv, TypeOK, Byte
<1>2. ret \in Nat
  BY <1>1, LenProperties DEF ret
<1>3. Reading => file \in Mapped /\ size = truncate_size(file, want, offset) /\ ret <= size
  BY DEF RInv, ReadInv
<1> QED BY <1>1, <1>2, <1>3, Truncated

\* What is added to the buffer is right if each byte of it is.
LEMMA Appending ==
    ASSUME RInv, Reading, NEW n \in Nat, n > 0, ret + n <= size,
           NEW s \in [1 .. n -> Byte],
           \A j \in 0 .. n - 1 : s[j + 1] = ByteOf(file, offset + ret + j),
           buf' = buf \o s, UNCHANGED <<file, offset, want, size>>
    PROVE  ReadSoFar' /\ buf' \in Seq(Byte) /\ ret' = ret + n
<1>1. /\ file \in File /\ offset \in Nat /\ want \in Nat /\ size \in 0 .. want
      /\ buf \in Seq(Byte) /\ ret \in Nat
      /\ (size > 0 => offset + size <= Size[file])
  BY ReadTypes
<1>2. s \in Seq(Byte) /\ Len(s) = n
  BY FunctionIsSeq
<1>3. /\ buf' \in Seq(Byte) /\ Len(buf') = ret + n
      /\ \A i \in 1 .. ret + n : buf'[i] = IF i <= ret THEN buf[i] ELSE s[i - ret]
  BY <1>1, <1>2, ConcatProperties DEF ret
<1>4. ret' = ret + n
  BY <1>3 DEF ret
<1>5. Size[file] \in Nat
  BY <1>1, SizeFacts
<1>6. ASSUME NEW i \in 1 .. ret + n
      PROVE  offset + i <= Size[file] /\ buf'[i] = ByteOf(file, offset + i - 1)
  <2>1. offset + i <= Size[file]
    BY <1>1, <1>5
  <2>2. CASE i <= ret
    <3>1. i \in 1 .. ret
      BY <2>2, <1>1
    <3>2. buf[i] = ByteOf(file, offset + i - 1)
      BY <3>1 DEF RInv, ReadSoFar
    <3> QED BY <2>1, <2>2, <3>2, <1>3
  <2>3. CASE ~(i <= ret)
    <3>1. i - ret - 1 \in 0 .. n - 1 /\ (i - ret - 1) + 1 = i - ret
          /\ offset + ret + (i - ret - 1) = offset + i - 1
      BY <2>3, <1>1
    <3>2. s[i - ret] = ByteOf(file, offset + i - 1)
      BY <3>1
    <3> QED BY <2>1, <2>3, <3>2, <1>3
  <2> QED BY <1>1, <2>2, <2>3
<1>7. ret' <= want'
  BY <1>1, <1>4
<1>8. ReadSoFar'
  <2>1. \A i \in 1 .. ret' : offset + i <= Size[file] /\ buf'[i] = ByteOf(file, offset + i - 1)
    BY <1>4, <1>6
  <2>2. file' = file /\ offset' = offset
    OBVIOUS
  <2> QED BY <2>1, <2>2, <1>7 DEF ReadSoFar, ByteOf
<1> QED BY <1>3, <1>4, <1>8

\* first_read takes at least a byte, stays in its block, and takes all that
\* is wanted or goes up to the end of the block.
LEMMA FirstSizeIs ==
    ASSUME NEW b \in Nat \ {0}, NEW o \in Nat, NEW s \in Nat \ {0}
    PROVE  LET n == IF (o + s - 1) \div b = o \div b THEN s ELSE b - (o % b)
           IN  /\ n \in 1 .. s /\ (o % b) + n <= b
               /\ n = s \/ (o + n = (o \div b + 1) * b)
<1>1. PICK q \in Nat, r \in 0 .. b - 1 : q = o \div b /\ r = o % b /\ o = b * q + r
  BY DivFacts
<1>2. b * (q + 1) = b * q + b /\ (q + 1) * b = b * q + b /\ b * q \in Nat
  BY Z3
<1>3. PICK t \in Nat : t = o + s - 1
  OBVIOUS
<1>4. q + 1 \in Nat
  OBVIOUS
<1>5. /\ b * (q + 1) <= t => q + 1 <= t \div b
      /\ t < b * (q + 1) => t \div b < q + 1
      /\ b * q <= t => q <= t \div b
      /\ t \div b \in Nat
  BY ONLY <1>4, b \in Nat \ {0}, q \in Nat, t \in Nat, DivBounds, DivFacts, Zenon
<1>6. CASE t \div b = q
  <2>1. t < b * q + b
    BY <1>2, <1>5, <1>6
  <2>2. r + s <= b
    BY <2>1, <1>1, <1>2, <1>3
  <2> QED BY <2>2, <1>1, <1>3, <1>6
<1>7. CASE t \div b # q
  <2>1. ~(t < b * (q + 1))
    BY <1>1, <1>2, <1>3, <1>5, <1>7
  <2>2. b - r \in 1 .. s /\ o + (b - r) = (q + 1) * b
    BY <2>1, <1>1, <1>2, <1>3
  <2> QED BY <2>2, <1>1, <1>3, <1>7
<1> QED BY <1>6, <1>7

\* The bytes of consecutive blocks lie on the disk one after the other.
LEMMA BytesFound ==
    ASSUME NEW f \in File, NEW l \in Nat, NEW p \in Nat, NEW n, Found(f, l, p, n),
           NEW j \in Nat, j < BLOCK_SIZE * n, l * BLOCK_SIZE + j < Size[f]
    PROVE  /\ p # 0 => ByteOf(f, l * BLOCK_SIZE + j) = p * BLOCK_SIZE + j
           /\ p = 0 => ByteOf(f, l * BLOCK_SIZE + j) = Zero
<1>1. PICK b \in Nat \ {0} : b = BLOCK_SIZE
  BY SizeFacts
<1>2. n \in Nat \ {0} /\ p = BlockOf[f][l]
  BY DEF Found
<1>3. PICK k \in Nat, r \in 0 .. b - 1 : k = j \div b /\ r = j % b /\ j = b * k + r
  BY DivFacts
<1>4. k < n
  <2>1. n \in Nat /\ j < b * n
    BY <1>1, <1>2
  <2> QED BY ONLY <1>3, <2>1, b \in Nat \ {0}, j \in Nat, DivBounds, Zenon
<1>5. (l * b + j) \div b = l + k /\ (l * b + j) % b = r
  BY <1>3, DivShift
<1>6. l * b + j \in Nat
  BY Z3
<1>7. l + k \in InFile(f)
  BY <1>1, <1>5, <1>6, ByteInFile
<1>8. ByteOf(f, l * b + j) = LET x == BlockOf[f][l + k] IN IF x = 0 THEN Zero ELSE x * b + r
  BY <1>1, <1>5 DEF ByteOf
<1>9. CASE p = 0
  <2>1. n = 1
    BY <1>9 DEF Found
  <2>2. l + k = l
    BY <2>1, <1>4
  <2> QED BY <2>2, <1>1, <1>2, <1>8, <1>9
<1>10. CASE p # 0
  <2>1. BlockOf[f][l + k] = p + k
    <3>1. k \in 0 .. n - 1
      BY <1>2, <1>4
    <3> QED BY <3>1, <1>7, <1>10 DEF Found
  <2>2. p + k # 0 /\ (p + k) * b + r = p * b + j
    <3>1. (p + k) * b = p * b + b * k
      BY Z3
    <3>2. p * b \in Nat /\ b * k \in Nat
      BY Z3
    <3> QED BY <3>1, <3>2, <1>3, <1>10
  <2> QED BY <2>1, <2>2, <1>1, <1>8, <1>10
<1> QED BY <1>9, <1>10

\* Where a mapping for op_read has ended.
LEMMA MappedRead ==
    ASSUME RInv, pc = "mapped", for \in {"first_read", "loop"}
    PROVE  /\ Mapping /\ Reading /\ file \in Mapped /\ file \in File
           /\ lblock \in InFile(file) /\ lblock \in Nat
           /\ Found(file, lblock, pblock, extent_len)
           /\ pblock \in Nat /\ pblock < DiskBlocks /\ extent_len \in Nat \ {0}
<1>1. Mapping /\ Reading
  BY DEF Mapping, Reading
<1>2. /\ file \in Mapped /\ file \in File /\ lblock \in InFile(file) /\ lblock \in Nat
      /\ Found(file, lblock, pblock, extent_len)
  BY <1>1, MappedFiles, BlockInFile DEF RInv, MapInv
<1>3. BlockOf[file][lblock] \in Block
  BY <1>2, BlockAssumption
<1> QED BY <1>1, <1>2, <1>3, SizeFacts DEF Found, Block

\* first_read takes the bytes from the offset to the end of a block.
LEMMA FirstReadR ==
    ASSUME RInv, first_read PROVE RInv'
<1>1. pc = "mapped" /\ for = "first_read"
  BY DEF first_read
<1>2. /\ Mapping /\ Reading /\ file \in Mapped /\ file \in File
      /\ lblock \in InFile(file) /\ lblock \in Nat
      /\ Found(file, lblock, pblock, extent_len)
      /\ pblock \in Nat /\ pblock < DiskBlocks /\ extent_len \in Nat \ {0}
  BY <1>1, MappedRead
<1>3. /\ buf = << >> /\ size > 0 /\ lblock = offset \div BLOCK_SIZE /\ BlockOf[file][lblock] # 0
  BY <1>1, <1>2 DEF RInv, ReadInv
<1>4. /\ offset \in Nat /\ want \in Nat /\ size \in 0 .. want
      /\ ret \in Nat /\ offset + size <= Size[file]
  BY <1>2, <1>3, ReadTypes
<1>5. ret = 0
  BY <1>3 DEF ret
<1>6. PICK b \in Nat \ {0} : b = BLOCK_SIZE
  BY SizeFacts
<1>7. PICK n : n = FirstSize
  OBVIOUS
<1>8. size \in Nat \ {0} /\ Size[file] \in Nat
  BY <1>2, <1>3, <1>4, SizeFacts
<1>9. PICK q \in Nat, r \in 0 .. b - 1 :
         q = offset \div b /\ r = offset % b /\ offset = b * q + r
  <2>1. /\ offset \div b \in Nat /\ offset % b \in 0 .. b - 1
        /\ offset = b * (offset \div b) + (offset % b)
    BY <1>4, DivFacts
  <2> QED BY <2>1
<1>10. n \in 1 .. size /\ r + n <= b /\ (n = size \/ offset + n = (q + 1) * b)
  <2>1. n = IF (offset + size - 1) \div b = offset \div b THEN size ELSE b - (offset % b)
    BY <1>6, <1>7 DEF FirstSize
  <2> QED BY <2>1, <1>4, <1>8, <1>9, FirstSizeIs
<1>11. PICK w \in Nat : w = pblock * BLOCK_SIZE + (offset % BLOCK_SIZE) /\ w = pblock * b + r
  <2>1. pblock * b + r \in Nat
    BY <1>2, Z3
  <2> QED BY <2>1, <1>6, <1>9
<1>12. OnDisk(w, n)
  <2>1. PICK d \in Nat : d = DiskBlocks /\ pblock + 1 <= d
    BY <1>2, SizeFacts
  <2>2. (pblock + 1) * b <= d * b /\ (pblock + 1) * b = pblock * b + b /\ pblock * b \in Nat
        /\ d * b \in Nat
    BY <1>2, <2>1, Z3
  <2>3. w + n <= d * b
    BY <2>2, <1>10, <1>11
  <2> QED BY <2>1, <2>3, <1>6 DEF OnDisk
<1>13. /\ buf' = Bytes(w, n) /\ lblock' = (offset + n) \div BLOCK_SIZE /\ pc' = "loop"
       /\ UNCHANGED <<file, offset, want, size, for, node, index, pblock, extent_len>>
  BY <1>7, <1>11, <1>12 DEF first_read
<1>14. n \in Nat /\ n > 0 /\ ret + n <= size
  BY <1>5, <1>8, <1>10
<1>15. Bytes(w, n) \in [1 .. n -> Byte]
  BY <1>14 DEF Bytes, Byte
<1>16. \A j \in 0 .. n - 1 : Bytes(w, n)[j + 1] = ByteOf(file, offset + ret + j)
  <2> SUFFICES ASSUME NEW j \in 0 .. n - 1
               PROVE  Bytes(w, n)[j + 1] = ByteOf(file, offset + ret + j)
    OBVIOUS
  <2>1. j + 1 \in 1 .. n /\ Bytes(w, n)[j + 1] = w + j
    BY <1>14 DEF Bytes
  <2>2. PICK k \in Nat : k = r + j /\ k < b
    BY <1>10, <1>14
  <2>3. q * b + k = offset + ret + j /\ q * b \in Nat
    <3>1. q * b = b * q /\ q * b \in Nat
      BY Z3
    <3> QED BY <3>1, <1>5, <1>9, <2>2
  <2>4. k < b * extent_len
    <3>1. b <= b * extent_len
      BY <1>2, Z3
    <3>2. b * extent_len \in Int
      BY <1>2
    <3> QED BY <3>1, <3>2, <2>2
  <2>5. q * b + k < Size[file]
    BY <2>3, <1>4, <1>5, <1>8, <1>10
  <2>6. q = lblock
    BY <1>3, <1>6, <1>9
  <2>7. pblock # 0
    BY <1>2, <1>3 DEF Found
  <2>8. ByteOf(file, lblock * BLOCK_SIZE + k) = pblock * BLOCK_SIZE + k
    <3>1. k < BLOCK_SIZE * extent_len /\ lblock * BLOCK_SIZE + k < Size[file]
      BY <1>6, <2>4, <2>5, <2>6
    <3>2. pblock # 0 => ByteOf(file, lblock * BLOCK_SIZE + k) = pblock * BLOCK_SIZE + k
      BY ONLY <3>1, <1>2, k \in Nat, BytesFound
    <3> QED BY <3>2, <2>7
  <2>9. w + j = pblock * b + k
    <3>1. pblock * b \in Nat
      BY <1>2, Z3
    <3> QED BY <3>1, <1>11, <2>2
  <2> QED BY <2>1, <2>3, <2>6, <2>8, <2>9, <1>6
<1>17. buf' = buf \o Bytes(w, n)
  <2>1. Bytes(w, n) \in Seq(Byte)
    BY <1>14, <1>15, FunctionIsSeq
  <2> QED BY <2>1, <1>3, <1>13, ConcatEmptySeq
<1>18. ReadSoFar' /\ buf' \in Seq(Byte) /\ ret' = n
  <2>1. UNCHANGED <<file, offset, want, size>>
    BY <1>13
  <2>2. ReadSoFar' /\ buf' \in Seq(Byte) /\ ret' = ret + n
    BY ONLY RInv, <2>1, <1>2, <1>14, <1>15, <1>16, <1>17, Appending, Zenon
  <2> QED BY <2>2, <1>5, <1>14
<1>19. ret' = size' \/ (offset' + ret' = lblock' * BLOCK_SIZE)
  <2>1. CASE n = size
    BY <2>1, <1>13, <1>18
  <2>2. CASE n # size
    <3>1. offset + n = (q + 1) * b
      BY <2>2, <1>10
    <3>2. PICK t \in Nat : t = offset + n
      BY <1>4, <1>14
    <3>3. t \div b = q + 1
      <4>1. t = b * (q + 1) + 0
        BY <3>1, <3>2, Z3
      <4>2. q + 1 \in Nat /\ 0 \in 0 .. b - 1
        OBVIOUS
      <4> QED BY ONLY <4>1, <4>2, t \in Nat, b \in Nat \ {0}, DivUnique, Zenon
    <3> QED BY <3>1, <3>2, <3>3, <1>6, <1>13, <1>18
  <2> QED BY <2>1, <2>2
<1>20. lblock' \in Nat
  BY <1>4, <1>6, <1>13, <1>14, DivFacts, offset + n \in Nat
<1>21. TypeOK'
  BY <1>13, <1>18, <1>20 DEF RInv, TypeOK, Byte
<1>22. MapInv' /\ AssertsHold' /\ ~Mapping' /\ Reading'
  BY <1>13 DEF MapInv, Mapping, AssertsHold, Reading
<1>23. ReadInv'
  <2>1. size = truncate_size(file, want, offset)
    BY <1>2, ReadTypes
  <2>2. (size = truncate_size(file, want, offset))' /\ file' \in Mapped /\ ret' <= size'
    BY <2>1, <1>2, <1>13, <1>14, <1>18, <1>10 DEF truncate_size
  <2> QED BY <2>2, <1>13, <1>19, <1>22 DEF ReadInv
<1> QED BY <1>18, <1>21, <1>22, <1>23 DEF RInv

\* The loop adds the bytes of the blocks found, or of a hole, as far as they
\* are wanted.
LEMMA LoopAdds ==
    ASSUME RInv, pc = "mapped", for = "loop", NEW n,
           n = IF size - ret <= BLOCK_SIZE * extent_len
               THEN size - ret ELSE BLOCK_SIZE * extent_len,
           NEW s \in [1 .. n -> Byte],
           \A j \in 0 .. n - 1 :
              s[j + 1] = IF pblock = 0 THEN Zero ELSE pblock * BLOCK_SIZE + j,
           buf' = buf \o s, lblock' = lblock + extent_len, pc' = "loop",
           UNCHANGED <<file, offset, want, size, for, node, index, pblock, extent_len>>
    PROVE  RInv'
<1>1. /\ Mapping /\ Reading /\ file \in Mapped /\ file \in File
      /\ lblock \in InFile(file) /\ lblock \in Nat
      /\ Found(file, lblock, pblock, extent_len)
      /\ pblock \in Nat /\ pblock < DiskBlocks /\ extent_len \in Nat \ {0}
  BY MappedRead
<1>2. ret < size /\ offset + ret = lblock * BLOCK_SIZE
  BY <1>1 DEF RInv, ReadInv
<1>3. /\ offset \in Nat /\ want \in Nat /\ size \in 0 .. want /\ ret \in Nat
      /\ size = truncate_size(file, want, offset)
  BY <1>1, ReadTypes
<1>4. offset + size <= Size[file]
  BY <1>1, <1>2, <1>3, ReadTypes
<1>5. PICK b \in Nat \ {0} : b = BLOCK_SIZE
  BY SizeFacts
<1>6. PICK c \in Nat \ {0} : c = BLOCK_SIZE * extent_len
  <2>1. b * extent_len \in Nat \ {0}
    BY <1>1, Z3
  <2> QED BY <2>1, <1>5
<1>7. n \in Nat /\ n > 0 /\ ret + n <= size /\ n <= c /\ (ret + n = size \/ n = c)
  BY <1>2, <1>3, <1>6
<1>8. \A j \in 0 .. n - 1 : s[j + 1] = ByteOf(file, offset + ret + j)
  <2> SUFFICES ASSUME NEW j \in 0 .. n - 1
               PROVE  s[j + 1] = ByteOf(file, offset + ret + j)
    OBVIOUS
  <2>1. j \in Nat /\ j < BLOCK_SIZE * extent_len
    BY <1>6, <1>7
  <2>2. Size[file] \in Nat
    BY <1>1, SizeFacts
  <2>3. offset + ret + j < Size[file]
    <3>1. size \in Int
      BY <1>3
    <3> QED BY ONLY <1>3, <1>4, <1>7, <2>1, <2>2, <3>1, j \in 0 .. n - 1
  <2>4. lblock * BLOCK_SIZE + j < Size[file] /\ offset + ret + j = lblock * BLOCK_SIZE + j
    BY <2>3, <1>2
  <2>5. /\ pblock # 0 => ByteOf(file, lblock * BLOCK_SIZE + j) = pblock * BLOCK_SIZE + j
        /\ pblock = 0 => ByteOf(file, lblock * BLOCK_SIZE + j) = Zero
    BY ONLY <2>1, <2>4, <1>1, BytesFound
  <2>6. s[j + 1] = IF pblock = 0 THEN Zero ELSE pblock * BLOCK_SIZE + j
    OBVIOUS
  <2> QED BY <2>4, <2>5, <2>6
<1>9. ReadSoFar' /\ buf' \in Seq(Byte) /\ ret' = ret + n
  <2>1. UNCHANGED <<file, offset, want, size>>
    OBVIOUS
  <2> QED BY ONLY RInv, <2>1, <1>1, <1>7, <1>8, s \in [1 .. n -> Byte], buf' = buf \o s,
              Appending, Zenon
<1>10. ret' = size' \/ (offset' + ret' = lblock' * BLOCK_SIZE)
  <2>1. CASE ret + n = size
    BY <2>1, <1>9
  <2>2. CASE n = c
    <3>1. lblock * b + b * extent_len = (lblock + extent_len) * b
      BY <1>1, Z3
    <3>2. offset + (ret + n) = lblock * b + b * extent_len
      BY <2>2, <1>2, <1>3, <1>5, <1>6
    <3> QED BY <3>1, <3>2, <1>5, <1>9
  <2> QED BY <1>7, <2>1, <2>2
<1>11. lblock' \in Nat
  BY <1>1
<1>12. TypeOK'
  BY <1>9, <1>11 DEF RInv, TypeOK, Byte
<1>13. MapInv' /\ AssertsHold' /\ ~Mapping' /\ Reading'
  BY DEF MapInv, Mapping, AssertsHold, Reading
<1>14. ReadInv'
  <2>1. (size = truncate_size(file, want, offset))' /\ file' \in Mapped /\ ret' <= size'
    BY <1>1, <1>3, <1>7, <1>9 DEF truncate_size
  <2> QED BY <2>1, <1>10, <1>13 DEF ReadInv
<1> QED BY <1>9, <1>12, <1>13, <1>14 DEF RInv

\* Consecutive blocks are appended, as many as the extent has.
LEMMA LoopReadsR ==
    ASSUME RInv, LoopReads PROVE RInv'
<1>1. pc = "mapped" /\ for = "loop" /\ pblock # 0
  BY DEF LoopReads
<1>2. /\ Mapping /\ Reading /\ file \in File /\ lblock \in Nat
      /\ Found(file, lblock, pblock, extent_len)
      /\ pblock \in Nat /\ extent_len \in Nat \ {0}
  BY <1>1, MappedRead
<1>3. size \in Int /\ ret \in Nat /\ ret < size
  BY <1>1, <1>2, ReadTypes DEF RInv, ReadInv
<1>4. PICK b \in Nat \ {0} : b = BLOCK_SIZE
  BY SizeFacts
<1>5. PICK c \in Nat \ {0} : c = BLOCK_SIZE * extent_len
  <2>1. b * extent_len \in Nat \ {0}
    BY <1>2, Z3
  <2> QED BY <2>1, <1>4
<1>6. PICK n : n = ContextSize
  OBVIOUS
<1>7. n = IF size - ret <= BLOCK_SIZE * extent_len
          THEN size - ret ELSE BLOCK_SIZE * extent_len
  BY <1>3, <1>5, <1>6, MinTwo DEF ContextSize
<1>8. n \in Nat /\ n <= c
  BY <1>3, <1>5, <1>7
<1>9. OnDisk(pblock * BLOCK_SIZE, n)
  <2>1. PICK d \in Nat : d = DiskBlocks
    BY SizeFacts
  <2>2. pblock + extent_len <= d
    BY <2>1, <1>1, <1>2 DEF Found
  <2>3. (pblock + extent_len) * b <= d * b
    BY <2>2, <1>2, Z3
  <2>4. (pblock + extent_len) * b = pblock * b + b * extent_len
    BY <1>2, Z3
  <2>5. pblock * b \in Nat /\ d * b \in Nat
    BY <1>2, Z3
  <2>6. pblock * b + n <= d * b
    BY <2>3, <2>4, <2>5, <1>4, <1>5, <1>8
  <2> QED BY <2>1, <2>6, <1>4 DEF OnDisk
<1>10. /\ buf' = buf \o Bytes(pblock * BLOCK_SIZE, n)
       /\ lblock' = lblock + extent_len /\ pc' = "loop"
       /\ UNCHANGED <<file, offset, want, size, for, node, index, pblock, extent_len>>
  BY <1>2, <1>6, <1>9 DEF LoopReads
<1>11. PICK w \in Nat : w = pblock * BLOCK_SIZE
  <2>1. pblock * b \in Nat
    BY <1>2, Z3
  <2> QED BY <2>1, <1>4
<1>12. /\ Bytes(pblock * BLOCK_SIZE, n) \in [1 .. n -> Byte]
       /\ \A j \in 0 .. n - 1 : Bytes(pblock * BLOCK_SIZE, n)[j + 1] =
             IF pblock = 0 THEN Zero ELSE pblock * BLOCK_SIZE + j
  <2>1. Bytes(w, n) \in [1 .. n -> Byte]
    BY <1>8 DEF Bytes, Byte
  <2>2. \A j \in 0 .. n - 1 : Bytes(w, n)[j + 1] = w + j
    BY <1>8 DEF Bytes
  <2> QED BY <2>1, <2>2, <1>1, <1>11
<1> QED BY <1>1, <1>7, <1>10, <1>12, LoopAdds

\* A block of a hole is appended as zeroes.
LEMMA LoopSkipsR ==
    ASSUME RInv, LoopSkips PROVE RInv'
<1>1. pc = "mapped" /\ for = "loop" /\ pblock = 0
  BY DEF LoopSkips
<1>2. Mapping /\ Reading /\ Found(file, lblock, pblock, extent_len)
  BY <1>1, MappedRead
<1>3. extent_len = 1
  BY <1>1, <1>2 DEF Found
<1>4. size \in Int /\ ret \in Nat /\ ret < size
  BY <1>1, <1>2, ReadTypes DEF RInv, ReadInv
<1>5. BLOCK_SIZE \in Nat \ {0} /\ BLOCK_SIZE * extent_len = BLOCK_SIZE
  BY <1>3, SizeFacts
<1>6. PICK n : n = Min({size - ret, BLOCK_SIZE})
  OBVIOUS
<1>7. n = IF size - ret <= BLOCK_SIZE * extent_len
          THEN size - ret ELSE BLOCK_SIZE * extent_len
  BY <1>4, <1>5, <1>6, MinTwo
<1>8. n \in Nat
  BY <1>4, <1>5, <1>7
<1>9. PICK s : s = [i \in 1 .. n |-> Zero]
  OBVIOUS
<1>10. /\ s \in [1 .. n -> Byte]
       /\ \A j \in 0 .. n - 1 : s[j + 1] =
             IF pblock = 0 THEN Zero ELSE pblock * BLOCK_SIZE + j
  <2>1. \A j \in 0 .. n - 1 : j + 1 \in 1 .. n
    BY <1>8
  <2> QED BY <2>1, <1>1, <1>9 DEF Byte
<1>11. /\ buf' = buf \o s /\ lblock' = lblock + extent_len /\ pc' = "loop"
       /\ UNCHANGED <<file, offset, want, size, for, node, index, pblock, extent_len>>
  BY <1>6, <1>9 DEF LoopSkips
<1> QED BY <1>1, <1>7, <1>10, <1>11, LoopAdds

\* The next block is one of the file.
LEMMA LoopContinuesR ==
    ASSUME RInv, LoopContinues PROVE RInv'
<1>1. /\ pc = "loop" /\ size > ret /\ pc' = "map" /\ lblock' = lblock /\ for' = "loop"
      /\ extent_len' = 1
      /\ UNCHANGED <<file, offset, want, size, buf, node, index, pblock>>
  BY DEF LoopContinues, GetPblock
<1>2. Reading
  BY <1>1 DEF Reading
<1>3. /\ file \in Mapped /\ file \in File /\ offset \in Nat /\ size \in Nat /\ ret \in Nat
      /\ lblock \in Nat /\ size = truncate_size(file, want, offset)
      /\ offset + size <= Size[file]
  BY <1>1, <1>2, ReadTypes
<1>4. offset + ret = lblock * BLOCK_SIZE
  BY <1>1, <1>3 DEF RInv, ReadInv
<1>5. lblock \in InFile(file)
  <2>1. PICK b \in Nat \ {0} : b = BLOCK_SIZE
    BY SizeFacts
  <2>2. PICK n \in Nat : n = Size[file]
    BY <1>3, SizeFacts
  <2>3. lblock <= lblock * b /\ lblock * b \in Nat
    BY <1>3, Z3
  <2>4. lblock * b < n
    BY <2>1, <2>2, <1>1, <1>3, <1>4
  <2>5. lblock \in 0 .. n
    BY <2>3, <2>4, <1>3
  <2> QED BY <2>1, <2>2, <2>4, <2>5 DEF InFile
<1>6. TypeOK'
  BY <1>1 DEF RInv, TypeOK
<1>7. MapInv'
  BY <1>1, <1>3, <1>5 DEF MapInv, InFile
<1>8. ret' = ret
  BY <1>1 DEF ret
<1>9. ReadInv'
  <2>1. (size = truncate_size(file, want, offset))'
    BY <1>1, <1>3 DEF truncate_size
  <2>2. Mapping' /\ Reading' /\ pc' \notin {"loop", "done"}
    BY <1>1 DEF Mapping, Reading
  <2>3. ret' < size' /\ ret' <= size' /\ offset' + ret' = lblock' * BLOCK_SIZE
    BY <1>1, <1>3, <1>4, <1>8
  <2> QED BY <2>1, <2>2, <2>3, <1>1, <1>3 DEF ReadInv
<1>10. ReadSoFar' /\ AssertsHold'
  BY <1>1, <1>8 DEF RInv, ReadSoFar, ByteOf, AssertsHold
<1> QED BY <1>6, <1>7, <1>9, <1>10 DEF RInv

\* The last ASSERT holds: the loop never reads too much.
LEMMA LoopEndsR ==
    ASSUME RInv, LoopEnds PROVE RInv'
<1>1. pc = "loop" /\ size <= ret
  BY DEF LoopEnds
<1>2. Reading
  BY <1>1 DEF Reading
<1>3. /\ file \in Mapped /\ size \in Nat /\ ret \in Nat /\ ret <= size
      /\ size = truncate_size(file, want, offset)
  BY <1>2, ReadTypes
<1>4. size = ret
  BY <1>1, <1>3
<1>5. /\ pc' = "done"
      /\ UNCHANGED <<file, offset, want, size, buf, lblock, for, node, index, pblock,
                     extent_len>>
  BY <1>4 DEF LoopEnds
<1>6. ret' = ret
  BY <1>5 DEF ret
<1>7. TypeOK' /\ MapInv' /\ AssertsHold'
  BY <1>5 DEF RInv, TypeOK, MapInv, Mapping, AssertsHold
<1>8. ReadSoFar'
  BY <1>5, <1>6 DEF RInv, ReadSoFar, ByteOf
<1>9. ReadInv'
  <2>1. (size = truncate_size(file, want, offset))'
    BY <1>5, <1>3 DEF truncate_size
  <2>2. ~Mapping' /\ Reading' /\ pc' # "loop"
    BY <1>5 DEF Mapping, Reading
  <2> QED BY <2>1, <2>2, <1>3, <1>4, <1>5, <1>6 DEF ReadInv
<1> QED BY <1>7, <1>8, <1>9 DEF RInv

\* An empty buffer.
LEMMA NoBytes ==
    /\ << >> \in Seq(Byte) /\ Len(<< >>) = 0
    /\ buf' = << >> => ret' = 0
<1>1. << >> \in Seq(Byte) /\ Len(<< >>) = 0
  BY EmptySeq
<1> QED BY <1>1 DEF ret

\* The call is over.
LEMMA ReturnR ==
    ASSUME RInv, Return PROVE RInv'
<1>1. /\ pc' = "idle" /\ offset' = 0 /\ want' = 0 /\ size' = 0 /\ buf' = << >>
      /\ lblock' = 0 /\ for' = "loop" /\ node' = NoNode /\ index' = NoIndex
      /\ pblock' = 0 /\ extent_len' = 1 /\ file' = file
  BY DEF Return
<1>2. ret' = 0
  BY <1>1, NoBytes
<1>3. ~Mapping' /\ ~Reading'
  BY <1>1 DEF Mapping, Reading
<1>4. TypeOK'
  BY <1>1, NoBytes, SizeFacts DEF RInv, TypeOK, Byte, NoNode, NoIndex, Block
<1>5. MapInv' /\ AssertsHold' /\ ReadInv'
  BY <1>1, <1>3 DEF MapInv, AssertsHold, ReadInv
<1>6. ReadSoFar'
  BY <1>1, <1>2 DEF ReadSoFar
<1> QED BY <1>4, <1>5, <1>6 DEF RInv

\* A read begins.
LEMMA OpReadR ==
    ASSUME RInv, NEW r \in Request, op_read(r[1], r[2], r[3]) PROVE RInv'
<1>1. PICK f \in File, o \in Nat, s \in Nat : f = r[1] /\ o = r[2] /\ s = r[3] /\ f \in Mapped
  <2>1. r[1] \in File /\ r[2] \in Nat /\ r[3] \in Nat
    BY SizeAssumption
  <2> QED BY <2>1 DEF Mapped
<1>2. PICK b \in Nat \ {0} : b = BLOCK_SIZE
  BY SizeFacts
<1>3. PICK t \in Nat : /\ t = truncate_size(f, s, o) /\ t <= s
                       /\ t > 0 => o + t <= Size[f]
  <2>1. /\ truncate_size(f, s, o) \in 0 .. s
        /\ truncate_size(f, s, o) > 0 => o + truncate_size(f, s, o) <= Size[f]
    BY Truncated
  <2> QED BY <2>1
<1>4. /\ file' = f /\ offset' = o /\ want' = s /\ size' = t /\ buf' = << >>
      /\ UNCHANGED <<node, index, pblock>>
  BY <1>1, <1>3 DEF op_read
<1>5. ret' = 0
  BY <1>4, NoBytes
<1>6. PICK q \in Nat : q = o \div b /\ (o % b = 0 => o = q * b)
  <2>1. o \div b \in Nat /\ o % b \in 0 .. b - 1 /\ o = b * (o \div b) + (o % b)
    BY DivFacts
  <2>2. PICK x \in Nat : x = o \div b
    BY <2>1
  <2>3. o % b = 0 => o = x * b
    <3>1. x * b = b * x /\ b * x \in Nat
      BY Z3
    <3> QED BY <2>1, <2>2, <3>1
  <2> QED BY <2>2, <2>3
<1>7. lblock' = q
  BY <1>1, <1>2, <1>6 DEF op_read, GetPblock
<1>8. ReadSoFar'
  BY <1>4, <1>5, <1>3 DEF ReadSoFar
<1>9. (size = truncate_size(file, want, offset))' /\ ret' <= size' /\ file' \in Mapped
  BY <1>1, <1>3, <1>4, <1>5 DEF truncate_size
<1>10. CASE t = 0 \/ o % b = 0
  <2>1. pc' = "loop" /\ UNCHANGED <<for, extent_len>>
    BY <1>1, <1>2, <1>4, <1>10 DEF op_read
  <2>2. Reading' /\ ~Mapping'
    BY <2>1 DEF Reading, Mapping
  <2>3. ret' = size' \/ (offset' + ret' = lblock' * BLOCK_SIZE)
    BY <1>2, <1>4, <1>5, <1>6, <1>7, <1>10
  <2>4. TypeOK'
    BY <2>1, <1>1, <1>3, <1>4, <1>7, NoBytes DEF RInv, TypeOK, Byte
  <2>5. ReadInv'
    BY <2>1, <2>2, <2>3, <1>9 DEF ReadInv
  <2> QED BY <2>1, <2>2, <2>4, <2>5, <1>8 DEF RInv, MapInv, AssertsHold
<1>11. CASE ~(t = 0 \/ o % b = 0)
  <2>1. pc' = "map" /\ for' = "first_read" /\ extent_len' = 1
    BY <1>1, <1>2, <1>4, <1>11 DEF op_read, GetPblock
  <2>2. Reading' /\ Mapping'
    BY <2>1 DEF Reading, Mapping
  <2>3. o < Size[f] /\ s # 0
    BY <1>3, <1>11, SizeFacts
  <2>4. q \in InFile(f)
    BY <2>3, <1>2, <1>6, ByteInFile
  <2>5. BlockOf[f][q] # 0
    BY <2>3, <1>1, <1>2, <1>6, <1>11, RequestAssumption
  <2>6. TypeOK'
    BY <2>1, <1>1, <1>3, <1>4, <1>7, NoBytes DEF RInv, TypeOK, Byte
  <2>7. MapInv'
    BY <2>1, <2>4, <1>1, <1>4, <1>7 DEF MapInv, InFile
  <2>8. ReadInv'
    <3>1. size' > 0
      BY <1>3, <1>4, <1>11
    <3>2. lblock' = offset' \div BLOCK_SIZE /\ (BlockOf[file][lblock] # 0)'
      BY <2>5, <1>2, <1>4, <1>6, <1>7
    <3> QED BY <3>1, <3>2, <2>1, <2>2, <1>4, <1>9 DEF ReadInv
  <2> QED BY <2>1, <2>6, <2>7, <2>8, <1>8 DEF RInv, AssertsHold
<1> QED BY <1>10, <1>11

\* Every step of FileRead, and what else it leaves.
LEMMA StepR ==
    ASSUME RInv, Step
    PROVE  /\ RInv' /\ file' = file
           /\ Mapping => (Mapping' /\ lblock' = lblock /\ for' = for) \/ pc' = "abort"
                         \/ Reading
           /\ Mapping \/ Reading
           /\ Reading => Reading' \/ pc' \in {"idle", "abort"}
<1>1. CASE first_read
  <2>1. pc' \in {"loop", "abort"} /\ file' = file /\ Mapping /\ Reading
    BY <1>1 DEF first_read, Abort, Mapping, Reading
  <2> QED BY <1>1, <2>1, FirstReadR DEF Reading
<1>2. CASE LoopContinues
  <2>1. pc = "loop" /\ pc' = "map" /\ for' = "loop" /\ file' = file
    BY <1>2 DEF LoopContinues, GetPblock
  <2> QED BY <1>2, <2>1, LoopContinuesR DEF Reading, Mapping
<1>3. CASE LoopReads
  <2>1. pc' \in {"loop", "abort"} /\ file' = file /\ Mapping /\ Reading
    BY <1>3 DEF LoopReads, Abort, Mapping, Reading
  <2> QED BY <1>3, <2>1, LoopReadsR DEF Reading
<1>4. CASE LoopSkips
  <2>1. pc' = "loop" /\ file' = file /\ Mapping /\ Reading
    BY <1>4 DEF LoopSkips, Mapping, Reading
  <2> QED BY <1>4, <2>1, LoopSkipsR DEF Reading
<1>5. CASE LoopEnds
  <2>1. pc = "loop" /\ pc' \in {"done", "abort"} /\ file' = file
    BY <1>5 DEF LoopEnds, Abort
  <2> QED BY <1>5, <2>1, LoopEndsR DEF Reading, Mapping
<1>6. CASE Return
  <2>1. pc = "done" /\ pc' = "idle" /\ file' = file
    BY <1>6 DEF Return
  <2> QED BY <1>6, <2>1, ReturnR DEF Reading, Mapping
<1>7. ASSUME Mapping /\ Mapping' /\ UNCHANGED <<file, lblock, for>>
      PROVE  /\ file' = file /\ (Mapping \/ Reading)
             /\ Mapping => (Mapping' /\ lblock' = lblock /\ for' = for)
             /\ Reading => Reading'
  BY <1>7 DEF Reading, Mapping
<1>8. CASE MapExtents
  <2>1. Mapping /\ Mapping' /\ UNCHANGED <<file, lblock, for>>
    BY <1>8 DEF MapExtents, Mapping
  <2> QED BY <1>7, <1>8, <2>1, MapExtentsR
<1>9. CASE ExtentsDown
  <2>1. /\ pc = "extents" /\ pc' \in {"extents", "abort"}
        /\ UNCHANGED <<file, lblock, for>>
    BY <1>9 DEF ExtentsDown, Abort
  <2> QED BY <1>9, <2>1, ExtentsDownR DEF Reading, Mapping
<1>10. CASE ExtentsLeaf
  <2>1. Mapping /\ Mapping' /\ UNCHANGED <<file, lblock, for>>
    BY <1>10 DEF ExtentsLeaf, Mapping
  <2> QED BY <1>7, <1>10, <2>1, ExtentsLeafR
<1>11. CASE MapDirect
  <2>1. Mapping /\ Mapping' /\ UNCHANGED <<file, lblock, for>>
    BY <1>11 DEF MapDirect, Mapping
  <2> QED BY <1>7, <1>11, <2>1, MapDirectR
<1>12. CASE \E n \in 1 .. 3 : MapIndirect(n)
  <2>1. Mapping /\ Mapping' /\ UNCHANGED <<file, lblock, for>>
    BY <1>12 DEF MapIndirect, Mapping
  <2> QED BY <1>7, <1>12, <2>1, MapIndirectR
<1>13. CASE MapFails
  <2>1. pc = "map" /\ pc' = "abort" /\ UNCHANGED <<file, lblock, for>>
    BY <1>13 DEF MapFails, Abort
  <2> QED BY <1>13, <2>1, MapFailsR DEF Reading, Mapping
<1>14. CASE PointersDown
  <2>1. Mapping /\ Mapping' /\ UNCHANGED <<file, lblock, for>>
    BY <1>14 DEF PointersDown, Mapping
  <2> QED BY <1>7, <1>14, <2>1, PointersDownR
<1>15. CASE PointersLeaf
  <2>1. Mapping /\ Mapping' /\ UNCHANGED <<file, lblock, for>>
    BY <1>15 DEF PointersLeaf, Mapping
  <2> QED BY <1>7, <1>15, <2>1, PointersLeafR
<1> QED BY <1>1, <1>2, <1>3, <1>4, <1>5, <1>6, <1>8, <1>9, <1>10, <1>11, <1>12, <1>13,
           <1>14, <1>15 DEF Step

\* Steps that leave FileRead's variables alone.
LEMMA StutterR ==
    ASSUME RInv, UNCHANGED vars
    PROVE  RInv' /\ (Mapping <=> Mapping') /\ (Reading <=> Reading')
<1>1. UNCHANGED <<pc, file, offset, want, size, buf, lblock, for, node, index, pblock,
                  extent_len>>
  BY DEF vars
<1>2. ret' = ret
  BY <1>1 DEF ret
<1>3. (Mapping <=> Mapping') /\ (Reading <=> Reading')
  BY <1>1 DEF Mapping, Reading
<1>4. TypeOK' /\ AssertsHold'
  BY <1>1 DEF RInv, TypeOK, AssertsHold
<1>5. ReadSoFar'
  BY <1>1, <1>2 DEF RInv, ReadSoFar, ByteOf
<1>6. ReadInv'
  BY <1>1, <1>2, <1>3 DEF RInv, ReadInv, truncate_size
<1>7. MapInv'
  <2>1. MapInv
    BY DEF RInv
  <2>2. NodeInv => NodeInv'
    BY <1>1 DEF NodeInv, Ranges, SoundNode, SoundLeaf, SoundInner, InFile, InExtent
  <2>3. LeadsTo(BlockOf[file][lblock]) => LeadsTo(BlockOf[file][lblock])'
    BY <1>1 DEF LeadsTo
  <2>4. Found(file, lblock, pblock, extent_len) => Found(file, lblock, pblock, extent_len)'
    BY <1>1 DEF Found, InFile
  <2> QED BY <2>1, <2>2, <2>3, <2>4, <1>1, <1>3 DEF MapInv, InFile
<1> QED BY <1>3, <1>4, <1>5, <1>6, <1>7 DEF RInv

\* A block of a directory or of a link is asked for ...
LEMMA MapStartR ==
    ASSUME RInv, pc = "idle", NEW f \in Mapped, NEW l \in InFile(f),
           NEW w \in {"dir", "link"}, file' = f, GetPblock(l, w),
           UNCHANGED <<offset, want, size, buf, node, index, pblock>>
    PROVE  RInv' /\ Mapping' /\ for' = w /\ lblock' = l /\ ~Reading'
<1>1. pc' = "map" /\ for' = w /\ lblock' = l /\ extent_len' = 1 /\ f \in File /\ l \in Nat
  BY MappedFiles, BlockInFile DEF GetPblock
<1>2. ~Reading /\ ~Mapping /\ ~Reading' /\ Mapping'
  BY <1>1 DEF Reading, Mapping
<1>3. offset = 0 /\ want = 0 /\ size = 0 /\ buf = << >>
  BY <1>2 DEF RInv, ReadInv
<1>4. ret' = 0
  BY <1>3, NoBytes
<1>5. TypeOK'
  BY <1>1 DEF RInv, TypeOK
<1>6. MapInv'
  BY <1>1 DEF MapInv, InFile
<1>7. ReadInv'
  BY <1>1, <1>2, <1>3 DEF ReadInv
<1>8. ReadSoFar' /\ AssertsHold'
  BY <1>1, <1>3, <1>4 DEF ReadSoFar, AssertsHold
<1> QED BY <1>1, <1>2, <1>5, <1>6, <1>7, <1>8 DEF RInv

\* ... and is read.
LEMMA MapDoneR ==
    ASSUME RInv, pc = "mapped", for \in {"dir", "link"}, disk_read_block
    PROVE  /\ RInv' /\ pc' = "idle" /\ file' = file
           /\ lblock \in InFile(file) /\ lblock \in Nat /\ pblock = BlockOf[file][lblock]
<1>1. Mapping /\ ~Reading
  BY DEF Mapping, Reading
<1>2. /\ file \in Mapped /\ lblock \in InFile(file)
      /\ Found(file, lblock, pblock, extent_len)
  BY <1>1 DEF RInv, MapInv
<1>3. pblock = BlockOf[file][lblock] /\ lblock \in Nat
  BY <1>2, MappedFiles, BlockInFile DEF Found
<1>4. pblock \in 0 .. DiskBlocks - 1
  BY <1>2, <1>3, BlockAssumption DEF Block
<1>5. OnDisk(pblock * BLOCK_SIZE, BLOCK_SIZE)
  <2>1. PICK b \in Nat \ {0}, d \in Nat \ {0} : b = BLOCK_SIZE /\ d = DiskBlocks
    BY SizeFacts
  <2>2. pblock + 1 <= d /\ pblock \in Nat
    BY <1>4, <2>1
  <2>3. (pblock + 1) * b <= d * b /\ (pblock + 1) * b = pblock * b + b
    BY <2>2, Z3
  <2> QED BY <2>1, <2>3 DEF OnDisk
<1>6. /\ pc' = "idle" /\ node' = NoNode /\ index' = NoIndex /\ pblock' = 0
      /\ lblock' = 0 /\ for' = "loop" /\ extent_len' = 1
      /\ UNCHANGED <<file, offset, want, size, buf>>
  BY <1>5 DEF disk_read_block
<1>7. offset = 0 /\ want = 0 /\ size = 0 /\ buf = << >>
  BY <1>1 DEF RInv, ReadInv
<1>8. ret' = 0 /\ ~Mapping' /\ ~Reading'
  BY <1>6, <1>7, NoBytes DEF Mapping, Reading
<1>9. TypeOK'
  BY <1>6, SizeFacts DEF RInv, TypeOK, NoNode, NoIndex, Block
<1>10. MapInv' /\ ReadInv' /\ ReadSoFar' /\ AssertsHold'
  BY <1>6, <1>7, <1>8 DEF MapInv, ReadInv, ReadSoFar, AssertsHold
<1> QED BY <1>2, <1>3, <1>6, <1>9, <1>10 DEF RInv

-----------------------------------------------------------------------------
(* Directories.                                                            *)

\* A directory is made of blocks, the first of which is there.
LEMMA DirBlocks ==
    ASSUME NEW f \in File, Kind[f] = "dir"
    PROVE  /\ f \in Mapped /\ 0 \in InFile(f)
           /\ InFile(f) = 0 .. (Size[f] \div BLOCK_SIZE) - 1
           /\ \A l \in InFile(f) : BlockOf[f][l] \in DOMAIN Dentries
           /\ \E n \in Nat : Size[f] = n * BLOCK_SIZE
<1>1. f \in Mapped
  BY DEF Mapped
<1>2. PICK b \in Nat \ {0}, s \in Nat \ {0} : b = BLOCK_SIZE /\ s = Size[f] /\ s % b = 0
  BY SizeFacts, TreeAssumption
<1>3. PICK n \in Nat : n = s \div b /\ s = b * n
  <2>1. s \div b \in Nat /\ s = b * (s \div b) + (s % b)
    BY DivFacts
  <2>2. PICK x \in Nat : x = s \div b /\ b * x \in Nat
    BY <2>1, Z3
  <2> QED BY <2>1, <2>2, <1>2
<1>4. n * b = b * n /\ n # 0 /\ n <= s
  <2>1. n * b = b * n /\ n # 0
    BY <1>3, Z3
  <2>2. n <= b * n
    BY <1>3, Z3
  <2> QED BY <2>1, <2>2, <1>3
<1>5. ASSUME NEW l \in Nat PROVE l * b < s <=> l < n
  <2>1. CASE l < n
    <3>1. l * b < n * b
      BY <2>1, Z3
    <3> QED BY <2>1, <3>1, <1>3, <1>4
  <2>2. CASE ~(l < n)
    <3>1. n * b <= l * b
      BY <2>2, Z3
    <3>2. n * b \in Nat /\ l * b \in Nat
      BY Z3
    <3> QED BY <2>2, <3>1, <3>2, <1>3, <1>4
  <2> QED BY <2>1, <2>2
<1>6. InFile(f) = 0 .. n - 1
  <2>1. \A l : l \in InFile(f) <=> l \in 0 .. s /\ l * b < s
    BY <1>2 DEF InFile
  <2>2. \A l : l \in 0 .. n - 1 <=> l \in 0 .. s /\ l * b < s
    <3> TAKE l
    <3>1. l \in 0 .. n - 1 => l \in Nat /\ l < n /\ l \in 0 .. s
      BY <1>4
    <3>2. l \in 0 .. s => l \in Nat
      OBVIOUS
    <3>3. l \in Nat /\ l < n => l \in 0 .. n - 1
      OBVIOUS
    <3> QED BY <3>1, <3>2, <3>3, <1>5, Zenon
  <2> QED BY <2>1, <2>2, Zenon
<1>7. 0 \in InFile(f)
  BY <1>4, <1>6
<1>8. Size[f] = n * BLOCK_SIZE
  BY <1>2, <1>3, <1>4
<1>9. InFile(f) = 0 .. (Size[f] \div BLOCK_SIZE) - 1
  BY <1>2, <1>3, <1>6
<1>10. \A l \in InFile(f) : BlockOf[f][l] \in DOMAIN Dentries
  BY BlockAssumption
<1> QED BY <1>1, <1>7, <1>8, <1>9, <1>10

\* The entries of a block of a directory.
LEMMA DentryFacts ==
    ASSUME NEW b \in DOMAIN Dentries
    PROVE  /\ 0 \in DOMAIN Dentries[b] /\ DOMAIN Dentries[b] \subseteq 0 .. BLOCK_SIZE - 1
           /\ \A o \in DOMAIN Dentries[b] :
                 /\ Dentries[b][o].inode \in File \cup {NoInode}
                 /\ Dentries[b][o].name \in STRING
                 /\ Dentries[b][o].rec_len \in 1 .. BLOCK_SIZE
                 /\ o + Dentries[b][o].rec_len \in DOMAIN Dentries[b] \cup {BLOCK_SIZE}
                 /\ \A x \in DOMAIN Dentries[b] : x <= o \/ x >= o + Dentries[b][o].rec_len
<1>1. /\ 0 \in DOMAIN Dentries[b] /\ DOMAIN Dentries[b] \subseteq 0 .. BLOCK_SIZE - 1
      /\ \A o \in DOMAIN Dentries[b] :
            /\ Dentries[b][o] \in DentryType
            /\ o + Dentries[b][o].rec_len \in DOMAIN Dentries[b] \cup {BLOCK_SIZE}
            /\ \A x \in DOMAIN Dentries[b] : x <= o \/ x >= o + Dentries[b][o].rec_len
  BY TreeAssumption, Zenon
<1>2. \A d \in DentryType : /\ d.inode \in File \cup {NoInode} /\ d.name \in STRING
                            /\ d.rec_len \in 1 .. BLOCK_SIZE
  BY DEF DentryType
<1> QED BY <1>1, <1>2, Zenon

\* The entries in use are those of the blocks of the directory.
LEMMA EntriesAre ==
    ASSUME NEW f \in File, Kind[f] = "dir"
    PROVE  \A x : x \in Entries(f) <=>
              /\ \E l \in InFile(f) : \E o \in DOMAIN Dentries[BlockOf[f][l]] :
                    x = Occurrence(f, l, o)
              /\ x.inode # NoInode
<1> DEFINE In(l) == {Occurrence(f, l, o) : o \in DOMAIN Dentries[BlockOf[f][l]]}
           All == {In(l) : l \in InFile(f)}
<1>1. InFile(f) = 0 .. (Size[f] \div BLOCK_SIZE) - 1
  BY DirBlocks
<1>2. Entries(f) = {x \in UNION All : x.inode # NoInode}
  BY <1>1, Zenon DEF Entries
<1>3. \A l, x : x \in In(l) <=> \E o \in DOMAIN Dentries[BlockOf[f][l]] : x = Occurrence(f, l, o)
  BY Zenon
<1>4. \A x : x \in UNION All <=> \E l \in InFile(f) : x \in In(l)
  <2> HIDE DEF In
  <2> QED BY Zenon
<1>5. \A x : x \in Entries(f) <=> x \in UNION All /\ x.inode # NoInode
  <2> HIDE DEF All
  <2> QED BY <1>2
<1> HIDE DEF In, All
<1>6. \A x : x \in Entries(f) <=> (\E l \in InFile(f) : x \in In(l)) /\ x.inode # NoInode
  BY <1>4, <1>5, Zenon
<1> QED BY <1>3, <1>6

\* Their fields.
LEMMA EntryFields ==
    ASSUME NEW f \in File, Kind[f] = "dir", NEW l \in InFile(f),
           NEW o \in DOMAIN Dentries[BlockOf[f][l]]
    PROVE  LET e == Dentries[BlockOf[f][l]][o]
               x == Occurrence(f, l, o)
           IN  /\ x.at = l * BLOCK_SIZE + o /\ x.next = l * BLOCK_SIZE + o + e.rec_len
               /\ x.name = e.name /\ x.inode = e.inode
               /\ x.name \in STRING /\ x.inode \in File \cup {NoInode}
               /\ x.at \in Nat /\ x.next \in Nat /\ x.at < Size[f]
               /\ l \in Nat /\ o \in 0 .. BLOCK_SIZE - 1 /\ e.rec_len \in 1 .. BLOCK_SIZE
<1>1. BlockOf[f][l] \in DOMAIN Dentries
  BY DirBlocks
<1>2. PICK e : e = Dentries[BlockOf[f][l]][o]
  OBVIOUS
<1>3. /\ e.inode \in File \cup {NoInode} /\ e.name \in STRING /\ e.rec_len \in 1 .. BLOCK_SIZE
      /\ o \in 0 .. BLOCK_SIZE - 1
  BY <1>1, <1>2, DentryFacts, Zenon
<1>4. l \in Nat
  BY BlockInFile
<1>5. PICK x : x = Occurrence(f, l, o)
  OBVIOUS
<1>6. /\ x.at = l * BLOCK_SIZE + o /\ x.next = l * BLOCK_SIZE + o + e.rec_len
      /\ x.name = e.name /\ x.inode = e.inode
  BY <1>2, <1>5 DEF Occurrence
<1>7. PICK b \in Nat \ {0}, n \in Nat : b = BLOCK_SIZE /\ Size[f] = n * b
  BY SizeFacts, DirBlocks
<1>8. l * b + o \in Nat /\ l * b + o + e.rec_len \in Nat
  <2>1. l * b \in Nat
    BY <1>4, Z3
  <2> QED BY <2>1, <1>3, <1>7
<1>9. l * b + o < n * b
  <2>1. l * b < n * b
    BY <1>7 DEF InFile
  <2>2. l + 1 <= n
    <3> SUFFICES ASSUME n <= l PROVE FALSE
      BY <1>4
    <3>1. n * b <= l * b
      BY <1>4, Z3
    <3>2. n * b \in Nat /\ l * b \in Nat
      BY <1>4, Z3
    <3> QED BY <2>1, <3>1, <3>2
  <2>3. (l + 1) * b <= n * b /\ (l + 1) * b = l * b + b
    BY <2>2, <1>4, Z3
  <2>4. l * b \in Nat /\ n * b \in Nat
    BY <1>4, Z3
  <2> QED BY <2>3, <2>4, <1>3, <1>7
<1> QED BY <1>2, <1>3, <1>4, <1>5, <1>6, <1>7, <1>8, <1>9

\* Two offsets that are less than a block apart, the first being the place of
\* an entry: the second is in the same block.
LEMMA SameBlock ==
    ASSUME NEW b \in Nat \ {0}, NEW l \in Nat, NEW k \in Nat, NEW o \in 0 .. b - 1,
           NEW i \in 0 .. b - 1, NEW r \in Nat, o + r <= b,
           l * b + o <= k * b + i, k * b + i < l * b + o + r
    PROVE  k = l /\ o <= i /\ i < o + r
<1>1. CASE k < l
  <2>1. (k + 1) * b <= l * b /\ (k + 1) * b = k * b + b
    BY <1>1, Z3
  <2>2. k * b \in Nat /\ l * b \in Nat
    BY Z3
  <2> QED BY <2>1, <2>2
<1>2. CASE l < k
  <2>1. (l + 1) * b <= k * b /\ (l + 1) * b = l * b + b
    BY <1>2, Z3
  <2>2. k * b \in Nat /\ l * b \in Nat
    BY Z3
  <2> QED BY <2>1, <2>2
<1>3. CASE l = k
  <2>1. l * b \in Nat
    BY Z3
  <2> QED BY <2>1, <1>3
<1> QED BY <1>1, <1>2, <1>3

\* The entry at a place of a directory, and the place after it: no other
\* entry lies in between.
LEMMA PlaceNext ==
    ASSUME NEW f \in File, Kind[f] = "dir", NEW p \in Nat, p < Size[f], IsPlace(f, p)
    PROVE  LET l == p \div BLOCK_SIZE
               o == p % BLOCK_SIZE
               e == Dentries[BlockOf[f][l]][o]
           IN  /\ l \in InFile(f) /\ o \in DOMAIN Dentries[BlockOf[f][l]]
               /\ e.rec_len \in Nat \ {0}
               /\ IsPlace(f, p + e.rec_len) /\ p + e.rec_len <= Size[f]
               /\ Occurrence(f, l, o).at = p /\ Occurrence(f, l, o).next = p + e.rec_len
               /\ \A x \in Entries(f) :
                     p <= x.at /\ x.at < p + e.rec_len => x = Occurrence(f, l, o)
<1>1. PICK b \in Nat \ {0}, n \in Nat : b = BLOCK_SIZE /\ Size[f] = n * b
  BY SizeFacts, DirBlocks
<1>2. p \div b \in Nat /\ p % b \in 0 .. b - 1 /\ p = b * (p \div b) + (p % b)
  BY DivFacts
<1>3. PICK l \in Nat, o \in 0 .. b - 1 : l = p \div b /\ o = p % b /\ p = b * l + o
  BY <1>2
<1>4. b * l = l * b /\ l * b \in Nat /\ n * b \in Nat
  BY Z3
<1>5. l \in InFile(f) /\ o \in DOMAIN Dentries[BlockOf[f][l]]
  <2>1. l \in InFile(f)
    BY <1>1, <1>3, ByteInFile
  <2>2. p # Size[f]
    BY <1>1, <1>4
  <2> QED BY <2>1, <2>2, <1>1, <1>3 DEF IsPlace
<1>6. BlockOf[f][l] \in DOMAIN Dentries
  BY <1>5, DirBlocks
<1>7. PICK d : d = Dentries[BlockOf[f][l]]
  OBVIOUS
<1>8. PICK r \in Nat \ {0} : r = d[o].rec_len /\ r <= b
  <2>1. d[o].rec_len \in 1 .. b
    BY <1>1, <1>5, <1>6, <1>7, DentryFacts, Zenon
  <2> QED BY <2>1
<1>9. /\ 0 \in DOMAIN d /\ o + r \in DOMAIN d \cup {b}
      /\ \A x \in DOMAIN d : x \in 0 .. b - 1 /\ (x <= o \/ x >= o + r)
  BY <1>1, <1>5, <1>6, <1>7, <1>8, DentryFacts, Zenon
<1>10. Occurrence(f, l, o).at = p /\ Occurrence(f, l, o).next = p + r
  BY <1>1, <1>3, <1>4, <1>5, <1>7, <1>8, EntryFields
<1>11. \A x \in Entries(f) : p <= x.at /\ x.at < p + r => x = Occurrence(f, l, o)
  <2> SUFFICES ASSUME NEW x \in Entries(f), p <= x.at, x.at < p + r
               PROVE  x = Occurrence(f, l, o)
    OBVIOUS
  <2>1. PICK k \in InFile(f) : \E j \in DOMAIN Dentries[BlockOf[f][k]] : x = Occurrence(f, k, j)
    BY EntriesAre, Zenon
  <2>0. PICK i \in DOMAIN Dentries[BlockOf[f][k]] : x = Occurrence(f, k, i)
    BY <2>1
  <2>2. x.at = k * b + i /\ k \in Nat /\ i \in 0 .. b - 1
    BY <2>0, <1>1, EntryFields
  <2>3. o + r <= b
    BY <1>9
  <2>4. l * b + o <= k * b + i /\ k * b + i < l * b + o + r
    BY <2>2, <1>3, <1>4
  <2>5. r \in Nat
    OBVIOUS
  <2>6. k = l /\ o <= i /\ i < o + r
    BY <2>2, <2>3, <2>4, <2>5, SameBlock
  <2>7. i \in DOMAIN d
    BY <2>6, <1>7
  <2>8. i = o
    BY <2>2, <2>6, <2>7, <1>9
  <2> QED BY <2>0, <2>6, <2>8
<1>12. l + 1 <= n
  <2>1. l * b < n * b
    BY <1>1, <1>5 DEF InFile
  <2> SUFFICES ASSUME n <= l PROVE FALSE
    OBVIOUS
  <2>2. n * b <= l * b
    BY Z3
  <2> QED BY <2>1, <2>2, <1>4
<1>13. (l + 1) * b <= n * b /\ (l + 1) * b = l * b + b
  BY <1>12, Z3
<1>14. IsPlace(f, p + r) /\ p + r <= Size[f]
  <2>1. CASE o + r \in DOMAIN d
    <3>1. o + r \in 0 .. b - 1
      BY <2>1, <1>9
    <3>2. p + r \in Nat /\ p + r = b * l + (o + r)
      BY <1>3, <1>4
    <3>3. (p + r) \div b = l /\ (p + r) % b = o + r
      BY <3>1, <3>2, DivUnique
    <3>4. p + r < Size[f]
      BY <3>1, <3>2, <1>1, <1>4, <1>13
    <3> QED BY <3>2, <3>3, <3>4, <2>1, <1>1, <1>4, <1>7 DEF IsPlace
  <2>2. CASE o + r = b /\ l + 1 = n
    <3>1. p + r = Size[f]
      BY <2>2, <1>1, <1>3, <1>4, <1>13
    <3> QED BY <3>1, <1>1, <1>4 DEF IsPlace
  <2>3. CASE o + r = b /\ l + 1 < n
    <3>1. l + 1 \in Nat /\ p + r = b * (l + 1) + 0 /\ p + r \in Nat
      <4>1. b * (l + 1) = b * l + b
        BY Z3
      <4>2. PICK t \in Nat : t = b * l
        BY <1>4
      <4>3. b * (l + 1) = t + b /\ p = t + o
        BY <4>1, <4>2, <1>3
      <4>4. p + r = t + b
        BY <4>3, <2>3
      <4> QED BY <4>3, <4>4
    <3>2. (p + r) \div b = l + 1 /\ (p + r) % b = 0
      <4>1. 0 \in 0 .. b - 1
        OBVIOUS
      <4> QED BY <3>1, <4>1, DivUnique
    <3>3. (l + 1) * b < n * b
      BY <2>3, Z3
    <3>4. p + r < Size[f]
      BY <3>1, <3>3, <2>3, <1>1, <1>3, <1>4, <1>13
    <3>5. l + 1 \in InFile(f)
      BY <3>1, <3>2, <3>4, <1>1, ByteInFile
    <3>6. 0 \in DOMAIN Dentries[BlockOf[f][l + 1]]
      BY <3>5, DirBlocks, DentryFacts, Zenon
    <3> QED BY <3>1, <3>2, <3>4, <3>6, <1>1 DEF IsPlace
  <2> QED BY <2>1, <2>2, <2>3, <1>9, <1>12
<1> QED BY <1>1, <1>3, <1>5, <1>7, <1>8, <1>10, <1>11, <1>14

\* A directory begins with an entry.
LEMMA PlaceFirst ==
    ASSUME NEW f \in File, Kind[f] = "dir"
    PROVE  IsPlace(f, 0) /\ 0 < Size[f]
<1>1. PICK b \in Nat \ {0} : b = BLOCK_SIZE
  BY SizeFacts
<1>2. 0 = b * 0 + 0 /\ 0 \in 0 .. b - 1
  BY Z3
<1>3. 0 \div b = 0 /\ 0 % b = 0
  BY <1>2, DivUnique
<1>4. 0 \in DOMAIN Dentries[BlockOf[f][0]]
  BY DirBlocks, DentryFacts
<1>5. 0 < Size[f]
  BY TreeAssumption
<1> QED BY <1>1, <1>3, <1>4, <1>5 DEF IsPlace

-----------------------------------------------------------------------------
(* Names and paths.                                                        *)

\* A name of a directory is that of one entry in use, or of none.
LEMMA NamedIs ==
    ASSUME NEW f \in File, Kind[f] = "dir", NEW n
    PROVE  /\ (\A x \in Entries(f) : x.name # n) => Named(f, n) = NoInode
           /\ \A x \in Entries(f) : x.name = n => Named(f, n) = x.inode
<1> DEFINE found == {x \in Entries(f) : x.name = n}
<1>1. Named(f, n) = IF found = {} THEN NoInode ELSE (CHOOSE x \in found : TRUE).inode
  BY DEF Named
<1>2. ASSUME \A x \in Entries(f) : x.name # n PROVE Named(f, n) = NoInode
  BY <1>1, <1>2
<1>3. ASSUME NEW x \in Entries(f), x.name = n PROVE Named(f, n) = x.inode
  <2>1. x \in found
    BY <1>3
  <2>2. \A y \in found : y = x
    BY <1>3, NameAssumption, Zenon
  <2> HIDE DEF found
  <2>3. (CHOOSE y \in found : TRUE) = x
    BY <2>1, <2>2
  <2> QED BY <1>1, <2>1, <2>3
<1> QED BY <1>2, <1>3

\* It leads to a file, or nowhere.
LEMMA NamedType ==
    ASSUME NEW f \in File, NEW n
    PROVE  Named(f, n) \in File \cup {NoInode}
<1>1. CASE Kind[f] # "dir"
  BY <1>1 DEF Named
<1>2. CASE Kind[f] = "dir" /\ \A x \in Entries(f) : x.name # n
  BY <1>2, NamedIs
<1>3. CASE Kind[f] = "dir" /\ ~(\A x \in Entries(f) : x.name # n)
  <2>1. PICK x \in Entries(f) : x.name = n
    BY <1>3
  <2>2. PICK l \in InFile(f) : \E o \in DOMAIN Dentries[BlockOf[f][l]] : x = Occurrence(f, l, o)
    BY <1>3, EntriesAre, Zenon
  <2>3. PICK o \in DOMAIN Dentries[BlockOf[f][l]] : x = Occurrence(f, l, o)
    BY <2>2
  <2>4. x.inode \in File \cup {NoInode}
    BY <1>3, <2>3, EntryFields
  <2> QED BY <1>3, <2>1, <2>4, NamedIs
<1> QED BY <1>1, <1>2, <1>3

\* Where a path has come to after k names, if g says so for fewer.
Come(p, g, k) ==
    IF k = 0 THEN ROOT
    ELSE IF g[k - 1] = NoInode THEN NoInode ELSE Named(g[k - 1], p[k])

\* The recursive definition of Resolve defines a function.
LEMMA ResolveIs ==
    ASSUME NEW p \in Seq(STRING)
    PROVE  \E g \in [0 .. Len(p) -> File \cup {NoInode}] :
              /\ \A k \in 0 .. Len(p) : g[k] = Come(p, g, k)
              /\ Resolve(p) = g[Len(p)]
<1> DEFINE Inode == File \cup {NoInode}
           Upto(n, g) == \A k \in 0 .. n : g[k] = Come(p, g, k)
           S == {n \in 0 .. Len(p) : \E g \in [0 .. n -> Inode] : Upto(n, g)}
<1>1. Len(p) \in Nat /\ ROOT \in File
  BY LenProperties, TreeAssumption
<1>2. 0 \in S
  <2> DEFINE h == [k \in 0 .. 0 |-> ROOT]
  <2>1. h \in [0 .. 0 -> Inode]
    BY <1>1
  <2>2. Upto(0, h)
    BY DEF Come
  <2>3. 0 \in 0 .. Len(p)
    BY <1>1
  <2> HIDE DEF Upto, h, Inode
  <2> QED BY <2>1, <2>2, <2>3
<1>3. ASSUME NEW n \in 0 .. Len(p) - 1, n \in S PROVE n + 1 \in S
  <2>1. PICK g \in [0 .. n -> Inode] : Upto(n, g)
    BY <1>3
  <2> DEFINE h == [k \in 0 .. n + 1 |-> IF k <= n THEN g[k] ELSE Come(p, g, n + 1)]
  <2>2. Come(p, g, n + 1) \in Inode
    <3>1. (n + 1) - 1 = n /\ n + 1 # 0 /\ g[n] \in Inode
      OBVIOUS
    <3>2. CASE g[n] = NoInode
      BY <3>1, <3>2 DEF Come
    <3>3. CASE g[n] # NoInode
      BY <3>1, <3>3, NamedType DEF Come
    <3> QED BY <3>2, <3>3
  <2>3. h \in [0 .. n + 1 -> Inode]
    <3>1. \A k \in 0 .. n + 1 : k <= n => g[k] \in Inode
      OBVIOUS
    <3> HIDE DEF Inode
    <3> QED BY <3>1, <2>2
  <2>4. Upto(n + 1, h)
    <3> SUFFICES ASSUME NEW k \in 0 .. n + 1
                 PROVE  h[k] = Come(p, h, k)
      OBVIOUS
    <3>1. k # 0 => k - 1 \in 0 .. n /\ h[k - 1] = g[k - 1]
      <4>1. k # 0 => k - 1 \in 0 .. n /\ k - 1 \in 0 .. n + 1 /\ k - 1 <= n
        OBVIOUS
      <4> QED BY <4>1
    <3>2. Come(p, h, k) = Come(p, g, k)
      <4> HIDE DEF h
      <4> QED BY <3>1 DEF Come
    <3>3. CASE k <= n
      <4>1. h[k] = g[k] /\ k \in 0 .. n
        BY <3>3
      <4> QED BY <4>1, <3>2, <2>1
    <3>4. CASE k = n + 1
      <4>1. h[k] = Come(p, g, n + 1)
        BY <3>4
      <4> QED BY <4>1, <3>2, <3>4
    <3> QED BY <3>3, <3>4
  <2>5. n + 1 \in 0 .. Len(p)
    BY <1>1
  <2> HIDE DEF Upto, h, Inode
  <2> QED BY <2>3, <2>4, <2>5
<1>4. Len(p) \in S
  <2> HIDE DEF S
  <2>1. 0 .. Len(p) \subseteq S
    BY <1>1, <1>2, <1>3, Induction, Zenon
  <2> QED BY <2>1, <1>1
<1>5. PICK f \in [0 .. Len(p) -> Inode] : Upto(Len(p), f)
  BY <1>4
<1>6. f = [k \in 0 .. Len(p) |-> Come(p, f, k)]
  BY <1>5
<1> DEFINE To == CHOOSE g : g = [k \in 0 .. Len(p) |-> Come(p, g, k)]
<1>7. Resolve(p) = To[Len(p)]
  BY Zenon DEF Resolve, Come
<1>8. To = [k \in 0 .. Len(p) |-> Come(p, To, k)]
  BY <1>6, Zenon
<1> HIDE DEF To
<1>9. \A k \in 0 .. Len(p) : To[k] = Come(p, To, k)
  BY <1>8, Zenon
<1>10. 0 .. Len(p) \subseteq {k \in 0 .. Len(p) : To[k] \in Inode}
  <2> DEFINE T == {k \in 0 .. Len(p) : To[k] \in Inode}
  <2>1. 0 \in T
    <3>1. 0 \in 0 .. Len(p)
      BY <1>1
    <3> QED BY <3>1, <1>1, <1>9 DEF Come
  <2>2. ASSUME NEW m \in 0 .. Len(p) - 1, m \in T PROVE m + 1 \in T
    <3>1. m + 1 \in 0 .. Len(p) /\ (m + 1) - 1 = m /\ m + 1 # 0
      BY <1>1
    <3>2. To[m] \in Inode
      BY <2>2
    <3>3. To[m + 1] = IF To[m] = NoInode THEN NoInode ELSE Named(To[m], p[m + 1])
      BY <3>1, <1>9 DEF Come
    <3>4. To[m + 1] \in Inode
      BY <3>2, <3>3, NamedType
    <3> QED BY <3>1, <3>4
  <2> HIDE DEF T
  <2>3. 0 .. Len(p) \subseteq T
    BY <1>1, <2>1, <2>2, Induction, Zenon
  <2> QED BY <2>3 DEF T
<1>11. To \in [0 .. Len(p) -> Inode]
  BY <1>8, <1>10
<1> QED BY <1>7, <1>9, <1>11

\* Parts of a path lead to where it comes on its way.
LEMMA ResolveSteps ==
    ASSUME NEW p \in Seq(STRING)
    PROVE  \E g \in [0 .. Len(p) -> File \cup {NoInode}] :
              /\ \A k \in 0 .. Len(p) : g[k] = Come(p, g, k) /\ Resolve(SubSeq(p, 1, k)) = g[k]
              /\ Resolve(p) = g[Len(p)]
<1>1. PICK g \in [0 .. Len(p) -> File \cup {NoInode}] :
         (\A k \in 0 .. Len(p) : g[k] = Come(p, g, k)) /\ Resolve(p) = g[Len(p)]
  BY ResolveIs
<1>2. ASSUME NEW n \in 0 .. Len(p) PROVE Resolve(SubSeq(p, 1, n)) = g[n]
  <2>1. PICK q : q = SubSeq(p, 1, n)
    OBVIOUS
  <2>2. Len(p) \in Nat /\ n \in Nat /\ n <= Len(p)
    BY LenProperties
  <2>3. q \in Seq(STRING) /\ Len(q) = n /\ \A i \in 1 .. n : q[i] = p[i]
    <3>1. \A i \in 1 .. n : i \in 1 .. Len(p)
      BY <2>2
    <3>2. q = [i \in 1 .. n |-> p[i]]
      BY <2>1, <2>2 DEF SubSeq
    <3>3. \A i \in 1 .. n : p[i] \in STRING
      BY <3>1, ElementOfSeq
    <3>4. q \in [1 .. n -> STRING]
      BY <3>2, <3>3
    <3> QED BY <2>2, <3>2, <3>4, FunctionIsSeq
  <2>4. PICK h \in [0 .. n -> File \cup {NoInode}] :
           (\A k \in 0 .. n : h[k] = Come(q, h, k)) /\ Resolve(q) = h[n]
    <3>1. \E h \in [0 .. Len(q) -> File \cup {NoInode}] :
             (\A k \in 0 .. Len(q) : h[k] = Come(q, h, k)) /\ Resolve(q) = h[Len(q)]
      BY <2>3, ResolveIs, Zenon
    <3> QED BY <3>1, <2>3
  <2> DEFINE S == {k \in 0 .. n : h[k] = g[k]}
  <2>5. 0 \in S
    <3>1. 0 \in 0 .. n /\ 0 \in 0 .. Len(p)
      BY <2>2
    <3> QED BY <3>1, <2>4, <1>1 DEF Come
  <2>6. ASSUME NEW m \in 0 .. n - 1, m \in S PROVE m + 1 \in S
    <3>1. /\ m + 1 \in 0 .. n /\ m + 1 \in 0 .. Len(p) /\ m + 1 \in 1 .. n
          /\ (m + 1) - 1 = m /\ m + 1 # 0
      BY <2>2
    <3>2. h[m + 1] = Come(q, h, m + 1) /\ g[m + 1] = Come(p, g, m + 1)
      BY <3>1, <2>4, <1>1, Zenon
    <3>3. h[m] = g[m] /\ q[m + 1] = p[m + 1]
      BY <3>1, <2>3, <2>6
    <3>4. h[m + 1] = g[m + 1]
      BY <3>1, <3>2, <3>3 DEF Come
    <3> QED BY <3>1, <3>4
  <2> HIDE DEF S
  <2>7. 0 .. n \subseteq S
    BY <2>2, <2>5, <2>6, Induction, Zenon
  <2>8. n \in S
    BY <2>2, <2>7
  <2> QED BY <2>1, <2>4, <2>8 DEF S
<1> QED BY <1>1, <1>2

\* What a path leads to, name by name; a name that is not found ends it.
LEMMA ResolveTo ==
    ASSUME NEW p \in Seq(STRING), NEW k \in 0 .. Len(p)
    PROVE  LET r == Resolve(SubSeq(p, 1, k))
           IN  /\ r \in File \cup {NoInode}
               /\ k = 0 => r = ROOT
               /\ k = Len(p) => r = Resolve(p)
               /\ k < Len(p) /\ r # NoInode =>
                     Resolve(SubSeq(p, 1, k + 1)) = Named(r, p[k + 1])
               /\ r = NoInode => Resolve(p) = NoInode
<1>1. PICK g \in [0 .. Len(p) -> File \cup {NoInode}] :
              /\ \A i \in 0 .. Len(p) : g[i] = Come(p, g, i) /\ Resolve(SubSeq(p, 1, i)) = g[i]
              /\ Resolve(p) = g[Len(p)]
  BY ResolveSteps
<1>2. PICK n \in Nat : n = Len(p)
  BY LenProperties
<1>3. \A i \in 0 .. n - 1 :
         g[i + 1] = IF g[i] = NoInode THEN NoInode ELSE Named(g[i], p[i + 1])
  <2> TAKE i \in 0 .. n - 1
  <2>1. i + 1 \in 0 .. n /\ (i + 1) - 1 = i /\ i + 1 # 0
    OBVIOUS
  <2>2. g[i + 1] = Come(p, g, i + 1)
    BY <2>1, <1>1, <1>2
  <2> QED BY <2>1, <2>2 DEF Come
<1>4. g[k] \in File \cup {NoInode} /\ Resolve(SubSeq(p, 1, k)) = g[k]
  BY <1>1
<1>5. k = 0 => g[k] = ROOT
  BY <1>1 DEF Come
<1>6. k = Len(p) => g[k] = Resolve(p)
  BY <1>1
<1>7. k < Len(p) /\ g[k] # NoInode => Resolve(SubSeq(p, 1, k + 1)) = Named(g[k], p[k + 1])
  <2> SUFFICES ASSUME k < Len(p), g[k] # NoInode
               PROVE  Resolve(SubSeq(p, 1, k + 1)) = Named(g[k], p[k + 1])
    OBVIOUS
  <2>1. k \in 0 .. n - 1 /\ k + 1 \in 0 .. Len(p)
    BY <1>2
  <2>2. Resolve(SubSeq(p, 1, k + 1)) = g[k + 1]
    BY <2>1, <1>1, Zenon
  <2> QED BY <2>1, <2>2, <1>3
<1>8. g[k] = NoInode => Resolve(p) = NoInode
  <2> SUFFICES ASSUME g[k] = NoInode PROVE g[n] = NoInode
    BY <1>1, <1>2
  <2> DEFINE S == {d \in 0 .. n - k : g[k + d] = NoInode}
  <2>1. n - k \in Nat /\ k \in Nat
    BY <1>2
  <2>2. 0 \in S
    BY <2>1
  <2>3. ASSUME NEW m \in 0 .. (n - k) - 1, m \in S PROVE m + 1 \in S
    <3>1. k + m \in 0 .. n - 1 /\ k + (m + 1) = (k + m) + 1 /\ m + 1 \in 0 .. n - k
      BY <2>1
    <3>2. g[k + m] = NoInode
      BY <2>3
    <3> QED BY <3>1, <3>2, <1>3
  <2> HIDE DEF S
  <2>4. 0 .. n - k \subseteq S
    BY <2>1, <2>2, <2>3, Induction, Zenon
  <2>5. n - k \in S /\ k + (n - k) = n
    BY <2>1, <2>4
  <2> QED BY <2>5 DEF S
<1> QED BY <1>4, <1>5, <1>6, <1>7, <1>8

\* What is left of a path after k names.
LEMMA PathRest ==
    ASSUME NEW p \in Seq(STRING), NEW k \in 0 .. Len(p)
    PROVE  LET q == SubSeq(p, k + 1, Len(p))
           IN  /\ IsSuffix(q, p)
               /\ q = << >> <=> k = Len(p)
               /\ k < Len(p) => q[1] = p[k + 1] /\ Tail(q) = SubSeq(p, k + 2, Len(p))
<1>1. PICK n \in Nat, m \in Nat : n = Len(p) /\ m = n - k /\ k \in 0 .. n
  BY LenProperties
<1>2. PICK q : q = SubSeq(p, k + 1, Len(p))
  OBVIOUS
<1>3. \A i \in 1 .. n : p[i] \in STRING
  BY <1>1, ElementOfSeq
<1>4. q \in Seq(STRING) /\ Len(q) = m /\ \A i \in 1 .. m : q[i] = p[k + i]
  <2>1. \A i \in k + 1 .. n : p[i] \in STRING
    BY <1>1, <1>3
  <2>2. k + 1 \in Int /\ n \in Int
    BY <1>1
  <2>3. /\ SubSeq(p, k + 1, n) \in Seq(STRING)
        /\ Len(SubSeq(p, k + 1, n)) = IF k + 1 <= n THEN n - (k + 1) + 1 ELSE 0
        /\ \A i \in 1 .. n - (k + 1) + 1 : SubSeq(p, k + 1, n)[i] = p[k + 1 + i - 1]
    BY <2>1, <2>2, SubSeqProperties
  <2>4. Len(q) = m
    BY <2>3, <1>1, <1>2
  <2>5. ASSUME NEW i \in 1 .. m PROVE q[i] = p[k + i]
    <3>1. i \in 1 .. n - (k + 1) + 1 /\ k + 1 + i - 1 = k + i
      BY <1>1
    <3> QED BY <3>1, <2>3, <1>1, <1>2
  <2> QED BY <2>3, <2>4, <2>5, <1>1, <1>2
<1>5. IsSuffix(q, p)
  <2>1. PICK u : u = Reverse(q)
    OBVIOUS
  <2>2. PICK v : v = Reverse(p)
    OBVIOUS
  <2>3. u = [i \in 1 .. m |-> q[(m - i) + 1]]
    BY <2>1, <1>4 DEF Reverse
  <2>4. v = [i \in 1 .. n |-> p[(n - i) + 1]]
    BY <2>2, <1>1 DEF Reverse
  <2>5. u \in [1 .. m -> STRING]
    <3>1. \A i \in 1 .. m : q[(m - i) + 1] \in STRING
      <4> TAKE i \in 1 .. m
      <4>1. (m - i) + 1 \in 1 .. Len(q)
        BY <1>4
      <4> QED BY <4>1, <1>4, ElementOfSeq
    <3> QED BY <2>3, <3>1
  <2>6. v \in [1 .. n -> STRING]
    <3>1. \A i \in 1 .. n : (n - i) + 1 \in 1 .. n
      OBVIOUS
    <3> QED BY <2>4, <3>1, <1>3
  <2>7. Len(u) = m /\ Len(v) = n
    BY <2>5, <2>6, FunctionIsSeq
  <2>8. \A i \in 1 .. m : u[i] = v[i]
    <3> TAKE i \in 1 .. m
    <3>1. i \in 1 .. n /\ (m - i) + 1 \in 1 .. m /\ k + ((m - i) + 1) = (n - i) + 1
      BY <1>1
    <3> QED BY <3>1, <2>3, <2>4, <1>4
  <2>9. SubSeq(u, 1, m) = SubSeq(v, 1, m)
    <3>1. SubSeq(u, 1, m) = [i \in 1 .. m |-> u[i]]
      BY DEF SubSeq
    <3>2. SubSeq(v, 1, m) = [i \in 1 .. m |-> v[i]]
      BY DEF SubSeq
    <3> QED BY <3>1, <3>2, <2>8
  <2>10. m <= n
    BY <1>1
  <2> QED BY <2>1, <2>2, <2>7, <2>9, <2>10 DEF IsSuffix, IsPrefix
<1>6. q = << >> <=> k = Len(p)
  <2>1. q = << >> <=> Len(q) = 0
    BY <1>4, EmptySeq
  <2> QED BY <2>1, <1>1, <1>4
<1>7. ASSUME k < Len(p) PROVE q[1] = p[k + 1] /\ Tail(q) = SubSeq(p, k + 2, Len(p))
  <2>1. k + 1 \in 1 .. Len(p) /\ Len(p) \in k + 1 .. Len(p) /\ 1 \in 1 .. m /\ (k + 1) + 1 = k + 2
    BY <1>1, <1>7
  <2>2. Tail(SubSeq(p, k + 1, Len(p))) = SubSeq(p, (k + 1) + 1, Len(p))
    BY <2>1, HeadTailOfSubSeq
  <2> QED BY <2>1, <2>2, <1>2, <1>4
<1> QED BY <1>2, <1>5, <1>6, <1>7

\* Paths are sequences of names.
LEMMA PathsType ==
    ASSUME NEW p \in Paths \cup {<< >>}
    PROVE  p \in Seq(STRING) /\ Len(p) \in Nat
<1>1. p \in Seq(STRING)
  BY NameAssumption, EmptySeq
<1> QED BY <1>1, LenProperties

-----------------------------------------------------------------------------
(* The steps of the lookup.                                                *)

\* What is left alone by a step that leaves the kernel's side alone.
LEMMA ClientFrame ==
    ASSUME IInv, client' = client
    PROVE  client' \in ClientType /\ ClientInv' /\ ListingExact' /\ ListingComplete'
<1>1. client \in ClientType /\ ClientInv /\ ListingExact /\ ListingComplete
  BY DEF IInv, CallInv
<1>2. ClientInv'
  BY <1>1 DEF ClientInv
<1>3. ListingExact'
  BY <1>1 DEF ListingExact, Range
<1>4. ListingComplete'
  BY <1>1 DEF ListingComplete
<1> QED BY <1>1, <1>2, <1>3, <1>4

\* The path asked for, and what is left of it.
LEMMA PathHere ==
    ASSUME IInv
    PROVE  /\ asked \in Seq(STRING) /\ Len(asked) \in Nat
           /\ asked \in Paths \cup {<< >>}
BY PathsType DEF IInv, FsTypeOK

\* A lookup, or a walk of a directory, has come to a file.  While names are
\* left it is a directory.
LEMMA LookupHere ==
    ASSUME IInv, step \in {"lookup", "dentry"}
    PROVE  \E k \in 0 .. Len(asked) :
              /\ path = SubSeq(asked, k + 1, Len(asked))
              /\ inode_idx = Resolve(SubSeq(asked, 1, k)) /\ inode_idx \in File
              /\ path = << >> => k = Len(asked) /\ inode_idx = Resolve(asked)
              /\ path # << >> => /\ k < Len(asked) /\ Kind[inode_idx] = "dir"
                                 /\ path[1] = asked[k + 1]
                                 /\ Tail(path) = SubSeq(asked, k + 2, Len(asked))
<1>1. PICK k \in 0 .. Len(asked) :
         /\ path = SubSeq(asked, k + 1, Len(asked))
         /\ inode_idx = Resolve(SubSeq(asked, 1, k)) /\ inode_idx # NoInode
  BY DEF IInv, PathInv
<1>2. asked \in Seq(STRING) /\ Len(asked) \in Nat /\ asked \in Paths \cup {<< >>}
  BY PathHere
<1>3. inode_idx \in File
  BY <1>1 DEF IInv, FsTypeOK
<1>4. /\ path = << >> <=> k = Len(asked)
      /\ k < Len(asked) => path[1] = asked[k + 1] /\ Tail(path) = SubSeq(asked, k + 2, Len(asked))
  BY <1>1, <1>2, PathRest
<1>5. path = << >> => inode_idx = Resolve(asked)
  BY <1>1, <1>2, <1>4, ResolveTo
<1>6. path # << >> => k < Len(asked) /\ Kind[inode_idx] = "dir"
  <2> SUFFICES ASSUME path # << >> PROVE k < Len(asked) /\ Kind[inode_idx] = "dir"
    OBVIOUS
  <2>1. k < Len(asked) /\ k \in 0 .. Len(asked) - 1
    BY <1>2, <1>4
  <2>2. Len(<< >>) = 0
    BY EmptySeq
  <2>3. asked \in Paths
    BY <2>1, <2>2, <1>2
  <2> QED BY <2>1, <2>3, <1>1, NameAssumption
<1> QED BY <1>1, <1>3, <1>4, <1>5, <1>6

\* The steps of the block mapping and of op_read.
LEMMA MapStepI ==
    ASSUME IInv, MapStep PROVE IInv'
<1>1. /\ RInv /\ Step
      /\ UNCHANGED <<op, asked, step, path, inode_idx, pos, dctx, room, reply, client>>
  BY DEF IInv, MapStep, fsvars
<1>2. /\ RInv' /\ file' = file
      /\ Mapping => (Mapping' /\ lblock' = lblock /\ for' = for) \/ pc' = "abort" \/ Reading
      /\ Mapping \/ Reading
      /\ Reading => Reading' \/ pc' \in {"idle", "abort"}
  BY <1>1, StepR
<1>3. StepInv
  BY DEF IInv
<1>4. pc \notin {"idle", "abort"}
  BY <1>2 DEF Mapping, Reading
<1>5. step \in {"idle", "dentry", "link"}
  BY <1>3, <1>4 DEF StepInv
<1>6. step \in {"dentry", "link"} => ~Reading /\ Mapping
  BY <1>3, <1>4 DEF StepInv, Mapping, Reading
<1>7. StepInv'
  <2>1. step = "idle" => Reading
    BY <1>3, <1>4 DEF StepInv
  <2>2. (step = "dentry" => for = "dir") /\ (step = "link" => for = "link")
    BY <1>3, <1>4 DEF StepInv
  <2> QED BY <2>1, <2>2, <1>1, <1>2, <1>5, <1>6 DEF StepInv
<1>8. FsTypeOK'
  BY <1>1, <1>2 DEF IInv, FsTypeOK, RInv
<1>9. PathInv'
  BY <1>1 DEF IInv, PathInv
<1>10. WalkInv'
  BY <1>1, <1>2 DEF IInv, WalkInv, Searching, Listing, InFile
<1>11. CallInv'
  <2>1. step' = "link" => (Mapping' => lblock' = 0)
    BY <1>1, <1>2, <1>6 DEF IInv, CallInv, Mapping
  <2> QED BY <2>1, <1>1, <1>2 DEF IInv, CallInv
<1>12. FsAssertsHold'
  BY <1>1, <1>2 DEF IInv, FsAssertsHold, RInv
<1>13. LinkRight'
  BY <1>1 DEF IInv, LinkRight
<1> QED BY <1>1, <1>2, <1>7, <1>8, <1>9, <1>10, <1>11, <1>12, <1>13, ClientFrame DEF IInv

\* The fields of an entry of a directory.
LEMMA EntryType ==
    ASSUME NEW f \in File, Kind[f] = "dir", NEW x \in Entries(f)
    PROVE  /\ x.at \in Nat /\ x.next \in Nat /\ x.at < Size[f]
           /\ x.name \in STRING /\ x.inode \in File
<1>1. PICK l \in InFile(f) : \E o \in DOMAIN Dentries[BlockOf[f][l]] : x = Occurrence(f, l, o)
  BY EntriesAre, Zenon
<1>2. PICK o \in DOMAIN Dentries[BlockOf[f][l]] : x = Occurrence(f, l, o)
  BY <1>1
<1>3. x.inode # NoInode
  BY EntriesAre, Zenon
<1> QED BY <1>2, <1>3, EntryFields

\* A walk starts at the first block of a directory, with an empty buffer.
LEMMA ResetI ==
    ASSUME IInv, step \in {"lookup", "resolved"}, inode_idx \in File, Kind[inode_idx] = "dir",
           NEW o \in Nat, inode_dir_ctx_reset(inode_idx, o),
           UNCHANGED <<path, inode_idx, room, op, asked, reply, client>>,
           PathInv', WalkInv'
    PROVE  IInv'
<1>1. pc = "idle" /\ RInv
  BY DEF IInv, StepInv
<1>2. /\ file' = inode_idx /\ GetPblock(0, "dir") /\ dctx' = NoCtx /\ pos' = o
      /\ step' = "dentry" /\ UNCHANGED <<offset, want, size, buf, node, index, pblock>>
  BY DEF inode_dir_ctx_reset, dir_ctx_update
<1>3. inode_idx \in Mapped /\ 0 \in InFile(inode_idx)
  BY DirBlocks
<1>4. RInv' /\ Mapping' /\ for' = "dir"
  BY <1>1, <1>2, <1>3, MapStartR
<1>5. StepInv'
  BY <1>2, <1>4 DEF StepInv
<1>6. FsTypeOK'
  BY <1>2, <1>4 DEF IInv, RInv, FsTypeOK, NoCtx
<1>7. CallInv' /\ LinkRight'
  BY <1>2 DEF IInv, CallInv, LinkRight
<1>8. FsAssertsHold'
  BY <1>2, <1>4 DEF RInv, FsAssertsHold
<1> QED BY <1>4, <1>5, <1>6, <1>7, <1>8, ClientFrame DEF IInv

\* The next name of a path is searched from the start of the directory.
LEMMA NextNameI ==
    ASSUME IInv, NextName PROVE IInv'
<1>1. /\ step = "lookup" /\ path # << >> /\ inode_dir_ctx_reset(inode_idx, 0)
      /\ UNCHANGED <<path, inode_idx, room, op, asked, reply, client>>
  BY DEF NextName, callvars
<1>2. inode_idx \in File /\ Kind[inode_idx] = "dir"
  BY <1>1, LookupHere
<1>3. file' = inode_idx /\ dctx' = NoCtx /\ pos' = 0 /\ step' = "dentry"
  BY <1>1 DEF inode_dir_ctx_reset
<1>4. PathInv'
  BY <1>1, <1>3 DEF IInv, PathInv
<1>5. WalkInv'
  <2>1. IsPlace(inode_idx, 0)
    BY <1>2, PlaceFirst
  <2>2. \A x \in Entries(inode_idx) : ~(x.at < 0)
    BY <1>2, EntryType
  <2> QED BY <2>1, <2>2, <1>1, <1>2, <1>3 DEF WalkInv, Searching, Listing
<1> QED BY <1>1, <1>2, <1>4, <1>5, ResetI

\* The end of the path.
LEMMA ResolvedI ==
    ASSUME IInv, Resolved PROVE IInv'
<1>1. /\ step = "lookup" /\ path = << >> /\ step' = "resolved" /\ UNCHANGED vars
      /\ UNCHANGED <<path, inode_idx, pos, dctx, room, op, asked, reply, client>>
  BY DEF Resolved, callvars
<1>2. RInv' /\ (pc' = pc) /\ (file' = file)
  BY <1>1, StutterR DEF IInv, vars
<1>3. StepInv'
  BY <1>1, <1>2 DEF IInv, StepInv
<1>4. FsTypeOK'
  BY <1>1, <1>2 DEF IInv, RInv, FsTypeOK
<1>5. PathInv'
  <2>1. inode_idx = Resolve(asked)
    BY <1>1, LookupHere
  <2> QED BY <2>1, <1>1 DEF IInv, PathInv
<1>6. WalkInv' /\ LinkRight'
  BY <1>1 DEF WalkInv, LinkRight
<1>7. CallInv'
  BY <1>1 DEF IInv, CallInv
<1>8. FsAssertsHold'
  BY <1>1, <1>2 DEF RInv, FsAssertsHold
<1> QED BY <1>1, <1>2, <1>3, <1>4, <1>5, <1>6, <1>7, <1>8, ClientFrame DEF IInv

\* The walk of a directory.
LEMMA WalkHere ==
    ASSUME IInv, step = "dentry"
    PROVE  /\ file \in File /\ Kind[file] = "dir" /\ file = inode_idx /\ pos \in Nat
           /\ Size[file] \in Nat
           /\ Listing => client.kind = "dir" /\ file = Resolve(client.path) /\ op = "readdir"
<1>1. WalkInv /\ file = inode_idx /\ Kind[file] = "dir" /\ pos \in Nat
  BY DEF IInv, WalkInv, FsTypeOK
<1>2. file \in File /\ Size[file] \in Nat
  BY <1>1, LookupHere, SizeFacts
<1>3. Listing => client.kind = "dir" /\ file = Resolve(client.path) /\ op = "readdir"
  <2> SUFFICES ASSUME Listing
               PROVE  client.kind = "dir" /\ file = Resolve(client.path) /\ op = "readdir"
    OBVIOUS
  <2>1. op = "readdir"
    BY <1>1 DEF WalkInv
  <2>2. client.kind = "dir" /\ asked = client.path
    BY <2>1 DEF IInv, CallInv
  <2>3. inode_idx = Resolve(asked)
    BY LookupHere DEF Listing
  <2> QED BY <2>1, <2>2, <2>3, <1>1
<1> QED BY <1>1, <1>2, <1>3

\* A block of the directory comes into the buffer.
LEMMA DirBlockI ==
    ASSUME IInv, DirBlock PROVE IInv'
<1>1. /\ pc = "mapped" /\ for = "dir" /\ disk_read_block /\ RInv
      /\ dctx' = [lblock |-> lblock, buf |-> pblock]
      /\ UNCHANGED <<step, path, inode_idx, pos, room, op, asked, reply, client>>
  BY DEF IInv, DirBlock, callvars, BlockRead
<1>2. step = "dentry"
  BY <1>1 DEF IInv, StepInv, Reading, Mapping, FsTypeOK
<1>3. /\ RInv' /\ pc' = "idle" /\ file' = file
      /\ lblock \in InFile(file) /\ lblock \in Nat /\ pblock = BlockOf[file][lblock]
  BY <1>1, MapDoneR
<1>4. StepInv'
  BY <1>1, <1>2, <1>3 DEF StepInv
<1>5. dctx'.lblock = lblock /\ dctx'.buf = BlockOf[file][lblock]
  BY <1>1, <1>3
<1>6. FsTypeOK'
  <2>1. BlockOf[file][lblock] \in DOMAIN Dentries
    BY <1>2, <1>3, WalkHere, DirBlocks
  <2> QED BY <2>1, <1>1, <1>3, <1>5 DEF IInv, RInv, FsTypeOK
<1>7. PathInv'
  BY <1>1 DEF IInv, PathInv
<1>8. WalkInv'
  <2>1. (dctx # NoCtx => dctx.lblock \in InFile(file) /\ dctx.buf = BlockOf[file][dctx.lblock])'
    BY <1>3, <1>5 DEF InFile
  <2> QED BY <2>1, <1>1, <1>2, <1>3 DEF IInv, WalkInv, Searching, Listing
<1>9. CallInv' /\ LinkRight'
  BY <1>1, <1>2 DEF IInv, CallInv, LinkRight
<1>10. FsAssertsHold'
  BY <1>1, <1>2, <1>3 DEF RInv, FsAssertsHold
<1> QED BY <1>1, <1>3, <1>4, <1>6, <1>7, <1>8, <1>9, <1>10, ClientFrame DEF IInv

\* The block of the next entry is asked for.
LEMMA NextBlockI ==
    ASSUME IInv, NextBlock PROVE IInv'
<1>1. /\ step = "dentry" /\ pc = "idle" /\ pos < Size[file] /\ RInv
      /\ GetPblock(pos \div BLOCK_SIZE, "dir")
      /\ UNCHANGED <<file, offset, want, size, buf, node, index, pblock>>
      /\ UNCHANGED <<op, asked, step, path, inode_idx, pos, dctx, room, reply, client>>
  BY DEF IInv, NextBlock, AtEntry, dir_ctx_update, fsvars
<1>2. file \in Mapped /\ pos \div BLOCK_SIZE \in InFile(file)
  BY <1>1, WalkHere, ByteInFile, DirBlocks
<1>3. RInv' /\ Mapping' /\ for' = "dir"
  BY <1>1, <1>2, MapStartR
<1>4. StepInv'
  BY <1>1, <1>3 DEF StepInv
<1>5. FsTypeOK'
  BY <1>1, <1>3 DEF IInv, RInv, FsTypeOK
<1>6. PathInv'
  BY <1>1 DEF IInv, PathInv
<1>7. WalkInv'
  BY <1>1 DEF IInv, WalkInv, Searching, Listing, InFile
<1>8. CallInv' /\ LinkRight'
  BY <1>1 DEF IInv, CallInv, LinkRight
<1>9. FsAssertsHold'
  BY <1>1, <1>3 DEF RInv, FsAssertsHold
<1> QED BY <1>1, <1>3, <1>4, <1>5, <1>6, <1>7, <1>8, <1>9, ClientFrame DEF IInv

\* The ASSERT fails only where a listing was resumed beyond the directory.
LEMMA PastEndI ==
    ASSUME IInv, PastEnd PROVE IInv'
<1>1. /\ step = "dentry" /\ pc = "idle" /\ pos > Size[file] /\ step' = "abort"
      /\ UNCHANGED vars /\ RInv
      /\ UNCHANGED <<path, inode_idx, pos, dctx, room, op, asked, reply, client>>
  BY DEF IInv, PastEnd, callvars
<1>2. RInv' /\ (pc' = pc)
  BY <1>1, StutterR DEF vars
<1>3. StepInv'
  BY <1>1, <1>2 DEF StepInv
<1>4. FsTypeOK'
  BY <1>1, <1>2 DEF IInv, RInv, FsTypeOK
<1>5. PathInv'
  BY <1>1 DEF IInv, PathInv
<1>6. WalkInv' /\ LinkRight'
  BY <1>1 DEF WalkInv, LinkRight
<1>7. CallInv'
  BY <1>1 DEF IInv, CallInv
<1>8. ~IsPlace(file, pos)
  BY <1>1, WalkHere DEF IsPlace
<1>9. Listing /\ pos = client.next
  BY <1>1, <1>8 DEF IInv, WalkInv, Searching, Listing
<1>10. client.kind = "dir" /\ file = Resolve(client.path)
  BY <1>1, <1>9, WalkHere
<1>11. client.from = client.next
  BY <1>8, <1>9, <1>10 DEF IInv, ClientInv
<1>12. FsAssertsHold'
  BY <1>1, <1>2, <1>9, <1>10, <1>11 DEF RInv, FsAssertsHold
<1> QED BY <1>1, <1>2, <1>3, <1>4, <1>5, <1>6, <1>7, <1>12, ClientFrame DEF IInv

\* A step that reads nothing from the disk.
LEMMA QuietI ==
    ASSUME IInv, pc = "idle", UNCHANGED vars, step' # "link"
    PROVE  RInv' /\ TypeOK' /\ AssertsHold' /\ StepInv' /\ file' = file
<1>1. RInv' /\ pc' = "idle" /\ file' = file
  BY StutterR DEF IInv, vars
<1> QED BY <1>1 DEF RInv, StepInv

\* Where a walk is when there is an entry to look at: the buffer holds its
\* block, and no other entry in use lies before the next place.
LEMMA EntryHere ==
    ASSUME IInv, HasEntry
    PROVE  \E x :
              /\ x = Occurrence(file, pos \div BLOCK_SIZE, pos % BLOCK_SIZE)
              /\ dctx.buf = BlockOf[file][pos \div BLOCK_SIZE]
              /\ pos % BLOCK_SIZE \in DOMAIN Dentries[dctx.buf]
              /\ x.at = pos /\ x.next = pos + entry.rec_len
              /\ x.name = entry.name /\ x.inode = entry.inode
              /\ entry.rec_len \in Nat \ {0} /\ entry.name \in STRING
              /\ entry.inode \in File \cup {NoInode}
              /\ IsPlace(file, pos + entry.rec_len) /\ pos + entry.rec_len <= Size[file]
              /\ entry.inode # NoInode => x \in Entries(file)
              /\ \A y \in Entries(file) : pos <= y.at /\ y.at < pos + entry.rec_len => y = x
<1>1. /\ step = "dentry" /\ pc = "idle" /\ pos < Size[file]
      /\ dctx.lblock = pos \div BLOCK_SIZE
  BY DEF HasEntry, AtEntry, Buffered
<1>2. /\ file \in File /\ Kind[file] = "dir" /\ pos \in Nat /\ Size[file] \in Nat
  BY <1>1, WalkHere
<1>3. IsPlace(file, pos)
  BY <1>1, <1>2 DEF IInv, WalkInv, Searching, Listing
<1>4. pos \div BLOCK_SIZE \in Nat
  BY <1>1, <1>2, ByteInFile
<1>5. dctx # NoCtx
  BY <1>1, <1>4 DEF NoCtx
<1>6. dctx.buf = BlockOf[file][pos \div BLOCK_SIZE]
  BY <1>1, <1>5 DEF IInv, WalkInv
<1>7. PICK l, o : l = pos \div BLOCK_SIZE /\ o = pos % BLOCK_SIZE
  OBVIOUS
<1>8. entry = Dentries[BlockOf[file][l]][o]
  BY <1>6, <1>7 DEF entry
<1>9. /\ l \in InFile(file) /\ o \in DOMAIN Dentries[BlockOf[file][l]]
      /\ entry.rec_len \in Nat \ {0}
      /\ IsPlace(file, pos + entry.rec_len) /\ pos + entry.rec_len <= Size[file]
      /\ Occurrence(file, l, o).at = pos /\ Occurrence(file, l, o).next = pos + entry.rec_len
      /\ \A x \in Entries(file) :
            pos <= x.at /\ x.at < pos + entry.rec_len => x = Occurrence(file, l, o)
  <2> HIDE DEF entry
  <2> QED BY <1>1, <1>2, <1>3, <1>7, <1>8, PlaceNext
<1>10. PICK x : x = Occurrence(file, l, o)
  OBVIOUS
<1>11. /\ x.name = entry.name /\ x.inode = entry.inode
       /\ x.name \in STRING /\ x.inode \in File \cup {NoInode}
  <2> HIDE DEF entry
  <2> QED BY <1>2, <1>8, <1>9, <1>10, EntryFields
<1>12. entry.inode # NoInode => x \in Entries(file)
  <2> HIDE DEF entry
  <2> QED BY <1>2, <1>9, <1>10, <1>11, EntriesAre, Zenon
<1> HIDE DEF entry
<1> QED BY <1>6, <1>7, <1>9, <1>10, <1>11, <1>12

\* The search passes over an entry.
LEMMA SearchNextI ==
    ASSUME IInv, SearchNext PROVE IInv'
<1>1. /\ HasEntry /\ Searching /\ step = "dentry" /\ pc = "idle"
      /\ entry.inode = NoInode \/ entry.name # path[1]
      /\ pos' = pos + entry.rec_len /\ UNCHANGED vars
      /\ UNCHANGED <<step, path, inode_idx, dctx, room, op, asked, reply, client>>
  BY DEF SearchNext, callvars, Matches, HasEntry, AtEntry
<1>2. RInv' /\ TypeOK' /\ AssertsHold' /\ StepInv' /\ file' = file
  BY <1>1, QuietI
<1>3. PICK x :
        /\ x.name = entry.name /\ x.inode = entry.inode
        /\ entry.rec_len \in Nat \ {0} /\ IsPlace(file, pos + entry.rec_len)
        /\ \A y \in Entries(file) : pos <= y.at /\ y.at < pos + entry.rec_len => y = x
  BY <1>1, EntryHere, Zenon
<1>4. PICK r \in Nat \ {0} : r = entry.rec_len
  BY <1>3
<1>5. pos \in Nat /\ file \in File /\ Kind[file] = "dir"
  BY <1>1, WalkHere
<1>6. \A y \in Entries(file) : y.at < pos + r => y.name # path[1]
  <2> SUFFICES ASSUME NEW y \in Entries(file), y.at < pos + r PROVE y.name # path[1]
    OBVIOUS
  <2>1. y.at \in Nat /\ y.inode # NoInode
    BY <1>5, EntryType, TreeAssumption
  <2>2. CASE y.at < pos
    BY <2>2, <1>1 DEF IInv, WalkInv
  <2>3. CASE ~(y.at < pos)
    <3>1. y = x
      BY <2>1, <2>3, <1>3, <1>4, <1>5
    <3> QED BY <3>1, <2>1, <1>1, <1>3
  <2> QED BY <2>2, <2>3
<1>7. WalkInv'
  BY <1>1, <1>2, <1>3, <1>4, <1>6 DEF IInv, WalkInv, Searching, Listing, InFile
<1>8. FsTypeOK'
  <2>1. pos' \in Nat
    BY <1>1, <1>4, <1>5
  <2> QED BY <2>1, <1>1, <1>2 DEF IInv, FsTypeOK
<1>9. PathInv'
  BY <1>1 DEF IInv, PathInv
<1>10. CallInv' /\ LinkRight'
  BY <1>1 DEF IInv, CallInv, LinkRight
<1>11. FsAssertsHold'
  BY <1>1, <1>2 DEF FsAssertsHold
<1> QED BY <1>1, <1>2, <1>7, <1>8, <1>9, <1>10, <1>11, ClientFrame DEF IInv

\* The search finds the name.
LEMMA SearchFoundI ==
    ASSUME IInv, SearchFound PROVE IInv'
<1>1. /\ HasEntry /\ Searching /\ step = "dentry" /\ pc = "idle"
      /\ entry.inode # NoInode /\ entry.name = path[1]
      /\ inode_idx' = entry.inode /\ path' = Tail(path) /\ step' = "lookup" /\ UNCHANGED vars
      /\ UNCHANGED <<pos, dctx, room, op, asked, reply, client>>
  BY DEF SearchFound, callvars, Matches, HasEntry, AtEntry
<1>2. RInv' /\ TypeOK' /\ AssertsHold' /\ StepInv' /\ file' = file
  BY <1>1, QuietI
<1>3. PICK x : /\ x.name = entry.name /\ x.inode = entry.inode
               /\ entry.inode \in File \cup {NoInode} /\ x \in Entries(file)
  BY <1>1, EntryHere, Zenon
<1>4. PICK k \in 0 .. Len(asked) :
              /\ inode_idx = Resolve(SubSeq(asked, 1, k)) /\ inode_idx \in File
              /\ k < Len(asked) /\ Kind[inode_idx] = "dir"
              /\ path[1] = asked[k + 1]
              /\ Tail(path) = SubSeq(asked, k + 2, Len(asked))
  BY <1>1, LookupHere DEF Searching
<1>5. asked \in Seq(STRING) /\ Len(asked) \in Nat
  BY PathHere
<1>6. k + 1 \in 0 .. Len(asked) /\ (k + 1) + 1 = k + 2
  BY <1>4, <1>5
<1>7. Resolve(SubSeq(asked, 1, k + 1)) = entry.inode
  <2>1. file = inode_idx
    BY <1>1, WalkHere
  <2>2. Named(file, path[1]) = entry.inode
    BY <2>1, <1>1, <1>3, <1>4, NamedIs
  <2>3. inode_idx # NoInode
    BY <1>4, TreeAssumption
  <2> QED BY <2>1, <2>2, <2>3, <1>4, <1>5, ResolveTo
<1>8. PathInv'
  <2>1. path' = SubSeq(asked, (k + 1) + 1, Len(asked))
    BY <1>1, <1>4, <1>6
  <2> HIDE DEF entry
  <2> QED BY <2>1, <1>1, <1>6, <1>7 DEF PathInv
<1>9. FsTypeOK'
  <2>1. IsSuffix(path', asked)
    <3>1. path' = SubSeq(asked, (k + 1) + 1, Len(asked))
      BY <1>1, <1>4, <1>6
    <3> QED BY <3>1, <1>5, <1>6, PathRest
  <2>2. inode_idx' \in File \cup {NoInode}
    BY <1>1, <1>3
  <2> QED BY <2>1, <2>2, <1>1, <1>2 DEF IInv, FsTypeOK
<1>10. WalkInv' /\ LinkRight'
  BY <1>1 DEF WalkInv, LinkRight
<1>11. CallInv'
  BY <1>1 DEF IInv, CallInv
<1>12. FsAssertsHold'
  BY <1>1, <1>2 DEF FsAssertsHold
<1> QED BY <1>1, <1>2, <1>8, <1>9, <1>10, <1>11, <1>12, ClientFrame DEF IInv

\* The search comes to the end: there is no such name.
LEMMA SearchFailsI ==
    ASSUME IInv, SearchFails PROVE IInv'
<1>1. /\ Searching /\ step = "dentry" /\ pc = "idle" /\ pos = Size[file]
      /\ inode_idx' = NoInode /\ path' = << >> /\ step' = "resolved" /\ UNCHANGED vars
      /\ UNCHANGED <<pos, dctx, room, op, asked, reply, client>>
  BY DEF SearchFails, callvars, AtEnd
<1>2. RInv' /\ TypeOK' /\ AssertsHold' /\ StepInv' /\ file' = file
  BY <1>1, QuietI
<1>3. PICK k \in 0 .. Len(asked) :
              /\ inode_idx = Resolve(SubSeq(asked, 1, k)) /\ inode_idx \in File
              /\ k < Len(asked) /\ Kind[inode_idx] = "dir"
              /\ path[1] = asked[k + 1]
  BY <1>1, LookupHere DEF Searching
<1>4. asked \in Seq(STRING) /\ Len(asked) \in Nat
  BY PathHere
<1>5. k + 1 \in 0 .. Len(asked) /\ Len(asked) \in 0 .. Len(asked)
  BY <1>3, <1>4
<1>6. Resolve(asked) = NoInode
  <2>1. file = inode_idx
    BY <1>1, WalkHere
  <2>2. \A x \in Entries(file) : x.name # path[1]
    BY <2>1, <1>1, <1>3, EntryType DEF IInv, WalkInv
  <2>3. Named(file, path[1]) = NoInode
    BY <2>1, <2>2, <1>3, NamedIs
  <2>4. inode_idx # NoInode
    BY <1>3, TreeAssumption
  <2>5. Resolve(SubSeq(asked, 1, k + 1)) = NoInode
    BY <2>1, <2>3, <2>4, <1>3, <1>4, ResolveTo
  <2> QED BY <2>5, <1>4, <1>5, ResolveTo
<1>7. /\ << >> = SubSeq(asked, Len(asked) + 1, Len(asked))
      /\ IsSuffix(<< >>, asked)
  BY <1>4, <1>5, PathRest
<1>8. PathInv'
  BY <1>1, <1>5, <1>6, <1>7 DEF PathInv
<1>9. FsTypeOK'
  BY <1>1, <1>2, <1>7 DEF IInv, FsTypeOK
<1>10. WalkInv' /\ LinkRight'
  BY <1>1 DEF WalkInv, LinkRight
<1>11. CallInv'
  BY <1>1 DEF IInv, CallInv
<1>12. FsAssertsHold'
  BY <1>1, <1>2 DEF FsAssertsHold
<1> QED BY <1>1, <1>2, <1>8, <1>9, <1>10, <1>11, <1>12, ClientFrame DEF IInv

-----------------------------------------------------------------------------
(* The operations.                                                         *)

\* A call returns, having changed nothing but its reply and the kernel's side.
LEMMA ReplyI ==
    ASSUME IInv, pc = "idle", NEW v, Reply(v),
           client' \in ClientType, ClientInv', ListingExact', ListingComplete', LinkRight',
           op = "readdir" => client'.kind = "dir" /\ client'.path = client.path,
           step # "idle"
    PROVE  IInv'
<1>1. /\ step' = "done" /\ UNCHANGED vars
      /\ UNCHANGED <<op, asked, path, inode_idx, pos, dctx, room>>
  BY DEF Reply
<1>2. RInv' /\ TypeOK' /\ AssertsHold' /\ StepInv' /\ file' = file
  BY <1>1, QuietI
<1>3. client'.kind \in {"none", "file", "dir"}
  BY DEF ClientType, NoClient
<1>4. FsTypeOK'
  BY <1>1, <1>2, <1>3 DEF IInv, FsTypeOK
<1>5. PathInv'
  BY <1>1 DEF IInv, PathInv
<1>6. WalkInv'
  BY <1>1 DEF WalkInv
<1>7. CallInv'
  BY <1>1 DEF IInv, CallInv
<1>8. FsAssertsHold'
  BY <1>1, <1>2 DEF FsAssertsHold
<1> QED BY <1>2, <1>4, <1>5, <1>6, <1>7, <1>8 DEF IInv

\* getattr.
LEMMA GetattrI ==
    ASSUME IInv, Getattr PROVE IInv'
<1>1. /\ step = "resolved" /\ op = "getattr" /\ client' = client
      /\ \E v : Reply(v)
  BY DEF Getattr
<1>2. PICK v : Reply(v)
  BY <1>1
<1>3. LinkRight'
  BY <1>1, <1>2 DEF LinkRight, Reply
<1>4. pc = "idle"
  BY <1>1 DEF IInv, StepInv
<1> QED BY <1>1, <1>2, <1>3, <1>4, ClientFrame, ReplyI

\* open.
LEMMA OpenI ==
    ASSUME IInv, Open PROVE IInv'
<1>1. /\ step = "resolved" /\ op = "open" /\ Reply(inode_idx)
      /\ client' = [kind |-> "file", fh |-> inode_idx]
  BY DEF Open
<1>2. LinkRight'
  BY <1>1 DEF LinkRight, Reply
<1>3. pc = "idle" /\ inode_idx \in File \cup {NoInode}
  BY <1>1 DEF IInv, StepInv, FsTypeOK
<1>4. client' \in ClientType /\ client'.kind = "file"
  BY <1>1, <1>3 DEF ClientType
<1>5. ClientInv' /\ ListingExact' /\ ListingComplete'
  BY <1>4 DEF ClientInv, ListingExact, ListingComplete
<1> QED BY <1>1, <1>2, <1>3, <1>4, <1>5, ReplyI

\* readlink of something else.
LEMMA NotLinkI ==
    ASSUME IInv, NotLink PROVE IInv'
<1>1. /\ step = "resolved" /\ op = "readlink" /\ Kind[inode_idx] # "link"
      /\ Reply("EINVAL") /\ client' = client
  BY DEF NotLink
<1>2. inode_idx = Resolve(asked) /\ pc = "idle"
  BY <1>1 DEF IInv, PathInv, StepInv
<1>3. LinkRight'
  BY <1>1, <1>2 DEF LinkRight, Reply
<1> QED BY <1>1, <1>2, <1>3, ClientFrame, ReplyI

\* A target that the inode holds.
LEMMA LinkInInodeI ==
    ASSUME IInv, LinkInInode PROVE IInv'
<1>1. /\ step = "resolved" /\ op = "readlink" /\ Kind[inode_idx] = "link"
      /\ Size[inode_idx] <= FAST_LINK /\ Reply(InInode) /\ client' = client
  BY DEF LinkInInode, FitsInode
<1>2. inode_idx = Resolve(asked) /\ pc = "idle" /\ asked \in Existing
  BY <1>1 DEF IInv, PathInv, StepInv, CallInv
<1>3. inode_idx \in File
  BY <1>2 DEF IInv, FsTypeOK, Existing
<1>4. Size[inode_idx] # FAST_LINK => Size[inode_idx] < FAST_LINK
  BY <1>1, <1>3, SizeFacts, TreeAssumption
<1>5. reply'.val = InInode /\ asked' = asked
  BY <1>1 DEF Reply
<1>6. LinkRight'
  BY <1>2, <1>4, <1>5 DEF LinkRight
<1> QED BY <1>1, <1>2, <1>6, ClientFrame, ReplyI

\* A longer target: its block is asked for ...
LEMMA LinkInBlockI ==
    ASSUME IInv, LinkInBlock PROVE IInv'
<1>1. /\ step = "resolved" /\ op = "readlink" /\ Kind[inode_idx] = "link"
      /\ ~(Size[inode_idx] <= FAST_LINK) /\ file' = inode_idx /\ GetPblock(0, "link")
      /\ step' = "link" /\ UNCHANGED <<offset, want, size, buf, node, index, pblock>>
      /\ UNCHANGED <<path, inode_idx, pos, dctx, room, op, asked, reply, client>>
  BY DEF LinkInBlock, FitsInode, callvars
<1>2. inode_idx = Resolve(asked) /\ pc = "idle" /\ asked \in Existing /\ RInv
  BY <1>1 DEF IInv, PathInv, StepInv, CallInv
<1>3. inode_idx \in File
  BY <1>2 DEF IInv, FsTypeOK, Existing
<1>4. Size[inode_idx] > FAST_LINK /\ Size[inode_idx] \in Nat \ {0}
  BY <1>1, <1>3, SizeFacts, TreeAssumption
<1>5. inode_idx \in Mapped
  BY <1>1, <1>3, <1>4 DEF Mapped
<1>6. 0 \in InFile(inode_idx)
  <2>1. PICK b \in Nat \ {0} : b = BLOCK_SIZE
    BY SizeFacts
  <2>2. 0 * b = 0
    OBVIOUS
  <2> QED BY <2>1, <2>2, <1>4 DEF InFile
<1>7. RInv' /\ Mapping' /\ for' = "link" /\ lblock' = 0
  BY <1>1, <1>2, <1>5, <1>6, MapStartR
<1>8. StepInv'
  BY <1>1, <1>7 DEF StepInv
<1>9. FsTypeOK'
  BY <1>1, <1>7 DEF IInv, RInv, FsTypeOK
<1>10. PathInv'
  BY <1>1 DEF IInv, PathInv
<1>11. WalkInv' /\ LinkRight'
  BY <1>1 DEF WalkInv, LinkRight
<1>12. CallInv'
  BY <1>1, <1>2, <1>4, <1>7 DEF IInv, CallInv
<1>13. FsAssertsHold'
  BY <1>1, <1>7 DEF RInv, FsAssertsHold
<1> QED BY <1>1, <1>7, <1>8, <1>9, <1>10, <1>11, <1>12, <1>13, ClientFrame DEF IInv

\* ... and copied.
LEMMA LinkBlockI ==
    ASSUME IInv, LinkBlock PROVE IInv'
<1>1. /\ pc = "mapped" /\ for = "link" /\ disk_read_block /\ RInv
      /\ step' = "done" /\ reply' = [val |-> pblock]
      /\ UNCHANGED <<op, asked, path, inode_idx, pos, dctx, room, client>>
  BY DEF IInv, LinkBlock
<1>2. step = "link" /\ Mapping
  BY <1>1 DEF IInv, StepInv, Reading, Mapping, FsTypeOK
<1>3. /\ op = "readlink" /\ file = inode_idx /\ lblock = 0 /\ Size[file] > FAST_LINK
      /\ inode_idx = Resolve(asked)
  BY <1>2 DEF IInv, CallInv, PathInv
<1>4. RInv' /\ pc' = "idle" /\ file' = file /\ pblock = BlockOf[file][lblock]
  BY <1>1, MapDoneR
<1>5. StepInv'
  BY <1>1, <1>4 DEF StepInv
<1>6. FsTypeOK'
  BY <1>1, <1>4 DEF IInv, RInv, FsTypeOK
<1>7. PathInv'
  BY <1>1 DEF IInv, PathInv
<1>8. WalkInv'
  BY <1>1 DEF WalkInv
<1>9. CallInv'
  BY <1>1, <1>2 DEF IInv, CallInv
<1>10. LinkRight'
  <2>1. ~(Size[file] < FAST_LINK)
    BY <1>3, <1>4, SizeFacts, TreeAssumption DEF RInv, TypeOK
  <2>2. reply'.val = BlockOf[file][0]
    BY <1>1, <1>3, <1>4
  <2> QED BY <2>1, <2>2, <1>1, <1>3 DEF LinkRight
<1>11. FsAssertsHold'
  BY <1>1, <1>4 DEF RInv, FsAssertsHold
<1> QED BY <1>1, <1>4, <1>5, <1>6, <1>7, <1>8, <1>9, <1>10, <1>11, ClientFrame DEF IInv

\* A directory the kernel has open.
LEMMA ClientHere ==
    ASSUME IInv, client.kind = "dir"
    PROVE  /\ client \in [kind : {"dir"}, path : Directories, from : Nat, next : Nat,
                          got : Seq([name : STRING, next : Nat]), eof : BOOLEAN]
           /\ client.path \in Paths /\ client.path \in Existing
           /\ Resolve(client.path) \in File /\ Kind[Resolve(client.path)] = "dir"
           /\ Size[Resolve(client.path)] \in Nat
<1>1. client \in [kind : {"dir"}, path : Directories, from : Nat, next : Nat,
                  got : Seq([name : STRING, next : Nat]), eof : BOOLEAN]
  BY DEF IInv, CallInv, ClientType, NoClient
<1>2. PICK p : p = client.path
  OBVIOUS
<1>3. p \in Paths /\ p \in Existing /\ Resolve(p) # NoInode /\ Kind[Resolve(p)] = "dir"
  BY <1>1, <1>2 DEF Directories, Existing
<1>4. p \in Seq(STRING) /\ Len(p) \in 0 .. Len(p)
  BY <1>3, PathsType
<1>5. Resolve(p) \in File
  BY <1>3, <1>4, ResolveTo
<1> QED BY <1>1, <1>2, <1>3, <1>5, SizeFacts

\* A listing is resumed.
LEMMA ReaddirI ==
    ASSUME IInv, Readdir PROVE IInv'
<1>1. /\ step = "resolved" /\ op = "readdir" /\ inode_dir_ctx_reset(inode_idx, client.next)
      /\ UNCHANGED <<path, inode_idx, room, op, asked, reply, client>>
  BY DEF Readdir, callvars
<1>2. client.kind = "dir" /\ asked = client.path /\ inode_idx = Resolve(asked) /\ path = << >>
  BY <1>1 DEF IInv, CallInv, PathInv
<1>3. inode_idx \in File /\ Kind[inode_idx] = "dir" /\ client.next \in Nat
  BY <1>2, ClientHere
<1>4. file' = inode_idx /\ dctx' = NoCtx /\ pos' = client.next /\ step' = "dentry"
  BY <1>1 DEF inode_dir_ctx_reset
<1>5. PathInv'
  <2>1. asked \in Seq(STRING) /\ Len(asked) \in 0 .. Len(asked)
    BY PathHere
  <2>2. inode_idx = Resolve(SubSeq(asked, 1, Len(asked)))
    BY <2>1, <1>2, ResolveTo
  <2>3. path = SubSeq(asked, Len(asked) + 1, Len(asked))
    BY <2>1, <1>2, PathRest
  <2>4. inode_idx # NoInode
    BY <1>3, TreeAssumption
  <2> QED BY <2>1, <2>2, <2>3, <2>4, <1>1, <1>4 DEF PathInv
<1>6. WalkInv'
  <2>1. /\ ~Searching' /\ Listing' /\ client' = client /\ inode_idx' = inode_idx /\ op' = op
    BY <1>1, <1>2 DEF Searching, Listing
  <2>2. IsPlace(inode_idx, client.next) \/ client.next > Size[inode_idx]
    BY <1>2 DEF IInv, ClientInv
  <2>3. Between(inode_idx, client.next, client.next) = {}
    <3>1. \A x \in Entries(inode_idx) : ~(client.next <= x.at /\ x.at < client.next)
      BY <1>3, EntryType
    <3> QED BY <3>1 DEF Between
  <2> QED BY <2>1, <2>2, <2>3, <1>1, <1>3, <1>4 DEF WalkInv
<1> QED BY <1>1, <1>3, <1>5, <1>6, ResetI

\* The listing at an entry: what is left before it is nothing.
LEMMA ListingHere ==
    ASSUME IInv, HasEntry, Listing
    PROVE  /\ step = "dentry" /\ pc = "idle" /\ op = "readdir" /\ client.kind = "dir"
           /\ file \in File /\ Kind[file] = "dir" /\ file = Resolve(client.path)
           /\ pos \in Nat /\ client.next \in Nat /\ client.next <= pos
           /\ Between(file, client.next, pos) = {}
<1>1. step = "dentry" /\ pc = "idle"
  BY DEF HasEntry, AtEntry
<1>2. /\ file \in File /\ Kind[file] = "dir" /\ pos \in Nat
      /\ client.kind = "dir" /\ file = Resolve(client.path) /\ op = "readdir"
  BY <1>1, WalkHere
<1>3. client.next \in Nat
  BY <1>2, ClientHere
<1>4. client.next <= pos /\ Between(file, client.next, pos) = {}
  BY <1>1 DEF IInv, WalkInv
<1> QED BY <1>1, <1>2, <1>3, <1>4

\* An entry that is not in use is passed over.
LEMMA ListSkipsI ==
    ASSUME IInv, ListSkips PROVE IInv'
<1>1. /\ HasEntry /\ Listing /\ (entry.inode = NoInode \/ entry.name = "")
      /\ pos' = pos + entry.rec_len /\ UNCHANGED vars
      /\ UNCHANGED <<step, path, inode_idx, dctx, room, op, asked, reply, client>>
  BY DEF ListSkips, callvars, Listed, Skipped
<1>2. /\ step = "dentry" /\ pc = "idle" /\ op = "readdir"
      /\ file \in File /\ Kind[file] = "dir"
      /\ pos \in Nat /\ client.next \in Nat /\ client.next <= pos
      /\ Between(file, client.next, pos) = {}
  BY <1>1, ListingHere
<1>3. RInv' /\ TypeOK' /\ AssertsHold' /\ StepInv' /\ file' = file
  BY <1>1, <1>2, QuietI
<1>4. PICK x :
        /\ x.name = entry.name /\ x.inode = entry.inode
        /\ entry.rec_len \in Nat \ {0} /\ IsPlace(file, pos + entry.rec_len)
        /\ \A y \in Entries(file) : pos <= y.at /\ y.at < pos + entry.rec_len => y = x
  BY <1>1, EntryHere, Zenon
<1>5. PICK r \in Nat \ {0} : r = entry.rec_len
  BY <1>4
<1>6. Between(file, client.next, pos + r) = {}
  <2> SUFFICES ASSUME NEW y \in Entries(file), client.next <= y.at, y.at < pos + r PROVE FALSE
    BY DEF Between
  <2>0. file \in File /\ Kind[file] = "dir" /\ pos \in Nat
    BY <1>2
  <2>1. y.at \in Nat /\ y.inode # NoInode /\ y.name # ""
    <3>1. y.name # ""
      BY <2>0, NameAssumption, Zenon
    <3>2. y.at \in Nat /\ y.inode \in File
      BY <2>0, EntryType
    <3> QED BY <3>1, <3>2, TreeAssumption
  <2>2. CASE y.at < pos
    BY <2>2, <1>2 DEF Between
  <2>3. CASE ~(y.at < pos)
    <3>0. PICK a \in Nat, q \in Nat : a = y.at /\ q = pos
      BY <2>0, <2>1
    <3>1. pos <= y.at
      BY ONLY <3>0, <2>3
    <3>2. y = x
      BY <3>1, <1>4, <1>5
    <3> QED BY <3>2, <2>1, <1>1, <1>4
  <2> QED BY <2>2, <2>3
<1>7. pos + r \in Nat /\ client.next <= pos + r
  BY <1>2
<1>8. WalkInv'
  BY <1>1, <1>2, <1>3, <1>4, <1>5, <1>6, <1>7 DEF IInv, WalkInv, Searching, Listing, InFile
<1>9. FsTypeOK'
  BY <1>1, <1>3, <1>5, <1>7 DEF IInv, FsTypeOK
<1>10. PathInv'
  BY <1>1 DEF IInv, PathInv
<1>11. CallInv' /\ LinkRight'
  BY <1>1, <1>2 DEF IInv, CallInv, LinkRight
<1>12. FsAssertsHold'
  BY <1>1, <1>2, <1>3 DEF FsAssertsHold
<1> QED BY <1>1, <1>3, <1>8, <1>9, <1>10, <1>11, <1>12, ClientFrame DEF IInv

\* What a listing from one place to another holds.
ListingOf(d, from, next, got) ==
    /\ got \in Seq([name : STRING, next : Nat])
    /\ Range(got) = {[name |-> y.name, next |-> y.next] : y \in Between(d, from, next)}
    /\ \A i, j \in DOMAIN got : i < j => got[i].next < got[j].next
    /\ \A i \in 1 .. Len(got) : IsPlace(d, got[i].next) /\ got[i].next <= next

\* Entry x, at p and of length r, is the first one from next on.
FirstFrom(d, next, p, r, x) ==
    /\ next <= p /\ Between(d, next, p) = {}
    /\ x \in Entries(d) /\ x.at = p /\ x.next = p + r
    /\ \A y \in Entries(d) : p <= y.at /\ y.at < p + r => y = x
    /\ IsPlace(d, p + r)

\* The listing grows by an entry: what the kernel has stays exact.
LEMMA ListingGrows ==
    ASSUME NEW d \in File, Kind[d] = "dir", NEW from \in Nat, NEW next \in Nat, NEW p \in Nat,
           NEW r \in Nat \ {0}, NEW x, NEW got, from <= next,
           FirstFrom(d, next, p, r, x), ListingOf(d, from, next, got)
    PROVE  ListingOf(d, from, p + r, Append(got, [name |-> x.name, next |-> p + r]))
<1>0. PICK more : more = Append(got, [name |-> x.name, next |-> p + r])
  OBVIOUS
<1> USE DEF FirstFrom, ListingOf
<1> DEFINE G == [name : STRING, next : Nat]
           e == [name |-> x.name, next |-> p + r]
<1>1. e \in G
  BY EntryType
<1>2. PICK n \in Nat : n = Len(got) /\ DOMAIN got = 1 .. n
  BY LenProperties
<1>3. /\ more \in Seq(G) /\ Len(more) = n + 1
      /\ \A i \in 1 .. n : more[i] = got[i]
      /\ more[n + 1] = e
  <2> HIDE DEF e, G
  <2>1. got \in Seq(G) /\ more = Append(got, e)
    BY <1>0 DEF e, G
  <2> QED BY <1>1, <1>2, <2>1, AppendProperties
<1>4. DOMAIN more = 1 .. n + 1
  BY <1>3, LenProperties
<1>5. \A y : y \in Between(d, from, p + r) <=> y \in Between(d, from, next) \/ y = x
  <2> SUFFICES ASSUME NEW y \in Entries(d)
               PROVE  from <= y.at /\ y.at < p + r <=> (from <= y.at /\ y.at < next) \/ y = x
    BY DEF Between
  <2>1. y.at \in Nat
    BY EntryType
  <2>2. CASE y = x
    BY <2>1, <2>2
  <2>3. CASE y # x
    <3>1. ~(p <= y.at /\ y.at < p + r) /\ ~(next <= y.at /\ y.at < p)
      BY <2>3 DEF Between
    <3> QED BY <2>1, <2>3, <3>1
  <2> QED BY <2>2, <2>3
<1>6. Range(more) = {[name |-> y.name, next |-> y.next] : y \in Between(d, from, p + r)}
  <2> DEFINE E(y) == [name |-> y.name, next |-> y.next]
  <2>1. e = E(x)
    OBVIOUS
  <2>2. Range(got) = {got[i] : i \in 1 .. n} /\ Range(more) = {more[i] : i \in 1 .. n + 1}
    BY <1>2, <1>4 DEF Range
  <2>3. \A z : z \in Range(more) <=> z \in Range(got) \/ z = e
    <3> HIDE DEF e
    <3> TAKE z
    <3>1. ASSUME z \in Range(more) PROVE z \in Range(got) \/ z = e
      <4>1. PICK i \in 1 .. n + 1 : z = more[i]
        BY <3>1, <2>2
      <4>2. i \in 1 .. n \/ i = n + 1
        OBVIOUS
      <4> QED BY <4>1, <4>2, <2>2, <1>3
    <3>2. ASSUME z \in Range(got) PROVE z \in Range(more)
      <4>1. PICK i \in 1 .. n : z = got[i]
        BY <3>2, <2>2
      <4>2. i \in 1 .. n + 1 /\ z = more[i]
        BY <4>1, <1>3
      <4> QED BY <4>2, <2>2
    <3>3. e \in Range(more)
      <4>1. n + 1 \in 1 .. n + 1
        OBVIOUS
      <4> QED BY <4>1, <2>2, <1>3
    <3> QED BY <3>1, <3>2, <3>3
  <2>4. Range(got) = {E(y) : y \in Between(d, from, next)}
    OBVIOUS
  <2> HIDE DEF e, E
  <2>5. \A z : z \in {E(y) : y \in Between(d, from, p + r)} <=> z \in Range(got) \/ z = e
    BY <2>1, <2>4, <1>5, Zenon
  <2>6. Range(more) = {E(y) : y \in Between(d, from, p + r)}
    BY <2>3, <2>5, Zenon
  <2> QED BY <2>6 DEF E
<1>7. \A i \in 1 .. n : got[i].next \in Nat
  <2> TAKE i \in 1 .. n
  <2>1. got[i] \in G
    BY <1>2, ElementOfSeq
  <2> QED BY <2>1
<1>8. e.next = p + r /\ p + r \in Nat /\ p < p + r
  OBVIOUS
<1> HIDE DEF e, G
<1>9. ASSUME NEW i \in 1 .. n + 1, NEW j \in 1 .. n + 1, i < j
      PROVE  more[i].next < more[j].next
  <2>1. i \in 1 .. n
    BY <1>9
  <2>2. more[i] = got[i] /\ got[i].next \in Nat /\ got[i].next <= next
    BY <2>1, <1>2, <1>3, <1>7
  <2>3. CASE j = n + 1
    BY <2>2, <2>3, <1>3, <1>8
  <2>4. CASE j # n + 1
    <3>1. j \in 1 .. n
      BY <2>4
    <3> QED BY <3>1, <2>1, <1>2, <1>3, <1>9
  <2> QED BY <2>3, <2>4
<1>10. ASSUME NEW i \in 1 .. n + 1
       PROVE  IsPlace(d, more[i].next) /\ more[i].next <= p + r
  <2>1. CASE i = n + 1
    BY <2>1, <1>3, <1>8
  <2>2. CASE i # n + 1
    <3>1. i \in 1 .. n
      BY <2>2
    <3>2. more[i] = got[i] /\ got[i].next \in Nat /\ got[i].next <= next /\ IsPlace(d, got[i].next)
      BY <3>1, <1>2, <1>3, <1>7
    <3>3. got[i].next <= p + r
      BY <3>2
    <3> QED BY <3>2, <3>3
  <2> QED BY <2>1, <2>2
<1>11. ListingOf(d, from, p + r, more)
  BY <1>3, <1>4, <1>6, <1>9, <1>10 DEF G
<1> QED BY <1>0, <1>11

\* The kernel gets an entry.
LEMMA ListFillsI ==
    ASSUME IInv, ListFills PROVE IInv'
<1>1. /\ HasEntry /\ Listing /\ entry.inode # NoInode /\ room > 0
      /\ pos' = pos + entry.rec_len /\ room' = room - 1 /\ UNCHANGED vars
      /\ client' = [client EXCEPT !.next = pos + entry.rec_len,
                      !.got = Append(@, [name |-> entry.name, next |-> pos + entry.rec_len])]
      /\ UNCHANGED <<op, asked, step, path, inode_idx, dctx>>
  BY DEF ListFills, Listed, NextOf
<1>2. /\ step = "dentry" /\ pc = "idle" /\ op = "readdir" /\ client.kind = "dir"
      /\ file \in File /\ Kind[file] = "dir" /\ file = Resolve(client.path)
      /\ pos \in Nat /\ client.next \in Nat /\ client.next <= pos
      /\ Between(file, client.next, pos) = {}
  BY <1>1, ListingHere
<1>3. RInv' /\ TypeOK' /\ AssertsHold' /\ StepInv' /\ file' = file
  BY <1>1, <1>2, QuietI
<1>4. PICK x :
        /\ x.at = pos /\ x.next = pos + entry.rec_len
        /\ x.name = entry.name /\ x \in Entries(file)
        /\ entry.rec_len \in Nat \ {0} /\ IsPlace(file, pos + entry.rec_len)
        /\ \A y \in Entries(file) : pos <= y.at /\ y.at < pos + entry.rec_len => y = x
  BY <1>1, EntryHere, Zenon
<1>5. PICK r \in Nat \ {0} : r = entry.rec_len
  BY <1>4
<1>6. PICK got, from, next :
        /\ got = client.got /\ got \in Seq([name : STRING, next : Nat])
        /\ from = client.from /\ from \in Nat /\ next = client.next /\ next \in Nat
        /\ client \in [kind : {"dir"}, path : Directories, from : Nat, next : Nat,
                       got : Seq([name : STRING, next : Nat]), eof : BOOLEAN]
  BY <1>2, ClientHere
<1>7. PICK more : more = Append(got, [name |-> x.name, next |-> pos + r])
  OBVIOUS
<1>8. client' = [client EXCEPT !.next = pos + r, !.got = more]
  BY <1>1, <1>4, <1>5, <1>6, <1>7
<1>9. /\ from <= next
      /\ \A i \in 1 .. Len(got) : IsPlace(file, got[i].next) /\ got[i].next <= next
  BY <1>2, <1>6 DEF IInv, ClientInv
<1>10. /\ Range(got) = {[name |-> y.name, next |-> y.next] : y \in Between(file, from, next)}
       /\ \A i, j \in DOMAIN got : i < j => got[i].next < got[j].next
  BY <1>2, <1>6 DEF IInv, ListingExact
<1>11. ListingOf(file, from, pos + r, more)
  <2>1. ListingOf(file, from, next, got)
    BY <1>6, <1>9, <1>10, Zenon DEF ListingOf
  <2>2. FirstFrom(file, next, pos, r, x)
    BY <1>2, <1>4, <1>5, <1>6, Zenon DEF FirstFrom
  <2>3. ListingOf(file, from, pos + r, Append(got, [name |-> x.name, next |-> pos + r]))
    BY ONLY <2>1, <2>2, <1>2, <1>6, <1>9, r \in Nat \ {0}, ListingGrows, Zenon
  <2> QED BY <2>3, <1>7
<1>12. pos + r \in Nat /\ from <= pos + r /\ pos' = pos + r
  BY <1>1, <1>2, <1>5, <1>6, <1>9
<1>13. /\ client' \in [kind : {"dir"}, path : Directories, from : Nat, next : Nat,
                       got : Seq([name : STRING, next : Nat]), eof : BOOLEAN]
       /\ client'.kind = "dir" /\ client'.path = client.path /\ client'.from = from
       /\ client'.next = pos + r /\ client'.got = more /\ client'.eof = client.eof
  BY <1>6, <1>8, <1>11, <1>12 DEF ListingOf
<1>14. client' \in ClientType
  BY <1>13 DEF ClientType
<1>15. ClientInv'
  <2>1. IsPlace(file, client.from) \/ client.from > Size[file]
    BY <1>2 DEF IInv, ClientInv
  <2>2. IsPlace(file, pos + r)
    BY <1>4, <1>5
  <2> QED BY <2>1, <2>2, <1>2, <1>6, <1>11, <1>12, <1>13 DEF ClientInv, ListingOf
<1>16. ListingExact'
  BY <1>2, <1>11, <1>13 DEF ListingExact, ListingOf, Range
<1>17. ListingComplete'
  <2> SUFFICES ASSUME client.eof PROVE Between(file, pos + r, Size[file]) = {}
    BY <1>2, <1>13 DEF ListingComplete
  <2>1. Between(file, next, Size[file]) = {}
    BY <1>2, <1>6 DEF IInv, ListingComplete
  <2>2. \A y \in Entries(file) : pos + r <= y.at => next <= y.at
    BY <1>2, <1>6, EntryType
  <2> QED BY <2>1, <2>2 DEF Between
<1>18. WalkInv'
  <2>1. Between(file, pos + r, pos + r) = {}
    <3>1. \A y \in Entries(file) : ~(pos + r <= y.at /\ y.at < pos + r)
      BY <1>2, <1>12, EntryType
    <3> QED BY <3>1 DEF Between
  <2>2. Listing' /\ ~Searching'
    BY <1>1 DEF Listing, Searching
  <2>3. IsPlace(file, pos + r) /\ pos + r <= pos + r
    BY <1>4, <1>5, <1>12
  <2>4. /\ file = inode_idx
        /\ dctx # NoCtx => dctx.lblock \in InFile(file) /\ dctx.buf = BlockOf[file][dctx.lblock]
    BY <1>2 DEF IInv, WalkInv
  <2> QED BY <2>1, <2>2, <2>3, <2>4, <1>1, <1>2, <1>3, <1>12, <1>13 DEF WalkInv, InFile
<1>19. FsTypeOK'
  <2>1. room' \in 0 .. MaxRoom
    BY <1>1, TreeAssumption DEF IInv, FsTypeOK
  <2> QED BY <2>1, <1>1, <1>3, <1>12, <1>13 DEF IInv, FsTypeOK
<1>20. PathInv'
  BY <1>1 DEF IInv, PathInv
<1>21. CallInv' /\ LinkRight'
  BY <1>1, <1>2, <1>13, <1>14 DEF IInv, CallInv, LinkRight
<1>22. FsAssertsHold'
  BY <1>1, <1>2, <1>3 DEF FsAssertsHold
<1> QED BY <1>3, <1>15, <1>16, <1>17, <1>18, <1>19, <1>20, <1>21, <1>22 DEF IInv

\* FUSE's buffer is full.
LEMMA ListFullI ==
    ASSUME IInv, ListFull PROVE IInv'
<1>1. HasEntry /\ Listing /\ Reply(reply.val) /\ client' = client
  BY DEF ListFull
<1>2. step = "dentry" /\ pc = "idle" /\ op = "readdir" /\ client.kind = "dir"
  BY <1>1, ListingHere
<1>3. LinkRight'
  BY <1>1, <1>2 DEF LinkRight, Reply
<1> QED BY <1>1, <1>2, <1>3, ClientFrame, ReplyI

\* The directory ends: nothing is left of the listing.
LEMMA ListEndsI ==
    ASSUME IInv, ListEnds PROVE IInv'
<1>1. /\ step = "dentry" /\ pc = "idle" /\ pos = Size[file] /\ Listing /\ Reply(reply.val)
      /\ client' = [client EXCEPT !.eof = (reply = NoReply)]
  BY DEF ListEnds, AtEnd
<1>2. client.kind = "dir" /\ file = Resolve(client.path) /\ op = "readdir"
  BY <1>1, WalkHere
<1>3. Between(file, client.next, pos) = {}
  BY <1>1 DEF IInv, WalkInv
<1>4. client \in [kind : {"dir"}, path : Directories, from : Nat, next : Nat,
                  got : Seq([name : STRING, next : Nat]), eof : BOOLEAN]
  BY <1>2, ClientHere
<1>5. PICK b \in BOOLEAN : b = (reply = NoReply)
  OBVIOUS
<1>6. client' = [client EXCEPT !.eof = b]
  BY <1>1, <1>5
<1>7. /\ client' \in [kind : {"dir"}, path : Directories, from : Nat, next : Nat,
                      got : Seq([name : STRING, next : Nat]), eof : BOOLEAN]
      /\ client'.kind = "dir" /\ client'.path = client.path /\ client'.from = client.from
      /\ client'.next = client.next /\ client'.got = client.got
  BY <1>4, <1>6
<1>8. client' \in ClientType
  BY <1>7 DEF ClientType
<1>9. ClientInv'
  BY <1>2, <1>7 DEF IInv, ClientInv
<1>10. ListingExact'
  BY <1>2, <1>7 DEF IInv, ListingExact, Range
<1>11. ListingComplete'
  BY <1>1, <1>2, <1>3, <1>7 DEF ListingComplete
<1>12. LinkRight'
  BY <1>1, <1>2 DEF LinkRight, Reply
<1> QED BY <1>1, <1>2, <1>7, <1>8, <1>9, <1>10, <1>11, <1>12, ReplyI

\* The locals of a call are gone.
LEMMA FsReturnI ==
    ASSUME IInv, FsReturn PROVE IInv'
<1>1. /\ step = "done" /\ step' = "idle" /\ op' = "none" /\ asked' = << >> /\ path' = << >>
      /\ inode_idx' = ROOT /\ pos' = 0 /\ dctx' = NoCtx /\ room' = 0 /\ reply' = NoReply
      /\ UNCHANGED vars /\ client' = client
  BY DEF FsReturn
<1>2. pc = "idle"
  BY <1>1 DEF IInv, StepInv
<1>3. RInv' /\ TypeOK' /\ AssertsHold' /\ StepInv' /\ file' = file
  BY <1>1, <1>2, QuietI
<1>4. /\ << >> \in Seq(STRING) /\ Len(<< >>) = 0 /\ 0 \in 0 .. Len(<< >>)
  BY EmptySeq
<1>5. << >> = SubSeq(<< >>, 0 + 1, Len(<< >>)) /\ IsSuffix(<< >>, << >>)
  BY <1>4, PathRest
<1>6. FsTypeOK'
  BY <1>1, <1>3, <1>5, TreeAssumption DEF IInv, FsTypeOK, NoCtx
<1>7. PathInv'
  BY <1>1, <1>4, <1>5 DEF PathInv
<1>8. WalkInv' /\ LinkRight'
  BY <1>1 DEF WalkInv, LinkRight
<1>9. CallInv'
  BY <1>1 DEF IInv, CallInv
<1>10. FsAssertsHold'
  BY <1>1, <1>3 DEF FsAssertsHold
<1> QED BY <1>1, <1>3, <1>6, <1>7, <1>8, <1>9, <1>10, ClientFrame DEF IInv

\* A lookup begins, some part of the path being cached.
LEMMA BeginI ==
    ASSUME IInv, pc = "idle", NEW p \in Paths,
           NEW o \in {"getattr", "open", "readlink", "readdir"}, Begin(o, p),
           room' \in 0 .. MaxRoom, UNCHANGED vars, client' = client,
           o = "readdir" => client.kind = "dir" /\ p = client.path,
           o = "readlink" => p \in Existing
    PROVE  IInv'
<1>1. /\ op' = o /\ asked' = p /\ step' = "lookup" /\ UNCHANGED <<pos, dctx, reply>>
  BY DEF Begin
<1>2. PICK k \in 0 .. Len(p) :
          /\ Resolve(SubSeq(p, 1, k)) # NoInode /\ inode_idx' = Resolve(SubSeq(p, 1, k))
          /\ path' = SubSeq(p, k + 1, Len(p))
  BY DEF Begin
<1>3. p \in Seq(STRING)
  BY PathsType
<1>4. inode_idx' \in File \cup {NoInode} /\ inode_idx' # NoInode /\ IsSuffix(path', p)
  BY <1>2, <1>3, ResolveTo, PathRest
<1>5. RInv' /\ TypeOK' /\ AssertsHold' /\ StepInv' /\ file' = file
  BY <1>1, QuietI
<1>6. FsTypeOK'
  BY <1>1, <1>4, <1>5 DEF IInv, FsTypeOK
<1>7. PathInv'
  BY <1>1, <1>2, <1>4 DEF PathInv
<1>8. WalkInv' /\ LinkRight'
  BY <1>1 DEF WalkInv, LinkRight
<1>9. CallInv'
  BY <1>1 DEF IInv, CallInv
<1>10. FsAssertsHold'
  BY <1>1, <1>5 DEF FsAssertsHold
<1> QED BY <1>5, <1>6, <1>7, <1>8, <1>9, <1>10, ClientFrame DEF IInv

\* getattr, open and readlink are called.
LEMMA PathCallI ==
    ASSUME IInv, NEW p \in Paths, op_getattr(p) \/ op_open(p) \/ op_readlink(p) PROVE IInv'
<1>1. room \in 0 .. MaxRoom
  BY DEF IInv, FsTypeOK
<1>2. CASE op_getattr(p)
  <2>1. pc = "idle" /\ Begin("getattr", p) /\ UNCHANGED vars /\ room' = room /\ client' = client
    BY <1>2 DEF op_getattr, Free
  <2> QED BY <2>1, <1>1, BeginI
<1>3. CASE op_open(p)
  <2>1. pc = "idle" /\ Begin("open", p) /\ UNCHANGED vars /\ room' = room /\ client' = client
    BY <1>3 DEF op_open, Free
  <2> QED BY <2>1, <1>1, BeginI
<1>4. CASE op_readlink(p)
  <2>1. /\ pc = "idle" /\ Begin("readlink", p) /\ UNCHANGED vars /\ room' = room
        /\ client' = client /\ p \in Existing
    BY <1>4 DEF op_readlink, Free
  <2> QED BY <2>1, <1>1, BeginI
<1> QED BY <1>2, <1>3, <1>4

\* readdir is called.
LEMMA OpReaddirI ==
    ASSUME IInv, NEW n \in 1 .. MaxRoom, op_readdir(n) PROVE IInv'
<1>1. /\ pc = "idle" /\ client.kind = "dir" /\ Begin("readdir", client.path) /\ room' = n
      /\ UNCHANGED vars /\ client' = client
  BY DEF op_readdir, Free
<1>2. client.path \in Paths
  BY <1>1, ClientHere
<1>3. room' \in 0 .. MaxRoom
  BY <1>1, TreeAssumption
<1> QED BY <1>1, <1>2, <1>3, BeginI

\* open is refused before any lookup.
LEMMA OpenRefusedI ==
    ASSUME IInv, OpenRefused PROVE IInv'
<1>1. /\ pc = "idle" /\ op' = "open" /\ step' = "done" /\ UNCHANGED vars
      /\ UNCHANGED <<asked, path, inode_idx, pos, dctx, room, client>>
  BY DEF OpenRefused, Free
<1>2. RInv' /\ TypeOK' /\ AssertsHold' /\ StepInv' /\ file' = file
  BY <1>1, QuietI
<1>3. FsTypeOK'
  BY <1>1, <1>2 DEF IInv, FsTypeOK
<1>4. PathInv'
  BY <1>1 DEF IInv, PathInv
<1>5. WalkInv' /\ LinkRight'
  BY <1>1 DEF WalkInv, LinkRight
<1>6. CallInv'
  BY <1>1 DEF IInv, CallInv
<1>7. FsAssertsHold'
  BY <1>1, <1>2 DEF FsAssertsHold
<1> QED BY <1>1, <1>2, <1>3, <1>4, <1>5, <1>6, <1>7, ClientFrame DEF IInv

\* read is called for an open file.
LEMMA OpReadFhI ==
    ASSUME IInv, NEW r \in Request, op_read_fh(r) PROVE IInv'
<1>1. /\ step = "idle" /\ pc = "idle" /\ op_read(r[1], r[2], r[3])
      /\ UNCHANGED <<op, asked, step, path, inode_idx, pos, dctx, room, reply, client>>
  BY DEF op_read_fh, Free, fsvars
<1>2. RInv'
  BY <1>1, OpReadR DEF IInv
<1>3. Reading'
  <2>1. pc' = "loop" \/ (pc' = "map" /\ for' = "first_read")
    BY <1>1 DEF op_read, GetPblock
  <2> QED BY <2>1 DEF Reading, Mapping
<1>4. StepInv'
  BY <1>1, <1>3 DEF StepInv
<1>5. FsTypeOK'
  BY <1>1, <1>2 DEF IInv, RInv, FsTypeOK
<1>6. PathInv'
  BY <1>1 DEF IInv, PathInv
<1>7. WalkInv' /\ LinkRight'
  BY <1>1 DEF WalkInv, LinkRight
<1>8. CallInv'
  BY <1>1 DEF IInv, CallInv
<1>9. FsAssertsHold'
  BY <1>1, <1>2 DEF RInv, FsAssertsHold
<1> QED BY <1>1, <1>2, <1>4, <1>5, <1>6, <1>7, <1>8, <1>9, ClientFrame DEF IInv

\* Steps of the kernel alone.
LEMMA KernelI ==
    ASSUME IInv, step = "idle", pc = "idle", UNCHANGED vars,
           UNCHANGED <<op, asked, step, path, inode_idx, pos, dctx, room, reply>>,
           client' \in ClientType, ClientInv', ListingExact', ListingComplete'
    PROVE  IInv'
<1>1. RInv' /\ TypeOK' /\ AssertsHold' /\ StepInv' /\ file' = file
  BY QuietI
<1>2. client'.kind \in {"none", "file", "dir"}
  BY DEF ClientType, NoClient
<1>3. FsTypeOK'
  BY <1>1, <1>2 DEF IInv, FsTypeOK
<1>4. PathInv'
  BY DEF IInv, PathInv
<1>5. WalkInv' /\ LinkRight'
  BY DEF WalkInv, LinkRight
<1>6. CallInv'
  BY DEF IInv, CallInv
<1>7. FsAssertsHold'
  BY <1>1 DEF FsAssertsHold
<1> QED BY <1>1, <1>3, <1>4, <1>5, <1>6, <1>7 DEF IInv

\* A listing that begins at a place, with nothing in it.
LEMMA FreshListing ==
    ASSUME NEW p \in Directories, NEW o \in Nat, client'.kind = "dir",
           client' \in [kind : {"dir"}, path : Directories, from : Nat, next : Nat,
                        got : Seq([name : STRING, next : Nat]), eof : BOOLEAN],
           client'.path = p, client'.from = o, client'.next = o, client'.got = << >>,
           client'.eof = FALSE, IsPlace(Resolve(p), o) \/ o > Size[Resolve(p)],
           Resolve(p) \in File, Kind[Resolve(p)] = "dir"
    PROVE  client' \in ClientType /\ ClientInv' /\ ListingExact' /\ ListingComplete'
<1>1. PICK d \in File : d = Resolve(p) /\ Kind[d] = "dir"
  OBVIOUS
<1>2. Len(<< >>) = 0 /\ DOMAIN << >> = {}
  BY EmptySeq
<1>3. client' \in ClientType
  BY DEF ClientType
<1>4. ClientInv'
  BY <1>2 DEF ClientInv
<1>5. Between(d, o, o) = {}
  <2>1. \A x \in Entries(d) : ~(o <= x.at /\ x.at < o)
    BY <1>1, EntryType
  <2> QED BY <2>1 DEF Between
<1>6. ListingExact'
  <2>1. Range(<< >>) = {}
    BY <1>2 DEF Range
  <2>2. {[name |-> x.name, next |-> x.next] : x \in Between(d, o, o)} = {}
    BY <1>5
  <2>3. Range(client.got)' = {}
    BY <2>1 DEF Range
  <2> QED BY <2>2, <2>3, <1>1, <1>2 DEF ListingExact
<1>7. ListingComplete'
  BY DEF ListingComplete
<1> QED BY <1>3, <1>4, <1>6, <1>7

\* A directory is opened.
LEMMA OpendirI ==
    ASSUME IInv, NEW p \in Paths, opendir(p) PROVE IInv'
<1>1. /\ step = "idle" /\ pc = "idle" /\ p \in Directories /\ UNCHANGED vars
      /\ client' = [kind |-> "dir", path |-> p, from |-> 0, next |-> 0,
                    got |-> << >>, eof |-> FALSE]
      /\ UNCHANGED <<op, asked, step, path, inode_idx, pos, dctx, room, reply>>
  BY DEF opendir, Free
<1>2. p \in Seq(STRING) /\ Len(p) \in 0 .. Len(p)
  BY PathsType
<1>3. Resolve(p) \in File /\ Kind[Resolve(p)] = "dir"
  BY <1>1, <1>2, ResolveTo DEF Directories, Existing
<1>4. IsPlace(Resolve(p), 0)
  BY <1>3, PlaceFirst
<1>5. << >> \in Seq([name : STRING, next : Nat])
  BY EmptySeq
<1>6. client' \in [kind : {"dir"}, path : Directories, from : Nat, next : Nat,
                   got : Seq([name : STRING, next : Nat]), eof : BOOLEAN]
  BY <1>1, <1>5
<1>7. /\ client'.kind = "dir" /\ client'.path = p /\ client'.from = 0 /\ client'.next = 0
      /\ client'.got = << >> /\ client'.eof = FALSE
  BY <1>1
<1>8. client' \in ClientType /\ ClientInv' /\ ListingExact' /\ ListingComplete'
  BY <1>1, <1>3, <1>4, <1>6, <1>7, FreshListing
<1> QED BY <1>1, <1>8, KernelI

\* A listing goes to another place.
LEMMA SeekI ==
    ASSUME IInv, step = "idle", pc = "idle", UNCHANGED vars,
           UNCHANGED <<op, asked, step, path, inode_idx, pos, dctx, room, reply>>,
           client.kind = "dir", NEW o \in Nat,
           IsPlace(Resolve(client.path), o) \/ o > Size[Resolve(client.path)],
           client' = [client EXCEPT !.from = o, !.next = o, !.got = << >>, !.eof = FALSE]
    PROVE  IInv'
<1>1. /\ client \in [kind : {"dir"}, path : Directories, from : Nat, next : Nat,
                     got : Seq([name : STRING, next : Nat]), eof : BOOLEAN]
      /\ Resolve(client.path) \in File /\ Kind[Resolve(client.path)] = "dir"
  BY ClientHere
<1>2. << >> \in Seq([name : STRING, next : Nat])
  BY EmptySeq
<1>3. PICK p \in Directories : p = client.path
  BY <1>1
<1>4. client' \in [kind : {"dir"}, path : Directories, from : Nat, next : Nat,
                   got : Seq([name : STRING, next : Nat]), eof : BOOLEAN]
  BY <1>1, <1>2
<1>5. /\ client'.kind = "dir" /\ client'.path = p /\ client'.from = o /\ client'.next = o
      /\ client'.got = << >> /\ client'.eof = FALSE
  BY <1>1, <1>3
<1>6. client' \in ClientType /\ ClientInv' /\ ListingExact' /\ ListingComplete'
  BY <1>1, <1>3, <1>4, <1>5, FreshListing
<1> QED BY <1>6, KernelI

\* Back to a place the reader has been at.
LEMMA SeekdirI ==
    ASSUME IInv, seekdir PROVE IInv'
<1>1. /\ step = "idle" /\ pc = "idle" /\ UNCHANGED vars /\ client.kind = "dir"
      /\ UNCHANGED <<op, asked, step, path, inode_idx, pos, dctx, room, reply>>
  BY DEF seekdir, Free
<1>2. PICK o \in {0, client.from} \cup {client.got[i].next : i \in DOMAIN client.got} :
          client' = [client EXCEPT !.from = o, !.next = o, !.got = << >>, !.eof = FALSE]
  BY DEF seekdir
<1>3. /\ client \in [kind : {"dir"}, path : Directories, from : Nat, next : Nat,
                     got : Seq([name : STRING, next : Nat]), eof : BOOLEAN]
      /\ Resolve(client.path) \in File /\ Kind[Resolve(client.path)] = "dir"
  BY <1>1, ClientHere
<1>4. PICK d : d = Resolve(client.path)
  OBVIOUS
<1>5. o \in Nat /\ (IsPlace(d, o) \/ o > Size[d])
  <2>1. CASE o = 0
    BY <2>1, <1>3, <1>4, PlaceFirst
  <2>2. CASE o = client.from
    BY <2>2, <1>1, <1>3, <1>4 DEF IInv, ClientInv
  <2>3. CASE o \in {client.got[i].next : i \in DOMAIN client.got}
    <3>1. PICK got : got = client.got /\ got \in Seq([name : STRING, next : Nat])
      BY <1>3
    <3>2. DOMAIN got = 1 .. Len(got)
      BY <3>1, LenProperties
    <3>3. PICK i \in 1 .. Len(got) : o = got[i].next
      BY <2>3, <3>1, <3>2
    <3>4. got[i] \in [name : STRING, next : Nat]
      BY <3>1, ElementOfSeq
    <3>5. IsPlace(d, o)
      BY <3>1, <3>3, <1>1, <1>4 DEF IInv, ClientInv
    <3> QED BY <3>3, <3>4, <3>5
  <2> QED BY <2>1, <2>2, <2>3, <1>2
<1> QED BY <1>1, <1>2, <1>4, <1>5, SeekI

\* Beyond the end.
LEMMA LseekI ==
    ASSUME IInv, lseek PROVE IInv'
<1>1. /\ step = "idle" /\ pc = "idle" /\ UNCHANGED vars /\ client.kind = "dir"
      /\ UNCHANGED <<op, asked, step, path, inode_idx, pos, dctx, room, reply>>
  BY DEF lseek, Free
<1>2. PICK o : o = Size[Resolve(client.path)] + 1
  OBVIOUS
<1>3. client' = [client EXCEPT !.from = o, !.next = o, !.got = << >>, !.eof = FALSE]
  BY <1>2 DEF lseek
<1>4. o \in Nat /\ o > Size[Resolve(client.path)]
  BY <1>1, <1>2, ClientHere
<1> QED BY <1>1, <1>3, <1>4, SeekI

\* The file or the directory is closed.
LEMMA CloseI ==
    ASSUME IInv, close PROVE IInv'
<1>1. /\ step = "idle" /\ pc = "idle" /\ UNCHANGED vars /\ client' = NoClient
      /\ UNCHANGED <<op, asked, step, path, inode_idx, pos, dctx, room, reply>>
  BY DEF close, Free
<1>2. client' \in ClientType /\ client'.kind = "none"
  BY <1>1 DEF ClientType, NoClient
<1>3. ClientInv' /\ ListingExact' /\ ListingComplete'
  BY <1>2 DEF ClientInv, ListingExact, ListingComplete
<1> QED BY <1>1, <1>2, <1>3, KernelI

-----------------------------------------------------------------------------
(* The theorem.                                                            *)

\* The greater of two numbers.
LEMMA MaxTwo ==
    ASSUME NEW a \in Int, NEW b \in Int
    PROVE  Max({a, b}) = IF a >= b THEN a ELSE b
<1>1. PICK m \in Int : m = (IF a >= b THEN a ELSE b) /\ m \in {a, b} /\ m >= a /\ m >= b
  OBVIOUS
<1>2. \A x \in {a, b} : x >= a /\ x >= b => x = m
  BY <1>1
<1>3. Max({a, b}) \in {a, b} /\ \A y \in {a, b} : Max({a, b}) >= y
  BY <1>1 DEF Max
<1> QED BY <1>1, <1>2, <1>3

\* The properties that follow from the invariant.
LEMMA InvariantImplies ==
    ASSUME IInv PROVE ReadAll /\ BufferIsBlock /\ LookupExact
<1>1. ReadAll
  <2> SUFFICES ASSUME pc = "done" PROVE ret = Max({0, Min({want, Size[file] - offset})})
    BY DEF ReadAll
  <2>1. ret = size /\ size = truncate_size(file, want, offset)
    BY DEF IInv, RInv, ReadInv, Reading
  <2>2. file \in File /\ offset \in Nat /\ want \in Nat
    BY DEF IInv, RInv, TypeOK
  <2>3. Size[file] \in Nat
    BY <2>2, SizeFacts
  <2>4. Min({want, Size[file] - offset}) =
           IF want <= Size[file] - offset THEN want ELSE Size[file] - offset
    BY <2>2, <2>3, MinTwo
  <2>5. PICK m \in Int : m = Min({want, Size[file] - offset})
    BY <2>2, <2>3, <2>4
  <2>6. Max({0, m}) = IF 0 >= m THEN 0 ELSE m
    BY <2>5, MaxTwo
  <2> QED BY <2>1, <2>2, <2>3, <2>4, <2>5, <2>6 DEF truncate_size
<1>2. BufferIsBlock
  BY EntryHere DEF BufferIsBlock
<1>3. LookupExact
  BY DEF IInv, PathInv, LookupExact
<1> QED BY <1>1, <1>2, <1>3

\* The invariant holds at first.
LEMMA InitI ==
    ASSUME FsInit PROVE IInv
<1>1. /\ pc = "idle" /\ file = ROOT /\ offset = 0 /\ want = 0 /\ size = 0 /\ buf = << >>
      /\ lblock = 0 /\ for = "loop" /\ node = NoNode /\ index = NoIndex
      /\ pblock = 0 /\ extent_len = 1
      /\ op = "none" /\ asked = << >> /\ step = "idle" /\ path = << >>
      /\ inode_idx = ROOT /\ pos = 0 /\ dctx = NoCtx /\ room = 0 /\ client = NoClient
  BY DEF FsInit
<1>2. ret = 0 /\ buf \in Seq(Byte)
  BY <1>1, NoBytes DEF ret
<1>3. ~Mapping /\ ~Reading
  BY <1>1 DEF Mapping, Reading
<1>4. TypeOK
  BY <1>1, <1>2, SizeFacts, TreeAssumption DEF TypeOK, NoNode, NoIndex, Block, Byte
<1>5. RInv
  BY <1>1, <1>2, <1>3, <1>4 DEF RInv, MapInv, ReadInv, ReadSoFar, AssertsHold
<1>6. /\ << >> \in Seq(STRING) /\ Len(<< >>) = 0 /\ 0 \in 0 .. Len(<< >>)
  BY EmptySeq
<1>7. << >> = SubSeq(<< >>, 0 + 1, Len(<< >>)) /\ IsSuffix(<< >>, << >>)
  BY <1>6, PathRest
<1>8. client \in ClientType /\ client.kind = "none"
  BY <1>1 DEF ClientType, NoClient
<1>9. FsTypeOK
  BY <1>1, <1>4, <1>7, <1>8, TreeAssumption DEF FsTypeOK, NoCtx
<1>10. PathInv
  BY <1>1, <1>6, <1>7 DEF PathInv
<1>11. StepInv /\ WalkInv /\ LinkRight /\ FsAssertsHold
  BY <1>1, <1>5 DEF StepInv, WalkInv, LinkRight, FsAssertsHold, RInv
<1>12. CallInv /\ ClientInv /\ ListingExact /\ ListingComplete
  BY <1>1, <1>8 DEF CallInv, ClientInv, ListingExact, ListingComplete
<1> QED BY <1>5, <1>9, <1>10, <1>11, <1>12 DEF IInv

\* Nothing happens.
LEMMA StutterI ==
    ASSUME IInv, UNCHANGED allvars PROVE IInv'
<1>1. /\ UNCHANGED vars
      /\ UNCHANGED <<op, asked, step, path, inode_idx, pos, dctx, room, reply, client>>
  BY DEF allvars, fsvars
<1>2. UNCHANGED <<pc, file, lblock, for>>
  BY <1>1 DEF vars
<1>3. RInv' /\ (Mapping <=> Mapping') /\ (Reading <=> Reading')
  BY <1>1, StutterR DEF IInv
<1>4. StepInv'
  BY <1>1, <1>2, <1>3 DEF IInv, StepInv
<1>5. FsTypeOK'
  BY <1>1, <1>3 DEF IInv, RInv, FsTypeOK
<1>6. PathInv'
  BY <1>1 DEF IInv, PathInv
<1>7. WalkInv'
  BY <1>1, <1>2 DEF IInv, WalkInv, Searching, Listing, InFile
<1>8. CallInv' /\ LinkRight'
  BY <1>1, <1>2, <1>3 DEF IInv, CallInv, LinkRight
<1>9. FsAssertsHold'
  BY <1>1, <1>3 DEF IInv, RInv, FsAssertsHold
<1> QED BY <1>1, <1>3, <1>4, <1>5, <1>6, <1>7, <1>8, <1>9, ClientFrame DEF IInv

\* Every step keeps the invariant.
LEMMA NextI ==
    ASSUME IInv, FsNext PROVE IInv'
<1>1. CASE FsStep
  <2>1. CASE MapStep
    BY <2>1, MapStepI
  <2>2. CASE LookupStep
    BY <2>2, NextNameI, ResolvedI, DirBlockI, NextBlockI, PastEndI, SearchNextI, SearchFoundI,
       SearchFailsI DEF LookupStep
  <2>3. CASE Getattr \/ Open \/ NotLink \/ LinkInInode \/ LinkInBlock \/ LinkBlock
    BY <2>3, GetattrI, OpenI, NotLinkI, LinkInInodeI, LinkInBlockI, LinkBlockI
  <2>4. CASE Readdir \/ ListSkips \/ ListFills \/ ListFull \/ ListEnds \/ FsReturn
    BY <2>4, ReaddirI, ListSkipsI, ListFillsI, ListFullI, ListEndsI, FsReturnI
  <2> QED BY <1>1, <2>1, <2>2, <2>3, <2>4 DEF FsStep
<1>2. CASE \E p \in Paths : op_getattr(p) \/ op_open(p) \/ op_readlink(p) \/ opendir(p)
  BY <1>2, PathCallI, OpendirI
<1>3. CASE OpenRefused
  BY <1>3, OpenRefusedI
<1>4. CASE \E r \in Request : op_read_fh(r)
  BY <1>4, OpReadFhI
<1>5. CASE \E n \in 1 .. MaxRoom : op_readdir(n)
  BY <1>5, OpReaddirI
<1>6. CASE seekdir \/ lseek \/ close
  BY <1>6, SeekdirI, LseekI, CloseI
<1> QED BY <1>1, <1>2, <1>3, <1>4, <1>5, <1>6 DEF FsNext

\* Whatever calls the kernel makes, in whatever order and wherever they are
\* cut off, on every disk that has what the assumptions say: op_read gives
\* the bytes of the file from the offset on, all that were asked for up to
\* its end; entries are taken only from the block they lie in; a lookup comes
\* to the inode its path means; a listing holds exactly the entries in use
\* between where it began and where it is, in order, and is over only when
\* none is left; readlink takes the target from where it is stored; and the
\* ASSERTs fail only where FsAssertsHold says.
THEOREM FileSystemSafe ==
    FsSpec => [](/\ FsTypeOK /\ ReadSoFar /\ ReadAll /\ BufferIsBlock /\ LookupExact
                 /\ FsAssertsHold /\ ListingExact /\ ListingComplete /\ LinkRight)
<1>1. FsInit => IInv
  BY InitI
<1>2. IInv /\ [FsNext]_allvars => IInv'
  BY NextI, StutterI
<1>3. IInv => /\ FsTypeOK /\ ReadSoFar /\ ReadAll /\ BufferIsBlock /\ LookupExact
              /\ FsAssertsHold /\ ListingExact /\ ListingComplete /\ LinkRight
  BY InvariantImplies DEF IInv, RInv
<1> QED BY <1>1, <1>2, <1>3, PTL DEF FsSpec
=============================================================================
