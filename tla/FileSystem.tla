----------------------------- MODULE FileSystem -----------------------------
(***************************************************************************)
(* The operations FUSE calls on a mounted file system (src/fs/ext4), on    *)
(* top of FileRead's block mapping: op_getattr, op_open, op_readlink and   *)
(* op_readdir, each beginning with the lookup of a path, and op_read of a  *)
(* file that op_open has found.  Directories are read block by block into  *)
(* a buffer of one block (struct inode_dir_ctx).                           *)
(*                                                                         *)
(* Every call has locals of its own and the disk never changes, so one     *)
(* call at a time is enough; what threads share is in Dcache and Mount.    *)
(* The dentry cache appears here only as what Dcache promises: any part of *)
(* a path that exists may be known already.  An inode is named by the      *)
(* File it is; that its number leads to it is Mount's ReadRight.           *)
(***************************************************************************)
EXTENDS FileRead, SequencesExt

CONSTANTS
    Kind,       \* of each file: "dir", "file" or "link"
    ROOT,       \* ROOT_INODE_N
    NoInode,    \* inode number 0
    Dentries,   \* of each block of a directory, the entries in it, by offset
    FAST_LINK,  \* 60, the bytes of i_block
    Below,      \* of each block of an extent tree, the file it is part of and
                \* the logical blocks it is for: from one, to before another
    Paths,      \* the paths asked for, as sequences of names
    MaxRoom     \* bound: entries that fit FUSE's buffer for one readdir

DentryType ==
    [inode : File \cup {NoInode}, name : STRING, rec_len : 1 .. BLOCK_SIZE]

ASSUME TreeAssumption ==
    /\ Kind \in [File -> {"dir", "file", "link"}]
    /\ ROOT \in File /\ Kind[ROOT] = "dir" /\ NoInode \notin File
    /\ MaxRoom \in Nat \ {0} /\ FAST_LINK \in Nat
    /\ \A f \in File :
          /\ Kind[f] = "dir" => Size[f] > 0 /\ Size[f] % BLOCK_SIZE = 0
          /\ Kind[f] = "link" => Size[f] > 0 /\ Size[f] < BLOCK_SIZE
    \* Entries fill their block, from its beginning, without gaps.
    /\ \A b \in DOMAIN Dentries : LET d == Dentries[b] IN
          /\ 0 \in DOMAIN d /\ DOMAIN d \subseteq 0 .. BLOCK_SIZE - 1
          /\ \A o \in DOMAIN d :
                /\ d[o] \in DentryType
                /\ o + d[o].rec_len \in DOMAIN d \cup {BLOCK_SIZE}
                /\ \A x \in DOMAIN d : x <= o \/ x >= o + d[o].rec_len

-----------------------------------------------------------------------------
(* What mke2fs and the kernel write: where the trees lead is where BlockOf *)
(* has the blocks.  Left out are the files that README.md lists as known   *)
(* deviations: with a hole before an extent of the same node, or without a *)
(* block of pointers.                                                      *)

ExtentType == [block : Nat, len : Nat \ {0}, start : Nat \ {0}]
IndexType == [block : Nat, leaf : DOMAIN Tree]

InFile(f) == {l \in 0 .. Size[f] : l * BLOCK_SIZE < Size[f]}
InExtent(e, l) == e.block <= l /\ l < e.block + e.len

\* A leaf for the logical blocks from lo to before hi.
SoundLeaf(f, n, lo, hi) ==
    /\ n.entries \in Seq(ExtentType)
    /\ \A i \in 1 .. Len(n.entries) : LET e == n.entries[i] IN
          /\ e.start + e.len <= DiskBlocks
          /\ \A j \in 1 .. i - 1 : n.entries[j].block + n.entries[j].len <= e.block
          /\ \A l \in InFile(f) : InExtent(e, l) => BlockOf[f][l] = e.start + (l - e.block)
    /\ \A l \in InFile(f) : lo <= l /\ l < hi =>
          \/ \E i \in 1 .. Len(n.entries) : InExtent(n.entries[i], l)
          \/ /\ BlockOf[f][l] = 0
             /\ \A i \in 1 .. Len(n.entries) : n.entries[i].block + n.entries[i].len <= l

\* An inner node: each entry is for the blocks up to the next.
SoundInner(f, n, lo, hi) ==
    /\ n.entries \in Seq(IndexType) /\ Len(n.entries) > 0
    /\ n.entries[1].block <= lo
    /\ \A i \in 1 .. Len(n.entries) : LET e == n.entries[i] IN
          /\ Tree[e.leaf].depth = n.depth - 1
          /\ Below[e.leaf] =
                [file |-> f, from |-> e.block,
                 to |-> IF i = Len(n.entries) THEN hi ELSE n.entries[i + 1].block]

SoundNode(f, n, lo, hi) ==
    /\ n.depth \in Nat
    /\ IF n.depth = 0 THEN SoundLeaf(f, n, lo, hi) ELSE SoundInner(f, n, lo, hi)

SoundExtents(f) ==
    /\ SoundNode(f, Root[f], 0, Size[f] + 1)
    /\ \A b \in DOMAIN Tree :
          Below[b].file = f => SoundNode(f, Tree[b], Below[b].from, Below[b].to)

\* The pointers of one, two and three levels follow each other.
SoundPointers(f) ==
    LET At(l, b) == l \in InFile(f) => BlockOf[f][l] = b
        I == 0 .. ADDR - 1
    IN  /\ IBlock[f] \in [0 .. NDIR + 2 -> Block]
        /\ \A i \in 0 .. NDIR - 1 : At(i, IBlock[f][i])
        /\ \A i \in I : At(NDIR + i, Pointers[IBlock[f][NDIR]][i])
        /\ \A i, j \in I : At(NDIR + ADDR + ADDR * i + j,
                             Pointers[Pointers[IBlock[f][NDIR + 1]][i]][j])
        /\ \A i, j, k \in I : At(NDIR + ADDR + ADDR * ADDR + ADDR * ADDR * i + ADDR * j + k,
                             Pointers[Pointers[Pointers[IBlock[f][NDIR + 2]][i]][j]][k])

\* The files whose blocks are asked for.
Mapped ==
    {r[1] : r \in Request} \cup {f \in File : Kind[f] = "dir"}
        \cup {f \in File : Kind[f] = "link" /\ Size[f] > FAST_LINK}

ASSUME BlockAssumption ==
    /\ Pointers \in [Block -> [0 .. ADDR - 1 -> Block]]
    /\ Below \in [DOMAIN Tree -> [file : File, from : Nat, to : Nat]]
    /\ \A f \in Mapped :
          /\ \A l \in InFile(f) : BlockOf[f][l] \in Block
          /\ IF HasExtents[f] THEN SoundExtents(f) ELSE SoundPointers(f)
    /\ \A f \in File : Kind[f] = "dir" =>
          \A l \in InFile(f) : BlockOf[f][l] \in DOMAIN Dentries

\* No read begins inside a hole but at the beginning of a block.
ASSUME RequestAssumption ==
    \A r \in Request :
        r[2] % BLOCK_SIZE # 0 /\ r[3] # 0 /\ r[2] < Size[r[1]]
           => BlockOf[r[1]][r[2] \div BLOCK_SIZE] # 0

-----------------------------------------------------------------------------
(* What the directories mean, whatever order they are read in.             *)

Occurrence(f, l, o) ==
    LET e == Dentries[BlockOf[f][l]][o] at == l * BLOCK_SIZE + o
    IN  [at |-> at, next |-> at + e.rec_len, name |-> e.name, inode |-> e.inode]

\* The entries of directory f that are in use.
Entries(f) ==
    {x \in UNION {{Occurrence(f, l, o) : o \in DOMAIN Dentries[BlockOf[f][l]]} :
                    l \in 0 .. (Size[f] \div BLOCK_SIZE) - 1} : x.inode # NoInode}

Named(f, n) ==
    LET found == {x \in Entries(f) : x.name = n}
    IN  IF Kind[f] # "dir" \/ found = {} THEN NoInode ELSE (CHOOSE x \in found : TRUE).inode

\* The inode at the end of a path.
Resolve(p) ==
    LET To[k \in 0 .. Len(p)] ==
          IF k = 0 THEN ROOT
          ELSE IF To[k - 1] = NoInode THEN NoInode ELSE Named(To[k - 1], p[k])
    IN  To[Len(p)]

\* Names are unique, and the kernel asks for names in directories only.
ASSUME NameAssumption ==
    /\ \A f \in File : Kind[f] = "dir" => \A x, y \in Entries(f) :
          x.name # "" /\ (x.name = y.name => x = y)
    /\ \A p \in Paths :
          /\ p \in Seq(STRING)
          /\ \A k \in 0 .. Len(p) - 1 :
                Resolve(SubSeq(p, 1, k)) # NoInode => Kind[Resolve(SubSeq(p, 1, k))] = "dir"

Existing == {p \in Paths : Resolve(p) # NoInode}
Directories == {p \in Existing : Kind[Resolve(p)] = "dir"}

-----------------------------------------------------------------------------
VARIABLES
    op,         \* the call under way
    asked,      \* its path
    step,       \* where in it the thread is, apart from the block mapping
    path,       \* what is left of the path
    inode_idx,
    pos,        \* offset of the next entry in the directory
    dctx,       \* the buffered block: lblock, and the disk block it holds
    room,       \* how many more entries fit FUSE's buffer
    reply,      \* what the call gives its caller
    client      \* what the kernel holds: nothing, a file or a listing

fsvars == <<op, asked, step, path, inode_idx, pos, dctx, room, reply, client>>
callvars == <<op, asked, reply, client>>
allvars == <<vars, fsvars>>

NoCtx == [lblock |-> -1, buf |-> -1]
InInode == -1     \* i_block, as the place of a link's target
NoReply == [val |-> "none"]
NoClient == [kind |-> "none"]

FsInit ==
    /\ pc = "idle" /\ file = ROOT
    /\ offset = 0 /\ want = 0 /\ size = 0 /\ buf = << >>
    /\ lblock = 0 /\ for = "loop" /\ node = NoNode /\ index = NoIndex
    /\ pblock = 0 /\ extent_len = 1
    /\ op = "none" /\ asked = << >> /\ step = "idle" /\ path = << >>
    /\ inode_idx = ROOT /\ pos = 0 /\ dctx = NoCtx /\ room = 0
    /\ reply = NoReply /\ client = NoClient

Free == step = "idle" /\ pc = "idle"

-----------------------------------------------------------------------------
(* The lookup of a path: inode_get_idx_by_path.                            *)

\* get_cached_inode_num: some part of the path is in the cache, with the
\* inodes the directories have for it.
Begin(o, p) ==
    /\ op' = o /\ asked' = p
    /\ \E k \in 0 .. Len(p) :
          /\ Resolve(SubSeq(p, 1, k)) # NoInode
          /\ inode_idx' = Resolve(SubSeq(p, 1, k))
          /\ path' = SubSeq(p, k + 1, Len(p))
    /\ step' = "lookup"
    /\ UNCHANGED <<pos, dctx, reply>>

\* dir_ctx_update asks for the block it is to read.
dir_ctx_update(l) == GetPblock(l, "dir")

\* A new buffer gets block 0 of the directory; entries are read from o on.
inode_dir_ctx_reset(f, o) ==
    /\ file' = f
    /\ dir_ctx_update(0)
    /\ dctx' = NoCtx
    /\ pos' = o
    /\ step' = "dentry"
    /\ UNCHANGED <<offset, want, size, buf, node, index, pblock>>

\* One turn of the outer loop: the next name, in the directory it has come to.
NextName ==
    /\ step = "lookup" /\ path # << >>
    /\ inode_dir_ctx_reset(inode_idx, 0)
    /\ UNCHANGED <<path, inode_idx, room, callvars>>

\* Nothing is left of the path.
Resolved ==
    /\ step = "lookup" /\ path = << >>
    /\ step' = "resolved"
    /\ UNCHANGED <<vars, path, inode_idx, pos, dctx, room, callvars>>

\* Mutants: the block is read, but not noted; the logical block is read.
BlockNotNoted == [lblock |-> dctx.lblock, buf |-> pblock]
BlockUnmapped == [lblock |-> lblock, buf |-> lblock]

\* The block a mapping has found, in the buffer.
BlockRead == [lblock |-> lblock, buf |-> pblock]

\* disk_read_block of the block found; the locals of the mapping are gone.
disk_read_block ==
    IF OnDisk(pblock * BLOCK_SIZE, BLOCK_SIZE)
    THEN /\ pc' = "idle" /\ node' = NoNode /\ index' = NoIndex /\ pblock' = 0
         /\ lblock' = 0 /\ for' = "loop" /\ extent_len' = 1
         /\ UNCHANGED <<file, offset, want, size, buf>>
    ELSE Abort

\* The rest of dir_ctx_update; then inode_dentry_get looks again.
DirBlock ==
    /\ pc = "mapped" /\ for = "dir"
    /\ disk_read_block
    /\ dctx' = BlockRead
    /\ UNCHANGED <<step, path, inode_idx, pos, room, callvars>>

\* Mutant: whatever block is buffered will do.
BufferedAny(l) == dctx.lblock # NoCtx.lblock
Buffered(l) == dctx.lblock = l

\* inode_dentry_get, in its three outcomes.
AtEntry == step = "dentry" /\ pc = "idle" /\ pos < Size[file]
AtEnd == step = "dentry" /\ pc = "idle" /\ pos = Size[file]
HasEntry == AtEntry /\ Buffered(pos \div BLOCK_SIZE)

NextBlock ==
    /\ AtEntry /\ ~Buffered(pos \div BLOCK_SIZE)
    /\ dir_ctx_update(pos \div BLOCK_SIZE)
    /\ UNCHANGED <<file, offset, want, size, buf, node, index, pblock, fsvars>>

\* ASSERT(inode_size >= un_offset).
PastEnd ==
    /\ step = "dentry" /\ pc = "idle" /\ pos > Size[file]
    /\ step' = "abort"
    /\ UNCHANGED <<vars, path, inode_idx, pos, dctx, room, callvars>>

entry == Dentries[dctx.buf][pos % BLOCK_SIZE]

\* Mutant: an entry that is not in use matches by its old name.
MatchesUnused(e) == e.name = path[1]
Matches(e) == e.inode # NoInode /\ e.name = path[1]

\* There is a name to find, or else a listing to make.
Searching == path # << >>
Listing == path = << >>

SearchNext ==
    /\ HasEntry /\ Searching
    /\ ~Matches(entry)
    /\ pos' = pos + entry.rec_len
    /\ UNCHANGED <<vars, step, path, inode_idx, dctx, room, callvars>>

SearchFound ==
    /\ HasEntry /\ Searching
    /\ Matches(entry)
    /\ inode_idx' = entry.inode
    /\ path' = Tail(path)
    /\ step' = "lookup"
    /\ UNCHANGED <<vars, pos, dctx, room, callvars>>

\* Couldn't find the entry at all.
SearchFails ==
    /\ AtEnd /\ Searching
    /\ inode_idx' = NoInode
    /\ path' = << >>
    /\ step' = "resolved"
    /\ UNCHANGED <<vars, pos, dctx, room, callvars>>

-----------------------------------------------------------------------------
(* The operations.                                                         *)

\* A call returns to FUSE.
Reply(v) ==
    /\ step' = "done" /\ reply' = [val |-> v]
    /\ UNCHANGED <<vars, op, asked, path, inode_idx, pos, dctx, room>>

\* It is over, and its locals are gone.
FsReturn ==
    /\ step = "done"
    /\ step' = "idle" /\ op' = "none" /\ asked' = << >> /\ path' = << >>
    /\ inode_idx' = ROOT /\ pos' = 0 /\ dctx' = NoCtx /\ room' = 0
    /\ reply' = NoReply
    /\ UNCHANGED <<vars, client>>

\* The kernel looks a path up, or asks for what it has looked up before.
op_getattr(p) ==
    /\ Free /\ client = NoClient
    /\ Begin("getattr", p)
    /\ UNCHANGED <<vars, room, client>>

Getattr ==
    /\ step = "resolved" /\ op = "getattr"
    /\ Reply(IF inode_idx = NoInode THEN "ENOENT"
             ELSE <<inode_idx, Kind[inode_idx], Size[inode_idx]>>)
    /\ UNCHANGED client

\* Not for reading only: -EACCES, before any lookup.
OpenRefused ==
    /\ Free /\ client = NoClient
    /\ op' = "open" /\ reply' = [val |-> "EACCES"] /\ step' = "done"
    /\ UNCHANGED <<vars, asked, path, inode_idx, pos, dctx, room, client>>

op_open(p) ==
    /\ Free /\ client = NoClient
    /\ p \in Existing
    /\ Begin("open", p)
    /\ UNCHANGED <<vars, room, client>>

\* fi->fh is the inode.
Open ==
    /\ step = "resolved" /\ op = "open"
    /\ Reply(inode_idx)
    /\ client' = [kind |-> "file", fh |-> inode_idx]

op_read_fh(r) ==
    /\ Free /\ client.kind = "file"
    /\ client.fh = r[1]
    /\ op_read(r[1], r[2], r[3])
    /\ UNCHANGED fsvars

\* A lookup that fails is not noticed, and an inode that was never filled is
\* used; left out, as the kernel asks only for paths it has looked up before.
op_readlink(p) ==
    /\ Free /\ client = NoClient
    /\ p \in Existing
    /\ Begin("readlink", p)
    /\ UNCHANGED <<vars, room, client>>

NotLink ==
    /\ step = "resolved" /\ op = "readlink"
    /\ Kind[inode_idx] # "link"
    /\ Reply("EINVAL")
    /\ UNCHANGED client

\* Mutant: a longer target is taken from the inode.
FitsOneMore(f) == Size[f] <= FAST_LINK + 1

\* Link destination fits in inode.
FitsInode(f) == Size[f] <= FAST_LINK

\* get_link_dest copies i_block, ...
LinkInInode ==
    /\ step = "resolved" /\ op = "readlink"
    /\ Kind[inode_idx] = "link" /\ FitsInode(inode_idx)
    /\ Reply(InInode)
    /\ UNCHANGED client

\* ... or asks for block 0 ...
LinkInBlock ==
    /\ step = "resolved" /\ op = "readlink"
    /\ Kind[inode_idx] = "link" /\ ~FitsInode(inode_idx)
    /\ file' = inode_idx
    /\ GetPblock(0, "link")
    /\ step' = "link"
    /\ UNCHANGED <<offset, want, size, buf, node, index, pblock, path, inode_idx,
                   pos, dctx, room, callvars>>

\* ... and copies that.
LinkBlock ==
    /\ pc = "mapped" /\ for = "link"
    /\ disk_read_block
    /\ step' = "done" /\ reply' = [val |-> pblock]
    /\ UNCHANGED <<op, asked, path, inode_idx, pos, dctx, room, client>>

\* The kernel opens a directory; there is no opendir, so nothing is called.
opendir(p) ==
    /\ Free /\ client = NoClient
    /\ p \in Directories
    /\ client' = [kind |-> "dir", path |-> p, from |-> 0, next |-> 0,
                  got |-> << >>, eof |-> FALSE]
    /\ UNCHANGED <<vars, op, asked, step, path, inode_idx, pos, dctx, room, reply>>

\* Its reader goes back to a place it has been at (rewinddir, seekdir).
seekdir ==
    /\ Free /\ client.kind = "dir"
    /\ \E o \in {0, client.from} \cup {client.got[i].next : i \in DOMAIN client.got} :
          client' = [client EXCEPT !.from = o, !.next = o, !.got = << >>, !.eof = FALSE]
    /\ UNCHANGED <<vars, op, asked, step, path, inode_idx, pos, dctx, room, reply>>

\* lseek takes any offset; this one is beyond the directory.
lseek ==
    /\ Free /\ client.kind = "dir"
    /\ LET o == Size[Resolve(client.path)] + 1
       IN  client' = [client EXCEPT !.from = o, !.next = o, !.got = << >>, !.eof = FALSE]
    /\ UNCHANGED <<vars, op, asked, step, path, inode_idx, pos, dctx, room, reply>>

\* release and releasedir: nothing is called.
close ==
    /\ Free /\ client # NoClient
    /\ client' = NoClient
    /\ UNCHANGED <<vars, op, asked, step, path, inode_idx, pos, dctx, room, reply>>

\* The next part of the listing, from where the last one ended.
op_readdir(n) ==
    /\ Free /\ client.kind = "dir" /\ ~client.eof
    /\ Begin("readdir", client.path)
    /\ room' = n
    /\ UNCHANGED <<vars, client>>

\* The directory is found, and its entries are read from the offset on.
Readdir ==
    /\ step = "resolved" /\ op = "readdir"
    /\ inode_dir_ctx_reset(inode_idx, client.next)
    /\ UNCHANGED <<path, inode_idx, room, callvars>>

\* Mutants: the offset given with an entry is its own; an entry not in use
\* ends the listing.
NextOfEntry(e) == pos
SkippedRest(e) == Size[file]

\* An entry that the filler is called for, the offset given with it, and the
\* offset after one that is passed over.
Listed(e) == e.inode # NoInode /\ e.name # ""
NextOf(e) == pos + e.rec_len
Skipped(e) == pos + e.rec_len

ListSkips ==
    /\ HasEntry /\ Listing
    /\ ~Listed(entry)
    /\ pos' = Skipped(entry)
    /\ UNCHANGED <<vars, step, path, inode_idx, dctx, room, callvars>>

\* filler takes the entry, and the kernel has it with its offset.
ListFills ==
    /\ HasEntry /\ Listing
    /\ Listed(entry) /\ room > 0
    /\ pos' = pos + entry.rec_len
    /\ room' = room - 1
    /\ client' = [client EXCEPT !.next = NextOf(entry),
                    !.got = Append(@, [name |-> entry.name, next |-> NextOf(entry)])]
    /\ reply' = [val |-> "filled"]
    /\ UNCHANGED <<vars, op, asked, step, path, inode_idx, dctx>>

\* filler has no room for it: the call ends.
ListFull ==
    /\ HasEntry /\ Listing
    /\ Listed(entry) /\ room = 0
    /\ Reply(reply.val)
    /\ UNCHANGED client

\* The directory ends.  A call that has filled in nothing tells the kernel
\* that the listing is over.
ListEnds ==
    /\ AtEnd /\ Listing
    /\ Reply(reply.val)
    /\ client' = [client EXCEPT !.eof = (reply = NoReply)]

-----------------------------------------------------------------------------
\* The steps of FileRead, which belong to op_read or map a block.
MapStep == Step /\ UNCHANGED fsvars

LookupStep ==
    \/ NextName \/ Resolved \/ DirBlock \/ NextBlock \/ PastEnd
    \/ SearchNext \/ SearchFound \/ SearchFails

FsStep ==
    \/ MapStep \/ LookupStep
    \/ Getattr \/ Open \/ NotLink \/ LinkInInode \/ LinkInBlock \/ LinkBlock
    \/ Readdir \/ ListSkips \/ ListFills \/ ListFull \/ ListEnds
    \/ FsReturn

FsNext ==
    \/ FsStep
    \/ \E p \in Paths : op_getattr(p) \/ op_open(p) \/ op_readlink(p) \/ opendir(p)
    \/ OpenRefused
    \/ \E r \in Request : op_read_fh(r)
    \/ \E n \in 1 .. MaxRoom : op_readdir(n)
    \/ seekdir \/ lseek \/ close

FsSpec == FsInit /\ [][FsNext]_allvars

\* A thread in an operation goes on; what the kernel asks for is up to it.
FsFairSpec == FsSpec /\ WF_allvars(FsStep)

-----------------------------------------------------------------------------
(* Properties.                                                             *)

\* Every variable has its type, and what is left of a path is its end.
FsTypeOK ==
    /\ TypeOK
    /\ op \in {"none", "getattr", "open", "readlink", "readdir"}
    /\ step \in {"idle", "lookup", "dentry", "resolved", "link", "done", "abort"}
    /\ asked \in Paths \cup {<< >>} /\ IsSuffix(path, asked)
    /\ inode_idx \in File \cup {NoInode}
    /\ pos \in Nat
    /\ dctx.lblock \in Nat \cup {-1} /\ dctx.buf \in DOMAIN Dentries \cup {-1}
    /\ room \in 0 .. MaxRoom
    /\ client.kind \in {"none", "file", "dir"}

\* Entries are only taken from a buffer that holds the block they lie in,
\* however the walk has gone from block to block.
BufferIsBlock ==
    HasEntry => dctx.buf = BlockOf[file][pos \div BLOCK_SIZE]
                /\ pos % BLOCK_SIZE \in DOMAIN Dentries[dctx.buf]

\* A lookup comes to the inode the path means, or to none if there is none:
\* what Dcache takes for granted of the search on disk.
LookupExact == step = "resolved" => inode_idx = Resolve(asked)

\* The ASSERT of inode_dentry_get fails only if a listing is resumed beyond
\* the end of the directory, an offset op_readdir has never given: walks come
\* to the end exactly.  Those of the block mapping fail only for a corrupt file.
FsAssertsHold ==
    /\ AssertsHold
    /\ step = "abort" => client.kind = "dir" /\ client.from > Size[Resolve(client.path)]

\* The listing the kernel has is exactly the entries in use between where it
\* began and where it is, each once and in order, over all the calls it took
\* and wherever they were cut off.
Between(d, a, b) == {x \in Entries(d) : a <= x.at /\ x.at < b}
ListingExact ==
    client.kind = "dir" =>
        /\ Range(client.got) = {[name |-> x.name, next |-> x.next] :
                x \in Between(Resolve(client.path), client.from, client.next)}
        /\ \A i, j \in DOMAIN client.got : i < j => client.got[i].next < client.got[j].next

\* The kernel is told that a listing is over only when nothing is left of it.
ListingComplete ==
    client.kind = "dir" /\ client.eof =>
        Between(Resolve(client.path), client.next, Size[Resolve(client.path)]) = {}

\* readlink gives the target from where the kernel stores it: in the inode
\* if it and its terminator fit there, else in a block.  Targets of exactly
\* 60 bytes, which op_readlink takes from the inode, are left out.
LinkRight ==
    step = "done" /\ op = "readlink" /\ Kind[Resolve(asked)] = "link" =>
        LET f == Resolve(asked)
        IN  Size[f] # FAST_LINK =>
               reply.val = IF Size[f] < FAST_LINK THEN InInode ELSE BlockOf[f][0]

\* Every operation returns, or its ASSERT ends the process.
CallsEnd == step = "lookup" \/ pc = "loop" ~> Free \/ "abort" \in {step, pc}
=============================================================================
