----------------------------- MODULE GzipReader -----------------------------
(***************************************************************************)
(* The gzip reader (src/compression/gzip/gzip_reader.c): an index of       *)
(* access points into one deflate stream, built as far as reads need it    *)
(* and resumed from its last point, and reads that restart decompression   *)
(* at an access point.  As built into spotlight, with NDEBUG.              *)
(*                                                                         *)
(* The stream is given by constants: where its blocks end, how many bits   *)
(* of the file each byte and each block takes, and how far back each byte  *)
(* refers.  Byte a of the image has the value a; a byte decompressed with  *)
(* the wrong window is Wrong.  zlib is external: inflate is what its       *)
(* documentation promises for Z_BLOCK and Z_NO_FLUSH.                      *)
(***************************************************************************)
EXTENDS Integers, Sequences

CONSTANTS
    SPAN, WINDOW_SIZE,
    Total,      \* bytes of the image
    NumBlocks,  \* deflate blocks; block 0 stands for the gzip header
    End,        \* raw address at which each block ends
    EndBit,     \* bit of the file at which each block ends
    ByteBit,    \* bit of the file that must be read to have n bytes
    MaxLen,     \* bound: longest read
    Instances   \* the situations considered, one of which is chosen at first

\* What an instance says: the size of the input buffer; how far back each
\* byte refers, 0 for a literal; the bytes of the file, fewer than the stream
\* if it is truncated; and what may fail.
InstanceType ==
    [chunk : Nat \ {0}, dist : [0 .. Total - 1 -> 0 .. WINDOW_SIZE],
     size : Nat, faults : SUBSET {"io", "data", "mem"}]

ASSUME StreamAssumption ==
    /\ SPAN \in Nat /\ WINDOW_SIZE \in Nat \ {0}
    /\ WINDOW_SIZE <= SPAN
    /\ Total \in Nat /\ NumBlocks \in Nat \ {0}
    /\ End \in [0 .. NumBlocks -> 0 .. Total]
    /\ End[0] = 0 /\ End[NumBlocks] = Total
    /\ EndBit \in [0 .. NumBlocks -> Nat]
    /\ ByteBit \in [0 .. Total -> Nat]
    /\ \A k \in 1 .. NumBlocks :
          /\ End[k - 1] <= End[k]
          /\ EndBit[k - 1] < EndBit[k]
          /\ \A n \in End[k - 1] + 1 .. End[k] :
                EndBit[k - 1] < ByteBit[n] /\ ByteBit[n] <= EndBit[k]
    /\ \A n \in 1 .. Total : ByteBit[n - 1] <= ByteBit[n]
    /\ MaxLen \in Nat
    /\ \A i \in Instances : /\ i \in InstanceType
                            /\ \A n \in 0 .. Total - 1 : i.dist[n] <= n

INDEXER_ERROR == -1
Unset == -1
Wrong == -2

VARIABLES
    inst,    \* the instance, which never changes
    list,    \* the access points, in the order they were appended
    pc,
    req,     \* offset and length of the read under way or last done
    z,       \* the inflate state: raw address, block, bits read, input left,
             \* and room in the output buffer (avail_out)
    fp,      \* position in the file
    context, \* build_index's window; each cell the byte it holds
    dict,    \* raw address and window the decompression started from
    skip,    \* bytes _gzip_read still has to skip
    out,     \* the caller's buffer
    ret

vars == <<inst, list, pc, req, z, fp, context, dict, skip, out, ret>>

CHUNK == inst.chunk
Dist == inst.dist
FileSize == inst.size
Faults == inst.faults

Pcs == {"closed", "idle", "chunk", "inflate", "search", "read", "dead"}

last == list[Len(list)]

\* max_byte_address of the read under way.
max_byte_address == req.offset + req.length

NoContext == [i \in 0 .. WINDOW_SIZE - 1 |-> Wrong]
NoDict == [raw |-> 0, context |-> NoContext]
NoStream == [raw |-> 0, block |-> 0, in |-> 0, out |-> 0]
EmptyBuffer == [i \in 0 .. MaxLen - 1 |-> Unset]

Init ==
    /\ inst \in Instances
    /\ list = <<>>
    /\ pc = "closed"
    /\ req = [offset |-> 0, length |-> 0]
    /\ z = NoStream
    /\ fp = 0
    /\ context = NoContext
    /\ dict = NoDict
    /\ skip = 0
    /\ out = EmptyBuffer
    /\ ret = 0

-----------------------------------------------------------------------------
(* zlib.                                                                   *)

\* The byte decompression yields for address x when it started from d: a
\* literal always, a reference only if what it refers to is right.
Decoded(d) ==
    LET Value[x \in 0 .. Total - 1] ==
          IF x < d.raw
          THEN IF d.raw - x <= WINDOW_SIZE THEN d.context[WINDOW_SIZE - (d.raw - x)]
                                           ELSE Wrong
          ELSE IF Dist[x] = 0 \/ Value[x - Dist[x]] = x - Dist[x] THEN x ELSE Wrong
    IN  Value

\* How many bytes of the image the first n bytes of the file can yield.
Reach(n) == CHOOSE r \in 0 .. Total :
    /\ ByteBit[r] <= 8 * n \/ r = 0
    /\ r < Total => ByteBit[r + 1] > 8 * n

\* Whole bytes that hold the first n bits.
Bytes(n) == (n + 7) \div 8

Least(a, b) == IF a < b THEN a ELSE b

\* inflate(Z_BLOCK) in state s with the file up to `fp' at hand: to the end
\* of the block, of the output room, or of the input.
InflateBlock(s) ==
    LET next == s.block + 1
        had == IF Reach(fp) < s.raw THEN s.raw ELSE Reach(fp)
        r == Least(Least(s.raw + s.out, End[next]), had)
        ends == r = End[next] /\ EndBit[next] <= 8 * fp
        full == r = s.raw + s.out
    IN  [raw   |-> r,
         block |-> IF ends THEN next ELSE s.block,
         in    |-> IF ends THEN fp - Bytes(EndBit[next])
                   ELSE IF full THEN fp - Bytes(ByteBit[r]) ELSE 0,
         out   |-> s.out - (r - s.raw)]

-----------------------------------------------------------------------------
(* Access points.                                                          *)

\* Mutants: the bits of the last byte that were read, not those left; eight
\* bits left of a byte that ends with the block.
BitsRead(k) == EndBit[k] % 8
BitsToNextByte(k) == 8 - (EndBit[k] % 8)

\* Where a block ends: the first whole byte after it, and the bits of the
\* byte before that still belong to what follows.
compressed_byte_address(k) == Bytes(EndBit[k])
bits(k) == 8 * Bytes(EndBit[k]) - EndBit[k]

\* Mutant: the window is copied as it lies.
PointUnrotated(raw, k, left, ctx) ==
    [raw |-> raw, comp |-> compressed_byte_address(k), bits |-> bits(k),
     context |-> ctx]

\* create_access_point_entry: the window is copied in the order written,
\* `left' bytes from the place the next byte would go to.
create_access_point_entry(raw, k, left, ctx) ==
    [raw |-> raw, comp |-> compressed_byte_address(k), bits |-> bits(k),
     context |-> [i \in 0 .. WINDOW_SIZE - 1 |->
                    IF i < left THEN ctx[WINDOW_SIZE - left + i] ELSE ctx[i - left]]]

\* The bit decompression restarts at: seek to the byte before if some of
\* its bits are needed, and prime inflate with them.
RestartBit(e) ==
    IF e.bits > 0 THEN 8 * (e.comp - 1) + (8 - e.bits) ELSE 8 * e.comp

\* The block that ends at that bit, if any.
BlocksAt(bit) == {k \in 0 .. NumBlocks : EndBit[k] = bit}

-----------------------------------------------------------------------------
(* gzip_reader_alloc, gzip_read and check_and_build_index.                 *)

\* compression_reader_alloc has rewound the file.
gzip_reader_alloc ==
    /\ pc = "closed"
    /\ pc' = "idle"
    /\ list' = <<>>
    /\ fp' = 0
    /\ UNCHANGED <<req, z, context, dict, skip, out, ret>>

\* The index reaches far enough: no need to build.
Indexed(max) == Len(list) > 0 /\ last.raw + SPAN > max

\* What build_index returns is ignored: the read goes on with what there is.
\* Once there is a point the file is sought again before every use, so that
\* where the build has left it does not matter.
BuildEnds ==
    /\ pc' = "search"
    /\ z' = NoStream /\ context' = NoContext /\ dict' = NoDict
    /\ fp' = IF Len(list') = 0 THEN fp ELSE 0

\* build_index resumes from the last point, or, without one, reads on where
\* the file is: at its beginning, or where an earlier build has failed, and
\* there is no gzip header there.  Its window is an uninitialised array.
StartBuild ==
    IF Len(list) = 0 /\ fp # 0 THEN BuildEnds
    ELSE /\ context' = NoContext
         /\ IF Len(list) = 0
            THEN /\ z' = [raw |-> 0, block |-> -1, in |-> 0, out |-> 0]
                 /\ UNCHANGED fp
                 /\ dict' = NoDict
            ELSE \E k \in BlocksAt(RestartBit(last)) :
                 /\ z' = [raw |-> last.raw, block |-> k, in |-> 0, out |-> 0]
                 /\ fp' = last.comp
                 /\ dict' = [raw |-> last.raw, context |-> last.context]
         /\ pc' = "chunk"

gzip_read(o, n) ==
    /\ pc = "idle"
    /\ req' = [offset |-> o, length |-> n]
    /\ out' = EmptyBuffer
    /\ ret' = 0
    /\ UNCHANGED <<list, skip>>
    /\ IF Indexed(o + n)
       THEN pc' = "search" /\ UNCHANGED <<z, fp, context, dict>>
       ELSE StartBuild

-----------------------------------------------------------------------------
(* index_next_chunk.                                                       *)

\* fread: a chunk of the file; the output starts at the head of the window.
ReadChunk ==
    /\ pc = "chunk"
    /\ fp < FileSize
    /\ LET n == Least(CHUNK, FileSize - fp)
       IN  z' = [z EXCEPT !.in = n, !.out = 0] /\ fp' = fp + n
    /\ pc' = "inflate"
    /\ UNCHANGED <<list, req, context, dict, skip, out, ret>>

\* The file has ended (Z_DATA_ERROR) or cannot be read (Z_ERRNO), here or
\* while build_index seeks to the last point and primes inflate.
ReadChunkFails ==
    /\ pc = "chunk"
    /\ fp = FileSize \/ "io" \in Faults
    /\ UNCHANGED <<list, req, skip, out, ret>>
    /\ BuildEnds

\* What inflate wrote on its way from state old to state new.
Written(old, new) ==
    LET first == WINDOW_SIZE - old.out
        value == Decoded(dict)
    IN  [c \in 0 .. WINDOW_SIZE - 1 |->
            IF first <= c /\ c < WINDOW_SIZE - new.out
            THEN value[old.raw + (c - first)] ELSE context[c]]

\* Mutant: points twice as far apart.
PointEveryOther(old, new) ==
    /\ new.block > old.block /\ new.block < NumBlocks
    /\ new.raw > 0 => new.raw - last.raw > 2 * SPAN

\* At the end of a block that is not the last, and far enough from the last
\* access point.
PointDue(old, new) ==
    /\ new.block > old.block /\ new.block < NumBlocks
    /\ new.raw > 0 => new.raw - last.raw > SPAN

\* Mutant: no room is ever made.
RoomNever(s) == s

\* The window is full: writing starts again at its head.
Room(s) == IF s.out = 0 THEN [s EXCEPT !.out = WINDOW_SIZE] ELSE s

\* Mutant: one chunk is taken to be enough.
OneChunkOnly(new, ctx) == BuildEnds

\* index_next_chunk returns; build_index reads on or has what it needs.
ChunkEnds(new, ctx) ==
    IF max_byte_address < new.raw + SPAN THEN BuildEnds
    ELSE pc' = "chunk" /\ z' = new /\ context' = ctx /\ UNCHANGED <<fp, dict>>

\* One turn of the loop of index_next_chunk.
Inflate ==
    /\ pc = "inflate"
    /\ z.block < NumBlocks
    /\ LET old == Room(z)
           new == InflateBlock(old)
           ctx == Written(old, new)
           due == PointDue(old, new)
       IN  /\ list' = IF due
                      THEN Append(list, create_access_point_entry(
                                           new.raw, new.block, new.out, ctx))
                      ELSE list
           /\ IF new.in = 0 \/ (due /\ max_byte_address < new.raw + SPAN)
              THEN ChunkEnds(new, ctx)
              ELSE pc' = pc /\ z' = new /\ context' = ctx /\ UNCHANGED <<fp, dict>>
    /\ UNCHANGED <<req, skip, out, ret>>

\* malloc fails in create_access_point_entry, whose assert does nothing with
\* NDEBUG: the fields of the new entry are stored through NULL.
PointCrash ==
    /\ pc = "inflate"
    /\ z.block < NumBlocks
    /\ "mem" \in Faults
    /\ PointDue(Room(z), InflateBlock(Room(z)))
    /\ pc' = "dead"
    /\ UNCHANGED <<list, req, z, fp, context, dict, skip, out, ret>>

\* Z_STREAM_END: the chunk is done, and Z_OK is returned all the same.
StreamEnd ==
    /\ pc = "inflate"
    /\ z.block = NumBlocks
    /\ UNCHANGED <<list, req, skip, out, ret>>
    /\ ChunkEnds(z, context)

\* Z_DATA_ERROR, Z_MEM_ERROR or Z_NEED_DICT: build_index gives up.
InflateFails ==
    /\ pc = "inflate"
    /\ "data" \in Faults
    /\ UNCHANGED <<list, req, skip, out, ret>>
    /\ BuildEnds

-----------------------------------------------------------------------------
(* _gzip_read.                                                             *)

Return(v) ==
    /\ pc' = "idle"
    /\ ret' = v
    /\ z' = NoStream /\ dict' = NoDict /\ skip' = 0

\* Nothing was asked for.
ReadNothing ==
    /\ pc = "search"
    /\ req.length = 0
    /\ Return(0)
    /\ UNCHANGED <<list, req, fp, context, out>>

\* The linear search: on as long as the next point is below the offset.
Passed(i) == \A j \in 2 .. i : list[j].raw < req.offset
Found == CHOOSE i \in 1 .. Len(list) :
            Passed(i) /\ (i < Len(list) => ~Passed(i + 1))

\* The list is empty: current->next is read through NULL.
SearchCrash ==
    /\ pc = "search"
    /\ req.length > 0
    /\ Len(list) = 0
    /\ pc' = "dead"
    /\ UNCHANGED <<list, req, z, fp, context, dict, skip, out, ret>>

Search ==
    /\ pc = "search"
    /\ req.length > 0
    /\ Len(list) > 0
    /\ LET e == list[Found]
       IN  /\ \E k \in BlocksAt(RestartBit(e)) :
                 z' = [raw |-> e.raw, block |-> k, in |-> 0, out |-> 0]
           /\ dict' = [raw |-> e.raw, context |-> e.context]
           /\ skip' = req.offset - e.raw
    /\ pc' = "read"
    /\ UNCHANGED <<list, req, fp, context, out, ret>>

\* The bytes the file still yields, up to n.
Available(n) ==
    LET end == IF Reach(FileSize) < z.raw THEN z.raw ELSE Reach(FileSize)
    IN  Least(n, end - z.raw)

\* The stream has ended (Z_STREAM_END, which gzip_read takes for success), or
\* the file ends before it (Z_DATA_ERROR).
Exhausted ==
    Return(IF Reach(FileSize) = Total /\ EndBit[NumBlocks] <= 8 * FileSize
           THEN req.length ELSE INDEXER_ERROR)

\* One turn of the loop of _gzip_read while it skips.
Skip ==
    /\ pc = "read"
    /\ skip > 0
    /\ LET n == Least(skip, WINDOW_SIZE)
       IN  IF Available(n) = n
           THEN /\ z' = [z EXCEPT !.raw = @ + n]
                /\ skip' = skip - n
                /\ UNCHANGED <<pc, dict, ret>>
           ELSE Exhausted
    /\ UNCHANGED <<list, req, fp, context, out>>

\* Its last turn: into the caller's buffer.
Deliver ==
    /\ pc = "read"
    /\ skip = 0
    /\ LET n == Available(req.length)
       IN  /\ out' = [i \in 0 .. MaxLen - 1 |->
                         IF i < n THEN Decoded(dict)[z.raw + i] ELSE out[i]]
           /\ IF n = req.length THEN Return(req.length) ELSE Exhausted
    /\ UNCHANGED <<list, req, fp, context>>

\* fseeko, getc, fread or inflate fails.
ReadFails ==
    /\ pc = "read"
    /\ Faults # {}
    /\ Return(INDEXER_ERROR)
    /\ UNCHANGED <<list, req, fp, context, out>>

\* free_access_point_list reads through the first entry: there must be one.
gzip_reader_free ==
    /\ pc = "idle"
    /\ pc' = IF Len(list) = 0 THEN "dead" ELSE "closed"
    /\ list' = <<>>
    /\ UNCHANGED <<req, z, fp, context, dict, skip, out, ret>>

-----------------------------------------------------------------------------
Step ==
    \/ ReadChunk \/ ReadChunkFails \/ Inflate \/ StreamEnd \/ InflateFails
    \/ ReadNothing \/ SearchCrash \/ Search
    \/ Skip \/ Deliver \/ ReadFails

Next ==
    /\ \/ gzip_reader_alloc
       \/ \E o \in 0 .. Total + 1, n \in 0 .. MaxLen : gzip_read(o, n)
       \/ gzip_reader_free
       \/ Step \/ PointCrash
    /\ UNCHANGED inst

Spec == Init /\ [][Next]_vars

\* A read runs until it returns.
FairSpec == Spec /\ WF_vars(Step /\ UNCHANGED inst)

-----------------------------------------------------------------------------
(* Properties.                                                             *)

Cell == {Wrong} \cup 0 .. Total - 1
EntryType ==
    [raw : 0 .. Total, comp : Nat, bits : 0 .. 7,
     context : [0 .. WINDOW_SIZE - 1 -> Cell]]

\* Every variable has its type: inflate's room never exceeds the window and
\* a point's bits are those of one byte.
TypeOK ==
    /\ inst \in Instances
    /\ list \in Seq(EntryType)
    /\ pc \in Pcs
    /\ req \in [offset : Nat, length : 0 .. MaxLen]
    /\ z \in [raw : 0 .. Total, block : -1 .. NumBlocks, in : Nat,
              out : 0 .. WINDOW_SIZE]
    /\ fp \in 0 .. FileSize
    /\ context \in [0 .. WINDOW_SIZE - 1 -> Cell]
    /\ dict \in [raw : 0 .. Total, context : [0 .. WINDOW_SIZE - 1 -> Cell]]
    /\ skip \in Nat
    /\ out \in [0 .. MaxLen - 1 -> Cell \cup {Unset}]
    /\ ret \in {INDEXER_ERROR} \cup 0 .. MaxLen

\* Every access point is the end of a block before the last, and seeking to
\* it and priming inflate with its bits restarts exactly there.
PointsRestart ==
    \A i \in 1 .. Len(list) : \E k \in 0 .. NumBlocks - 1 :
        RestartBit(list[i]) = EndBit[k] /\ list[i].raw = End[k]

\* Whichever reads built the index, in however many pieces, it is what a build
\* in one go would have so far.  It starts at the beginning of the image and
\* goes up in steps of more than SPAN (only empty first blocks give several
\* points at 0), and no block end between two points was passed over.
IndexAsInOnePass ==
    \A i \in 1 .. Len(list) :
        /\ IF i = 1 THEN list[i].raw = 0
           ELSE list[i].raw = 0 \/ list[i].raw - list[i - 1].raw > SPAN
        /\ i > 1 => \A k \in 1 .. NumBlocks - 1 :
              End[k] > 0 /\ End[k] < list[i].raw => End[k] <= list[i - 1].raw + SPAN

\* The stream is there, and some of the trailer after it.
Whole == Bytes(EndBit[NumBlocks]) < FileSize

\* A read of a file that is whole never decompresses much more than it has
\* to: the point it starts from is at most two spans and a block before the
\* offset.
LongestBlock == CHOOSE n \in 0 .. Total :
    /\ \A k \in 1 .. NumBlocks : End[k] - End[k - 1] <= n
    /\ \E k \in 1 .. NumBlocks : End[k] - End[k - 1] = n
SkipBounded ==
    pc = "read" /\ Faults = {} /\ Whole /\ req.offset <= Total
       => skip <= 2 * SPAN + LongestBlock

\* A read of bytes of the image that reports success has them all, and they
\* are right.
ReadCorrect ==
    pc = "idle" /\ ret > 0 /\ req.offset + ret <= Total
       => \A i \in 0 .. ret - 1 : out[i] = req.offset + i

\* The output is not sent back to the head of the window between two points.
OneChunk == CHUNK >= FileSize

\* While the input fits one chunk, reads that report success are right, with
\* failures and a truncated file at any moment.
ReadCorrectInOneChunk == OneChunk => ReadCorrect

\* Every read returns, or the process is killed after a failure, at an empty
\* list or for a point there was no memory for.
ReadsEnd ==
    pc \in {"chunk", "search"} ~> pc = "idle" \/ (pc = "dead" /\ Faults # {})
=============================================================================
