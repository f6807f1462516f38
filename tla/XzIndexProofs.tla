--------------------------- MODULE XzIndexProofs ----------------------------
(***************************************************************************)
(* Proofs about opening an xz file, for every file, buffer size and        *)
(* failure: every pread starts inside the file, what becomes of each       *)
(* lzma_index, and which files are accepted, with which index.             *)
(***************************************************************************)
EXTENDS XzIndex, SequenceTheorems, LeastNumber

-----------------------------------------------------------------------------
(* The inductive invariant.                                                *)

\* parse_block_indexes is running, or has just succeeded.
Parsing == {"stream", "footer", "index", "header", "join", "parsed"}

\* The index that is being read ends inside the file, and when it has been
\* decoded it lies just before the position.
Walk ==
    /\ pc = "index" => left <= footer.back /\ position + left <= file.size
    /\ pc = "header" => position - footer.back \in DOMAIN file.index

\* The indexes somebody is responsible for.
Owned ==
    ({probed} \cup (IF pc \in Parsing THEN {index, cur}
                    ELSE IF phase = "open" THEN {index} ELSE {})) \ {0}

\* Those and no others are live; they are distinct; and only the reader->index
\* of a failed xz_reader_alloc is ever ended twice.
Ownership ==
    /\ \A i \in 1 .. Len(heap) : heap[i].status = "live" <=> i \in Owned
    /\ \A i \in 1 .. Len(heap) : heap[i].status = "twice" => phase = "none" /\ i = index
    /\ probed # 0 => probed # index /\ probed # cur
    /\ cur # 0 => cur # index
    /\ pc \in {"magic", "stream", "footer", "index", "parsed"} => cur = 0
    /\ pc \in {"header", "join"} => cur # 0
    /\ phase = "probe" => probed = 0
    /\ pc = "magic" => index = 0
    /\ pc # "done" <=> phase \in {"probe", "alloc"}

IInv == TypeOK /\ Walk /\ Ownership

-----------------------------------------------------------------------------
(* Operations on the heap.                                                 *)

IndexRec == [streams : Seq([at : Nat, pad : Nat]),
             status : {"live", "moved", "ended", "twice"}]

\* lzma_index_end changes the status of one index.
LEMMA EndFacts ==
    ASSUME NEW h \in Seq(IndexRec), NEW i \in 0 .. Len(h)
    PROVE  /\ lzma_index_end(h, i) \in Seq(IndexRec)
           /\ Len(lzma_index_end(h, i)) = Len(h)
           /\ \A k \in 1 .. Len(h) : k # i => lzma_index_end(h, i)[k] = h[k]
           /\ i # 0 => lzma_index_end(h, i)[i].status
                          = IF h[i].status = "live" THEN "ended" ELSE "twice"
<1>1. CASE i = 0
  BY <1>1 DEF lzma_index_end
<1>2. CASE i # 0
  <2> DEFINE s == IF h[i].status = "live" THEN "ended" ELSE "twice"
             x == [h[i] EXCEPT !.status = s]
  <2>1. i \in 1 .. Len(h)
    BY <1>2
  <2>2. h[i] \in IndexRec
    BY <2>1, ElementOfSeq, Zenon
  <2>3. x \in IndexRec /\ x.status = s
    BY <2>2 DEF IndexRec
  <2>4. lzma_index_end(h, i) = [h EXCEPT ![i] = x]
    BY <1>2 DEF lzma_index_end
  <2> HIDE DEF x
  <2>5. /\ [h EXCEPT ![i] = x] \in Seq(IndexRec)
        /\ Len([h EXCEPT ![i] = x]) = Len(h)
        /\ \A k \in 1 .. Len(h) : [h EXCEPT ![i] = x][k] = IF k = i THEN x ELSE h[k]
    BY <2>1, <2>3, ExceptSeq
  <2> QED BY <2>1, <2>3, <2>4, <2>5, <1>2
<1> QED BY <1>1, <1>2

\* lzma_index_cat: what was joined so far moves into the new index.
LEMMA CatFacts ==
    ASSUME heap \in Seq(IndexRec), index \in 0 .. Len(heap), cur \in 1 .. Len(heap),
           position \in Nat, padding \in Nat, cur # index
    PROVE  /\ lzma_index_cat(heap, cur) \in Seq(IndexRec)
           /\ Len(lzma_index_cat(heap, cur)) = Len(heap)
           /\ \A k \in 1 .. Len(heap) : lzma_index_cat(heap, cur)[k].status
                 = IF k = index THEN "moved" ELSE heap[k].status
           /\ lzma_index_cat(heap, cur)[cur].streams
                 = LET s == <<[at |-> position, pad |-> padding]>>
                   IN  IF index = 0 THEN s ELSE s \o heap[index].streams
<1> DEFINE S == Seq([at : Nat, pad : Nat])
           s == <<[at |-> position, pad |-> padding]>>
           t == IF index = 0 THEN s ELSE s \o heap[index].streams
           x == [heap[cur] EXCEPT !.streams = t]
           g == [heap EXCEPT ![cur] = x]
<1>1. s \in S
  OBVIOUS
<1>2. \A k \in 1 .. Len(heap) : heap[k] \in IndexRec
  BY ElementOfSeq, Zenon
<1>3. t \in S
  <2>1. index # 0 => heap[index].streams \in S
    BY <1>2 DEF IndexRec
  <2> HIDE DEF s
  <2>2. index # 0 => s \o heap[index].streams \in S
    BY <1>1, <2>1, ConcatProperties, Zenon
  <2> QED BY <1>1, <2>2
<1> HIDE DEF t, S
<1>4. x \in IndexRec /\ x.status = heap[cur].status /\ x.streams = t
  BY <1>2, <1>3 DEF IndexRec, S
<1> HIDE DEF x
<1>5. /\ g \in Seq(IndexRec) /\ Len(g) = Len(heap)
      /\ \A k \in 1 .. Len(heap) : g[k] = IF k = cur THEN x ELSE heap[k]
  BY <1>4, ExceptSeq
<1>6. CASE index = 0
  <2>1. lzma_index_cat(heap, cur) = g
    BY <1>6 DEF lzma_index_cat, x, t
  <2> QED BY <2>1, <1>4, <1>5, <1>6 DEF t
<1>7. CASE index # 0
  <2> DEFINE y == [g[index] EXCEPT !.status = "moved"]
  <2>1. lzma_index_cat(heap, cur) = [g EXCEPT ![index] = y]
    BY <1>7 DEF lzma_index_cat, x, t
  <2> HIDE DEF g
  <2>2. index \in 1 .. Len(g) /\ g[index] \in IndexRec
    BY <1>5, <1>7, <1>2
  <2>3. y \in IndexRec /\ y.status = "moved"
    BY <2>2 DEF IndexRec
  <2> HIDE DEF y
  <2>4. /\ [g EXCEPT ![index] = y] \in Seq(IndexRec)
        /\ Len([g EXCEPT ![index] = y]) = Len(g)
        /\ \A k \in 1 .. Len(g) : [g EXCEPT ![index] = y][k] = IF k = index THEN y ELSE g[k]
    BY <2>2, <2>3, <1>5, ExceptSeq
  <2> QED BY <2>1, <2>3, <2>4, <1>4, <1>5, <1>7 DEF t
<1> QED BY <1>6, <1>7

-----------------------------------------------------------------------------
(* The invariant holds at the start and every step preserves it.           *)

\* Nothing has been parsed.
LEMMA InitInv == Init => IInv
<1> SUFFICES ASSUME Init PROVE IInv
  OBVIOUS
<1>1. Len(heap) = 0 /\ heap \in Seq(IndexRec)
  BY DEF Init
<1>2. TypeOK
  <2>1. file.size \in Nat /\ 0 \in 0 .. file.size
    BY FilesAssumption DEF Init
  <2> QED BY <1>1, <2>1 DEF Init, TypeOK, Pcs, NoFooter, IndexRec
<1>3. Walk /\ Ownership
  BY <1>1 DEF Init, Walk, Ownership
<1> QED BY <1>2, <1>3 DEF IInv

\* What the file is assumed to be, for the file at hand.
LEMMA FileFacts ==
    ASSUME TypeOK
    PROVE  /\ file.size \in Nat /\ position \in Nat /\ position <= file.size
           /\ IO_BUFFER_SIZE \in Nat \ {0}
           /\ \A p \in DOMAIN file.footer : file.footer[p] \in [back : Nat, flags : Nat]
           /\ \A p \in DOMAIN file.index : file.index[p] \in [len : Nat, total : Nat]
           /\ heap \in Seq(IndexRec) /\ Len(heap) \in Nat
           /\ footer.back \in Nat /\ left \in Nat
BY FilesAssumption DEF TypeOK, IndexRec

\* The error exit ends both indexes, and nothing is left but the one of the
\* probe.
LEMMA FailFacts ==
    ASSUME IInv, pc \in Parsing, NEW h \in Seq(IndexRec), Len(heap) <= Len(h),
           NEW code \in {"DATA_ERROR", "FORMAT_ERROR", "PROG_ERROR", "MEM_ERROR"},
           cur' \in 0 .. Len(h), cur' # 0 => cur' # index /\ cur' # probed,
           \A i \in 1 .. Len(h) : h[i].status # "twice",
           \A i \in 1 .. Len(h) : h[i].status = "live" <=> i \in {index, cur', probed} \ {0},
           Fail(code, h), position' \in 0 .. file.size, left' \in Nat,
           UNCHANGED <<file, phase, padding, footer, index, probed>>
    PROVE  IInv'
<1> DEFINE h1 == lzma_index_end(h, index)
           h2 == lzma_index_end(h1, cur')
<1>1. /\ TypeOK /\ Ownership /\ pc' = "failed" /\ ret' = code /\ heap' = h2
      /\ Len(heap) \in Nat /\ Len(h) \in Nat
      /\ index \in 0 .. Len(h) /\ probed \in 0 .. Len(h)
  BY DEF IInv, Fail, TypeOK
<1>2. /\ h1 \in Seq(IndexRec) /\ Len(h1) = Len(h)
      /\ \A k \in 1 .. Len(h) : k # index => h1[k] = h[k]
      /\ index # 0 => h1[index].status = IF h[index].status = "live" THEN "ended" ELSE "twice"
  BY <1>1, EndFacts
<1> HIDE DEF h1
<1>3. /\ h2 \in Seq(IndexRec) /\ Len(h2) = Len(h1)
      /\ \A k \in 1 .. Len(h1) : k # cur' => h2[k] = h1[k]
      /\ cur' # 0 => h2[cur'].status = IF h1[cur'].status = "live" THEN "ended" ELSE "twice"
  BY <1>2, EndFacts
<1> HIDE DEF h2
<1>4. /\ index # 0 => h1[index].status = "ended"
      /\ cur' # 0 => h2[cur'].status = "ended"
  BY <1>1, <1>2, <1>3
<1>5. TypeOK'
  <2>1. /\ cur' \in 0 .. Len(heap') /\ index' \in 0 .. Len(heap') /\ probed' \in 0 .. Len(heap')
        /\ heap' \in Seq(IndexRec)
    BY <1>1, <1>2, <1>3
  <2> QED BY <1>1, <2>1 DEF TypeOK, Pcs, IndexRec
<1>6. Walk'
  BY <1>1 DEF Walk
<1>7. \A i \in 1 .. Len(heap') : /\ heap'[i].status = "live" <=> i \in {probed} \ {0}
                                 /\ heap'[i].status # "twice"
  <2>1. SUFFICES ASSUME NEW i \in 1 .. Len(h)
                 PROVE  /\ h2[i].status = "live" <=> i \in {probed} \ {0}
                        /\ h2[i].status # "twice"
    BY <1>1, <1>2, <1>3
  <2>2. probed # 0 => probed # index
    BY <1>1 DEF Ownership
  <2>3. CASE i = cur'
    BY <2>3, <2>1, <1>4
  <2>4. CASE i # cur' /\ i = index
    BY <2>4, <2>1, <2>2, <1>2, <1>3, <1>4
  <2>5. CASE i # cur' /\ i # index
    BY <2>5, <2>1, <1>2, <1>3
  <2> QED BY <2>3, <2>4, <2>5
<1>8. phase \in {"probe", "alloc"}
  BY <1>1 DEF Ownership, Parsing
<1>9. Owned' = {probed} \ {0}
  BY <1>1, <1>8 DEF Owned, Parsing
<1>10. Ownership'
  BY <1>1, <1>7, <1>8, <1>9 DEF Ownership
<1> QED BY <1>5, <1>6, <1>10 DEF IInv

\* A step that fails without having decoded anything.
LEMMA FailAtInv ==
    ASSUME IInv, NEW place \in Parsing,
           NEW code \in {"DATA_ERROR", "FORMAT_ERROR", "PROG_ERROR", "MEM_ERROR"},
           FailAt(place, code)
    PROVE  IInv'
<1>1. /\ TypeOK /\ Ownership /\ pc = place /\ cur' = cur /\ Fail(code, heap)
      /\ UNCHANGED <<file, phase, position, padding, footer, left, index, probed>>
  BY DEF IInv, FailAt
<1>2. heap \in Seq(IndexRec) /\ Len(heap) <= Len(heap) /\ cur' \in 0 .. Len(heap)
  BY <1>1 DEF TypeOK, IndexRec
<1>3. pc \in Parsing /\ phase # "none"
  BY <1>1 DEF Ownership, Parsing
<1>4. /\ cur' # 0 => cur' # index /\ cur' # probed
      /\ \A i \in 1 .. Len(heap) : heap[i].status # "twice"
      /\ \A i \in 1 .. Len(heap) : heap[i].status = "live" <=> i \in {index, cur', probed} \ {0}
  BY <1>1, <1>3 DEF Ownership, Owned
<1>5. position' \in 0 .. file.size /\ left' \in Nat
  BY <1>1 DEF TypeOK
<1> QED BY <1>1, <1>2, <1>3, <1>4, <1>5, FailFacts

\* The walk back to the footer of a stream.
LEMMA FooterSteps ==
    ASSUME IInv, NextStream \/ SkipPadding \/ DecodeFooter
    PROVE  IInv'
<1>1. TypeOK /\ Ownership /\ Walk
  BY DEF IInv
<1>2. UNCHANGED <<file, phase, cur, index, heap, probed, ret>>
  BY DEF NextStream, SkipPadding, DecodeFooter
<1>3. CASE NextStream
  <2>1. position' \in 0 .. file.size /\ padding' \in Nat /\ UNCHANGED <<footer, left>>
    BY <1>1, <1>3, FileFacts DEF NextStream, HEADER
  <2>2. TypeOK' /\ Walk'
    BY <2>1, <1>1, <1>2, <1>3 DEF TypeOK, Walk, NextStream, Pcs
  <2>3. Ownership'
    BY <1>1, <1>2, <1>3 DEF NextStream, Ownership, Owned, Parsing
  <2> QED BY <2>2, <2>3 DEF IInv
<1>4. CASE SkipPadding
  <2>1. PaddingWords(position) \in 0 .. 3
    BY DEF PaddingWords, Words
  <2> HIDE DEF PaddingWords, Words
  <2> DEFINE w == PaddingWords(position)
  <2>w. /\ w \in 0 .. 3 /\ padding \in Nat /\ position >= 12
        /\ position' = position - 4 * w /\ padding' = padding + 4 * w
        /\ UNCHANGED <<footer, left>>
    BY <1>1, <1>4, <2>1 DEF SkipPadding, HEADER, TypeOK
  <2> HIDE DEF w
  <2>2. position' \in 0 .. file.size /\ padding' \in Nat /\ UNCHANGED <<footer, left>>
    BY <1>1, <2>w, FileFacts
  <2>3. pc = "footer" /\ pc' = "footer"
    BY <1>4 DEF SkipPadding
  <2>4. TypeOK' /\ Walk'
    BY <2>2, <2>3, <1>1, <1>2 DEF TypeOK, Walk
  <2>5. Ownership'
    BY <1>1, <1>2, <2>3 DEF Ownership, Owned, Parsing
  <2> QED BY <2>4, <2>5 DEF IInv
<1>5. CASE DecodeFooter
  <2> DEFINE f == file.footer[position]
  <2>1. /\ f \in [back : Nat, flags : Nat] /\ position >= f.back + HEADER
        /\ footer' = f /\ position' = position - f.back /\ left' = f.back
        /\ UNCHANGED padding /\ pc = "footer" /\ pc' = "index"
    BY <1>1, <1>5, FileFacts DEF DecodeFooter, SizeSane
  <2> HIDE DEF f
  <2>2. f.back \in Nat
    BY <2>1
  <2>3. position' \in 0 .. file.size /\ position' + left' <= file.size
    BY <1>1, <2>1, <2>2, FileFacts DEF HEADER
  <2>4. TypeOK' /\ Walk'
    BY <1>1, <1>2, <2>1, <2>2, <2>3 DEF TypeOK, Walk, Pcs
  <2>5. Ownership'
    BY <1>1, <1>2, <2>1 DEF Ownership, Owned, Parsing
  <2> QED BY <2>4, <2>5 DEF IInv
<1> QED BY <1>3, <1>4, <1>5

\* One turn of the loop over the index: it never leaves the file.
LEMMA ChunkFacts ==
    ASSUME IInv, pc = "index"
    PROVE  /\ Chunk \in 0 .. left /\ left - Chunk \in Nat
           /\ position + Chunk \in 0 .. file.size
           /\ position + Chunk + (left - Chunk) <= file.size
           /\ left - Chunk <= footer.back
           /\ left - Chunk = 0 => position + Chunk - footer.back = IndexStart
<1>1. TypeOK /\ left <= footer.back /\ position + left <= file.size
  BY DEF IInv, Walk
<1> QED BY <1>1, FileFacts DEF Chunk, Min, IndexStart

\* The index goes to the decoder chunk by chunk.
LEMMA ReadIndexInv == ASSUME IInv, ReadIndex PROVE IInv'
<1>1. /\ TypeOK /\ Ownership /\ pc = "index" /\ pc' = "index"
      /\ position' = position + Chunk /\ left' = left - Chunk
      /\ UNCHANGED <<file, phase, padding, footer, cur, index, heap, probed, ret>>
  BY DEF IInv, ReadIndex
<1>2. position' \in 0 .. file.size /\ left' \in Nat /\ position' + left' <= file.size
      /\ left' <= footer.back
  BY <1>1, ChunkFacts
<1>3. TypeOK' /\ Walk'
  BY <1>1, <1>2 DEF TypeOK, Walk
<1>4. Ownership'
  BY <1>1 DEF Ownership, Owned
<1> QED BY <1>3, <1>4 DEF IInv

\* The decoder has made a new index; if the footer was wrong about it, it is
\* ended with the joined one.
LEMMA EndIndexInv == ASSUME IInv, EndIndex PROVE IInv'
<1> DEFINE x == [streams |-> <<>>, status |-> "live"]
           h == Append(heap, x)
           n == Len(heap) + 1
<1>1. /\ TypeOK /\ Ownership /\ pc = "index" /\ HasIndex
      /\ position' = position + Chunk /\ left' = left - Chunk /\ cur' = n
      /\ UNCHANGED <<file, phase, padding, footer, index, probed>>
  BY DEF IInv, EndIndex
<1>2. x \in IndexRec /\ x.status = "live"
  BY DEF IndexRec
<1> HIDE DEF x
<1>3. /\ heap \in Seq(IndexRec) /\ Len(heap) \in Nat
      /\ h \in Seq(IndexRec) /\ Len(h) = n /\ h[n] = x
      /\ \A i \in 1 .. Len(heap) : h[i] = heap[i]
  BY <1>1, <1>2, FileFacts, AppendProperties
<1>4. /\ index \in 0 .. Len(heap) /\ probed \in 0 .. Len(heap) /\ cur = 0
      /\ phase \in {"probe", "alloc"}
  BY <1>1 DEF TypeOK, Ownership
<1>5. /\ cur' \in 0 .. Len(h) /\ cur' # 0 /\ cur' # index /\ cur' # probed
      /\ Len(heap) <= Len(h)
  BY <1>1, <1>3, <1>4
<1> HIDE DEF h
<1>6. \A i \in 1 .. Len(h) : /\ h[i].status # "twice"
                             /\ h[i].status = "live" <=> i \in {index, cur', probed} \ {0}
  <2>1. SUFFICES ASSUME NEW i \in 1 .. n
                 PROVE  /\ h[i].status # "twice"
                        /\ h[i].status = "live" <=> i \in {index, cur', probed} \ {0}
    BY <1>3
  <2>2. CASE i = n
    BY <2>1, <2>2, <1>1, <1>2, <1>3
  <2>3. CASE i # n
    <3>1. i \in 1 .. Len(heap) /\ h[i] = heap[i]
      BY <2>1, <2>3, <1>3
    <3>2. /\ heap[i].status # "twice"
          /\ heap[i].status = "live" <=> i \in {index, probed} \ {0}
      BY <3>1, <1>1, <1>4 DEF Ownership, Owned, Parsing
    <3> QED BY <2>3, <3>1, <3>2, <1>1
  <2> QED BY <2>2, <2>3
<1>7. position' \in 0 .. file.size /\ left' \in Nat
  BY <1>1, ChunkFacts
<1>8. CASE left' = 0 /\ Fed = file.index[IndexStart].len
  <2>1. pc' = "header" /\ heap' = h /\ ret' = ret
    BY <1>8 DEF EndIndex, h, x
  <2>2. TypeOK'
    <3>1. /\ cur' \in 0 .. Len(heap') /\ index' \in 0 .. Len(heap') /\ probed' \in 0 .. Len(heap')
          /\ heap' \in Seq(IndexRec)
      BY <1>1, <1>3, <1>4, <1>5, <2>1
    <3> QED BY <1>1, <1>7, <2>1, <3>1 DEF TypeOK, Pcs, IndexRec
  <2>3. Walk'
    <3>1. position' - footer.back = IndexStart
      <4>1. /\ left - Chunk = 0 /\ position' = position + Chunk /\ Chunk \in Int
            /\ left \in Int /\ position \in Int /\ footer.back \in Int
        <5>1. left - Chunk = 0 /\ position' = position + Chunk
          BY <1>1, <1>8
        <5>2. Chunk \in 0 .. left
          BY <1>1, ChunkFacts
        <5>3. left \in Int /\ position \in Int /\ footer.back \in Int
          BY <1>1, FileFacts
        <5> HIDE DEF Chunk
        <5> QED BY <5>1, <5>2, <5>3
      <4> QED BY <4>1 DEF IndexStart
    <3> QED BY <1>1, <2>1, <3>1 DEF Walk, HasIndex
  <2>4. Ownership'
    <3>1. Owned' = {index, cur', probed} \ {0}
      BY <1>1, <2>1 DEF Owned, Parsing
    <3>2. \A i \in 1 .. Len(heap') : /\ heap'[i].status # "twice"
                                     /\ heap'[i].status = "live" <=> i \in Owned'
      BY <1>6, <2>1, <3>1
    <3>3. /\ probed' # 0 => probed' # index' /\ probed' # cur'
          /\ cur' # 0 /\ cur' # index'
          /\ phase' \in {"probe", "alloc"} /\ (phase' = "probe" => probed' = 0)
      BY <1>1, <1>4, <1>5 DEF Ownership
    <3> HIDE DEF Owned
    <3>4. /\ \A i \in 1 .. Len(heap') : heap'[i].status = "live" <=> i \in Owned'
          /\ \A i \in 1 .. Len(heap') : heap'[i].status = "twice" => FALSE
      BY <3>2
    <3> QED BY <2>1, <3>3, <3>4, Zenon DEF Ownership
  <2> QED BY <2>2, <2>3, <2>4 DEF IInv
<1>9. CASE ~(left' = 0 /\ Fed = file.index[IndexStart].len)
  <2>1. Fail("DATA_ERROR", h)
    BY <1>9 DEF EndIndex, h, x
  <2>2. pc \in Parsing /\ h \in Seq(IndexRec)
    BY <1>1, <1>3 DEF Parsing
  <2>3. UNCHANGED <<file, phase, padding, footer, index, probed>>
    BY <1>1
  <2>4. /\ \A i \in 1 .. Len(h) : h[i].status # "twice"
        /\ \A i \in 1 .. Len(h) : h[i].status = "live" <=> i \in {index, cur', probed} \ {0}
    BY <1>6
  <2> QED BY <1>5, <1>7, <2>1, <2>2, <2>3, <2>4, FailFacts, Zenon
<1> QED BY <1>8, <1>9

\* The header before the blocks is inside the file.
LEMMA CheckHeaderInv == ASSUME IInv, CheckHeader PROVE IInv'
<1>1. /\ TypeOK /\ Ownership /\ Walk /\ pc = "header" /\ pc' = "join"
      /\ position' = HeaderPos /\ HeaderPos >= 0
      /\ UNCHANGED <<file, phase, padding, footer, left, cur, index, heap, probed, ret>>
  BY DEF IInv, CheckHeader, HeaderRight
<1> DEFINE t == file.index[position - footer.back].total
<1>2. t \in Nat
  BY <1>1, FileFacts DEF Walk
<1>3. HeaderPos = position - (footer.back + HEADER) - t
  BY DEF HeaderPos
<1> HIDE DEF t
<1>4. position' \in 0 .. file.size
  BY <1>1, <1>2, <1>3, FileFacts DEF HEADER
<1>5. TypeOK' /\ Walk'
  BY <1>1, <1>4 DEF TypeOK, Walk, Pcs
<1>6. Ownership'
  BY <1>1 DEF Ownership, Owned, Parsing
<1> QED BY <1>5, <1>6 DEF IInv

\* The index of the stream takes in the one joined so far.
LEMMA JoinInv == ASSUME IInv, Join PROVE IInv'
<1>1. /\ TypeOK /\ Ownership /\ pc = "join" /\ pc' \in {"stream", "parsed"}
      /\ heap' = lzma_index_cat(heap, cur) /\ index' = cur /\ cur' = 0
      /\ UNCHANGED <<file, phase, position, padding, footer, left, probed, ret>>
  BY DEF IInv, Join
<1>2. /\ cur \in 1 .. Len(heap) /\ cur # index /\ probed # cur
      /\ index \in 0 .. Len(heap) /\ probed \in 0 .. Len(heap)
      /\ phase \in {"probe", "alloc"}
  BY <1>1 DEF Ownership, TypeOK
<1>3. /\ heap' \in Seq(IndexRec) /\ Len(heap') = Len(heap)
      /\ \A k \in 1 .. Len(heap) : heap'[k].status
            = IF k = index THEN "moved" ELSE heap[k].status
  BY <1>1, <1>2, FileFacts, CatFacts DEF TypeOK
<1>4. TypeOK' /\ Walk'
  <2>1. index' \in 0 .. Len(heap') /\ probed' \in 0 .. Len(heap') /\ cur' \in 0 .. Len(heap')
    BY <1>1, <1>2, <1>3
  <2> QED BY <1>1, <1>3, <2>1 DEF TypeOK, Walk, Pcs, IndexRec
<1>5. Ownership'
  <2>1. Owned = {index, cur, probed} \ {0} /\ Owned' = {cur, probed} \ {0}
    BY <1>1, <1>2 DEF Owned, Parsing
  <2>2. \A i \in 1 .. Len(heap') : /\ heap'[i].status = "live" <=> i \in Owned'
                                   /\ heap'[i].status # "twice"
    BY <1>1, <1>2, <1>3, <2>1 DEF Ownership
  <2> QED BY <1>1, <1>2, <2>2 DEF Ownership
<1> QED BY <1>4, <1>5 DEF IInv

\* xz_is_supported begins, refuses, or accepts the file and has it parsed
\* again: the index of the probe has no owner but the probe.
LEMMA ProbeSteps ==
    ASSUME IInv, Magic \/ ProbeRefuses \/ ProbeAccepts
    PROVE  IInv'
<1>1. TypeOK /\ Ownership /\ heap \in Seq(IndexRec)
  BY DEF IInv, TypeOK, IndexRec
<1>2. CASE Magic
  <2>1. /\ pc = "magic" /\ cur = 0 /\ index = 0 /\ phase \in {"probe", "alloc"}
        /\ UNCHANGED <<file, padding, footer, left, heap, probed>>
    BY <1>1, <1>2 DEF Magic, Ownership
  <2>2. CASE file.magic
    <3>1. /\ pc' = "stream" /\ position' = file.size /\ cur' = 0 /\ index' = 0
          /\ ret' = "OK" /\ phase' = phase
      BY <1>2, <2>2 DEF Magic, ParseBegins
    <3>2. TypeOK' /\ Walk'
      BY <1>1, <2>1, <3>1, FileFacts DEF TypeOK, Walk, Pcs
    <3>3. Ownership'
      BY <1>1, <2>1, <3>1 DEF Ownership, Owned, Parsing
    <3> QED BY <3>2, <3>3 DEF IInv
  <2>3. CASE ~file.magic
    <3>1. pc' = "done" /\ phase' = "refused" /\ UNCHANGED <<position, cur, index, ret>>
      BY <1>2, <2>3 DEF Magic
    <3>2. TypeOK' /\ Walk'
      BY <1>1, <2>1, <3>1 DEF TypeOK, Walk, Pcs
    <3>3. Ownership'
      BY <1>1, <2>1, <3>1 DEF Ownership, Owned, Parsing
    <3> QED BY <3>2, <3>3 DEF IInv
  <2> QED BY <2>2, <2>3
<1>3. CASE ProbeRefuses
  <2>1. /\ phase = "probe" /\ probed = 0 /\ phase' = "refused" /\ pc' = "done"
        /\ pc \in {"failed", "parsed"}
        /\ UNCHANGED <<file, position, padding, footer, left, cur, index, probed, ret>>
    BY <1>1, <1>3 DEF ProbeRefuses, Ownership
  <2>2. /\ heap' \in Seq(IndexRec) /\ Len(heap') = Len(heap)
        /\ \A i \in 1 .. Len(heap) : heap'[i].status \notin {"live", "twice"}
    <3>1. CASE pc = "failed"
      BY <3>1, <1>1, <1>3, <2>1 DEF ProbeRefuses, Ownership, Owned, Parsing
    <3>2. CASE pc = "parsed"
      <4>1. heap' = lzma_index_end(heap, index) /\ index \in 0 .. Len(heap) /\ cur = 0
        BY <3>2, <1>1, <1>3 DEF ProbeRefuses, TypeOK, Ownership
      <4>2. \A i \in 1 .. Len(heap) : /\ heap[i].status = "live" <=> i = index
                                      /\ heap[i].status # "twice"
        BY <3>2, <4>1, <1>1, <2>1 DEF Ownership, Owned, Parsing
      <4> QED BY <4>1, <4>2, <1>1, EndFacts
    <3> QED BY <2>1, <3>1, <3>2
  <2>3. TypeOK' /\ Walk'
    BY <1>1, <2>1, <2>2 DEF TypeOK, Walk, Pcs, IndexRec
  <2>4. Ownership'
    BY <1>1, <2>1, <2>2 DEF Ownership, Owned, Parsing
  <2> QED BY <2>3, <2>4 DEF IInv
<1>4. CASE ProbeAccepts
  <2>1. /\ phase = "probe" /\ pc = "parsed" /\ phase' = "alloc" /\ probed' = index
        /\ pc' = "stream" /\ position' = file.size /\ cur' = 0 /\ index' = 0 /\ ret' = "OK"
        /\ probed = 0 /\ cur = 0
        /\ UNCHANGED <<file, padding, footer, left, heap>>
    BY <1>1, <1>4 DEF ProbeAccepts, ParseBegins, Ownership
  <2>2. TypeOK' /\ Walk'
    BY <1>1, <2>1, FileFacts DEF TypeOK, Walk, Pcs
  <2>3. Ownership'
    BY <1>1, <2>1 DEF Ownership, Owned, Parsing
  <2> QED BY <2>2, <2>3 DEF IInv
<1> QED BY <1>2, <1>3, <1>4

\* xz_reader_alloc opens the file or fails, and xz_reader_free closes it:
\* after a failed parse reader->index is one that was ended.
LEMMA ReaderSteps ==
    ASSUME IInv, xz_reader_alloc \/ AllocFails \/ xz_reader_free
    PROVE  IInv'
<1>1. TypeOK /\ Ownership /\ heap \in Seq(IndexRec)
  BY DEF IInv, TypeOK, IndexRec
<1>2. CASE xz_reader_alloc
  <2>1. /\ phase = "alloc" /\ pc = "parsed" /\ phase' = "open" /\ pc' = "done"
        /\ UNCHANGED <<file, position, padding, footer, left, cur, index, heap, probed, ret>>
    BY <1>2 DEF xz_reader_alloc, parse
  <2>2. TypeOK' /\ Walk'
    BY <1>1, <2>1 DEF TypeOK, Walk, Pcs
  <2>3. Ownership'
    BY <1>1, <2>1 DEF Ownership, Owned, Parsing
  <2> QED BY <2>2, <2>3 DEF IInv
<1>3. CASE AllocFails \/ xz_reader_free
  <2>1. /\ \/ phase = "alloc" /\ pc = "failed" /\ phase' = "none"
           \/ phase = "open" /\ phase' = "closed" /\ pc = "done"
        /\ pc' = "done" /\ heap' = lzma_index_end(heap, index)
        /\ UNCHANGED <<file, position, padding, footer, left, cur, index, probed, ret>>
        /\ index \in 0 .. Len(heap) /\ (probed # 0 => probed # index)
    BY <1>1, <1>3 DEF AllocFails, xz_reader_free, FreeReader, Ownership, TypeOK, Pcs
  <2>2. /\ heap' \in Seq(IndexRec) /\ Len(heap') = Len(heap)
        /\ \A k \in 1 .. Len(heap) : k # index => heap'[k] = heap[k]
        /\ index # 0 => heap'[index].status
                           = IF heap[index].status = "live" THEN "ended" ELSE "twice"
    BY <1>1, <2>1, EndFacts
  <2>3. TypeOK' /\ Walk'
    BY <1>1, <2>1, <2>2 DEF TypeOK, Walk, Pcs, IndexRec
  <2>4. /\ phase = "open" /\ index # 0 => heap[index].status = "live"
        /\ Owned' = {probed} \ {0}
        /\ \A k \in 1 .. Len(heap) :
              k # index => (heap[k].status = "live" <=> k \in {probed} \ {0})
        /\ \A k \in 1 .. Len(heap) : heap[k].status # "twice"
    BY <1>1, <2>1 DEF Ownership, Owned, Parsing
  <2>5. \A k \in 1 .. Len(heap) : /\ heap'[k].status = "live" <=> k \in Owned'
                                  /\ heap'[k].status = "twice" => phase' = "none" /\ k = index
    <3>1. SUFFICES ASSUME NEW k \in 1 .. Len(heap)
                   PROVE  /\ heap'[k].status = "live" <=> k \in {probed} \ {0}
                          /\ heap'[k].status = "twice" => phase' = "none" /\ k = index
      BY <2>4
    <3>2. CASE k = index
      BY <3>1, <3>2, <2>1, <2>2, <2>4
    <3>3. CASE k # index
      BY <3>1, <3>3, <2>2, <2>4
    <3> QED BY <3>2, <3>3
  <2>6. Ownership'
    BY <1>1, <2>1, <2>2, <2>5 DEF Ownership
  <2> QED BY <2>3, <2>6 DEF IInv
<1> QED BY <1>2, <1>3

\* Every step preserves the invariant.
LEMMA NextInv == IInv /\ [Next]_vars => IInv'
<1> SUFFICES ASSUME IInv, [Next]_vars PROVE IInv'
  OBVIOUS
<1>1. ASSUME NEW place \in {"stream", "footer", "index", "header", "join"},
             NEW code \in {"DATA_ERROR", "FORMAT_ERROR", "PROG_ERROR", "MEM_ERROR"},
             FailAt(place, code)
      PROVE  IInv'
  BY <1>1, FailAtInv DEF Parsing
<1>2. CASE StreamTooShort \/ FooterTooShort \/ FooterWrong \/ IndexWrong \/ HeaderWrong
  BY <1>1, <1>2 DEF StreamTooShort, FooterTooShort, FooterWrong, IndexWrong, HeaderWrong
<1>3. CASE ReadFails \/ MemoryFails
  BY <1>1, <1>3 DEF ReadFails, MemoryFails
<1>4. CASE UNCHANGED vars
  BY <1>4 DEF vars, IInv, TypeOK, Walk, Ownership, Owned
<1> QED BY <1>2, <1>3, <1>4, FooterSteps, ReadIndexInv, EndIndexInv, CheckHeaderInv,
           JoinInv, ProbeSteps, ReaderSteps DEF Next, ParseStep

\* Opening and closing any file, whatever fails: every pread starts inside the
\* file; no lzma_index is ended twice, but the reader->index of an alloc whose
\* parse failed; and once the file is refused or closed none is left but the
\* one xz_is_supported accepted it with.
THEOREM XzIndexSafe == Spec => [](TypeOK /\ EndedOnce /\ OnlyProbeLeaks)
<1>1. IInv => TypeOK /\ EndedOnce /\ OnlyProbeLeaks
  <2> SUFFICES ASSUME IInv PROVE TypeOK /\ EndedOnce /\ OnlyProbeLeaks
    OBVIOUS
  <2>1. TypeOK /\ Ownership
    BY DEF IInv
  <2>2. EndedOnce
    BY <2>1 DEF Ownership, EndedOnce
  <2>3. OnlyProbeLeaks
    <3>1. SUFFICES ASSUME phase \in {"refused", "none", "closed"}
                   PROVE  {i \in 1 .. Len(heap) : heap[i].status = "live"}
                             = IF probed = 0 THEN {} ELSE {probed}
      BY DEF OnlyProbeLeaks
    <3>2. Owned = {probed} \ {0}
      BY <2>1, <3>1 DEF Ownership, Owned, Parsing
    <3>3. probed = 0 \/ probed \in 1 .. Len(heap)
      BY <2>1 DEF TypeOK
    <3> QED BY <2>1, <3>2, <3>3 DEF Ownership
  <2> QED BY <2>1, <2>2, <2>3
<1> QED BY <1>1, InitInv, NextInv, PTL DEF Spec
-----------------------------------------------------------------------------
(* Files that are xz files: what the walk has found.                       *)

Streams == file.streams
Count == Len(file.streams)

\* Where stream k and its padding end.
EndOf(k) == IF k = 0 THEN 0 ELSE Streams[k].foot + HEADER + Streams[k].pad

\* The streams behind the first k, as an index describes them.
Behind(k) == [i \in 1 .. Count - k |-> [at |-> Streams[k + i].at, pad |-> Streams[k + i].pad]]

\* The streams behind the first k are in reader->index, and could be found.
Joined(k) ==
    /\ k = Count => index = 0
    /\ k < Count => index # 0 /\ heap[index].streams = Behind(k)
    /\ \A i \in k + 1 .. Count : Locatable(Streams[i])

\* The scan is in the padding of stream s, a multiple of twelve bytes before
\* its end, or has come to its footer.
OnTrack(s) ==
    /\ position + padding = s.foot + s.pad
    /\ \/ s.foot <= position /\ \E j \in Nat : padding = 12 * j
       \/ /\ position = s.foot /\ s.pad % 12 = 4
          /\ s.foot + 6 \in file.zero /\ s.foot + 5 \notin file.zero

\* The footer of stream s has been decoded.
FooterKnown(s) == Locatable(s) /\ padding = s.pad /\ footer = file.footer[s.foot]

\* What is known in the turn of the loop that is about stream k.
TurnInv(k) ==
    /\ Joined(k)
    /\ pc = "stream" => position = EndOf(k)
    /\ pc = "footer" => OnTrack(Streams[k]) \/ (~Locatable(Streams[k]) /\ position \in file.missed)
    /\ pc \in {"index", "header", "join"} => FooterKnown(Streams[k])
    /\ pc = "index" => left > 0 /\ position + left = Streams[k].foot
    /\ pc = "header" => position = Streams[k].foot
    /\ pc = "join" => position = Streams[k].at

\* Some turn is under way; a parse that succeeded is at the beginning of the
\* file; one that failed has not found a footer.
FormatInv ==
    file.streams # <<>> =>
        /\ pc \in {"stream", "footer", "index", "header", "join"} => \E k \in 1 .. Count : TurnInv(k)
        /\ pc = "parsed" => position = 0 /\ Joined(0)
        /\ pc = "failed" /\ ret \in {"DATA_ERROR", "FORMAT_ERROR"} =>
              \E i \in 1 .. Count : ~Locatable(Streams[i])

\* Stream k of a sound file, in numbers.
LEMMA StreamFacts ==
    ASSUME TypeOK, file.streams # <<>>, NEW k \in 1 .. Count
    PROVE  LET s == Streams[k] IN
           /\ Count \in Nat \ {0}
           /\ s.at \in Nat /\ s.foot \in Nat /\ s.pad \in Nat
           /\ SoundStream(file, s)
           /\ file.footer[s.foot].back \in Nat \ {0}
           /\ file.index[s.foot - file.footer[s.foot].back].total \in Nat
           /\ EndOf(k - 1) = s.at /\ EndOf(k) = s.foot + 12 + s.pad
           /\ s.at + 12 + file.footer[s.foot].back <= s.foot
           /\ \A w \in 1 .. 3 : s.foot - 4 * w \in file.missed
<1> DEFINE s == Streams[k]
<1>1. /\ file \in Files /\ file.streams \in Seq(StreamType) /\ SoundFile(file)
      /\ \A p \in DOMAIN file.footer : file.footer[p] \in [back : Nat, flags : Nat]
      /\ \A p \in DOMAIN file.index : file.index[p] \in [len : Nat, total : Nat]
  BY FilesAssumption, FormatAssumption DEF TypeOK
<1>2. Count \in Nat \ {0} /\ k \in 1 .. Len(file.streams)
  BY <1>1 DEF Count
<1>3. s \in StreamType
  BY <1>1, <1>2, ElementOfSeq, Zenon DEF Streams
<1>4. s.at \in Nat /\ s.foot \in Nat /\ s.pad \in Nat
  BY <1>3 DEF StreamType
<1>5. SoundStream(file, s)
  BY <1>1, <1>2 DEF SoundFile, Streams
<1>6. EndOf(k) = s.foot + 12 + s.pad
  BY <1>2, <1>4 DEF EndOf, HEADER
<1>7. EndOf(k - 1) = s.at
  <2>1. CASE k = 1
    BY <2>1, <1>1 DEF EndOf, SoundFile, Streams
  <2>2. CASE k # 1
    <3>1. k - 1 \in 1 .. Len(file.streams) - 1 /\ (k - 1) + 1 = k /\ k - 1 # 0
      BY <2>2, <1>2
    <3>2. file.streams[(k - 1) + 1].at = file.streams[k - 1].foot + HEADER + file.streams[k - 1].pad
      BY <3>1, <1>1 DEF SoundFile
    <3> QED BY <3>1, <3>2 DEF EndOf, Streams
  <2> QED BY <2>1, <2>2
<1>8. \A w \in 1 .. 3 : s.foot - 4 * w \in file.missed
  BY <1>1, <1>2 DEF SoundFile, Streams
<1> HIDE DEF s
<1> DEFINE b == file.footer[s.foot].back
           x == file.index[s.foot - b].total
<1>9. b \in Nat /\ b > 0 /\ s.foot - b \in DOMAIN file.index /\ s.at = s.foot - b - x - 12
  BY <1>1, <1>5 DEF SoundStream, HEADER
<1>10. x \in Nat
  BY <1>1, <1>9
<1> HIDE DEF b, x
<1>11. s.at + 12 + b <= s.foot
  BY <1>4, <1>9, <1>10
<1>12. b \in Nat \ {0}
  BY <1>9
<1> QED BY <1>2, <1>4, <1>5, <1>6, <1>7, <1>8, <1>10, <1>11, <1>12, Zenon DEF s, b, x

\* The streams lie one after the other and fill the file.
LEMMA StreamsOrdered ==
    ASSUME TypeOK, file.streams # <<>>
    PROVE  /\ Count \in Nat \ {0} /\ EndOf(0) = 0 /\ EndOf(Count) = file.size
           /\ \A i \in 0 .. Count : EndOf(i) \in Nat
           /\ \A i \in 0 .. Count : \A j \in i + 1 .. Count : EndOf(i) < EndOf(j)
<1>1. Count \in Nat \ {0} /\ file.streams \in Seq(StreamType) /\ SoundFile(file)
  BY FilesAssumption, FormatAssumption DEF TypeOK, Count
<1>2. EndOf(0) = 0 /\ EndOf(Count) = file.size
  BY <1>1 DEF SoundFile, EndOf, Streams, Count
<1>3. \A i \in 1 .. Count : EndOf(i) \in Nat /\ EndOf(i - 1) < EndOf(i)
  <2> SUFFICES ASSUME NEW i \in 1 .. Count PROVE EndOf(i) \in Nat /\ EndOf(i - 1) < EndOf(i)
    OBVIOUS
  <2>1. PICK a, f, p, b \in Nat : /\ EndOf(i - 1) = a /\ EndOf(i) = f + 12 + p
                                  /\ a + 12 + b <= f
    BY StreamFacts
  <2> QED BY <2>1
<1>4. \A i \in 0 .. Count : EndOf(i) \in Nat
  BY <1>1, <1>2, <1>3
<1> DEFINE f == [i \in 0 .. Count |-> EndOf(i)]
<1>5. f \in [0 .. Count -> Int] /\ \A i \in 1 .. Count : f[i - 1] < f[i]
  BY <1>1, <1>3, <1>4
<1>6. \A i \in 0 .. Count : f[i] = EndOf(i)
  OBVIOUS
<1> HIDE DEF f
<1>7. ASSUME NEW i \in 0 .. Count, NEW j \in i + 1 .. Count PROVE EndOf(i) < EndOf(j)
  <2>1. f[i] < f[j]
    BY <1>1, <1>5, StrictlyMonotone
  <2>2. j \in 0 .. Count
    BY <1>1
  <2> QED BY <1>6, <2>1, <2>2
<1> QED BY <1>1, <1>2, <1>4, <1>7

\* The streams from the end of stream k on are those behind it.
LEMMA FromBehind ==
    ASSUME TypeOK, file.streams # <<>>, NEW k \in 0 .. Count
    PROVE  StreamsFrom(EndOf(k)) = Behind(k)
<1>1. Count \in Nat \ {0}
  BY StreamsOrdered
<1> DEFINE Splits(n) == \A i \in 1 .. Len(file.streams) : i > n <=> file.streams[i].at >= EndOf(k)
<1>2. ASSUME NEW i \in 1 .. Count PROVE i > k <=> Streams[i].at >= EndOf(k)
  <2>1. Streams[i].at = EndOf(i - 1) /\ i - 1 \in 0 .. Count
    BY <1>1, StreamFacts
  <2>2. EndOf(i - 1) \in Nat /\ EndOf(k) \in Nat
    BY <2>1, StreamsOrdered
  <2>3. CASE i > k
    <3>1. CASE i - 1 = k
      BY <2>1, <2>2, <2>3, <3>1
    <3>2. CASE i - 1 # k
      <4>1. i - 1 \in k + 1 .. Count
        BY <1>1, <2>3, <3>2
      <4>2. EndOf(k) < EndOf(i - 1)
        BY <4>1, StreamsOrdered
      <4> QED BY <2>1, <2>2, <2>3, <4>2
    <3> QED BY <3>1, <3>2
  <2>4. CASE ~(i > k)
    <3>1. k \in (i - 1) + 1 .. Count
      BY <1>1, <2>4
    <3>2. EndOf(i - 1) < EndOf(k)
      BY <2>1, <3>1, StreamsOrdered
    <3> QED BY <2>1, <2>2, <2>4, <3>2
  <2> QED BY <2>3, <2>4
<1>3. Splits(k)
  BY <1>2 DEF Count, Streams
<1>4. ASSUME NEW n \in 0 .. Count, Splits(n) PROVE n = k
  <2>1. \A i \in 1 .. Count : i > n <=> i > k
    BY <1>3, <1>4 DEF Count
  <2>2. n < k => n + 1 \in 1 .. Count
    BY <1>1
  <2>3. k < n => k + 1 \in 1 .. Count
    BY <1>1
  <2> QED BY <1>1, <2>1, <2>2, <2>3
<1>5. (CHOOSE n \in 0 .. Len(file.streams) : Splits(n)) = k
  <2>1. k \in 0 .. Len(file.streams) /\ \A n \in 0 .. Len(file.streams) : Splits(n) => n = k
    BY <1>4 DEF Count
  <2> HIDE DEF Splits
  <2> QED BY <1>3, <2>1
<1> QED BY <1>5, Zenon DEF StreamsFrom, Behind, Count, Streams
-----------------------------------------------------------------------------
(* One turn of the loop over the streams of a sound file.                  *)

\* The next stream to be found is the last that has not been.
LEMMA TurnBegins ==
    ASSUME TypeOK, file.streams # <<>>, NEW k \in 1 .. Count, TurnInv(k), pc = "stream"
    PROVE  /\ ~StreamTooShort
           /\ NextStream => TurnInv(k)'
<1>1. PICK a, f, p \in Nat : /\ f = Streams[k].foot /\ p = Streams[k].pad
                             /\ position = f + 12 + p /\ f >= 12
  <2> DEFINE s == Streams[k]
             b == file.footer[s.foot].back
  <2>1. /\ s.at \in Nat /\ s.foot \in Nat /\ s.pad \in Nat /\ b \in Nat
        /\ position = s.foot + 12 + s.pad /\ s.at + 12 + b <= s.foot
    BY StreamFacts DEF TurnInv
  <2> HIDE DEF s, b
  <2>2. s.foot >= 12
    BY <2>1
  <2> QED BY <2>1, <2>2 DEF s
<1>2. ~StreamTooShort
  BY <1>1 DEF StreamTooShort, HEADER
<1>3. ASSUME NextStream PROVE TurnInv(k)'
  <2>1. /\ position' = f + p /\ padding' = 0 /\ pc' = "footer"
        /\ UNCHANGED <<file, index, heap>>
    BY <1>1, <1>3 DEF NextStream, HEADER
  <2>2. OnTrack(Streams[k])'
    <3>1. f <= position' /\ position' + padding' = f + p /\ padding' = 12 * 0 /\ 0 \in Nat
      BY <1>1, <2>1
    <3> QED BY <1>1, <2>1, <3>1 DEF OnTrack, Streams
  <2>3. Joined(k)'
    BY <2>1 DEF TurnInv, Joined, Behind, Locatable, Streams, Count
  <2> QED BY <2>1, <2>2, <2>3 DEF TurnInv, Streams
<1> QED BY <1>2, <1>3

\* In the padding of a stream, three zeros are twelve bytes; at its end come
\* the bytes of the footer.
LEMMA TrackFacts ==
    ASSUME TypeOK, file.streams # <<>>, NEW k \in 1 .. Count, OnTrack(Streams[k])
    PROVE  LET f == Streams[k].foot w == PaddingWords(position) IN
           \/ position >= f + 12 /\ w = 3 /\ \E j \in Nat : padding + 12 = 12 * j
           \/ /\ position = f /\ (w = 0 <=> Locatable(Streams[k]))
              /\ padding = Streams[k].pad
           \/ /\ position = f + 4
              /\ w = 0 => ~Locatable(Streams[k])
              /\ w = 1 => /\ Streams[k].pad % 12 = 4
                          /\ f + 6 \in file.zero /\ f + 5 \notin file.zero
              /\ w > 1 => ~Locatable(Streams[k])
           \/ position = f + 8 /\ w = 0 /\ ~Locatable(Streams[k])
<1> DEFINE f == Streams[k].foot
           p == Streams[k].pad
           w == PaddingWords(position)
           s == Streams[k]
<1>1. f \in Nat /\ p \in Nat /\ position \in Nat /\ padding \in Nat /\ SoundStream(file, s)
  BY StreamFacts, FileFacts DEF TypeOK
<1>2. /\ p % 4 = 0 /\ f + 10 \notin file.zero
      /\ \A q \in f + 12 .. f + 12 + p - 1 : q \in file.zero
  BY <1>1 DEF SoundStream, HEADER
<1>3. /\ position + padding = f + p
      /\ \/ f <= position /\ \E j \in Nat : padding = 12 * j
         \/ position = f /\ p % 12 = 4 /\ f + 6 \in file.zero /\ f + 5 \notin file.zero
  BY DEF OnTrack
<1>4. w = IF position + 2 \notin file.zero THEN 0
          ELSE IF position + 1 \notin file.zero THEN 1
          ELSE IF position + 0 \notin file.zero THEN 2 ELSE 3
  BY DEF PaddingWords, Words
<1>5. Locatable(s) <=> /\ f + 2 \notin file.zero
                       /\ \/ p % 12 = 0
                          \/ p % 12 = 4 /\ f + 6 \in file.zero /\ f + 5 \notin file.zero
  BY DEF Locatable
<1> HIDE DEF f, p, w, s
<1>6. CASE position = f /\ p % 12 = 4 /\ f + 6 \in file.zero /\ f + 5 \notin file.zero
  <2>1. padding = p
    BY <1>1, <1>3, <1>6
  <2>2. w = 0 <=> position + 2 \notin file.zero
    BY <1>4
  <2> QED BY <1>5, <1>6, <2>1, <2>2 DEF f, p, w, s
<1>7. CASE f <= position /\ \E j \in Nat : padding = 12 * j
  <2>1. PICK j \in Nat : padding = 12 * j
    BY <1>7
  <2>2. CASE position >= f + 12
    <3>1. /\ position \in f + 12 .. f + 12 + p - 1 /\ position + 1 \in f + 12 .. f + 12 + p - 1
          /\ position + 2 \in f + 12 .. f + 12 + p - 1 /\ position + 0 = position
      BY <1>1, <1>3, <2>2
    <3>2. w = 3
      BY <1>2, <1>4, <3>1
    <3>3. padding + 12 = 12 * (j + 1) /\ j + 1 \in Nat
      BY <2>1
    <3> QED BY <2>2, <3>2, <3>3 DEF f, w
  <2>3. CASE position < f + 12
    <3> DEFINE d == position - f
    <3>1. d \in 0 .. 11 /\ p = 12 * j + d /\ position = f + d
      <4>1. /\ f \in Nat /\ p \in Nat /\ position \in Nat /\ padding \in Nat
            /\ position + padding = f + p /\ f <= position
        BY <1>1, <1>3, <1>7
      <4>2. p = padding + (position - f)
        BY ONLY <4>1
      <4>3. position - f \in 0 .. 11 /\ position = f + (position - f)
        BY ONLY <4>1, <2>3
      <4> QED BY <2>1, <4>2, <4>3
    <3> HIDE DEF d
    <3>2. p % 12 = d
      BY ONLY <3>1, <1>1, DivUnique, j \in Nat
    <3>3. d \in {0, 4, 8}
      <4>1. p % 4 = 0 /\ p \in Nat /\ j \in Nat
        BY <1>1, <1>2
      <4> QED BY ONLY <3>1, <4>1, Z3
    <3>4. CASE d = 0
      <4>1. padding = p /\ position = f
        BY <1>1, <1>3, <3>1, <3>4
      <4>2. w = 0 <=> f + 2 \notin file.zero
        BY <1>4, <4>1
      <4> QED BY <1>5, <3>2, <3>4, <4>1, <4>2 DEF f, p, w, s
    <3>5. CASE d = 4
      <4>1. position = f + 4 /\ position + 2 = f + 6 /\ position + 1 = f + 5 /\ p % 12 = 4
        BY <1>1, <3>1, <3>2, <3>5
      <4>2. /\ w = 0 => f + 6 \notin file.zero
            /\ w = 1 => f + 6 \in file.zero /\ f + 5 \notin file.zero
            /\ w > 1 => f + 5 \in file.zero
        BY <1>4, <4>1
      <4> QED BY <1>5, <4>1, <4>2 DEF f, p, w, s
    <3>6. CASE d = 8
      <4>1. position = f + 8 /\ position + 2 = f + 10 /\ p % 12 = 8
        BY <1>1, <3>1, <3>2, <3>6
      <4>2. w = 0
        BY <1>2, <1>4, <4>1
      <4> QED BY <1>5, <4>1, <4>2 DEF f, p, w, s
    <3> QED BY <3>3, <3>4, <3>5, <3>6
  <2> QED BY <1>1, <2>2, <2>3
<1> QED BY <1>3, <1>6, <1>7

\* What is joined stays so as long as reader->index is left alone.
LEMMA JoinedKept ==
    ASSUME NEW k, Joined(k), UNCHANGED <<file, index>>,
           index # 0 => heap'[index].streams = heap[index].streams
    PROVE  Joined(k)'
BY DEF Joined, Behind, Locatable, Streams, Count

\* The scan for the footer of stream k finds it if it is locatable, and
\* otherwise nothing that decodes as a footer.
LEMMA FooterTurn ==
    ASSUME TypeOK, file.streams # <<>>, NEW k \in 1 .. Count, TurnInv(k), pc = "footer"
    PROVE  /\ SkipPadding \/ DecodeFooter => TurnInv(k)'
           /\ FooterTooShort \/ FooterWrong => ~Locatable(Streams[k])
<1> DEFINE s == Streams[k]
           f == s.foot
           p == s.pad
           b == file.footer[f].back
           w == PaddingWords(position)
           Missed == ~Locatable(s) /\ position \in file.missed
<1>1. /\ f \in Nat /\ p \in Nat /\ s.at \in Nat /\ b \in Nat \ {0}
      /\ s.at + 12 + b <= f /\ SoundStream(file, s)
      /\ \A i \in 1 .. 3 : f - 4 * i \in file.missed
  BY StreamFacts
<1>2. position \in Nat /\ padding \in Nat /\ w \in 0 .. 3
  BY FileFacts DEF TypeOK, PaddingWords, Words
<1>3. /\ f \in DOMAIN file.footer
      /\ \A q \in f + 1 .. f + p : q \notin DOMAIN file.footer
  BY <1>1 DEF SoundStream
<1>4. Joined(k) /\ (OnTrack(s) \/ Missed)
  BY DEF TurnInv
<1>5. position \in file.missed =>
        /\ position \notin DOMAIN file.footer
        /\ position >= 12 => position - 4 * w \in file.missed
  BY FormatAssumption DEF TypeOK, SoundFile, PaddingWords, HEADER
<1>6. ASSUME OnTrack(s)
      PROVE  \/ position >= f + 12 /\ w = 3 /\ \E j \in Nat : padding + 12 = 12 * j
             \/ position = f /\ (w = 0 <=> Locatable(s)) /\ padding = p
             \/ /\ position = f + 4
                /\ w = 0 => ~Locatable(s)
                /\ w = 1 => p % 12 = 4 /\ f + 6 \in file.zero /\ f + 5 \notin file.zero
                /\ w > 1 => ~Locatable(s)
             \/ position = f + 8 /\ w = 0 /\ ~Locatable(s)
  BY <1>6, TrackFacts
<1>7. OnTrack(s) => /\ position + padding = f + p
                    /\ position >= f
  BY <1>1, <1>2, <1>6 DEF OnTrack
<1> HIDE DEF s, f, p, b, w
<1>8. ASSUME SkipPadding PROVE TurnInv(k)'
  <2>1. /\ position >= 12 /\ w > 0 /\ pc' = "footer"
        /\ position' = position - 4 * w /\ padding' = padding + 4 * w
        /\ UNCHANGED <<file, index, heap>>
    BY <1>8 DEF SkipPadding, HEADER, w
  <2>2. Joined(k)'
    BY <1>4, <2>1, JoinedKept
  <2>3. OnTrack(s)' \/ Missed'
    <3>1. ASSUME position' \in file.missed, ~Locatable(s) PROVE Missed'
      BY <2>1, <3>1 DEF Locatable, s, Streams
    <3>2. CASE position \in file.missed /\ ~Locatable(s)
      BY <1>5, <2>1, <3>1, <3>2
    <3>3. CASE OnTrack(s)
      <4>1. position' + padding' = f + p
        BY <1>1, <1>2, <1>7, <2>1, <3>3
      <4>2. ASSUME \/ f <= position' /\ \E j \in Nat : padding' = 12 * j
                   \/ /\ position' = f /\ p % 12 = 4
                      /\ f + 6 \in file.zero /\ f + 5 \notin file.zero
            PROVE  OnTrack(s)'
        BY <2>1, <4>1, <4>2 DEF OnTrack, s, f, p, Streams
      <4>3. CASE position >= f + 12 /\ w = 3 /\ \E j \in Nat : padding + 12 = 12 * j
        <5>1. f <= position' /\ padding' = padding + 12
          BY <1>1, <1>2, <2>1, <4>3
        <5> QED BY <4>2, <4>3, <5>1
      <4>4. CASE position = f /\ (w = 0 <=> Locatable(s))
        <5>1. w \in 1 .. 3 /\ ~Locatable(s)
          BY <1>2, <2>1, <4>4
        <5> QED BY <1>1, <2>1, <3>1, <4>4, <5>1
      <4>5. CASE position = f + 4 /\ w = 1 /\ p % 12 = 4
                  /\ f + 6 \in file.zero /\ f + 5 \notin file.zero
        <5>1. position' = f
          BY <1>1, <2>1, <4>5
        <5> QED BY <4>2, <4>5, <5>1
      <4>6. CASE position = f + 4 /\ w > 1 /\ ~Locatable(s)
        <5>1. w - 1 \in 1 .. 3 /\ position' = f - 4 * (w - 1)
          BY <1>1, <1>2, <2>1, <4>6
        <5> QED BY <1>1, <3>1, <4>6, <5>1
      <4> QED BY <1>2, <1>6, <2>1, <3>3, <4>3, <4>4, <4>5, <4>6
    <3> QED BY <1>4, <3>2, <3>3
  <2> QED BY <2>1, <2>2, <2>3 DEF TurnInv, s
<1>9. ASSUME DecodeFooter PROVE TurnInv(k)'
  <2>1. /\ w = 0 /\ position \in DOMAIN file.footer /\ pc' = "index"
        /\ footer' = file.footer[position] /\ left' = file.footer[position].back
        /\ position' = position - file.footer[position].back
        /\ UNCHANGED <<file, padding, index, heap>>
    BY <1>9 DEF DecodeFooter, w
  <2>2. OnTrack(s)
    BY <1>4, <1>5, <2>1
  <2>3. position = f /\ Locatable(s) /\ padding = p
    <3>1. position \notin f + 1 .. f + p
      BY <1>3, <2>1
    <3>2. position <= f + p
      BY <1>1, <1>2, <1>7, <2>2
    <3>3. position = f
      BY <1>1, <1>2, <1>7, <2>2, <3>1, <3>2
    <3> QED BY <1>1, <1>2, <1>6, <2>1, <2>2, <3>3
  <2>4. left' = b /\ position' = f - b
    BY <2>1, <2>3 DEF b
  <2>5. left' > 0 /\ position' + left' = f
    BY <1>1, <2>4
  <2>6. FooterKnown(s)'
    BY <2>1, <2>3 DEF FooterKnown, Locatable, s, f, p, Streams
  <2>7. Joined(k)'
    BY <1>4, <2>1, JoinedKept
  <2> QED BY <2>1, <2>5, <2>6, <2>7 DEF TurnInv, s, f, Streams
<1>10. ASSUME Locatable(s) PROVE ~FooterTooShort /\ ~FooterWrong
  <2>1. OnTrack(s)
    BY <1>4, <1>10
  <2>2. position >= f /\ position >= 12
    BY <1>1, <1>2, <1>7, <2>1
  <2>3. ASSUME w = 0 PROVE position = f
    BY <1>6, <1>10, <2>1, <2>3
  <2>4. SizeSane(file.footer[f]) <=> position >= b + 12
    BY DEF SizeSane, HEADER, b
  <2>5. ~FooterWrong
    <3>1. SUFFICES ASSUME FooterWrong PROVE FALSE
      OBVIOUS
    <3>2. w = 0 /\ (position \in DOMAIN file.footer => ~SizeSane(file.footer[position]))
      BY <3>1 DEF FooterWrong, w
    <3>3. position = f /\ ~(position >= b + 12)
      BY <1>3, <2>3, <2>4, <3>2
    <3> QED BY <1>1, <3>3
  <2>6. ~FooterTooShort
    BY <1>2, <2>2 DEF FooterTooShort, HEADER
  <2> QED BY <2>5, <2>6
<1> QED BY <1>8, <1>9, <1>10 DEF s

\* The index of stream k is inside the file, as long as its footer says, and
\* is decoded to its end.
LEMMA IndexTurn ==
    ASSUME IInv, file.streams # <<>>, NEW k \in 1 .. Count, TurnInv(k), pc = "index"
    PROVE  /\ ~IndexWrong
           /\ ReadIndex \/ EndIndex => pc' \in {"index", "header"} /\ TurnInv(k)'
<1> DEFINE s == Streams[k]
           f == s.foot
           b == file.footer[f].back
<1>1. TypeOK /\ Ownership /\ left <= footer.back
  BY DEF IInv, Walk
<1>2. f \in Nat /\ b \in Nat \ {0} /\ SoundStream(file, s)
  BY <1>1, StreamFacts
<1>3. Joined(k) /\ FooterKnown(s) /\ left > 0 /\ position + left = f
  BY DEF TurnInv
<1>4. footer.back = b
  BY <1>3 DEF FooterKnown
<1>5. f - b \in DOMAIN file.index /\ file.index[f - b].len = b
  BY <1>2 DEF SoundStream
<1>6. position \in Nat /\ left \in Nat /\ IO_BUFFER_SIZE \in Nat \ {0}
  BY <1>1, FileFacts
<1> HIDE DEF s, f, b
<1>7. /\ IndexStart = f - b /\ Chunk \in 1 .. left /\ Fed = (b - left) + Chunk
  BY <1>1, <1>2, <1>3, <1>4, <1>6 DEF IndexStart, Chunk, Fed, Min
<1>8. HasIndex /\ file.index[IndexStart].len = b
  BY <1>5, <1>7 DEF HasIndex
<1>9. ~IndexWrong
  BY <1>7, <1>8 DEF IndexWrong
<1> HIDE DEF Chunk, Fed, IndexStart, HasIndex
<1>10. ASSUME UNCHANGED <<file, padding, footer, index>>,
              index # 0 => heap'[index].streams = heap[index].streams
       PROVE  Joined(k)' /\ FooterKnown(s)' /\ Streams' = Streams
  BY <1>3, <1>10, JoinedKept DEF FooterKnown, Locatable, Streams, s
<1>11. ASSUME ReadIndex PROVE pc' = "index" /\ TurnInv(k)'
  <2>1. /\ pc' = "index" /\ Fed < b /\ position' = position + Chunk /\ left' = left - Chunk
        /\ UNCHANGED <<file, padding, footer, index, heap>>
    BY <1>8, <1>11 DEF ReadIndex
  <2>2. left' > 0 /\ position' + left' = f
    BY <1>2, <1>3, <1>6, <1>7, <2>1
  <2>3. Joined(k)' /\ FooterKnown(s)' /\ Streams' = Streams
    BY <1>10, <2>1
  <2> QED BY <2>1, <2>2, <2>3 DEF TurnInv, s, f
<1>12. ASSUME EndIndex PROVE pc' = "header" /\ TurnInv(k)'
  <2>1. /\ Fed >= b /\ position' = position + Chunk /\ left' = left - Chunk
        /\ UNCHANGED <<file, padding, footer, index>>
    BY <1>8, <1>12 DEF EndIndex
  <2>2. Chunk = left /\ left' = 0 /\ Fed = b /\ position' = f
    BY <1>1, <1>2, <1>3, <1>4, <1>6, <1>7, <2>1
  <2>3. pc' = "header" /\ heap' = Append(heap, [streams |-> <<>>, status |-> "live"])
    BY <1>8, <1>12, <2>2 DEF EndIndex
  <2>4. index # 0 => heap'[index].streams = heap[index].streams
    <3> DEFINE x == [streams |-> <<>>, status |-> "live"]
    <3>1. x \in IndexRec
      BY DEF IndexRec
    <3> HIDE DEF x
    <3>2. heap \in Seq(IndexRec) /\ Len(heap) \in Nat /\ index \in 0 .. Len(heap)
      BY <1>1, FileFacts DEF TypeOK
    <3>3. \A i \in 1 .. Len(heap) : Append(heap, x)[i] = heap[i]
      BY <3>1, <3>2, AppendProperties
    <3> QED BY <2>3, <3>2, <3>3 DEF x
  <2>5. Joined(k)' /\ FooterKnown(s)' /\ Streams' = Streams
    BY <1>10, <2>1, <2>4
  <2> QED BY <2>2, <2>3, <2>5 DEF TurnInv, s, f
<1> QED BY <1>9, <1>11, <1>12

\* The header of stream k is where its index says, and fits the footer.
LEMMA HeaderTurn ==
    ASSUME TypeOK, file.streams # <<>>, NEW k \in 1 .. Count, TurnInv(k), pc = "header"
    PROVE  /\ ~HeaderWrong
           /\ CheckHeader => TurnInv(k)'
<1> DEFINE s == Streams[k]
           f == s.foot
           b == file.footer[f].back
           t == file.index[f - b].total
<1>1. f \in Nat /\ b \in Nat \ {0} /\ t \in Nat /\ s.at \in Nat /\ SoundStream(file, s)
  BY StreamFacts
<1>2. Joined(k) /\ FooterKnown(s) /\ position = f
  BY DEF TurnInv
<1>3. footer = file.footer[f] /\ footer.back = b /\ position - footer.back = f - b
  BY <1>2 DEF FooterKnown
<1>4. s.at = f - b - t - 12 /\ s.at \in DOMAIN file.header /\ file.header[s.at] = footer.flags
  BY <1>1, <1>3 DEF SoundStream, HEADER
<1>5. HeaderPos = f - (b + 12) - t
  BY <1>2, <1>3 DEF HeaderPos, HEADER
<1> HIDE DEF s, f, b, t
<1>6. HeaderPos = s.at
  BY <1>1, <1>4, <1>5
<1> HIDE DEF HeaderPos
<1>7. HeaderRight
  BY <1>1, <1>4, <1>6 DEF HeaderRight
<1>8. ASSUME CheckHeader PROVE TurnInv(k)'
  <2>1. /\ pc' = "join" /\ position' = s.at /\ UNCHANGED <<file, padding, footer, index, heap>>
    BY <1>6, <1>8 DEF CheckHeader
  <2>2. Joined(k)'
    BY <1>2, <2>1, JoinedKept
  <2>3. FooterKnown(s)' /\ Streams' = Streams
    BY <1>2, <2>1 DEF FooterKnown, Locatable, Streams, s
  <2> QED BY <2>1, <2>2, <2>3 DEF TurnInv, s
<1> QED BY <1>7, <1>8 DEF HeaderWrong

\* Stream k goes before the streams behind it.
LEMMA BehindNext ==
    ASSUME TypeOK, file.streams # <<>>, NEW k \in 1 .. Count
    PROVE  LET r == [at |-> Streams[k].at, pad |-> Streams[k].pad] IN
           /\ k = Count => <<r>> = Behind(k - 1)
           /\ k < Count => <<r>> \o Behind(k) = Behind(k - 1)
<1> DEFINE R == [at : Nat, pad : Nat]
           e == [i \in 1 .. Count |-> [at |-> Streams[i].at, pad |-> Streams[i].pad]]
           r == e[k]
           B(j) == [i \in 1 .. Count - j |-> e[j + i]]
<1>1. Count \in Nat \ {0} /\ k - 1 \in Nat /\ k \in Nat
  BY StreamFacts
<1>2. \A i \in 1 .. Count : e[i] \in R
  <2> TAKE i \in 1 .. Count
  <2>1. Streams[i].at \in Nat /\ Streams[i].pad \in Nat
    BY StreamFacts
  <2> QED BY <2>1
<1>3. ASSUME NEW j \in 0 .. Count PROVE Behind(j) = B(j)
  <2>1. \A i \in 1 .. Count - j : j + i \in 1 .. Count
    BY <1>1
  <2> QED BY <2>1 DEF Behind
<1>4. r = [at |-> Streams[k].at, pad |-> Streams[k].pad]
  OBVIOUS
<1> HIDE DEF e
<1>5. ASSUME NEW j \in 0 .. Count
      PROVE  /\ B(j) \in Seq(R) /\ Len(B(j)) = Count - j
             /\ \A i \in 1 .. Count - j : B(j)[i] = e[j + i]
  <2>1. \A i \in 1 .. Count - j : j + i \in 1 .. Count
    BY <1>1
  <2>2. Count - j \in Nat
    BY <1>1
  <2> HIDE DEF R
  <2> QED BY <1>2, <2>1, <2>2
<1>6. k \in 0 .. Count /\ k - 1 \in 0 .. Count
  BY <1>1
<1>7. <<r>> \in Seq(R) /\ Len(<<r>>) = 1 /\ <<r>>[1] = r
  BY <1>2
<1> HIDE DEF B, R
<1>8. /\ Len(B(k - 1)) = Count - (k - 1)
      /\ \A i \in 1 .. Count - (k - 1) : B(k - 1)[i] = e[(k - 1) + i]
  BY <1>5, <1>6, Zenon
<1>9. CASE k = Count
  <2>1. Len(B(k - 1)) = 1 /\ B(k - 1)[1] = r
    <3>1. Count - (k - 1) = 1 /\ (k - 1) + 1 = k /\ 1 \in 1 .. 1
      BY <1>1, <1>9
    <3> QED BY <1>8, <3>1
  <2>2. <<r>> = B(k - 1)
    BY <1>5, <1>6, <1>7, <2>1, SeqEqual
  <2> QED BY <1>3, <1>4, <1>6, <1>9, <2>2
<1>10. CASE k < Count
  <2> DEFINE c == <<r>> \o B(k)
  <2>1. /\ c \in Seq(R) /\ Len(c) = 1 + (Count - k)
        /\ \A i \in 1 .. 1 + (Count - k) : c[i] = IF i <= 1 THEN <<r>>[i] ELSE B(k)[i - 1]
    BY <1>5, <1>6, <1>7, ConcatProperties
  <2> HIDE DEF c
  <2>2. Len(B(k - 1)) = 1 + (Count - k)
    BY <1>1, <1>8
  <2>3. ASSUME NEW i \in 1 .. 1 + (Count - k) PROVE c[i] = B(k - 1)[i]
    <3>1. B(k - 1)[i] = e[(k - 1) + i]
      BY <1>1, <1>5, <1>6
    <3>2. CASE i = 1
      BY <1>1, <1>7, <2>1, <3>1, <3>2
    <3>3. CASE i # 1
      <4>1. i - 1 \in 1 .. Count - k /\ ~(i <= 1) /\ k + (i - 1) = (k - 1) + i
        BY <1>1, <3>3
      <4>2. c[i] = B(k)[i - 1] /\ B(k)[i - 1] = e[k + (i - 1)]
        BY <1>5, <1>6, <2>1, <4>1
      <4> QED BY <3>1, <4>1, <4>2
    <3> QED BY <3>2, <3>3
  <2>4. c = B(k - 1)
    BY <1>5, <1>6, <2>1, <2>2, <2>3, SeqEqual
  <2> QED BY <1>3, <1>4, <1>6, <1>10, <2>4 DEF c
<1> QED BY <1>1, <1>9, <1>10

\* The end of the turn for stream k: the next is about the stream before it,
\* or the parse has succeeded.
LEMMA JoinTurn ==
    ASSUME IInv, file.streams # <<>>, NEW k \in 1 .. Count, TurnInv(k), pc = "join", Join
    PROVE  \/ k > 1 /\ pc' = "stream" /\ TurnInv(k - 1)'
           \/ k = 1 /\ pc' = "parsed" /\ position' = 0 /\ Joined(0)'
<1> DEFINE s == Streams[k]
           r == [at |-> position, pad |-> padding]
<1>1. /\ TypeOK /\ Ownership /\ heap' = lzma_index_cat(heap, cur) /\ index' = cur
      /\ pc' = IF position > 0 THEN "stream" ELSE "parsed"
      /\ UNCHANGED <<file, position, padding>>
  BY DEF IInv, Join
<1>2. Joined(k) /\ Locatable(s) /\ padding = s.pad /\ position = s.at
  BY DEF TurnInv, FooterKnown
<1>3. /\ cur \in 1 .. Len(heap) /\ cur # index /\ index \in 0 .. Len(heap)
      /\ position \in Nat /\ padding \in Nat /\ heap \in Seq(IndexRec)
  BY <1>1, FileFacts DEF Ownership, TypeOK
<1>4. heap'[cur].streams = IF index = 0 THEN <<r>> ELSE <<r>> \o heap[index].streams
  BY <1>1, <1>3, CatFacts
<1>5. r = [at |-> Streams[k].at, pad |-> Streams[k].pad]
  BY <1>2
<1> HIDE DEF r
<1>6. Count \in Nat \ {0}
  BY <1>1, StreamsOrdered
<1>7. heap'[cur].streams = Behind(k - 1)
  <2>1. CASE k = Count
    BY <1>1, <1>2, <1>4, <1>5, <2>1, BehindNext DEF Joined
  <2>2. CASE k < Count
    BY <1>1, <1>2, <1>4, <1>5, <2>2, BehindNext DEF Joined
  <2> QED BY <1>6, <2>1, <2>2
<1>8. Joined(k - 1)'
  <2>1. Count' = Count /\ Streams' = Streams /\ Behind(k - 1)' = Behind(k - 1)
    BY <1>1 DEF Count, Streams, Behind
  <2>2. \A i \in (k - 1) + 1 .. Count : Locatable(Streams[i])
    <3> TAKE i \in (k - 1) + 1 .. Count
    <3>1. i = k \/ i \in k + 1 .. Count
      BY <1>6
    <3> QED BY <1>2, <3>1 DEF Joined
  <2>3. \A x : Locatable(x)' <=> Locatable(x)
    BY <1>1 DEF Locatable
  <2>4. k - 1 # Count /\ index' # 0
    BY <1>1, <1>3, <1>6
  <2> QED BY <1>1, <1>7, <2>1, <2>2, <2>3, <2>4 DEF Joined
<1>9. position = EndOf(k - 1) /\ (position > 0 <=> k > 1)
  <2>1. position = EndOf(k - 1)
    BY <1>1, <1>2, StreamFacts
  <2>2. CASE k = 1
    BY <1>1, <2>1, <2>2, StreamsOrdered
  <2>3. CASE k > 1
    <3>1. 0 \in 0 .. Count /\ k - 1 \in 0 + 1 .. Count
      BY <1>6, <2>3
    <3>2. 0 < EndOf(k - 1)
      BY <1>1, <3>1, StreamsOrdered
    <3> QED BY <1>3, <2>1, <2>3, <3>2
  <2> QED BY <1>6, <2>2, <2>3
<1>10. CASE k = 1
  BY <1>1, <1>3, <1>8, <1>9, <1>10
<1>11. CASE k > 1
  <2>1. pc' = "stream" /\ position' = EndOf(k - 1)'
    BY <1>1, <1>9, <1>11 DEF EndOf, Streams
  <2> QED BY <1>8, <1>11, <2>1 DEF TurnInv
<1> QED BY <1>6, <1>10, <1>11

-----------------------------------------------------------------------------
(* What is known of the walk holds throughout.                             *)

Turning == {"stream", "footer", "index", "header", "join"}

\* No step changes the file.
LEMMA FileKept == [Next]_vars => file' = file
BY DEF Next, ParseStep, Magic, NextStream, StreamTooShort, SkipPadding, FooterTooShort,
       DecodeFooter, FooterWrong, ReadIndex, EndIndex, IndexWrong, CheckHeader, HeaderWrong,
       Join, ReadFails, MemoryFails, FailAt, ProbeRefuses, ProbeAccepts, xz_reader_alloc,
       AllocFails, xz_reader_free, FreeReader, vars

\* The walk begins at the end of the last stream.
LEMMA WalkBegins ==
    ASSUME IInv, file.streams # <<>>, ParseBegins, file' = file
    PROVE  \E k \in 1 .. Count : TurnInv(k)'
<1>1. TypeOK /\ pc' = "stream" /\ position' = file.size /\ index' = 0
  BY DEF IInv, ParseBegins
<1>2. Count \in Nat \ {0} /\ EndOf(Count) = file.size
  BY <1>1, StreamsOrdered
<1>3. PICK k \in 1 .. Count : k = Count
  BY <1>2
<1>4. Count' = Count /\ EndOf(k)' = EndOf(k)
  BY DEF Count, Streams, EndOf
<1>5. Joined(k)'
  BY <1>1, <1>2, <1>3, <1>4 DEF Joined
<1>6. TurnInv(k)'
  BY <1>1, <1>2, <1>3, <1>4, <1>5 DEF TurnInv
<1> QED BY <1>6

\* Every step preserves it.
LEMMA FormatNext == ASSUME IInv, FormatInv, [Next]_vars PROVE FormatInv'
<1>1. file' = file /\ Count' = Count /\ \A x : Locatable(x)' <=> Locatable(x)
  BY FileKept DEF Count, Locatable
<1>2. SUFFICES ASSUME file.streams # <<>> PROVE FormatInv'
  BY <1>1 DEF FormatInv
<1>3. TypeOK
  BY DEF IInv
<1>4. ASSUME pc' \in Turning, \E k \in 1 .. Count : TurnInv(k)' PROVE FormatInv'
  BY <1>1, <1>4 DEF FormatInv, Turning
<1>5. ASSUME pc' = "done" PROVE FormatInv'
  BY <1>5 DEF FormatInv
<1>6. ASSUME NEW place, NEW code, FailAt(place, code),
             code \in {"DATA_ERROR", "FORMAT_ERROR"} => \E i \in 1 .. Count : ~Locatable(Streams[i])
      PROVE  FormatInv'
  <2>1. pc' = "failed" /\ ret' = code /\ Streams' = Streams
    BY <1>1, <1>6 DEF FailAt, Fail, Streams
  <2> QED BY <1>1, <1>6, <2>1 DEF FormatInv
<1>7. ASSUME pc \in Turning PROVE \E k \in 1 .. Count : TurnInv(k)
  BY <1>2, <1>7 DEF FormatInv, Turning
<1>8. CASE Magic \/ ProbeAccepts
  <2>1. ParseBegins \/ pc' = "done"
    BY <1>8 DEF Magic, ProbeAccepts
  <2>2. ParseBegins => pc' \in Turning
    BY DEF ParseBegins, Turning
  <2> QED BY <1>1, <1>2, <1>4, <1>5, <2>1, <2>2, WalkBegins
<1>9. CASE ProbeRefuses \/ xz_reader_alloc \/ AllocFails \/ xz_reader_free
  BY <1>5, <1>9 DEF ProbeRefuses, xz_reader_alloc, AllocFails, xz_reader_free, FreeReader
<1>10. CASE ReadFails \/ MemoryFails
  <2>1. \E place \in Turning, code \in {"PROG_ERROR", "MEM_ERROR"} : FailAt(place, code)
    BY <1>10 DEF ReadFails, MemoryFails, Turning
  <2> QED BY <1>6, <2>1
<1>11. CASE NextStream \/ StreamTooShort
  <2>1. pc = "stream" /\ pc \in Turning
    BY <1>11 DEF NextStream, StreamTooShort, FailAt, Turning
  <2>2. PICK k \in 1 .. Count : TurnInv(k)
    BY <1>7, <2>1
  <2>3. NextStream /\ TurnInv(k)'
    BY <1>2, <1>3, <1>11, <2>1, <2>2, TurnBegins
  <2> QED BY <1>4, <2>3 DEF NextStream, Turning
<1>12. CASE SkipPadding \/ DecodeFooter \/ FooterTooShort \/ FooterWrong
  <2>1. pc = "footer" /\ pc \in Turning
    BY <1>12 DEF SkipPadding, DecodeFooter, FooterTooShort, FooterWrong, FailAt, Turning
  <2>2. PICK k \in 1 .. Count : TurnInv(k)
    BY <1>7, <2>1
  <2>3. CASE SkipPadding \/ DecodeFooter
    <3>1. TurnInv(k)'
      BY <1>2, <1>3, <2>1, <2>2, <2>3, FooterTurn
    <3>2. pc' \in Turning
      BY <2>3 DEF SkipPadding, DecodeFooter, Turning
    <3> QED BY <1>4, <3>1, <3>2
  <2>4. CASE FooterTooShort \/ FooterWrong
    <3>1. ~Locatable(Streams[k])
      BY <1>2, <1>3, <2>1, <2>2, <2>4, FooterTurn
    <3>2. FailAt("footer", "DATA_ERROR") \/ FailAt("footer", "FORMAT_ERROR")
      BY <2>4 DEF FooterTooShort, FooterWrong
    <3> QED BY <1>6, <3>1, <3>2
  <2> QED BY <1>12, <2>3, <2>4
<1>13. CASE ReadIndex \/ EndIndex \/ IndexWrong
  <2>1. pc = "index" /\ pc \in Turning
    BY <1>13 DEF ReadIndex, EndIndex, IndexWrong, FailAt, Turning
  <2>2. PICK k \in 1 .. Count : TurnInv(k)
    BY <1>7, <2>1
  <2>3. pc' \in {"index", "header"} /\ TurnInv(k)'
    BY <1>2, <1>13, <2>1, <2>2, IndexTurn
  <2> QED BY <1>4, <2>3 DEF Turning
<1>14. CASE CheckHeader \/ HeaderWrong
  <2>1. pc = "header" /\ pc \in Turning
    BY <1>14 DEF CheckHeader, HeaderWrong, Turning
  <2>2. PICK k \in 1 .. Count : TurnInv(k)
    BY <1>7, <2>1
  <2>3. CheckHeader /\ TurnInv(k)'
    BY <1>2, <1>3, <1>14, <2>1, <2>2, HeaderTurn
  <2> QED BY <1>4, <2>3 DEF CheckHeader, Turning
<1>15. CASE Join
  <2>1. pc = "join" /\ pc \in Turning
    BY <1>15 DEF Join, Turning
  <2>2. PICK k \in 1 .. Count : TurnInv(k)
    BY <1>7, <2>1
  <2>3. \/ k > 1 /\ pc' = "stream" /\ TurnInv(k - 1)'
        \/ k = 1 /\ pc' = "parsed" /\ position' = 0 /\ Joined(0)'
    BY <1>2, <1>15, <2>1, <2>2, JoinTurn
  <2>4. CASE k > 1 /\ pc' = "stream" /\ TurnInv(k - 1)'
    <3>1. Count \in Nat
      BY <1>2, <1>3, StreamsOrdered
    <3>2. k - 1 \in 1 .. Count
      BY <2>4, <3>1
    <3> QED BY <1>4, <2>4, <3>2 DEF Turning
  <2>5. CASE pc' = "parsed" /\ position' = 0 /\ Joined(0)'
    BY <2>5 DEF FormatInv
  <2> QED BY <2>3, <2>4, <2>5
<1>16. CASE UNCHANGED vars
  <2>1. UNCHANGED <<file, pc, position, padding, footer, left, index, heap, ret>>
    BY <1>16 DEF vars
  <2>2. Streams' = Streams /\ \A k : Joined(k)' <=> Joined(k)
    BY <2>1 DEF Joined, Behind, Locatable, Streams, Count
  <2>3. \A x : (OnTrack(x)' <=> OnTrack(x)) /\ (FooterKnown(x)' <=> FooterKnown(x))
    BY <1>1, <2>1 DEF OnTrack, FooterKnown
  <2>4. \A k : EndOf(k)' = EndOf(k)
    BY <2>2 DEF EndOf
  <2>5. \A k : TurnInv(k) => TurnInv(k)'
    BY <1>1, <2>1, <2>2, <2>3, <2>4 DEF TurnInv
  <2>6. CASE pc \in Turning
    BY <1>4, <1>7, <2>1, <2>5, <2>6
  <2>7. CASE pc \notin Turning
    BY <1>1, <1>2, <2>1, <2>2, <2>7 DEF FormatInv, Turning
  <2> QED BY <2>6, <2>7
<1> QED BY <1>8, <1>9, <1>10, <1>11, <1>12, <1>13, <1>14, <1>15, <1>16 DEF Next, ParseStep

\* Opening a file, with any number of streams, paddings and buffer size,
\* whatever fails: the parse of an xz file succeeds only if the scan can find
\* every footer, and fails for its contents only if there is one it cannot; at
\* every turn of the loop, and when it is done, reader->index describes the
\* streams behind the position, in order and with their padding.
THEOREM XzIndexExact == Spec => [](AcceptsExactly /\ (file.streams # <<>> => IndexIsFile))
<1>1. Init => FormatInv
  BY DEF Init, FormatInv
<1>2. IInv /\ FormatInv => AcceptsExactly /\ (file.streams # <<>> => IndexIsFile)
  <2>0. file.streams = <<>> => AcceptsExactly
    BY DEF AcceptsExactly
  <2>1. SUFFICES ASSUME IInv, FormatInv, file.streams # <<>>
                 PROVE  IndexIsFile /\ AcceptsExactly
    BY <2>0
  <2>2. TypeOK /\ Ownership /\ Count \in Nat \ {0} /\ EndOf(0) = 0
    BY <2>1, StreamsOrdered DEF IInv
  <2>3. IndexIsFile
    <3>1. SUFFICES ASSUME (pc = "stream" /\ index # 0) \/ pc = "parsed"
                   PROVE  /\ heap[index].status = "live"
                          /\ heap[index].streams = StreamsFrom(position)
      BY DEF IndexIsFile
    <3>2. PICK k \in 0 .. Count : Joined(k) /\ position = EndOf(k)
      <4>1. CASE pc = "stream"
        <5>1. PICK k \in 1 .. Count : TurnInv(k)
          BY <2>1, <4>1 DEF FormatInv
        <5> QED BY <2>2, <4>1, <5>1 DEF TurnInv
      <4>2. CASE pc = "parsed"
        <5>1. Joined(0) /\ position = EndOf(0) /\ 0 \in 0 .. Count
          BY <2>1, <2>2, <4>2 DEF FormatInv
        <5> QED BY <5>1
      <4> QED BY <3>1, <4>1, <4>2
    <3>3. index # 0
      <4>1. CASE pc = "parsed"
        BY <2>1, <2>2, <4>1 DEF FormatInv, Joined
      <4> QED BY <3>1, <4>1
    <3>4. heap[index].streams = Behind(k)
      BY <2>2, <3>2, <3>3 DEF Joined
    <3>5. index \in 1 .. Len(heap) /\ index \in Owned
      BY <2>2, <3>1, <3>3 DEF TypeOK, Owned, Parsing
    <3>6. heap[index].status = "live"
      BY <2>2, <3>5 DEF Ownership
    <3>7. StreamsFrom(position) = Behind(k)
      BY <2>1, <2>2, <3>2, FromBehind
    <3> QED BY <3>4, <3>6, <3>7
  <2>4. AcceptsExactly
    BY <2>1, <2>2 DEF AcceptsExactly, FormatInv, Joined, Streams, Count
  <2> QED BY <2>3, <2>4
<1>3. IInv /\ FormatInv /\ [Next]_vars => FormatInv'
  BY FormatNext
<1> QED BY <1>1, <1>2, <1>3, InitInv, NextInv, PTL DEF Spec
=============================================================================
