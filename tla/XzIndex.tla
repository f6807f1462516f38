------------------------------ MODULE XzIndex -------------------------------
(***************************************************************************)
(* Opening an xz file (src/compression/xz/xz_reader.c): xz_is_supported    *)
(* and xz_reader_alloc, both of which run parse_block_indexes, which walks *)
(* the streams of the file from the last to the first and joins their      *)
(* block indexes; and the end of the index in xz_reader_free.              *)
(*                                                                         *)
(* A file is described by what pread and liblzma's decoders find in it:    *)
(* where zero bytes are, and at which positions a footer, an index or a    *)
(* header decodes.  `streams' is what the format says the file holds,      *)
(* empty for a file that is not an xz file.  The heap records what becomes *)
(* of every lzma_index, so leaks and double frees can be seen.             *)
(***************************************************************************)
EXTENDS Integers, Sequences

CONSTANTS
    Files,           \* the files that may be opened
    IO_BUFFER_SIZE,
    Faults           \* subset of {"io", "mem"}: pread or liblzma fails

\* LZMA_STREAM_HEADER_SIZE: a stream header, and a footer.
HEADER == 12

\* A stream: where its header and its footer are, and the padding behind it.
StreamType == [at : Nat, foot : Nat, pad : Nat]

ASSUME FilesAssumption ==
    /\ IO_BUFFER_SIZE \in Nat \ {0}
    /\ Faults \subseteq {"io", "mem"}
    /\ \A f \in Files :
          /\ f.magic \in BOOLEAN /\ f.big \in BOOLEAN
          /\ f.size \in Nat /\ f.zero \subseteq 0 .. f.size - 1
          /\ f.streams \in Seq(StreamType)
          /\ \A p \in DOMAIN f.footer : f.footer[p] \in [back : Nat, flags : Nat]
          /\ \A p \in DOMAIN f.index : f.index[p] \in [len : Nat, total : Nat]
          /\ \A p \in DOMAIN f.header : f.header[p] \in Nat

\* How many words the scan for a footer takes the bytes at p for: it looks at
\* bytes 2, 1 and 0 of the buffer, and takes each zero for four bytes.
Words(f, p) ==
    LET Zero(i) == p + i \in f.zero
    IN  IF ~Zero(2) THEN 0 ELSE IF ~Zero(1) THEN 1 ELSE IF ~Zero(0) THEN 2 ELSE 3

\* What the format says of a stream: a header, blocks, their index and a
\* footer, then padding.  Nothing but the footer decodes as one up to the
\* next stream, and its last word is not zero (it ends in YZ).
SoundStream(f, s) ==
    /\ s.pad % 4 = 0 /\ s.foot + HEADER .. s.foot + HEADER + s.pad - 1 \subseteq f.zero
    /\ s.foot \in DOMAIN f.footer /\ s.foot + 10 \notin f.zero
    /\ \A p \in s.foot + 1 .. s.foot + s.pad : p \notin DOMAIN f.footer
    /\ LET back == f.footer[s.foot].back
       IN  /\ back > 0 /\ s.foot - back \in DOMAIN f.index
           /\ f.index[s.foot - back].len = back
           /\ s.at = s.foot - back - f.index[s.foot - back].total - HEADER
    /\ s.at \in DOMAIN f.header /\ f.header[s.at] = f.footer[s.foot].flags

\* The streams fill the file.  A scan that has missed a footer goes through
\* positions f.missed, and does not come to one that decodes as a footer.
SoundFile(f) ==
    LET n == Len(f.streams)
        End(s) == s.foot + HEADER + s.pad
    IN  /\ \A i \in 1 .. n : SoundStream(f, f.streams[i])
        /\ f.streams[1].at = 0 /\ End(f.streams[n]) = f.size
        /\ \A i \in 1 .. n - 1 : f.streams[i + 1].at = End(f.streams[i])
        /\ \A i \in 1 .. n : {f.streams[i].foot - 4 * w : w \in 1 .. 3} \subseteq f.missed
        /\ \A p \in f.missed : /\ p \notin DOMAIN f.footer
                               /\ p >= HEADER => p - 4 * Words(f, p) \in f.missed

ASSUME FormatAssumption == \A f \in Files : f.streams # <<>> => SoundFile(f)

VARIABLES
    file,
    phase,      \* which caller parses, or what became of the file
    pc,
    position,   \* position, in the file
    padding,    \* stream_padding of the stream at hand
    footer,     \* position and flags of its footer
    left,       \* index_size: bytes of its index still to be decoded
    cur,        \* current_index, 0 for NULL
    index,      \* reader->index, 0 for NULL
    heap,       \* every lzma_index made so far
    probed,     \* the index xz_is_supported accepted the file with, or 0
    ret         \* return_value

parse == <<position, padding, footer, left, cur, index, heap, ret>>
vars == <<file, phase, pc, position, padding, footer, left, cur, index, heap,
          probed, ret>>

NoFooter == [back |-> 0, flags |-> 0]

Init ==
    /\ file \in Files
    /\ phase = "probe"
    /\ pc = "magic"
    /\ position = 0 /\ padding = 0 /\ footer = NoFooter /\ left = 0
    /\ cur = 0 /\ index = 0 /\ heap = <<>> /\ probed = 0 /\ ret = "OK"

-----------------------------------------------------------------------------
(* lzma_index_end and the error exit.                                      *)

\* Ending NULL does nothing; ending an index that is not live is undefined.
lzma_index_end(h, i) ==
    IF i = 0 THEN h
    ELSE [h EXCEPT ![i].status = IF @ = "live" THEN "ended" ELSE "twice"]

\* Mutant: only the joined index is ended.
FailEndsJoined(code, h) ==
    /\ pc' = "failed" /\ ret' = code
    /\ heap' = lzma_index_end(h, index)

\* error: both indexes are ended, reader->index keeps its value.
Fail(code, h) ==
    /\ pc' = "failed" /\ ret' = code
    /\ heap' = lzma_index_end(lzma_index_end(h, index), cur')

\* A step that fails without having decoded anything.
FailAt(place, code) ==
    /\ pc = place
    /\ cur' = cur
    /\ Fail(code, heap)
    /\ UNCHANGED <<file, phase, position, padding, footer, left, index, probed>>

-----------------------------------------------------------------------------
(* parse_block_indexes.                                                    *)

ParseBegins ==
    /\ pc' = "stream"
    /\ position' = file.size
    /\ cur' = 0 /\ index' = 0 /\ ret' = "OK"

\* One more stream must fit before `position'.
NextStream ==
    /\ pc = "stream"
    /\ position >= 2 * HEADER
    /\ position' = position - HEADER
    /\ padding' = 0
    /\ pc' = "footer"
    /\ UNCHANGED <<file, phase, footer, left, cur, index, heap, probed, ret>>

StreamTooShort == position < 2 * HEADER /\ FailAt("stream", "DATA_ERROR")

\* Mutant: the bytes are taken for the words they stand for.
ZeroWords(p) ==
    LET Zero(i) == \A b \in 0 .. 3 : p + 4 * i + b \in file.zero
    IN  IF ~Zero(2) THEN 0 ELSE IF ~Zero(1) THEN 1 ELSE IF ~Zero(0) THEN 2 ELSE 3

\* How often the inner loop turns, each time taking a zero byte for four bytes
\* of padding.
PaddingWords(p) == Words(file, p)

SkipPadding ==
    /\ pc = "footer"
    /\ position >= HEADER
    /\ PaddingWords(position) > 0
    /\ position' = position - 4 * PaddingWords(position)
    /\ padding' = padding + 4 * PaddingWords(position)
    /\ UNCHANGED <<file, phase, pc, footer, left, cur, index, heap, probed, ret>>

FooterTooShort == position < HEADER /\ FailAt("footer", "DATA_ERROR")

\* Mutant: the size of the index is not checked.
AnySize(f) == f.back >= 0

\* The size of the index in the footer looks sane.
SizeSane(f) == position >= f.back + HEADER

\* The footer is taken to be at `position': lzma_stream_footer_decode, and
\* the index before it must fit.
DecodeFooter ==
    /\ pc = "footer"
    /\ position >= HEADER
    /\ PaddingWords(position) = 0
    /\ position \in DOMAIN file.footer
    /\ LET f == file.footer[position]
       IN  /\ SizeSane(f)
           /\ footer' = f
           /\ position' = position - f.back
           /\ left' = f.back
    /\ pc' = "index"
    /\ UNCHANGED <<file, phase, padding, cur, index, heap, probed, ret>>

FooterWrong ==
    /\ position >= HEADER
    /\ PaddingWords(position) = 0
    /\ position \in DOMAIN file.footer => ~SizeSane(file.footer[position])
    /\ FailAt("footer", "FORMAT_ERROR")

Min(a, b) == IF a < b THEN a ELSE b

\* One turn of the loop that feeds the index to lzma_code.
IndexStart == position - (footer.back - left)
Chunk == Min(IO_BUFFER_SIZE, left)
Fed == (footer.back - left) + Chunk
HasIndex == IndexStart \in DOMAIN file.index

ReadIndex ==
    /\ pc = "index"
    /\ HasIndex /\ Chunk > 0
    /\ Fed < file.index[IndexStart].len
    /\ position' = position + Chunk
    /\ left' = left - Chunk
    /\ UNCHANGED <<file, phase, pc, padding, footer, cur, index, heap, probed, ret>>

\* LZMA_STREAM_END: current_index is set; it must be where the footer says.
EndIndex ==
    /\ pc = "index"
    /\ HasIndex
    /\ Fed >= file.index[IndexStart].len
    /\ position' = position + Chunk
    /\ left' = left - Chunk
    /\ cur' = Len(heap) + 1
    /\ LET h == Append(heap, [streams |-> <<>>, status |-> "live"])
       IN  IF left' = 0 /\ Fed = file.index[IndexStart].len
           THEN pc' = "header" /\ heap' = h /\ ret' = ret
           ELSE Fail("DATA_ERROR", h)
    /\ UNCHANGED <<file, phase, padding, footer, index, probed>>

\* Mutant: the end of the input is not noticed.
IndexMissing == ~HasIndex /\ FailAt("index", "DATA_ERROR")

\* No index there, or one longer than the footer says (no input is left).
IndexWrong == (~HasIndex \/ Chunk = 0) /\ FailAt("index", "DATA_ERROR")

\* The blocks and the header before the index; both ends of the stream must
\* agree.
HeaderPos == position - (footer.back + HEADER) - file.index[position - footer.back].total
HeaderRight ==
    /\ HeaderPos >= 0
    /\ HeaderPos \in DOMAIN file.header
    /\ file.header[HeaderPos] = footer.flags

CheckHeader ==
    /\ pc = "header"
    /\ HeaderRight
    /\ position' = HeaderPos
    /\ pc' = "join"
    /\ UNCHANGED <<file, phase, padding, footer, left, cur, index, heap, probed, ret>>

HeaderWrong == pc = "header" /\ ~HeaderRight /\ FailAt("header", "DATA_ERROR")

\* Mutant: the streams are joined in the order they were found.
CatBehind(h, new) ==
    LET s == <<[at |-> position, pad |-> padding]>>
    IN  IF index = 0 THEN [h EXCEPT ![new].streams = s]
        ELSE [h EXCEPT ![new].streams = h[index].streams \o s, ![index].status = "moved"]

\* lzma_index_stream_padding and lzma_index_cat: the streams found so far go
\* behind this one, and their index is part of the new one.
lzma_index_cat(h, new) ==
    LET s == <<[at |-> position, pad |-> padding]>>
    IN  IF index = 0 THEN [h EXCEPT ![new].streams = s]
        ELSE [h EXCEPT ![new].streams = s \o h[index].streams, ![index].status = "moved"]

\* Mutant: current_index is not reset.
JoinKeepsCurrent ==
    /\ pc = "join"
    /\ heap' = lzma_index_cat(heap, cur)
    /\ index' = cur
    /\ pc' = IF position > 0 THEN "stream" ELSE "parsed"
    /\ UNCHANGED <<file, phase, position, padding, footer, left, cur, probed, ret>>

\* The end of one turn of the outer loop.
Join ==
    /\ pc = "join"
    /\ heap' = lzma_index_cat(heap, cur)
    /\ index' = cur
    /\ cur' = 0
    /\ pc' = IF position > 0 THEN "stream" ELSE "parsed"
    /\ UNCHANGED <<file, phase, position, padding, footer, left, probed, ret>>

\* pread is short; liblzma is out of memory, in lzma_index_decoder or, with
\* two indexes to join, in lzma_index_cat.
ReadFails ==
    /\ "io" \in Faults
    /\ \/ position >= HEADER /\ FailAt("footer", "PROG_ERROR")
       \/ FailAt("index", "PROG_ERROR")
       \/ pc = "header" /\ HeaderPos >= 0 /\ FailAt("header", "PROG_ERROR")

MemoryFails ==
    /\ "mem" \in Faults
    /\ \/ FailAt("index", "MEM_ERROR")
       \/ index # 0 /\ FailAt("join", "MEM_ERROR")

-----------------------------------------------------------------------------
(* xz_is_supported, xz_reader_alloc and xz_reader_free.                    *)

\* The file begins with the magic bytes, or is refused.
Magic ==
    /\ pc = "magic"
    /\ IF file.magic
       THEN ParseBegins /\ UNCHANGED phase
       ELSE pc' = "done" /\ phase' = "refused" /\ UNCHANGED <<position, cur, index, ret>>
    /\ UNCHANGED <<file, padding, footer, left, heap, probed>>

\* Refused: the index of the local reader is ended only if a block is too big.
ProbeRefuses ==
    /\ phase = "probe"
    /\ pc = "failed" \/ (pc = "parsed" /\ file.big)
    /\ heap' = IF pc = "parsed" THEN lzma_index_end(heap, index) ELSE heap
    /\ phase' = "refused" /\ pc' = "done"
    /\ UNCHANGED <<file, position, padding, footer, left, cur, index, probed, ret>>

\* Accepted: the local reader goes, its index stays, and xz_reader_alloc
\* parses the file again.
ProbeAccepts ==
    /\ phase = "probe" /\ pc = "parsed" /\ ~file.big
    /\ probed' = index
    /\ phase' = "alloc"
    /\ ParseBegins
    /\ UNCHANGED <<file, padding, footer, left, heap>>

xz_reader_alloc ==
    /\ phase = "alloc" /\ pc = "parsed"
    /\ phase' = "open" /\ pc' = "done"
    /\ UNCHANGED <<file, parse, probed>>

\* A failing xz_reader_alloc frees the reader.
FreeReader ==
    /\ pc' = "done"
    /\ heap' = lzma_index_end(heap, index)
    /\ UNCHANGED <<file, position, padding, footer, left, cur, index, probed, ret>>

AllocFails == phase = "alloc" /\ pc = "failed" /\ phase' = "none" /\ FreeReader
xz_reader_free == phase = "open" /\ phase' = "closed" /\ FreeReader

-----------------------------------------------------------------------------
ParseStep ==
    \/ NextStream \/ StreamTooShort \/ SkipPadding \/ FooterTooShort
    \/ DecodeFooter \/ FooterWrong \/ ReadIndex \/ EndIndex \/ IndexWrong
    \/ CheckHeader \/ HeaderWrong \/ Join

Next ==
    \/ Magic \/ ParseStep \/ ReadFails \/ MemoryFails
    \/ ProbeRefuses \/ ProbeAccepts
    \/ xz_reader_alloc \/ AllocFails \/ xz_reader_free

Spec == Init /\ [][Next]_vars

\* Opening the file runs until it is accepted or refused; nothing has to fail.
FairSpec == Spec /\ WF_vars(Magic \/ ParseStep \/ ProbeRefuses \/ ProbeAccepts
                            \/ xz_reader_alloc \/ AllocFails)

-----------------------------------------------------------------------------
(* Properties.                                                             *)

Pcs == {"magic", "stream", "footer", "index", "header", "join", "parsed",
        "failed", "done"}

\* Every variable has its type; the position is never outside the file, so
\* that every pread starts inside it.
TypeOK ==
    /\ file \in Files
    /\ phase \in {"probe", "refused", "alloc", "open", "none", "closed"}
    /\ pc \in Pcs
    /\ position \in 0 .. file.size
    /\ padding \in Nat /\ left \in Nat
    /\ footer \in [back : Nat, flags : Nat]
    /\ cur \in 0 .. Len(heap) /\ index \in 0 .. Len(heap) /\ probed \in 0 .. Len(heap)
    /\ heap \in Seq([streams : Seq([at : Nat, pad : Nat]),
                     status : {"live", "moved", "ended", "twice"}])
    /\ ret \in {"OK", "DATA_ERROR", "FORMAT_ERROR", "PROG_ERROR", "MEM_ERROR"}

\* The streams of the file from position p on, as an index describes them.
StreamsFrom(p) ==
    LET s == file.streams
        before == CHOOSE k \in 0 .. Len(s) : \A i \in 1 .. Len(s) : i > k <=> s[i].at >= p
    IN  [i \in 1 .. Len(s) - before |-> [at |-> s[before + i].at, pad |-> s[before + i].pad]]

\* At every turn of the outer loop, reader->index describes all streams behind
\* the position, in the order of the file and with their padding; when the
\* parse succeeds that is the whole file.
IndexIsFile ==
    (pc = "stream" /\ index # 0) \/ pc = "parsed"
       => heap[index].status = "live" /\ heap[index].streams = StreamsFrom(position)

\* The scan for the footer of a stream stops at it only if the third byte of
\* the footer is not zero and the padding is a multiple of twelve bytes, or
\* four bytes more and the footer's size field as wide as two bytes.
Locatable(s) ==
    /\ s.foot + 2 \notin file.zero
    /\ \/ s.pad % 12 = 0
       \/ s.pad % 12 = 4 /\ s.foot + 6 \in file.zero /\ s.foot + 5 \notin file.zero

\* parse_block_indexes succeeds on exactly the xz files whose footers the
\* scan can find (unless pread or malloc fails).
AcceptsExactly ==
    /\ pc = "parsed" => \A i \in 1 .. Len(file.streams) : Locatable(file.streams[i])
    /\ pc = "failed" /\ ret \in {"DATA_ERROR", "FORMAT_ERROR"}
          => file.streams = <<>> \/ \E i \in 1 .. Len(file.streams) : ~Locatable(file.streams[i])

\* No lzma_index is ended twice or after it became part of another, except by
\* an xz_reader_alloc whose parse fails behind the first stream it joined:
\* reader->index, ended at the error exit, is ended again by xz_reader_free.
EndedOnce ==
    (\E i \in 1 .. Len(heap) : heap[i].status = "twice")
       => phase = "none" /\ heap[index].status = "twice"

\* When the file has been refused, failed to open or was closed, no index is
\* left but the one xz_is_supported accepted it with, which nothing ends.
OnlyProbeLeaks ==
    phase \in {"refused", "none", "closed"}
       => {i \in 1 .. Len(heap) : heap[i].status = "live"}
             = IF probed = 0 THEN {} ELSE {probed}

\* Stream padding is always a multiple of four bytes, and any multiple of four
\* is skipped: an xz file is never refused for its contents.
WellFormedParses ==
    pc = "failed" /\ ret \in {"DATA_ERROR", "FORMAT_ERROR"} => file.streams = <<>>

\* The walk back through the file ends: it is accepted or refused.
OpeningEnds == <>(phase \in {"refused", "none", "open", "closed"})
=============================================================================
