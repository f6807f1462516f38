------------------------------ MODULE MCXzIndex -----------------------------
(***************************************************************************)
(* Instances of XzIndex for TLC: files of one to three streams, with every *)
(* padding up to 24 bytes, and files that are not as they should be.       *)
(***************************************************************************)
EXTENDS XzIndex, FiniteSets

\* A stream to lay out: size of its blocks and of its index, padding, and
\* whether the third byte of its footer is zero, and so that of the last word
\* of its index.
St(blocks, idx, pad, zero) == [blocks |-> blocks, idx |-> idx, pad |-> pad, zero |-> zero]
Length(s) == 2 * HEADER + s.blocks + s.idx + s.pad

Start(l) == LET S[i \in 1 .. Len(l) + 1] == IF i = 1 THEN 0 ELSE S[i - 1] + Length(l[i - 1])
            IN  S
Foot(l, i) == Start(l)[i] + HEADER + l[i].blocks + l[i].idx

\* The bytes of the footer's size field, then the two of its flags.
SizeByte(s, b) == ((s.idx \div 4 - 1) \div 256 ^ b) % 256
FooterZeros(l, i) ==
    {Foot(l, i) + 4 + b : b \in {c \in 0 .. 3 : SizeByte(l[i], c) = 0}}
      \cup {Foot(l, i) + 8} \cup (IF l[i].zero THEN {Foot(l, i) + 2, Foot(l, i) - 2} ELSE {})

At(l, P(_, _), V(_)) ==
    [p \in {P(l, i) : i \in 1 .. Len(l)} |-> V(l[CHOOSE i \in 1 .. Len(l) : P(l, i) = p])]
HeaderAt(l, i) == Start(l)[i]
IndexAt(l, i) == Foot(l, i) - l[i].idx

FileOf(l) ==
    [magic |-> TRUE, big |-> FALSE,
     size |-> Start(l)[Len(l) + 1],
     zero |-> UNION {FooterZeros(l, i) \cup (Foot(l, i) + HEADER .. Start(l)[i + 1] - 1)
                        : i \in 1 .. Len(l)},
     footer |-> At(l, Foot, LAMBDA s : [back |-> s.idx, flags |-> 1]),
     index |-> At(l, IndexAt, LAMBDA s : [len |-> s.idx, total |-> s.blocks]),
     header |-> At(l, HeaderAt, LAMBDA s : 1),
     missed |-> {Foot(l, i) - 4 * w : i \in 1 .. Len(l), w \in 1 .. 3},
     streams |-> [i \in 1 .. Len(l) |->
                    [at |-> Start(l)[i], foot |-> Foot(l, i), pad |-> l[i].pad]]]

\* Paddings a writer of the format may use; an index of one buffer, of two,
\* and one whose size takes two bytes.
Padding == {0, 4, 8, 12, 16, 24}
One == {FileOf(<<St(b, i, p, z)>>) : b \in {0, 20}, i \in {8, 16, 1028},
                                     p \in Padding, z \in BOOLEAN}
Two == {FileOf(<<St(8, 8, p, FALSE), St(4, 12, q, z)>>) : p, q \in Padding, z \in BOOLEAN}
Three == {FileOf(<<St(0, 8, p, FALSE), St(16, 12, q, FALSE), St(4, 8, 12, FALSE)>>) :
            p, q \in {0, 12}}

\* Not xz files: no magic bytes, too short, a header that is missing or does
\* not fit the footer, an index shorter or longer than the footer says, blocks
\* or an index larger than what is before them.
Good == FileOf(<<St(8, 8, 0, FALSE), St(4, 16, 12, FALSE)>>)
Bad == {[f EXCEPT !.streams = <<>>] : f \in {
    [Good EXCEPT !.magic = FALSE],
    [Good EXCEPT !.size = 20, !.zero = {}],
    [Good EXCEPT !.header = [p \in {0} |-> 1]],
    [Good EXCEPT !.header = [p \in DOMAIN @ |-> IF p = 0 THEN 1 ELSE 2]],
    [Good EXCEPT !.index = [p \in DOMAIN @ |-> [@[p] EXCEPT !.len = @ - 4]]],
    [Good EXCEPT !.index = [p \in DOMAIN @ |-> [@[p] EXCEPT !.len = @ + 4]]],
    [Good EXCEPT !.index = [p \in DOMAIN @ |-> [@[p] EXCEPT !.total = @ + 80]]],
    [Good EXCEPT !.index = [p \in {} |-> [len |-> 0, total |-> 0]]],
    [Good EXCEPT !.footer = [p \in DOMAIN @ |-> [@[p] EXCEPT !.back = @ + 80]]],
    [Good EXCEPT !.size = 24, !.zero = 0 .. 23]}}
Big == {[Good EXCEPT !.big = TRUE]}

AllFiles == One \cup Two \cup Three \cup Bad \cup Big
\* One stream with four bytes of padding, the least the format allows.
PaddedFiles == {FileOf(<<St(b, 8, 4, FALSE)>>) : b \in {0, 20}}
NoFaults == {}
AllFaults == {"io", "mem"}
=============================================================================
