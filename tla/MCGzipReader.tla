---------------------------- MODULE MCGzipReader ----------------------------
(***************************************************************************)
(* Instances of GzipReader for TLC: a stream of seven blocks for 20 bytes, *)
(* the first one empty, each byte five bits and each block two more.       *)
(***************************************************************************)
EXTENDS GzipReader, TLC

Bytes20 == 20
Ends == <<0, 3, 7, 9, 14, 17, 20>>
EndOf == [k \in 0 .. 7 |-> IF k = 0 THEN 0 ELSE Ends[k]]
BlockOf(n) == CHOOSE k \in 1 .. 7 : EndOf[k - 1] < n /\ n <= EndOf[k]
EndBitOf == [k \in 0 .. 7 |-> 8 + 2 * k + 5 * EndOf[k]]
ByteBitOf == [n \in 0 .. 20 |-> IF n = 0 THEN 8
                                ELSE 8 + 2 * (BlockOf(n) - 1) + 1 + 5 * n]

\* References no further than two bytes, or as far as the window reaches.
ShortDist == [n \in 0 .. 19 |-> IF n >= 2 /\ n % 3 # 1 THEN 1 + (n % 2) ELSE 0]
LongDist == [n \in 0 .. 19 |-> IF n >= 4 /\ n % 3 # 1 THEN 4 ELSE 0]

WholeFile == 17
NoFaults == {}
AllFaults == {"io", "data", "mem"}

Instance(chunk, dist, size, faults) ==
    [chunk |-> chunk, dist |-> dist, size |-> size, faults |-> faults]

SmallChunks == Instance(5, ShortDist, WholeFile, NoFaults)
TruncatedInOneChunk == Instance(17, LongDist, 15, AllFaults)
LongInSmallChunks == Instance(5, LongDist, WholeFile, NoFaults)
SomeInstances == {SmallChunks, TruncatedInOneChunk}
WindowInstances == {LongInSmallChunks}
=============================================================================
