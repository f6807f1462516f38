-------------------------- MODULE GzipReaderProofs --------------------------
(***************************************************************************)
(* The gzip reader, for every deflate stream, every file and every         *)
(* sequence of reads: its index is the one a single pass would have built, *)
(* every access point restarts decompression where it should, a read never *)
(* skips far, and a file read in one chunk is read right.                  *)
(***************************************************************************)
EXTENDS GzipReader, SequenceTheorems, LeastNumber

-----------------------------------------------------------------------------
(* The inductive invariant.                                                *)

\* Access point e was made at the end of block k.
PointAt(e, k) ==
    /\ e.raw = End[k]
    /\ e.comp = compressed_byte_address(k)
    /\ e.bits = bits(k)
    /\ e.comp <= FileSize

\* Every access point was made at the end of a block before the last.
Points == \A i \in 1 .. Len(list) : \E k \in 0 .. NumBlocks - 1 : PointAt(list[i], k)

\* The window that goes with a raw address holds the bytes before it.
WindowRight(d) ==
    \A c \in 0 .. WINDOW_SIZE - 1 :
        d.raw - WINDOW_SIZE + c >= 0 => d.context[c] = d.raw - WINDOW_SIZE + c

\* The raw address of what was last written to cell c of the window, in state
\* s of inflate.
Address(s, c) ==
    LET p == WINDOW_SIZE - s.out
    IN  IF c < p THEN s.raw - p + c ELSE s.raw - p - WINDOW_SIZE + c

\* Each cell that was written since decompression started is right.
CellsRight(s, ctx) ==
    \A c \in 0 .. WINDOW_SIZE - 1 :
        Address(s, c) >= dict.raw => ctx[c] = Address(s, c)

\* State s of inflate is within the block after s.block.
Within(s) ==
    /\ s.block = -1 => s.raw = 0
    /\ s.block >= 0 => End[s.block] <= s.raw
    /\ s.block < NumBlocks => s.raw <= End[s.block + 1]

\* The list has a point from the end of the header on, and none ahead.
Position(s) ==
    /\ Within(s)
    /\ s.block = -1 => Len(list) = 0
    /\ s.block >= 0 => Len(list) > 0 /\ last.raw <= s.raw

\* No block ended further than SPAN from the last access point.
NotPassedOver(s) ==
    \A k \in 1 .. NumBlocks - 1 :
        k <= s.block /\ End[k] > 0 => End[k] <= last.raw + SPAN

Building ==
    pc \in {"chunk", "inflate"} =>
        /\ Position(z) /\ NotPassedOver(z)
        /\ dict.raw <= z.raw
        /\ Len(list) > 0 => dict.raw <= last.raw
        /\ Faults = {} /\ Whole /\ pc = "chunk" /\ fp = FileSize
              => z.block = NumBlocks

\* While the file is read in one chunk, the windows are right.
Windows ==
    OneChunk =>
        /\ pc \in {"chunk", "inflate", "read"} => WindowRight(dict)
        /\ pc = "chunk" /\ fp < FileSize => z.raw = dict.raw
        /\ pc = "inflate" => fp = FileSize /\ CellsRight(z, context)

\* The index.
ListInv ==
    /\ list \in Seq(EntryType)
    /\ Points /\ IndexAsInOnePass
    /\ OneChunk => \A i \in 1 .. Len(list) : WindowRight(list[i])

\* The last point is near the offset when the index is searched.
Near ==
    pc = "search" /\ Faults = {} /\ Whole /\ req.offset <= Total /\ Len(list) > 0
       => req.offset <= last.raw + 2 * SPAN + LongestBlock

\* While _gzip_read runs.
Reading ==
    pc = "read" => /\ z.raw + skip = req.offset
                   /\ dict.raw <= z.raw

\* What was last returned is right.
Returned ==
    OneChunk /\ ret > 0 /\ req.offset + ret <= Total
       => \A i \in 0 .. ret - 1 : out[i] = req.offset + i

IInv ==
    /\ TypeOK /\ ListInv
    /\ Building /\ Windows /\ Near /\ SkipBounded /\ Reading /\ Returned

-----------------------------------------------------------------------------
(* The stream.                                                             *)

\* Blocks end one after the other, in the image and in the file, and bytes
\* are found in order.
LEMMA StreamOrder ==
    /\ \A i \in 0 .. NumBlocks : \A j \in i .. NumBlocks : End[i] <= End[j]
    /\ \A i \in 0 .. NumBlocks : \A j \in i + 1 .. NumBlocks : EndBit[i] < EndBit[j]
    /\ \A i \in 0 .. Total : \A j \in i .. Total : ByteBit[i] <= ByteBit[j]
<1>1. /\ NumBlocks \in Nat /\ Total \in Nat
      /\ End \in [0 .. NumBlocks -> Int]
      /\ EndBit \in [0 .. NumBlocks -> Int]
      /\ ByteBit \in [0 .. Total -> Int]
  BY StreamAssumption
<1>2. /\ \A k \in 1 .. NumBlocks : End[k - 1] <= End[k]
      /\ \A k \in 1 .. NumBlocks : EndBit[k - 1] < EndBit[k]
      /\ \A k \in 1 .. Total : ByteBit[k - 1] <= ByteBit[k]
  BY StreamAssumption
<1>3. \A i \in 0 .. NumBlocks : \A j \in i .. NumBlocks : End[i] <= End[j]
  BY <1>1, <1>2, Monotone
<1>4. \A i \in 0 .. NumBlocks : \A j \in i + 1 .. NumBlocks : EndBit[i] < EndBit[j]
  BY <1>1, <1>2, StrictlyMonotone
<1>5. \A i \in 0 .. Total : \A j \in i .. Total : ByteBit[i] <= ByteBit[j]
  BY <1>1, <1>2, Monotone
<1> QED BY <1>3, <1>4, <1>5

\* Raw addresses are numbers.
LEMMA EndIs == \A k \in 0 .. NumBlocks : End[k] \in Int
<1>1. Total \in Nat /\ End \in [0 .. NumBlocks -> 0 .. Total]
  BY StreamAssumption
<1> QED BY <1>1

\* The whole bytes that hold n bits.
LEMMA BytesHold ==
    ASSUME NEW n \in Nat
    PROVE  /\ Bytes(n) \in Nat /\ n <= 8 * Bytes(n) /\ 8 * Bytes(n) <= n + 7
           /\ \A m \in Nat : n <= 8 * m => Bytes(n) <= m
  BY DEF Bytes

\* An access point at the end of block k restarts at the end of block k and
\* of no other.
LEMMA RestartsAt ==
    ASSUME NEW e, NEW k \in 0 .. NumBlocks, PointAt(e, k)
    PROVE  RestartBit(e) = EndBit[k] /\ BlocksAt(RestartBit(e)) = {k}
<1>1. EndBit[k] \in Nat /\ NumBlocks \in Nat
  BY StreamAssumption
<1>2. /\ Bytes(EndBit[k]) \in Nat
      /\ EndBit[k] <= 8 * Bytes(EndBit[k]) /\ 8 * Bytes(EndBit[k]) <= EndBit[k] + 7
  BY <1>1, BytesHold, Zenon
<1>3. bits(k) \in 0 .. 7 /\ compressed_byte_address(k) \in Nat
  BY <1>1, <1>2 DEF bits, compressed_byte_address
<1>4. RestartBit(e) = 8 * compressed_byte_address(k) - bits(k)
  BY <1>3 DEF RestartBit, PointAt
<1>5. RestartBit(e) = EndBit[k]
  BY <1>1, <1>4, <1>2 DEF bits, compressed_byte_address
<1>6. \A j \in 0 .. NumBlocks : EndBit[j] = EndBit[k] => j = k
  <2> SUFFICES ASSUME NEW j \in 0 .. NumBlocks, j # k PROVE EndBit[j] # EndBit[k]
    OBVIOUS
  <2>1. EndBit[j] \in Nat
    BY StreamAssumption
  <2>2. CASE j < k
    <3>1. k \in j + 1 .. NumBlocks
      BY <2>2, <1>1
    <3> QED BY <3>1, <2>1, <1>1, StreamOrder
  <2>3. CASE k < j
    <3>1. j \in k + 1 .. NumBlocks
      BY <2>3, <1>1
    <3> QED BY <3>1, <2>1, <1>1, StreamOrder
  <2> QED BY <2>2, <2>3, <1>1
<1> QED BY <1>5, <1>6 DEF BlocksAt

\* There is a most that the first n bytes of the file can yield.
LEMMA ReachIs ==
    ASSUME NEW n \in Nat
    PROVE  /\ Reach(n) \in 0 .. Total
           /\ ByteBit[Reach(n)] <= 8 * n \/ Reach(n) = 0
           /\ Reach(n) < Total => ByteBit[Reach(n) + 1] > 8 * n
<1> DEFINE T == {r \in 0 .. Total : ByteBit[r] <= 8 * n \/ r = 0}
<1>1. Total \in Nat /\ ByteBit \in [0 .. Total -> Nat]
  BY StreamAssumption
<1>2. T \in SUBSET (0 .. Total) /\ T # {}
  BY <1>1
<1>3. PICK m \in T : \A k \in T : k <= m
  <2> HIDE DEF T
  <2> QED BY <1>1, <1>2, GreatestExists, Zenon
<1>4. m < Total => ByteBit[m + 1] > 8 * n
  <2> SUFFICES ASSUME m < Total PROVE ByteBit[m + 1] > 8 * n
    OBVIOUS
  <2>1. m + 1 \in 0 .. Total /\ ~(m + 1 <= m)
    BY <1>1
  <2>2. m + 1 \notin T
    BY <1>3, <2>1
  <2> QED BY <2>1, <2>2, <1>1
<1>5. \E r \in 0 .. Total : /\ ByteBit[r] <= 8 * n \/ r = 0
                            /\ r < Total => ByteBit[r + 1] > 8 * n
  BY <1>4
<1> HIDE DEF T
<1> QED BY <1>5, Zenon DEF Reach

\* The longest block is as long as some block and no block is longer.
LEMMA LongestIs ==
    /\ LongestBlock \in 0 .. Total
    /\ \A k \in 1 .. NumBlocks : End[k] - End[k - 1] <= LongestBlock
<1> DEFINE T == {n \in 0 .. Total : \E k \in 1 .. NumBlocks : End[k] - End[k - 1] = n}
<1>1. Total \in Nat /\ NumBlocks \in Nat \ {0} /\ End \in [0 .. NumBlocks -> 0 .. Total]
  BY StreamAssumption
<1>2. \A k \in 1 .. NumBlocks : End[k] - End[k - 1] \in 0 .. Total
  <2> TAKE k \in 1 .. NumBlocks
  <2>1. k - 1 \in 0 .. NumBlocks /\ k \in 0 .. NumBlocks
    BY <1>1
  <2>2. End[k - 1] \in 0 .. Total /\ End[k] \in 0 .. Total
    BY <1>1, <2>1
  <2>3. End[k - 1] <= End[k]
    BY StreamAssumption
  <2> QED BY <1>1, <2>2, <2>3
<1>3. T \in SUBSET (0 .. Total) /\ T # {}
  <2>1. 1 \in 1 .. NumBlocks
    BY <1>1
  <2>2. End[1] - End[1 - 1] \in T
    BY <2>1, <1>2
  <2> QED BY <2>2
<1>4. PICK m \in T : \A n \in T : n <= m
  <2> HIDE DEF T
  <2> QED BY <1>1, <1>3, GreatestExists, Zenon
<1>5. \A k \in 1 .. NumBlocks : End[k] - End[k - 1] <= m
  BY <1>2, <1>4
<1>6. \E n \in 0 .. Total :
          /\ \A k \in 1 .. NumBlocks : End[k] - End[k - 1] <= n
          /\ \E k \in 1 .. NumBlocks : End[k] - End[k - 1] = n
  BY <1>5
<1> HIDE DEF T
<1> QED BY <1>6, Zenon DEF LongestBlock

-----------------------------------------------------------------------------
(* What zlib yields.                                                       *)

\* One byte of Decoded(d), from the bytes g before it.
DecodeStep(d, g, x) ==
    IF x < d.raw
    THEN IF d.raw - x <= WINDOW_SIZE THEN d.context[WINDOW_SIZE - (d.raw - x)]
                                     ELSE Wrong
    ELSE IF Dist[x] = 0 \/ g[x - Dist[x]] = x - Dist[x] THEN x ELSE Wrong

\* What decompression may start from.
DictType == [raw : 0 .. Total, context : [0 .. WINDOW_SIZE - 1 -> Cell]]

\* How far back bytes refer: no further than the window or the first byte.
LEMMA DistIs ==
    ASSUME inst \in Instances
    PROVE  \A x \in 0 .. Total - 1 : Dist[x] \in 0 .. WINDOW_SIZE /\ Dist[x] <= x
<1>1. inst \in InstanceType /\ \A x \in 0 .. Total - 1 : inst.dist[x] <= x
  BY StreamAssumption
<1>2. inst.dist \in [0 .. Total - 1 -> 0 .. WINDOW_SIZE]
  BY <1>1 DEF InstanceType
<1> QED BY <1>1, <1>2 DEF Dist

\* One byte is a cell's content whenever the bytes are there it refers to,
\* and it depends on no others.
LEMMA DecodeStepIs ==
    ASSUME inst \in Instances, NEW d \in DictType, NEW x \in 0 .. Total - 1
    PROVE  /\ \A g : DecodeStep(d, g, x) \in Cell
           /\ \A g, h : (\A y \in 0 .. x - 1 : g[y] = h[y])
                           => DecodeStep(d, g, x) = DecodeStep(d, h, x)
<1>1. WINDOW_SIZE \in Nat \ {0} /\ Total \in Nat
  BY StreamAssumption
<1>2. d.raw \in 0 .. Total /\ d.context \in [0 .. WINDOW_SIZE - 1 -> Cell]
  BY DEF DictType
<1>3. x < d.raw /\ d.raw - x <= WINDOW_SIZE
        => WINDOW_SIZE - (d.raw - x) \in 0 .. WINDOW_SIZE - 1
  BY <1>1, <1>2
<1>4. \A g : DecodeStep(d, g, x) \in Cell
  <2> TAKE g
  <2>1. x \in Cell /\ Wrong \in Cell
    BY DEF Cell
  <2>2. x < d.raw /\ d.raw - x <= WINDOW_SIZE
          => d.context[WINDOW_SIZE - (d.raw - x)] \in Cell
    BY <1>2, <1>3
  <2> HIDE DEF Cell
  <2> QED BY <2>1, <2>2, Zenon DEF DecodeStep
<1>5. ASSUME NEW g, NEW h, \A y \in 0 .. x - 1 : g[y] = h[y]
      PROVE  DecodeStep(d, g, x) = DecodeStep(d, h, x)
  <2>1. Dist[x] \in 0 .. WINDOW_SIZE /\ Dist[x] <= x
    BY DistIs
  <2>2. Dist[x] # 0 => x - Dist[x] \in 0 .. x - 1
    BY <2>1, <1>1
  <2>3. Dist[x] # 0 => g[x - Dist[x]] = h[x - Dist[x]]
    BY <2>2, <1>5
  <2> QED BY <2>3, Zenon DEF DecodeStep
<1> QED BY <1>4, <1>5

\* The recursive definition of Decoded defines a function: each byte is given
\* by the bytes before it.
LEMMA DecodedIs ==
    ASSUME inst \in Instances, NEW d \in DictType
    PROVE  /\ Decoded(d) \in [0 .. Total - 1 -> Cell]
           /\ \A x \in 0 .. Total - 1 : Decoded(d)[x] = DecodeStep(d, Decoded(d), x)
<1> DEFINE Upto(n, f) == \A x \in 0 .. n - 1 : f[x] = DecodeStep(d, f, x)
           S == {n \in 0 .. Total : \E f \in [0 .. n - 1 -> Cell] : Upto(n, f)}
<1>1. Total \in Nat
  BY StreamAssumption
<1>2. 0 \in S
  <2>1. [x \in 0 .. 0 - 1 |-> 0] \in [0 .. 0 - 1 -> Cell]
    OBVIOUS
  <2>2. Upto(0, [x \in 0 .. 0 - 1 |-> 0])
    OBVIOUS
  <2>3. \E f \in [0 .. 0 - 1 -> Cell] : Upto(0, f)
    <3> HIDE DEF Upto
    <3> QED BY <2>1, <2>2, Zenon
  <2>4. 0 \in 0 .. Total
    BY <1>1
  <2> HIDE DEF Upto
  <2> QED BY <2>3, <2>4, Zenon
<1>3. ASSUME NEW n \in 0 .. Total - 1, n \in S PROVE n + 1 \in S
  <2>1. PICK f \in [0 .. n - 1 -> Cell] : Upto(n, f)
    BY <1>3
  <2> DEFINE h == [x \in 0 .. (n + 1) - 1 |-> IF x < n THEN f[x] ELSE DecodeStep(d, f, n)]
  <2>2. DecodeStep(d, f, n) \in Cell
    BY DecodeStepIs
  <2>3. \A x \in 0 .. (n + 1) - 1 : x < n => x \in 0 .. n - 1
    OBVIOUS
  <2>4. h \in [0 .. (n + 1) - 1 -> Cell]
    BY <2>2, <2>3
  <2>5. Upto(n + 1, h)
    <3> SUFFICES ASSUME NEW x \in 0 .. (n + 1) - 1
                 PROVE  h[x] = DecodeStep(d, h, x)
      OBVIOUS
    <3>1. x \in 0 .. Total - 1 /\ x \in 0 .. n
      BY <1>1
    <3>2. \A y \in 0 .. x - 1 : h[y] = f[y]
      <4> TAKE y \in 0 .. x - 1
      <4>1. y \in 0 .. (n + 1) - 1 /\ y < n
        BY <3>1
      <4> QED BY <4>1
    <3>3. DecodeStep(d, h, x) = DecodeStep(d, f, x)
      <4> HIDE DEF h
      <4> QED BY <3>1, <3>2, DecodeStepIs, Zenon
    <3>4. CASE x < n
      <4>1. h[x] = f[x] /\ f[x] = DecodeStep(d, f, x)
        <5>1. x \in 0 .. n - 1
          BY <3>4
        <5> QED BY <5>1, <3>4, <2>1
      <4> QED BY <3>3, <4>1
    <3>5. CASE x = n
      <4>1. h[x] = DecodeStep(d, f, n)
        BY <3>5
      <4> QED BY <3>3, <3>5, <4>1
    <3> QED BY <3>1, <3>4, <3>5
  <2>6. n + 1 \in 0 .. Total
    BY <1>1
  <2> HIDE DEF Upto, h
  <2> QED BY <2>4, <2>5, <2>6
<1>4. Total \in S
  <2> HIDE DEF S
  <2>1. 0 .. Total \subseteq S
    BY <1>1, <1>2, <1>3, Induction, Zenon
  <2> QED BY <2>1, <1>1
<1>5. PICK f \in [0 .. Total - 1 -> Cell] : Upto(Total, f)
  BY <1>4
<1>6. f = [x \in 0 .. Total - 1 |-> DecodeStep(d, f, x)]
  BY <1>5
<1>7. Decoded(d) = CHOOSE g : g = [x \in 0 .. Total - 1 |-> DecodeStep(d, g, x)]
  BY Zenon DEF Decoded, DecodeStep
<1>8. Decoded(d) = [x \in 0 .. Total - 1 |-> DecodeStep(d, Decoded(d), x)]
  BY <1>6, <1>7, Zenon
<1>9. \A x \in 0 .. Total - 1 : Decoded(d)[x] = DecodeStep(d, Decoded(d), x)
  BY <1>8, Zenon
<1>10. \A x \in 0 .. Total - 1 : DecodeStep(d, Decoded(d), x) \in Cell
  BY DecodeStepIs, Zenon
<1>11. Decoded(d) \in [0 .. Total - 1 -> Cell]
  BY <1>8, <1>10, Zenon
<1> QED BY <1>9, <1>11

\* Decompression that starts with the right window yields the right bytes.
LEMMA DecodedRight ==
    ASSUME inst \in Instances, NEW d \in DictType, WindowRight(d),
           NEW x \in 0 .. Total - 1, d.raw <= x
    PROVE  Decoded(d)[x] = x
<1> DEFINE v == Decoded(d)
           T == {y \in 0 .. Total - 1 : d.raw - WINDOW_SIZE <= y /\ v[y] # y}
<1>1. WINDOW_SIZE \in Nat \ {0} /\ Total \in Nat /\ d.raw \in 0 .. Total
  BY StreamAssumption DEF DictType
<1>2. \A y \in 0 .. Total - 1 : v[y] = DecodeStep(d, v, y)
  BY DecodedIs
<1> HIDE DEF v
<1>3. \A y \in 0 .. Total - 1 :
          d.raw - WINDOW_SIZE <= y /\ y < d.raw => v[y] = y
  <2> SUFFICES ASSUME NEW y \in 0 .. Total - 1,
                      d.raw - WINDOW_SIZE <= y, y < d.raw
               PROVE  v[y] = y
    OBVIOUS
  <2>1. /\ WINDOW_SIZE - (d.raw - y) \in 0 .. WINDOW_SIZE - 1
        /\ d.raw - WINDOW_SIZE + (WINDOW_SIZE - (d.raw - y)) = y
        /\ d.raw - y <= WINDOW_SIZE
        /\ y >= 0
    BY <1>1
  <2>2. d.context[WINDOW_SIZE - (d.raw - y)] = y
    BY <2>1 DEF WindowRight
  <2> QED BY <1>2, <2>1, <2>2 DEF DecodeStep
<1>4. T = {}
  <2> SUFFICES ASSUME T # {} PROVE FALSE
    OBVIOUS
  <2>1. T \in SUBSET Nat
    BY <1>1
  <2>2. PICK m \in T : \A k \in T : m <= k
    <3> HIDE DEF T
    <3> QED BY <2>1, LeastExists, Zenon
  <2>3. m \in 0 .. Total - 1 /\ v[m] # m /\ d.raw <= m
    BY <1>3, <1>1
  <2>4. Dist[m] \in 0 .. WINDOW_SIZE /\ Dist[m] <= m
    BY <2>3, DistIs
  <2>5. Dist[m] # 0 /\ v[m - Dist[m]] # m - Dist[m]
    BY <1>1, <1>2, <2>3 DEF DecodeStep
  <2>6. /\ m - Dist[m] \in 0 .. Total - 1
        /\ d.raw - WINDOW_SIZE <= m - Dist[m]
        /\ ~(m <= m - Dist[m])
    BY <1>1, <2>3, <2>4, <2>5
  <2>7. m - Dist[m] \in T
    BY <2>5, <2>6
  <2> QED BY <2>2, <2>6, <2>7
<1>5. d.raw - WINDOW_SIZE <= x
  BY <1>1
<1> QED BY <1>4, <1>5 DEF v

\* What an instance gives.
LEMMA InstanceIs ==
    ASSUME inst \in Instances
    PROVE  FileSize \in Nat /\ CHUNK \in Nat \ {0}
<1>1. inst \in InstanceType
  BY StreamAssumption
<1> QED BY <1>1 DEF InstanceType, FileSize, CHUNK

\* The last byte of a block is found no later than the block's end.
LEMMA BlockHasItsBytes ==
    ASSUME NEW k \in 1 .. NumBlocks, NEW n \in 1 .. End[k]
    PROVE  ByteBit[n] <= EndBit[k]
<1> DEFINE T == {j \in 0 .. NumBlocks : n <= End[j]}
<1>1. /\ Total \in Nat /\ NumBlocks \in Nat \ {0} /\ End[0] = 0
      /\ End \in [0 .. NumBlocks -> 0 .. Total]
      /\ EndBit \in [0 .. NumBlocks -> Nat]
      /\ ByteBit \in [0 .. Total -> Nat]
  BY StreamAssumption
<1>2. k \in T /\ T \in SUBSET Nat /\ 0 \notin T
  BY <1>1
<1>3. PICK m \in T : \A j \in T : m <= j
  <2> HIDE DEF T
  <2> QED BY <1>2, LeastExists
<1>4. m \in 1 .. NumBlocks /\ m <= k /\ m - 1 \in 0 .. NumBlocks /\ m - 1 \notin T
  BY <1>1, <1>2, <1>3
<1>5. End[m - 1] \in 0 .. Total /\ End[m] \in 0 .. Total
  BY <1>1, <1>4
<1>6. n \in End[m - 1] + 1 .. End[m]
  BY <1>4, <1>5
<1>7. ByteBit[n] <= EndBit[m]
  BY <1>4, <1>6, StreamAssumption
<1>8. EndBit[m] <= EndBit[k]
  <2>1. EndBit[m] \in Nat /\ EndBit[k] \in Nat
    BY <1>1, <1>4
  <2>2. CASE m = k
    BY <2>1, <2>2
  <2>3. CASE m < k
    <3>1. m \in 0 .. NumBlocks /\ k \in m + 1 .. NumBlocks
      BY <2>3, <1>4
    <3> QED BY <3>1, <2>1, StreamOrder
  <2> QED BY <2>2, <2>3, <1>4
<1>9. ByteBit[n] \in Nat /\ EndBit[m] \in Nat /\ EndBit[k] \in Nat
  <2>1. n \in 0 .. Total /\ m \in 0 .. NumBlocks /\ k \in 0 .. NumBlocks
    BY <1>1, <1>4, <1>5, <1>6
  <2> QED BY <2>1, <1>1
<1> QED BY <1>7, <1>8, <1>9

StreamType ==
    [raw : 0 .. Total, block : -1 .. NumBlocks, in : Nat, out : 0 .. WINDOW_SIZE]

\* inflate never leaves the block, ends it only at its end, writes what it
\* moves on by, and at the end of a whole file has input left.
LEMMA InflateIs ==
    ASSUME inst \in Instances, fp \in 0 .. FileSize,
           NEW s \in StreamType, s.block < NumBlocks, s.out > 0, Within(s),
           NEW new, new = InflateBlock(s)
    PROVE  /\ new \in StreamType
           /\ s.raw <= new.raw /\ new.raw <= End[s.block + 1]
           /\ s.out - new.out = new.raw - s.raw
           /\ \/ new.block = s.block
              \/ /\ new.block = s.block + 1
                 /\ new.raw = End[s.block + 1]
                 /\ EndBit[s.block + 1] <= 8 * fp
           /\ Within(new)
           /\ Whole /\ fp = FileSize => new.in > 0
<1> DEFINE next == s.block + 1
           had == IF Reach(fp) < s.raw THEN s.raw ELSE Reach(fp)
           r == Least(Least(s.raw + s.out, End[next]), had)
           ends == r = End[next] /\ EndBit[next] <= 8 * fp
           full == r = s.raw + s.out
<1>1. /\ Total \in Nat /\ NumBlocks \in Nat \ {0} /\ WINDOW_SIZE \in Nat \ {0}
      /\ End \in [0 .. NumBlocks -> 0 .. Total] /\ End[0] = 0
      /\ EndBit \in [0 .. NumBlocks -> Nat]
      /\ ByteBit \in [0 .. Total -> Nat]
  BY StreamAssumption
<1>2. FileSize \in Nat /\ fp \in Nat /\ fp <= FileSize
  BY InstanceIs
<1>3. /\ s.raw \in 0 .. Total /\ s.block \in -1 .. NumBlocks
      /\ s.in \in Nat /\ s.out \in 1 .. WINDOW_SIZE
  BY DEF StreamType
<1>4. next \in 0 .. NumBlocks /\ End[next] \in 0 .. Total /\ EndBit[next] \in Nat
  <2>1. s.block \in Int /\ -1 <= s.block /\ s.block < NumBlocks
    BY <1>1, <1>3
  <2>2. next \in Int /\ 0 <= next
    BY <2>1
  <2>3. next <= NumBlocks
    BY <2>1, <1>1
  <2>4. next \in 0 .. NumBlocks
    BY <2>2, <2>3, <1>1
  <2> HIDE DEF next
  <2> QED BY <2>4, <1>1
<1>5. s.raw <= End[next]
  BY <1>1, <1>3, <1>4 DEF Within
<1>6. /\ Reach(fp) \in 0 .. Total
      /\ ByteBit[Reach(fp)] <= 8 * fp \/ Reach(fp) = 0
      /\ Reach(fp) < Total => ByteBit[Reach(fp) + 1] > 8 * fp
  BY <1>2, ReachIs
<1>7. /\ r \in 0 .. Total /\ s.raw <= r /\ r <= End[next] /\ r <= s.raw + s.out
      /\ r <= had
      /\ r = s.raw + s.out \/ r = End[next] \/ r = had
  <2>1. Total \in Int /\ s.raw \in Int /\ 0 <= s.raw /\ s.raw <= Total
    BY <1>1, <1>3
  <2>2. s.out \in Int /\ 1 <= s.out
    BY <1>1, <1>3
  <2>3. Reach(fp) \in Int /\ 0 <= Reach(fp) /\ Reach(fp) <= Total
    BY <1>1, <1>6
  <2>4. End[next] \in Int /\ s.raw <= End[next] /\ End[next] <= Total
    <3> HIDE DEF next
    <3> QED BY <1>1, <1>4, <1>5
  <2>5. had \in Int /\ had <= Total /\ s.raw <= had
    BY <2>1, <2>3
  <2> HIDE DEF had, next
  <2> QED BY <2>1, <2>2, <2>4, <2>5 DEF Least
<1>8. /\ new.raw = r /\ new.block = (IF ends THEN next ELSE s.block)
      /\ new.in = (IF ends THEN fp - Bytes(EndBit[next])
                   ELSE IF full THEN fp - Bytes(ByteBit[r]) ELSE 0)
      /\ new.out = s.out - (r - s.raw)
      /\ new = [raw |-> new.raw, block |-> new.block, in |-> new.in, out |-> new.out]
  BY DEF InflateBlock
<1>9. ends => /\ Bytes(EndBit[next]) \in Nat /\ Bytes(EndBit[next]) <= fp
  BY <1>2, <1>4, BytesHold
<1>10. full => /\ r > s.raw /\ r \in 1 .. Reach(fp) /\ ByteBit[r] \in Nat
               /\ ByteBit[r] <= 8 * fp
               /\ Bytes(ByteBit[r]) \in Nat /\ Bytes(ByteBit[r]) <= fp
  <2> SUFFICES ASSUME full
               PROVE  /\ r > s.raw /\ r \in 1 .. Reach(fp) /\ ByteBit[r] \in Nat
                      /\ ByteBit[r] <= 8 * fp
                      /\ Bytes(ByteBit[r]) \in Nat /\ Bytes(ByteBit[r]) <= fp
    OBVIOUS
  <2>1. r > s.raw
    BY <1>3, <1>7
  <2>2. r \in 1 .. Reach(fp)
    BY <2>1, <1>3, <1>6, <1>7
  <2> HIDE DEF r
  <2>3. r \in 0 .. Total /\ Reach(fp) \in r .. Total /\ Reach(fp) # 0
    BY <2>2, <1>6, <1>1
  <2>4. ByteBit[r] \in Nat /\ ByteBit[Reach(fp)] \in Nat
    BY <2>3, <1>1, <1>6
  <2>5. ByteBit[r] <= ByteBit[Reach(fp)]
    BY <2>3, StreamOrder, Zenon
  <2>6. ByteBit[r] <= 8 * fp
    BY <2>3, <2>4, <2>5, <1>6, <1>2
  <2> QED BY <2>1, <2>2, <2>4, <2>6, <1>2, BytesHold
<1> HIDE DEF next, had, r, ends, full
<1>11. new.raw \in 0 .. Total /\ new.out \in 0 .. WINDOW_SIZE
  <2>1. r \in Int /\ s.raw \in Int /\ s.out \in Int /\ WINDOW_SIZE \in Int
    BY <1>1, <1>3, <1>7
  <2>2. s.raw <= r /\ r <= s.raw + s.out /\ s.out <= WINDOW_SIZE
    BY <1>1, <1>3, <1>7
  <2>3. s.out - (r - s.raw) \in 0 .. WINDOW_SIZE
    BY <2>1, <2>2
  <2> QED BY <2>3, <1>7, <1>8
<1>12. new.block \in -1 .. NumBlocks
  BY <1>3, <1>4, <1>8
<1>13. new.in \in Nat
  BY <1>2, <1>8, <1>9, <1>10
<1>14. new \in StreamType
  BY <1>8, <1>11, <1>12, <1>13, Zenon DEF StreamType
<1>15. /\ s.raw <= new.raw /\ new.raw <= End[s.block + 1]
       /\ s.out - new.out = new.raw - s.raw
  BY <1>3, <1>7, <1>8 DEF next
<1>16. \/ new.block = s.block
       \/ /\ new.block = s.block + 1
          /\ new.raw = End[s.block + 1]
          /\ EndBit[s.block + 1] <= 8 * fp
  BY <1>8 DEF next, ends
<1>17. Within(new)
  <2>1. CASE new.block = s.block
    <3>1. s.raw <= new.raw /\ new.raw <= End[s.block + 1]
      BY <1>15
    <3>2. s.block = -1 => new.raw = 0
      BY <3>1, <1>1, <1>11
    <3>3. s.block >= 0 => End[s.block] \in 0 .. Total /\ End[s.block] <= s.raw
      BY <1>1, <1>3 DEF Within
    <3> QED BY <2>1, <3>1, <3>2, <3>3, <1>3, <1>11 DEF Within
  <2>2. CASE ends
    <3>1. new.block = next /\ new.raw = End[next]
      BY <2>2, <1>8 DEF ends
    <3>2. next < NumBlocks => next + 1 \in next .. NumBlocks
      BY <1>4, <1>1
    <3>3. next < NumBlocks => End[next] <= End[next + 1]
      BY <3>2, <1>4, StreamOrder
    <3>4. new.block # -1
      BY <3>1, <1>4
    <3> QED BY <3>1, <3>3, <3>4, <1>4 DEF Within
  <2> QED BY <2>1, <2>2, <1>8
<1>18. ASSUME Whole, fp = FileSize PROVE new.in > 0
  <2>1. /\ NumBlocks \in 0 .. NumBlocks /\ EndBit[NumBlocks] \in Nat
        /\ Bytes(EndBit[NumBlocks]) < fp /\ Bytes(EndBit[NumBlocks]) \in Nat
        /\ EndBit[NumBlocks] <= 8 * Bytes(EndBit[NumBlocks])
    <3>1. NumBlocks \in 0 .. NumBlocks
      BY <1>1
    <3>2. EndBit[NumBlocks] \in Nat
      BY <1>1, <3>1
    <3>3. Bytes(EndBit[NumBlocks]) < fp
      BY <1>18 DEF Whole
    <3> QED BY <3>1, <3>2, <3>3, BytesHold, Zenon
  <2>2. EndBit[next] <= EndBit[NumBlocks]
    <3>1. CASE next = NumBlocks
      BY <3>1, <2>1
    <3>2. CASE next < NumBlocks
      <4>1. NumBlocks \in next + 1 .. NumBlocks
        BY <3>2, <1>4, <1>1
      <4> QED BY <4>1, <1>4, <2>1, StreamOrder
    <3> QED BY <3>1, <3>2, <1>4, <1>1
  <2>3. EndBit[next] <= 8 * Bytes(EndBit[NumBlocks]) /\ EndBit[next] <= 8 * fp
    BY <2>1, <2>2, <1>2, <1>4
  <2>4. ends => Bytes(EndBit[next]) <= Bytes(EndBit[NumBlocks])
    BY <2>1, <2>3, <1>4, BytesHold
  <2>5. r >= 1 => ByteBit[r] <= EndBit[next] /\ ByteBit[r] \in Nat
    <3> SUFFICES ASSUME r >= 1 PROVE ByteBit[r] <= EndBit[next] /\ ByteBit[r] \in Nat
      OBVIOUS
    <3>1. r \in 1 .. End[next] /\ r \in 0 .. Total
      BY <1>4, <1>7
    <3>2. next \in 1 .. NumBlocks
      BY <3>1, <1>4, <1>1
    <3> QED BY <3>1, <3>2, <1>1, BlockHasItsBytes
  <2>6. full => Bytes(ByteBit[r]) <= Bytes(EndBit[NumBlocks])
    <3> SUFFICES ASSUME full PROVE Bytes(ByteBit[r]) <= Bytes(EndBit[NumBlocks])
      OBVIOUS
    <3>1. ByteBit[r] \in Nat /\ ByteBit[r] <= 8 * Bytes(EndBit[NumBlocks])
      BY <1>10, <2>1, <2>3, <2>5, <1>4
    <3> QED BY <3>1, <2>1, BytesHold
  <2>7. Reach(fp) = Total
    <3> SUFFICES ASSUME Reach(fp) # Total PROVE FALSE
      OBVIOUS
    <3>1. Reach(fp) < Total /\ Reach(fp) + 1 \in 1 .. Total
      <4>1. Total \in Int /\ Reach(fp) \in Int /\ 0 <= Reach(fp) /\ Reach(fp) <= Total
        BY <1>1, <1>6
      <4> QED BY <4>1
    <3>2. ByteBit[Reach(fp) + 1] <= EndBit[NumBlocks]
      <4>1. End[NumBlocks] = Total /\ NumBlocks \in 1 .. NumBlocks
        BY StreamAssumption
      <4> QED BY <4>1, <3>1, BlockHasItsBytes
    <3>3. ByteBit[Reach(fp) + 1] \in Nat
      BY <3>1, <1>1
    <3> QED BY <3>1, <3>2, <3>3, <2>1, <1>6, <1>2
  <2>8. ends \/ full
    <3>1. r = End[next] \/ full
      BY <2>7, <1>1, <1>3, <1>4, <1>7 DEF had, full
    <3> QED BY <3>1, <2>3 DEF ends
  <2>9. CASE ends
    BY <2>9, <2>1, <2>4, <1>8, <1>9, <1>2
  <2>10. CASE full /\ ~ends
    BY <2>10, <2>1, <2>6, <1>8, <1>10, <1>2
  <2> QED BY <2>8, <2>9, <2>10
<1> QED BY <1>14, <1>15, <1>16, <1>17, <1>18

\* The search ends at an entry, and at the last one before the offset.
LEMMA FoundIs ==
    ASSUME Len(list) \in Nat \ {0}
    PROVE  /\ Found \in 1 .. Len(list) /\ Passed(Found)
           /\ Found < Len(list) => ~Passed(Found + 1)
<1> DEFINE T == {i \in 1 .. Len(list) : i < Len(list) => ~Passed(i + 1)}
<1>1. Len(list) \in T /\ T \in SUBSET Nat
  OBVIOUS
<1>2. PICK m \in T : \A k \in T : m <= k
  <2> HIDE DEF T
  <2> QED BY <1>1, LeastExists
<1>3. Passed(m)
  <2>1. CASE m = 1
    BY <2>1 DEF Passed
  <2>2. CASE m # 1
    <3>1. m - 1 \in 1 .. Len(list) /\ m - 1 < Len(list) /\ (m - 1) + 1 = m /\ m - 1 \notin T
      BY <1>2, <2>2
    <3> QED BY <3>1
  <2> QED BY <2>1, <2>2
<1>4. \E i \in 1 .. Len(list) : Passed(i) /\ (i < Len(list) => ~Passed(i + 1))
  BY <1>3
<1> HIDE DEF T
<1> QED BY <1>4, Zenon DEF Found

\* inflate is at most a span and a block ahead of the last access point.
LEMMA Ahead ==
    ASSUME NEW s \in StreamType, Within(s), s.block >= 0, NEW raw \in 0 .. Total,
           \A k \in 1 .. NumBlocks - 1 :
               k <= s.block /\ End[k] > 0 => End[k] <= raw + SPAN
    PROVE  s.raw <= raw + SPAN + LongestBlock
<1>1. /\ Total \in Nat /\ NumBlocks \in Nat \ {0} /\ SPAN \in Nat
      /\ End \in [0 .. NumBlocks -> 0 .. Total]
  BY StreamAssumption
<1>2. End[0] = 0 /\ End[NumBlocks] = Total
  BY StreamAssumption
<1>3. s.raw \in 0 .. Total /\ s.block \in 0 .. NumBlocks
  BY DEF StreamType
<1>4. LongestBlock \in 0 .. Total
  BY LongestIs
<1>5. PICK b \in 0 .. NumBlocks - 1 : b <= s.block /\ s.raw <= End[b + 1]
  <2>1. CASE s.block < NumBlocks
    <3>1. s.block \in 0 .. NumBlocks - 1 /\ s.block <= s.block
      BY <2>1, <1>1, <1>3
    <3> QED BY <3>1, <2>1 DEF Within
  <2>2. CASE s.block = NumBlocks
    <3>1. NumBlocks - 1 \in 0 .. NumBlocks - 1 /\ (NumBlocks - 1) + 1 = NumBlocks
          /\ NumBlocks - 1 <= s.block
      BY <2>2, <1>1
    <3>2. s.raw <= End[(NumBlocks - 1) + 1]
      BY <3>1, <1>2, <1>3
    <3> QED BY <3>1, <3>2
  <2> QED BY <2>1, <2>2, <1>1, <1>3
<1>6. b \in 0 .. NumBlocks /\ b + 1 \in 1 .. NumBlocks /\ (b + 1) - 1 = b
  BY <1>1
<1>7. End[b + 1] - End[b] <= LongestBlock
  BY <1>6, LongestIs
<1>8. End[b] \in 0 .. Total /\ End[b + 1] \in 0 .. Total
  BY <1>1, <1>6
<1>9. End[b] <= raw + SPAN
  <2>1. CASE b = 0
    BY <2>1, <1>1, <1>2
  <2>2. CASE b # 0
    <3>1. b \in 1 .. NumBlocks - 1
      BY <2>2, <1>1
    <3> QED BY <3>1, <1>1, <1>5, <1>8
  <2> QED BY <2>1, <2>2
<1>10. /\ s.raw \in Int /\ raw \in Int /\ SPAN \in Int /\ LongestBlock \in Int
       /\ End[b] \in Int /\ End[b + 1] \in Int
  BY <1>1, <1>3, <1>4, <1>8
<1> QED BY <1>5, <1>7, <1>9, <1>10

\* A gap that ends within a block of length l at most, begun within s of b.
LEMMA GapArithmetic ==
    \A a, b, c, d, s, l \in Int :
        d - c <= l /\ c <= b + s /\ a <= d => a <= b + s + l
OBVIOUS

\* An address that is not beyond the start of the stream is not beyond any.
LEMMA FirstArithmetic ==
    \A a \in Int, b, s, l \in Nat : a <= 0 => a <= b + s + l
OBVIOUS

\* A request that ends within a span of r begins within two spans and a block
\* of b, when r is within a span and a block of b.
LEMMA ReachArithmetic ==
    \A o, n, s \in Nat, r, b, l \in Int :
        r <= b + s + l /\ o + n < r + s => o <= b + 2 * s + l
OBVIOUS

\* The point after the one found is at most a span and a block beyond it.
LEMMA PointsAreNear ==
    ASSUME ListInv, NEW i \in 2 .. Len(list)
    PROVE  list[i].raw <= list[i - 1].raw + SPAN + LongestBlock
<1>1. /\ Total \in Nat /\ NumBlocks \in Nat \ {0} /\ SPAN \in Nat
      /\ End \in [0 .. NumBlocks -> 0 .. Total]
  BY StreamAssumption
<1>2. End[0] = 0
  BY StreamAssumption
<1>3. LongestBlock \in 0 .. Total
  BY LongestIs
<1>4. i \in 1 .. Len(list) /\ i - 1 \in 1 .. Len(list) /\ i > 1 /\ Len(list) \in Nat
  BY LenProperties DEF ListInv
<1>5. list[i].raw \in 0 .. Total /\ list[i - 1].raw \in 0 .. Total
  <2>1. list[i] \in EntryType /\ list[i - 1] \in EntryType
    BY <1>4, ElementOfSeq, Zenon DEF ListInv
  <2> QED BY <2>1 DEF EntryType
<1>6. PICK k \in 0 .. NumBlocks - 1 : PointAt(list[i], k)
  BY <1>4 DEF ListInv, Points
<1> DEFINE T == {j \in 0 .. NumBlocks : list[i].raw <= End[j]}
<1>7. PICK m \in T : \A j \in T : m <= j
  <2>1. k \in T /\ T \in SUBSET Nat
    BY <1>1, <1>5, <1>6 DEF PointAt
  <2> HIDE DEF T
  <2> QED BY <2>1, LeastExists
<1>8. CASE m = 0
  <2>1. list[i].raw <= 0
    BY <1>8, <1>7, <1>2
  <2>2. list[i].raw \in Int /\ list[i - 1].raw \in Nat /\ SPAN \in Nat
    BY <1>1, <1>5
  <2>3. LongestBlock \in Nat
    BY <1>1, <1>3
  <2> QED BY ONLY <2>1, <2>2, <2>3, FirstArithmetic, Zenon
<1>9. CASE m # 0
  <2>1. m \in 1 .. NumBlocks /\ m - 1 \in 0 .. NumBlocks /\ m - 1 \notin T /\ m <= k
    <3>1. m \in 1 .. NumBlocks /\ m - 1 \in 0 .. NumBlocks
      BY <1>9, <1>1
    <3>2. m - 1 \notin T
      <4>1. ~(m <= m - 1)
        BY <3>1
      <4> HIDE DEF T
      <4> QED BY <4>1, <1>7
    <3>3. k \in T
      BY <1>1, <1>5, <1>6 DEF PointAt
    <3> QED BY <3>1, <3>2, <3>3, <1>7
  <2>2. End[m - 1] \in 0 .. Total /\ End[m] \in 0 .. Total /\ End[m - 1] < list[i].raw
        /\ list[i].raw <= End[m]
    <3>1. End[m - 1] \in 0 .. Total /\ End[m] \in 0 .. Total
      <4>1. m \in 0 .. NumBlocks
        OBVIOUS
      <4> QED BY <4>1, <2>1, <1>1
    <3>2. list[i].raw <= End[m] /\ ~(list[i].raw <= End[m - 1])
      BY <2>1
    <3>3. list[i].raw \in Int /\ End[m - 1] \in Int
      BY <3>1, <1>5
    <3> QED BY <3>1, <3>2, <3>3
  <2>3. End[m] - End[m - 1] <= LongestBlock
    BY <2>1, LongestIs
  <2>4. End[m - 1] <= list[i - 1].raw + SPAN
    <3>1. CASE End[m - 1] = 0
      BY <3>1, <1>1, <1>5
    <3>2. CASE End[m - 1] > 0
      <4>1. m - 1 \in 1 .. NumBlocks - 1
        <5>1. m - 1 # 0
          BY <3>2, <1>2
        <5> QED BY <5>1, <2>1, <1>1
      <4> QED BY <4>1, <3>2, <2>2, <1>4 DEF ListInv, IndexAsInOnePass
    <3> QED BY <3>1, <3>2, <2>2
  <2>5. list[i].raw \in Int /\ list[i - 1].raw \in Int /\ SPAN \in Int
    BY <1>1, <1>5
  <2>6. LongestBlock \in Int
    BY <1>3
  <2>7. End[m - 1] \in Int /\ End[m] \in Int
    BY <2>2
  <2>8. list[i].raw <= End[m]
    BY <2>2
  <2> HIDE DEF T
  <2> QED BY ONLY <2>3, <2>4, <2>5, <2>6, <2>7, <2>8, GapArithmetic, Zenon
<1> QED BY <1>8, <1>9

-----------------------------------------------------------------------------
(* Init, and the steps.                                                    *)

BufferType == [0 .. MaxLen - 1 -> Cell \cup {Unset}]
RequestType == [offset : Nat, length : 0 .. MaxLen]

\* The values that stand for nothing have the types of what they stand for.
LEMMA Blank ==
    /\ NoContext \in [0 .. WINDOW_SIZE - 1 -> Cell]
    /\ NoDict \in DictType /\ NoDict.raw = 0 /\ WindowRight(NoDict)
    /\ NoStream \in StreamType
    /\ [raw |-> 0, block |-> -1, in |-> 0, out |-> 0] \in StreamType
    /\ EmptyBuffer \in BufferType
<1>1. Total \in Nat /\ NumBlocks \in Nat /\ WINDOW_SIZE \in Nat
  BY StreamAssumption
<1>2. NoContext \in [0 .. WINDOW_SIZE - 1 -> Cell]
  BY DEF NoContext, Cell
<1>3. NoDict \in DictType
  BY <1>1, <1>2 DEF NoDict, DictType
<1>4. NoDict.raw = 0 /\ WindowRight(NoDict)
  BY <1>1 DEF NoDict, WindowRight
<1>5. /\ NoStream \in StreamType
      /\ [raw |-> 0, block |-> -1, in |-> 0, out |-> 0] \in StreamType
  BY <1>1 DEF NoStream, StreamType
<1>6. EmptyBuffer \in BufferType
  BY DEF EmptyBuffer, BufferType
<1> QED BY <1>2, <1>3, <1>4, <1>5, <1>6

\* The type invariant, with its record types named.
LEMMA Types ==
    TypeOK <=> /\ inst \in Instances
               /\ list \in Seq(EntryType)
               /\ pc \in Pcs
               /\ req \in RequestType
               /\ z \in StreamType
               /\ fp \in 0 .. FileSize
               /\ context \in [0 .. WINDOW_SIZE - 1 -> Cell]
               /\ dict \in DictType
               /\ skip \in Nat
               /\ out \in BufferType
               /\ ret \in {INDEXER_ERROR} \cup 0 .. MaxLen
  BY Zenon DEF TypeOK, RequestType, StreamType, DictType, BufferType

\* The same of the next state.
LEMMA TypesNext ==
    TypeOK' <=> /\ inst' \in Instances
                /\ (list \in Seq(EntryType))'
                /\ pc' \in Pcs
                /\ req' \in RequestType
                /\ z' \in StreamType
                /\ fp' \in 0 .. FileSize'
                /\ context' \in [0 .. WINDOW_SIZE - 1 -> Cell]
                /\ dict' \in DictType
                /\ skip' \in Nat
                /\ out' \in BufferType
                /\ ret' \in {INDEXER_ERROR} \cup 0 .. MaxLen
  BY Zenon DEF TypeOK, RequestType, StreamType, DictType, BufferType

\* An empty list is as it should be.
LEMMA EmptyList ==
    ASSUME list = << >> PROVE ListInv
<1>1. list \in Seq(EntryType) /\ Len(list) = 0
  BY EmptySeq
<1> QED BY <1>1 DEF ListInv, Points, IndexAsInOnePass

\* The invariant holds at first.
LEMMA InitIInv == Init => IInv
<1> SUFFICES ASSUME Init PROVE IInv
  OBVIOUS
<1>1. ListInv
  BY EmptyList DEF Init
<1>2. FileSize \in Nat /\ MaxLen \in Nat
  BY InstanceIs, StreamAssumption DEF Init
<1>3. TypeOK
  <2>1. list \in Seq(EntryType)
    BY <1>1 DEF ListInv
  <2>2. req \in RequestType
    BY <1>2 DEF Init, RequestType
  <2>3. z \in StreamType /\ context \in [0 .. WINDOW_SIZE - 1 -> Cell]
        /\ dict \in DictType /\ out \in BufferType
    BY Blank, Zenon DEF Init
  <2>4. /\ inst \in Instances /\ pc \in Pcs /\ fp \in 0 .. FileSize /\ skip \in Nat
        /\ ret \in {INDEXER_ERROR} \cup 0 .. MaxLen
    BY <1>2 DEF Init, Pcs
  <2> QED BY <2>1, <2>2, <2>3, <2>4, Types
<1>4. Building /\ Windows /\ Near /\ SkipBounded /\ Reading /\ Returned
  BY DEF Init, Building, Windows, Near, SkipBounded, Reading, Returned
<1> QED BY <1>1, <1>3, <1>4 DEF IInv

\* The index stays as it should be when it does not change.
LEMMA ListStays ==
    ASSUME ListInv, list' = list, inst' = inst PROVE ListInv'
  BY DEF ListInv, Points, IndexAsInOnePass, OneChunk, WindowRight, PointAt,
         CHUNK, FileSize, compressed_byte_address, bits

\* What the instance gives stays.
LEMMA InstanceStays ==
    ASSUME inst' = inst
    PROVE  /\ CHUNK' = CHUNK /\ FileSize' = FileSize /\ Faults' = Faults
           /\ OneChunk' = OneChunk /\ Whole' = Whole /\ Dist' = Dist
  BY DEF CHUNK, FileSize, Faults, OneChunk, Whole, Dist

\* build_index returns, and the read goes on with the index there is.
LEMMA BuildEndsIs ==
    ASSUME IInv, inst' = inst, BuildEnds, ListInv',
           UNCHANGED <<req, skip, out, ret>>, Near'
    PROVE  IInv'
<1>1. TypeOK'
  <2>1. FileSize' = FileSize /\ FileSize \in Nat
    BY InstanceStays, InstanceIs DEF IInv, TypeOK
  <2>2. fp' \in 0 .. FileSize'
    BY <2>1 DEF BuildEnds, IInv, TypeOK
  <2>3. z' \in StreamType /\ context' \in [0 .. WINDOW_SIZE - 1 -> Cell]
        /\ dict' \in DictType /\ pc' \in Pcs
    BY Blank, Zenon DEF BuildEnds, Pcs
  <2>4. /\ inst' \in Instances /\ req' \in RequestType /\ skip' \in Nat
        /\ out' \in BufferType /\ ret' \in {INDEXER_ERROR} \cup 0 .. MaxLen
    BY Types, Zenon DEF IInv
  <2>5. (list \in Seq(EntryType))'
    BY DEF ListInv
  <2> QED BY <2>2, <2>3, <2>4, <2>5, TypesNext, Zenon
<1>2. pc' = "search"
  BY DEF BuildEnds
<1>3. Building' /\ Windows' /\ SkipBounded' /\ Reading'
  BY <1>2 DEF Building, Windows, SkipBounded, Reading
<1>4. Returned'
  <2>1. OneChunk' = OneChunk
    BY InstanceStays
  <2> QED BY <2>1 DEF IInv, Returned
<1> QED BY <1>1, <1>3, <1>4 DEF IInv

\* gzip_reader_alloc, gzip_reader_free, and what kills the process: the search
\* in an empty list, and a point there is no memory for.
LEMMA OpenCloseStep ==
    ASSUME IInv, inst' = inst,
           gzip_reader_alloc \/ gzip_reader_free \/ SearchCrash \/ PointCrash
    PROVE  IInv'
<1>1. /\ UNCHANGED <<req, z, context, dict, skip, out, ret>>
      /\ fp' \in {0, fp}
  BY DEF gzip_reader_alloc, gzip_reader_free, SearchCrash, PointCrash
<1>2. pc' \in {"idle", "closed", "dead"}
  BY DEF gzip_reader_alloc, gzip_reader_free, SearchCrash, PointCrash
<1>3. ListInv'
  <2>1. CASE list' = list
    BY <2>1, ListStays DEF IInv
  <2>2. CASE list' = << >>
    <3>1. (list \in Seq(EntryType))' /\ Len(list') = 0
      BY <2>2, EmptySeq
    <3> QED BY <3>1 DEF ListInv, Points, IndexAsInOnePass
  <2> QED BY <2>1, <2>2 DEF gzip_reader_alloc, gzip_reader_free, SearchCrash, PointCrash
<1>4. TypeOK'
  <2>0. fp' \in 0 .. FileSize'
    BY <1>1, InstanceIs, InstanceStays DEF IInv, TypeOK
  <2>1. /\ inst' \in Instances /\ req' \in RequestType /\ z' \in StreamType
        /\ context' \in [0 .. WINDOW_SIZE - 1 -> Cell]
        /\ dict' \in DictType /\ skip' \in Nat /\ out' \in BufferType
        /\ ret' \in {INDEXER_ERROR} \cup 0 .. MaxLen
    BY <1>1, Types, Zenon DEF IInv
  <2>2. pc' \in Pcs
    BY <1>2 DEF Pcs
  <2>3. (list \in Seq(EntryType))'
    BY <1>3 DEF ListInv
  <2> QED BY <2>0, <2>1, <2>2, <2>3, TypesNext, Zenon
<1>5. Building' /\ Windows' /\ Near' /\ SkipBounded' /\ Reading'
  BY <1>2 DEF Building, Windows, Near, SkipBounded, Reading
<1>6. Returned'
  <2>1. OneChunk' = OneChunk
    BY InstanceStays
  <2> QED BY <1>1, <2>1 DEF IInv, Returned
<1> QED BY <1>3, <1>4, <1>5, <1>6 DEF IInv

\* A point of the index, and the block it is at the end of.
LEMMA PointIs ==
    ASSUME ListInv, NEW i \in 1 .. Len(list)
    PROVE  /\ list[i] \in EntryType
           /\ list[i].raw \in 0 .. Total
           /\ [raw |-> list[i].raw, context |-> list[i].context] \in DictType
           /\ \E k \in 0 .. NumBlocks - 1 : PointAt(list[i], k)
<1>1. list[i] \in EntryType
  BY ElementOfSeq, Zenon DEF ListInv
<1>2. list[i].raw \in 0 .. Total /\ list[i].context \in [0 .. WINDOW_SIZE - 1 -> Cell]
  BY <1>1 DEF EntryType
<1>3. [raw |-> list[i].raw, context |-> list[i].context] \in DictType
  BY <1>2, Zenon DEF DictType
<1> QED BY <1>1, <1>2, <1>3 DEF ListInv, Points

\* gzip_read finds the index long enough, or starts to build it.
LEMMA ReadStep ==
    ASSUME IInv, inst' = inst, NEW o \in 0 .. Total + 1, NEW n \in 0 .. MaxLen,
           gzip_read(o, n)
    PROVE  IInv'
<1>1. /\ Total \in Nat /\ MaxLen \in Nat /\ NumBlocks \in Nat \ {0} /\ SPAN \in Nat
      /\ WINDOW_SIZE \in Nat
  BY StreamAssumption
<1>2. /\ req' = [offset |-> o, length |-> n] /\ out' = EmptyBuffer /\ ret' = 0
      /\ list' = list /\ skip' = skip
  BY DEF gzip_read
<1>3. ListInv'
  BY <1>2, ListStays DEF IInv
<1>4. req' \in RequestType /\ out' \in BufferType /\ ret' \in {INDEXER_ERROR} \cup 0 .. MaxLen
  <2>1. req' \in RequestType
    BY <1>1, <1>2 DEF RequestType
  <2>2. out' \in BufferType
    BY <1>2, Blank
  <2> QED BY <2>1, <2>2, <1>1, <1>2
<1>5. inst' \in Instances /\ (list \in Seq(EntryType))' /\ skip' \in Nat
  BY <1>2, <1>3 DEF IInv, TypeOK, ListInv
<1>6. Len(list) \in Nat /\ FileSize \in Nat /\ FileSize' = FileSize
  BY InstanceIs, InstanceStays, LenProperties DEF IInv, TypeOK
<1>7. Returned'
  BY <1>2 DEF Returned
<1>8. CASE Indexed(o + n)
  <2>1. pc' = "search" /\ UNCHANGED <<z, fp, context, dict>>
    BY <1>8 DEF gzip_read
  <2>2. TypeOK'
    <3>1. /\ z' \in StreamType /\ fp' \in 0 .. FileSize'
          /\ context' \in [0 .. WINDOW_SIZE - 1 -> Cell] /\ dict' \in DictType
      BY <2>1, <1>6, Types, Zenon DEF IInv
    <3>2. pc' \in Pcs
      BY <2>1 DEF Pcs
    <3> QED BY <3>1, <3>2, <1>4, <1>5, TypesNext, Zenon
  <2>3. Near'
    <3>1. Len(list) \in 1 .. Len(list) /\ last.raw + SPAN > o + n
      BY <1>6, <1>8 DEF Indexed
    <3>2. last.raw \in 0 .. Total
      BY <3>1, PointIs DEF IInv, last
    <3>3. LongestBlock \in 0 .. Total
      BY LongestIs
    <3>4. o <= last.raw + 2 * SPAN + LongestBlock
      BY <3>1, <3>2, <3>3, <1>1
    <3> QED BY <3>4, <1>2 DEF Near, last
  <2>4. Building' /\ Windows' /\ SkipBounded' /\ Reading'
    BY <2>1 DEF Building, Windows, SkipBounded, Reading
  <2> QED BY <2>2, <2>3, <2>4, <1>3, <1>7 DEF IInv
<1>b. CASE ~Indexed(o + n) /\ Len(list) = 0 /\ fp # 0
  <2>1. BuildEnds
    BY <1>b DEF gzip_read, StartBuild
  <2>2. pc' = "search" /\ Len(list') = 0
    BY <2>1, <1>b, <1>2 DEF BuildEnds
  <2>3. TypeOK'
    <3>1. fp' \in 0 .. FileSize'
      BY <2>1, <1>6 DEF BuildEnds, IInv, TypeOK
    <3>2. /\ z' \in StreamType /\ context' \in [0 .. WINDOW_SIZE - 1 -> Cell]
          /\ dict' \in DictType /\ pc' \in Pcs
      BY <2>1, Blank, Zenon DEF BuildEnds, Pcs
    <3> QED BY <3>1, <3>2, <1>4, <1>5, TypesNext, Zenon
  <2>4. Building' /\ Windows' /\ Near' /\ SkipBounded' /\ Reading'
    BY <2>2 DEF Building, Windows, Near, SkipBounded, Reading
  <2> QED BY <2>3, <2>4, <1>3, <1>7 DEF IInv
<1>9. CASE ~Indexed(o + n) /\ (Len(list) = 0 => fp = 0)
  <2>1. StartBuild
    BY <1>9 DEF gzip_read
  <2>2. pc' = "chunk" /\ context' = NoContext
    BY <2>1, <1>9 DEF StartBuild
  <2>3. Near' /\ SkipBounded' /\ Reading'
    BY <2>2 DEF Near, SkipBounded, Reading
  <2>4. pc' \in Pcs /\ context' \in [0 .. WINDOW_SIZE - 1 -> Cell]
    BY <2>2, Blank DEF Pcs
  <2>5. CASE Len(list) = 0
    <3>1. /\ z' = [raw |-> 0, block |-> -1, in |-> 0, out |-> 0]
          /\ fp' = 0 /\ dict' = NoDict
      BY <2>1, <2>5, <1>9 DEF StartBuild
    <3>2. z' \in StreamType /\ dict' \in DictType /\ fp' \in 0 .. FileSize'
      BY <3>1, <1>6, Blank
    <3>3. TypeOK'
      BY <3>2, <2>4, <1>4, <1>5, TypesNext, Zenon
    <3>4. z'.block = -1 /\ z'.raw = 0 /\ dict'.raw = 0
      BY <3>1, Blank
    <3>5. Building'
      <4>1. Position(z)'
        <5>1. Within(z)'
          <6>1. End[0] = 0
            BY StreamAssumption
          <6> QED BY <6>1, <3>4, <1>1 DEF Within
        <5> QED BY <5>1, <3>4, <2>5, <1>2 DEF Position
      <4>2. NotPassedOver(z)'
        BY <3>4, <1>1 DEF NotPassedOver
      <4>3. Whole' => fp' # FileSize'
        <5> SUFFICES ASSUME Whole PROVE FileSize # 0
          BY <3>1, <1>6, InstanceStays
        <5>1. EndBit[NumBlocks] \in Nat
          BY StreamAssumption
        <5>2. Bytes(EndBit[NumBlocks]) \in Nat
          BY <5>1, BytesHold
        <5> QED BY <5>2, <1>6 DEF Whole
      <4> QED BY <4>1, <4>2, <4>3, <3>4, <2>5, <1>2 DEF Building
    <3>6. Windows'
      <4>1. WindowRight(dict)'
        BY <3>1, Blank
      <4> QED BY <4>1, <3>4, <2>2 DEF Windows
    <3> QED BY <3>3, <3>5, <3>6, <2>3, <1>3, <1>7 DEF IInv
  <2>6. CASE Len(list) # 0
    <3>1. Len(list) \in 1 .. Len(list)
      BY <2>6, <1>6
    <3>2. /\ last \in EntryType /\ last.raw \in 0 .. Total
          /\ [raw |-> last.raw, context |-> last.context] \in DictType
      BY <3>1, PointIs DEF IInv, last
    <3>3. PICK k \in 0 .. NumBlocks - 1 : PointAt(last, k)
      BY <3>1, PointIs DEF IInv, last
    <3>4. k \in 0 .. NumBlocks /\ BlocksAt(RestartBit(last)) = {k}
      <4>1. k \in 0 .. NumBlocks
        BY <1>1
      <4> QED BY <4>1, <3>3, RestartsAt
    <3>5. /\ z' = [raw |-> last.raw, block |-> k, in |-> 0, out |-> 0]
          /\ fp' = last.comp
          /\ dict' = [raw |-> last.raw, context |-> last.context]
      BY <2>1, <2>6, <3>4 DEF StartBuild
    <3>6. z'.block = k /\ z'.raw = last.raw /\ dict'.raw = last.raw
      BY <3>5
    <3>7. EndBit[k] \in Nat /\ End[k] \in 0 .. Total
      BY <3>4, StreamAssumption
    <3>8. last.raw = End[k] /\ last.comp = Bytes(EndBit[k]) /\ last.comp <= FileSize
          /\ last.comp \in Nat
      BY <3>3, <3>7, BytesHold DEF PointAt, compressed_byte_address
    <3>9. TypeOK'
      <4>1. z' \in StreamType
        <5>1. k \in -1 .. NumBlocks /\ 0 \in 0 .. WINDOW_SIZE /\ 0 \in Nat
          BY <3>4, <1>1
        <5> QED BY <5>1, <3>2, <3>5, Zenon DEF StreamType
      <4>2. dict' \in DictType
        BY <3>2, <3>5
      <4>3. fp' \in 0 .. FileSize'
        BY <3>5, <3>8, <1>6
      <4> QED BY <4>1, <4>2, <4>3, <2>4, <1>4, <1>5, TypesNext, Zenon
    <3>10. Building'
      <4>1. Position(z)'
        <5>1. End[k] <= End[k + 1]
          <6>1. k + 1 \in k .. NumBlocks
            BY <1>1
          <6> QED BY <6>1, <3>4, StreamOrder
        <5>2. Within(z)'
          BY <5>1, <3>6, <3>7, <3>8, <1>1 DEF Within
        <5> QED BY <5>2, <3>2, <3>6, <3>1, <1>2 DEF Position, last
      <4>2. NotPassedOver(z)'
        <5> SUFFICES ASSUME NEW j \in 1 .. NumBlocks - 1, j <= k
                     PROVE  End[j] <= last.raw + SPAN
          BY <3>6, <1>2 DEF NotPassedOver, last
        <5>1. j \in 0 .. NumBlocks /\ k \in j .. NumBlocks
          BY <1>1, <3>4
        <5>2. End[j] <= End[k]
          BY <5>1, StreamOrder
        <5>3. End[j] \in 0 .. Total
          BY <5>1, StreamAssumption
        <5> QED BY <5>2, <5>3, <3>7, <3>8, <1>1
      <4>3. Whole' => fp' # FileSize'
        <5> SUFFICES ASSUME Whole PROVE last.comp # FileSize
          BY <3>5, <1>6, InstanceStays
        <5>1. NumBlocks \in k + 1 .. NumBlocks /\ NumBlocks \in 0 .. NumBlocks
          BY <1>1, <3>4
        <5>2. EndBit[k] < EndBit[NumBlocks]
          BY <5>1, <3>4, StreamOrder
        <5>3. EndBit[NumBlocks] \in Nat
          BY <5>1, StreamAssumption
        <5>4. /\ Bytes(EndBit[NumBlocks]) \in Nat
              /\ EndBit[NumBlocks] <= 8 * Bytes(EndBit[NumBlocks])
          BY <5>3, BytesHold
        <5>5. EndBit[k] <= 8 * Bytes(EndBit[NumBlocks])
          BY <5>2, <5>3, <5>4, <3>7
        <5>6. Bytes(EndBit[k]) <= Bytes(EndBit[NumBlocks])
          BY <5>4, <5>5, <3>7, BytesHold
        <5> QED BY <5>4, <5>6, <3>8, <1>6 DEF Whole
      <4>4. dict'.raw <= z'.raw /\ (Len(list') > 0 => dict'.raw <= last'.raw)
        BY <3>2, <3>6, <1>2 DEF last
      <4> QED BY <4>1, <4>2, <4>3, <4>4 DEF Building
    <3>11. Windows'
      <4>1. OneChunk' => WindowRight(dict)'
        <5> SUFFICES ASSUME OneChunk PROVE WindowRight(dict)'
          BY InstanceStays
        <5>1. WindowRight(last)
          BY <3>1 DEF IInv, ListInv, last
        <5>2. dict'.raw = last.raw /\ dict'.context = last.context
          BY <3>5
        <5> QED BY <5>1, <5>2 DEF WindowRight
      <4> QED BY <4>1, <3>6, <2>2 DEF Windows
    <3> QED BY <3>9, <3>10, <3>11, <2>3, <1>3, <1>7 DEF IInv
  <2> QED BY <2>5, <2>6
<1> QED BY <1>8, <1>b, <1>9

\* A chunk of the file is read.
LEMMA ReadChunkStep ==
    ASSUME IInv, inst' = inst, ReadChunk PROVE IInv'
<1> DEFINE n == Least(CHUNK, FileSize - fp)
<1>1. /\ pc = "chunk" /\ fp < FileSize /\ pc' = "inflate" /\ fp' = fp + n
      /\ z' = [z EXCEPT !.in = n, !.out = 0]
      /\ UNCHANGED <<list, req, context, dict, skip, out, ret>>
  BY DEF ReadChunk
<1>2. FileSize \in Nat /\ CHUNK \in Nat \ {0} /\ FileSize' = FileSize
  BY InstanceIs, InstanceStays DEF IInv, TypeOK
<1>3. fp \in Nat /\ WINDOW_SIZE \in Nat \ {0}
  BY <1>2, StreamAssumption DEF IInv, TypeOK
<1>4. n \in Nat /\ fp + n <= FileSize /\ (CHUNK >= FileSize => fp + n = FileSize)
  BY <1>1, <1>2, <1>3 DEF Least
<1> HIDE DEF n
<1>5. /\ z \in StreamType /\ dict \in DictType
  BY Types DEF IInv
<1>6. /\ z'.raw = z.raw /\ z'.block = z.block /\ z'.out = 0
      /\ z' = [raw |-> z.raw, block |-> z.block, in |-> n, out |-> 0]
  BY <1>1, <1>5 DEF StreamType
<1>7. ListInv'
  BY <1>1, ListStays DEF IInv
<1>8. TypeOK'
  <2>1. z' \in StreamType
    <3>1. z.raw \in 0 .. Total /\ z.block \in -1 .. NumBlocks /\ 0 \in 0 .. WINDOW_SIZE
      BY <1>3, <1>5 DEF StreamType
    <3>2. [raw |-> z.raw, block |-> z.block, in |-> n, out |-> 0] \in StreamType
      BY <3>1, <1>4, Zenon DEF StreamType
    <3> QED BY <3>2, <1>6, Zenon
  <2>2. fp' \in 0 .. FileSize'
    BY <1>1, <1>2, <1>3, <1>4
  <2>3. /\ inst' \in Instances /\ req' \in RequestType
        /\ context' \in [0 .. WINDOW_SIZE - 1 -> Cell] /\ dict' \in DictType
        /\ skip' \in Nat /\ out' \in BufferType
        /\ ret' \in {INDEXER_ERROR} \cup 0 .. MaxLen
    BY <1>1, Types, Zenon DEF IInv
  <2>4. pc' \in Pcs /\ (list \in Seq(EntryType))'
    BY <1>1, <1>7 DEF Pcs, ListInv
  <2> QED BY <2>1, <2>2, <2>3, <2>4, TypesNext, Zenon
<1>9. Building'
  BY <1>1, <1>6 DEF IInv, Building, Position, Within, NotPassedOver, last
<1>10. Windows'
  <2> SUFFICES ASSUME OneChunk
               PROVE  WindowRight(dict)' /\ fp' = FileSize' /\ CellsRight(z, context)'
    BY <1>1, InstanceStays DEF Windows
  <2>1. WindowRight(dict)'
    BY <1>1 DEF IInv, Windows, WindowRight
  <2>2. fp' = FileSize'
    BY <1>1, <1>2, <1>4 DEF OneChunk
  <2>3. z.raw = dict.raw /\ z.raw \in Int
    BY <1>1, <1>5 DEF IInv, Windows, StreamType
  <2>4. CellsRight(z, context)'
    <3> SUFFICES ASSUME NEW c \in 0 .. WINDOW_SIZE - 1 PROVE ~(Address(z', c) >= dict.raw)
      BY <1>1 DEF CellsRight, Address
    <3> QED BY <1>3, <1>6, <2>3 DEF Address
  <2> QED BY <2>1, <2>2, <2>4
<1>11. Near' /\ SkipBounded' /\ Reading'
  BY <1>1 DEF Near, SkipBounded, Reading
<1>12. Returned'
  <2>1. OneChunk' = OneChunk
    BY InstanceStays
  <2> QED BY <1>1, <2>1 DEF IInv, Returned
<1> QED BY <1>7, <1>8, <1>9, <1>10, <1>11, <1>12 DEF IInv

\* The offset is near the last point when what there is of the index is
\* enough, or the stream has ended.
LEMMA NearEnough ==
    ASSUME ListInv, req \in RequestType, NEW s \in StreamType,
           Position(s), NotPassedOver(s), Len(list) > 0,
           \/ max_byte_address < s.raw + SPAN
           \/ req.offset <= Total /\ s.block = NumBlocks
    PROVE  req.offset <= last.raw + 2 * SPAN + LongestBlock
<1>1. Len(list) \in 1 .. Len(list)
  BY LenProperties DEF ListInv
<1>2. last.raw \in 0 .. Total
  BY <1>1, PointIs DEF last
<1>3. SPAN \in Nat /\ Total \in Nat /\ NumBlocks \in Nat \ {0} /\ End[NumBlocks] = Total
  BY StreamAssumption
<1>4. req.offset \in Nat /\ req.length \in Nat
  BY StreamAssumption DEF RequestType
<1>5. s.raw \in 0 .. Total /\ s.block \in -1 .. NumBlocks
  BY DEF StreamType
<1>6. s.block >= 0
  BY <1>1, <1>5 DEF Position
<1>7. s.raw <= last.raw + SPAN + LongestBlock
  BY <1>2, <1>6, Ahead DEF Position, NotPassedOver
<1>8. LongestBlock \in 0 .. Total
  BY LongestIs
<1>9. CASE max_byte_address < s.raw + SPAN
  <2>1. req.offset < s.raw + SPAN
    <3>1. req.offset + req.length < s.raw + SPAN
      BY <1>9 DEF max_byte_address
    <3>2. s.raw \in Int
      BY <1>5
    <3> QED BY <3>1, <3>2, <1>3, <1>4
  <2>2. /\ req.offset \in Int /\ s.raw \in Int /\ last.raw \in Int
        /\ SPAN \in Int /\ LongestBlock \in Int
    BY <1>2, <1>3, <1>4, <1>5, <1>8
  <2> QED BY <2>1, <2>2, <1>7
<1>10. CASE req.offset <= Total /\ s.block = NumBlocks
  <2>1. s.raw = Total
    BY <1>10, <1>3, <1>5, <1>6 DEF Position, Within
  <2> QED BY <2>1, <1>10, <1>2, <1>3, <1>4, <1>7, <1>8
<1> QED BY <1>9, <1>10

\* The file ends or cannot be read, or inflate fails.
LEMMA BuildFailsStep ==
    ASSUME IInv, inst' = inst, ReadChunkFails \/ InflateFails PROVE IInv'
<1>1. /\ BuildEnds /\ UNCHANGED <<list, req, skip, out, ret>>
      /\ pc \in {"chunk", "inflate"}
  BY DEF ReadChunkFails, InflateFails
<1>2. ListInv'
  BY <1>1, ListStays DEF IInv
<1>3. Near'
  <2> SUFFICES ASSUME Faults = {}, Whole, req.offset <= Total, Len(list) > 0
               PROVE  req.offset <= last.raw + 2 * SPAN + LongestBlock
    BY <1>1, InstanceStays DEF Near, last
  <2>1. pc = "chunk" /\ fp = FileSize
    BY DEF ReadChunkFails, InflateFails
  <2>2. z.block = NumBlocks /\ Position(z) /\ NotPassedOver(z)
    BY <2>1 DEF IInv, Building
  <2>3. z \in StreamType /\ req \in RequestType
    BY Types DEF IInv
  <2> QED BY <2>2, <2>3, NearEnough DEF IInv
<1> QED BY <1>1, <1>2, <1>3, BuildEndsIs

\* The stream has ended.
LEMMA StreamEndStep ==
    ASSUME IInv, inst' = inst, StreamEnd PROVE IInv'
<1>1. /\ pc = "inflate" /\ z.block = NumBlocks /\ ChunkEnds(z, context)
      /\ UNCHANGED <<list, req, skip, out, ret>>
  BY DEF StreamEnd
<1>2. ListInv'
  BY <1>1, ListStays DEF IInv
<1>3. CASE BuildEnds
  <2>1. Near'
    <3> SUFFICES ASSUME req.offset <= Total, Len(list) > 0
                 PROVE  req.offset <= last.raw + 2 * SPAN + LongestBlock
      BY <1>1, InstanceStays DEF Near, last
    <3>1. Position(z) /\ NotPassedOver(z)
      BY <1>1 DEF IInv, Building
    <3>2. z \in StreamType /\ req \in RequestType
      BY Types DEF IInv
    <3> QED BY <3>1, <3>2, <1>1, NearEnough DEF IInv
  <2> QED BY <2>1, <1>1, <1>2, <1>3, BuildEndsIs
<1>4. CASE pc' = "chunk" /\ z' = z /\ context' = context /\ UNCHANGED <<fp, dict>>
  <2>1. TypeOK'
    <3>1. FileSize' = FileSize
      BY InstanceStays
    <3>2. pc' \in Pcs
      BY <1>4 DEF Pcs
    <3> QED BY <3>1, <3>2, <1>1, <1>4, Types, TypesNext, Zenon DEF IInv
  <2>2. Building'
    BY <1>1, <1>4 DEF IInv, Building, Position, Within, NotPassedOver, last
  <2>3. Windows'
    <3> SUFFICES ASSUME OneChunk PROVE WindowRight(dict)' /\ fp' = FileSize'
      <4>1. FileSize' \in Nat
        BY InstanceIs, InstanceStays DEF IInv, TypeOK
      <4>2. pc' = "chunk" /\ OneChunk' = OneChunk
        BY <1>4, InstanceStays
      <4>3. fp' = FileSize' => ~(fp' < FileSize')
        BY <4>1
      <4> QED BY <4>2, <4>3 DEF Windows
    <3>1. WindowRight(dict)'
      BY <1>1, <1>4 DEF IInv, Windows, WindowRight
    <3> QED BY <3>1, <1>1, <1>4, InstanceStays DEF IInv, Windows
  <2>4. Near' /\ SkipBounded' /\ Reading'
    BY <1>4 DEF Near, SkipBounded, Reading
  <2>5. Returned'
    <3>1. OneChunk' = OneChunk
      BY InstanceStays
    <3> QED BY <1>1, <3>1 DEF IInv, Returned
  <2> QED BY <2>1, <2>2, <2>3, <2>4, <2>5, <1>2 DEF IInv
<1> QED BY <1>1, <1>3, <1>4 DEF ChunkEnds

\* Inflate moves on by what it writes: from raw address r1 with o1 cells left
\* of the window of w to r2 with o2, having started at d.
LEMMA Moving ==
    ASSUME NEW w \in Nat, NEW t \in Nat, NEW r1 \in Int, NEW r2 \in Int,
           NEW o1 \in Int, NEW o2 \in Int, NEW d \in Int, NEW c \in Int,
           d <= r1, 0 <= r1, r1 <= r2, r2 <= t, o1 - o2 = r2 - r1
    PROVE  /\ w - o1 <= c /\ c < w - o2
                 => r1 + (c - (w - o1)) \in 0 .. t - 1 /\ d <= r1 + (c - (w - o1))
           /\ r2 - (w - o2) = r1 - (w - o1)
           /\ w - o1 <= w - o2
           /\ r1 - (w - o1) + c = r1 + (c - (w - o1))
  OBVIOUS

\* What inflate writes goes to the cells it should.
LEMMA WrittenIs ==
    ASSUME inst \in Instances, dict \in DictType,
           context \in [0 .. WINDOW_SIZE - 1 -> Cell],
           NEW old \in StreamType, NEW new \in StreamType,
           old.raw <= new.raw, old.out - new.out = new.raw - old.raw,
           dict.raw <= old.raw
    PROVE  /\ Written(old, new) \in [0 .. WINDOW_SIZE - 1 -> Cell]
           /\ WindowRight(dict) /\ CellsRight(old, context)
                 => CellsRight(new, Written(old, new))
<1> DEFINE first == WINDOW_SIZE - old.out
           ctx == Written(old, new)
<1>1. WINDOW_SIZE \in Nat /\ Total \in Nat
  BY StreamAssumption
<1>2. /\ old.raw \in Int /\ 0 <= old.raw
      /\ new.raw \in Int /\ new.raw <= Total
      /\ old.out \in Int /\ 0 <= old.out /\ old.out <= WINDOW_SIZE
      /\ new.out \in Int /\ 0 <= new.out
  BY <1>1 DEF StreamType
<1>3. dict.raw \in Int /\ Decoded(dict) \in [0 .. Total - 1 -> Cell]
  BY <1>1, DecodedIs DEF DictType
<1>4. \A c \in Int :
           /\ first <= c /\ c < WINDOW_SIZE - new.out
                 => old.raw + (c - first) \in 0 .. Total - 1 /\ dict.raw <= old.raw + (c - first)
           /\ new.raw - (WINDOW_SIZE - new.out) = old.raw - first
           /\ first <= WINDOW_SIZE - new.out
           /\ old.raw - first + c = old.raw + (c - first)
  <2> TAKE c \in Int
  <2>1. /\ WINDOW_SIZE \in Nat /\ Total \in Nat /\ old.raw \in Int /\ new.raw \in Int
        /\ old.out \in Int /\ new.out \in Int /\ dict.raw \in Int
    BY <1>1, <1>2, <1>3
  <2>2. 0 <= old.raw /\ new.raw <= Total
    BY <1>2
  <2> QED BY ONLY <2>1, <2>2, c \in Int, dict.raw <= old.raw, old.raw <= new.raw,
                  old.out - new.out = new.raw - old.raw, Moving, SMT
<1>5. \A c \in 0 .. WINDOW_SIZE - 1 : c \in Int
  OBVIOUS
<1>6. \A c \in 0 .. WINDOW_SIZE - 1 : first <= c /\ c < WINDOW_SIZE - new.out
         => old.raw + (c - first) \in 0 .. Total - 1 /\ dict.raw <= old.raw + (c - first)
  <2> HIDE DEF first
  <2> QED BY <1>4, <1>5, Zenon
<1>7. \A c \in 0 .. WINDOW_SIZE - 1 :
         ctx[c] = IF first <= c /\ c < WINDOW_SIZE - new.out
                  THEN Decoded(dict)[old.raw + (c - first)] ELSE context[c]
  BY DEF Written
<1>8. ctx \in [0 .. WINDOW_SIZE - 1 -> Cell]
  <2>1. \A c \in 0 .. WINDOW_SIZE - 1 : first <= c /\ c < WINDOW_SIZE - new.out
           => Decoded(dict)[old.raw + (c - first)] \in Cell
    BY <1>3, <1>6
  <2>2. \A c \in 0 .. WINDOW_SIZE - 1 : context[c] \in Cell
    OBVIOUS
  <2>3. ctx = [c \in 0 .. WINDOW_SIZE - 1 |->
                 IF first <= c /\ c < WINDOW_SIZE - new.out
                 THEN Decoded(dict)[old.raw + (c - first)] ELSE context[c]]
    BY Zenon DEF Written
  <2> HIDE DEF first, ctx
  <2> QED BY <2>1, <2>2, <2>3, Zenon
<1>9. \A c \in Int : /\ (c < first <=> c < WINDOW_SIZE - new.out)
                             => Address(new, c) = Address(old, c)
                     /\ c < WINDOW_SIZE - new.out
                             => Address(new, c) = old.raw + (c - first)
  <2> TAKE c \in Int
  <2>1. /\ new.raw - (WINDOW_SIZE - new.out) = old.raw - first
        /\ old.raw - first + c = old.raw + (c - first)
    BY <1>4
  <2>2. Address(old, c) = IF c < first THEN old.raw - first + c
                          ELSE old.raw - first - WINDOW_SIZE + c
    BY DEF Address
  <2>3. Address(new, c) = IF c < WINDOW_SIZE - new.out THEN old.raw - first + c
                          ELSE old.raw - first - WINDOW_SIZE + c
    BY <2>1 DEF Address
  <2>4. ASSUME c < first <=> c < WINDOW_SIZE - new.out
        PROVE  Address(new, c) = Address(old, c)
    <3> HIDE DEF first
    <3>1. CASE c < first
      BY <3>1, <2>2, <2>3, <2>4, Zenon
    <3>2. CASE ~(c < first)
      BY <3>2, <2>2, <2>3, <2>4, Zenon
    <3> QED BY <3>1, <3>2
  <2>5. ASSUME c < WINDOW_SIZE - new.out
        PROVE  Address(new, c) = old.raw + (c - first)
    <3> HIDE DEF first
    <3> QED BY <2>1, <2>3, <2>5, Zenon
  <2> HIDE DEF first
  <2> QED BY <2>4, <2>5, Zenon
<1>10. first \in Int /\ first <= WINDOW_SIZE - new.out
  BY <1>1, <1>2, <1>4
<1>11. ASSUME WindowRight(dict), CellsRight(old, context),
             NEW c \in 0 .. WINDOW_SIZE - 1, Address(new, c) >= dict.raw
      PROVE  ctx[c] = Address(new, c)
  <2>1. CASE first <= c /\ c < WINDOW_SIZE - new.out
    <3>1. Address(new, c) = old.raw + (c - first)
      <4> HIDE DEF first
      <4> QED BY <2>1, <1>5, <1>9, Zenon
    <3>2. old.raw + (c - first) \in 0 .. Total - 1 /\ dict.raw <= old.raw + (c - first)
      BY <2>1, <1>6
    <3>3. Decoded(dict)[old.raw + (c - first)] = old.raw + (c - first)
      BY <3>2, <1>11, DecodedRight
    <3> QED BY <3>1, <3>3, <2>1, <1>7
  <2>2. CASE ~(first <= c /\ c < WINDOW_SIZE - new.out)
    <3>1. Address(new, c) = Address(old, c)
      <4>1. c \in Int /\ WINDOW_SIZE - new.out \in Int
        BY <1>1, <1>2
      <4> HIDE DEF first
      <4>2. c < first <=> c < WINDOW_SIZE - new.out
        BY <4>1, <2>2, <1>10
      <4> QED BY <4>1, <4>2, <1>9
    <3>2. context[c] = Address(old, c)
      BY <3>1, <1>11 DEF CellsRight
    <3> QED BY <3>1, <3>2, <2>2, <1>7
  <2> QED BY <2>1, <2>2
<1>12. WindowRight(dict) /\ CellsRight(old, context) => CellsRight(new, ctx)
  <2> HIDE DEF ctx
  <2> QED BY <1>11 DEF CellsRight
<1> QED BY <1>8, <1>12

\* A new access point is made at the end of its block, and its window is
\* right if the cells are and a window's worth was written.
LEMMA PointMade ==
    ASSUME inst \in Instances, fp \in 0 .. FileSize,
           NEW s \in StreamType, s.block \in 0 .. NumBlocks - 1,
           s.raw = End[s.block], EndBit[s.block] <= 8 * fp,
           NEW ctx \in [0 .. WINDOW_SIZE - 1 -> Cell],
           NEW e, e = create_access_point_entry(s.raw, s.block, s.out, ctx)
    PROVE  /\ e \in EntryType /\ e.raw = s.raw
           /\ PointAt(e, s.block)
           /\ dict.raw \in Int /\ CellsRight(s, ctx)
                 /\ (s.raw > 0 => s.raw - dict.raw >= WINDOW_SIZE)
              => WindowRight(e)
<1>1. WINDOW_SIZE \in Nat \ {0} /\ Total \in Nat /\ NumBlocks \in Nat
  BY StreamAssumption
<1>2. s.raw \in 0 .. Total /\ s.out \in 0 .. WINDOW_SIZE
  BY DEF StreamType
<1>3. FileSize \in Nat
  BY InstanceIs
<1>4. EndBit[s.block] \in Nat
  <2>1. s.block \in 0 .. NumBlocks
    BY <1>1
  <2> QED BY <2>1, StreamAssumption
<1>5. /\ Bytes(EndBit[s.block]) \in Nat /\ Bytes(EndBit[s.block]) <= fp
      /\ bits(s.block) \in 0 .. 7
  <2>1. /\ Bytes(EndBit[s.block]) \in Nat
        /\ EndBit[s.block] <= 8 * Bytes(EndBit[s.block])
        /\ 8 * Bytes(EndBit[s.block]) <= EndBit[s.block] + 7
        /\ \A m \in Nat : EndBit[s.block] <= 8 * m => Bytes(EndBit[s.block]) <= m
    BY <1>4, BytesHold, Zenon
  <2>2. fp \in Nat
    BY <1>3
  <2>3. Bytes(EndBit[s.block]) <= fp
    BY <2>1, <2>2
  <2>4. bits(s.block) \in 0 .. 7
    BY <2>1, <1>4 DEF bits
  <2> QED BY <2>1, <2>3, <2>4
<1>6. /\ e.raw = s.raw /\ e.comp = Bytes(EndBit[s.block]) /\ e.bits = bits(s.block)
      /\ e.context = [i \in 0 .. WINDOW_SIZE - 1 |->
                        IF i < s.out THEN ctx[WINDOW_SIZE - s.out + i]
                        ELSE ctx[i - s.out]]
      /\ e = [raw |-> e.raw, comp |-> e.comp, bits |-> e.bits, context |-> e.context]
  BY DEF create_access_point_entry, compressed_byte_address
<1>7. \A i \in 0 .. WINDOW_SIZE - 1 :
          /\ i < s.out => WINDOW_SIZE - s.out + i \in 0 .. WINDOW_SIZE - 1
          /\ ~(i < s.out) => i - s.out \in 0 .. WINDOW_SIZE - 1
  BY <1>1, <1>2
<1>8. e.context \in [0 .. WINDOW_SIZE - 1 -> Cell]
  <2>1. \A i \in 0 .. WINDOW_SIZE - 1 :
          (IF i < s.out THEN ctx[WINDOW_SIZE - s.out + i] ELSE ctx[i - s.out]) \in Cell
    BY <1>7
  <2> QED BY <2>1, <1>6, Zenon
<1>9. e \in EntryType
  BY <1>2, <1>5, <1>6, <1>8, Zenon DEF EntryType
<1>10. PointAt(e, s.block)
  BY <1>3, <1>5, <1>6 DEF PointAt, compressed_byte_address
<1>11. ASSUME dict.raw \in Int, CellsRight(s, ctx),
              s.raw > 0 => s.raw - dict.raw >= WINDOW_SIZE
       PROVE  WindowRight(e)
  <2> SUFFICES ASSUME NEW c \in 0 .. WINDOW_SIZE - 1, s.raw - WINDOW_SIZE + c >= 0
               PROVE  e.context[c] = s.raw - WINDOW_SIZE + c
    BY <1>6 DEF WindowRight
  <2>1. s.raw \in Int /\ s.out \in Int /\ 0 <= s.out /\ s.out <= WINDOW_SIZE
        /\ s.raw >= 0
    BY <1>1, <1>2
  <2>2. s.raw - WINDOW_SIZE + c >= dict.raw
    BY <2>1, <1>1, <1>11
  <2>3. CASE c < s.out
    <3>1. Address(s, WINDOW_SIZE - s.out + c) = s.raw - WINDOW_SIZE + c
      BY <2>1, <2>3, <1>1 DEF Address
    <3>2. ctx[WINDOW_SIZE - s.out + c] = s.raw - WINDOW_SIZE + c
      BY <3>1, <2>2, <2>3, <1>7, <1>11 DEF CellsRight
    <3> QED BY <3>2, <2>3, <1>6
  <2>4. CASE ~(c < s.out)
    <3>1. Address(s, c - s.out) = s.raw - WINDOW_SIZE + c
      BY <2>1, <2>4, <1>1 DEF Address
    <3>2. ctx[c - s.out] = s.raw - WINDOW_SIZE + c
      BY <3>1, <2>2, <2>4, <1>7, <1>11 DEF CellsRight
    <3> QED BY <3>2, <2>4, <1>6
  <2> QED BY <2>3, <2>4
<1> QED BY <1>6, <1>9, <1>10, <1>11

\* The index stays as it should be when a point is appended that is due.
LEMMA ListGrows ==
    ASSUME ListInv, inst' = inst, NEW e \in EntryType, list' = Append(list, e),
           NEW k \in 0 .. NumBlocks - 1, PointAt(e, k),
           OneChunk => WindowRight(e),
           e.raw = 0 \/ (Len(list) > 0 /\ e.raw - last.raw > SPAN),
           Len(list) > 0 =>
              \A j \in 1 .. NumBlocks - 1 :
                  End[j] > 0 /\ End[j] < e.raw => End[j] <= last.raw + SPAN
    PROVE  ListInv' /\ Len(list') = Len(list) + 1 /\ last' = e
<1>1. /\ list \in Seq(EntryType) /\ Len(list) \in Nat
  BY LenProperties DEF ListInv
<1>2. /\ list' \in Seq(EntryType) /\ Len(list') = Len(list) + 1
      /\ \A i \in 1 .. Len(list) : list'[i] = list[i]
      /\ list'[Len(list) + 1] = e
  <2>1. /\ Append(list, e) \in Seq(EntryType)
        /\ Append(list, e) # << >>
        /\ Len(Append(list, e)) = Len(list) + 1
        /\ \A i \in 1 .. Len(list) : Append(list, e)[i] = list[i]
        /\ Append(list, e)[Len(list) + 1] = e
    BY <1>1, AppendProperties, Zenon
  <2> QED BY <2>1
<1>3. \A i \in 1 .. Len(list') : i \in 1 .. Len(list) \/ i = Len(list) + 1
  BY <1>1, <1>2
<1>4. OneChunk' = OneChunk /\ FileSize' = FileSize
  BY InstanceStays
<1>5. Points'
  <2> SUFFICES ASSUME NEW i \in 1 .. Len(list')
               PROVE  \E j \in 0 .. NumBlocks - 1 : PointAt(list[i], j)'
    BY DEF Points
  <2>1. CASE i \in 1 .. Len(list)
    <3>1. PICK j \in 0 .. NumBlocks - 1 : PointAt(list[i], j)
      BY <2>1 DEF ListInv, Points
    <3>2. list'[i] = list[i]
      BY <2>1, <1>2
    <3> QED BY <3>1, <3>2, <1>4 DEF PointAt
  <2>2. CASE i = Len(list) + 1
    <3>1. list'[i] = e
      BY <2>2, <1>2
    <3> QED BY <3>1, <1>4 DEF PointAt
  <2> QED BY <2>1, <2>2, <1>3
<1>6. IndexAsInOnePass'
  <2> SUFFICES ASSUME NEW i \in 1 .. Len(list')
               PROVE  /\ IF i = 1 THEN list'[i].raw = 0
                         ELSE list'[i].raw = 0 \/ list'[i].raw - list'[i - 1].raw > SPAN
                      /\ i > 1 => \A j \in 1 .. NumBlocks - 1 :
                            End[j] > 0 /\ End[j] < list'[i].raw
                               => End[j] <= list'[i - 1].raw + SPAN
    BY DEF IndexAsInOnePass
  <2>1. CASE i \in 1 .. Len(list)
    <3>1. list'[i] = list[i] /\ (i > 1 => list'[i - 1] = list[i - 1])
      <4>1. i > 1 => i - 1 \in 1 .. Len(list)
        BY <2>1, <1>1
      <4> QED BY <4>1, <2>1, <1>2
    <3>2. i # 1 => i > 1
      BY <2>1
    <3> QED BY <3>1, <3>2, <2>1 DEF ListInv, IndexAsInOnePass
  <2>2. CASE i = Len(list) + 1
    <3>1. list'[i] = e
      BY <2>2, <1>2
    <3>2. CASE Len(list) = 0
      BY <3>1, <3>2, <2>2
    <3>3. CASE Len(list) > 0
      <4>1. i # 1 /\ i - 1 = Len(list) /\ Len(list) \in 1 .. Len(list)
        BY <3>3, <2>2, <1>1
      <4>2. list'[i - 1] = last
        BY <4>1, <1>2 DEF last
      <4> QED BY <4>1, <4>2, <3>1, <3>3
    <3> QED BY <3>2, <3>3, <1>1
  <2> QED BY <2>1, <2>2, <1>3
<1>7. OneChunk' => \A i \in 1 .. Len(list') : WindowRight(list[i])'
  <2> SUFFICES ASSUME OneChunk, NEW i \in 1 .. Len(list')
               PROVE  WindowRight(list[i])'
    BY <1>4
  <2>1. CASE i \in 1 .. Len(list)
    <3>1. WindowRight(list[i]) /\ list'[i] = list[i]
      BY <2>1, <1>2 DEF ListInv
    <3> QED BY <3>1 DEF WindowRight
  <2>2. CASE i = Len(list) + 1
    <3>1. list'[i] = e
      BY <2>2, <1>2
    <3> QED BY <3>1 DEF WindowRight
  <2> QED BY <2>1, <2>2, <1>3
<1>8. last' = e
  BY <1>2 DEF last
<1> QED BY <1>2, <1>5, <1>6, <1>7, <1>8 DEF ListInv

\* The window is never full when inflate is called, and what it holds is the
\* same.
LEMMA RoomIs ==
    ASSUME NEW s \in StreamType, NEW old, old = Room(s)
    PROVE  /\ old \in StreamType /\ old.out > 0
           /\ old.raw = s.raw /\ old.block = s.block
           /\ \A ctx : CellsRight(s, ctx) => CellsRight(old, ctx)
<1>1. WINDOW_SIZE \in Nat \ {0}
  BY StreamAssumption
<1>2. /\ s.raw \in 0 .. Total /\ s.block \in -1 .. NumBlocks /\ s.in \in Nat
      /\ s.out \in 0 .. WINDOW_SIZE
      /\ s = [raw |-> s.raw, block |-> s.block, in |-> s.in, out |-> s.out]
  BY DEF StreamType
<1>3. CASE s.out = 0
  <2>1. old = [s EXCEPT !.out = WINDOW_SIZE]
    BY <1>3 DEF Room
  <2>2. /\ old.raw = s.raw /\ old.block = s.block /\ old.in = s.in
        /\ old.out = WINDOW_SIZE
        /\ old = [raw |-> old.raw, block |-> old.block, in |-> old.in, out |-> old.out]
    BY <2>1, <1>2
  <2>3. WINDOW_SIZE \in 0 .. WINDOW_SIZE
    BY <1>1
  <2>4. old \in StreamType
    BY <2>2, <2>3, <1>2, Zenon DEF StreamType
  <2>5. \A c \in 0 .. WINDOW_SIZE - 1 : Address(old, c) = Address(s, c)
    BY <2>2, <1>1, <1>2, <1>3 DEF Address
  <2>6. \A ctx : CellsRight(s, ctx) => CellsRight(old, ctx)
    BY <2>5 DEF CellsRight
  <2> QED BY <2>2, <2>4, <2>6, <1>1
<1>4. CASE s.out # 0
  BY <1>4, <1>2 DEF Room
<1> QED BY <1>3, <1>4

\* One turn of the loop: the index, and where inflate is, stay as they
\* should be.
LEMMA Inflated ==
    ASSUME IInv, inst' = inst,
           pc = "inflate", z.block < NumBlocks,
           NEW old, old = Room(z), NEW new, new = InflateBlock(old),
           NEW ctx, ctx = Written(old, new),
           list' = IF PointDue(old, new)
                   THEN Append(list, create_access_point_entry(
                                        new.raw, new.block, new.out, ctx))
                   ELSE list
    PROVE  /\ new \in StreamType /\ ctx \in [0 .. WINDOW_SIZE - 1 -> Cell]
           /\ ListInv' /\ Position(new)' /\ NotPassedOver(new)'
           /\ dict.raw <= new.raw /\ (Len(list') > 0 => dict.raw <= last'.raw)
           /\ OneChunk => WindowRight(dict) /\ fp = FileSize /\ CellsRight(new, ctx)
           /\ Whole /\ fp = FileSize => new.in > 0
<1>1. /\ WINDOW_SIZE \in Nat \ {0} /\ Total \in Nat /\ NumBlocks \in Nat \ {0}
      /\ SPAN \in Nat /\ WINDOW_SIZE <= SPAN /\ End[0] = 0
  BY StreamAssumption
<1>2. /\ inst \in Instances /\ z \in StreamType /\ fp \in 0 .. FileSize /\ dict \in DictType
      /\ context \in [0 .. WINDOW_SIZE - 1 -> Cell]
  BY Types DEF IInv
<1>3. /\ ListInv /\ Position(z) /\ NotPassedOver(z) /\ dict.raw <= z.raw
      /\ Len(list) > 0 => dict.raw <= last.raw
  BY DEF IInv, Building
<1>4. /\ old \in StreamType /\ old.out > 0 /\ old.raw = z.raw /\ old.block = z.block
      /\ CellsRight(z, context) => CellsRight(old, context)
  BY <1>2, RoomIs
<1>5. Within(old)
  BY <1>3, <1>4 DEF Position, Within
<1>6. /\ new \in StreamType
      /\ old.raw <= new.raw /\ new.raw <= End[old.block + 1]
      /\ old.out - new.out = new.raw - old.raw
      /\ \/ new.block = old.block
         \/ /\ new.block = old.block + 1
            /\ new.raw = End[old.block + 1]
            /\ EndBit[old.block + 1] <= 8 * fp
      /\ Within(new)
      /\ Whole /\ fp = FileSize => new.in > 0
  BY <1>2, <1>4, <1>5, InflateIs
<1>7. dict.raw <= old.raw
  BY <1>3, <1>4
<1>8. ctx \in [0 .. WINDOW_SIZE - 1 -> Cell]
  BY <1>2, <1>4, <1>6, <1>7, WrittenIs
<1>9. /\ dict.raw \in Int /\ old.raw \in 0 .. Total /\ new.raw \in 0 .. Total
      /\ old.block \in -1 .. NumBlocks - 1 /\ new.block \in -1 .. NumBlocks
  <2>1. /\ dict.raw \in Int /\ old.raw \in 0 .. Total /\ new.raw \in 0 .. Total
        /\ new.block \in -1 .. NumBlocks
    BY <1>2, <1>4, <1>6 DEF DictType, StreamType
  <2>2. old.block \in -1 .. NumBlocks /\ old.block < NumBlocks
    BY <1>4 DEF StreamType
  <2>3. old.block \in -1 .. NumBlocks - 1
    BY <2>2, <1>1
  <2> QED BY <2>1, <2>3
<1>10. dict.raw <= new.raw
  <2>1. old.raw \in Int /\ new.raw \in Int
    BY <1>9
  <2> QED BY <2>1, <1>6, <1>7, <1>9
<1>11. OneChunk => WindowRight(dict) /\ fp = FileSize /\ CellsRight(new, ctx)
  <2> SUFFICES ASSUME OneChunk
               PROVE  WindowRight(dict) /\ fp = FileSize /\ CellsRight(new, ctx)
    OBVIOUS
  <2>1. WindowRight(dict) /\ fp = FileSize /\ CellsRight(z, context)
    BY DEF IInv, Windows
  <2> QED BY <2>1, <1>2, <1>4, <1>6, <1>7, WrittenIs
<1>12. Len(list) \in Nat
  BY <1>3, LenProperties DEF ListInv
<1>13. Len(list) > 0 => last.raw \in 0 .. Total /\ old.block >= 0 /\ last.raw <= old.raw
  <2> SUFFICES ASSUME Len(list) > 0
               PROVE  last.raw \in 0 .. Total /\ old.block >= 0 /\ last.raw <= old.raw
    OBVIOUS
  <2>1. Len(list) \in 1 .. Len(list)
    BY <1>12
  <2>2. last.raw \in 0 .. Total
    BY <2>1, <1>3, PointIs DEF last
  <2>3. old.block # -1
    BY <1>3, <1>4, <1>12 DEF Position
  <2>4. old.block >= 0
    BY <2>3, <1>9
  <2> QED BY <2>2, <2>4, <1>3, <1>4 DEF Position
<1>14. Len(list) = 0 => old.block = -1
  BY <1>3, <1>4, <1>9 DEF Position
<1>15. CASE PointDue(old, new)
  <2>1. /\ new.block = old.block + 1 /\ new.block \in 0 .. NumBlocks - 1
        /\ new.raw = End[new.block] /\ EndBit[new.block] <= 8 * fp
    <3>1. new.block > old.block /\ new.block < NumBlocks
      BY <1>15 DEF PointDue
    <3>2. new.block = old.block + 1
      BY <3>1, <1>6, <1>9
    <3>3. new.block \in 0 .. NumBlocks - 1
      BY <3>1, <3>2, <1>1, <1>9
    <3> QED BY <3>2, <3>3, <1>6, <1>9
  <2>2. PICK e : e = create_access_point_entry(new.raw, new.block, new.out, ctx)
    OBVIOUS
  <2>3. list' = Append(list, e)
    BY <2>2, <1>15
  <2>4. new.raw > 0 => Len(list) > 0 /\ new.raw - last.raw > SPAN
    <3> SUFFICES ASSUME new.raw > 0 PROVE Len(list) > 0 /\ new.raw - last.raw > SPAN
      OBVIOUS
    <3>1. Len(list) # 0
      <4>1. old.block = -1 => new.raw = 0
        BY <2>1, <1>1, <1>9
      <4> QED BY <4>1, <1>14
    <3>2. new.raw - last.raw > SPAN
      BY <1>15 DEF PointDue
    <3> QED BY <3>1, <3>2, <1>12
  <2>5. new.raw > 0 => new.raw - dict.raw >= WINDOW_SIZE
    <3> SUFFICES ASSUME new.raw > 0 PROVE new.raw - dict.raw >= WINDOW_SIZE
      OBVIOUS
    <3>1. new.raw - last.raw > SPAN /\ last.raw \in Int /\ dict.raw <= last.raw
      BY <2>4, <1>3, <1>13
    <3>2. new.raw \in Int
      BY <1>9
    <3> QED BY <3>1, <3>2, <1>1, <1>9
  <2>6. /\ e \in EntryType /\ e.raw = new.raw /\ PointAt(e, new.block)
        /\ OneChunk => WindowRight(e)
    BY <2>1, <2>2, <2>5, <1>2, <1>6, <1>8, <1>9, <1>11, PointMade
  <2>7. Len(list) > 0 =>
           \A j \in 1 .. NumBlocks - 1 :
               End[j] > 0 /\ End[j] < e.raw => End[j] <= last.raw + SPAN
    <3> SUFFICES ASSUME NEW j \in 1 .. NumBlocks - 1, End[j] > 0, End[j] < End[new.block]
                 PROVE  End[j] <= last.raw + SPAN
      BY <2>1, <2>6
    <3>1. j \in 0 .. NumBlocks /\ new.block \in 0 .. NumBlocks
      BY <2>1, <1>1
    <3>2. End[j] \in Int /\ End[new.block] \in Int
      BY <3>1, EndIs, Zenon
    <3>3. ~(new.block <= j)
      <4> SUFFICES ASSUME new.block <= j PROVE FALSE
        OBVIOUS
      <4>1. j \in new.block .. NumBlocks
        BY <3>1
      <4>2. End[new.block] <= End[j]
        BY <4>1, <3>1, StreamOrder
      <4> QED BY <4>2, <3>2
    <3>4. j <= z.block
      BY <3>1, <3>3, <2>1, <1>4, <1>9
    <3> QED BY <3>4, <1>3 DEF NotPassedOver
  <2>8. new.raw = 0 \/ new.raw > 0
    BY <1>9
  <2>9. ListInv' /\ Len(list') = Len(list) + 1 /\ last' = e
    BY <2>1, <2>3, <2>4, <2>6, <2>7, <2>8, <1>3, ListGrows
  <2>10. Len(list') > 0 /\ last'.raw = new.raw
    BY <2>6, <2>9, <1>12
  <2>11. Position(new)'
    <3>1. Within(new)'
      BY <1>6 DEF Within
    <3>2. new.block # -1 /\ new.raw <= new.raw
      BY <2>1, <1>9
    <3> QED BY <3>1, <3>2, <2>10 DEF Position
  <2>12. NotPassedOver(new)'
    <3> SUFFICES ASSUME NEW j \in 1 .. NumBlocks - 1, j <= new.block
                 PROVE  End[j] <= new.raw + SPAN
      BY <2>10 DEF NotPassedOver
    <3>1. j \in 0 .. NumBlocks /\ new.block \in j .. NumBlocks /\ new.block \in 0 .. NumBlocks
      BY <2>1, <1>1
    <3>2. End[j] <= End[new.block]
      BY <3>1, StreamOrder
    <3>3. End[j] \in Int /\ End[new.block] \in Int
      BY <3>1, EndIs, Zenon
    <3> QED BY <3>2, <3>3, <2>1, <1>1
  <2> QED BY <2>9, <2>10, <2>11, <2>12, <1>6, <1>8, <1>10, <1>11
<1>16. CASE ~PointDue(old, new)
  <2>1. list' = list /\ last' = last
    BY <1>16 DEF last
  <2>2. ListInv'
    BY <2>1, <1>3, ListStays
  <2>3. Len(list) = 0 => new.block = -1
    <3> SUFFICES ASSUME Len(list) = 0 PROVE new.block = -1
      OBVIOUS
    <3>1. old.block = -1 /\ (new.block # old.block => new.block = 0 /\ new.raw = 0)
      BY <1>1, <1>6, <1>14
    <3>2. new.block = 0 /\ new.raw = 0 => PointDue(old, new)
      BY <3>1, <1>1 DEF PointDue
    <3> QED BY <3>1, <3>2, <1>16
  <2>4. Len(list) > 0 => new.block # -1 /\ last.raw <= new.raw
    <3> SUFFICES ASSUME Len(list) > 0 PROVE new.block # -1 /\ last.raw <= new.raw
      OBVIOUS
    <3>1. last.raw \in Int /\ old.raw \in Int /\ new.raw \in Int /\ last.raw <= old.raw
      BY <1>9, <1>13
    <3>2. last.raw <= new.raw
      BY <3>1, <1>6
    <3>3. new.block # -1
      BY <1>6, <1>9, <1>13
    <3> QED BY <3>2, <3>3
  <2>5. Position(new)'
    <3>1. Within(new)'
      BY <1>6 DEF Within
    <3>2. /\ new.block = -1 => Len(list) = 0
          /\ new.block >= 0 => Len(list) > 0 /\ last.raw <= new.raw
      BY <2>3, <2>4, <1>9, <1>12
    <3> QED BY <3>1, <3>2, <2>1 DEF Position
  <2>6. NotPassedOver(new)'
    <3> SUFFICES ASSUME NEW j \in 1 .. NumBlocks - 1, j <= new.block, End[j] > 0
                 PROVE  End[j] <= last.raw + SPAN
      BY <2>1 DEF NotPassedOver
    <3>1. CASE j <= z.block
      BY <3>1, <1>3 DEF NotPassedOver
    <3>2. CASE ~(j <= z.block)
      <4>1. new.block = old.block + 1 /\ j = new.block
        BY <3>2, <1>4, <1>6, <1>9
      <4>2. new.raw = End[j]
        BY <4>1, <1>6
      <4>3. new.block > old.block /\ new.block < NumBlocks
        BY <4>1, <1>1, <1>9
      <4>4. ~(new.raw - last.raw > SPAN)
        BY <4>3, <1>16 DEF PointDue
      <4>5. Len(list) > 0
        BY <2>3, <1>12
      <4>6. last.raw \in Int /\ new.raw \in Int
        BY <4>5, <1>9, <1>13
      <4> QED BY <4>2, <4>4, <4>6, <1>1
    <3> QED BY <3>1, <3>2
  <2> QED BY <2>1, <2>2, <2>5, <2>6, <1>3, <1>6, <1>8, <1>10, <1>11
<1> QED BY <1>15, <1>16

\* One turn of the loop of index_next_chunk.
LEMMA InflateStep ==
    ASSUME IInv, inst' = inst, Inflate PROVE IInv'
<1>1. PICK old : old = Room(z)
  OBVIOUS
<1>2. PICK new : new = InflateBlock(old)
  OBVIOUS
<1>3. PICK ctx : ctx = Written(old, new)
  OBVIOUS
<1>4. /\ pc = "inflate" /\ z.block < NumBlocks
      /\ list' = IF PointDue(old, new)
                 THEN Append(list, create_access_point_entry(
                                      new.raw, new.block, new.out, ctx))
                 ELSE list
      /\ IF new.in = 0 \/ (PointDue(old, new) /\ max_byte_address < new.raw + SPAN)
         THEN ChunkEnds(new, ctx)
         ELSE pc' = pc /\ z' = new /\ context' = ctx /\ UNCHANGED <<fp, dict>>
      /\ UNCHANGED <<req, skip, out, ret>>
  BY <1>1, <1>2, <1>3, Zenon DEF Inflate
<1>5. /\ new \in StreamType /\ ctx \in [0 .. WINDOW_SIZE - 1 -> Cell]
      /\ ListInv' /\ Position(new)' /\ NotPassedOver(new)'
      /\ dict.raw <= new.raw /\ (Len(list') > 0 => dict.raw <= last'.raw)
      /\ OneChunk => WindowRight(dict) /\ fp = FileSize /\ CellsRight(new, ctx)
      /\ Whole /\ fp = FileSize => new.in > 0
  BY <1>1, <1>2, <1>3, <1>4, Inflated, Zenon
<1>6. CASE BuildEnds /\ max_byte_address < new.raw + SPAN
  <2>1. Near'
    <3> SUFFICES ASSUME Len(list') > 0
                 PROVE  (req.offset <= last.raw + 2 * SPAN + LongestBlock)'
      BY DEF Near
    <3>1. req' = req /\ req \in RequestType
      BY <1>4, Types DEF IInv
    <3>2. Len(list') \in 1 .. Len(list')
      BY <1>5, LenProperties DEF ListInv
    <3>3. last'.raw \in 0 .. Total
      <4>1. (list \in Seq(EntryType))'
        BY <1>5 DEF ListInv
      <4>2. last' \in EntryType
        BY <4>1, <3>2, ElementOfSeq, Zenon DEF last
      <4> QED BY <4>2 DEF EntryType
    <3>4. new.block >= 0 /\ Within(new)
      <4>1. new.block # -1
        BY <1>5, <3>2 DEF Position
      <4>2. new.block \in -1 .. NumBlocks
        BY <1>5 DEF StreamType
      <4> QED BY <4>1, <4>2, <1>5 DEF Position, Within
    <3>5. new.raw <= last'.raw + SPAN + LongestBlock
      <4>1. \A k \in 1 .. NumBlocks - 1 :
               k <= new.block /\ End[k] > 0 => End[k] <= last'.raw + SPAN
        BY <1>5 DEF NotPassedOver
      <4> QED BY <4>1, <3>3, <3>4, <1>5, Ahead
    <3>6. /\ req.offset \in Nat /\ req.length \in Nat /\ SPAN \in Nat
          /\ new.raw \in Int /\ last'.raw \in Int /\ LongestBlock \in Int
      <4>1. req.offset \in Nat /\ req.length \in Nat
        BY <3>1, StreamAssumption DEF RequestType
      <4>2. new.raw \in Int
        BY <1>5 DEF StreamType
      <4>3. SPAN \in Nat /\ last'.raw \in Int
        BY <3>3, StreamAssumption
      <4>4. LongestBlock \in Int
        BY LongestIs
      <4> QED BY <4>1, <4>2, <4>3, <4>4
    <3>7. req.offset + req.length < new.raw + SPAN
      BY <1>6 DEF max_byte_address
    <3>8. req.offset <= last'.raw + 2 * SPAN + LongestBlock
      BY ONLY <3>5, <3>6, <3>7, ReachArithmetic, Zenon
    <3> QED BY <3>1, <3>8
  <2> QED BY <2>1, <1>4, <1>5, <1>6, BuildEndsIs
<1>7. ASSUME z' = new, context' = ctx, UNCHANGED <<fp, dict>>,
             pc' = "inflate" \/ (pc' = "chunk" /\ new.in = 0)
      PROVE  IInv'
  <2>1. FileSize' = FileSize /\ OneChunk' = OneChunk /\ Whole' = Whole
    BY InstanceStays
  <2>2. TypeOK'
    <3>1. /\ inst' \in Instances /\ req' \in RequestType
          /\ fp' \in 0 .. FileSize' /\ dict' \in DictType
          /\ skip' \in Nat /\ out' \in BufferType
          /\ ret' \in {INDEXER_ERROR} \cup 0 .. MaxLen
      BY <2>1, <1>4, <1>7, Types, Zenon DEF IInv
    <3>2. pc' \in Pcs /\ (list \in Seq(EntryType))'
      BY <1>5, <1>7 DEF Pcs, ListInv
    <3>3. z' \in StreamType /\ context' \in [0 .. WINDOW_SIZE - 1 -> Cell]
      BY <1>5, <1>7
    <3> QED BY <3>1, <3>2, <3>3, TypesNext, Zenon
  <2>3. Building'
    <3>1. Position(z)' /\ NotPassedOver(z)'
      BY <1>5, <1>7 DEF Position, Within, NotPassedOver
    <3>2. Whole' /\ fp' = FileSize' => pc' # "chunk"
      BY <2>1, <1>5, <1>7
    <3> QED BY <3>1, <3>2, <1>5, <1>7 DEF Building
  <2>4. Windows'
    <3> SUFFICES ASSUME OneChunk
                 PROVE  WindowRight(dict)' /\ fp' = FileSize' /\ CellsRight(z, context)'
      <4>1. FileSize' \in Nat
        BY <2>1, InstanceIs DEF IInv, TypeOK
      <4>2. fp' = FileSize' => ~(fp' < FileSize')
        BY <4>1
      <4> QED BY <2>1, <4>2 DEF Windows
    <3>1. WindowRight(dict)'
      BY <1>5, <1>7 DEF WindowRight
    <3>2. CellsRight(z, context)'
      BY <1>5, <1>7 DEF CellsRight, Address
    <3> QED BY <3>1, <3>2, <2>1, <1>5, <1>7
  <2>5. Near' /\ SkipBounded' /\ Reading'
    BY <1>7 DEF Near, SkipBounded, Reading
  <2>6. Returned'
    BY <2>1, <1>4 DEF IInv, Returned
  <2> QED BY <2>2, <2>3, <2>4, <2>5, <2>6, <1>5 DEF IInv
<1>8. CASE new.in = 0 \/ (PointDue(old, new) /\ max_byte_address < new.raw + SPAN)
  <2>1. ChunkEnds(new, ctx)
    BY <1>4, <1>8
  <2>2. CASE max_byte_address < new.raw + SPAN
    BY <2>1, <2>2, <1>6 DEF ChunkEnds
  <2>3. CASE ~(max_byte_address < new.raw + SPAN)
    BY <2>1, <2>3, <1>7, <1>8 DEF ChunkEnds
  <2> QED BY <2>2, <2>3
<1>9. CASE ~(new.in = 0 \/ (PointDue(old, new) /\ max_byte_address < new.raw + SPAN))
  BY <1>4, <1>7, <1>9
<1> QED BY <1>8, <1>9

\* _gzip_read returns without success, or with what was asked for.
LEMMA ReturnIs ==
    ASSUME IInv, inst' = inst, NEW v \in {INDEXER_ERROR} \cup 0 .. MaxLen, Return(v),
           UNCHANGED <<list, req, fp, context>>, out' \in BufferType, Returned'
    PROVE  IInv'
<1>1. pc' = "idle" /\ ret' = v /\ z' = NoStream /\ dict' = NoDict /\ skip' = 0
  BY DEF Return
<1>2. ListInv'
  BY ListStays DEF IInv
<1>3. TypeOK'
  <2>1. /\ inst' \in Instances /\ req' \in RequestType /\ fp' \in 0 .. FileSize'
        /\ context' \in [0 .. WINDOW_SIZE - 1 -> Cell]
    BY Types, InstanceStays, Zenon DEF IInv
  <2>2. pc' \in Pcs /\ (list \in Seq(EntryType))'
    BY <1>1, <1>2 DEF Pcs, ListInv
  <2>3. z' \in StreamType /\ dict' \in DictType
    BY <1>1, Blank
  <2>4. skip' \in Nat /\ ret' \in {INDEXER_ERROR} \cup 0 .. MaxLen
    BY <1>1
  <2> QED BY <2>1, <2>2, <2>3, <2>4, TypesNext, Zenon
<1>4. Building' /\ Windows' /\ Near' /\ SkipBounded' /\ Reading'
  BY <1>1 DEF Building, Windows, Near, SkipBounded, Reading
<1> QED BY <1>2, <1>3, <1>4 DEF IInv

\* Nothing was asked for, or the read fails.
LEMMA ReadIsOver ==
    ASSUME IInv, inst' = inst, ReadNothing \/ ReadFails PROVE IInv'
<1>1. PICK v \in {INDEXER_ERROR, 0} : Return(v)
  BY DEF ReadNothing, ReadFails
<1>2. UNCHANGED <<list, req, fp, context, out>>
  BY DEF ReadNothing, ReadFails
<1>3. v \in {INDEXER_ERROR} \cup 0 .. MaxLen
  BY StreamAssumption
<1>4. Returned'
  <2>1. ret' = v /\ ~(v > 0)
    BY <1>1 DEF Return, INDEXER_ERROR
  <2> QED BY <2>1 DEF Returned
<1>5. out' \in BufferType
  BY <1>2, Types DEF IInv
<1> QED BY <1>1, <1>2, <1>3, <1>4, <1>5, ReturnIs

\* The search finds the point to start from.
LEMMA SearchStep ==
    ASSUME IInv, inst' = inst, Search PROVE IInv'
<1>1. /\ pc = "search" /\ Len(list) > 0 /\ pc' = "read"
      /\ UNCHANGED <<list, req, fp, context, out, ret>>
  BY DEF Search
<1>2. PICK f : f = Found
  OBVIOUS
<1>3. Len(list) \in Nat \ {0}
  BY <1>1, LenProperties DEF IInv, ListInv
<1>4. /\ f \in 1 .. Len(list) /\ Passed(f)
      /\ f < Len(list) => ~Passed(f + 1)
  BY <1>2, <1>3, FoundIs
<1>5. /\ list[f].raw \in 0 .. Total
      /\ [raw |-> list[f].raw, context |-> list[f].context] \in DictType
      /\ \E k \in 0 .. NumBlocks - 1 : PointAt(list[f], k)
  BY <1>4, PointIs DEF IInv
<1>6. /\ \E k \in BlocksAt(RestartBit(list[f])) :
            z' = [raw |-> list[f].raw, block |-> k, in |-> 0, out |-> 0]
      /\ dict' = [raw |-> list[f].raw, context |-> list[f].context]
      /\ skip' = req.offset - list[f].raw
  BY <1>2, Zenon DEF Search
<1>7. PICK k \in 0 .. NumBlocks :
          z' = [raw |-> list[f].raw, block |-> k, in |-> 0, out |-> 0]
  BY <1>6 DEF BlocksAt
<1>8. req \in RequestType /\ req.offset \in Nat
  BY Types DEF IInv, RequestType
<1>9. /\ Total \in Nat /\ SPAN \in Nat /\ NumBlocks \in Nat /\ WINDOW_SIZE \in Nat
      /\ LongestBlock \in Int /\ LongestBlock >= 0
  BY StreamAssumption, LongestIs
<1>10. list[f].raw <= req.offset
  <2>1. CASE f = 1
    <3>1. list[1].raw = 0
      BY <1>3, <1>4, <2>1 DEF IInv, ListInv, IndexAsInOnePass
    <3> QED BY <3>1, <2>1, <1>8
  <2>2. CASE f # 1
    <3>1. f \in 2 .. f
      BY <1>3, <1>4, <2>2
    <3>2. list[f].raw < req.offset
      BY <3>1, <1>4 DEF Passed
    <3> QED BY <3>2, <1>5, <1>8
  <2> QED BY <2>1, <2>2
<1>11. ListInv'
  BY <1>1, ListStays DEF IInv
<1>12. TypeOK'
  <2>1. /\ inst' \in Instances /\ req' \in RequestType /\ fp' \in 0 .. FileSize'
        /\ context' \in [0 .. WINDOW_SIZE - 1 -> Cell] /\ out' \in BufferType
        /\ ret' \in {INDEXER_ERROR} \cup 0 .. MaxLen
    BY <1>1, Types, InstanceStays, Zenon DEF IInv
  <2>2. pc' \in Pcs /\ (list \in Seq(EntryType))'
    BY <1>1, <1>11 DEF Pcs, ListInv
  <2>3. z' \in StreamType
    <3>1. k \in -1 .. NumBlocks /\ 0 \in Nat /\ 0 \in 0 .. WINDOW_SIZE
      BY <1>9
    <3>2. [raw |-> list[f].raw, block |-> k, in |-> 0, out |-> 0] \in StreamType
      BY <3>1, <1>5, Zenon DEF StreamType
    <3> QED BY <3>2, <1>7
  <2>4. dict' \in DictType /\ skip' \in Nat
    <3>1. list[f].raw \in Int
      BY <1>5
    <3> QED BY <3>1, <1>5, <1>6, <1>8, <1>10
  <2> QED BY <2>1, <2>2, <2>3, <2>4, TypesNext, Zenon
<1>13. Reading'
  <2>1. z'.raw = list[f].raw /\ dict'.raw = list[f].raw /\ skip' = req.offset - list[f].raw
    BY <1>6, <1>7
  <2>2. list[f].raw \in Int
    BY <1>5
  <2> QED BY <2>1, <2>2, <1>1, <1>8 DEF Reading
<1>14. SkipBounded'
  <2> SUFFICES ASSUME Faults = {}, Whole, req.offset <= Total
               PROVE  req.offset - list[f].raw <= 2 * SPAN + LongestBlock
    BY <1>1, <1>6, InstanceStays DEF SkipBounded
  <2>1. list[f].raw \in Int
    BY <1>5
  <2>2. CASE f = Len(list)
    <3>1. req.offset <= list[f].raw + 2 * SPAN + LongestBlock
      BY <2>2, <1>1 DEF IInv, Near, last
    <3> QED BY <3>1, <2>1, <1>8, <1>9
  <2>3. CASE f < Len(list)
    <3>1. f + 1 \in 2 .. Len(list) /\ (f + 1) - 1 = f /\ f + 1 \in 1 .. Len(list)
      BY <2>3, <1>3, <1>4
    <3>2. PICK j \in 2 .. f + 1 : ~(list[j].raw < req.offset)
      BY <2>3, <1>4 DEF Passed
    <3>3. j = f + 1
      <4>1. j \in 2 .. f \/ j = f + 1
        BY <1>4
      <4> QED BY <4>1, <3>2, <1>4 DEF Passed
    <3>4. list[f + 1].raw \in Int
      <4>1. list[f + 1].raw \in 0 .. Total
        BY <3>1, PointIs DEF IInv
      <4> QED BY <4>1
    <3>5. list[f + 1].raw <= list[f].raw + SPAN + LongestBlock
      <4>1. list[f + 1].raw <= list[(f + 1) - 1].raw + SPAN + LongestBlock
        BY <3>1, PointsAreNear DEF IInv
      <4> QED BY <4>1, <3>1
    <3> QED BY <3>2, <3>3, <3>4, <3>5, <2>1, <1>8, <1>9
  <2> QED BY <2>2, <2>3, <1>3, <1>4
<1>15. Windows'
  <2> SUFFICES ASSUME OneChunk PROVE WindowRight(dict)'
    BY <1>1, InstanceStays DEF Windows
  <2>1. WindowRight(list[f])
    BY <1>4 DEF IInv, ListInv
  <2>2. dict'.raw = list[f].raw /\ dict'.context = list[f].context
    BY <1>6
  <2> QED BY <2>1, <2>2 DEF WindowRight
<1>16. Building' /\ Near'
  BY <1>1 DEF Building, Near
<1>17. Returned'
  <2>1. OneChunk' = OneChunk
    BY InstanceStays
  <2> QED BY <2>1, <1>1 DEF IInv, Returned
<1> QED BY <1>11, <1>12, <1>13, <1>14, <1>15, <1>16, <1>17 DEF IInv

\* What the file still yields, up to n: never beyond the image, and less than
\* n from a file that has it all only at the end of the image.
LEMMA AvailableIs ==
    ASSUME inst \in Instances, z \in StreamType, NEW n \in Nat
    PROVE  /\ Available(n) \in 0 .. n /\ z.raw + Available(n) <= Total
           /\ Reach(FileSize) = Total /\ z.raw + n <= Total => Available(n) = n
<1>1. FileSize \in Nat /\ Total \in Nat
  BY InstanceIs, StreamAssumption
<1>2. Reach(FileSize) \in 0 .. Total
  BY <1>1, ReachIs
<1>3. z.raw \in 0 .. Total
  BY DEF StreamType
<1>4. PICK r \in Int : r = Reach(FileSize) /\ 0 <= r /\ r <= Total
  BY <1>1, <1>2
<1>5. PICK a \in Int : a = z.raw /\ 0 <= a /\ a <= Total
  BY <1>1, <1>3
<1>6. Available(n) = Least(n, (IF r < a THEN a ELSE r) - a)
  BY <1>4, <1>5 DEF Available
<1>7. Available(n) \in 0 .. n /\ a + Available(n) <= Total
      /\ (r = Total /\ a + n <= Total => Available(n) = n)
  BY <1>1, <1>4, <1>5, <1>6 DEF Least
<1> QED BY <1>4, <1>5, <1>7

\* The read ends before it has what it wants: what it reports is no claim
\* about bytes of the image.
LEMMA ExhaustedIs ==
    ASSUME IInv, inst' = inst, pc = "read", Exhausted, NEW n \in Nat, Available(n) # n,
           req.length > 0 => z.raw + n <= req.offset + req.length,
           UNCHANGED <<list, req, fp, context>>, out' \in BufferType
    PROVE  IInv'
<1>1. PICK v : Return(v) /\ v = IF Reach(FileSize) = Total
                                      /\ EndBit[NumBlocks] <= 8 * FileSize
                                   THEN req.length ELSE INDEXER_ERROR
  BY DEF Exhausted
<1>2. inst \in Instances /\ z \in StreamType /\ req \in RequestType
  BY Types DEF IInv
<1>3. req.length \in 0 .. MaxLen /\ req.offset \in Nat /\ Total \in Nat /\ MaxLen \in Nat
  BY <1>2, StreamAssumption DEF RequestType
<1>4. v \in {INDEXER_ERROR} \cup 0 .. MaxLen
  BY <1>1, <1>3
<1>5. Returned'
  <2> SUFFICES ASSUME v > 0, req.offset + v <= Total PROVE FALSE
    BY <1>1 DEF Returned, Return
  <2>1. v = req.length /\ Reach(FileSize) = Total
    BY <1>1 DEF INDEXER_ERROR
  <2>2. ~(z.raw + n <= Total)
    BY <2>1, <1>2, AvailableIs
  <2>3. z.raw \in Int
    BY <1>2 DEF StreamType
  <2> QED BY <2>1, <2>2, <2>3, <1>3
<1> QED BY <1>1, <1>4, <1>5, ReturnIs

\* One turn of the loop of _gzip_read while it skips.
LEMMA SkipStep ==
    ASSUME IInv, inst' = inst, Skip PROVE IInv'
<1>1. PICK n : n = Least(skip, WINDOW_SIZE)
  OBVIOUS
<1>2. /\ pc = "read" /\ skip > 0 /\ UNCHANGED <<list, req, fp, context, out>>
      /\ IF Available(n) = n
         THEN /\ z' = [z EXCEPT !.raw = @ + n]
              /\ skip' = skip - n
              /\ UNCHANGED <<pc, dict, ret>>
         ELSE Exhausted
  BY <1>1, Zenon DEF Skip
<1>3. /\ inst \in Instances /\ z \in StreamType /\ req \in RequestType /\ skip \in Nat
      /\ dict \in DictType
  BY Types DEF IInv
<1>4. /\ z.raw \in 0 .. Total /\ z.block \in -1 .. NumBlocks /\ z.in \in Nat
      /\ z.out \in 0 .. WINDOW_SIZE
      /\ z = [raw |-> z.raw, block |-> z.block, in |-> z.in, out |-> z.out]
  BY <1>3 DEF StreamType
<1>5. WINDOW_SIZE \in Nat /\ Total \in Nat /\ SPAN \in Nat /\ LongestBlock \in Int
  BY StreamAssumption, LongestIs
<1>6. n \in Nat /\ n <= skip
  BY <1>1, <1>3, <1>5 DEF Least
<1>7. z.raw + skip = req.offset /\ dict.raw <= z.raw
  BY <1>2 DEF IInv, Reading
<1>8. req.offset \in Nat /\ req.length \in Nat /\ dict.raw \in Int /\ z.raw \in Int
  BY <1>3, <1>4, StreamAssumption DEF RequestType, DictType
<1>9. CASE Available(n) = n
  <2>1. z' = [z EXCEPT !.raw = z.raw + n] /\ skip' = skip - n /\ UNCHANGED <<pc, dict, ret>>
    BY <1>2, <1>9
  <2>2. z' = [raw |-> z.raw + n, block |-> z.block, in |-> z.in, out |-> z.out]
    BY <2>1, <1>4
  <2>3. z.raw + n <= Total
    BY <1>3, <1>6, <1>9, AvailableIs
  <2>4. z.raw + n \in 0 .. Total
    BY <2>3, <1>4, <1>5, <1>6
  <2>5. ListInv'
    BY <1>2, ListStays DEF IInv
  <2>6. TypeOK'
    <3>1. z' \in StreamType
      BY <2>2, <2>4, <1>4, Zenon DEF StreamType
    <3>2. skip' \in Nat
      BY <2>1, <1>3, <1>6
    <3>3. /\ inst' \in Instances /\ (list \in Seq(EntryType))' /\ pc' \in Pcs
          /\ req' \in RequestType /\ fp' \in 0 .. FileSize'
          /\ context' \in [0 .. WINDOW_SIZE - 1 -> Cell] /\ dict' \in DictType
          /\ out' \in BufferType /\ ret' \in {INDEXER_ERROR} \cup 0 .. MaxLen
      BY <2>1, <1>2, Types, InstanceStays, Zenon DEF IInv
    <3> QED BY <3>1, <3>2, <3>3, TypesNext, Zenon
  <2>7. z'.raw = z.raw + n
    BY <2>2
  <2>8. Reading'
    BY <2>1, <2>7, <1>2, <1>3, <1>6, <1>7, <1>8 DEF Reading
  <2>9. SkipBounded'
    <3>1. SkipBounded
      BY DEF IInv
    <3>2. Faults' = Faults /\ Whole' = Whole
      BY InstanceStays
    <3> QED BY <3>1, <3>2, <2>1, <1>2, <1>3, <1>5, <1>6 DEF SkipBounded
  <2>10. Windows'
    <3> SUFFICES ASSUME OneChunk PROVE WindowRight(dict)'
      BY <2>1, <1>2, InstanceStays DEF Windows
    <3> QED BY <2>1, <1>2 DEF IInv, Windows, WindowRight
  <2>11. Building' /\ Near'
    BY <2>1, <1>2 DEF Building, Near
  <2>12. Returned'
    <3>1. OneChunk' = OneChunk
      BY InstanceStays
    <3> QED BY <3>1, <2>1, <1>2 DEF IInv, Returned
  <2> QED BY <2>5, <2>6, <2>8, <2>9, <2>10, <2>11, <2>12 DEF IInv
<1>10. CASE Available(n) # n
  <2>1. Exhausted /\ out' \in BufferType
    BY <1>2, <1>10, Types DEF IInv
  <2>2. z.raw + n <= req.offset + req.length
    BY <1>3, <1>6, <1>7, <1>8
  <2> QED BY <2>1, <2>2, <1>2, <1>6, <1>10, ExhaustedIs
<1> QED BY <1>9, <1>10

\* The last turn delivers the bytes.
LEMMA DeliverStep ==
    ASSUME IInv, inst' = inst, Deliver PROVE IInv'
<1>1. PICK n : n = Available(req.length)
  OBVIOUS
<1>2. /\ pc = "read" /\ skip = 0 /\ UNCHANGED <<list, req, fp, context>>
      /\ out' = [i \in 0 .. MaxLen - 1 |->
                    IF i < n THEN Decoded(dict)[z.raw + i] ELSE out[i]]
      /\ IF n = req.length THEN Return(req.length) ELSE Exhausted
  BY <1>1, Zenon DEF Deliver
<1>3. /\ inst \in Instances /\ z \in StreamType /\ req \in RequestType
      /\ dict \in DictType /\ out \in BufferType
  BY Types DEF IInv
<1>4. z.raw \in 0 .. Total /\ Total \in Nat /\ MaxLen \in Nat
  BY <1>3, StreamAssumption DEF StreamType
<1>5. req.offset \in Nat /\ req.length \in 0 .. MaxLen /\ req.length \in Nat
  BY <1>3, <1>4 DEF RequestType
<1>6. n \in 0 .. req.length /\ z.raw + n <= Total
  BY <1>1, <1>3, <1>5, AvailableIs
<1>7. z.raw = req.offset /\ dict.raw <= z.raw /\ dict.raw \in Int
  BY <1>2, <1>3, <1>4 DEF IInv, Reading, DictType
<1>8. \A i \in 0 .. MaxLen - 1 : i < n => z.raw + i \in 0 .. Total - 1 /\ dict.raw <= z.raw + i
  <2>1. z.raw \in Int /\ 0 <= z.raw /\ n \in Int
    BY <1>4, <1>5, <1>6
  <2> QED BY <2>1, <1>4, <1>6, <1>7
<1>9. out' \in BufferType
  <2>1. Decoded(dict) \in [0 .. Total - 1 -> Cell]
    BY <1>3, DecodedIs
  <2>2. \A i \in 0 .. MaxLen - 1 :
           (IF i < n THEN Decoded(dict)[z.raw + i] ELSE out[i]) \in Cell \cup {Unset}
    <3> TAKE i \in 0 .. MaxLen - 1
    <3>1. i < n => Decoded(dict)[z.raw + i] \in Cell
      BY <2>1, <1>8
    <3>2. out[i] \in Cell \cup {Unset}
      BY <1>3 DEF BufferType
    <3> QED BY <3>1, <3>2, Zenon
  <2> QED BY <2>2, <1>2, Zenon DEF BufferType
<1>10. CASE n = req.length
  <2>1. Return(req.length) /\ ret' = req.length
    BY <1>2, <1>10 DEF Return
  <2>2. Returned'
    <3> SUFFICES ASSUME OneChunk, NEW i \in 0 .. req.length - 1
                 PROVE  out'[i] = req.offset + i
      BY <2>1, <1>2, InstanceStays DEF Returned
    <3>1. i \in 0 .. MaxLen - 1 /\ i < n
      BY <1>4, <1>5, <1>10
    <3>2. out'[i] = Decoded(dict)[z.raw + i]
      BY <3>1, <1>2
    <3>3. WindowRight(dict)
      BY <1>2 DEF IInv, Windows
    <3>4. Decoded(dict)[z.raw + i] = z.raw + i
      BY <3>1, <3>3, <1>3, <1>8, DecodedRight
    <3> QED BY <3>2, <3>4, <1>7
  <2>3. req.length \in {INDEXER_ERROR} \cup 0 .. MaxLen
    BY <1>5
  <2> QED BY <2>1, <2>2, <2>3, <1>2, <1>9, ReturnIs
<1>11. CASE n # req.length
  <2>1. Exhausted /\ Available(req.length) # req.length
    BY <1>1, <1>2, <1>11
  <2>2. z.raw + req.length <= req.offset + req.length
    BY <1>5, <1>7
  <2> QED BY <2>1, <2>2, <1>2, <1>5, <1>9, ExhaustedIs
<1> QED BY <1>10, <1>11

\* Every step keeps the invariant.
LEMMA NextIInv == IInv /\ [Next]_vars => IInv'
<1> SUFFICES ASSUME IInv, [Next]_vars PROVE IInv'
  OBVIOUS
<1>1. ASSUME Next PROVE IInv'
  <2>1. inst' = inst
    BY <1>1 DEF Next
  <2>2. CASE gzip_reader_alloc \/ gzip_reader_free \/ SearchCrash \/ PointCrash
    BY <2>1, <2>2, OpenCloseStep
  <2>3. CASE \E o \in 0 .. Total + 1, n \in 0 .. MaxLen : gzip_read(o, n)
    BY <2>1, <2>3, ReadStep
  <2>4. CASE ReadChunk
    BY <2>1, <2>4, ReadChunkStep
  <2>5. CASE ReadChunkFails \/ InflateFails
    BY <2>1, <2>5, BuildFailsStep
  <2>6. CASE Inflate
    BY <2>1, <2>6, InflateStep
  <2>7. CASE StreamEnd
    BY <2>1, <2>7, StreamEndStep
  <2>8. CASE ReadNothing \/ ReadFails
    BY <2>1, <2>8, ReadIsOver
  <2>9. CASE Search
    BY <2>1, <2>9, SearchStep
  <2>10. CASE Skip
    BY <2>1, <2>10, SkipStep
  <2>11. CASE Deliver
    BY <2>1, <2>11, DeliverStep
  <2> QED BY <1>1, <2>2, <2>3, <2>4, <2>5, <2>6, <2>7, <2>8, <2>9, <2>10, <2>11
          DEF Next, Step
<1>2. ASSUME UNCHANGED vars PROVE IInv'
  <2>1. /\ inst' = inst /\ list' = list /\ pc' = pc /\ req' = req /\ z' = z
        /\ fp' = fp /\ context' = context /\ dict' = dict /\ skip' = skip
        /\ out' = out /\ ret' = ret
    BY <1>2 DEF vars
  <2>2. ListInv'
    BY <2>1, ListStays DEF IInv
  <2>3. TypeOK'
    BY <2>1, InstanceStays, Types, TypesNext, Zenon DEF IInv
  <2>4. Building'
    BY <2>1, InstanceStays DEF IInv, Building, Position, Within, NotPassedOver, last
  <2>5. Windows'
    BY <2>1, InstanceStays DEF IInv, Windows, WindowRight, CellsRight, Address
  <2>6. Near' /\ SkipBounded' /\ Reading' /\ Returned'
    BY <2>1, InstanceStays DEF IInv, Near, SkipBounded, Reading, Returned, last
  <2> QED BY <2>2, <2>3, <2>4, <2>5, <2>6 DEF IInv
<1> QED BY <1>1, <1>2

\* Every access point restarts where it should.
LEMMA PointsDoRestart == IInv => PointsRestart
<1> SUFFICES ASSUME IInv, NEW i \in 1 .. Len(list)
             PROVE  \E k \in 0 .. NumBlocks - 1 :
                        RestartBit(list[i]) = EndBit[k] /\ list[i].raw = End[k]
  BY DEF PointsRestart
<1>1. PICK k \in 0 .. NumBlocks - 1 : PointAt(list[i], k)
  BY PointIs DEF IInv
<1>2. k \in 0 .. NumBlocks
  BY StreamAssumption
<1> QED BY <1>1, <1>2, RestartsAt DEF PointAt

\* For every deflate stream and every file, truncated or not, under read and
\* data errors at any moment: however reads made gzip_read build the index
\* and resume it, the index is the one a single pass builds, each of its
\* points restarts inflate at the end of a block, _gzip_read starts near the
\* offset, and while the file fits one chunk a read that reports success has
\* delivered the bytes of the image.
THEOREM GzipReaderCorrect ==
    Spec => [](TypeOK /\ IndexAsInOnePass /\ PointsRestart /\ SkipBounded
               /\ ReadCorrectInOneChunk)
<1>1. IInv => ReadCorrectInOneChunk
  BY DEF IInv, Returned, ReadCorrectInOneChunk, ReadCorrect
<1>2. IInv => TypeOK /\ IndexAsInOnePass /\ PointsRestart /\ SkipBounded
              /\ ReadCorrectInOneChunk
  BY <1>1, PointsDoRestart DEF IInv, ListInv
<1> QED BY <1>2, InitIInv, NextIInv, PTL DEF Spec
=============================================================================
