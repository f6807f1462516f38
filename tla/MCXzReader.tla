----------------------------- MODULE MCXzReader -----------------------------
(***************************************************************************)
(* Instances of XzReader for TLC: files of three and four blocks of one    *)
(* and two bytes.                                                          *)
(***************************************************************************)
EXTENDS XzReader, TLC

FourBlocks == 1 .. 4
FourStarts == <<0, 1, 3, 5>>
FourSizes == <<1, 2, 2, 1>>
FourSize == 6

ThreeBlocks == 1 .. 3
ThreeStarts == <<0, 1, 3>>
ThreeSizes == <<1, 2, 1>>
ThreeSize == 4

\* Addresses are interchangeable.
Addresses == Permutations(Entry) \cup Permutations(Buffer)
=============================================================================
