------------------------------ MODULE MCMount -------------------------------
(***************************************************************************)
(* Instances of Mount for TLC: images of every format and of five          *)
(* geometries, with one to three groups of two inodes.                     *)
(***************************************************************************)
EXTENDS Mount

CONSTANTS t1, t2

Geo(bsize, blocks, desc) ==
    [blocks |-> blocks, bpg |-> 8, ipg |-> 2, isize |-> 128, desc |-> desc,
     bsize |-> bsize, table |-> [i \in 0 .. 3 |-> 3 + 8 * i]]

\* Whole groups; one small group; a last group smaller than the others.
Geos == {Geo(1024, 17, 0), Geo(4096, 16, 64), Geo(2048, 6, 0), Geo(4096, 20, 64),
         Geo(1024, 16, 64)}
AllImages ==
    [fmt : {"gzip"}, ext4 : {TRUE}, geo : Geos]
      \cup [fmt : Formats, ext4 : BOOLEAN, geo : {Geo(1024, 17, 0)}]

TwoThreads == {t1, t2}
AllFaults == {"open", "read", "alloc", "segv"}
=============================================================================
