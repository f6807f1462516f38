------------------------------ MODULE MCDcache ------------------------------
(***************************************************************************)
(* Instances of Dcache for TLC: a root directory 2 with a directory 11     *)
(* (name d) and files, and paths into both.                                *)
(***************************************************************************)
EXTENDS Dcache, TLC

CONSTANTS d, f, g, x, t1, t2, e1, e2, e3, e4, e5

AllNames == {d, f, g, x}
Inodes == {2, 11, 12, 13}
\* /d is a directory with f and g in it, /f and /g are files, x is nowhere.
Tree == [i \in Inodes |-> [n \in AllNames |->
            CASE i = 2 /\ n = d -> 11
              [] i = 2 /\ n = f -> 12
              [] i = 2 /\ n = g -> 13
              [] i = 11 /\ n \in {f, g} -> 13
              [] OTHER -> 0]]

Leads(p) == LET To[i \in 0 .. Len(p)] == IF i = 0 THEN 2
                                         ELSE IF To[i - 1] = 0 THEN 0
                                         ELSE Tree[To[i - 1]][p[i]]
            IN  To

FlatPaths == {<<d>>, <<f>>, <<g>>, <<x>>}
DeepPaths == {<<d>>, <<f>>, <<d, f>>, <<d, x>>}
MixedPaths == {<<d>>, <<f>>, <<d, f>>, <<d, x>>, <<d, g>>}
AllPaths == {<< >>} \cup FlatPaths \cup DeepPaths
MixedTarget == [p \in MixedPaths |-> Leads(p)]
FlatTarget == [p \in FlatPaths |-> Leads(p)]
AllTarget == [p \in AllPaths |-> Leads(p)]

NoNames == {}
LongLast == {g}

OneThread == {t1}
TwoThreads == {t1, t2}
Entries3 == {e1, e2, e3}
Entries5 == {e1, e2, e3, e4, e5}

\* Threads and addresses are interchangeable.
Interchange == Permutations(Thread) \cup Permutations(Entry)
Addresses == Permutations(Entry)
=============================================================================
