------------------------------ MODULE LruCache ------------------------------
(***************************************************************************)
(* What the block cache of the xz reader promises, without pointers: a     *)
(* bounded set of blocks in order of their last use.  rank[b] is 0 when b  *)
(* is not cached, 1 when b is the most recently used block, and so on.     *)
(* serving is the block a read is being served from.                       *)
(***************************************************************************)
EXTENDS Naturals

CONSTANTS Blocks,    \* what can be cached
          Capacity,  \* at most so many at a time
          None       \* no block

VARIABLES rank, serving

Init == rank = [b \in Blocks |-> 0] /\ serving = None

Serve(b) == serving = None /\ serving' = b

\* A cached block is used: it becomes the first, those before it step back.
Touch(b) ==
    /\ Serve(b)
    /\ rank[b] > 0
    /\ rank' = [c \in Blocks |->
                  IF c = b THEN 1
                  ELSE IF 0 < rank[c] /\ rank[c] < rank[b] THEN rank[c] + 1
                  ELSE rank[c]]

\* A new block comes first; a full cache drops its least recently used one.
Admit(b) ==
    /\ Serve(b)
    /\ Capacity > 0
    /\ rank[b] = 0
    /\ rank' = [c \in Blocks |->
                  IF c = b THEN 1
                  ELSE IF rank[c] = 0 \/ rank[c] = Capacity THEN 0
                  ELSE rank[c] + 1]

\* A new block is used without being cached: never while a full cache
\* could have given up a block for it.
Bypass(b) ==
    /\ Serve(b)
    /\ rank[b] = 0
    /\ Capacity > 0 => \A c \in Blocks : rank[c] < Capacity
    /\ UNCHANGED rank

Done == serving # None /\ serving' = None /\ UNCHANGED rank

Clear == serving = None /\ rank' = [b \in Blocks |-> 0] /\ UNCHANGED serving

Next == (\E b \in Blocks : Touch(b) \/ Admit(b) \/ Bypass(b)) \/ Done \/ Clear

Spec == Init /\ [][Next]_<<rank, serving>>
=============================================================================
