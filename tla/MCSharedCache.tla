--------------------------- MODULE MCSharedCache ---------------------------
(* An instance of SharedCache for TLC: three requests, which may be an owner *)
(* and two waiters, on a gateway that may crash while another flushes, and a *)
(* SCAN that takes two pages.                                               *)
EXTENDS SharedCache, TLC

CONSTANTS r1, r2, r3, east, west, k1, k2

Placed == r1 :> east @@ r2 :> east @@ r3 :> east
TwoPages == <<{k1}, {k2}>>

SameRequests == Permutations(Tasks)
=============================================================================
