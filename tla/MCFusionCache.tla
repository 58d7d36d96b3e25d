--------------------------- MODULE MCFusionCache ---------------------------
(* Instances of FusionCache for TLC: the requests, and which of them are    *)
(* close to which.                                                          *)
EXTENDS FusionCache, TLC

CONSTANTS k1, k2, k3, k4

(* k1 and k2 are paraphrases under the same settings; k3 and k4 repeat the  *)
(* text of k1, k3 under other settings and k4 as a stream where Streaming   *)
(* says so, so that only guard_ok keeps them apart.                         *)
Mixed == [k \in Keys |-> IF k = k3 THEN "b" ELSE "a"]
Paraphrases == Keys \X Keys
OneEach == [k \in Keys |-> 1]
=============================================================================
