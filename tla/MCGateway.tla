----------------------------- MODULE MCGateway -----------------------------
(* An instance of Gateway for TLC: two clients, one of which posts twice.   *)
EXTENDS Gateway, TLC

CONSTANTS k1, k2, r1, r2, r3, alice, bob

Uniform == [k \in Keys |-> "a"]
OneEach == [k \in Keys |-> 1]
Paraphrases == {<<k, k>> : k \in Keys}
Posting == r1 :> alice @@ r2 :> alice @@ r3 :> bob
=============================================================================
