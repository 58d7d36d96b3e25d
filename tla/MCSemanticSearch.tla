-------------------------- MODULE MCSemanticSearch --------------------------
(* An instance of SemanticSearch for TLC: of the rows a query meets, one is *)
(* the most similar and incompatible, one is below the threshold, and two   *)
(* are equally similar to another query.                                    *)
EXTENDS SemanticSearch, TLC

CONSTANTS q1, q2, v1, v2, v3

MCScore ==
    [q \in Queries |->
        [v \in Values |-> IF q = q1 THEN CASE v = v1 -> 3 [] v = v2 -> 2 [] OTHER -> 1
                          ELSE CASE v = v3 -> 0 [] OTHER -> 2]]
MCGuard == [q \in Queries |-> IF q = q1 THEN {v2, v3} ELSE Values]

SameKeys == Permutations(Keys)
=============================================================================
