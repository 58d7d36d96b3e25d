---------------------------- MODULE EvictingMap ----------------------------
(***************************************************************************)
(* What a caller of a cache store may rely on: a map that forgets.  A get   *)
(* returns the value put last, or nothing; a put makes room by forgetting   *)
(* at most one other key; and any keys may be forgotten at any time.        *)
(***************************************************************************)
CONSTANTS Keys, Values, NoValue

VARIABLES
    live,   \* what a get of each key would return
    got     \* what the last get returned

Init ==
    /\ live = [k \in Keys |-> NoValue]
    /\ got = NoValue

Get(k) == got' = live[k] /\ UNCHANGED live

Put(k, v) ==
    /\ \E S \in {{}} \union {{j} : j \in Keys \ {k}} :
          live' = [j \in Keys |-> IF j = k THEN v
                                  ELSE IF j \in S THEN NoValue ELSE live[j]]
    /\ UNCHANGED got

Forget ==
    /\ \E S \in SUBSET Keys :
          live' = [j \in Keys |-> IF j \in S THEN NoValue ELSE live[j]]
    /\ UNCHANGED got

Next == Forget \/ \E k \in Keys : Get(k) \/ \E v \in Values : Put(k, v)

Spec == Init /\ [][Next]_<<live, got>>
=============================================================================
