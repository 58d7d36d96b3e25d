--------------------------- MODULE SemanticSearch ---------------------------
(***************************************************************************)
(* The L2 store as the semantic search uses it: _semantic_search of         *)
(* core/pipeline.py reads every row of a MemoryStore, and best_match of     *)
(* semantic/matcher.py goes through them once, in the order of the dict.    *)
(* No await in between suspends, so a search is one step.                   *)
(***************************************************************************)
EXTENDS MemoryStore

CONSTANTS
    Queries,
    Score,       \* Score[q][v]: similarity of q and the row v, not below 0
    Guard,       \* Guard[q]: the rows guard_ok accepts for q
    Similar      \* similarity_threshold

ASSUME SearchAssumption ==
    /\ Score \in [Queries -> [Values -> Nat]]
    /\ Guard \in [Queries -> SUBSET Values]
    /\ Similar \in Nat

VARIABLES
    place,    \* the order of _data: the place of each key, from 1; 0 for none
    found     \* what the last search returned

searchVars == <<vars, place, found>>

SearchInit == Init /\ place = [k \in Keys |-> 0] /\ found = NoValue

(* The rank of k among the keys of S, in the order of the dict.             *)
Rank(S, k) == Cardinality({j \in S : place[j] <= place[k]})

LiveKeys == {k \in Held : ~Expired(k)}

(* Slip: an entry raises the score before the guard has seen it.            *)
BetterUnguarded(q, best, row) ==
    IF Score[q][row] <= best.score THEN best
    ELSE [row |-> IF row \in Guard[q] THEN row ELSE best.row, score |-> Score[q][row]]

(* One turn of best_match's loop.                                           *)
Better(q, best, row) ==
    IF Score[q][row] <= best.score \/ row \notin Guard[q] THEN best
    ELSE [row |-> row, score |-> Score[q][row]]

(* The n-th of the live rows.                                               *)
Row(n) == data[CHOOSE k \in LiveKeys : Rank(LiveKeys, k) = n]

(* best_match's loop: what it has after n rows.                             *)
Loop(q) ==
    LET best[n \in 0..Cardinality(LiveKeys)] ==
            IF n = 0 THEN [row |-> NoValue, score |-> 0] ELSE Better(q, best[n - 1], Row(n))
    IN  best

BestMatch(q) ==
    LET best == Loop(q)[Cardinality(LiveKeys)] IN
    IF best.score < Similar THEN NoValue ELSE best.row

(* get() of one live key after the other: each is stamped, whether or not   *)
(* it will be the match.                                                    *)
Touch ==
    /\ clock + Cardinality(LiveKeys) <= MaxClock
    /\ clock' = clock + Cardinality(LiveKeys)
    /\ lru' = [k \in Keys |-> IF k \in LiveKeys THEN clock + Rank(LiveKeys, k) ELSE lru[k]]

(* _semantic_search(q): the scan prunes, so that every row left is read.    *)
Search(q) ==
    /\ Scanned
    /\ Prune
    /\ Touch
    /\ found' = BestMatch(q)
    /\ UNCHANGED got

(* A dict keeps the place of a key that is set again, and has no place for  *)
(* a key that is gone; a new key comes last.                                *)
Reorder ==
    LET kept == {k \in Held : data'[k] # NoValue} IN
    place' = [k \in Keys |-> IF data'[k] = NoValue THEN 0
                             ELSE IF k \in kept THEN Rank(kept, k) ELSE Cardinality(kept) + 1]

SearchNext ==
    /\ \/ Next /\ UNCHANGED found
       \/ \E q \in Queries : Search(q)
    /\ Reorder

SearchSpec == SearchInit /\ [][SearchNext]_searchVars

-----------------------------------------------------------------------------
Fitting(q) ==
    {v \in Guard[q] : /\ \E k \in LiveKeys : data[k] = v
                      /\ Score[q][v] >= Similar /\ Score[q][v] > 0}

(* One pass in the order of the dict finds the best: of the live rows that  *)
(* the guard accepts and the threshold admits one that no other exceeds,    *)
(* and nothing only where there is none.  An incompatible row, however      *)
(* similar, keeps no other from being found (matcher.py:56-68).             *)
SearchFindsBest ==
    [][\A q \in Queries : Search(q) =>
         IF Fitting(q) = {} THEN found' = NoValue
         ELSE /\ found' \in Fitting(q)
              /\ \A v \in Fitting(q) : Score[q][v] <= Score[q][found']]_searchVars
=============================================================================
