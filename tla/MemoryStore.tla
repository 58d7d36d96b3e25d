---------------------------- MODULE MemoryStore ----------------------------
(***************************************************************************)
(* stores/memory.py: a dict with a TTL and an LRU stamp per key.  Every     *)
(* method holds the store's lock from beginning to end, so each is one      *)
(* step.  An absent dict entry is NoValue in data, Never in expires and 0   *)
(* in lru: the clock is advanced before it is used, so 0 is no stamp.       *)
(*                                                                          *)
(* The L1 store is never scanned; the L2 store is, by every semantic        *)
(* search, and a scan prunes.                                               *)
(***************************************************************************)
EXTENDS Integers, FiniteSets

CONSTANTS
    Keys, Values, NoValue,
    Never,        \* no entry in _expires
    MaxEntries,   \* max_entries
    TTLs,         \* the ttl arguments, in ticks; 0 sets no expiry
    Scanned,      \* keys() is called on this store
    MaxClock      \* bound: how often a run uses the store

ASSUME StoreAssumption ==
    /\ IsFiniteSet(Keys)
    /\ NoValue \notin Values
    /\ MaxEntries \in Nat \ {0}
    /\ TTLs \subseteq Nat
    /\ Never \notin Int
    /\ Scanned \in BOOLEAN
    /\ MaxClock \in Nat

VARIABLES
    data,      \* _data
    expires,   \* _expires[k] - now, at least -1; expired below 0
    lru,       \* _lru
    clock,     \* _clock
    got        \* what the last get returned

vars == <<data, expires, lru, clock, got>>

Held == {k \in Keys : data[k] # NoValue}
Timed == {k \in Keys : expires[k] # Never}
Stamped == {k \in Keys : lru[k] # 0}

TypeOK ==
    /\ data \in [Keys -> Values \union {NoValue}]
    /\ expires \in [Keys -> Int \union {Never}]
    /\ lru \in [Keys -> Nat]
    /\ clock \in Nat
    /\ got \in Values \union {NoValue}

Init ==
    /\ data = [k \in Keys |-> NoValue]
    /\ expires = [k \in Keys |-> Never]
    /\ lru = [k \in Keys |-> 0]
    /\ clock = 0
    /\ got = NoValue

-----------------------------------------------------------------------------
Without(f, S, absent) == [k \in Keys |-> IF k \in S THEN absent ELSE f[k]]

(* Slip: a removal leaves the dicts with each other's mark of absence.      *)
DropSwapped(S) ==
    /\ data' = Without(data, S, NoValue)
    /\ expires' = Without(expires, S, 0)
    /\ lru' = Without(lru, S, Never)

(* The keys of S leave all three dicts.                                     *)
Drop(S) ==
    /\ data' = Without(data, S, NoValue)
    /\ expires' = Without(expires, S, Never)
    /\ lru' = Without(lru, S, 0)

(* _is_expired: the comparison is strict.                                   *)
Expired(k) == expires[k] # Never /\ expires[k] < 0

(* Slip: get() looks at the data alone.                                     *)
GetUnchecked(k) ==
    /\ got' = data[k]
    /\ UNCHANGED <<data, expires, lru, clock>>

(* get(key): an expired entry goes, a live one is stamped and returned.     *)
Get(k) ==
    \/ /\ Expired(k)
       /\ Drop({k})
       /\ got' = NoValue
       /\ UNCHANGED clock
    \/ /\ ~Expired(k) /\ data[k] # NoValue
       /\ clock < MaxClock
       /\ clock' = clock + 1
       /\ lru' = [lru EXCEPT ![k] = clock + 1]
       /\ got' = data[k]
       /\ UNCHANGED <<data, expires>>
    \/ /\ ~Expired(k) /\ data[k] = NoValue
       /\ got' = NoValue
       /\ UNCHANGED <<data, expires, lru, clock>>

(* Slip: the newest entry is evicted.                                       *)
VictimsNewest == {k \in Stamped : \A j \in Stamped : lru[j] <= lru[k]}

(* The keys _evict_one_unlocked may choose: the least stamp, whether or not *)
(* the key is still in the data.                                            *)
Victims ==
    IF Stamped # {} THEN {k \in Stamped : \A j \in Stamped : lru[k] <= lru[j]}
    ELSE Held

(* set(key, value, ttl): a new key in a full dict evicts first.             *)
Set(k, v, ttl) ==
    /\ clock < MaxClock
    /\ \E gone \in IF data[k] = NoValue /\ Cardinality(Held) >= MaxEntries
                   THEN {{j} : j \in Victims} ELSE {{}} :
          /\ data' = [Without(data, gone, NoValue) EXCEPT ![k] = v]
          /\ expires' = [Without(expires, gone, Never)
                           EXCEPT ![k] = IF ttl > 0 THEN ttl ELSE Never]
          /\ lru' = [Without(lru, gone, 0) EXCEPT ![k] = clock + 1]
    /\ clock' = clock + 1
    /\ UNCHANGED got

Delete(k) == Drop({k}) /\ UNCHANGED <<clock, got>>

(* Slip: a scan prunes the data and forgets _expires.                       *)
PruneKeepingExpiry ==
    /\ data' = Without(data, {k \in Keys : Expired(k)}, NoValue)
    /\ UNCHANGED expires

(* _prune: the expired keys leave data and expires; their stamps stay.      *)
Prune ==
    LET dead == {k \in Keys : Expired(k)} IN
    /\ data' = Without(data, dead, NoValue)
    /\ expires' = Without(expires, dead, Never)

(* keys(), as the semantic search calls it.                                 *)
Scan == Scanned /\ Prune /\ UNCHANGED <<lru, clock, got>>

(* size() and clear(), as invalidate_all calls them: what size() prunes,    *)
(* clear() would have removed.                                              *)
Clear == Drop(Keys) /\ UNCHANGED <<clock, got>>

Tick ==
    /\ expires' = [k \in Keys |-> IF expires[k] # Never /\ expires[k] >= 0
                                  THEN expires[k] - 1 ELSE expires[k]]
    /\ UNCHANGED <<data, lru, clock, got>>

Next ==
    \/ \E k \in Keys : Get(k) \/ Delete(k) \/ \E v \in Values, ttl \in TTLs : Set(k, v, ttl)
    \/ Scan
    \/ Clear
    \/ Tick

Spec == Init /\ [][Next]_vars

-----------------------------------------------------------------------------
(* Stamps order the keys: no key is stamped in the future and no two alike, *)
(* and what is held or timed is stamped, so eviction has one choice and can *)
(* reach every key.                                                         *)
StampsOrder ==
    /\ Timed \subseteq Held
    /\ Held \subseteq Stamped
    /\ \A k \in Keys : lru[k] <= clock
    /\ \A j, k \in Stamped : lru[j] = lru[k] => j = k

(* max_entries bounds the dict (base.py:98).                                *)
Bounded == Cardinality(Held) <= MaxEntries

(* The key used last survives the next set of another key, unless the store *)
(* has room for one key only.                                               *)
LastUsedSurvives ==
    [][\A j, k \in Keys, v \in Values, ttl \in TTLs :
         /\ MaxEntries > 1 /\ j # k
         /\ data[k] # NoValue /\ lru[k] = clock
         /\ Set(j, v, ttl)
         => data'[k] = data[k]]_vars

(* The store keeps the promise of EvictingMap: an expired key is gone to    *)
(* every reader before it leaves the dict, a stale value never comes back.  *)
Map == INSTANCE EvictingMap WITH
           live <- [k \in Keys |-> IF Expired(k) THEN NoValue ELSE data[k]]

IsEvictingMap == Map!Spec
=============================================================================
