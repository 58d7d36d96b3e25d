---------------------------- MODULE RateLimiter ----------------------------
(***************************************************************************)
(* The sliding-window limiter of gateway/ratelimit.py, as the gateway uses  *)
(* it: allow() alone, on the one thread of the event loop.  Time is kept as *)
(* in CircuitBreaker: a deque holds the age of each stamp in ticks, counted *)
(* no further than Window, where now - stamp >= window_s no longer changes. *)
(***************************************************************************)
EXTENDS Naturals, Sequences, FiniteSets

CONSTANTS
    Clients,   \* rate-limit keys: bearer tokens or addresses
    Limit,     \* requests per window; 0 admits everything
    Window     \* window_s, in ticks

ASSUME LimiterAssumption == Limit \in Nat /\ Window \in Nat \ {0}

VARIABLE hits  \* _hits: for each client the ages of its stamps, oldest first

LimiterTypeOK == hits \in [Clients -> Seq(0..Window)]

LimiterInit == hits = [c \in Clients |-> <<>>]

-----------------------------------------------------------------------------
(* Slip: the comparison is strict.                                          *)
FreshStrict(dq) ==
    LET old == {i \in 1..Len(dq) : \A j \in 1..i : dq[j] > Window} IN
    SubSeq(dq, Cardinality(old) + 1, Len(dq))

(* What popleft leaves: the deque without its longest outdated prefix.      *)
Fresh(dq) ==
    LET old == {i \in 1..Len(dq) : \A j \in 1..i : dq[j] >= Window} IN
    SubSeq(dq, Cardinality(old) + 1, Len(dq))

(* allow(c) returns this.                                                   *)
Allows(c) == Limit > 0 => Len(Fresh(hits[c])) < Limit

(* allow(c) returning TRUE: the request is stamped.                         *)
Charge(c) ==
    /\ Allows(c)
    /\ hits' = IF Limit > 0 THEN [hits EXCEPT ![c] = Append(Fresh(@), 0)] ELSE hits

(* allow(c) returning FALSE: the deque is trimmed all the same.             *)
TurnAway(c) ==
    /\ ~Allows(c)
    /\ hits' = [hits EXCEPT ![c] = Fresh(@)]

(* The clock advances by one tick.                                          *)
Age ==
    hits' = [c \in Clients |->
               [i \in DOMAIN hits[c] |->
                  IF hits[c][i] < Window THEN hits[c][i] + 1 ELSE Window]]
=============================================================================
