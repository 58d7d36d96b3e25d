------------------------- MODULE FusionCacheProofs -------------------------
(***************************************************************************)
(* What the request path keeps for every set of requests, keys and faults,  *)
(* every configuration of the layers and every breaker.                     *)
(***************************************************************************)
EXTENDS FusionCache, CircuitBreakerProofs, FiniteSetTheorems

USE DEF flights, caches, history, others, breaker

(* Recording keeps the counters natural numbers.                           *)
LEMMA RecordType ==
    ASSUME stats \in [Counters -> Nat], NEW layer, NEW saved \in Nat, Record(layer, saved)
    PROVE  stats' \in [Counters -> Nat]
BY DEF Record, Counters

(* The steps that run up to the upstream call, seen from outside: only the  *)
(* request's own entries change, and a future is registered for its own key. *)
LEMMA MissType ==
    ASSUME TypeOK, NEW r \in Tasks, NEW k \in Keys, Miss(r, k)
    PROVE  /\ pc' \in [Tasks -> Phases]
           /\ inflight' \in [Keys -> Tasks \union {NoTask}]
           /\ fut' \in [Tasks -> {"none", "pending", "result", "error", "cancelled"}]
           /\ waits' \in [Tasks -> Tasks \union {NoTask}]
           /\ \A t \in Tasks : pc'[t] = "waiting" => waits'[t] \in Tasks
           /\ answer' \in [Tasks -> Response \union {NoResponse}]
           /\ asked' \in [Tasks -> Response \union {NoResponse}]
           /\ stats' \in [Counters -> Nat]
           /\ Admit \/ UNCHANGED breaker
<1> USE DEF TypeOK, Phases, Owning, Ended, Served
<1>1. CASE Reject(r)
  BY <1>1, RecordType DEF Reject, Answer, Unawait
<1>2. CASE Claim(r, k)
  BY <1>2 DEF Claim, Move, Unawait, Response
<1>3. CASE Join(r, k)
  BY <1>3 DEF Join, Move, Unawait
<1> QED BY <1>1, <1>2, <1>3 DEF Miss

(* The same of a whole lookup; it ends at L1, at the embedder or upstream.  *)
LEMMA LookupType ==
    ASSUME TypeOK, NEW r \in Tasks, NEW k \in Keys, Lookup(r, k)
    PROVE  /\ pc' \in [Tasks -> Phases]
           /\ inflight' \in [Keys -> Tasks \union {NoTask}]
           /\ fut' \in [Tasks -> {"none", "pending", "result", "error", "cancelled"}]
           /\ waits' \in [Tasks -> Tasks \union {NoTask}]
           /\ \A t \in Tasks : pc'[t] = "waiting" => waits'[t] \in Tasks
           /\ answer' \in [Tasks -> Response \union {NoResponse}]
           /\ asked' \in [Tasks -> Response \union {NoResponse}]
           /\ stats' \in [Counters -> Nat]
           /\ Admit \/ UNCHANGED breaker
<1> USE DEF TypeOK
<1>1. CASE EnableExact /\ l1[k] # NoResponse
  BY <1>1, RecordType DEF Lookup, Answer, Unawait, Phases, Ended, Served
<1>2. CASE ~(EnableExact /\ l1[k] # NoResponse) /\ EnableSemantic
  BY <1>2 DEF Lookup, Move, Unawait, Phases
<1>3. CASE ~(EnableExact /\ l1[k] # NoResponse) /\ ~EnableSemantic
  BY <1>3, MissType DEF Lookup
<1> QED BY <1>1, <1>2, <1>3

(* And of the end of an owner's request.                                    *)
LEMMA CompleteType ==
    ASSUME TypeOK, NEW r \in Tasks, NEW resp \in Response \union {NoResponse},
           Complete(r, resp)
    PROVE  /\ pc' \in [Tasks -> Phases]
           /\ inflight' \in [Keys -> Tasks \union {NoTask}]
           /\ fut' \in [Tasks -> {"none", "pending", "result", "error", "cancelled"}]
           /\ waits' \in [Tasks -> Tasks \union {NoTask}]
           /\ \A t \in Tasks : pc'[t] = "waiting" => waits'[t] \in Tasks
           /\ answer' \in [Tasks -> Response \union {NoResponse}]
           /\ stats' \in [Counters -> Nat]
BY RecordType, CacheAssumption
   DEF TypeOK, Complete, Answer, Settle, Unregister, Phases, Ended, Served

LEMMA ProcessType ==
    ASSUME TypeOK, NEW r \in Tasks, Process(r)
    PROVE  /\ pc' \in [Tasks -> Phases]
           /\ inflight' \in [Keys -> Tasks \union {NoTask}]
           /\ fut' \in [Tasks -> {"none", "pending", "result", "error", "cancelled"}]
           /\ waits' \in [Tasks -> Tasks \union {NoTask}]
           /\ \A t \in Tasks : pc'[t] = "waiting" => waits'[t] \in Tasks
           /\ answer' \in [Tasks -> Response \union {NoResponse}]
           /\ l1' \in [Keys -> Response \union {NoResponse}]
           /\ stats' \in [Counters -> Nat]
<1>1. asked[r] \in Response \union {NoResponse}
  BY DEF TypeOK
<1>2. l1' \in [Keys -> Response \union {NoResponse}]
  BY <1>1 DEF Process, TypeOK
<1>3. CASE EnableSemantic /\ req[r] \notin Streaming
  BY <1>1, <1>2, <1>3 DEF Process, TypeOK, Phases, Owning
<1>4. CASE ~(EnableSemantic /\ req[r] \notin Streaming)
  BY <1>1, <1>2, <1>4, CompleteType DEF Process, TypeOK
<1> QED BY <1>3, <1>4

(* What a step does to the breaker is one of its methods, or nothing.       *)
LEMMA BreakerStep ==
    ASSUME TypeOK, [Next]_vars
    PROVE  \/ Admit \/ RecordSuccess \/ RecordFailure \/ Reset
           \/ ReadState \/ Elapse \/ UNCHANGED breaker
<1>1. ASSUME NEW r \in Tasks, NEW k \in Keys, Lookup(r, k)
      PROVE  Admit \/ UNCHANGED breaker
  BY <1>1 DEF Lookup, Miss, Reject, Claim, Join
<1>2. ASSUME NEW r \in Tasks, Arrive(r)
      PROVE  Admit \/ UNCHANGED breaker
  BY <1>1, <1>2 DEF Arrive, TypeOK
<1>3. ASSUME NEW r \in Tasks, Progress(r)
      PROVE  Admit \/ RecordSuccess \/ RecordFailure \/ UNCHANGED breaker
  BY <1>3 DEF Progress, Embedded, UpstreamReplies, UpstreamFails, StreamEnds,
              StreamBreaks, Filled, Share, Retry, CancelledWith,
              Lookup, Miss, Reject, Claim, Join
<1>4. ASSUME NEW r \in Tasks, Cancel(r)
      PROVE  UNCHANGED breaker
  BY <1>4 DEF Cancel
<1>5. ASSUME Environment
      PROVE  Reset \/ Elapse \/ ReadState \/ UNCHANGED breaker
  BY <1>5 DEF Environment, Expire, Invalidate, InvalidateAll, Tick, ReadStatus
<1> QED BY <1>2, <1>3, <1>4, <1>5 DEF Next, vars

-----------------------------------------------------------------------------
(* Every state has the types of TypeOK, and the breaker keeps its balance   *)
(* of failures and state under whatever the requests report.                *)
THEOREM TypeCorrect == Spec => [](TypeOK /\ BreakerSound)
<1>1. Init => TypeOK /\ BreakerSound
  BY CacheAssumption, BreakerAssumption
     DEF Init, BreakerInit, TypeOK, BreakerTypeOK, BreakerSound, Phases
<1>2. ASSUME TypeOK, BreakerSound, [Next]_vars
      PROVE  TypeOK' /\ BreakerSound'
  <2> USE <1>2
  <2>1. BreakerTypeOK' /\ BreakerSound'
    BY BreakerStep, BreakerKeeps DEF TypeOK
  <2>2. ASSUME NEW r \in Tasks, Arrive(r)
        PROVE  TypeOK'
    BY <2>1, <2>2, LookupType DEF Arrive, TypeOK
  <2>3. ASSUME NEW r \in Tasks, Embedded(r)
        PROVE  TypeOK'
    <3>1. CASE /\ \E j \in Matches(req[r]) : Answer(r, "semantic", l2[j], 0)
               /\ UNCHANGED <<breaker, flights, asked>>
      BY <2>1, <2>3, <3>1, RecordType
         DEF Embedded, Answer, Matches, TypeOK, Phases, Ended, Served
    <3>2. CASE Miss(r, req[r])
      BY <2>1, <2>3, <3>2, MissType DEF Embedded, TypeOK
    <3> QED BY <2>3, <3>1, <3>2 DEF Embedded
  <2>4. ASSUME NEW r \in Tasks, UpstreamReplies(r)
        PROVE  TypeOK'
    <3>1. CASE req[r] \in Streaming
      BY <2>1, <2>4, <3>1 DEF UpstreamReplies, Move, TypeOK, Phases, Owning
    <3>2. CASE req[r] \notin Streaming
      BY <2>1, <2>4, <3>2, ProcessType DEF UpstreamReplies, TypeOK
    <3> QED BY <3>1, <3>2
  <2>5. ASSUME NEW r \in Tasks, UpstreamFails(r) \/ StreamBreaks(r)
        PROVE  TypeOK'
    BY <2>1, <2>5 DEF UpstreamFails, StreamBreaks, Move, Settle, Unregister,
                      TypeOK, Phases, Ended
  <2>6. ASSUME NEW r \in Tasks, StreamEnds(r)
        PROVE  TypeOK'
    BY <2>1, <2>6, ProcessType DEF StreamEnds, TypeOK
  <2>7. ASSUME NEW r \in Tasks, Filled(r)
        PROVE  TypeOK'
    <3>1. l2' \in [Keys -> Response \union {NoResponse}]
      BY <2>7 DEF Filled, TypeOK
    <3>2. answer[r] \in Response \union {NoResponse}
      BY DEF TypeOK
    <3> QED BY <2>1, <2>7, <3>1, <3>2, CompleteType DEF Filled, TypeOK
  <2>8. ASSUME NEW r \in Tasks, Share(r)
        PROVE  TypeOK'
    <3>1. waits[r] \in Tasks
      BY <2>8 DEF Share, TypeOK
    <3> QED BY <2>1, <2>8, RecordType, CacheAssumption
            DEF Share, Answer, Unawait, TypeOK, Phases, Ended, Served
  <2>9. ASSUME NEW r \in Tasks, Retry(r)
        PROVE  TypeOK'
    BY <2>1, <2>9, LookupType DEF Retry, TypeOK
  <2>10. ASSUME NEW r \in Tasks, CancelledWith(r)
         PROVE  TypeOK'
    BY <2>1, <2>10 DEF CancelledWith, Move, Unawait, TypeOK, Phases, Ended
  <2>11. ASSUME NEW r \in Tasks, Cancel(r)
         PROVE  TypeOK'
    BY <2>1, <2>11 DEF Cancel, Settle, Unregister, Unawait, TypeOK, Phases, Ended
  <2>12. ASSUME NEW k \in Keys, Expire(k) \/ Invalidate(k)
         PROVE  TypeOK'
    BY <2>1, <2>12 DEF Expire, Invalidate, TypeOK
  <2>13. ASSUME InvalidateAll
         PROVE  TypeOK'
    BY <2>1, <2>13, CacheAssumption DEF InvalidateAll, TypeOK
  <2>14. ASSUME Tick \/ ReadStatus \/ UNCHANGED vars
         PROVE  TypeOK'
    BY <2>1, <2>14 DEF Tick, ReadStatus, vars, TypeOK
  <2> QED BY <2>1, <2>2, <2>3, <2>4, <2>5, <2>6, <2>7, <2>8, <2>9, <2>10, <2>11,
             <2>12, <2>13, <2>14 DEF Next, Progress, Environment
<1> QED BY <1>1, <1>2, PTL DEF Spec

-----------------------------------------------------------------------------
(* What a step can do to the single flight: let a task claim a free key,    *)
(* let an owner give its key up, or neither.                                *)
Claims(r) ==
    /\ pc[r] \notin Owning
    /\ inflight[req[r]] = NoTask
    /\ pc' = [pc EXCEPT ![r] = "calling"]
    /\ inflight' = [inflight EXCEPT ![req[r]] = r]

Releases(r) ==
    /\ pc[r] \in Owning
    /\ \E phase \in Phases \ Owning : pc' = [pc EXCEPT ![r] = phase]
    /\ inflight' = [inflight EXCEPT ![req[r]] = NoTask]

Keeps ==
    /\ \A t \in Tasks : pc'[t] \in Owning <=> pc[t] \in Owning
    /\ inflight' = inflight

LEMMA LookupFlight ==
    ASSUME TypeOK, NEW r \in Tasks, pc[r] \notin Owning, Lookup(r, req[r])
    PROVE  Claims(r) \/ Keeps
BY DEF TypeOK, Lookup, Miss, Reject, Claim, Join, Answer, Move,
       Claims, Keeps, Owning, Phases

LEMMA FlightStep ==
    ASSUME TypeOK, [Next]_vars
    PROVE  /\ req' = req
           /\ Keeps \/ \E r \in Tasks : Claims(r) \/ Releases(r)
<1> USE DEF TypeOK, Owning, Phases, Ended, Served
<1>1. ASSUME NEW r \in Tasks, Arrive(r) \/ Retry(r)
      PROVE  req' = req /\ (Claims(r) \/ Keeps)
  BY <1>1, LookupFlight DEF Arrive, Retry
<1>2. ASSUME NEW r \in Tasks, Embedded(r)
      PROVE  req' = req /\ (Claims(r) \/ Keeps)
  BY <1>2 DEF Embedded, Miss, Reject, Claim, Join, Answer, Move, Claims, Keeps
<1>3. ASSUME NEW r \in Tasks, UpstreamReplies(r) \/ StreamEnds(r)
      PROVE  req' = req /\ (Releases(r) \/ Keeps)
  BY <1>3 DEF UpstreamReplies, StreamEnds, Process, Complete, Answer, Move,
              Unregister, Releases, Keeps
<1>4. ASSUME NEW r \in Tasks, UpstreamFails(r) \/ StreamBreaks(r) \/ Filled(r)
      PROVE  req' = req /\ Releases(r)
  BY <1>4 DEF UpstreamFails, StreamBreaks, Filled, Complete, Answer, Move,
              Unregister, Releases
<1>5. ASSUME NEW r \in Tasks, Share(r) \/ CancelledWith(r)
      PROVE  req' = req /\ Keeps
  BY <1>5 DEF Share, CancelledWith, Answer, Move, Keeps
<1>6. ASSUME NEW r \in Tasks, Cancel(r)
      PROVE  req' = req /\ (Releases(r) \/ Keeps)
  BY <1>6 DEF Cancel, Unregister, Releases, Keeps
<1>7. ASSUME Environment \/ UNCHANGED vars
      PROVE  req' = req /\ Keeps
  BY <1>7 DEF Environment, Expire, Invalidate, InvalidateAll, Tick, ReadStatus,
              vars, Keeps
<1> QED BY <1>1, <1>2, <1>3, <1>4, <1>5, <1>6, <1>7 DEF Next, Progress

(* The single flight: a key is claimed by at most one task at a time, and   *)
(* the registered future is always that task's own.                         *)
THEOREM SingleFlight == Spec => []OneCallPerKey
<1>1. Init => OneCallPerKey
  BY CacheAssumption DEF Init, OneCallPerKey, Owning
<1>2. ASSUME TypeOK, OneCallPerKey, [Next]_vars
      PROVE  OneCallPerKey'
  <2> USE <1>2, CacheAssumption DEF OneCallPerKey, TypeOK
  <2>1. CASE Keeps
    BY <2>1, FlightStep DEF Keeps
  <2>2. ASSUME NEW r \in Tasks, Claims(r)
        PROVE  OneCallPerKey'
    BY <2>2, FlightStep DEF Claims, Owning
  <2>3. ASSUME NEW r \in Tasks, Releases(r)
        PROVE  OneCallPerKey'
    BY <2>3, FlightStep DEF Releases
  <2> QED BY <2>1, <2>2, <2>3, FlightStep
<1> QED BY <1>1, <1>2, TypeCorrect, PTL DEF Spec

-----------------------------------------------------------------------------
(* The two halves of WaitersHaveOwners: where waiters wait, and who settles *)
(* a pending future.  The first needs the single flight when a waiter joins. *)
WaitersPlaced ==
    \A t \in Tasks : pc[t] = "waiting" => waits[t] \in Tasks /\ req[waits[t]] = req[t]

PendingOwned == \A t \in Tasks : fut[t] = "pending" => pc[t] \in Owning

LEMMA MissWaiters ==
    ASSUME TypeOK, OneCallPerKey, WaitersPlaced, PendingOwned,
           NEW r \in Tasks, pc[r] \notin Owning, Miss(r, req[r]), req' = req
    PROVE  WaitersPlaced' /\ PendingOwned'
<1> USE DEF TypeOK, WaitersPlaced, PendingOwned
<1>1. CASE Reject(r)
  BY <1>1 DEF Reject, Answer, Unawait, Owning
<1>2. CASE Claim(r, req[r])
  BY <1>2 DEF Claim, Move, Unawait, Owning
<1>3. CASE Join(r, req[r])
  <2>1. inflight[req[r]] \in Tasks /\ req[inflight[req[r]]] = req[r]
    BY <1>3 DEF Join, OneCallPerKey
  <2> QED BY <1>3, <2>1 DEF Join, Move, Unawait, Owning
<1> QED BY <1>1, <1>2, <1>3 DEF Miss

LEMMA LookupWaiters ==
    ASSUME TypeOK, OneCallPerKey, WaitersPlaced, PendingOwned,
           NEW r \in Tasks, pc[r] \notin Owning, Lookup(r, req[r]), req' = req
    PROVE  WaitersPlaced' /\ PendingOwned'
<1>1. CASE Miss(r, req[r])
  BY <1>1, MissWaiters
<1>2. CASE ~Miss(r, req[r])
  BY <1>2 DEF Lookup, Answer, Move, Unawait, TypeOK, WaitersPlaced, PendingOwned, Owning
<1> QED BY <1>1, <1>2

(* No wake-up is lost as long as no stream breaks and nobody is cancelled:  *)
(* every waiter's future has an owner that will settle it.  FusionLostWaiter *)
(* and FusionCancelShared show what those two faults do.                    *)
THEOREM NoLostWakeup ==
    "stream" \notin Faults /\ "cancel" \notin Faults /\ Spec => []WaitersHaveOwners
<1> SUFFICES ASSUME "stream" \notin Faults, "cancel" \notin Faults
             PROVE  Spec => []WaitersHaveOwners
  OBVIOUS
<1>1. Init => WaitersPlaced /\ PendingOwned
  BY DEF Init, WaitersPlaced, PendingOwned
<1>2. ASSUME TypeOK, OneCallPerKey, WaitersPlaced, PendingOwned, [Next]_vars
      PROVE  WaitersPlaced' /\ PendingOwned'
  <2> USE <1>2
  <2>1. req' = req
    BY FlightStep
  <2>2. ASSUME NEW r \in Tasks, Arrive(r) \/ Retry(r)
        PROVE  WaitersPlaced' /\ PendingOwned'
    BY <2>1, <2>2, LookupWaiters DEF Arrive, Retry, Owning
  <2> USE DEF TypeOK, WaitersPlaced, PendingOwned
  <2>3. ASSUME NEW r \in Tasks, Embedded(r)
        PROVE  WaitersPlaced' /\ PendingOwned'
    <3>1. CASE Miss(r, req[r])
      BY <2>1, <2>3, <3>1, MissWaiters DEF Embedded, Owning
    <3>2. CASE ~Miss(r, req[r])
      BY <2>3, <3>2 DEF Embedded, Answer, Owning
    <3> QED BY <3>1, <3>2
  <2>4. ASSUME NEW r \in Tasks, UpstreamReplies(r) \/ StreamEnds(r)
        PROVE  WaitersPlaced' /\ PendingOwned'
    BY <2>4 DEF UpstreamReplies, StreamEnds, Process, Complete, Answer, Move,
                Settle, Owning
  <2>5. ASSUME NEW r \in Tasks, UpstreamFails(r) \/ Filled(r)
        PROVE  WaitersPlaced' /\ PendingOwned'
    BY <2>5 DEF UpstreamFails, Filled, Complete, Answer, Move, Settle, Owning
  <2>6. ASSUME NEW r \in Tasks, Share(r) \/ CancelledWith(r)
        PROVE  WaitersPlaced' /\ PendingOwned'
    BY <2>6 DEF Share, CancelledWith, Answer, Move, Unawait, Owning
  <2>7. ASSUME NEW r \in Tasks, StreamBreaks(r) \/ Cancel(r)
        PROVE  FALSE
    BY <2>7 DEF StreamBreaks, Cancel
  <2>8. ASSUME Environment \/ UNCHANGED vars
        PROVE  WaitersPlaced' /\ PendingOwned'
    BY <2>8 DEF Environment, Expire, Invalidate, InvalidateAll, Tick, ReadStatus, vars
  <2> QED BY <2>2, <2>3, <2>4, <2>5, <2>6, <2>7, <2>8 DEF Next, Progress
<1>3. WaitersPlaced /\ PendingOwned => WaitersHaveOwners
  BY DEF WaitersPlaced, PendingOwned, WaitersHaveOwners
<1> QED BY <1>1, <1>2, <1>3, TypeCorrect, SingleFlight, PTL DEF Spec

-----------------------------------------------------------------------------
(* How the statistics count a step of r, as its new pc says.                *)
Savings(r) ==
    CASE pc'[r] = "miss" -> Saving[req[r]]
      [] pc'[r] = "shared" -> Saving[req[waits[r]]]
      [] OTHER -> 0

Counted(r) ==
    IF pc'[r] \in Served \union {"rejected"} THEN Record(pc'[r], Savings(r))
    ELSE UNCHANGED stats

LEMMA MissCounted ==
    ASSUME TypeOK, NEW r \in Tasks, NEW k \in Keys, Miss(r, k)
    PROVE  Counted(r) /\ pc'[r] \notin {"miss", "shared", "semantic", "exact"}
BY DEF Miss, Reject, Claim, Join, Answer, Move, Counted, Savings, Served, TypeOK

LEMMA LookupCounted ==
    ASSUME TypeOK, NEW r \in Tasks, NEW k \in Keys, Lookup(r, k)
    PROVE  Counted(r) /\ pc'[r] \notin {"miss", "shared", "semantic"}
<1>1. CASE EnableExact /\ l1[k] # NoResponse
  BY <1>1 DEF Lookup, Answer, Counted, Savings, Served, TypeOK
<1>2. CASE ~(EnableExact /\ l1[k] # NoResponse) /\ EnableSemantic
  BY <1>2 DEF Lookup, Move, Counted, Savings, Served, TypeOK
<1>3. CASE ~(EnableExact /\ l1[k] # NoResponse) /\ ~EnableSemantic
  BY <1>3, MissCounted DEF Lookup
<1> QED BY <1>1, <1>2, <1>3

LEMMA ProcessCounted ==
    ASSUME TypeOK, NEW r \in Tasks, Process(r)
    PROVE  Counted(r) /\ pc'[r] # "shared"
BY DEF Process, Complete, Answer, Counted, Savings, Served, TypeOK

LEMMA StepCounted ==
    ASSUME TypeOK, NEW r \in Tasks,
           Arrive(r) \/ Embedded(r) \/ UpstreamReplies(r) \/ StreamEnds(r)
           \/ Share(r) \/ Retry(r) \/ Filled(r)
    PROVE  Counted(r) /\ (pc'[r] = "shared" => waits[r] \in Tasks)
<1>1. CASE Arrive(r) \/ Retry(r)
  BY <1>1, LookupCounted DEF Arrive, Retry, TypeOK
<1>2. CASE Embedded(r)
  <2>1. CASE Miss(r, req[r])
    BY <2>1, MissCounted DEF TypeOK
  <2>2. CASE \E j \in Matches(req[r]) : Answer(r, "semantic", l2[j], 0)
    BY <2>2 DEF Answer, Counted, Savings, Served, TypeOK
  <2> QED BY <1>2, <2>1, <2>2 DEF Embedded
<1>3. CASE UpstreamReplies(r)
  <2>1. CASE req[r] \in Streaming
    BY <1>3, <2>1 DEF UpstreamReplies, Move, Counted, Served, TypeOK
  <2>2. CASE req[r] \notin Streaming
    BY <1>3, <2>2, ProcessCounted DEF UpstreamReplies
  <2> QED BY <2>1, <2>2
<1>4. CASE StreamEnds(r)
  BY <1>4, ProcessCounted DEF StreamEnds
<1>5. CASE Filled(r)
  BY <1>5 DEF Filled, Complete, Answer, Counted, Savings, Served, TypeOK
<1>6. CASE Share(r)
  BY <1>6 DEF Share, Answer, Counted, Savings, Served, TypeOK
<1> QED BY <1>1, <1>2, <1>3, <1>4, <1>5, <1>6

(* A step of a request moves that one, which had not ended, and counts it   *)
(* if and as it ends.                                                       *)
LEMMA OneMoves ==
    ASSUME TypeOK, NEW r \in Tasks, Arrive(r) \/ Progress(r) \/ Cancel(r)
    PROVE  /\ pc[r] \notin Ended /\ Counted(r)
           /\ \E phase \in Phases : pc' = [pc EXCEPT ![r] = phase]
<1> USE DEF TypeOK, Phases, Owning, Ended, Served
<1>1. ASSUME NEW k \in Keys, Lookup(r, k) \/ Miss(r, k)
      PROVE  \E phase \in Phases : pc' = [pc EXCEPT ![r] = phase]
  BY <1>1 DEF Lookup, Miss, Reject, Claim, Join, Answer, Move
<1>2. CASE Arrive(r) \/ Retry(r)
  <2>1. Counted(r)
    BY <1>2, StepCounted
  <2>2. Lookup(r, req[r]) /\ pc[r] \in {"idle", "waiting"}
    BY <1>2 DEF Arrive, Retry
  <2> QED BY <1>1, <2>1, <2>2
<1>3. CASE Embedded(r)
  <2>1. Counted(r)
    BY <1>3, StepCounted
  <2>2. \E phase \in Phases : pc' = [pc EXCEPT ![r] = phase]
    BY <1>1, <1>3 DEF Embedded, Answer
  <2> QED BY <1>3, <2>1, <2>2 DEF Embedded
<1>4. CASE UpstreamReplies(r) \/ StreamEnds(r) \/ Filled(r) \/ Share(r)
  <2>1. Counted(r)
    BY <1>4, StepCounted
  <2>2. pc[r] \notin Ended /\ \E phase \in Phases : pc' = [pc EXCEPT ![r] = phase]
    BY <1>4 DEF UpstreamReplies, StreamEnds, Filled, Share, Process, Complete, Answer, Move
  <2> QED BY <2>1, <2>2
<1>5. CASE UpstreamFails(r) \/ StreamBreaks(r) \/ CancelledWith(r) \/ Cancel(r)
  <2>1. pc[r] \notin Ended /\ UNCHANGED stats
        /\ \E phase \in {"failed", "cancelled"} : pc' = [pc EXCEPT ![r] = phase]
    BY <1>5 DEF UpstreamFails, StreamBreaks, CancelledWith, Cancel, Move
  <2> QED BY <2>1 DEF Counted
<1> QED BY <1>2, <1>3, <1>4, <1>5 DEF Progress

LEMMA OneEndsAtATime ==
    ASSUME TypeOK, [Next]_vars
    PROVE  \/ UNCHANGED <<pc, stats>>
           \/ \E r \in Tasks, phase \in Phases :
                 pc[r] \notin Ended /\ pc' = [pc EXCEPT ![r] = phase] /\ Counted(r)
<1>1. ASSUME Environment \/ UNCHANGED vars
      PROVE  UNCHANGED <<pc, stats>>
  BY <1>1 DEF Environment, Expire, Invalidate, InvalidateAll, Tick, ReadStatus, vars
<1> QED BY <1>1, OneMoves DEF Next

(* Of finitely many tasks, one more is in the layers when one moves there.  *)
LEMMA OneMoreInLayer ==
    ASSUME IsFiniteSet(Tasks), TypeOK, NEW layers, NEW r \in Tasks, NEW phase \in Phases,
           pc[r] \notin layers, pc' = [pc EXCEPT ![r] = phase]
    PROVE  /\ InLayer(layers) \in Nat
           /\ InLayer(layers)' = IF phase \in layers THEN InLayer(layers) + 1 ELSE InLayer(layers)
<1> DEFINE In == {t \in Tasks : pc[t] \in layers}
           In2 == {t \in Tasks : pc'[t] \in layers}
<1>1. IsFiniteSet(In)
  BY FS_Subset
<1>2. Cardinality(In) \in Nat
  BY <1>1, FS_CardinalityType
<1>3. r \notin In /\ In2 = IF phase \in layers THEN In \union {r} ELSE In
  BY DEF TypeOK
<1>4. Cardinality(In \union {r}) = Cardinality(In) + 1
  BY <1>1, <1>3, FS_AddElement
<1> QED BY <1>2, <1>3, <1>4 DEF InLayer

(* The statistics, to the number: a rejection is a miss of theirs, too, and *)
(* of a request that failed or was cancelled they say nothing.              *)
CountedOnce ==
    /\ stats["exact"] = InLayer({"exact"})
    /\ stats["semantic"] = InLayer({"semantic"})
    /\ stats["shared"] = InLayer({"shared"})
    /\ stats["misses"] = InLayer({"miss", "rejected"})
    /\ stats["requests"] = InLayer(Served \union {"rejected"})

LEMMA MoreInMoreLayers ==
    ASSUME IsFiniteSet(Tasks), NEW more, NEW less \in SUBSET more
    PROVE  InLayer(less) \in Nat /\ InLayer(more) \in Nat /\ InLayer(less) <= InLayer(more)
<1> DEFINE In(layers) == {t \in Tasks : pc[t] \in layers}
<1>1. IsFiniteSet(In(more)) /\ In(less) \subseteq In(more)
  BY FS_Subset
<1> HIDE DEF In
<1>2. IsFiniteSet(In(less)) /\ Cardinality(In(less)) <= Cardinality(In(more))
  BY <1>1, FS_Subset
<1>3. Cardinality(In(less)) \in Nat /\ Cardinality(In(more)) \in Nat
  BY <1>1, <1>2, FS_CardinalityType
<1> QED BY <1>2, <1>3 DEF In, InLayer

(* However the steps of any number of requests interleave, every hit and    *)
(* every answer is counted once, when and where its request ends.           *)
THEOREM StatisticsExact == IsFiniteSet(Tasks) /\ Spec => []HitsCounted
<1> SUFFICES ASSUME IsFiniteSet(Tasks)
             PROVE  Spec => []HitsCounted
  OBVIOUS
<1>1. Init => CountedOnce
  <2>1. ASSUME Init, NEW layers, "idle" \notin layers
        PROVE  InLayer(layers) = 0
    <3>1. {t \in Tasks : pc[t] \in layers} = {}
      BY <2>1 DEF Init
    <3> QED BY <3>1, FS_EmptySet DEF InLayer
  <2> QED BY <2>1 DEF Init, CountedOnce, Counters, Served
<1>2. ASSUME TypeOK, CountedOnce, [Next]_vars
      PROVE  CountedOnce'
  <2>1. CASE UNCHANGED <<pc, stats>>
    BY <1>2, <2>1 DEF CountedOnce, InLayer
  <2>2. ASSUME NEW r \in Tasks, NEW phase \in Phases,
               pc[r] \notin Ended, pc' = [pc EXCEPT ![r] = phase], Counted(r)
        PROVE  CountedOnce'
    <3>1. ASSUME NEW layers \in SUBSET Ended
          PROVE  /\ InLayer(layers) \in Nat
                 /\ InLayer(layers)' = IF phase \in layers THEN InLayer(layers) + 1
                                       ELSE InLayer(layers)
      BY <1>2, <2>2, <3>1, OneMoreInLayer
    <3>2. pc'[r] = phase /\ stats \in [Counters -> Nat]
      BY <1>2, <2>2 DEF TypeOK
    <3>3. /\ {"exact"} \in SUBSET Ended /\ {"semantic"} \in SUBSET Ended
          /\ {"shared"} \in SUBSET Ended /\ {"miss", "rejected"} \in SUBSET Ended
          /\ Served \union {"rejected"} \in SUBSET Ended
      BY DEF Ended, Served
    <3>4. CASE phase \notin Served \union {"rejected"}
      BY <1>2, <2>2, <3>1, <3>2, <3>3, <3>4 DEF CountedOnce, Counted, Served
    <3>5. CASE phase \in Served \union {"rejected"}
      <4>1. Record(phase, Savings(r))
        BY <2>2, <3>2, <3>5 DEF Counted
      <4> QED BY <1>2, <3>1, <3>2, <3>3, <3>5, <4>1 DEF CountedOnce, Record, Counters, Served
    <3> QED BY <3>4, <3>5
  <2> QED BY <1>2, <2>1, <2>2, OneEndsAtATime
<1>3. ASSUME CountedOnce
      PROVE  HitsCounted
  <2>1. InLayer({"miss"}) <= InLayer({"miss", "rejected"})
        /\ InLayer({"miss"}) \in Nat /\ InLayer({"miss", "rejected"}) \in Nat
    BY MoreInMoreLayers
  <2>2. /\ Served \subseteq Served \union {"rejected"}
        /\ Served \union {"rejected"} \subseteq Phases \ {"idle"}
    BY DEF Served, Phases, Ended
  <2>3. InLayer(Served \union {"rejected"}) \in InLayer(Served)..InLayer(Phases \ {"idle"})
    <3>1. /\ InLayer(Served) \in Nat /\ InLayer(Served \union {"rejected"}) \in Nat
          /\ InLayer(Served) <= InLayer(Served \union {"rejected"})
      BY <2>2, MoreInMoreLayers
    <3>2. /\ InLayer(Phases \ {"idle"}) \in Nat
          /\ InLayer(Served \union {"rejected"}) <= InLayer(Phases \ {"idle"})
      BY <2>2, MoreInMoreLayers
    <3> QED BY <3>1, <3>2
  <2> QED BY <1>3, <2>1, <2>3 DEF CountedOnce, HitsCounted
<1> QED BY <1>1, <1>2, <1>3, TypeCorrect, PTL DEF Spec

(* The breaker never counts more failures than requests have failed: a call *)
(* that failed is one failure, whatever became of the requests around it.   *)
FailuresCounted == failures <= InLayer({"failed"})

THEOREM FailuresAreRequests == IsFiniteSet(Tasks) /\ Spec => []FailuresCounted
<1> SUFFICES ASSUME IsFiniteSet(Tasks)
             PROVE  Spec => []FailuresCounted
  OBVIOUS
<1>1. Init => FailuresCounted
  <2>1. {t \in Tasks : pc[t] \in {"failed"}} \subseteq Tasks
    OBVIOUS
  <2>2. InLayer({"failed"}) \in Nat
    BY <2>1, FS_Subset, FS_CardinalityType DEF InLayer
  <2> QED BY <2>2 DEF Init, BreakerInit, FailuresCounted
<1>2. ASSUME TypeOK, FailuresCounted, [Next]_vars
      PROVE  FailuresCounted'
  <2> DEFINE n == InLayer({"failed"})
  <2>1. failures \in Nat /\ failures <= n
    BY <1>2 DEF TypeOK, BreakerTypeOK, FailuresCounted
  <2>2. pc' = pc \/ \E r \in Tasks, phase \in Phases :
            pc[r] \notin Ended /\ pc' = [pc EXCEPT ![r] = phase]
    BY <1>2, OneEndsAtATime
  <2>3. n \in Nat /\ n' \in Nat /\ n' >= n
    <3>1. CASE pc' = pc
      <4>1. n' = n
        BY <3>1 DEF InLayer
      <4>2. {t \in Tasks : pc[t] \in {"failed"}} \subseteq Tasks
        OBVIOUS
      <4>3. n \in Nat
        BY <4>2, FS_Subset, FS_CardinalityType DEF InLayer
      <4> HIDE DEF n
      <4> QED BY <4>1, <4>3
    <3>2. ASSUME NEW r \in Tasks, NEW phase \in Phases,
                 pc[r] \notin Ended, pc' = [pc EXCEPT ![r] = phase]
          PROVE  n \in Nat /\ n' \in Nat /\ n' >= n
      <4>1. pc[r] \notin {"failed"}
        BY <3>2 DEF Ended
      <4>2. n \in Nat /\ n' = IF phase \in {"failed"} THEN n + 1 ELSE n
        BY <1>2, <3>2, <4>1, OneMoreInLayer
      <4> HIDE DEF n
      <4> QED BY <4>2
    <3> HIDE DEF n
    <3> QED BY <2>2, <3>1, <3>2
  <2>4. CASE failures' \in {0, failures}
    BY <2>1, <2>3, <2>4 DEF FailuresCounted
  <2>5. ASSUME NEW r \in Tasks, UpstreamFails(r)
        PROVE  FailuresCounted'
    <3>1. failures' \in {failures, failures + 1}
      BY <2>5 DEF UpstreamFails, RecordFailure
    <3>2. n' = n + 1
      BY <1>2, <2>5, OneMoreInLayer DEF UpstreamFails, Move, Phases, Ended
    <3> QED BY <2>1, <2>3, <3>1, <3>2 DEF FailuresCounted
  <2>6. ASSUME ~\E r \in Tasks : UpstreamFails(r)
        PROVE  failures' \in {0, failures}
    <3>1. ASSUME NEW r \in Tasks, Arrive(r) \/ Progress(r) \/ Cancel(r)
          PROVE  failures' \in {0, failures}
      BY <2>6, <3>1
         DEF Arrive, Progress, Cancel, Embedded, UpstreamReplies, StreamEnds, StreamBreaks,
             Filled, Share, Retry, CancelledWith, Lookup, Miss, Reject, Claim, Join,
             Admit, RecordSuccess
    <3>2. ASSUME Environment \/ UNCHANGED vars
          PROVE  failures' \in {0, failures}
      BY <3>2 DEF Environment, Expire, Invalidate, InvalidateAll, Tick, ReadStatus, vars,
                  Reset, Elapse, ReadState
    <3> QED BY <1>2, <3>1, <3>2 DEF Next
  <2> QED BY <2>4, <2>5, <2>6
<1> QED BY <1>1, <1>2, TypeCorrect, PTL DEF Spec
-----------------------------------------------------------------------------
(* Who has called upstream: every owner, and nobody who may yet call.       *)
AskedOnce ==
    \A r \in Tasks :
        /\ pc[r] \in Owning => asked[r] # NoResponse
        /\ asked[r] # NoResponse => pc[r] \notin {"idle", "embedding", "waiting"}

(* No call has come to anything but a failure.                              *)
NoneSucceeded == \A r \in Tasks : asked[r] # NoResponse => pc[r] \in {"calling", "failed"}

(* What a step can do to the calls: r's fails, or succeeds, or none does    *)
(* either and the breaker's count stays.                                    *)
CallFails(r) ==
    /\ pc[r] = "calling" /\ pc' = [pc EXCEPT ![r] = "failed"]
    /\ asked' = asked
    /\ Enabled => failures' = failures + 1

CallSucceeds(r) == pc'[r] \in {"buffering", "filling", "miss"} /\ asked'[r] # NoResponse

NoCallEnds(r) ==
    /\ failures' = failures
    /\ \E phase \in Phases \ {"failed"} :
          /\ pc[r] \notin Ended /\ pc' = [pc EXCEPT ![r] = phase]
          /\ phase = "calling" => asked[r] = NoResponse
    /\ \A t \in Tasks : asked[t] # NoResponse => asked'[t] = asked[t]

LEMMA LookupCalls ==
    ASSUME TypeOK, AskedOnce, NEW r \in Tasks, pc[r] \in {"idle", "embedding", "waiting"},
           Lookup(r, req[r]) \/ Miss(r, req[r])
    PROVE  AskedOnce' /\ NoCallEnds(r)
<1> USE DEF TypeOK, AskedOnce, NoCallEnds, Owning, Ended, Served, Phases
<1>1. asked[r] = NoResponse
  OBVIOUS
<1>2. CASE Miss(r, req[r])
  <2>1. CASE Reject(r)
    BY <1>1, <2>1 DEF Reject, Answer
  <2>2. CASE Claim(r, req[r])
    <3>1. [key |-> req[r], epoch |-> flushes] # NoResponse
      BY NoResponseAssumption DEF Response
    <3> QED BY <1>1, <2>2, <3>1 DEF Claim, Move, Admit
  <2>3. CASE Join(r, req[r])
    BY <1>1, <2>3 DEF Join, Move, Admit
  <2> QED BY <1>2, <2>1, <2>2, <2>3 DEF Miss
<1>3. CASE ~Miss(r, req[r])
  BY <1>1, <1>3 DEF Lookup, Answer, Move
<1> QED BY <1>2, <1>3

LEMMA CallStep ==
    ASSUME TypeOK, AskedOnce, [Next]_vars, "stream" \notin Faults
    PROVE  /\ AskedOnce'
           /\ \/ flushes' # 0
              \/ UNCHANGED <<pc, asked, failures>>
              \/ \E r \in Tasks : CallFails(r) \/ CallSucceeds(r) \/ NoCallEnds(r)
<1> USE DEF TypeOK, AskedOnce, Owning, Ended, Served, Phases
<1>1. ASSUME NEW r \in Tasks, Arrive(r) \/ Retry(r) \/ Embedded(r)
      PROVE  AskedOnce' /\ NoCallEnds(r)
  <2>1. CASE Arrive(r) \/ Retry(r)
    BY <2>1, LookupCalls DEF Arrive, Retry
  <2>2. CASE Embedded(r) /\ Miss(r, req[r])
    BY <2>2, LookupCalls DEF Embedded
  <2>3. CASE Embedded(r) /\ ~Miss(r, req[r])
    BY <2>3 DEF Embedded, Answer, NoCallEnds
  <2> QED BY <1>1, <2>1, <2>2, <2>3
<1>2. ASSUME NEW r \in Tasks, UpstreamReplies(r) \/ StreamEnds(r) \/ Filled(r)
      PROVE  AskedOnce' /\ CallSucceeds(r)
  BY <1>2 DEF UpstreamReplies, StreamEnds, Filled, Process, Complete, Answer, Move, CallSucceeds
<1>3. ASSUME NEW r \in Tasks, UpstreamFails(r)
      PROVE  AskedOnce' /\ CallFails(r)
  BY <1>3 DEF UpstreamFails, RecordFailure, Move, CallFails
<1>4. ASSUME NEW r \in Tasks, Share(r) \/ CancelledWith(r) \/ Cancel(r)
      PROVE  AskedOnce' /\ NoCallEnds(r)
  BY <1>4 DEF Share, CancelledWith, Cancel, Answer, Move, NoCallEnds
<1>5. ASSUME NEW r \in Tasks, StreamBreaks(r)
      PROVE  FALSE
  BY <1>5 DEF StreamBreaks
<1>6. ASSUME InvalidateAll
      PROVE  AskedOnce' /\ flushes' # 0
  BY <1>6 DEF InvalidateAll
<1>7. ASSUME (\E k \in Keys : Expire(k) \/ Invalidate(k)) \/ Tick \/ ReadStatus \/ UNCHANGED vars
      PROVE  AskedOnce' /\ UNCHANGED <<pc, asked, failures>>
  BY <1>7 DEF Expire, Invalidate, Tick, ReadStatus, Elapse, ReadState, vars
<1> QED BY <1>1, <1>2, <1>3, <1>4, <1>5, <1>6, <1>7 DEF Next, Progress, Environment

(* While no call has succeeded and nothing was reset, the breaker counts    *)
(* every request that has failed.                                           *)
NoFailureMissed ==
    Enabled /\ flushes = 0 /\ NoneSucceeded => failures >= InLayer({"failed"})

(* The breaker is away from closed once as many calls as its threshold have *)
(* failed in a row, of whatever requests and in whatever order: for answers *)
(* that do not come in streams.  FusionStreamOutage shows what streams do.  *)
THEOREM OutageOpens ==
    IsFiniteSet(Tasks) /\ "stream" \notin Faults /\ Spec => []OpensAfterFailures
<1> SUFFICES ASSUME IsFiniteSet(Tasks), "stream" \notin Faults
             PROVE  Spec => []OpensAfterFailures
  OBVIOUS
<1>1. Init => AskedOnce /\ NoFailureMissed
  <2>1. ASSUME Init
        PROVE  InLayer({"failed"}) = 0
    <3>1. {t \in Tasks : pc[t] \in {"failed"}} = {}
      BY <2>1 DEF Init
    <3> QED BY <3>1, FS_EmptySet DEF InLayer
  <2> QED BY <2>1 DEF Init, BreakerInit, AskedOnce, NoFailureMissed, Owning
<1>2. ASSUME TypeOK, AskedOnce, NoFailureMissed, [Next]_vars
      PROVE  AskedOnce' /\ NoFailureMissed'
  <2>1. AskedOnce'
    BY <1>2, CallStep
  <2>2. SUFFICES ASSUME Enabled, flushes' = 0, NoneSucceeded'
                 PROVE  failures' >= InLayer({"failed"})'
    BY <2>1 DEF NoFailureMissed
  <2>3. flushes = 0
    BY <1>2, <2>2 DEF Next, Arrive, Progress, Cancel, Environment, vars, TypeOK,
       Embedded, UpstreamReplies, UpstreamFails, StreamEnds, StreamBreaks, Filled, Share, Retry,
       CancelledWith, Expire, Invalidate, InvalidateAll, Tick, ReadStatus
  <2>4. failures \in Nat
    BY <1>2 DEF TypeOK, BreakerTypeOK
  <2>5. CASE UNCHANGED <<pc, asked, failures>>
    BY <1>2, <2>2, <2>3, <2>5 DEF NoFailureMissed, NoneSucceeded, InLayer
  <2>6. ASSUME NEW r \in Tasks, CallSucceeds(r)
        PROVE  FALSE
    BY <2>2, <2>6 DEF CallSucceeds, NoneSucceeded
  <2>7. ASSUME NEW r \in Tasks, CallFails(r)
        PROVE  failures' >= InLayer({"failed"})'
    <3>1. NoneSucceeded
      BY <1>2, <2>2, <2>7 DEF NoneSucceeded, CallFails, TypeOK
    <3>2. InLayer({"failed"}) \in Nat /\ InLayer({"failed"})' = InLayer({"failed"}) + 1
      BY <1>2, <2>7, OneMoreInLayer DEF CallFails, Phases, Ended
    <3> QED BY <1>2, <2>2, <2>3, <2>4, <2>7, <3>1, <3>2 DEF NoFailureMissed, CallFails
  <2>8. ASSUME NEW r \in Tasks, NoCallEnds(r)
        PROVE  failures' >= InLayer({"failed"})'
    <3>1. PICK phase \in Phases \ {"failed"} :
              /\ pc[r] \notin Ended /\ pc' = [pc EXCEPT ![r] = phase]
              /\ phase = "calling" => asked[r] = NoResponse
      BY <2>8 DEF NoCallEnds
    <3>2. NoneSucceeded
      BY <1>2, <2>2, <2>8, <3>1 DEF NoneSucceeded, NoCallEnds, TypeOK
    <3>3. InLayer({"failed"}) \in Nat /\ InLayer({"failed"})' = InLayer({"failed"})
      BY <1>2, <3>1, OneMoreInLayer DEF Ended
    <3> QED BY <1>2, <2>2, <2>3, <2>8, <3>2, <3>3 DEF NoFailureMissed, NoCallEnds
  <2> QED BY <1>2, <2>2, <2>5, <2>6, <2>7, <2>8, CallStep
<1>3. ASSUME TypeOK, BreakerSound, NoFailureMissed
      PROVE  OpensAfterFailures
  <2>1. InLayer({"failed"}) \in Nat
    <3>1. {t \in Tasks : pc[t] \in {"failed"}} \subseteq Tasks
      OBVIOUS
    <3> QED BY <3>1, FS_Subset, FS_CardinalityType DEF InLayer
  <2> QED BY <1>3, <2>1, BreakerAssumption
          DEF OpensAfterFailures, NoFailureMissed, NoneSucceeded, BreakerSound, TypeOK, BreakerTypeOK
<1> QED BY <1>1, <1>2, <1>3, TypeCorrect, PTL DEF Spec

-----------------------------------------------------------------------------
LEMMA DisjointAdd ==
    ASSUME NEW S, NEW T, IsFiniteSet(S), IsFiniteSet(T), S \intersect T = {}
    PROVE  Cardinality(S \union T) = Cardinality(S) + Cardinality(T)
<1>1. Cardinality(S) \in Nat /\ Cardinality(T) \in Nat
  BY FS_CardinalityType
<1>2. Cardinality(S \union T) = Cardinality(S) + Cardinality(T) - 0
  BY FS_Union, FS_EmptySet
<1> QED BY <1>1, <1>2

(* Finite sets part[x], one for every name x, together.                     *)
Together(part, names) == UNION {part[x] : x \in names}

Disjoint(part, names) ==
    /\ IsFiniteSet(names)
    /\ \A x \in names : IsFiniteSet(part[x])
    /\ \A x, y \in names : x # y => part[x] \intersect part[y] = {}

LEMMA TogetherAdd ==
    ASSUME NEW names, NEW part, Disjoint(part, names)
    PROVE  /\ Cardinality(Together(part, names)) \in Nat
           /\ \A x \in names :
                 Cardinality(Together(part, names)) =
                     Cardinality(part[x]) + Cardinality(Together(part, names \ {x}))
<1>1. ASSUME NEW some \in SUBSET names
      PROVE  IsFiniteSet(Together(part, some))
  <2> DEFINE image == {part[x] : x \in some}
             f == [x \in some |-> part[x]]
  <2>1. IsFiniteSet(some)
    BY FS_Subset DEF Disjoint
  <2>2. f \in Surjection(some, image)
    BY DEF Surjection
  <2>3. IsFiniteSet(image)
    BY <2>1, <2>2, FS_Surjection
  <2>4. \A T \in image : IsFiniteSet(T)
    BY DEF Disjoint
  <2> QED BY <2>3, <2>4, FS_UNION DEF Together
<1>2. ASSUME NEW x \in names
      PROVE  Cardinality(Together(part, names)) =
                 Cardinality(part[x]) + Cardinality(Together(part, names \ {x}))
  <2> DEFINE rest == Together(part, names \ {x})
  <2>1. Together(part, names) = part[x] \union rest
    BY DEF Together
  <2>2. part[x] \intersect rest = {}
    BY DEF Together, Disjoint
  <2>3. IsFiniteSet(part[x]) /\ IsFiniteSet(rest)
    BY <1>1 DEF Disjoint
  <2> HIDE DEF rest
  <2> QED BY <2>1, <2>2, <2>3, DisjointAdd DEF rest
<1> QED BY <1>1, <1>2, FS_CardinalityType

(* The equation by which SumFunctionOnSet sums.                             *)
Sums(sum, amount, set) ==
    sum = [s \in SUBSET set |->
              IF s = {} THEN 0
              ELSE amount[CHOOSE x \in s : TRUE] + sum[s \ {CHOOSE x \in s : TRUE}]]

(* The sum of the sizes of disjoint sets is the size of their union: it     *)
(* does not depend on the order in which they are taken.                    *)
LEMMA SumOfSizes ==
    ASSUME NEW names, NEW part, Disjoint(part, names),
           NEW size, \A x \in names : size[x] = Cardinality(part[x])
    PROVE  SumFunctionOnSet(size, names) = Cardinality(Together(part, names))
<1> DEFINE count == [s \in SUBSET names |-> Cardinality(Together(part, s))]
           sum == CHOOSE f : Sums(f, size, names)
<1>1. \A s \in SUBSET names : Disjoint(part, s)
  BY FS_Subset DEF Disjoint
<1>2. ASSUME NEW s \in SUBSET names, NEW x \in s
      PROVE  count[s] = size[x] + count[s \ {x}]
  BY <1>1, TogetherAdd
<1>3. count[{}] = 0
  BY FS_EmptySet DEF Together
<1>4. Sums(count, size, names)
  <2>1. \A s \in SUBSET names : s # {} => (CHOOSE x \in s : TRUE) \in s
    OBVIOUS
  <2>2. \A s \in SUBSET names :
           count[s] = IF s = {} THEN 0
                      ELSE size[CHOOSE x \in s : TRUE] + count[s \ {CHOOSE x \in s : TRUE}]
    BY <1>2, <1>3, <2>1
  <2> QED BY <2>2 DEF Sums
<1>5. Sums(sum, size, names)
  BY <1>4
<1>6. SumFunctionOnSet(size, names) = sum[names]
  BY Zenon DEF SumFunctionOnSet, FoldFunctionOnSet, MapThenFoldSet, Sums
<1> HIDE DEF count, sum
<1>7. sum[names] = count[names]
  <2> DEFINE wrong == {s \in SUBSET names : sum[s] # count[s]}
  <2>1. SUFFICES ASSUME wrong # {}
                 PROVE  FALSE
    OBVIOUS
  <2>2. wrong \subseteq FiniteSubsetsOf(names)
    BY <1>1 DEF FiniteSubsetsOf, Disjoint
  <2>3. PICK s \in wrong : \A t \in wrong : ~(<<t, s>> \in StrictSubsetOrdering(names))
    BY <2>1, <2>2, FS_StrictSubsetOrderingWellFounded, WFMin
  <2>4. CASE s = {}
    BY <1>3, <1>5, <2>4 DEF Sums
  <2>5. CASE s # {}
    <3> DEFINE x == CHOOSE x \in s : TRUE
    <3>1. x \in s
      BY <2>5
    <3>2. sum[s] = size[x] + sum[s \ {x}]
      BY <1>5, <2>5 DEF Sums
    <3> HIDE DEF x
    <3>3. <<s \ {x}, s>> \in StrictSubsetOrdering(names)
      BY <3>1 DEF StrictSubsetOrdering
    <3>4. sum[s \ {x}] = count[s \ {x}]
      BY <2>3, <3>3
    <3> QED BY <1>2, <3>1, <3>2, <3>4
  <2> QED BY <2>4, <2>5
<1> QED BY <1>6, <1>7 DEF count

(* Every member of a set adds its amount to the sum, a natural number.      *)
LEMMA SumAdds ==
    ASSUME NEW set, IsFiniteSet(set), NEW amount, \A x \in set : amount[x] \in Nat
    PROVE  /\ SumFunctionOnSet(amount, set) \in Nat
           /\ \A x \in set : SumFunctionOnSet(amount, set) =
                                 amount[x] + SumFunctionOnSet(amount, set \ {x})
           /\ set = {} => SumFunctionOnSet(amount, set) = 0
<1> DEFINE units == [x \in set |-> {x} \X (1..amount[x])]
<1>1. ASSUME NEW x \in set
      PROVE  IsFiniteSet(units[x]) /\ Cardinality(units[x]) = amount[x]
  <2>1. IsFiniteSet(1..amount[x]) /\ Cardinality(1..amount[x]) = amount[x]
    BY FS_Interval
  <2>2. IsFiniteSet({x}) /\ Cardinality({x}) = 1
    BY FS_Singleton
  <2>3. IsFiniteSet(units[x]) /\ Cardinality(units[x]) = 1 * amount[x]
    BY <2>1, <2>2, FS_Product
  <2> QED BY <2>3
<1>2. \A x, y \in set : x # y => units[x] \intersect units[y] = {}
  OBVIOUS
<1> HIDE DEF units
<1>3. \A s \in SUBSET set : Disjoint(units, s)
  BY <1>1, <1>2, FS_Subset DEF Disjoint
<1>4. \A s \in SUBSET set : SumFunctionOnSet(amount, s) = Cardinality(Together(units, s))
  BY <1>1, <1>3, SumOfSizes
<1>5. Together(units, {}) = {}
  BY DEF Together
<1> QED BY <1>1, <1>3, <1>4, <1>5, TogetherAdd, FS_EmptySet
=============================================================================
