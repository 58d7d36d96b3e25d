------------------------- MODULE SharedCacheProofs -------------------------
(***************************************************************************)
(* What the instances on one Redis keep, for any number of instances,       *)
(* requests, keys and pages, whatever commands fail and instances crash.    *)
(***************************************************************************)
EXTENDS SharedCache, TLAPS

(* A step of one request, a command of its at the server included.          *)
RequestStep(r) ==
    \/ Arrive(r) \/ ServerGet(r) \/ GetFails(r)
    \/ Hit(r) \/ Claim(r) \/ Join(r)
    \/ UpstreamReplies(r) \/ UpstreamFails(r) \/ StreamBreaks(r)
    \/ ServerSet(r) \/ SetLost(r) \/ Stored(r) \/ StoreFails(r)
    \/ Share(r) \/ Retry(r) \/ CancelledWith(r) \/ Cancel(r)

(* The other steps, but for a crash: they leave every request alone.        *)
StoreStep ==
    \/ \E i \in Instances : BeginFlush(i)
    \/ \E n \in Flushes : ScanPage(n) \/ DeleteFound(n) \/ FlushFails(n)
    \/ \E k \in Keys : Remove(k)

LEMMA NextCases ==
    ASSUME [Next]_vars
    PROVE  \/ \E r \in Tasks : RequestStep(r)
           \/ StoreStep
           \/ \E i \in Instances : Crash(i)
           \/ UNCHANGED vars
BY DEF Next, RequestStep, StoreStep

(* A flush, or the loss of an entry, leaves every request alone, and adds   *)
(* nothing to the server.                                                   *)
LEMMA StoreStepSpares ==
    ASSUME TypeOK, StoreStep
    PROVE  /\ UNCHANGED <<sent, pc, req, seen, inflight, fut, waits, answer, asked, since>>
           /\ \A k \in Keys : redis'[k] = redis[k] \/ redis'[k] = NoResponse
<1>1. CASE \E i \in Instances : BeginFlush(i)
  BY <1>1 DEF BeginFlush, requests, flights
<1>2. ASSUME NEW n \in Flushes, ScanPage(n) \/ DeleteFound(n) \/ FlushFails(n)
      PROVE  /\ UNCHANGED requests
             /\ \A k \in Keys : redis'[k] = redis[k] \/ redis'[k] = NoResponse
  BY <1>2 DEF ScanPage, DeleteFound, FlushFails
<1>3. CASE \E k \in Keys : Remove(k)
  BY <1>3 DEF Remove, requests, flights, TypeOK
<1> QED BY <1>1, <1>2, <1>3 DEF StoreStep, requests, flights

-----------------------------------------------------------------------------
LEMMA TypeStep == TypeOK /\ [Next]_vars => TypeOK'
<1> SUFFICES ASSUME TypeOK, [Next]_vars
             PROVE  TypeOK'
  OBVIOUS
<1> USE SharedAssumption DEF TypeOK, Phases, Active, Owning, Served, Ended, Flushes
<1>1. ASSUME NEW r \in Tasks, RequestStep(r)
      PROVE  TypeOK'
  <2>1. CASE Arrive(r)
    BY <2>1 DEF Arrive, Goto, sweep, flights
  <2>2. CASE ServerGet(r)
    BY <2>2 DEF ServerGet, Goto, sweep, flights
  <2>3. CASE GetFails(r)
    BY <2>3 DEF GetFails, Goto, sweep, flights
  <2>4. CASE Hit(r)
    BY <2>4 DEF Hit, Serve, Goto, sweep, flights
  <2>5. CASE Join(r)
    <3>1. inflight[At[r]][req[r]] # NoTask => inflight[At[r]][req[r]] \in Tasks
      OBVIOUS
    <3>2. /\ inflight[At[r]][req[r]] \in Tasks
          /\ \/ Goto(r, "cancelled") /\ UNCHANGED waits
             \/ Goto(r, "waiting") /\ waits' = [waits EXCEPT ![r] = inflight[At[r]][req[r]]]
          /\ UNCHANGED <<redis, sent, req, seen, inflight, fut, answer, sweep, crashes, asked, since>>
      BY <2>5, <3>1 DEF Join
    <3>3. CASE Goto(r, "cancelled") /\ UNCHANGED waits
      BY <3>2, <3>3 DEF Goto, sweep
    <3>4. CASE Goto(r, "waiting") /\ waits' = [waits EXCEPT ![r] = inflight[At[r]][req[r]]]
      BY <3>2, <3>4 DEF Goto, sweep
    <3> QED BY <3>2, <3>3, <3>4
  <2>6. CASE Share(r)
    BY <2>6 DEF Share, Serve, Goto, LetGo, sweep
  <2>7. CASE Retry(r)
    BY <2>7 DEF Retry, Goto, LetGo, sweep
  <2>16. CASE CancelledWith(r)
    BY <2>16 DEF CancelledWith, Goto, LetGo, sweep
  <2>8. CASE UpstreamReplies(r)
    BY <2>8 DEF UpstreamReplies, Goto, sweep, flights
  <2>9. CASE UpstreamFails(r)
    BY <2>9 DEF UpstreamFails, Goto, Settle, Unregister, sweep
  <2>10. CASE ServerSet(r)
    BY <2>10 DEF ServerSet, sweep, flights
  <2>11. CASE SetLost(r)
    BY <2>11 DEF SetLost, sweep, flights
  <2>12. CASE Stored(r)
    BY <2>12 DEF Stored, Serve, Goto, Settle, Unregister, sweep
  <2>13. CASE StoreFails(r)
    BY <2>13 DEF StoreFails, Goto, Unregister, sweep
  <2>17. CASE StreamBreaks(r)
    BY <2>17 DEF StreamBreaks, Goto, Unregister, sweep
  <2>14. CASE Claim(r)
    <3>1. [key |-> req[r], epoch |-> flushes] \in Response
      BY DEF Response
    <3> QED
      BY <2>14, <3>1 DEF Claim, Goto, sweep
  <2>15. CASE Cancel(r)
    <3>1. pc' \in [Tasks -> Phases] /\ waits' \in [Tasks -> Tasks \union {NoTask}]
          /\ seen' \in [Tasks -> Response \union {NoResponse}]
      BY <2>15 DEF Cancel, Goto, LetGo
    <3>2. fut' \in [Tasks -> {"none", "pending", "result", "error", "cancelled"}]
      <4>1. CASE pc[r] = "waiting"
        <5>1. fut' = [fut EXCEPT ![waits[r]] = IF @ = "pending" THEN "cancelled" ELSE @]
          BY <2>15, <4>1 DEF Cancel, Settle
        <5> QED BY <5>1
      <4>2. CASE pc[r] # "waiting"
        BY <2>15, <4>2 DEF Cancel
      <4> QED BY <4>1, <4>2
    <3>3. inflight' \in [Instances -> [Keys -> Tasks \union {NoTask}]]
      <4>1. CASE pc[r] \in Owning
        <5>1. inflight' = [inflight EXCEPT ![At[r]][req[r]] = NoTask]
          BY <2>15, <4>1 DEF Cancel, Unregister
        <5> QED BY <5>1
      <4>2. CASE pc[r] \notin Owning
        BY <2>15, <4>2 DEF Cancel
      <4> QED BY <4>1, <4>2
    <3>4. \A t \in Tasks : pc'[t] = "waiting" => waits'[t] \in Tasks
      BY <2>15 DEF Cancel, Goto, LetGo
    <3>5. UNCHANGED <<redis, sent, req, answer, sweeper, page, found, flushes, done, raced,
                      crashes, asked, since>>
      BY <2>15 DEF Cancel, sweep
    <3> QED BY <3>1, <3>2, <3>3, <3>4, <3>5
  <2> QED
    BY <1>1, <2>1, <2>2, <2>3, <2>4, <2>5, <2>6, <2>7, <2>8, <2>9, <2>10, <2>11, <2>12,
       <2>13, <2>14, <2>15, <2>16, <2>17 DEF RequestStep
<1>2. CASE StoreStep
  <2>1. ASSUME NEW i \in Instances, BeginFlush(i)
        PROVE  TypeOK'
    BY <2>1 DEF BeginFlush, requests, flights
  <2>2. ASSUME NEW n \in Flushes, ScanPage(n)
        PROVE  TypeOK'
    BY <2>2 DEF ScanPage, Listed, requests, flights
  <2>3. ASSUME NEW n \in Flushes, DeleteFound(n)
        PROVE  TypeOK'
    BY <2>3 DEF DeleteFound, Stop, requests, flights
  <2>5. ASSUME NEW n \in Flushes, FlushFails(n)
        PROVE  TypeOK'
    BY <2>5 DEF FlushFails, Stop, requests, flights
  <2>4. ASSUME NEW k \in Keys, Remove(k)
        PROVE  TypeOK'
    BY <2>4 DEF Remove, requests, sweep, flights
  <2> QED
    BY <1>2, <2>1, <2>2, <2>3, <2>4, <2>5 DEF StoreStep
<1>3. ASSUME NEW i \in Instances, Crash(i)
      PROVE  TypeOK'
  BY <1>3 DEF Crash, Stop
<1>4. CASE UNCHANGED vars
  BY <1>4 DEF vars, flights, sweep
<1> QED
  BY <1>1, <1>2, <1>3, <1>4, NextCases

(* Every reachable state has the types of TypeOK.                           *)
THEOREM TypeCorrect == Spec => []TypeOK
<1>1. Init => TypeOK
  BY SharedAssumption DEF Init, TypeOK, Phases, Flushes
<1> QED
  BY <1>1, TypeStep, PTL DEF Spec

-----------------------------------------------------------------------------
LEMMA FlightStep == TypeOK /\ OneCallPerKey /\ [Next]_vars => OneCallPerKey'
<1> SUFFICES ASSUME TypeOK, OneCallPerKey, [Next]_vars
             PROVE  OneCallPerKey'
  OBVIOUS
<1> USE SharedAssumption DEF TypeOK, OneCallPerKey, Phases, Active, Owning, Served, Ended
<1>1. ASSUME NEW r \in Tasks, RequestStep(r)
      PROVE  OneCallPerKey'
  <2>1. CASE Claim(r)
    BY <2>1 DEF Claim, Goto
  <2>2. CASE UpstreamFails(r) \/ StreamBreaks(r) \/ Stored(r) \/ StoreFails(r)
             \/ (Cancel(r) /\ pc[r] \in Owning)
    <3>1. UNCHANGED req /\ Unregister(r) /\ pc[r] \in Owning
      BY <2>2 DEF UpstreamFails, StreamBreaks, Stored, StoreFails, Cancel
    <3>2. \E over \in Ended : Goto(r, over)
      BY <2>2 DEF UpstreamFails, StreamBreaks, Stored, StoreFails, Cancel, Serve
    <3>3. \A i \in Instances, k \in Keys :
            inflight'[i][k] = IF i = At[r] /\ k = req[r] THEN NoTask ELSE inflight[i][k]
      BY <3>1 DEF Unregister
    <3>4. \A t \in Tasks : t # r => pc'[t] = pc[t]
      BY <3>2 DEF Goto
    <3>5. pc'[r] \notin Owning
      BY <3>2 DEF Goto
    <3>6. ASSUME NEW i \in Instances, NEW k \in Keys, NEW t \in Tasks
          PROVE  inflight'[i][k] = t <=> At[t] = i /\ req[t] = k /\ pc'[t] \in Owning
      <4>1. inflight[i][k] = t <=> At[t] = i /\ req[t] = k /\ pc[t] \in Owning
        OBVIOUS
      <4>2. CASE i = At[r] /\ k = req[r]
        \* r held the key, so nobody else owned it.
        <5>1. inflight[i][k] = r /\ inflight'[i][k] = NoTask
          BY <3>1, <3>3, <4>2
        <5> QED
          BY <3>4, <3>5, <4>1, <5>1
      <4>3. CASE ~(i = At[r] /\ k = req[r])
        BY <3>3, <3>4, <3>5, <4>1, <4>3
      <4> QED
        BY <4>2, <4>3
    <3> QED
      BY <3>1, <3>6
  <2>3. CASE Arrive(r) \/ ServerGet(r) \/ GetFails(r) \/ Hit(r) \/ Join(r) \/ Share(r)
             \/ Retry(r) \/ CancelledWith(r) \/ (Cancel(r) /\ pc[r] \notin Owning)
    BY <2>3 DEF Arrive, ServerGet, GetFails, Hit, Join, Share, Retry, CancelledWith, Cancel,
                Serve, Goto, flights
  <2>4. CASE UpstreamReplies(r) \/ ServerSet(r) \/ SetLost(r)
    BY <2>4 DEF UpstreamReplies, ServerSet, SetLost, Goto, flights
  <2> QED
    BY <1>1, <2>1, <2>2, <2>3, <2>4 DEF RequestStep
<1>2. CASE StoreStep
  BY <1>2, StoreStepSpares
<1>3. ASSUME NEW i \in Instances, Crash(i)
      PROVE  OneCallPerKey'
  BY <1>3 DEF Crash
<1>4. CASE UNCHANGED vars
  BY <1>4 DEF vars, flights
<1> QED
  BY <1>1, <1>2, <1>3, <1>4, NextCases

(* On every instance one live request at most calls for a key, and its      *)
(* future is the one that is registered, through crashes, restarts and      *)
(* failing commands.                                                        *)
THEOREM SingleFlight == Spec => []OneCallPerKey
<1>1. Init => OneCallPerKey
  BY SharedAssumption DEF Init, OneCallPerKey, Owning
<1> QED
  BY <1>1, FlightStep, TypeCorrect, PTL DEF Spec

-----------------------------------------------------------------------------
(* The future of a call that is not over is pending, unless a waiter's      *)
(* cancellation has cancelled it: what a request joins is not settled yet.  *)
OwnersPend == \A r \in Tasks : pc[r] \in Owning => fut[r] \in {"pending", "cancelled"}

LEMMA FateStep ==
    ASSUME TypeOK, OneCallPerKey, OwnersPend, WaitersShareFate, [Next]_vars
    PROVE  OwnersPend' /\ WaitersShareFate'
<1> USE SharedAssumption
    DEF TypeOK, OwnersPend, WaitersShareFate, Phases, Active, Owning, Served, Ended
<1>1. ASSUME NEW r \in Tasks, RequestStep(r)
      PROVE  OwnersPend' /\ WaitersShareFate'
  <2>1. CASE Join(r)
    <3>1. inflight[At[r]][req[r]] \in Tasks
      BY <2>1 DEF Join
    <3>2. LET owner == inflight[At[r]][req[r]] IN
            At[owner] = At[r] /\ req[owner] = req[r] /\ pc[owner] \in Owning
      BY <3>1 DEF OneCallPerKey
    <3>3. /\ UNCHANGED <<req, fut>>
          /\ pc[r] = "got"
      BY <2>1 DEF Join
    <3>4. CASE /\ pc' = [pc EXCEPT ![r] = "waiting"]
               /\ waits' = [waits EXCEPT ![r] = inflight[At[r]][req[r]]]
               /\ fut[inflight[At[r]][req[r]]] # "cancelled"
      <4>1. fut[inflight[At[r]][req[r]]] = "pending" /\ inflight[At[r]][req[r]] # r
        BY <3>1, <3>2, <3>3, <3>4
      <4>2. OwnersPend'
        BY <3>3, <3>4
      <4>3. WaitersShareFate'
        BY <3>1, <3>2, <3>3, <3>4, <4>1
      <4> QED BY <4>2, <4>3
    <3>5. CASE pc' = [pc EXCEPT ![r] = "cancelled"] /\ UNCHANGED waits
      BY <3>3, <3>5
    <3> QED
      BY <2>1, <3>4, <3>5 DEF Join, Goto
  <2>2. CASE Claim(r)
    BY <2>2 DEF Claim, Goto
  <2>3. CASE UpstreamFails(r)
    BY <2>3 DEF UpstreamFails, Goto, Settle
  <2>4. CASE Stored(r)
    BY <2>4 DEF Stored, Serve, Goto, Settle
  <2>5. CASE StoreFails(r)
    BY <2>5 DEF StoreFails, Goto
  <2>16. CASE StreamBreaks(r)
    BY <2>16 DEF StreamBreaks, Goto
  <2>6. CASE Arrive(r)
    BY <2>6 DEF Arrive, Goto, flights
  <2>7. CASE ServerGet(r)
    BY <2>7 DEF ServerGet, Goto, flights
  <2>8. CASE GetFails(r)
    BY <2>8 DEF GetFails, Goto, flights
  <2>9. CASE UpstreamReplies(r)
    BY <2>9 DEF UpstreamReplies, Goto, flights
  <2>10. CASE Hit(r)
    BY <2>10 DEF Hit, Serve, Goto, flights
  <2>11. CASE Share(r)
    BY <2>11 DEF Share, Serve, Goto, LetGo
  <2>12. CASE Retry(r)
    BY <2>12 DEF Retry, Goto, LetGo
  <2>17. CASE CancelledWith(r)
    BY <2>17 DEF CancelledWith, Goto, LetGo
  <2>13. CASE ServerSet(r)
    BY <2>13 DEF ServerSet, flights
  <2>14. CASE SetLost(r)
    BY <2>14 DEF SetLost, flights
  <2>15. CASE Cancel(r)
    <3>1. CASE pc[r] = "waiting"
      <4>1. /\ UNCHANGED req
            /\ \A t \in Tasks : pc'[t] = IF t = r THEN "cancelled" ELSE pc[t]
            /\ \A t \in Tasks : t # r => waits'[t] = waits[t]
        BY <2>15 DEF Cancel, Goto, LetGo
      <4>2. \A t \in Tasks : fut'[t] = IF t = waits[r] /\ fut[t] = "pending" THEN "cancelled" ELSE fut[t]
        BY <2>15, <3>1 DEF Cancel, Settle
      <4>3. OwnersPend'
        BY <4>1, <4>2
      <4>4. ASSUME NEW t \in Tasks, pc'[t] = "waiting"
            PROVE  pc[t] = "waiting" /\ t # r /\ waits'[t] = waits[t] /\ waits[t] \in Tasks
        BY <4>1, <4>4
      <4>5. ASSUME NEW t \in Tasks, pc'[t] = "waiting"
            PROVE  LET owner == waits[t] IN
                   /\ owner \in Tasks
                   /\ At[owner] = At[t] /\ req[owner] = req[t]
                   /\ \/ fut'[owner] = "result" /\ pc'[owner] = "miss"
                      \/ fut'[owner] = "error" /\ pc'[owner] = "failed"
                      \/ /\ fut'[owner] = "pending"
                         /\ pc'[owner] \in Owning \union {"unstored", "broken", "cancelled"}
                      \/ fut'[owner] = "cancelled" /\ pc'[owner] \in (Owning \union Ended) \ {"lost"}
        <5>1. pc[t] = "waiting" /\ waits[t] \in Tasks
          BY <4>4, <4>5
        <5>2. waits[t] # r
          BY <3>1, <5>1
        <5>3. pc'[waits[t]] = pc[waits[t]]
          BY <4>1, <5>1, <5>2
        <5>4. CASE fut[waits[t]] = "pending"
          BY <4>2, <5>1, <5>3, <5>4
        <5>5. CASE fut[waits[t]] # "pending"
          BY <4>2, <5>1, <5>3, <5>5
        <5> QED BY <5>4, <5>5
      <4>6. WaitersShareFate'
        BY <4>1, <4>4, <4>5
      <4> QED BY <4>3, <4>6
    <3>2. CASE pc[r] # "waiting"
      BY <2>15, <3>2 DEF Cancel, Goto, LetGo
    <3> QED BY <3>1, <3>2
  <2> QED
    BY <1>1, <2>1, <2>2, <2>3, <2>4, <2>5, <2>6, <2>7, <2>8, <2>9, <2>10, <2>11, <2>12,
       <2>13, <2>14, <2>15, <2>16, <2>17 DEF RequestStep
<1>2. CASE StoreStep
  BY <1>2, StoreStepSpares
<1>3. ASSUME NEW i \in Instances, Crash(i)
      PROVE  OwnersPend' /\ WaitersShareFate'
  \* A waiter on another instance has its owner there too, untouched.
  BY <1>3 DEF Crash
<1>4. CASE UNCHANGED vars
  BY <1>4 DEF vars, flights
<1> QED
  BY <1>1, <1>2, <1>3, <1>4, NextCases

(* Whoever waits has its owner on the same instance, alive or ended by a    *)
(* settled future, but where a SET failed, a stream broke or was empty, or  *)
(* the owner was cancelled: these three leave waiters behind, no crash does *)
(* (pipeline.py:319-325).                                                   *)
THEOREM FateShared == Spec => []WaitersShareFate
<1>1. Init => OwnersPend /\ WaitersShareFate
  BY DEF Init, OwnersPend, WaitersShareFate, Owning
<1>2. /\ TypeOK /\ OneCallPerKey /\ OwnersPend /\ WaitersShareFate /\ [Next]_vars
      => OwnersPend' /\ WaitersShareFate'
  BY FateStep
<1> QED
  BY <1>1, <1>2, TypeCorrect, SingleFlight, PTL DEF Spec

-----------------------------------------------------------------------------
(* The parts of the inductive invariant behind StaleOnlyIfRaced.  What a    *)
(* call brings was asked for at a flush no later than the current one, and  *)
(* is raced once there is a later flush; each place that holds a response   *)
(* inherits that from where the response came from.                         *)
InFlight(r) == pc[r] \in Owning \/ r \in sent

CallsDated ==
    \A r \in Tasks :
        /\ since[r] <= done
        /\ InFlight(r) => /\ asked[r] \in Response
                          /\ asked[r].epoch < flushes => req[r] \in raced
        /\ pc[r] \in Owning => since[r] <= asked[r].epoch
        /\ pc[r] = "miss" => answer[r] = asked[r]

(* No entry is older than the last completed flush, nor, where a flush that *)
(* is under way has been, than that one, unless it was raced or is on its   *)
(* list of what to delete.                                                  *)
RedisDated ==
    \A k \in Keys : redis[k] # NoResponse /\ redis[k].epoch < done => k \in raced

ScanDated ==
    \A n \in Flushes :
        /\ sweeper[n] = NoInstance => page[n] = 1
        /\ \A p \in DOMAIN Pages : \A k \in Pages[p] :
              p < page[n] /\ redis[k] # NoResponse /\ redis[k].epoch < n
              => k \in found[n] \union raced

SeenDated ==
    \A r \in Tasks :
        pc[r] = "got" /\ seen[r] # NoResponse /\ seen[r].epoch < since[r] => req[r] \in raced

WaitersDated ==
    \A r \in Tasks :
        pc[r] = "waiting" =>
            /\ asked[waits[r]] \in Response
            /\ asked[waits[r]].epoch < since[r] => req[r] \in raced

DatedInv ==
    CallsDated /\ RedisDated /\ ScanDated /\ SeenDated /\ WaitersDated /\ StaleOnlyIfRaced

LEMMA DatedRequestStep ==
    ASSUME TypeOK, OneCallPerKey, WaitersShareFate, DatedInv,
           NEW r \in Tasks, RequestStep(r)
    PROVE  DatedInv'
<1> USE SharedAssumption
    DEF TypeOK, DatedInv, CallsDated, RedisDated, ScanDated, SeenDated, WaitersDated,
        StaleOnlyIfRaced, InFlight, Phases, Active, Owning, Served, Ended, Flushes
<1>1. CASE Arrive(r)
  <2>1. /\ pc[r] = "idle" /\ pc' = [pc EXCEPT ![r] = "getting"]
        /\ since' = [since EXCEPT ![r] = done]
        /\ UNCHANGED <<redis, sent, req, seen, waits, answer, sweeper, page, found, flushes, done,
                       raced, asked>>
    BY <1>1 DEF Arrive, Goto, sweep, flights
  <2>2. CallsDated'
    BY <2>1
  <2>3. RedisDated' /\ ScanDated'
    BY <2>1
  <2>4. SeenDated' /\ WaitersDated' /\ StaleOnlyIfRaced'
    BY <2>1
  <2> QED BY <2>2, <2>3, <2>4
<1>2. CASE ServerGet(r)
  BY <1>2 DEF ServerGet, Goto, sweep, flights, Response
<1>3. CASE GetFails(r)
  BY <1>3 DEF GetFails, Goto, sweep, flights
<1>4. CASE Hit(r)
  BY <1>4 DEF Hit, Serve, Goto, sweep, flights
<1>5. CASE Claim(r)
  <2>1. [key |-> req[r], epoch |-> flushes] \in Response
    BY DEF Response
  <2> QED
    BY <1>5, <2>1 DEF Claim, Goto, sweep
<1>6. CASE Join(r)
  <2>1. inflight[At[r]][req[r]] \in Tasks
    BY <1>6 DEF Join
  <2>2. LET owner == inflight[At[r]][req[r]] IN
          req[owner] = req[r] /\ pc[owner] \in Owning
    BY <2>1 DEF OneCallPerKey
  <2>3. /\ \/ pc' = [pc EXCEPT ![r] = "cancelled"] /\ UNCHANGED waits
           \/ /\ pc' = [pc EXCEPT ![r] = "waiting"]
              /\ waits' = [waits EXCEPT ![r] = inflight[At[r]][req[r]]]
        /\ UNCHANGED <<redis, sent, req, seen, answer, sweeper, page, found, flushes, done, raced,
                       asked, since>>
        /\ pc[r] = "got"
    BY <1>6 DEF Join, Goto, sweep
  <2>4. WaitersDated'
    BY <2>1, <2>2, <2>3 DEF Response
  <2>5. CallsDated' /\ SeenDated' /\ StaleOnlyIfRaced'
    BY <2>3
  <2>6. RedisDated' /\ ScanDated'
    BY <2>3
  <2> QED
    BY <2>4, <2>5, <2>6
<1>7. CASE UpstreamReplies(r)
  BY <1>7 DEF UpstreamReplies, Goto, sweep, flights
<1>8. CASE UpstreamFails(r)
  BY <1>8 DEF UpstreamFails, Goto, Settle, sweep
<1>9. CASE ServerSet(r)
  BY <1>9 DEF ServerSet, sweep, flights, Response
<1>10. CASE SetLost(r)
  BY <1>10 DEF SetLost, sweep, flights
<1>11. CASE Stored(r)
  BY <1>11 DEF Stored, Serve, Goto, Settle, sweep, Response
<1>12. CASE StoreFails(r)
  BY <1>12 DEF StoreFails, Goto, sweep
<1>16. CASE StreamBreaks(r)
  BY <1>16 DEF StreamBreaks, Goto, sweep
<1>13. CASE Share(r)
  <2>1. pc[waits[r]] = "miss" /\ waits[r] \in Tasks
    BY <1>13 DEF Share, WaitersShareFate
  <2> QED
    BY <1>13, <2>1 DEF Share, Serve, Goto, LetGo, sweep
<1>14. CASE Retry(r)
  BY <1>14 DEF Retry, Goto, LetGo, sweep
<1>17. CASE CancelledWith(r)
  BY <1>17 DEF CancelledWith, Goto, LetGo, sweep
<1>15. CASE Cancel(r)
  BY <1>15 DEF Cancel, Goto, LetGo, sweep
<1> QED
  BY <1>1, <1>2, <1>3, <1>4, <1>5, <1>6, <1>7, <1>8, <1>9, <1>10, <1>11, <1>12,
     <1>13, <1>14, <1>15, <1>16, <1>17 DEF RequestStep

LEMMA DatedStep ==
    ASSUME TypeOK, OneCallPerKey, WaitersShareFate, DatedInv, [Next]_vars
    PROVE  DatedInv'
<1> USE SharedAssumption
    DEF TypeOK, DatedInv, CallsDated, RedisDated, ScanDated, SeenDated, WaitersDated,
        StaleOnlyIfRaced, InFlight, Phases, Active, Owning, Served, Ended, Flushes
<1>1. ASSUME NEW i \in Instances, BeginFlush(i)
      PROVE  DatedInv'
  BY <1>1 DEF BeginFlush, requests, flights, Response
<1>2. ASSUME NEW n \in Flushes, ScanPage(n)
      PROVE  DatedInv'
  BY <1>2 DEF ScanPage, Listed, requests, flights
<1>3. ASSUME NEW n \in Flushes, DeleteFound(n)
      PROVE  DatedInv'
  <2>1. \A k \in Keys : \E p \in DOMAIN Pages : k \in Pages[p] /\ p < page[n]
    BY <1>3 DEF DeleteFound
  <2> QED
    BY <1>3, <2>1 DEF DeleteFound, Stop, requests, flights
<1>4. ASSUME NEW n \in Flushes, FlushFails(n)
      PROVE  DatedInv'
  BY <1>4 DEF FlushFails, Stop, requests, flights
<1>5. ASSUME NEW k \in Keys, Remove(k)
      PROVE  DatedInv'
  BY <1>5 DEF Remove, requests, sweep, flights
<1>6. ASSUME NEW i \in Instances, Crash(i)
      PROVE  DatedInv'
  BY <1>6 DEF Crash, Stop
<1>7. CASE UNCHANGED vars
  BY <1>7 DEF vars, sweep, flights
<1> QED
  BY <1>1, <1>2, <1>3, <1>4, <1>5, <1>6, <1>7, DatedRequestStep, NextCases DEF StoreStep

(* A flush that is over has reached every entry of before it: whoever       *)
(* arrives after it, on any instance, is served something older only where  *)
(* a call had not been stored when the flush began.                         *)
THEOREM FlushReaches == Spec => []StaleOnlyIfRaced
<1>1. Init => DatedInv
  BY SharedAssumption
     DEF Init, DatedInv, CallsDated, RedisDated, ScanDated, SeenDated, WaitersDated,
         StaleOnlyIfRaced, InFlight, Owning, Served, Flushes
<1>2. /\ TypeOK /\ OneCallPerKey /\ WaitersShareFate /\ DatedInv /\ [Next]_vars
      => DatedInv'
  BY DatedStep
<1>3. DatedInv => StaleOnlyIfRaced
  BY DEF DatedInv
<1> QED
  BY <1>1, <1>2, <1>3, TypeCorrect, SingleFlight, FateShared, PTL DEF Spec

-----------------------------------------------------------------------------
(* Where a response is on its way from the upstream to a caller it has come *)
(* whole and answers the request it is there for.                           *)
Good(resp, k) == resp \in Whole /\ resp.key = k

Calls ==
    \A r \in Tasks :
        /\ asked[r] # NoResponse =>
              asked[r].key = req[r] /\ pc[r] \in Owning \union (Ended \ {"exact", "shared"})
        /\ pc[r] \in Owning => asked[r] # NoResponse
        /\ r \in sent => asked[r] # NoResponse /\ pc[r] \in {"storing", "unstored", "cancelled", "lost"}

Stores == \A k \in Keys : redis[k] # NoResponse => Good(redis[k], k)

Replies == \A r \in Tasks : seen[r] # NoResponse => Good(seen[r], req[r])

Answers == \A r \in Tasks : pc[r] \in Served => Good(answer[r], req[r])

GoodInv == Calls /\ Stores /\ Replies /\ Answers

(* What has come whole stays so.                                            *)
Settled(r) == asked[r] # NoResponse /\ pc[r] \notin {"calling", "failed", "broken"}

LEMMA WholeGrows ==
    ASSUME \A t \in Tasks : Settled(t) => Settled(t)' /\ asked'[t] = asked[t]
    PROVE  Whole \subseteq Whole'
BY DEF Whole, Settled

LEMMA AskedIsWhole ==
    ASSUME NEW r \in Tasks, Settled(r)
    PROVE  asked[r] \in Whole
BY DEF Whole, Settled

LEMMA SettledStays ==
    ASSUME TypeOK, GoodInv, [Next]_vars
    PROVE  \A t \in Tasks : Settled(t) => Settled(t)' /\ asked'[t] = asked[t]
<1> USE DEF TypeOK, GoodInv, Calls, Settled, Phases, Active, Owning, Served, Ended
<1>1. ASSUME NEW r \in Tasks, RequestStep(r)
      PROVE  \A t \in Tasks : Settled(t) => Settled(t)' /\ asked'[t] = asked[t]
  <2>1. CASE Arrive(r) \/ ServerGet(r) \/ GetFails(r) \/ Hit(r) \/ Join(r) \/ Share(r)
             \/ Retry(r) \/ CancelledWith(r)
    BY <2>1 DEF Arrive, ServerGet, GetFails, Hit, Join, Share, Retry, CancelledWith, Serve, Goto
  <2>2. CASE Claim(r)
    BY <2>2 DEF Claim, Goto
  <2>3. CASE UpstreamReplies(r) \/ UpstreamFails(r) \/ StreamBreaks(r) \/ Cancel(r)
    BY <2>3 DEF UpstreamReplies, UpstreamFails, StreamBreaks, Cancel, Goto
  <2>4. CASE ServerSet(r) \/ SetLost(r) \/ Stored(r) \/ StoreFails(r)
    BY <2>4 DEF ServerSet, SetLost, Stored, StoreFails, Serve, Goto
  <2> QED BY <1>1, <2>1, <2>2, <2>3, <2>4 DEF RequestStep
<1>2. CASE StoreStep
  BY <1>2, StoreStepSpares
<1>3. ASSUME NEW i \in Instances, Crash(i)
      PROVE  \A t \in Tasks : Settled(t) => Settled(t)' /\ asked'[t] = asked[t]
  BY <1>3 DEF Crash
<1>4. CASE UNCHANGED vars
  BY <1>4 DEF vars
<1> QED BY <1>1, <1>2, <1>3, <1>4, NextCases

LEMMA GoodRequestStep ==
    ASSUME TypeOK, WaitersShareFate, GoodInv, Whole \subseteq Whole',
           NEW r \in Tasks, RequestStep(r)
    PROVE  GoodInv'
<1> USE SharedAssumption
    DEF TypeOK, GoodInv, Calls, Stores, Replies, Answers, Good, Phases, Active, Owning, Served, Ended
<1>1. CASE Arrive(r)
  BY <1>1 DEF Arrive, Goto
<1>2. CASE ServerGet(r)
  BY <1>2 DEF ServerGet, Goto
<1>3. CASE GetFails(r)
  BY <1>3 DEF GetFails, Goto
<1>4. CASE Hit(r)
  BY <1>4 DEF Hit, Serve, Goto
<1>5. CASE Claim(r)
  BY <1>5, NoResponseAssumption DEF Claim, Goto, Response
<1>6. CASE Join(r)
  <2>1. /\ \E over \in {"waiting", "cancelled"} : pc' = [pc EXCEPT ![r] = over]
        /\ UNCHANGED <<redis, sent, req, seen, answer, asked>>
        /\ pc[r] = "got"
    BY <1>6 DEF Join, Goto
  <2> QED BY <2>1
<1>7. CASE UpstreamReplies(r)
  BY <1>7 DEF UpstreamReplies, Goto
<1>8. CASE UpstreamFails(r)
  BY <1>8 DEF UpstreamFails, Goto
<1>9. CASE ServerSet(r)
  <2>1. asked[r] \in Whole
    BY <1>9, AskedIsWhole DEF ServerSet, Settled
  <2> QED BY <1>9, <2>1 DEF ServerSet
<1>10. CASE SetLost(r)
  BY <1>10 DEF SetLost
<1>11. CASE Stored(r)
  <2>1. asked[r] \in Whole
    BY <1>11, AskedIsWhole DEF Stored, Settled
  <2> QED BY <1>11, <2>1 DEF Stored, Serve, Goto
<1>12. CASE StoreFails(r)
  BY <1>12 DEF StoreFails, Goto
<1>15. CASE StreamBreaks(r)
  BY <1>15 DEF StreamBreaks, Goto
<1>13. CASE Share(r)
  <2>1. pc[waits[r]] = "miss" /\ waits[r] \in Tasks /\ req[waits[r]] = req[r]
    BY <1>13 DEF Share, WaitersShareFate
  <2> QED BY <1>13, <2>1 DEF Share, Serve, Goto
<1>14. CASE Retry(r)
  BY <1>14 DEF Retry, Goto
<1>16. CASE CancelledWith(r)
  BY <1>16 DEF CancelledWith, Goto
<1>17. CASE Cancel(r)
  BY <1>17 DEF Cancel, Goto
<1> QED
  BY <1>1, <1>2, <1>3, <1>4, <1>5, <1>6, <1>7, <1>8, <1>9, <1>10, <1>11, <1>12,
     <1>13, <1>14, <1>15, <1>16, <1>17 DEF RequestStep

LEMMA GoodStep ==
    ASSUME TypeOK, WaitersShareFate, GoodInv, [Next]_vars
    PROVE  GoodInv' /\ Whole \subseteq Whole'
<1>1. Whole \subseteq Whole'
  BY SettledStays, WholeGrows
<1> USE SharedAssumption
    DEF TypeOK, GoodInv, Calls, Stores, Replies, Answers, Good, Phases, Active, Owning, Served, Ended
<1>2. CASE StoreStep
  <2>1. Stores'
    BY <1>1, <1>2, StoreStepSpares
  <2> QED BY <1>1, <1>2, <2>1, StoreStepSpares
<1>3. ASSUME NEW i \in Instances, Crash(i)
      PROVE  GoodInv'
  BY <1>1, <1>3 DEF Crash
<1>4. CASE UNCHANGED vars
  BY <1>1, <1>4 DEF vars
<1> QED BY <1>1, <1>2, <1>3, <1>4, GoodRequestStep, NextCases

(* What a step of one request does for the service: it ends that request at *)
(* most, and serves it what is good.                                        *)
LEMMA OneRequestServes ==
    ASSUME TypeOK, TypeOK', GoodInv', Whole \subseteq Whole', UNCHANGED req,
           NEW r \in Tasks, pc[r] \notin Ended,
           \A t \in Tasks \ {r} : pc'[t] = pc[t] /\ answer'[t] = answer[t]
    PROVE  Service!Next
<1> DEFINE open == {t \in Tasks : pc[t] \notin Ended}
<1>1. Whole' \subseteq Response
  BY DEF TypeOK, Whole
<1>2. CASE pc'[r] \notin Served
  <2>1. Given' = Given
    <3>1. \A t \in Tasks : (IF pc'[t] \in Served THEN answer'[t] ELSE NoResponse)
                          = IF pc[t] \in Served THEN answer[t] ELSE NoResponse
      BY <1>2 DEF Ended
    <3> QED BY <3>1 DEF Given
  <2>2. open' = open \/ (r \in open /\ open' = open \ {r})
    OBVIOUS
  <2>3. UNCHANGED <<open, Given>> \/ (r \in open /\ Service!Drop(r))
    BY <2>1, <2>2 DEF Service!Drop
  <2> QED BY <1>1, <2>3 DEF Service!Next
<1>3. CASE pc'[r] \in Served
  <2>1. answer'[r] \in Whole' /\ answer'[r].key = req[r]
    BY <1>3 DEF GoodInv, Answers, Good
  <2>2. r \in open /\ open' = open \ {r}
    BY <1>3 DEF Ended
  <2>3. Given' = [Given EXCEPT ![r] = answer'[r]]
    <3>1. \A t \in Tasks : Given'[t] = IF t = r THEN answer'[r] ELSE Given[t]
      BY <1>3 DEF Given
    <3>2. Given \in [Tasks -> {Given[t] : t \in Tasks}] /\ DOMAIN Given' = Tasks
      BY DEF Given
    <3>3. Given' = [t \in Tasks |-> Given'[t]]
      BY DEF Given
    <3> QED BY <3>1, <3>2, <3>3
  <2>4. /\ answer'[r] \in Whole'
        /\ <<answer'[r], req[r]>> \in {pair \in Response \X Keys : pair[1].key = pair[2]}
    <3>1. answer'[r] \in Response /\ req[r] \in Keys
      BY <1>1, <2>1 DEF TypeOK
    <3>2. <<answer'[r], req[r]>> \in Response \X Keys
      BY <3>1
    <3> QED BY <2>1, <3>2
  <2>5. Service!Serve(r)
    BY <2>2, <2>3, <2>4 DEF Service!Serve
  <2> QED BY <1>1, <2>2, <2>5 DEF Service!Next
<1> QED BY <1>2, <1>3

LEMMA SharedServiceStep ==
    ASSUME TypeOK, TypeOK', GoodInv, GoodInv', Whole \subseteq Whole', [Next]_vars
    PROVE  [Service!Next]_<<req, {r \in Tasks : pc[r] \notin Ended}, Given, Whole>>
<1> DEFINE open == {t \in Tasks : pc[t] \notin Ended}
<1>1. Whole' \subseteq Response
  BY DEF TypeOK, Whole
<1>2. ASSUME UNCHANGED <<req, pc, answer>>
      PROVE  Service!Next
  <2>1. UNCHANGED <<open, Given>>
    BY <1>2 DEF Given
  <2> QED BY <1>1, <1>2, <2>1 DEF Service!Next
<1>3. ASSUME NEW r \in Tasks, RequestStep(r)
      PROVE  Service!Next
  <2>1. CASE ServerSet(r) \/ SetLost(r)
    BY <1>2, <2>1 DEF ServerSet, SetLost
  <2>2. CASE ~(ServerSet(r) \/ SetLost(r))
    <3>1. /\ UNCHANGED req
          /\ pc[r] \in Active \union {"idle"}
      BY <1>3, <2>2
         DEF RequestStep, Arrive, ServerGet, GetFails, Hit, Claim, Join, UpstreamReplies,
             UpstreamFails, StreamBreaks, Stored, StoreFails, Share, Retry, CancelledWith,
             Cancel, Active, Owning
    <3>2. \A t \in Tasks \ {r} : pc'[t] = pc[t] /\ answer'[t] = answer[t]
      BY <1>3, <2>2
         DEF RequestStep, Arrive, ServerGet, GetFails, Hit, Claim, Join, UpstreamReplies,
             UpstreamFails, StreamBreaks, Stored, StoreFails, Share, Retry, CancelledWith,
             Cancel, Serve, Goto, TypeOK
    <3>3. pc[r] \notin Ended
      BY <3>1 DEF Active, Owning, Ended, Served
    <3> QED BY <3>1, <3>2, <3>3, OneRequestServes
  <2> QED BY <2>1, <2>2
<1>4. CASE StoreStep
  BY <1>2, <1>4, StoreStepSpares
<1>5. ASSUME NEW i \in Instances, Crash(i)
      PROVE  Service!Next
  <2> DEFINE lost == {r \in Tasks : At[r] = i /\ pc[r] \in Active}
             here == {r \in Tasks : At[r] = i}
  <2>1. /\ UNCHANGED <<req, answer>>
        /\ \A r \in Tasks : pc'[r] = IF r \in lost THEN "lost" ELSE pc[r]
    BY <1>5 DEF Crash
  <2>2. "lost" \in Ended /\ "lost" \notin Served
    BY DEF Ended, Served
  <2>3. \A r \in lost : pc[r] \notin Ended /\ pc[r] \notin Served
    BY DEF Active, Owning, Ended, Served
  <2>4. open' = open \ lost
    BY <2>1, <2>2
  <2>5. lost \in SUBSET (here \intersect open)
    BY <2>3
  <2>6. Given' = Given
    <3>1. \A r \in Tasks : pc'[r] \in Served <=> pc[r] \in Served
      BY <2>1, <2>2, <2>3
    <3> QED BY <2>1, <3>1 DEF Given
  <2> HIDE DEF lost
  <2>7. Service!Lose(here)
    BY <2>4, <2>5, <2>6 DEF Service!Lose
  <2>8. here \in {{r \in Tasks : At[r] = j} : j \in Instances}
    OBVIOUS
  <2> HIDE DEF here
  <2> QED BY <1>1, <2>1, <2>7, <2>8 DEF Service!Next
<1>6. CASE UNCHANGED vars
  BY <1>2, <1>6 DEF vars
<1> QED BY <1>3, <1>4, <1>5, <1>6, NextCases

(* Any number of instances on one Redis keep together what one instance     *)
(* promises: whatever they serve came whole from a call of one of them and  *)
(* answers the very request, and a crash ends requests of its instance.     *)
THEOREM SharedServes == Spec => IsAnswerService
<1>1. Init => GoodInv /\ Service!Init
  <2> SUFFICES ASSUME Init
               PROVE  GoodInv /\ Service!Init
    OBVIOUS
  <2>1. {r \in Tasks : pc[r] \notin Ended} = Tasks
    BY DEF Init, Ended, Served
  <2>2. Given = [r \in Tasks |-> NoResponse] /\ Whole = {}
    BY DEF Init, Given, Whole, Served
  <2>3. GoodInv
    BY DEF Init, GoodInv, Calls, Stores, Replies, Answers, Owning, Served
  <2> QED BY <2>1, <2>2, <2>3 DEF Init, Service!Init
<1>2. TypeOK /\ WaitersShareFate /\ GoodInv /\ [Next]_vars => GoodInv' /\ Whole \subseteq Whole'
  BY GoodStep
<1>3. /\ TypeOK /\ TypeOK' /\ GoodInv /\ GoodInv' /\ Whole \subseteq Whole' /\ [Next]_vars
      => [Service!Next]_<<req, {r \in Tasks : pc[r] \notin Ended}, Given, Whole>>
  BY SharedServiceStep
<1> QED
  BY <1>1, <1>2, <1>3, TypeCorrect, FateShared, PTL DEF Spec, IsAnswerService, Service!Spec
=============================================================================
