------------------------ MODULE FusionAnswersProofs ------------------------
(***************************************************************************)
(* What requests are served, for every set of requests, keys and faults:    *)
(* the answer fits the request, and is out of date only after a race.       *)
(***************************************************************************)
EXTENDS FusionCacheProofs

USE DEF flights, caches, history, others, breaker

(* A response in a cache answers the request it is filed under, and is      *)
(* older than the last flush only if the call behind it was raced.          *)
Files(resp, k) ==
    resp # NoResponse =>
        /\ resp.key = k
        /\ resp.epoch < flushes => k \in raced

CachesFit ==
    /\ \A k \in Keys : Files(l1[k], k) /\ Files(l2[k], k)
    /\ \A k \in Keys : l2[k] # NoResponse => k \notin Streaming
    /\ ~EnableExact => \A k \in Keys : l1[k] = NoResponse
    /\ ~EnableSemantic => \A k \in Keys : l2[k] = NoResponse

(* What a call brings answers its request, and a settled call has ended     *)
(* with it.                                                                 *)
CallsFit ==
    \A r \in Tasks :
        /\ since[r] <= flushes
        /\ pc[r] \in Owning \union {"miss"} =>
              /\ asked[r] \in Response
              /\ asked[r].key = req[r]
              /\ since[r] <= asked[r].epoch
        /\ pc[r] \in Owning /\ asked[r].epoch < flushes => req[r] \in raced
        /\ pc[r] = "filling" => EnableSemantic /\ req[r] \notin Streaming
        /\ pc[r] \in {"filling", "miss"} => answer[r] = asked[r]
        /\ fut[r] = "result" => pc[r] = "miss"

(* A waiter awaits a call for its own key, which began after the last flush *)
(* it must not look behind, or was raced.                                   *)
WaitersFit ==
    \A r \in Tasks :
        pc[r] = "waiting" =>
            LET owner == waits[r] IN
            /\ owner \in Tasks
            /\ pc[owner] \in Owning \union {"miss", "failed", "cancelled"}
            /\ asked[owner] \in Response
            /\ asked[owner].key = req[r]
            /\ asked[owner].epoch < since[r] => req[r] \in raced

AnswerInv == CachesFit /\ CallsFit /\ WaitersFit /\ AnswersFit /\ StaleOnlyIfRaced

LEMMA MissFits ==
    ASSUME TypeOK, OneCallPerKey, AnswerInv, NEW r \in Tasks,
           pc[r] \in {"idle", "embedding", "waiting"}, Miss(r, req[r]),
           UNCHANGED <<req, caches, flushes, raced>>,
           \A t \in Tasks : t # r => since'[t] = since[t],
           since'[r] \in {since[r], flushes}
    PROVE  AnswerInv'
<1> USE NoResponseAssumption
    DEF TypeOK, AnswerInv, CachesFit, CallsFit, WaitersFit, AnswersFit, StaleOnlyIfRaced,
        Files, Owning, Served, Phases
<1>1. CASE Reject(r)
  BY <1>1 DEF Reject, Answer, Unawait
<1>2. CASE Claim(r, req[r])
  <2>1. [key |-> req[r], epoch |-> flushes] \in Response
    BY DEF Response
  <2> QED
    BY <1>2, <2>1 DEF Claim, Move, Unawait
<1>3. CASE Join(r, req[r])
  <2>1. inflight[req[r]] \in Tasks
    BY <1>3 DEF Join
  <2>2. req[inflight[req[r]]] = req[r] /\ pc[inflight[req[r]]] \in Owning
    BY <2>1 DEF OneCallPerKey
  <2>3. CASE fut[inflight[req[r]]] = "cancelled"
    BY <1>3, <2>3 DEF Join, Move, Unawait
  <2>4. CASE fut[inflight[req[r]]] # "cancelled"
    <3>1. /\ asked[inflight[req[r]]] \in Response
          /\ asked[inflight[req[r]]].key = req[r]
          /\ asked[inflight[req[r]]].epoch < since'[r] => req[r] \in raced
      BY <2>1, <2>2 DEF Response
    <3>2. /\ pc' = [pc EXCEPT ![r] = "waiting"]
          /\ waits' = [waits EXCEPT ![r] = inflight[req[r]]]
          /\ UNCHANGED <<answer, fut, asked>>
      BY <1>3, <2>4 DEF Join, Move
    <3> QED
      BY <2>1, <2>2, <3>1, <3>2
  <2> QED
    BY <2>3, <2>4
<1> QED
  BY <1>1, <1>2, <1>3 DEF Miss

LEMMA LookupFits ==
    ASSUME TypeOK, OneCallPerKey, AnswerInv, NEW r \in Tasks,
           pc[r] \in {"idle", "waiting"}, Lookup(r, req[r]),
           UNCHANGED <<req, caches, flushes, raced>>,
           \A t \in Tasks : t # r => since'[t] = since[t],
           since'[r] \in {since[r], flushes}
    PROVE  AnswerInv'
<1> USE NoResponseAssumption
    DEF TypeOK, AnswerInv, CachesFit, CallsFit, WaitersFit, AnswersFit, StaleOnlyIfRaced,
        Files, Owning, Served, Phases
<1>1. CASE Miss(r, req[r])
  BY <1>1, MissFits
<1>2. CASE EnableExact /\ l1[req[r]] # NoResponse
  <2>1. /\ pc' = [pc EXCEPT ![r] = "exact"]
        /\ answer' = [answer EXCEPT ![r] = l1[req[r]]]
        /\ waits' = [waits EXCEPT ![r] = NoTask]
        /\ UNCHANGED <<fut, asked>>
    BY <1>2 DEF Lookup, Answer, Unawait
  <2>2. CachesFit' /\ CallsFit' /\ WaitersFit'
    BY <2>1
  <2>3. AnswersFit' /\ StaleOnlyIfRaced'
    BY <1>2, <2>1 DEF Response
  <2> QED
    BY <2>2, <2>3
<1>3. CASE Move(r, "embedding") /\ Unawait(r) /\ UNCHANGED <<inflight, fut, asked>>
  BY <1>3 DEF Move, Unawait
<1> QED
  BY <1>1, <1>2, <1>3 DEF Lookup

(* The end of an owner's call, with or without a suspension for L2 before.  *)
LEMMA CompleteFits ==
    ASSUME TypeOK, AnswerInv, NEW r \in Tasks, pc[r] \in Owning, Complete(r, asked[r]),
           UNCHANGED <<req, history>>, CachesFit'
    PROVE  AnswerInv'
<1> USE NoResponseAssumption DEF TypeOK, AnswerInv, Owning, Phases
<1>1. /\ pc' = [pc EXCEPT ![r] = "miss"]
      /\ answer' = [answer EXCEPT ![r] = asked[r]]
      /\ fut' = [fut EXCEPT ![r] = IF @ = "pending" THEN "result" ELSE @]
      /\ UNCHANGED <<req, waits, history>>
  BY DEF Complete, Answer, Settle
<1>2. CallsFit'
  BY <1>1 DEF CallsFit
<1>3. WaitersFit'
  BY <1>1 DEF WaitersFit
<1>4. AnswersFit' /\ StaleOnlyIfRaced'
  BY <1>1 DEF CallsFit, AnswersFit, StaleOnlyIfRaced, Served, Response
<1> QED
  BY <1>2, <1>3, <1>4

LEMMA ProcessFits ==
    ASSUME TypeOK, AnswerInv, NEW r \in Tasks, pc[r] \in Owning, Process(r),
           UNCHANGED <<req, l2, history>>
    PROVE  AnswerInv'
<1>1. CachesFit'
  BY DEF TypeOK, AnswerInv, CachesFit, CallsFit, Files, Process, Owning
<1>2. CASE Complete(r, asked[r])
  BY <1>1, <1>2, CompleteFits
<1>3. CASE ~Complete(r, asked[r])
  <2>1. /\ EnableSemantic /\ req[r] \notin Streaming
        /\ pc' = [pc EXCEPT ![r] = "filling"]
        /\ answer' = [answer EXCEPT ![r] = asked[r]]
        /\ UNCHANGED <<req, inflight, fut, waits, history>>
    BY <1>3 DEF Process
  <2> USE <2>1 DEF TypeOK, AnswerInv, Owning, Phases
  <2>2. CallsFit'
    BY DEF CallsFit
  <2>3. WaitersFit'
    BY DEF WaitersFit
  <2>4. AnswersFit' /\ StaleOnlyIfRaced'
    BY DEF AnswersFit, StaleOnlyIfRaced, Served
  <2> QED
    BY <1>1, <2>2, <2>3, <2>4
<1> QED
  BY <1>2, <1>3

LEMMA AnswerStep ==
    ASSUME TypeOK, OneCallPerKey, AnswerInv, [Next]_vars
    PROVE  AnswerInv'
<1> USE CacheAssumption
<1>1. ASSUME NEW r \in Tasks, Arrive(r)
      PROVE  AnswerInv'
  BY <1>1, LookupFits DEF Arrive, TypeOK
<1>2. ASSUME NEW r \in Tasks, Retry(r)
      PROVE  AnswerInv'
  BY <1>2, LookupFits DEF Retry, TypeOK
<1>3. ASSUME NEW r \in Tasks, UpstreamReplies(r)
      PROVE  AnswerInv'
  <2>1. CASE req[r] \in Streaming
    BY <1>3, <2>1 DEF UpstreamReplies, Move, TypeOK, AnswerInv, CachesFit, CallsFit, WaitersFit,
                      AnswersFit, StaleOnlyIfRaced, Files, Owning, Served, Phases
  <2>2. CASE req[r] \notin Streaming
    BY <1>3, <2>2, ProcessFits DEF UpstreamReplies, Owning
  <2> QED
    BY <2>1, <2>2
<1>4. ASSUME NEW r \in Tasks, StreamEnds(r)
      PROVE  AnswerInv'
  BY <1>4, ProcessFits DEF StreamEnds, Owning
<1>5. ASSUME NEW r \in Tasks, Filled(r)
      PROVE  AnswerInv'
  <2>1. answer[r] = asked[r]
    BY <1>5 DEF Filled, AnswerInv, CallsFit
  <2>2. CachesFit'
    BY <1>5, <2>1 DEF Filled, TypeOK, AnswerInv, CachesFit, CallsFit, Files, Owning
  <2> QED
    BY <1>5, <2>1, <2>2, CompleteFits DEF Filled, Owning
<1> USE NoResponseAssumption
    DEF TypeOK, AnswerInv, CachesFit, CallsFit, WaitersFit, AnswersFit, StaleOnlyIfRaced,
        Files, Owning, Served, Phases
<1>6. ASSUME NEW r \in Tasks, Embedded(r)
      PROVE  AnswerInv'
  <2>1. CASE Miss(r, req[r])
    BY <1>6, <2>1, MissFits DEF Embedded
  <2>2. ASSUME NEW j \in Matches(req[r]), Answer(r, "semantic", l2[j], 0),
               UNCHANGED <<flights, asked>>
        PROVE  AnswerInv'
    <3>1. /\ j \in Keys /\ l2[j] # NoResponse /\ l2[j].key = j
          /\ <<j, req[r]>> \in Close /\ Settings[j] = Settings[req[r]]
          /\ req[r] \notin Streaming
      BY <2>2 DEF Matches
    <3>2. l2[j].epoch < since[r] => j \in raced
      BY <3>1 DEF Response
    <3>3. /\ pc' = [pc EXCEPT ![r] = "semantic"]
          /\ answer' = [answer EXCEPT ![r] = l2[j]]
          /\ UNCHANGED <<req, l1, l2, flushes, since, raced, fut, waits, asked>>
          /\ pc[r] = "embedding"
      BY <1>6, <2>2 DEF Embedded, Answer
    <3>4. CachesFit'
      BY <3>3
    <3>5. CallsFit'
      BY <3>3
    <3>6. WaitersFit'
      BY <3>3
    <3>7. AnswersFit'
      <4>1. ASSUME NEW t \in Tasks, t # r
            PROVE  pc'[t] = pc[t] /\ answer'[t] = answer[t] /\ req'[t] = req[t]
        BY <3>3, <4>1
      <4>2. pc'[r] = "semantic" /\ answer'[r] = l2[j] /\ req'[r] = req[r]
        BY <3>3
      <4> QED BY <3>1, <4>1, <4>2
    <3>8. StaleOnlyIfRaced'
      BY <3>1, <3>2, <3>3
    <3> QED
      BY <3>4, <3>5, <3>6, <3>7, <3>8
  <2> QED
    BY <1>6, <2>1, <2>2 DEF Embedded
<1>7. ASSUME NEW r \in Tasks, UpstreamFails(r)
      PROVE  AnswerInv'
  BY <1>7 DEF UpstreamFails, Move, Settle
<1>8. ASSUME NEW r \in Tasks, StreamBreaks(r)
      PROVE  AnswerInv'
  BY <1>8 DEF StreamBreaks, Move
<1>9. ASSUME NEW r \in Tasks, Share(r)
      PROVE  AnswerInv'
  BY <1>9 DEF Share, Answer, Unawait
<1>10. ASSUME NEW r \in Tasks, CancelledWith(r)
       PROVE  AnswerInv'
  BY <1>10 DEF CancelledWith, Move, Unawait
<1>11. ASSUME NEW r \in Tasks, Cancel(r)
       PROVE  AnswerInv'
  BY <1>11 DEF Cancel, Settle, Unawait
<1>12. ASSUME NEW k \in Keys, Expire(k) \/ Invalidate(k)
       PROVE  AnswerInv'
  BY <1>12 DEF Expire, Invalidate
<1>13. CASE InvalidateAll
  <2>1. \A r \in Tasks : pc[r] \in Owning => inflight[req[r]] = r
    BY DEF OneCallPerKey
  <2>2. \A r \in Tasks : pc[r] \in Owning => req[r] \in raced'
    BY <1>13, <2>1 DEF InvalidateAll
  <2> QED
    BY <1>13, <2>2 DEF InvalidateAll, Response
<1>14. CASE Tick \/ ReadStatus \/ UNCHANGED vars
  BY <1>14 DEF Tick, ReadStatus, vars
<1> QED
  BY <1>1, <1>2, <1>3, <1>4, <1>5, <1>6, <1>7, <1>8, <1>9, <1>10, <1>11, <1>12, <1>13, <1>14
     DEF Next, Progress, Environment

LEMMA AnswersHold == Spec => []AnswerInv
<1>1. Init => AnswerInv
  BY DEF Init, AnswerInv, CachesFit, CallsFit, WaitersFit, AnswersFit, StaleOnlyIfRaced, Files,
         Owning, Served
<1>2. TypeOK /\ OneCallPerKey /\ AnswerInv /\ [Next]_vars => AnswerInv'
  BY AnswerStep
<1> QED
  BY <1>1, <1>2, TypeCorrect, SingleFlight, PTL DEF Spec

(* Whatever layer serves a request, the answer is one to that request or,   *)
(* from L2, to one with the same settings.                                  *)
THEOREM ServedFits == Spec => []AnswersFit
<1>1. AnswerInv => AnswersFit
  BY DEF AnswerInv
<1> QED
  BY <1>1, AnswersHold, PTL

(* Only a call in flight during a flush can bring an answer of before it to *)
(* a request of after it.                                                   *)
THEOREM StaleMeansRaced == Spec => []StaleOnlyIfRaced
<1>1. AnswerInv => StaleOnlyIfRaced
  BY DEF AnswerInv
<1> QED
  BY <1>1, AnswersHold, PTL

-----------------------------------------------------------------------------
(* What the caches hold came whole.                                         *)
CachesWhole ==
    \A k \in Keys :
        /\ l1[k] # NoResponse => l1[k] \in Whole
        /\ l2[k] # NoResponse => l2[k] \in Whole

Came == {"filling", "miss", "cancelled"}

LEMMA WholeGrows ==
    ASSUME \A t \in Tasks : pc[t] \in Came => pc'[t] \in Came /\ asked'[t] = asked[t]
    PROVE  Whole \subseteq Whole'
BY DEF Whole, Came

LEMMA InWhole ==
    ASSUME NEW r \in Tasks, pc[r] \in Came, asked[r] # NoResponse
    PROVE  asked[r] \in Whole
BY DEF Whole, Came

(* A step of one task ends at most that one, and what it is served must be  *)
(* whole; AnswersFit says that it suits.                                    *)
LEMMA OneTaskServes ==
    ASSUME TypeOK, TypeOK', AnswersFit', NEW r \in Tasks, pc[r] \notin Ended, UNCHANGED req,
           \A t \in Tasks \ {r} : pc'[t] = pc[t] /\ answer'[t] = answer[t] /\ asked'[t] = asked[t],
           pc[r] \in Came => pc'[r] \in Came /\ asked'[r] = asked[r],
           pc'[r] \in Served => answer'[r] \in Whole'
    PROVE  Whole \subseteq Whole' /\ Service!Next
<1> DEFINE open == {t \in Tasks : pc[t] \notin Ended}
<1>1. Whole \subseteq Whole' /\ Whole' \subseteq Response
  <2>1. Whole \subseteq Whole'
    BY WholeGrows
  <2>2. Whole' \subseteq Response
    BY DEF TypeOK, Whole
  <2> QED BY <2>1, <2>2
<1>2. CASE pc'[r] \notin Ended
  <2>1. open' = open
    BY <1>2
  <2>2. Given' = Given
    BY <1>2 DEF Given, Ended
  <2> QED BY <1>1, <2>1, <2>2 DEF Service!Next
<1>3. CASE pc'[r] \in Ended
  <2>1. open' = open \ {r} /\ r \in open
    BY <1>3
  <2>2. CASE pc'[r] \notin Served
    <3>1. Given' = Given
      BY <2>2 DEF Given, Ended
    <3>2. Service!Drop(r)
      BY <2>1, <3>1 DEF Service!Drop
    <3> QED BY <1>1, <2>1, <3>2 DEF Service!Next
  <2>3. CASE pc'[r] \in Served
    <3>1. Given' = [Given EXCEPT ![r] = answer'[r]]
      BY <2>3 DEF Given, Ended
    <3>2. <<answer'[r], req[r]>> \in Suiting
      BY <1>1, <2>3, Zenon DEF AnswersFit, Suiting, TypeOK
    <3>3. Service!Serve(r)
      BY <2>1, <2>3, <3>1, <3>2 DEF Service!Serve
    <3> QED BY <1>1, <2>1, <3>3 DEF Service!Next
  <2> QED BY <2>2, <2>3
<1> QED BY <1>2, <1>3

(* A step that starts over serves from L1 or not at all.                    *)
LEMMA MissServes ==
    ASSUME TypeOK, NEW r \in Tasks, Miss(r, req[r])
    PROVE  /\ \A t \in Tasks \ {r} : pc'[t] = pc[t] /\ answer'[t] = answer[t] /\ asked'[t] = asked[t]
           /\ pc'[r] \notin Served
BY DEF Miss, Reject, Claim, Join, Answer, Move, TypeOK, Served

LEMMA LookupServes ==
    ASSUME TypeOK, AnswerInv, CachesWhole, NEW r \in Tasks, Lookup(r, req[r])
    PROVE  /\ \A t \in Tasks \ {r} : pc'[t] = pc[t] /\ answer'[t] = answer[t] /\ asked'[t] = asked[t]
           /\ pc'[r] \in Served => answer'[r] \in Whole
<1>1. CASE Miss(r, req[r])
  BY <1>1, MissServes
<1>2. CASE l1[req[r]] # NoResponse /\ Answer(r, "exact", l1[req[r]], 0) /\ UNCHANGED asked
  BY <1>2 DEF Answer, TypeOK, CachesWhole
<1>3. CASE Move(r, "embedding") /\ UNCHANGED asked
  BY <1>3 DEF Move, TypeOK, Served
<1> QED BY <1>1, <1>2, <1>3 DEF Lookup

(* The end of a call leaves its response whole, and is served nothing else. *)
LEMMA CallServes ==
    ASSUME TypeOK, AnswerInv, NEW r \in Tasks, pc[r] \in Owning, UNCHANGED asked,
           Process(r) \/ Complete(r, asked[r])
    PROVE  /\ \A t \in Tasks \ {r} : pc'[t] = pc[t] /\ answer'[t] = answer[t] /\ asked'[t] = asked[t]
           /\ pc'[r] \in {"filling", "miss"}
           /\ pc'[r] = "miss" => answer'[r] = asked[r]
           /\ asked'[r] \in Whole'
<1>1. /\ \A t \in Tasks \ {r} : pc'[t] = pc[t] /\ answer'[t] = answer[t] /\ asked'[t] = asked[t]
      /\ pc'[r] \in {"filling", "miss"}
      /\ pc'[r] = "miss" => answer'[r] = asked[r]
  BY DEF Process, Complete, Answer, TypeOK
<1>2. asked'[r] # NoResponse
  BY NoResponseAssumption DEF AnswerInv, CallsFit
<1>3. asked'[r] \in Whole'
  BY <1>1, <1>2 DEF Whole
<1> QED BY <1>1, <1>3

LEMMA ServiceStep ==
    ASSUME TypeOK, TypeOK', AnswerInv, AnswersFit', CachesWhole, [Next]_vars
    PROVE  CachesWhole' /\ [Service!Next]_<<req, {r \in Tasks : pc[r] \notin Ended}, Given, Whole>>
<1> DEFINE Kept == \A k \in Keys : l1'[k] \in {l1[k], NoResponse} /\ l2'[k] \in {l2[k], NoResponse}
<1>1. ASSUME Kept, Whole \subseteq Whole'
      PROVE  CachesWhole'
  BY <1>1 DEF CachesWhole
<1>2. ASSUME NEW r \in Tasks, Arrive(r) \/ Retry(r)
      PROVE  CachesWhole' /\ Service!Next
  <2>1. Lookup(r, req[r]) /\ pc[r] \notin Ended \union Came /\ UNCHANGED <<req, l1, l2>>
    BY <1>2 DEF Arrive, Retry, Ended, Served, Came
  <2>2. \A t \in Tasks : pc[t] \in Came => pc'[t] \in Came /\ asked'[t] = asked[t]
    BY <2>1, LookupServes
  <2>3. Whole \subseteq Whole'
    BY <2>2, WholeGrows
  <2> QED BY <1>1, <2>1, <2>3, LookupServes, OneTaskServes
<1>3. ASSUME NEW r \in Tasks, Embedded(r)
      PROVE  CachesWhole' /\ Service!Next
  <2>1. pc[r] \notin Ended \union Came /\ UNCHANGED <<req, l1, l2>>
    BY <1>3 DEF Embedded, Ended, Served, Came
  <2>2. /\ \A t \in Tasks \ {r} : pc'[t] = pc[t] /\ answer'[t] = answer[t] /\ asked'[t] = asked[t]
        /\ pc'[r] \in Served => answer'[r] \in Whole
    <3>1. CASE Miss(r, req[r])
      BY <3>1, MissServes
    <3>2. ASSUME NEW j \in Matches(req[r]), Answer(r, "semantic", l2[j], 0), UNCHANGED asked
          PROVE  /\ \A t \in Tasks \ {r} : pc'[t] = pc[t] /\ answer'[t] = answer[t] /\ asked'[t] = asked[t]
                 /\ pc'[r] \in Served => answer'[r] \in Whole
      BY <3>2 DEF Matches, Answer, TypeOK, CachesWhole
    <3> QED BY <1>3, <3>1, <3>2 DEF Embedded
  <2>3. \A t \in Tasks : pc[t] \in Came => pc'[t] \in Came /\ asked'[t] = asked[t]
    BY <2>1, <2>2
  <2>4. Whole \subseteq Whole'
    BY <2>3, WholeGrows
  <2> QED BY <1>1, <2>1, <2>2, <2>4, OneTaskServes
<1>4. ASSUME NEW r \in Tasks, pc[r] \in Owning, Process(r), UNCHANGED <<req, asked, l2>>
      PROVE  CachesWhole' /\ Service!Next
  <2>1. Whole \subseteq Whole' /\ Service!Next
    BY <1>4, CallServes, OneTaskServes DEF Owning, Ended, Served, Came
  <2>2. \A k \in Keys : l1'[k] \in {l1[k], asked[r]}
    BY <1>4 DEF Process, TypeOK
  <2>3. asked[r] \in Whole'
    BY <1>4, CallServes
  <2> QED BY <1>4, <2>1, <2>2, <2>3 DEF CachesWhole
<1>5. ASSUME NEW r \in Tasks, UpstreamReplies(r) \/ StreamEnds(r)
      PROVE  CachesWhole' /\ Service!Next
  <2>1. CASE Process(r)
    BY <1>4, <1>5, <2>1 DEF UpstreamReplies, StreamEnds, Owning
  <2>2. CASE pc[r] = "calling" /\ Move(r, "buffering") /\ UNCHANGED <<req, asked, l1, l2>>
    <3>1. Whole \subseteq Whole' /\ Service!Next
      BY <2>2, OneTaskServes DEF Move, TypeOK, Ended, Served, Came
    <3> QED BY <1>1, <2>2, <3>1
  <2> QED BY <1>5, <2>1, <2>2 DEF UpstreamReplies, StreamEnds
<1>6. ASSUME NEW r \in Tasks, Filled(r)
      PROVE  CachesWhole' /\ Service!Next
  <2>1. /\ answer[r] = asked[r] /\ pc[r] \in Owning /\ pc[r] \notin Ended
        /\ Complete(r, asked[r]) /\ UNCHANGED <<req, asked, l1>>
    BY <1>6 DEF Filled, AnswerInv, CallsFit, Owning, Ended, Served
  <2>2. /\ \A t \in Tasks \ {r} : pc'[t] = pc[t] /\ answer'[t] = answer[t] /\ asked'[t] = asked[t]
        /\ pc'[r] \in Came
        /\ answer'[r] \in Whole' /\ asked[r] \in Whole'
    <3>1. pc'[r] = "miss"
      BY <2>1 DEF Complete, Answer, TypeOK
    <3>2. asked' = asked
      BY <2>1
    <3> QED BY <2>1, <3>1, <3>2, CallServes DEF Came
  <2>3. Whole \subseteq Whole' /\ Service!Next
    BY <2>1, <2>2, OneTaskServes
  <2>4. \A k \in Keys : l2'[k] \in {l2[k], asked[r]}
    BY <1>6, <2>1 DEF Filled, TypeOK
  <2> QED BY <2>1, <2>2, <2>3, <2>4 DEF CachesWhole
<1>7. ASSUME NEW r \in Tasks, Share(r)
      PROVE  CachesWhole' /\ Service!Next
  <2>1. /\ waits[r] \in Tasks /\ pc[waits[r]] = "miss"
        /\ answer[waits[r]] = asked[waits[r]] /\ asked[waits[r]] # NoResponse
    BY <1>7, NoResponseAssumption DEF Share, AnswerInv, CallsFit, WaitersFit
  <2>2. answer[waits[r]] \in Whole
    BY <2>1, InWhole DEF Came
  <2>3. /\ \A t \in Tasks \ {r} : pc'[t] = pc[t] /\ answer'[t] = answer[t] /\ asked'[t] = asked[t]
        /\ pc[r] \notin Ended \union Came
        /\ answer'[r] \in Whole
        /\ UNCHANGED <<req, l1, l2>>
    BY <1>7, <2>2 DEF Share, Answer, TypeOK, Ended, Served, Came
  <2>4. \A t \in Tasks : pc[t] \in Came => pc'[t] \in Came /\ asked'[t] = asked[t]
    BY <2>3
  <2>5. Whole \subseteq Whole'
    BY <2>4, WholeGrows
  <2> QED BY <1>1, <2>3, <2>5, OneTaskServes
<1>8. ASSUME NEW r \in Tasks, UpstreamFails(r) \/ StreamBreaks(r) \/ CancelledWith(r) \/ Cancel(r)
      PROVE  CachesWhole' /\ Service!Next
  <2>1. /\ \A t \in Tasks \ {r} : pc'[t] = pc[t] /\ answer'[t] = answer[t] /\ asked'[t] = asked[t]
        /\ pc[r] \notin Ended
        /\ pc[r] \in Came => pc'[r] \in Came
        /\ pc'[r] \notin Served
        /\ UNCHANGED <<req, l1, l2, asked>>
    BY <1>8 DEF UpstreamFails, StreamBreaks, CancelledWith, Cancel, Move, TypeOK, Owning,
                Ended, Served, Came
  <2>2. Whole \subseteq Whole' /\ Service!Next
    BY <2>1, OneTaskServes
  <2> QED BY <1>1, <2>1, <2>2
<1>9. ASSUME Environment \/ UNCHANGED vars
      PROVE  CachesWhole' /\ UNCHANGED <<req, {r \in Tasks : pc[r] \notin Ended}, Given, Whole>>
  <2>1. UNCHANGED <<req, pc, answer, asked>>
    BY <1>9 DEF Environment, Expire, Invalidate, InvalidateAll, Tick, ReadStatus, vars
  <2>2. Whole' = Whole /\ Given' = Given
    BY <2>1 DEF Whole, Given
  <2>3. Kept
    BY <1>9 DEF Environment, Expire, Invalidate, InvalidateAll, Tick, ReadStatus, vars, TypeOK
  <2> QED BY <1>1, <2>1, <2>2, <2>3
<1> QED BY <1>2, <1>3, <1>5, <1>6, <1>7, <1>8, <1>9 DEF Next, Progress

(* The request path keeps what it promises its callers, under every         *)
(* configuration of the layers and every fault: what it serves suits the    *)
(* request, came whole from the upstream, and ends one request, once.       *)
THEOREM ServesAnswers == Spec => IsAnswerService
<1>1. Init => CachesWhole /\ Service!Init
  <2>1. ASSUME Init
        PROVE  CachesWhole /\ Service!Init
    <3>1. {r \in Tasks : pc[r] \notin Ended} = Tasks
      BY <2>1 DEF Init, Ended, Served
    <3>2. Given = [r \in Tasks |-> NoResponse]
      BY <2>1 DEF Init, Given, Served
    <3>3. Whole = {}
      BY <2>1 DEF Init, Whole
    <3> QED BY <2>1, <3>1, <3>2, <3>3 DEF Init, CachesWhole, Service!Init
  <2> QED BY <2>1
<1>2. TypeOK /\ TypeOK' /\ AnswerInv /\ AnswersFit' /\ CachesWhole /\ [Next]_vars =>
        CachesWhole' /\ [Service!Next]_<<req, {r \in Tasks : pc[r] \notin Ended}, Given, Whole>>
  BY ServiceStep
<1> QED
  BY <1>1, <1>2, TypeCorrect, AnswersHold, ServedFits, PTL DEF Spec, IsAnswerService, Service!Spec

=============================================================================
