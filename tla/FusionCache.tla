---------------------------- MODULE FusionCache ----------------------------
(***************************************************************************)
(* The request path of core/pipeline.py: FusionCache.chat_completion, the   *)
(* operations that race it (invalidate, invalidate_all, expiry, eviction,   *)
(* cache_status, task cancellation) and the breaker it asks.                *)
(*                                                                          *)
(* Each task is one asyncio task running one request on one event loop, on  *)
(* in-memory stores.  A step runs a task from one suspension point to the   *)
(* next: the embedding call, the upstream call, the next chunk of a stream, *)
(* and await existing.  Nothing else suspends: MemoryStore's coroutines     *)
(* contain no await, and no asyncio lock is held across one, so taking it   *)
(* never waits.                                                             *)
(***************************************************************************)
EXTENDS CircuitBreaker, FiniteSetsExt

CONSTANTS
    Tasks,           \* the requests of a run, each its own asyncio task
    Keys,            \* L1 keys: the canonical requests
    Streaming,       \* the keys with stream = True (the flag is in the key)
    Settings,        \* Settings[k]: all of k but its messages and prompt
    Close,           \* <<j, k>>: the embedding of j is over k's threshold
    EnableExact,     \* config.enable_exact
    EnableSemantic,  \* config.enable_semantic and embedder.enabled
    Faults,          \* what may fail: "upstream", "stream", "embed", "cancel"
    Saving,          \* Saving[k]: cost_saved_usd of the responses to k
    MaxFlushes,      \* bound: calls of invalidate_all
    NoTask, NoResponse

ASSUME CacheAssumption ==
    /\ NoTask \notin Tasks
    /\ Streaming \subseteq Keys
    /\ Close \subseteq Keys \X Keys
    /\ DOMAIN Settings = Keys
    /\ EnableExact \in BOOLEAN
    /\ EnableSemantic \in BOOLEAN
    /\ Faults \subseteq {"upstream", "stream", "embed", "cancel"}
    /\ Saving \in [Keys -> Nat]
    /\ MaxFlushes \in Nat

(* A response is told apart by the request it answers and by the number of  *)
(* flushes before its call: operators flush when the upstream model changes. *)
Response == [key : Keys, epoch : 0..MaxFlushes]

ASSUME NoResponseAssumption == NoResponse \notin Response

VARIABLES
    pc,        \* where each task is suspended, or how it ended
    req,       \* the key of its request, fixed from the start
    inflight,  \* _inflight: the task that owns the registered future
    fut,       \* the future of each task that claimed its key
    waits,     \* the task whose future it awaits
    answer,    \* the response it holds
    l1,        \* store
    l2,        \* semantic_store, by the key its row names
    stats,     \* FusionCacheStats
    flushes,   \* invalidate_all calls so far
    since,     \* history: flushes when each request arrived
    asked,     \* history: the response its upstream call brings, if it made one
    raced      \* history: keys with a call in flight during a flush

flights == <<inflight, fut, waits>>
caches == <<l1, l2>>
history == <<flushes, since, asked, raced>>

vars == <<failures, state, age, pc, req, inflight, fut, waits, answer,
          l1, l2, stats, flushes, since, asked, raced>>

Owning == {"calling", "buffering", "filling"}
Served == {"exact", "semantic", "shared", "miss"}
Ended == Served \union {"rejected", "failed", "cancelled"}
Phases == {"idle", "embedding", "waiting"} \union Owning \union Ended

Counters == {"requests", "exact", "semantic", "shared", "misses", "saved"}

TypeOK ==
    /\ BreakerTypeOK
    /\ pc \in [Tasks -> Phases]
    /\ req \in [Tasks -> Keys]
    /\ inflight \in [Keys -> Tasks \union {NoTask}]
    /\ fut \in [Tasks -> {"none", "pending", "result", "error", "cancelled"}]
    /\ waits \in [Tasks -> Tasks \union {NoTask}]
    /\ \A r \in Tasks : pc[r] = "waiting" => waits[r] \in Tasks
    /\ answer \in [Tasks -> Response \union {NoResponse}]
    /\ l1 \in [Keys -> Response \union {NoResponse}]
    /\ l2 \in [Keys -> Response \union {NoResponse}]
    /\ stats \in [Counters -> Nat]
    /\ flushes \in 0..MaxFlushes
    /\ since \in [Tasks -> 0..MaxFlushes]
    /\ asked \in [Tasks -> Response \union {NoResponse}]
    /\ raced \subseteq Keys

Init ==
    /\ BreakerInit
    /\ pc = [r \in Tasks |-> "idle"]
    /\ req \in [Tasks -> Keys]
    /\ inflight = [k \in Keys |-> NoTask]
    /\ fut = [r \in Tasks |-> "none"]
    /\ waits = [r \in Tasks |-> NoTask]
    /\ answer = [r \in Tasks |-> NoResponse]
    /\ l1 = [k \in Keys |-> NoResponse]
    /\ l2 = [k \in Keys |-> NoResponse]
    /\ stats = [c \in Counters |-> 0]
    /\ flushes = 0
    /\ since = [r \in Tasks |-> 0]
    /\ asked = [r \in Tasks |-> NoResponse]
    /\ raced = {}

-----------------------------------------------------------------------------
(* Slip: a shared hit counts as a miss.                                     *)
RecordShared(layer, saved) ==
    LET counter == IF layer \in {"exact", "semantic"} THEN layer ELSE "misses"
    IN  stats' = [stats EXCEPT !["requests"] = @ + 1,
                               ![counter] = @ + 1,
                               !["saved"] = @ + saved]

(* _record: one request more, counted under its layer; every layer that is  *)
(* not a hit counts as a miss, the breaker's rejection too.                 *)
Record(layer, saved) ==
    LET counter == IF layer \in {"exact", "semantic", "shared"}
                   THEN layer ELSE "misses"
    IN  stats' = [stats EXCEPT !["requests"] = @ + 1,
                               ![counter] = @ + 1,
                               !["saved"] = @ + saved]

(* A request returns resp from layer and is recorded.                       *)
Answer(r, layer, resp, saved) ==
    /\ pc' = [pc EXCEPT ![r] = layer]
    /\ answer' = [answer EXCEPT ![r] = resp]
    /\ Record(layer, saved)

(* A task moves on, or ends without an answer; nothing is recorded.         *)
Move(r, phase) ==
    /\ pc' = [pc EXCEPT ![r] = phase]
    /\ UNCHANGED <<answer, stats>>

Unawait(r) == waits' = [waits EXCEPT ![r] = NoTask]

(* The breaker refuses a request that missed: it counts as a miss.          *)
Reject(r) ==
    /\ ~Allowed
    /\ Answer(r, "rejected", NoResponse, 0)
    /\ Unawait(r)
    /\ UNCHANGED <<breaker, inflight, fut, asked>>

(* Slip: the claim does not check, as if the lock were released in between. *)
ClaimUnchecked(r, k) ==
    /\ Admit
    /\ Move(r, "calling")
    /\ inflight' = [inflight EXCEPT ![k] = r]
    /\ fut' = [fut EXCEPT ![r] = "pending"]
    /\ asked' = [asked EXCEPT ![r] = [key |-> k, epoch |-> flushes]]
    /\ Unawait(r)

(* No future is registered for the key: the task registers its own and      *)
(* calls upstream, in one step since the check and the claim share the lock. *)
Claim(r, k) ==
    /\ Admit
    /\ inflight[k] = NoTask
    /\ Move(r, "calling")
    /\ inflight' = [inflight EXCEPT ![k] = r]
    /\ fut' = [fut EXCEPT ![r] = "pending"]
    /\ asked' = [asked EXCEPT ![r] = [key |-> k, epoch |-> flushes]]
    /\ Unawait(r)

(* Slip: the task joins whatever call is in flight.                         *)
JoinAny(r, k) ==
    /\ Admit
    /\ Move(r, "waiting")
    /\ \E j \in Keys : inflight[j] # NoTask /\ waits' = [waits EXCEPT ![r] = inflight[j]]
    /\ UNCHANGED <<inflight, fut, asked>>

(* Another task's future is registered: await it.  Awaiting a cancelled     *)
(* future raises CancelledError at once, which ends the request.            *)
Join(r, k) ==
    /\ Admit
    /\ inflight[k] # NoTask
    /\ IF fut[inflight[k]] = "cancelled"
       THEN Move(r, "cancelled") /\ Unawait(r)
       ELSE Move(r, "waiting") /\ waits' = [waits EXCEPT ![r] = inflight[k]]
    /\ UNCHANGED <<inflight, fut, asked>>

(* chat_completion after L1 and L2 missed.                                  *)
Miss(r, k) == Reject(r) \/ Claim(r, k) \/ Join(r, k)

(* chat_completion up to its first suspension.  A waiter whose owner failed *)
(* comes back here.                                                         *)
Lookup(r, k) ==
    IF EnableExact /\ l1[k] # NoResponse
    THEN /\ Answer(r, "exact", l1[k], 0)
         /\ Unawait(r)
         /\ UNCHANGED <<breaker, inflight, fut, asked>>
    ELSE IF EnableSemantic
    THEN /\ Move(r, "embedding")
         /\ Unawait(r)
         /\ UNCHANGED <<breaker, inflight, fut, asked>>
    ELSE Miss(r, k)

Arrive(r) ==
    /\ pc[r] = "idle"
    /\ since' = [since EXCEPT ![r] = flushes]
    /\ Lookup(r, req[r])
    /\ UNCHANGED <<req, caches, flushes, raced>>

-----------------------------------------------------------------------------
(* Slip: no guard_ok.                                                       *)
MatchesUnguarded(k) == {j \in Keys : l2[j] # NoResponse /\ <<j, k>> \in Close}

(* The rows _semantic_search may return for k: similar enough, and accepted *)
(* by guard_ok, which compares everything but the text.  Which of them      *)
(* scores best is left open.                                                *)
Matches(k) ==
    {j \in Keys : /\ l2[j] # NoResponse
                  /\ <<j, k>> \in Close
                  /\ Settings[j] = Settings[k]
                  /\ j \in Streaming <=> k \in Streaming}

(* Embedder.embed may raise: an HTTP error, a timeout, an answer of another *)
(* shape.                                                                   *)
EmbedFails == "embed" \in Faults

(* The query embedding arrives, and the scan runs; or the embedder fails,   *)
(* which the pipeline treats as no match.                                   *)
Embedded(r) ==
    /\ pc[r] = "embedding"
    /\ \/ /\ \E j \in Matches(req[r]) : Answer(r, "semantic", l2[j], 0)
          /\ UNCHANGED <<breaker, flights, asked>>
       \/ /\ Matches(req[r]) = {} \/ EmbedFails
          /\ Miss(r, req[r])
    /\ UNCHANGED <<req, caches, flushes, since, raced>>

-----------------------------------------------------------------------------
(* Slip: there is no finally clause.                                        *)
UnregisterForgotten(r) == UNCHANGED inflight

(* The owner's finally clause.                                              *)
Unregister(r) == inflight' = [inflight EXCEPT ![req[r]] = NoTask]

(* Slips: no set_exception; no set_result.                                  *)
SettleResults(r, outcome) ==
    fut' = [fut EXCEPT ![r] = IF @ = "pending" /\ outcome # "error" THEN outcome ELSE @]

SettleErrors(r, outcome) ==
    fut' = [fut EXCEPT ![r] = IF @ = "pending" /\ outcome # "result" THEN outcome ELSE @]

(* set_result and set_exception, each behind if not fut.done().             *)
Settle(r, outcome) ==
    fut' = [fut EXCEPT ![r] = IF @ = "pending" THEN outcome ELSE @]

(* The end of _process_response and of the owner: the request is recorded,  *)
(* the waiters get the result, the key is free again.                       *)
Complete(r, resp) ==
    /\ Answer(r, "miss", resp, Saving[req[r]])
    /\ Settle(r, "result")
    /\ Unregister(r)
    /\ UNCHANGED waits

(* _process_response from the accounting on: fill L1, then either suspend   *)
(* to embed the L2 row (never for a stream) or complete.                    *)
Process(r) ==
    /\ l1' = IF EnableExact THEN [l1 EXCEPT ![req[r]] = asked[r]] ELSE l1
    /\ IF EnableSemantic /\ req[r] \notin Streaming
       THEN /\ pc' = [pc EXCEPT ![r] = "filling"]
            /\ answer' = [answer EXCEPT ![r] = asked[r]]
            /\ UNCHANGED <<stats, flights>>
       ELSE Complete(r, asked[r])

(* Slip: a stream is cached when it begins, to be read as it grows.         *)
UpstreamRepliesEarly(r) ==
    /\ pc[r] = "calling"
    /\ RecordSuccess
    /\ IF req[r] \in Streaming
       THEN /\ Move(r, "buffering")
            /\ l1' = IF EnableExact THEN [l1 EXCEPT ![req[r]] = asked[r]] ELSE l1
            /\ UNCHANGED flights
       ELSE Process(r)
    /\ UNCHANGED <<req, l2, history>>

(* upstream() returned: the breaker hears of a success, for a stream before *)
(* any chunk of it has arrived.                                             *)
UpstreamReplies(r) ==
    /\ pc[r] = "calling"
    /\ RecordSuccess
    /\ IF req[r] \in Streaming
       THEN Move(r, "buffering") /\ UNCHANGED <<flights, l1>>
       ELSE Process(r)
    /\ UNCHANGED <<req, l2, history>>

(* upstream() raised: the breaker hears of it, the waiters get the error.   *)
UpstreamFails(r) ==
    /\ pc[r] = "calling"
    /\ "upstream" \in Faults
    /\ RecordFailure
    /\ Move(r, "failed")
    /\ Settle(r, "error")
    /\ Unregister(r)
    /\ UNCHANGED <<req, waits, caches, history>>

(* The last chunk of a stream is buffered.                                  *)
StreamEnds(r) ==
    /\ pc[r] = "buffering"
    /\ Process(r)
    /\ UNCHANGED <<breaker, req, l2, history>>

(* The stream breaks, or ends without a chunk: the exception passes through *)
(* the finally clause only.                                                 *)
StreamBreaks(r) ==
    /\ pc[r] = "buffering"
    /\ "stream" \in Faults
    /\ Move(r, "failed")
    /\ Unregister(r)
    /\ UNCHANGED <<breaker, req, fut, waits, caches, history>>

(* The embedding of the L2 row arrives and the row is stored, or the        *)
(* embedder failed and there is no row; either way the owner completes.     *)
Filled(r) ==
    /\ pc[r] = "filling"
    /\ \/ l2' = [l2 EXCEPT ![req[r]] = answer[r]]
       \/ EmbedFails /\ UNCHANGED l2
    /\ Complete(r, answer[r])
    /\ UNCHANGED <<breaker, req, l1, history>>

(* A waiter whose future has its result: a shared hit, which copies the     *)
(* owner's response and its cost_saved_usd.                                 *)
Share(r) ==
    /\ pc[r] = "waiting"
    /\ fut[waits[r]] = "result"
    /\ Answer(r, "shared", answer[waits[r]], Saving[req[waits[r]]])
    /\ Unawait(r)
    /\ UNCHANGED <<breaker, req, inflight, fut, caches, history>>

(* A waiter whose owner's call failed starts over.                          *)
Retry(r) ==
    /\ pc[r] = "waiting"
    /\ fut[waits[r]] = "error"
    /\ Lookup(r, req[r])
    /\ UNCHANGED <<req, caches, flushes, since, raced>>

(* A waiter whose future was cancelled dies of the CancelledError.          *)
CancelledWith(r) ==
    /\ pc[r] = "waiting"
    /\ fut[waits[r]] = "cancelled"
    /\ Move(r, "cancelled")
    /\ Unawait(r)
    /\ UNCHANGED <<breaker, req, inflight, fut, caches, history>>

-----------------------------------------------------------------------------
(* task.cancel(), a client that went away.  A waiter awaits the future      *)
(* itself, so its cancellation cancels the future; an owner runs its        *)
(* finally clause and nothing else.                                         *)
Cancel(r) ==
    /\ "cancel" \in Faults
    /\ pc[r] \in {"embedding", "waiting"} \union Owning
    /\ pc' = [pc EXCEPT ![r] = "cancelled"]
    /\ answer' = [answer EXCEPT ![r] = NoResponse]
    /\ IF pc[r] = "waiting" THEN Settle(waits[r], "cancelled") ELSE UNCHANGED fut
    /\ IF pc[r] \in Owning THEN Unregister(r) ELSE UNCHANGED inflight
    /\ Unawait(r)
    /\ UNCHANGED <<breaker, req, caches, stats, history>>

others == <<pc, req, flights, answer, stats>>

(* An entry passes its TTL, or is the LRU victim of another key.            *)
Expire(k) ==
    /\ \/ l1[k] # NoResponse /\ l1' = [l1 EXCEPT ![k] = NoResponse] /\ UNCHANGED l2
       \/ l2[k] # NoResponse /\ l2' = [l2 EXCEPT ![k] = NoResponse] /\ UNCHANGED l1
    /\ UNCHANGED <<breaker, others, history>>

(* invalidate(request)                                                      *)
Invalidate(k) ==
    /\ l1' = [l1 EXCEPT ![k] = IF EnableExact THEN NoResponse ELSE @]
    /\ l2' = [l2 EXCEPT ![k] = IF EnableSemantic THEN NoResponse ELSE @]
    /\ UNCHANGED <<breaker, others, history>>

(* Slip: a flush resets the breaker and drops nothing.                      *)
InvalidateAllNothing ==
    /\ flushes < MaxFlushes
    /\ Reset
    /\ flushes' = flushes + 1
    /\ raced' = raced \union {k \in Keys : inflight[k] # NoTask}
    /\ UNCHANGED <<others, caches, since, asked>>

(* invalidate_all(): both stores and the breaker, not the calls in flight.  *)
InvalidateAll ==
    /\ flushes < MaxFlushes
    /\ l1' = IF EnableExact THEN [k \in Keys |-> NoResponse] ELSE l1
    /\ l2' = IF EnableSemantic THEN [k \in Keys |-> NoResponse] ELSE l2
    /\ Reset
    /\ flushes' = flushes + 1
    /\ raced' = raced \union {k \in Keys : inflight[k] # NoTask}
    /\ UNCHANGED <<others, since, asked>>

Tick == Elapse /\ UNCHANGED <<others, caches, history>>

(* cache_status of the MCP server reads the breaker's state.                *)
ReadStatus == ReadState /\ UNCHANGED <<others, caches, history>>

Progress(r) ==
    \/ Embedded(r)
    \/ UpstreamReplies(r)
    \/ UpstreamFails(r)
    \/ StreamEnds(r)
    \/ StreamBreaks(r)
    \/ Filled(r)
    \/ Share(r)
    \/ Retry(r)
    \/ CancelledWith(r)

Environment ==
    \/ \E k \in Keys : Expire(k) \/ Invalidate(k)
    \/ InvalidateAll
    \/ Tick
    \/ ReadStatus

Next ==
    \/ \E r \in Tasks : Arrive(r) \/ Progress(r) \/ Cancel(r)
    \/ Environment

Spec == Init /\ [][Next]_vars

(* The event loop resumes every task whose await is over; the embedder and  *)
(* the upstream answer or time out, their HTTP clients have a timeout.      *)
Fairness == \A r \in Tasks : WF_vars(Progress(r))

FairSpec == Spec /\ Fairness

-----------------------------------------------------------------------------
(* The single flight: the future registered for a key is that of the one    *)
(* task whose call for the key is not over, and while there is such a task  *)
(* its future is registered.  Claims, the finally clause and cancellation   *)
(* have to agree for that; two owners of one key would pop each other's.    *)
OneCallPerKey ==
    \A r \in Tasks, k \in Keys :
        inflight[k] = r <=> pc[r] \in Owning /\ req[r] = k

(* No lost wake-up: a request waits for a future of its own key, and while  *)
(* that future is pending its owner is still on the way to settle it.       *)
WaitersHaveOwners ==
    \A r \in Tasks : pc[r] = "waiting" =>
        /\ waits[r] \in Tasks
        /\ req[waits[r]] = req[r]
        /\ fut[waits[r]] = "pending" => pc[waits[r]] \in Owning

(* What a request is served answers that very request, or, from L2, one     *)
(* with the same settings and a close enough text.                          *)
AnswersFit ==
    \A r \in Tasks : pc[r] \in Served =>
        /\ answer[r] # NoResponse
        /\ \/ answer[r].key = req[r]
           \/ /\ pc[r] = "semantic"
              /\ <<answer[r].key, req[r]>> \in Close
              /\ Settings[answer[r].key] = Settings[req[r]]
              /\ req[r] \notin Streaming

InLayer(layers) == Cardinality({r \in Tasks : pc[r] \in layers})

(* However steps interleave, a hit is counted once, under its layer.  Every  *)
(* request that is answered is counted, as a miss if by a call of its own,  *)
(* and none is counted twice, though its waits end and it starts over.      *)
HitsCounted ==
    /\ stats["exact"] = InLayer({"exact"})
    /\ stats["semantic"] = InLayer({"semantic"})
    /\ stats["shared"] = InLayer({"shared"})
    /\ stats["misses"] >= InLayer({"miss"})
    /\ stats["requests"] \in InLayer(Served)..InLayer(Phases \ {"idle"})

(* A request is served a response older than a flush that preceded it only  *)
(* if the call behind the response was in flight during a flush.            *)
StaleOnlyIfRaced ==
    \A r \in Tasks :
        pc[r] \in Served /\ answer[r].epoch < since[r] => answer[r].key \in raced

(* Once as many calls as the threshold have failed, and none has succeeded, *)
(* the breaker is not closed (DEPLOYMENT.md:98).                            *)
OpensAfterFailures ==
    /\ Enabled
    /\ flushes = 0
    /\ InLayer({"failed"}) >= Threshold
    /\ \A r \in Tasks : asked[r] # NoResponse => pc[r] \in {"calling", "failed"}
    => state # "closed"

Becomes(r, phase) == pc[r] # phase /\ pc'[r] = phase

(* The responses whose call has brought them to the last chunk; that of a   *)
(* cancelled call may have come or not.                                     *)
Whole ==
    {asked[r] : r \in {t \in Tasks : pc[t] \in {"filling", "miss", "cancelled"}}} \ {NoResponse}

(* A response suits its own request, and one of the same settings that does *)
(* not stream where their texts are close.                                  *)
Suiting ==
    {pair \in Response \X Keys :
        LET k == pair[2]
            j == pair[1].key
        IN  \/ j = k
            \/ <<j, k>> \in Close /\ Settings[j] = Settings[k] /\ k \notin Streaming}

Given == [r \in Tasks |-> IF pc[r] \in Served THEN answer[r] ELSE NoResponse]

Service == INSTANCE AnswerService
    WITH Requests <- Tasks, Questions <- Keys, Answers <- Response, Suits <- Suiting,
         NoAnswer <- NoResponse, Processes <- {}, question <- req, open <- {r \in Tasks : pc[r] \notin Ended},
         given <- Given, known <- Whole

(* The request path is a service of answers: whichever cache, call or other *)
(* request an answer comes by, its upstream gave it whole, it suits, and no *)
(* step ends a request twice or ends two of them.  A stream that breaks     *)
(* must leave nothing behind that is served (pipeline.py:344-378).          *)
IsAnswerService == Service!Spec

(* Every request comes to an end: it is answered, rejected, or it fails.    *)
EveryRequestEnds == \A r \in Tasks : pc[r] # "idle" ~> pc[r] \in Ended

-----------------------------------------------------------------------------
(* What the repository says of the program and the code does not keep.      *)

(* Cancelling one request leaves the others alone: nobody waits for a       *)
(* future that a cancellation has settled ("async-safe", pipeline.py:125).  *)
CancellationSparesOthers ==
    \A r \in Tasks : pc[r] = "waiting" => fut[waits[r]] # "cancelled"

(* After invalidate_all no request is served what was answered before it    *)
(* (app.py:245).                                                            *)
FlushDropsStale ==
    \A r \in Tasks : pc[r] \in Served => answer[r].epoch >= since[r]

(* Requests of one key share one upstream call: none of them makes a call    *)
(* for a key that is cached, whenever it arrived (pipeline.py:277-282).     *)
NoCallForCachedKey ==
    [][\A r \in Tasks : Becomes(r, "calling") => l1[req[r]] = NoResponse]_vars
=============================================================================
