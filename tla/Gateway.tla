------------------------------ MODULE Gateway ------------------------------
(***************************************************************************)
(* gateway/app.py around the cache: what a request passes before the        *)
(* pipeline sees it, in the order of the handler, and how the gateway's     *)
(* upstream function retries a 429 while the pipeline awaits it.            *)
(*                                                                          *)
(* The handlers run on the event loop of FusionCache, and before the        *)
(* pipeline suspend once, to read the body.  An answer needs no state: it   *)
(* is 200 where the pipeline returned, 502 where it raised, else what       *)
(* refused the request.                                                     *)
(* The server does not cancel a handler whose client has gone, so FusionCache's *)
(* Cancel has no counterpart here.                                          *)
(***************************************************************************)
EXTENDS FusionCache, RateLimiter, Functions

CONSTANTS
    Client,    \* Client[r]: the rate-limit key of request r
    Retries    \* FUSION_UPSTREAM_RETRIES

ASSUME GatewayAssumption ==
    /\ Client \in [Tasks -> Clients]
    /\ Retries \in Nat

VARIABLES
    reading,   \* requests that have passed the limiter and await their body
    refused,   \* status of a request that did not reach the pipeline, or 0
    tries,     \* attempt: 429 answers to each request that were retried
    napping,   \* requests whose upstream function sleeps before it retries
    passed     \* history: passed[c][a], admissions of c that are a ticks old

gateway == <<hits, reading, refused, tries, napping, passed>>
gatewayVars == <<vars, gateway>>

GatewayTypeOK ==
    /\ TypeOK
    /\ LimiterTypeOK
    /\ reading \subseteq Tasks
    /\ refused \in [Tasks -> {0, 400, 401, 429, 500}]
    /\ tries \in [Tasks -> 0..Retries]
    /\ napping \subseteq Tasks
    /\ passed \in [Clients -> [0..(Window - 1) -> Nat]]

GatewayInit ==
    /\ Init
    /\ LimiterInit
    /\ reading = {}
    /\ refused = [r \in Tasks |-> 0]
    /\ tries = [r \in Tasks |-> 0]
    /\ napping = {}
    /\ passed = [c \in Clients |-> [a \in 0..(Window - 1) |-> 0]]

-----------------------------------------------------------------------------
(* _check_rate_limit lets a request of c through.                           *)
Pass(c) ==
    /\ Charge(c)
    /\ passed' = [passed EXCEPT ![c][0] = @ + 1]

(* A request is answered by the gateway itself.                             *)
Refuse(r, code) ==
    /\ refused' = [refused EXCEPT ![r] = code]
    /\ UNCHANGED vars

(* chat_completions up to the body: authentication, then the rate limit.    *)
Post(r) ==
    /\ pc[r] = "idle"
    /\ refused[r] = 0
    /\ r \notin reading
    /\ \/ Refuse(r, 401) /\ UNCHANGED <<hits, passed, reading>>
       \/ TurnAway(Client[r]) /\ Refuse(r, 429) /\ UNCHANGED <<passed, reading>>
       \/ Pass(Client[r]) /\ reading' = reading \union {r} /\ UNCHANGED <<vars, refused>>
    /\ UNCHANGED <<tries, napping>>

(* The body has come.  One that is not JSON is refused, one that is no      *)
(* object raises out of the handler; the others go on to the cache.  All    *)
(* have used up their share of the limit.                                   *)
Read(r) ==
    /\ r \in reading
    /\ reading' = reading \ {r}
    /\ \/ \E code \in {400, 500} : Refuse(r, code)
       \/ Arrive(r) /\ UNCHANGED refused
    /\ UNCHANGED <<hits, passed, tries, napping>>

(* list_models draws on the same limit and leaves the cache alone.          *)
ListModels(c) ==
    /\ Pass(c) \/ (TurnAway(c) /\ UNCHANGED passed)
    /\ UNCHANGED <<vars, reading, refused, tries, napping>>

(* A request whose upstream function waits for an answer of the provider.   *)
Calling(r) == pc[r] = "calling" /\ r \notin napping

(* Slip: every 429 is reported to the breaker.                              *)
ThrottledRecording(r) ==
    /\ Calling(r) /\ req[r] \notin Streaming /\ tries[r] < Retries /\ "upstream" \in Faults
    /\ napping' = napping \union {r}
    /\ tries' = [tries EXCEPT ![r] = @ + 1]
    /\ RecordFailure
    /\ UNCHANGED <<hits, reading, refused, passed, pc, req, flights, answer, caches, stats, history>>

(* Slip: a 429 fails the waiters, who then take over the call.              *)
ThrottledSettling(r) ==
    /\ Calling(r) /\ req[r] \notin Streaming /\ tries[r] < Retries /\ "upstream" \in Faults
    /\ napping' = napping \union {r}
    /\ tries' = [tries EXCEPT ![r] = @ + 1]
    /\ Settle(r, "error")
    /\ UNCHANGED <<hits, reading, refused, passed, breaker, pc, req, inflight, waits,
                   answer, caches, stats, history>>

(* The provider answers with an error that mentions 429, and an attempt is  *)
(* left: the upstream function sleeps.  The pipeline sees nothing of it.    *)
(* A stream is not retried.                                                 *)
Throttled(r) ==
    /\ Calling(r)
    /\ req[r] \notin Streaming
    /\ tries[r] < Retries
    /\ "upstream" \in Faults
    /\ napping' = napping \union {r}
    /\ tries' = [tries EXCEPT ![r] = @ + 1]
    /\ UNCHANGED <<vars, hits, reading, refused, passed>>

(* The sleep is over and the next attempt starts; the breaker is not asked. *)
Again(r) ==
    /\ r \in napping
    /\ napping' = napping \ {r}
    /\ UNCHANGED <<vars, hits, reading, refused, tries, passed>>

(* The upstream function returns or raises.  For a stream it returns before *)
(* anything is sent, so it never raises.                                    *)
UpstreamEnds(r) ==
    /\ Calling(r)
    /\ \/ UpstreamReplies(r)
       \/ req[r] \notin Streaming /\ UpstreamFails(r)
    /\ UNCHANGED gateway

(* The other steps of the pipeline.                                         *)
Pipeline(r) ==
    /\ \/ Embedded(r)
       \/ StreamEnds(r)
       \/ StreamBreaks(r)
       \/ Filled(r)
       \/ Share(r)
       \/ Retry(r)
       \/ CancelledWith(r)
    /\ UNCHANGED gateway

(* invalidate_cache is authenticated and not limited.                       *)
InvalidateCache ==
    /\ InvalidateAll \/ \E k \in Keys : Invalidate(k)
    /\ UNCHANGED gateway

Vanish == (\E k \in Keys : Expire(k)) /\ UNCHANGED gateway

GatewayTick ==
    /\ Tick
    /\ Age
    /\ passed' = [c \in Clients |->
                    [a \in 0..(Window - 1) |-> IF a = 0 THEN 0 ELSE passed[c][a - 1]]]
    /\ UNCHANGED <<reading, refused, tries, napping>>

Handle(r) == Again(r) \/ UpstreamEnds(r) \/ Pipeline(r)

GatewayNext ==
    \/ \E r \in Tasks : Post(r) \/ Read(r) \/ Throttled(r) \/ Handle(r)
    \/ \E c \in Clients : ListModels(c)
    \/ InvalidateCache
    \/ Vanish
    \/ GatewayTick

GatewaySpec == GatewayInit /\ [][GatewayNext]_gatewayVars

(* As in FusionCache; asyncio.sleep ends.  A client need not send the body  *)
(* it has promised.                                                         *)
GatewayFairSpec ==
    GatewaySpec /\ \A r \in Tasks : WF_gatewayVars(Handle(r))

-----------------------------------------------------------------------------
(* The limit is exact: never more than Limit requests of a client pass in   *)
(* one window, and one is turned away only when that many have; what is     *)
(* refused later for its body counts, what was not authorized does not.     *)
QuotaExact ==
    Limit > 0 =>
        \A c \in Clients : LET n == SumFunction(passed[c]) IN
            n <= Limit /\ (Allows(c) <=> n < Limit)

(* A request is one failure to the breaker, however many of its attempts    *)
(* the provider has refused.                                                *)
OneFailurePerRequest == failures <= InLayer({"failed"})

(* The retries are invisible to the pipeline: the gateway implements        *)
(* FusionCache, and what holds of the one holds of the other.               *)
IsFusionCache == Spec
=============================================================================
