---------------------------- MODULE SharedCache ----------------------------
(***************************************************************************)
(* Several gateway instances whose L1 store is one RedisStore               *)
(* (stores/redis.py, DEPLOYMENT.md section 2).  Every command is sent, runs *)
(* at the server, and its reply resumes the task later, so what FusionCache *)
(* does in one step is several here; futures are local to an instance and   *)
(* die with it, the server and the commands on their way to it do not.      *)
(*                                                                          *)
(* L2 is off and the breaker never opens: both are local to an instance and *)
(* modelled in FusionCache.                                                 *)
(***************************************************************************)
EXTENDS Naturals, Sequences, FiniteSets

CONSTANTS
    Instances,
    Tasks,        \* requests
    At,           \* At[r]: the instance that request r reaches
    Keys,
    Streaming,    \* the keys with stream = True
    Pages,        \* the pages in which SCAN returns the keys
    Faults,       \* what may fail: "upstream", "stream", "redis", "cancel"
    MaxFlushes,   \* bound: calls of invalidate_all
    MaxCrashes,   \* bound: instances that crash and restart
    NoTask, NoResponse, NoInstance

ASSUME SharedAssumption ==
    /\ At \in [Tasks -> Instances]
    /\ NoTask \notin Tasks
    /\ NoInstance \notin Instances
    /\ Streaming \subseteq Keys
    /\ Pages \in Seq(SUBSET Keys)
    /\ UNION {Pages[n] : n \in DOMAIN Pages} = Keys
    /\ Faults \subseteq {"upstream", "stream", "redis", "cancel"}
    /\ MaxFlushes \in Nat
    /\ MaxCrashes \in Nat

(* As in FusionCache, a response is known by its request and by the number  *)
(* of flushes begun before its call.                                        *)
Response == [key : Keys, epoch : 0..MaxFlushes]

ASSUME NoResponseAssumption == NoResponse \notin Response

VARIABLES
    redis,     \* the server's keys under the prefix
    sent,      \* tasks whose SET is on its way to the server
    pc, req,
    seen,      \* the reply to the GET of each task
    inflight,  \* _inflight of each instance
    fut, waits, answer,
    sweeper,   \* of each flush that is under way the instance that runs it
    page,      \* akeys: the page that each flush scans next
    found,     \* akeys: the keys that each has found so far
    flushes,   \* flushes begun
    crashes,
    asked,     \* history: the response of each task's upstream call
    done,      \* history: the latest flush that was completed
    since,     \* history: done when each request arrived
    raced      \* history: keys with a call not yet stored when a flush began

flights == <<inflight, fut, waits>>
sweep == <<sweeper, page, found, flushes, done, raced>>

vars == <<redis, sent, pc, req, seen, flights, answer, sweep, crashes, asked, since>>

Owning == {"calling", "storing"}
Served == {"exact", "shared", "miss"}
Active == {"getting", "got", "waiting"} \union Owning
Ended == {"failed", "broken", "unstored", "cancelled", "lost"} \union Served
Phases == {"idle"} \union Active \union Ended

(* The calls of invalidate_all, numbered as they begin.                     *)
Flushes == 1..MaxFlushes

TypeOK ==
    /\ redis \in [Keys -> Response \union {NoResponse}]
    /\ sent \subseteq Tasks
    /\ pc \in [Tasks -> Phases]
    /\ req \in [Tasks -> Keys]
    /\ seen \in [Tasks -> Response \union {NoResponse}]
    /\ inflight \in [Instances -> [Keys -> Tasks \union {NoTask}]]
    /\ fut \in [Tasks -> {"none", "pending", "result", "error", "cancelled"}]
    /\ waits \in [Tasks -> Tasks \union {NoTask}]
    /\ \A r \in Tasks : pc[r] = "waiting" => waits[r] \in Tasks
    /\ answer \in [Tasks -> Response \union {NoResponse}]
    /\ sweeper \in [Flushes -> Instances \union {NoInstance}]
    /\ page \in [Flushes -> 1..(Len(Pages) + 1)]
    /\ found \in [Flushes -> SUBSET Keys]
    /\ flushes \in 0..MaxFlushes
    /\ \A n \in Flushes : sweeper[n] # NoInstance => n <= flushes
    /\ done \in 0..flushes
    /\ raced \subseteq Keys
    /\ crashes \in 0..MaxCrashes
    /\ asked \in [Tasks -> Response \union {NoResponse}]
    /\ since \in [Tasks -> 0..MaxFlushes]

Init ==
    /\ redis = [k \in Keys |-> NoResponse]
    /\ sent = {}
    /\ pc = [r \in Tasks |-> "idle"]
    /\ req \in [Tasks -> Keys]
    /\ seen = [r \in Tasks |-> NoResponse]
    /\ inflight = [i \in Instances |-> [k \in Keys |-> NoTask]]
    /\ fut = [r \in Tasks |-> "none"]
    /\ waits = [r \in Tasks |-> NoTask]
    /\ answer = [r \in Tasks |-> NoResponse]
    /\ sweeper = [n \in Flushes |-> NoInstance]
    /\ page = [n \in Flushes |-> 1]
    /\ found = [n \in Flushes |-> {}]
    /\ flushes = 0
    /\ done = 0
    /\ raced = {}
    /\ crashes = 0
    /\ asked = [r \in Tasks |-> NoResponse]
    /\ since = [r \in Tasks |-> 0]

-----------------------------------------------------------------------------
Goto(r, phase) == pc' = [pc EXCEPT ![r] = phase]

Serve(r, layer, resp) == Goto(r, layer) /\ answer' = [answer EXCEPT ![r] = resp]

(* set_result and set_exception, each behind if not fut.done().             *)
Settle(r, outcome) ==
    fut' = [fut EXCEPT ![r] = IF @ = "pending" THEN outcome ELSE @]

(* The owner's finally clause.                                              *)
Unregister(r) == inflight' = [inflight EXCEPT ![At[r]][req[r]] = NoTask]

(* r awaits nobody's future any more.                                       *)
LetGo(r) == waits' = [waits EXCEPT ![r] = NoTask]

(* A request arrives and sends its GET.                                     *)
Arrive(r) ==
    /\ pc[r] = "idle"
    /\ Goto(r, "getting")
    /\ since' = [since EXCEPT ![r] = done]
    /\ UNCHANGED <<redis, sent, req, seen, flights, answer, sweep, crashes, asked>>

(* The server runs the GET; the reply is on its way.                        *)
ServerGet(r) ==
    /\ pc[r] = "getting"
    /\ Goto(r, "got")
    /\ seen' = [seen EXCEPT ![r] = redis[req[r]]]
    /\ UNCHANGED <<redis, sent, req, flights, answer, sweep, crashes, asked, since>>

(* aget raises, and the request with it: nobody catches it.                 *)
GetFails(r) ==
    /\ pc[r] = "getting"
    /\ "redis" \in Faults
    /\ Goto(r, "failed")
    /\ UNCHANGED <<redis, sent, req, seen, flights, answer, sweep, crashes, asked, since>>

Hit(r) ==
    /\ pc[r] = "got"
    /\ seen[r] # NoResponse
    /\ Serve(r, "exact", seen[r])
    /\ seen' = [seen EXCEPT ![r] = NoResponse]
    /\ UNCHANGED <<redis, sent, req, flights, sweep, crashes, asked, since>>

(* Slip: the answer is on its way to Redis before it has come.              *)
ClaimStoringEarly(r) ==
    /\ pc[r] = "got"
    /\ seen[r] = NoResponse
    /\ inflight[At[r]][req[r]] = NoTask
    /\ Goto(r, "calling")
    /\ inflight' = [inflight EXCEPT ![At[r]][req[r]] = r]
    /\ fut' = [fut EXCEPT ![r] = "pending"]
    /\ asked' = [asked EXCEPT ![r] = [key |-> req[r], epoch |-> flushes]]
    /\ sent' = sent \union {r}
    /\ UNCHANGED <<redis, req, seen, waits, answer, sweep, crashes, since>>

(* A miss, as the reply says by now: the first of the instance calls.       *)
Claim(r) ==
    /\ pc[r] = "got"
    /\ seen[r] = NoResponse
    /\ inflight[At[r]][req[r]] = NoTask
    /\ Goto(r, "calling")
    /\ inflight' = [inflight EXCEPT ![At[r]][req[r]] = r]
    /\ fut' = [fut EXCEPT ![r] = "pending"]
    /\ asked' = [asked EXCEPT ![r] = [key |-> req[r], epoch |-> flushes]]
    /\ UNCHANGED <<redis, sent, req, seen, waits, answer, sweep, crashes, since>>

(* Another request of the instance calls: await its future, which raises at *)
(* once if a waiter's cancellation has cancelled it.                        *)
Join(r) ==
    /\ pc[r] = "got"
    /\ seen[r] = NoResponse
    /\ LET owner == inflight[At[r]][req[r]] IN
        /\ owner # NoTask
        /\ IF fut[owner] = "cancelled"
           THEN Goto(r, "cancelled") /\ UNCHANGED waits
           ELSE Goto(r, "waiting") /\ waits' = [waits EXCEPT ![r] = owner]
    /\ UNCHANGED <<redis, sent, req, seen, inflight, fut, answer, sweep, crashes, asked, since>>

(* The answer of the upstream, a stream to its last chunk, is sent to the   *)
(* server.                                                                  *)
UpstreamReplies(r) ==
    /\ pc[r] = "calling"
    /\ Goto(r, "storing")
    /\ sent' = sent \union {r}
    /\ UNCHANGED <<redis, req, seen, flights, answer, sweep, crashes, asked, since>>

(* Slip: the exception goes to the caller alone.                            *)
UpstreamFailsUnsettled(r) ==
    /\ pc[r] = "calling"
    /\ "upstream" \in Faults
    /\ Goto(r, "failed")
    /\ Unregister(r)
    /\ UNCHANGED <<redis, sent, req, seen, fut, waits, answer, sweep, crashes, asked, since>>

UpstreamFails(r) ==
    /\ pc[r] = "calling"
    /\ "upstream" \in Faults
    /\ Goto(r, "failed")
    /\ Settle(r, "error")
    /\ Unregister(r)
    /\ UNCHANGED <<redis, sent, req, seen, waits, answer, sweep, crashes, asked, since>>

(* The stream breaks, or ends without a chunk: the exception passes through *)
(* the finally clause only, before anything is sent to the server.          *)
StreamBreaks(r) ==
    /\ pc[r] = "calling"
    /\ req[r] \in Streaming
    /\ "stream" \in Faults
    /\ Goto(r, "broken")
    /\ Unregister(r)
    /\ UNCHANGED <<redis, sent, req, seen, fut, waits, answer, sweep, crashes, asked, since>>

(* The server runs a SET, whatever has become of its sender.                *)
ServerSet(r) ==
    /\ r \in sent
    /\ sent' = sent \ {r}
    /\ redis' = [redis EXCEPT ![req[r]] = asked[r]]
    /\ UNCHANGED <<pc, req, seen, flights, answer, sweep, crashes, asked, since>>

(* A SET whose connection is gone may never arrive.                         *)
SetLost(r) ==
    /\ r \in sent
    /\ pc[r] \in {"unstored", "cancelled", "lost"}
    /\ sent' = sent \ {r}
    /\ UNCHANGED <<redis, pc, req, seen, flights, answer, sweep, crashes, asked, since>>

Stored(r) ==
    /\ pc[r] = "storing"
    /\ r \notin sent
    /\ Serve(r, "miss", asked[r])
    /\ Settle(r, "result")
    /\ Unregister(r)
    /\ UNCHANGED <<redis, sent, req, seen, waits, sweep, crashes, asked, since>>

(* aset raises: through the finally clause only, as a broken stream does.   *)
StoreFails(r) ==
    /\ pc[r] = "storing"
    /\ "redis" \in Faults
    /\ Goto(r, "unstored")
    /\ Unregister(r)
    /\ UNCHANGED <<redis, sent, req, seen, fut, waits, answer, sweep, crashes, asked, since>>

Share(r) ==
    /\ pc[r] = "waiting"
    /\ fut[waits[r]] = "result"
    /\ Serve(r, "shared", answer[waits[r]])
    /\ LetGo(r)
    /\ UNCHANGED <<redis, sent, req, seen, inflight, fut, sweep, crashes, asked, since>>

(* The owner's call failed: the waiter starts over with a GET.              *)
Retry(r) ==
    /\ pc[r] = "waiting"
    /\ fut[waits[r]] = "error"
    /\ Goto(r, "getting")
    /\ LetGo(r)
    /\ UNCHANGED <<redis, sent, req, seen, inflight, fut, answer, sweep, crashes, asked, since>>

(* The future a waiter awaits was cancelled, and the waiter with it.        *)
CancelledWith(r) ==
    /\ pc[r] = "waiting"
    /\ fut[waits[r]] = "cancelled"
    /\ Goto(r, "cancelled")
    /\ LetGo(r)
    /\ UNCHANGED <<redis, sent, req, seen, inflight, fut, answer, sweep, crashes, asked, since>>

(* task.cancel(): a waiter's cancels the future it awaits; an owner runs    *)
(* its finally clause, and a SET of its that is on its way stays there.     *)
Cancel(r) ==
    /\ "cancel" \in Faults
    /\ pc[r] \in Active
    /\ Goto(r, "cancelled")
    /\ IF pc[r] = "waiting" THEN Settle(waits[r], "cancelled") ELSE UNCHANGED fut
    /\ IF pc[r] \in Owning THEN Unregister(r) ELSE UNCHANGED inflight
    /\ LetGo(r)
    /\ seen' = [seen EXCEPT ![r] = NoResponse]
    /\ UNCHANGED <<redis, sent, req, answer, sweep, crashes, asked, since>>

-----------------------------------------------------------------------------
requests == <<sent, pc, req, seen, flights, answer, asked, since>>

(* invalidate_all begins; nothing keeps another from being under way.       *)
BeginFlush(i) ==
    /\ flushes < MaxFlushes
    /\ flushes' = flushes + 1
    /\ sweeper' = [sweeper EXCEPT ![flushes + 1] = i]
    /\ raced' = raced \union {req[r] : r \in {s \in Tasks : pc[s] \in Owning \/ s \in sent}}
    /\ UNCHANGED <<redis, requests, crashes, page, found, done>>

Listed(n) == {k \in Pages[page[n]] : redis[k] # NoResponse}

(* Slip: the pages found before are forgotten.                              *)
ScanPageOnly(n) ==
    /\ sweeper[n] # NoInstance
    /\ page[n] <= Len(Pages)
    /\ found' = [found EXCEPT ![n] = Listed(n)]
    /\ page' = [page EXCEPT ![n] = @ + 1]
    /\ UNCHANGED <<redis, requests, crashes, sweeper, flushes, done, raced>>

(* Slip: the loop does not stop at cursor 0.                                *)
ScanPastEnd(n) ==
    /\ sweeper[n] # NoInstance
    /\ found' = [found EXCEPT ![n] = IF page[n] \in DOMAIN Pages THEN @ \union Listed(n) ELSE @]
    /\ page' = [page EXCEPT ![n] = @ + 1]
    /\ UNCHANGED <<redis, requests, crashes, sweeper, flushes, done, raced>>

(* The flushes that end leave nothing behind.                               *)
Stop(over) ==
    /\ sweeper' = [n \in Flushes |-> IF n \in over THEN NoInstance ELSE sweeper[n]]
    /\ page' = [n \in Flushes |-> IF n \in over THEN 1 ELSE page[n]]
    /\ found' = [n \in Flushes |-> IF n \in over THEN {} ELSE found[n]]

(* akeys: one SCAN command returns the keys of its page.                    *)
ScanPage(n) ==
    /\ sweeper[n] # NoInstance
    /\ page[n] <= Len(Pages)
    /\ found' = [found EXCEPT ![n] = @ \union Listed(n)]
    /\ page' = [page EXCEPT ![n] = @ + 1]
    /\ UNCHANGED <<redis, requests, crashes, sweeper, flushes, done, raced>>

(* aclear: the keys found are deleted by one DEL.                           *)
DeleteFound(n) ==
    /\ sweeper[n] # NoInstance
    /\ page[n] > Len(Pages)
    /\ redis' = [k \in Keys |-> IF k \in found[n] THEN NoResponse ELSE redis[k]]
    /\ Stop({n})
    /\ done' = IF n > done THEN n ELSE done
    /\ UNCHANGED <<requests, crashes, flushes, raced>>

(* A command of the flush raises, and the flush ends where it is.           *)
FlushFails(n) ==
    /\ sweeper[n] # NoInstance
    /\ "redis" \in Faults
    /\ Stop({n})
    /\ UNCHANGED <<redis, requests, crashes, flushes, done, raced>>

(* invalidate(), or the TTL.                                                *)
Remove(k) ==
    /\ redis[k] # NoResponse
    /\ redis' = [redis EXCEPT ![k] = NoResponse]
    /\ UNCHANGED <<requests, sweep, crashes>>

(* Slip: the futures outlive the process, as if they were kept in Redis.    *)
CrashKeepingFlights(i) ==
    /\ crashes < MaxCrashes
    /\ crashes' = crashes + 1
    /\ pc' = [r \in Tasks |-> IF At[r] = i /\ pc[r] \in Active THEN "lost" ELSE pc[r]]
    /\ Stop({n \in Flushes : sweeper[n] = i})
    /\ UNCHANGED <<redis, sent, req, seen, flights, answer, flushes, done, raced, asked, since>>

(* An instance crashes and is started again: its requests and its futures   *)
(* are gone, the flushes it ran stop, what it has sent is still on its way.  *)
Crash(i) ==
    /\ crashes < MaxCrashes
    /\ crashes' = crashes + 1
    /\ pc' = [r \in Tasks |-> IF At[r] = i /\ pc[r] \in Active THEN "lost" ELSE pc[r]]
    /\ inflight' = [inflight EXCEPT ![i] = [k \in Keys |-> NoTask]]
    /\ Stop({n \in Flushes : sweeper[n] = i})
    /\ UNCHANGED <<redis, sent, req, seen, fut, waits, answer, flushes, done, raced, asked, since>>

Next ==
    \/ \E r \in Tasks :
         \/ Arrive(r) \/ ServerGet(r) \/ GetFails(r)
         \/ Hit(r) \/ Claim(r) \/ Join(r)
         \/ UpstreamReplies(r) \/ UpstreamFails(r) \/ StreamBreaks(r)
         \/ ServerSet(r) \/ SetLost(r) \/ Stored(r) \/ StoreFails(r)
         \/ Share(r) \/ Retry(r) \/ CancelledWith(r) \/ Cancel(r)
    \/ \E i \in Instances : BeginFlush(i) \/ Crash(i)
    \/ \E n \in Flushes : ScanPage(n) \/ DeleteFound(n) \/ FlushFails(n)
    \/ \E k \in Keys : Remove(k)

Spec == Init /\ [][Next]_vars

-----------------------------------------------------------------------------
(* On every instance the future registered for a key is that of the one     *)
(* live task that calls for it: a crash leaves no key claimed by the dead.  *)
OneCallPerKey ==
    \A i \in Instances, k \in Keys, r \in Tasks :
        inflight[i][k] = r <=> At[r] = i /\ req[r] = k /\ pc[r] \in Owning

(* A waiter has its owner on the same instance, for the same key, and wakes *)
(* to what became of it: a result only of a call that was stored, an error  *)
(* only of a call that failed.  What leaves it behind with a future that    *)
(* nobody will settle is a SET that failed, a stream that broke or was      *)
(* empty, or the cancellation of its owner; no crash does.                  *)
WaitersShareFate ==
    \A r \in Tasks : pc[r] = "waiting" =>
        LET owner == waits[r] IN
        /\ owner \in Tasks
        /\ At[owner] = At[r] /\ req[owner] = req[r]
        /\ \/ fut[owner] = "result" /\ pc[owner] = "miss"
           \/ fut[owner] = "error" /\ pc[owner] = "failed"
           \/ fut[owner] = "pending" /\ pc[owner] \in Owning \union {"unstored", "broken", "cancelled"}
           \/ fut[owner] = "cancelled" /\ pc[owner] \in (Owning \union Ended) \ {"lost"}

(* A flush that is over has reached every entry of before it, though it     *)
(* collects and deletes in separate commands: a request that arrives after  *)
(* it on any instance is served something older only where a call of before *)
(* the flush was stored after the flush began (app.py:245).                 *)
StaleOnlyIfRaced ==
    \A r \in Tasks :
        pc[r] \in Served /\ answer[r].epoch < since[r] => req[r] \in raced

Given == [r \in Tasks |-> IF pc[r] \in Served THEN answer[r] ELSE NoResponse]

(* The responses that have come whole; of a call that was cancelled or      *)
(* whose instance has crashed that is not known, and it counts as come.     *)
Whole ==
    {asked[r] : r \in {t \in Tasks : asked[t] # NoResponse
                                     /\ pc[t] \notin {"calling", "failed", "broken"}}}

Service == INSTANCE AnswerService
    WITH Requests <- Tasks, Questions <- Keys, Answers <- Response,
         Suits <- {pair \in Response \X Keys : pair[1].key = pair[2]},
         NoAnswer <- NoResponse,
         Processes <- {{r \in Tasks : At[r] = i} : i \in Instances},
         question <- req, open <- {r \in Tasks : pc[r] \notin Ended},
         given <- Given, known <- Whole

(* The instances together are the service of answers that one is: what any  *)
(* of them serves came whole to one of them and answers that very request,  *)
(* and a crash ends requests of the crashed instance only, whatever was on  *)
(* its way to Redis and back (pipeline.py:221,395).                         *)
IsAnswerService == Service!Spec
=============================================================================
