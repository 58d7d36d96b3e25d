# fusion-cache in TLA+

fusion-cache is a caching proxy in front of a chat-completion API. A request is
answered from an exact cache (L1), from a semantic cache (L2), by a call that is
already in flight for the same request, or by a new upstream call; a circuit
breaker stands before the new calls and a rate limiter before everything. The
modules here model that path, TLC checks them on small instances, and TLAPS
proves what matters most for every size.

Source paths below are relative to `src/src/fusion_cache/` unless they begin
with `src/`. `PROJECT.json` maps every definition to its lines, and lists the
runs, the hazards behind the properties, the findings and the theorems.

## The system

| Part | Source | State | Operations | Right when |
|---|---|---|---|---|
| Pipeline | `core/pipeline.py` | `_inflight` futures by key, statistics | `chat_completion`, `invalidate`, `invalidate_all`, `aclose` | one call per key; every request ends, with an answer that fits it; statistics add up; a flush is a flush |
| Circuit breaker | `core/breaker.py` | `_failures`, `_state`, `_opened_at` | `allow_request`, `record_success`, `record_failure`, `state`, `reset` | opens after N failures, one probe after the cooldown, never refuses for good |
| Memory store | `stores/memory.py`, mixin of `stores/base.py` | `_data`, `_expires`, `_lru`, `_clock` | `get`, `set`, `delete`, `keys`, `clear`, `size` | never an expired value; bounded; least recently used goes first |
| Redis store | `stores/redis.py` | the server's keys | `aget`, `aset`, `adelete`, `akeys`, `aclear`, `asize` | the same for several instances, where every operation is one or more commands |
| Semantic matcher, embedder | `semantic/*.py` | none (a semaphore in the pipeline) | `best_match`, `guard_ok`, `embed` | no answer made under other settings |
| Gateway | `gateway/app.py` | app state | chat completions, models, invalidate, metrics, dashboard | authenticates, limits, then asks the pipeline; retries 429 |
| Rate limiter | `gateway/ratelimit.py` | a deque of stamps per client | `allow`, `remaining`, `reset` | exactly `limit` requests per window |
| Upstream adapters | `gateway/upstream.py` | none | one call, plain or streamed | a call ends, within its timeout |
| Canonical key | `core/key.py` | none | `canonicalize_request`, `request_hash` | equal keys only for equal requests |
| Accounting | `prefix/accounting.py` | none | usage to savings | no invented savings |
| Metrics | `metrics/registry.py` | counters by layer, latencies | `record`, `snapshot` | agree with the pipeline's own statistics |
| Replay, wrapper | `core/replay.py`, `wrapper/openai.py` | a client and its cache | chunks from a buffered answer; synchronous calls | the chunks are those that were stored |
| MCP server, command line, configuration | `mcp_server.py`, `cli.py`, `config.py` | none | tools, arguments, environment | `cache_status` reads, and by reading changes, the breaker |

**How they interact.** Everything runs as tasks of one event loop. A gateway
handler passes the limiter, then awaits `chat_completion`, which reads L1,
awaits an embedding and scans L2, asks the breaker, then claims its key in
`_inflight` or awaits the future another task registered there. An owner awaits
the gateway's `upstream` function (which retries and sleeps by itself), tells
the breaker, buffers a stream, fills L1, embeds and fills L2, and settles its
future. Waiters copy the result, or start over when it is an exception.

**What is hard.** Everything read before an `await` may be stale after it; a
future is shared by tasks that may fail or be cancelled one by one; the breaker
is told of calls that began in another of its states; a flush runs while calls
are in flight; several Python dicts of a store must agree; with Redis every
store operation is a suspension and may fail alone. A process persists nothing
and holds no lock across an `await`: nothing is recovered after a crash, which
matters only by what the process had sent to Redis, and what can block a request
for good is a future nobody settles. `PROJECT.json` lists each hazard at its
line, with the properties aimed at it, or why there is none yet.

## The modules

| Module | Models | State and actions |
|---|---|---|
| `CircuitBreaker` | the class, one operator per method | `failures`, `state`, and `age` for `now - _opened_at`: the code compares only that difference, with the cooldown, so it is counted in ticks up to it |
| `BreakerCallers` | the breaker between concurrent calls of bounded length | `Ask`, then `Succeed`, `Fail` or `Abandon`; `ResetAll`, `ReadStatus`, `Tick` |
| `FusionCache` | the pipeline on memory stores, extends `CircuitBreaker` | a task's `pc` is the suspension point it is at; one step runs it to the next: `Arrive`, `Embedded`, `UpstreamReplies`, `UpstreamFails`, `StreamEnds`, `StreamBreaks`, `Filled`, `Share`, `Retry`, `CancelledWith`, `Cancel`; around them `Expire`, `Invalidate`, `InvalidateAll`, `ReadStatus`, `Tick` |
| `RateLimiter` | `allow()` | each client's deque, as the ages of its stamps |
| `Gateway` | the handlers, extends `FusionCache` and `RateLimiter` | `Post` (authentication and limit) and `Read` (the body, after the one `await` before the pipeline: 400 if it is not JSON, 500 if it is no object), `ListModels`, `Throttled` and `Again` (the retry of 429), `UpstreamEnds`, `Pipeline`, `InvalidateCache` |
| `CanonicalKey` | `core/key.py`, the view of a request that `guard_ok` compares, and `_embed_text`; beside them a reference definition of "the same request" | operators on JSON values |
| `Accounting` | usage of either provider to counts, counts to cost and savings; the rebate the source's comment promises | operators on counts and prices |
| `MeteredCache` | `FusionCache` with bodies, keys, usage and `MetricsRegistry`, extends all three | `layers`, `prefixes`; each pipeline step conjoined with what it records: `MeteredArrive`, `MeteredEmbedded`, `MeteredReply`, `MeteredFilled`, `MeteredFailure`, `Unmetered`, `InvalidateBody` |
| `AnswerService` | what a caller may rely on in `chat_completion`, implemented by `FusionCache`, so by `MeteredCache` and `Gateway`, and by the instances of `SharedCache` together | `Drop`, `Serve`, and `Lose` where a process (a set of requests, `Processes`) may crash; any answers may become known at any time |
| `EvictingMap` | what a caller may rely on in a store | `Get`, `Put`, `Forget` |
| `MemoryStore` | the exported in-memory store, implements `EvictingMap` | one action per method; each holds the lock throughout, so each is one step |
| `SemanticSearch` | `_semantic_search` and `best_match` over the rows of a `MemoryStore`, extends it | `place`, the rank of each key in the order of the dict (0 for none); `Search` prunes, stamps every row, picks the best (`Loop`, a function of the rows gone through); `Reorder` is what any step does to the order |
| `SharedCache` | several instances, L1 on one Redis | a command is sent, run by the server, answered: `ServerGet`, `ServerSet`, `SetLost`, `ScanPage`, `DeleteFound`; `GetFails`, `StoreFails`, `FlushFails`; beside the pipeline's own `StreamBreaks`, `Cancel`, `CancelledWith`; `Crash`. Any number of flushes may overlap, each with its cursor and its keys |
| `MC*` | constants for TLC | |
| `*Proofs` | theorems | |

A step of `FusionCache` may be so large because nothing inside it suspends:
`MemoryStore`'s coroutines contain no `await`, and the two asyncio locks are
never held across one, so acquiring them does not wait. Each action contains all
that its stretch of code changes: the breaker, the caches, the future, the
statistics and the clean-up in `finally`.

In `FusionCache` and `Gateway` requests are model values. A response is known by
the request it answers and by the number of flushes before its call (operators
flush when the upstream model has changed), which is what staleness is about.
`Settings[k]` stands for all of a request but its text and `Close` for the pairs
whose embeddings are over the threshold; the score, and so the choice among
several rows, is left open. Expiry and eviction are one action that removes any
entry of either cache at any time: `MemoryStore` implements exactly that promise
(`IsEvictingMap`), and its TTL and LRU are modelled there. The L2 store is
abstracted with them; `SemanticSearch` has the scan itself, with the choice
among the rows and the stamps it leaves.

`MeteredCache` gives those constants their meaning. A body is a function from
the fields it has to JSON values, in which a string is its words and the
whitespace around them and a dict has an order of keys: exactly what the
canonical form must forget. Values are nested two levels deep, and a message
always has a role and a content. A prompt goes through `str()` before it is
normalized (`key.py:126`), which `Str` models: null and `"None"`, 1 and `"1"`
share a key. `bool()` of the stream flag is modelled likewise (`Falsy`).
`Digest` is any injection: SHA-256 is taken to have no collisions. A body is
`WellFormed` if it has only fields the source knows and only values a JSON text
can have: of one of the four shapes in which the module writes JSON, where no
dict has just the keys by which a shape is told and nothing but null takes the
form of null, so that no value can be taken for one of another kind, and its
prompt, if it has one, is a text: what two prompts of other kinds that share a
key would mean upstream is not in the repository. TLC evaluates that the bodies
of the runs are. Its `ASSUME`s say that `Settings`, `Streaming` and `Saving` of
`FusionCache` are those of the bodies and replies; TLC evaluates them on the
instance. A reply is the sequence of its chunks, of which the last that reports
usage counts. Prices are natural numbers in a unit of their own, so that sums
are exact: the rounding of floats is left out.

`asked`, `since`, `raced` (and `passed`, `done`) are history: no guard reads
them. Definitions marked *Slip* are variants that a plausible mistake would have
produced. No action uses them; each shows, put in place of the real
definition, that a property can fail.

## The runs

Ages and the flush counter are bounded by the constants; what else grows is cut
by `MaxFlushes`, `MaxCrashes`, `MaxFailures`, `MaxEmbedErrors` and `MaxClock`,
each named in the guard it restricts. The statistics end with the requests.
Requests are a fixed set, each posted at most once. Where the requests may all
have ended nothing is left to happen, so those configurations switch the
deadlock check off; what must go on happening is stated as a liveness property
instead.

Passing:

| Run | Asks | Instance |
|---|---|---|
| `BreakerCallers` | Are probes that are out together a cooldown apart, does a failure always re-open, is `allow_request()` true again and again, whatever late answers do? | 3 callers, threshold 2, cooldown 2, calls of at most 5 ticks, counts to 4. As with the defaults (120 s, `gateway/upstream.py:17`, and 30 s, `config.py:80`), a call may outlast more than one cooldown, so that all three callers may be probes at once. Failures beyond threshold + 1 behave alike |
| `FusionSemantic` | On `MeteredCache`, L1 and L2, where the lookup and the fill suspend: single flight; answers that fit, those of rows for paraphrases included; hits counted once; staleness only after a race. Does a key keep apart what must be, and only that; does `invalidate` find what any wording of a body has cached; do registry and statistics agree; are savings the rebate on cached tokens? Is it all an `AnswerService`: does each request end once, alone, with nothing or with a fitting answer that came whole? | 3 requests, each with any of 7 bodies under 4 keys: one question in two wordings, as a stream, at another temperature (twice), and a paraphrase with an image in two wordings. Three are an owner, a waiter that takes over and one more that arrives late. All faults: failing calls, broken streams, a failing embedder (recorded once), cancellation. Expiry, one flush. Usage as DeepSeek reports it, as OpenAI does, without cache fields, and in the middle of a stream. 1.2 million states, some 3 minutes |
| `Gateway` | Is the limit exact, are retries invisible to the pipeline, is a request one failure, does the breaker open after N of them, does every request end, and nobody wait for a future without an owner? | 3 requests of 2 clients, limit 1 in a window of 2, one retry, threshold 2; a stream and L2; failing calls and embeddings, no broken stream (`FusionLostWaiter` is about these) and no cancellation (the server does not cancel a handler). No flush: `FusionSemantic` has it. 0.4 million states |
| `SharedCache` | Do futures, crashes, failing commands, broken streams and cancellations agree, and what may leave a waiter behind; has a completed flush reached everything older? Are the instances together an `AnswerService`? | 3 requests on one instance, which may be an owner and two waiters, of which one is cancelled; another instance that may flush; 2 keys, one a stream, in 2 scan pages; one flush of either instance, one crash; all faults. 2.6 million states, two minutes. Requests on the other instance would meet these only through Redis. Overlapping flushes are the theorems' part, which have any number of flushes and requests; with two of each the configuration finds nothing either (`MaxFlushes = 2`, `Tasks = {r1, r2}`, 2.3 million states) |
| `MemoryStore` | On `SemanticSearch`: do the dicts agree, does LRU spare the last used key, is the store an evicting map; does a search find the best row that fits? | 3 keys for 2 places, 6 uses, with and without TTL, pruned by scans; 3 rows, one the most similar but incompatible, one below the threshold, two equally similar; the keys are interchangeable |

No passing run has L2 off. The theorems hold for `EnableSemantic` either way,
and the violated runs on `FusionCache` but one have it off: there they show that
the behaviour in question needs no suspension in the lookup.

Violated, each a promise of a document, comment or docstring that the code does
not keep (the quotes are in `PROJECT.json`, "findings"):

| Run | Promise | What happens |
|---|---|---|
| `FusionLostWaiter` | a streaming waiter replays the owner's chunks | the stream breaks; the exception passes the `finally` clause only, the future is dropped unsettled, its waiter waits forever. The run has fairness |
| `FusionCancelShared` | "async-safe" | a waiter awaits the shared future itself; cancelling it cancels every other waiter |
| `FusionFlushRace` | a flush drops stale answers | a call in flight during the flush fills the cache after it |
| `FusionStreamOutage` | the breaker opens after N failures in a row | a stream counts as a success before its first chunk |
| `FusionStampede` | requests of one key share one call | with L2 a request that missed L1 suspends for its embedding; meanwhile another's call fills L1 and leaves `_inflight`, and the request, which looks at L1 no more, calls again for a key that is cached |
| `BreakerProbes` | after the cooldown one probe call is allowed | a probe keeps others away for one cooldown only; where a call may last longer, as it may with the defaults, there are two |
| `MemoryOverflow` | `max_entries` bounds the dict | a pruned key keeps its stamp, is evicted in place of a held key, and the dict grows |

`StaleOnlyIfRaced` is the exact counterpart of `FusionFlushRace`: staleness has
no other cause. `ProbesApart` is that of `BreakerProbes`: a probe is alone for a
cooldown, and for no longer. `WaitersShareFate` names on Redis all that leaves a
waiter behind, with a future nobody settles: a SET that failed, a stream that
broke or was empty, a cancelled owner. That it waits forever is not its concern;
`FusionLostWaiter` shows it of a broken stream.

Other places where a text of the repository and the code part, which no run is
devoted to:

* `gateway/app.py:278` and `:290` call the metrics "Total requests seen by the
  cache" and "Upstream calls made (L3 miss)". A request that an open breaker
  refuses counts as a miss and calls nobody, and a call that fails, or whose
  stream breaks, counts nowhere. `HitsCounted` therefore promises the hits, and
  of misses and requests only bounds.
* Savings (`CONTRIBUTING.md:20`, "Never fabricate savings"): a waiter's result
  copies the owner's, `cost_saved_usd` included (`core/pipeline.py:439`), and
  `_record` adds it again (`:185`). `SavingsAreRebates` is therefore only about
  requests with a call of their own.
* LRU "by use" (`src/README.md:212`, `stores/memory.py:13`): a semantic search
  stamps every live row in the order of the dict, so the LRU of L2 evicts by age
  of insertion wherever searches run between the sets. What is left of the
  promise is `LastUsedSurvives`.
* `src/DEPLOYMENT.md:100-101` has an open breaker refuse only requests that need
  a fresh upstream call; asked before the claim, it also refuses one that would
  have joined a call, or whose answer was cached while its lookup was suspended.
* The breaker stays open for its cooldown (`src/DEPLOYMENT.md:102`), but the
  late success of a call that began before closes it at once
  (`core/breaker.py:60`).
* A prompt of null and one of `"None"`, or 1 and `"1"`, share a key
  (`core/key.py:126`).

The models show more that a reader should know:

* With Redis, as with L2 (`FusionStampede`), the L1 miss a request goes by is
  older than its last suspension.
* A retry of a 429 does not ask the breaker.
* The timeout of `gateway/upstream.py` is the HTTP client's, which is for each
  operation on the connection: a call that goes on sending may last longer.
* On Redis a flush clears the shared L1, but L2 and the breaker only of the
  instance that runs it.
* The registry's miss layer has the failed calls in it, which the statistics
  have nowhere (`RegistryAgrees` says how the two differ); a broken stream and a
  cancellation are in neither. `snapshot`'s `total_requests` and `hit_rate` also
  add up prefix hits, of requests that are misses as well, and failed
  embeddings.
* A null prompt and no prompt are different keys; a null setting and none are
  the same.
* Of a reply in the OpenAI style with cached tokens the other prompt tokens are
  in no cost (`accounting.py:126`); the savings are right all the same
  (`SavedIsRebate`).
* `InvalidateReaches` holds for callers whose stream argument is that of the
  body, as the gateway's and the wrapper's is. `chat_completion(body,
  stream=True)` on a body without the field is outside it.
* `enable_prefix_accounting`, `semantic_grace_ttl` and `upstream_timeout`
  (`config.py`), `eligible` (`semantic/matcher.py:37`) and `_TRANSPORT_ONLY`
  (`core/key.py:50`) decide nothing: no code on the request path reads them.

## Fairness

`FusionCache` and `Gateway` assume weak fairness of each request's own steps:
the event loop resumes every task whose await is over, `asyncio.sleep` ends, and
the embedder and the upstream answer, fail or run into the timeout of their HTTP
client. `Handle` leaves `Throttled` out: attempts are bounded, so it needs no
fairness, and an answer is owed only as *some* end of the call. `Read` has none
either: a client need not send the body it has announced, so that what
`EveryRequestEnds` promises begins with the pipeline. Nothing is assumed of
arrivals, cancellation, expiry, flushes or the clock.
`BreakerCallers` assumes that the clock runs and that calls end, as the timeout
makes them. Every request ends where streams do not break and nobody cancels:
those two faults lose wake-ups (`FusionLostWaiter`, `FusionCancelShared`).

## What is proved

For all values of the constants that meet the `ASSUME`s of the modules.

* `CircuitBreakerProofs!BreakerKeeps`: each method keeps the types and
  `BreakerSound` (away from closed exactly while the count reaches the
  threshold, half-open only after a cooldown). `BreakerCallers` and
  `FusionCache` both rest on it.
* `BreakerCallersProofs`: `TypeCorrect`, `BreakerIsSound`, `FailuresReopen`, and
  `ProbesKeepApart`, for every cooldown and timeout. `ProbesApart` is not
  inductive: what keeps a second probe away is that the first is at least as old
  as the breaker's stamp (`ProbeOlderThanStamp`), so when the cooldown is over
  every probe that is left has been out for one.
* `FusionCacheProofs`: `TypeCorrect`; `SingleFlight`, inductive with the types,
  by the observation that every step keeps the owners and the registrations, or
  lets one task claim a free key, or lets one owner release its own; and
  `NoLostWakeup` where `"stream"` and `"cancel"` are no faults, from
  `SingleFlight` and two parts: waiters await a task of their key, and pending
  futures are owned; `StatisticsExact` and `FailuresAreRequests` for finite sets
  of requests, and `OutageOpens` where `"stream"` is no fault. These three
  count. The first two rest on lemmas about cardinalities: one step ends one
  request at most (`OneEndsAtATime`), so one layer has one more
  (`OneMoreInLayer`) and the step's own record matches it. The third rests on
  `NoFailureMissed`: as long as no call succeeded and nothing was reset, the
  breaker's count is at least the number of failed requests, since a request
  calls once (`AskedOnce`).
* `FusionAnswersProofs`: `ServedFits` and `StaleMeansRaced`, inductive together
  with `CachesFit` (an entry answers its key, and is older than the last flush
  only if its key was raced), `CallsFit` (so does what an owner brings) and
  `WaitersFit` (a waiter's owner began after the waiter's last flush, or was
  raced); and `ServesAnswers`, the refinement of `AnswerService` under every
  configuration and fault, by `CachesWhole` (no cache holds a response that has
  not come whole) and the lemma that a step moves one task and serves it only
  what came whole (`OneTaskServes`). A call that was cancelled counts as one
  that may have come.
* `GatewayProofs`: `Implements`, the gateway's steps are the pipeline's or
  stutter, hence `GatewaySingleFlight` and, for finite sets of requests,
  `GatewayFailures`, `GatewayServes` (the answer service, fitting answers,
  staleness only after races) and `GatewayWakes`; `GatewayTypes`, with the
  limiter's deques; and `QuotaKept`, by `Tracked`: a deque is sorted by age, its
  stamps in the window are at most the limit, and of each age within the window
  it holds as many as have passed. Discarding the outdated prefix keeps that
  (`FreshDrops`, `FreshTracks`), a stamp adds one (`StampTracks`), the clock
  shifts it (`TickTracks`), and the ages sum up to the stamps (`TrackedSum`).
* `MeteredCacheProofs`: `SavedIsRebate`, arithmetic for all counts and prices;
  `OneFormPerRequest`, wordings of a request have one canonical form, piece by
  piece; `InvalidateFinds` from it, since the canonical form of a body with its
  stream flag set is that of the body as given; `MeteredImplements`, by which
  `FusionCache`'s theorems hold with bodies and metrics too; and
  `AccountsAgree`, inductive with the types, where the statistics' savings and
  the prefix layer need that a reply saves only if it has hit tokens
  (`SavedIsRebate` again); `MeteredServes`, the answer service with its bodies;
  and `SavingsAreExact`: a step ends one request at most, and the miss layer
  grows by what its key saves just when it had a call of its own (`StepSaves`),
  which is the rebate (`SavedIsRebate`). `OneRequestPerForm` is the converse of
  `OneFormPerRequest`: a canonical form of a well-formed body, whose prompt is a
  text that `str()` leaves alone, can be read back, member by member
  (`MemberRead`, `ValueRead`, `PartRead`, `MessageRead`, `SettingsRead`).
  Without well-formedness it is false, as a field the source does not know goes
  upstream and is not in the key, and as prompts of other kinds are told from
  their texts no more. `AnswersOfBodies` follows: what the caches do with keys
  (`ServedFits`) they do with requests.
* `MemoryStoreProofs`: `TypeCorrect`, `StampsOrdered`, `LastUsedKept`,
  `UnscannedBounded` (no ghost stamps without a scan, so an eviction frees a
  place: the counterpart of `MemoryOverflow`), and `ImplementsMap`, the
  refinement of `EvictingMap`. Of the store that is searched, `SearchSpec`, they
  show the same with `Places` (the keys of the dict have places of their own):
  `SearchCorrect`, `SearchSparesLastUsed`, `SearchImplementsMap`, where a search
  leaves the live rows and nothing else (`SearchLeaves`), stamped by ranks that
  follow the order (`RankOrders`). `SearchFinds` rests on the turns of the
  loop (`Turns`): after n rows the best so far is one of them that the guard
  accepts, and no other of them that it accepts exceeds it.
* `SharedCacheProofs`, with broken streams, cancellations and any number of
  overlapping flushes: `TypeCorrect`; `SingleFlight`, across crashes and failing
  commands; `FateShared`, which needs that an owner's future is pending, or
  cancelled by a waiter (`OwnersPend`); and `FlushReaches`, by an invariant that
  dates what a request calls for, what Redis holds, what the scan has passed,
  what a GET has seen and what a waiter will share (`CallsDated`, `RedisDated`,
  `ScanDated`, `SeenDated`, `WaitersDated`): each is younger than the flush,
  still ahead of it, or raced. `SharedServes` is the refinement of
  `AnswerService` by all instances together: what Redis holds, a reply carries
  and a request is served has come whole and answers the key it is under
  (`Stores`, `Replies`, `Answers`), which stays so whatever crashes
  (`SettledStays`), and a crash is the service's `Lose`, a step of one request
  its `Serve`, `Drop` or nothing (`OneRequestServes`).

Two of these arguments need induction over data, and the library's induction
theorems are out of the prover's reach: they take an operator as a parameter.
Its theorems on well-founded orders do not, so each argument is made about a
least counterexample. `FusionCacheProofs!SumOfSizes` shows that what
`SumFunctionOnSet` returns for the sizes of disjoint sets is the size of their
union, since a smallest set it were wrong for would have a smaller one, and
`SumAdds` that every member adds its amount, by counting units; the sums of
savings and of admissions rest on these. `MemoryStoreProofs!LoopTurns` and
`LoopFinds` are about the least number of rows (`LeastNatural`) for which the
loop of `best_match` were not defined, or had not found the best.

Only model-checked: liveness (`KeepsAdmitting`, `EveryRequestEnds`), since
fairness and `ENABLED` are out of the prover's reach. Every safety property and
every refinement that a passing run checks is the subject of a theorem, each
under the hypotheses named here: `NoLostWakeup` and `OutageOpens` without some
faults, `AnswersOfBodies` for well-formed bodies, and what counts requests for
finite sets of them. The violated runs show what the code does where a
document's promise has no such hypothesis.

## What is left out

* Latencies, `snapshot`'s sums and `reset` of the registry, rendering, logging,
  the provider formats: data that decides nothing on this path.
* The score written into the meta of a stored row, which all readers of the row
  share: the models keep no meta.
* `aclose`, which nothing calls while requests run; the semaphore of the
  embedder, a queued embedding being a long one.
* The limiter between threads, which nothing in the package does, and
  `remaining`/`reset`, which only tests call.
* The synchronous bridge of the Redis store, and TTLs at the server: entries may
  vanish at any time.
* `SharedCache` has neither breaker nor L2, which are local to an instance.
* `from_response` and `summarize_usage`, which no code of the package calls;
  fields of a body outside the known ones, which go upstream and are not in the
  key.
* Replay (generators over a finished list), the wrapper's event loops, the
  command line, the reading of the environment.

## Plan

Done, in this order: `CircuitBreaker`, `BreakerCallers`, `FusionCache`,
`MemoryStore` with `EvictingMap`, `RateLimiter`, `Gateway`, `SharedCache`;
then `CanonicalKey`, `Accounting`, `MeteredCache`, `SemanticSearch`,
`AnswerService`; and the proofs named above.

Then every safety property of the passing runs was proved, `SemanticSearch`
brought into a form that can be reasoned about (places in the dict instead of a
sequence of keys), and `AnswerService` extended by crashes, so that
`SharedCache` implements it too.

Next, to prove: an abstract single flight that both `FusionCache` and
`SharedCache` implement.

Next, to model, should the code make more of them: a wrapper shared by threads
(whose waiters await a future of another event loop, `wrapper/openai.py:122`),
and rows that carry their meta (`core/pipeline.py:255`).
