---------------------------- MODULE MeteredCache ----------------------------
(***************************************************************************)
(* FusionCache with what surrounds each of its steps: request bodies and    *)
(* the keys they are hashed to, the usage an upstream reply reports and     *)
(* what it saved, and MetricsRegistry, which the pipeline updates beside    *)
(* its own statistics, in other places and by other rules.                  *)
(*                                                                          *)
(* The requests are those of the gateway and of the wrapper: both pass      *)
(* bool(body.get("stream")) as the stream argument.                         *)
(***************************************************************************)
EXTENDS FusionCache, CanonicalKey, Accounting

CONSTANTS
    Bodies,    \* the request bodies of a run
    Digest,    \* SHA-256: a key for every canonical form
    Replies,   \* Replies[k]: the upstream's reply to k, as the chunks it comes in
    MaxEmbedErrors   \* bound: embeddings that fail

(* chat_completion: req["stream"] = bool(stream).                           *)
Outgoing(body) ==
    [field \in DOMAIN body \union {"stream"} |->
        IF field = "stream" THEN Bool(StreamFlag(body)) ELSE body[field]]

(* request_hash, of the body that goes upstream and of a body as given.     *)
RequestKey == [body \in Bodies |-> Digest[CanonicalizeRequest(Outgoing(body))]]
GivenKey == [body \in Bodies |-> Digest[CanonicalizeRequest(body)]]

(* _extract_usage.                                                          *)
ExtractUsage(chunk) ==
    IF "usage" \in DOMAIN chunk THEN chunk["usage"] ELSE [field \in {} |-> 0]

(* What a reply reports: a stream, in the last of its chunks that has usage. *)
Reported(chunks) ==
    LET told == {i \in DOMAIN chunks : DOMAIN ExtractUsage(chunks[i]) # {}}
        last == IF told = {} THEN 1 ELSE Max(told)
    IN  ExtractUsage(chunks[last])

Usage == [k \in Keys |-> FromDict(Reported(Replies[k]))]

(* SHA-256 is taken to have no collisions.  The constants of FusionCache    *)
(* are those of the keys' canonical forms, and of the replies.              *)
ASSUME BodyAssumption ==
    /\ IsInjective(Digest)
    /\ \A body \in Bodies :
          /\ ~Unset(body, "messages")
          /\ CanonicalizeRequest(body) \in DOMAIN Digest
          /\ CanonicalizeRequest(Outgoing(body)) \in DOMAIN Digest
    /\ Range(Digest) = Keys
    /\ MaxEmbedErrors \in Nat
    /\ \A form \in DOMAIN Digest :
          /\ Settings[Digest[form]] = GuardView(form)
          /\ Digest[form] \in Streaming <=> form["stream"]

ASSUME UsageAssumption ==
    \A k \in Keys :
        /\ Usage[k] \in Breakdown
        /\ Saving[k] = SavedCost(Usage[k])

VARIABLES
    layers,     \* MetricsRegistry._layers; a layer not there yet is all 0
    prefixes    \* FusionCacheStats.prefix_hits

metrics == <<layers, prefixes>>

Layers == {"exact", "semantic", "shared", "miss", "prefix"}
Totals == {"hits", "misses", "errors", "saved", "tokens"}

MeteredTypeOK ==
    /\ layers \in [Layers -> [Totals -> Nat]]
    /\ prefixes \in Nat

MeteredInit ==
    /\ Init
    /\ req \in [Tasks -> {RequestKey[body] : body \in Bodies}]
    /\ layers = [layer \in Layers |-> [total \in Totals |-> 0]]
    /\ prefixes = 0

-----------------------------------------------------------------------------
(* metrics.record(layer, hit=True) and hit=False, in the registry ls.       *)
Hit(ls, layer, saved, tokens) ==
    [ls EXCEPT ![layer]["hits"] = @ + 1,
               ![layer]["saved"] = @ + saved,
               ![layer]["tokens"] = @ + tokens]

(* Slip: an upstream error is an error and no miss.                         *)
MissOrError(ls, layer, errors, saved, tokens) ==
    [ls EXCEPT ![layer]["misses"] = @ + 1 - errors,
               ![layer]["errors"] = @ + errors,
               ![layer]["saved"] = @ + saved,
               ![layer]["tokens"] = @ + tokens]

Missed(ls, layer, errors, saved, tokens) ==
    [ls EXCEPT ![layer]["misses"] = @ + 1,
               ![layer]["errors"] = @ + errors,
               ![layer]["saved"] = @ + saved,
               ![layer]["tokens"] = @ + tokens]

(* The upstream's prefix cache was of use to a response for k.              *)
PrefixHit(k) == Saving[k] > 0 \/ Usage[k].hit > 0

(* The records of a completed call for k: the miss, and the prefix layer    *)
(* where tokens of the prompt were cached upstream.                         *)
Completed(ls, k) ==
    LET missed == Missed(ls, "miss", 0, Saving[k], Usage[k].hit) IN
    IF Usage[k].hit # 0 THEN Hit(missed, "prefix", 0, Usage[k].hit) ELSE missed

(* What the pipeline records, in the registry ls, of the step that has just *)
(* answered r or refused it; a step that does neither records nothing.      *)
Outcome(r, ls) ==
    /\ layers' = CASE pc'[r] = "exact" -> Hit(ls, "exact", 0, 0)
                   [] pc'[r] = "semantic" -> Hit(ls, "semantic", 0, 0)
                   [] pc'[r] = "shared" -> LET owner == waits[r] IN
                                               Hit(ls, "shared", Saving[req[owner]], Usage[req[owner]].hit)
                   [] pc'[r] = "miss" -> Completed(ls, req[r])
                   [] pc'[r] = "rejected" -> Missed(ls, "miss", 0, 0, 0)
                   [] OTHER -> ls
    /\ prefixes' = IF pc'[r] = "miss" /\ PrefixHit(req[r]) THEN prefixes + 1 ELSE prefixes

(* An embedding failed, which the registry alone hears of.                  *)
EmbedError(r) ==
    /\ EmbedFails
    /\ layers["semantic"]["misses"] < MaxEmbedErrors
    /\ Outcome(r, Missed(layers, "semantic", 0, 0, 0))

-----------------------------------------------------------------------------
MeteredArrive(r) == Arrive(r) /\ Outcome(r, layers)

MeteredEmbedded(r) ==
    /\ Embedded(r)
    /\ \/ (Matches(req[r]) = {} \/ pc'[r] = "semantic") /\ Outcome(r, layers)
       \/ pc'[r] # "semantic" /\ EmbedError(r)

(* A reply, the end of its stream, and what waiters make of it.             *)
MeteredReply(r) ==
    /\ UpstreamReplies(r) \/ StreamEnds(r) \/ Share(r) \/ Retry(r)
    /\ Outcome(r, layers)

MeteredFilled(r) ==
    /\ Filled(r)
    /\ \/ l2' = [l2 EXCEPT ![req[r]] = answer[r]] /\ Outcome(r, layers)
       \/ l2' = l2 /\ EmbedError(r)

(* The registry hears of a failed call, the statistics do not.              *)
MeteredFailure(r) ==
    /\ UpstreamFails(r)
    /\ layers' = Missed(layers, "miss", 1, 0, 0)
    /\ UNCHANGED prefixes

(* Neither hears of a broken stream or of a cancellation.                   *)
Unmetered(r) ==
    /\ StreamBreaks(r) \/ CancelledWith(r) \/ Cancel(r)
    /\ UNCHANGED metrics

(* invalidate(request): the body is hashed as given.                        *)
InvalidateBody(body) == Invalidate(GivenKey[body]) /\ UNCHANGED metrics

Others ==
    /\ (\E k \in Keys : Expire(k)) \/ InvalidateAll \/ Tick \/ ReadStatus
    /\ UNCHANGED metrics

MeteredNext ==
    \/ \E r \in Tasks :
          \/ MeteredArrive(r) \/ MeteredEmbedded(r) \/ MeteredReply(r)
          \/ MeteredFilled(r) \/ MeteredFailure(r) \/ Unmetered(r)
    \/ \E body \in Bodies : InvalidateBody(body)
    \/ Others

meteredVars == <<vars, metrics>>

MeteredSpec == MeteredInit /\ [][MeteredNext]_meteredVars

-----------------------------------------------------------------------------
(* Two accounts of the same requests agree.  The registry's hits are the    *)
(* statistics'; its misses are theirs and the failed calls; the savings of  *)
(* its layers add up to theirs; and its prefix layer, which counts hit      *)
(* tokens, has the hits they count by savings as well (pipeline.py:367,403). *)
RegistryAgrees ==
    /\ layers["exact"]["hits"] = stats["exact"]
    /\ layers["semantic"]["hits"] = stats["semantic"]
    /\ layers["shared"]["hits"] = stats["shared"]
    /\ layers["miss"]["misses"] = stats["misses"] + layers["miss"]["errors"]
    /\ layers["miss"]["saved"] + layers["shared"]["saved"] = stats["saved"]
    /\ layers["prefix"]["hits"] = prefixes

(* Savings are rebates: however replies report their tokens, the registry   *)
(* has for the requests with a call of their own the upstream's price cut   *)
(* on the prompt tokens it had cached.                                      *)
SavingsAreRebates ==
    LET called == {r \in Tasks : pc[r] = "miss"} IN
    layers["miss"]["saved"] = SumFunctionOnSet([r \in Tasks |-> Rebate(Usage[req[r]])], called)

(* Keys j and k such that bodies sent under them always make the same       *)
(* request, or have the same settings.                                      *)
SameByKey ==
    {jk \in Keys \X Keys :
        \A b, c \in Bodies : jk = <<RequestKey[b], RequestKey[c]>> => SameRequest(b, c)}
SettingsByKey ==
    {jk \in Keys \X Keys :
        \A b, c \in Bodies : jk = <<RequestKey[b], RequestKey[c]>> => SameSettings(b, c)}

(* The key keeps apart what must be: whatever bodies had the keys of a      *)
(* request and of the response it is served, they make the same request,    *)
(* or, from L2, have the same settings (key.py:17, matcher.py:75).          *)
AnswersMatchBodies ==
    \A r \in Tasks : pc[r] \in Served =>
        <<req[r], answer[r].key>> \in IF pc[r] = "semantic" THEN SettingsByKey ELSE SameByKey

(* The bodies that make, in these or in other words, a request of that key. *)
BodiesOf ==
    [k \in Keys |->
        {b \in Bodies : \E c \in Bodies : RequestKey[c] = k /\ SameRequest(b, c)}]

(* invalidate() reaches what the body's own request, or the same request in *)
(* other words, has cached: an entry that survives a step is of no body     *)
(* that the step invalidates.                                               *)
InvalidateReaches ==
    [][\A k \in Keys :
          (EnableExact /\ l1'[k] # NoResponse) \/ (EnableSemantic /\ l2'[k] # NoResponse)
          => \A b \in BodiesOf[k] : ~InvalidateBody(b)]_meteredVars
=============================================================================
