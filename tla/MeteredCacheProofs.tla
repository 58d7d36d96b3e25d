------------------------- MODULE MeteredCacheProofs -------------------------
(***************************************************************************)
(* What the pipeline and its surroundings keep for every set of bodies,     *)
(* replies and prices: the registry and the statistics agree, savings are   *)
(* the rebate on cached tokens, and invalidate() finds the right key.       *)
(***************************************************************************)
EXTENDS MeteredCache, FusionAnswersProofs

(* The savings are the rebate: what every prompt token as a miss would have *)
(* cost above the total is the price cut on the hits and nothing else,      *)
(* however many tokens of which kind are reported (accounting.py:12).       *)
THEOREM SavedIsRebate == \A b \in Breakdown : SavedCost(b) = Rebate(b)
<1> SUFFICES ASSUME NEW b \in Breakdown
             PROVE  SavedCost(b) = Rebate(b)
  OBVIOUS
<1>1. b.hit \in Nat /\ b.completion \in Nat /\ BilledMisses(b) \in Nat
  BY DEF Breakdown, BilledMisses
<1>2. ASSUME NEW m \in Nat, NEW h \in Nat, NEW o \in Nat, NEW x \in Nat, NEW y \in Nat, NEW z \in Nat
      PROVE  /\ (x + y) * m + z * o - (y * m + x * h + z * o) = x * m - x * h
             /\ (x + y) * m + z * o \in Nat
             /\ y * m + x * h + z * o \in Nat
             /\ x * m \in Nat /\ x * h \in Nat
             /\ m <= h => x * m <= x * h
             /\ m >= h => x * (m - h) = x * m - x * h /\ x * m >= x * h
  OBVIOUS
<1> DEFINE paid == TotalCost(b)
           cold == ColdCost(b)
<1>3. /\ paid \in Nat /\ cold \in Nat
      /\ cold - paid = b.hit * MissPrice - b.hit * HitPrice
  BY <1>1, <1>2, PriceAssumption DEF TotalCost, ColdCost
<1>4. SavedCost(b) = Rise(paid, cold)
  BY DEF SavedCost
<1> HIDE DEF paid, cold
<1>5. CASE MissPrice > HitPrice
  <2>1. Rise(paid, cold) = cold - paid
    BY <1>1, <1>2, <1>3, <1>5, PriceAssumption DEF Rise
  <2> QED BY <1>1, <1>2, <1>3, <1>4, <1>5, <2>1, PriceAssumption DEF Rebate
<1>6. CASE ~(MissPrice > HitPrice)
  <2>1. Rise(paid, cold) = 0
    BY <1>1, <1>2, <1>3, <1>6, PriceAssumption DEF Rise
  <2>2. Rebate(b) = b.hit * 0
    BY <1>6 DEF Rebate
  <2> QED BY <1>1, <1>4, <2>1, <2>2
<1> QED BY <1>5, <1>6

-----------------------------------------------------------------------------
(* A body in other words has the same canonical form, piece by piece.       *)
LEMMA AlikeNormalizes ==
    ASSUME NEW v, NEW w, Alike(v, w)
    PROVE  NormalizeIfText(v) = NormalizeIfText(w)
<1>1. CASE SameDict(v, w)
  BY <1>1 DEF SameDict, NormalizeIfText, NormalizeText, Sortable, Unordered, IsText, IsDict, IsList
<1>2. CASE /\ IsList(v) /\ IsList(w)
           /\ DOMAIN v.items = DOMAIN w.items
           /\ \A i \in DOMAIN v.items : SameDict(v.items[i], w.items[i])
  <2>1. \A i \in DOMAIN v.items : Unordered(v.items[i]) = Unordered(w.items[i])
    BY <1>2 DEF SameDict, Unordered, IsDict
  <2>2. Sortable(v) = Sortable(w)
    BY <1>2, <2>1 DEF Sortable
  <2> QED BY <1>2, <2>2 DEF NormalizeIfText, IsText, IsList
<1>3. CASE IsText(v) /\ IsText(w) /\ v.words = w.words
  BY <1>3 DEF NormalizeIfText, NormalizeText
<1> QED BY <1>1, <1>2, <1>3 DEF Alike, SameSetting

LEMMA SettingSorts ==
    ASSUME NEW v, NEW w, SameSetting(v, w)
    PROVE  Sortable(v) = Sortable(w)
<1>1. CASE SameDict(v, w)
  BY <1>1 DEF SameDict, Sortable, Unordered, IsDict, IsList
<1>2. CASE /\ IsList(v) /\ IsList(w)
           /\ DOMAIN v.items = DOMAIN w.items
           /\ \A i \in DOMAIN v.items : SameDict(v.items[i], w.items[i])
  <2>1. \A i \in DOMAIN v.items : Unordered(v.items[i]) = Unordered(w.items[i])
    BY <1>2 DEF SameDict, Unordered, IsDict
  <2> QED BY <1>2, <2>1 DEF Sortable
<1> QED BY <1>1, <1>2 DEF SameSetting

LEMMA PartsNormalize ==
    ASSUME NEW p, NEW q, AlikeParts(p, q)
    PROVE  NormalizePart(p) = NormalizePart(q)
<1>1. CASE p = q
  BY <1>1
<1>2. CASE /\ IsDict(p) /\ IsDict(q)
           /\ DOMAIN p.entries = DOMAIN q.entries
           /\ \A k \in DOMAIN p.entries : Alike(p.entries[k], q.entries[k])
  <2>1. \A k \in DOMAIN p.entries : NormalizeIfText(p.entries[k]) = NormalizeIfText(q.entries[k])
    BY <1>2, AlikeNormalizes
  <2> QED BY <1>2, <2>1 DEF NormalizePart
<1>3. CASE IsDict(p) /\ IsDict(q) /\ p.entries = q.entries
  BY <1>3 DEF NormalizePart
<1>4. CASE Alike(p, q) /\ ~IsDict(p) /\ ~IsDict(q)
  BY <1>4, AlikeNormalizes DEF NormalizePart
<1>5. Alike(p, q) => p = q \/ (IsDict(p) /\ IsDict(q) /\ p.entries = q.entries) \/ (~IsDict(p) /\ ~IsDict(q))
  BY DEF Alike, SameSetting, SameDict, IsDict, IsList, IsText
<1> QED BY <1>1, <1>2, <1>3, <1>4, <1>5 DEF AlikeParts

LEMMA MessagesNormalize ==
    ASSUME NEW m, NEW n, AlikeMessages(m, n)
    PROVE  CanonicalizeMessage(m) = CanonicalizeMessage(n)
<1> DEFINE Form(k, value) ==
        IF k = "content" /\ IsList(value)
        THEN List([i \in DOMAIN value.items |-> NormalizePart(value.items[i])])
        ELSE NormalizeIfText(value)
<1>1. ASSUME NEW k \in DOMAIN m.entries
      PROVE  Form(k, m.entries[k]) = Form(k, n.entries[k])
  <2> DEFINE v == m.entries[k]
             w == n.entries[k]
  <2>1. \/ Alike(v, w)
        \/ /\ k = "content" /\ IsList(v) /\ IsList(w)
           /\ DOMAIN v.items = DOMAIN w.items
           /\ \A i \in DOMAIN v.items : AlikeParts(v.items[i], w.items[i])
    BY DEF AlikeMessages
  <2> HIDE DEF v, w
  <2>2. CASE k = "content" /\ IsList(v) /\ IsList(w) /\ DOMAIN v.items = DOMAIN w.items
             /\ \A i \in DOMAIN v.items : AlikeParts(v.items[i], w.items[i])
    BY <2>2, PartsNormalize DEF v, w
  <2>3. CASE Alike(v, w) /\ ~(k = "content" /\ IsList(v))
    <3>1. ~(k = "content" /\ IsList(w))
      BY <2>3 DEF Alike, SameSetting, SameDict, IsDict, IsList, IsText
    <3> QED BY <2>3, <3>1, AlikeNormalizes DEF v, w
  <2>4. CASE Alike(v, w) /\ k = "content" /\ IsList(v)
    <3>1. \/ v = w
          \/ /\ IsList(w)
             /\ DOMAIN v.items = DOMAIN w.items
             /\ \A i \in DOMAIN v.items : SameDict(v.items[i], w.items[i])
      BY <2>4 DEF Alike, SameSetting, SameDict, IsDict, IsList, IsText
    <3>2. CASE v = w
      BY <3>2 DEF v, w
    <3>3. CASE /\ IsList(w)
               /\ DOMAIN v.items = DOMAIN w.items
               /\ \A i \in DOMAIN v.items : SameDict(v.items[i], w.items[i])
      <4>1. \A i \in DOMAIN v.items : AlikeParts(v.items[i], w.items[i])
        BY <3>3 DEF AlikeParts, Alike, SameSetting
      <4> QED BY <2>2, <2>4, <3>3, <4>1
    <3> QED BY <3>1, <3>2, <3>3
  <2> QED BY <2>1, <2>2, <2>3, <2>4
<1>2. DOMAIN m.entries = DOMAIN n.entries
  BY DEF AlikeMessages
<1> HIDE DEF Form
<1>3. [k \in DOMAIN m.entries |-> Form(k, m.entries[k])]
      = [k \in DOMAIN n.entries |-> Form(k, n.entries[k])]
  BY <1>1, <1>2
<1> QED BY <1>3 DEF CanonicalizeMessage, Form

LEMMA PromptsNormalize ==
    ASSUME NEW v, NEW w, SamePrompt(v, w)
    PROVE  NormalizeText(Str(v)) = NormalizeText(Str(w))
<1>1. CASE v = w
  BY <1>1
<1>2. CASE IsText(v) /\ IsText(w) /\ v.words = w.words
  <2>1. Str(v) = v /\ Str(w) = w
    BY <1>2 DEF Str
  <2> QED BY <1>2, <2>1 DEF NormalizeText
<1> QED BY <1>1, <1>2 DEF SamePrompt

(* bool() and True, False undo each other.                                  *)
LEMMA BoolsRead == ~Falsy(Bool(TRUE)) /\ Falsy(Bool(FALSE))
<1>1. Bool(TRUE) # Null /\ DOMAIN Bool(TRUE) = {"datum"}
  BY NullAssumption DEF Bool, Scalar
<1>2. \A datum \in {"false", "0", "0.0", "-0.0"} : Bool(TRUE) # Scalar(datum)
  BY DEF Bool, Scalar
<1>3. Bool(TRUE) # Text("", "single") /\ ~IsList(Bool(TRUE)) /\ ~IsDict(Bool(TRUE))
  <2>1. "words" \in DOMAIN Text("", "single") /\ "words" \notin DOMAIN Bool(TRUE)
    BY <1>1 DEF Text
  <2>2. "items" \notin DOMAIN Bool(TRUE) /\ "order" \notin DOMAIN Bool(TRUE)
    BY <1>1
  <2> QED BY <2>1, <2>2 DEF IsList, IsDict
<1> QED BY <1>1, <1>2, <1>3 DEF Falsy, Bool

(* The same request in other words has the same canonical form, whether it  *)
(* is taken of the body as given or of the body that goes upstream: the     *)
(* response cached under one is found, and dropped, under the other         *)
(* (key.py:17, pipeline.py:221,469).                                        *)
THEOREM OneFormPerRequest ==
    ASSUME NEW b, NEW c, ~Unset(b, "messages"), ~Unset(c, "messages"), SameRequest(b, c)
    PROVE  CanonicalizeRequest(b) = CanonicalizeRequest(Outgoing(c))
<1> DEFINE out == Outgoing(c)
           Set(body) == {field \in ResponseAffecting : ~Unset(body, field)}
           Prompt(body) == {"prompt"} \intersect DOMAIN body
           Fields(body) == Set(body) \union {"messages"} \union Prompt(body) \union {"stream"}
           Form(body, field) ==
               CASE field = "stream" -> StreamFlag(body)
                 [] field = "messages" ->
                       [i \in DOMAIN body["messages"] |-> CanonicalizeMessage(body["messages"][i])]
                 [] field = "prompt" -> NormalizeText(Str(body["prompt"]))
                 [] OTHER -> Sortable(body[field])
<1>1. /\ DOMAIN out = DOMAIN c \union {"stream"}
      /\ \A field \in DOMAIN c \ {"stream"} : out[field] = c[field]
      /\ out["stream"] = Bool(StreamFlag(c))
  BY DEF Outgoing
<1>2. StreamFlag(out) = StreamFlag(c)
  <2>1. StreamFlag(c) \in BOOLEAN /\ StreamFlag(out) \in BOOLEAN
    BY DEF StreamFlag
  <2>2. StreamFlag(out) <=> ~Falsy(Bool(StreamFlag(c)))
    BY <1>1 DEF StreamFlag
  <2>3. CASE StreamFlag(c) = TRUE
    BY <2>1, <2>2, <2>3, BoolsRead
  <2>4. CASE StreamFlag(c) = FALSE
    BY <2>1, <2>2, <2>4, BoolsRead
  <2> QED BY <2>1, <2>3, <2>4
<1>3. \A field : field # "stream" => (Unset(out, field) <=> Unset(c, field))
  BY <1>1 DEF Unset
<1>4. \A field \in ResponseAffecting :
        /\ field \notin {"stream", "messages", "prompt"} \union Cosmetic
        /\ Unset(b, field) <=> Unset(c, field)
        /\ ~Unset(b, field) => SameSetting(b[field], c[field])
  BY DEF SameRequest, SameSettings, ResponseAffecting, Cosmetic, Unset
<1> HIDE DEF out
<1>5. Set(b) = Set(out)
  BY <1>3, <1>4
<1>6. Prompt(b) = Prompt(out)
  BY <1>1 DEF SameRequest
<1>7. ~Unset(out, "messages")
  BY <1>3
<1>8. ASSUME NEW field \in Fields(b)
      PROVE  Form(b, field) = Form(out, field)
  <2>1. CASE field = "stream"
    BY <1>2, <2>1 DEF SameRequest, SameSettings
  <2>2. CASE field = "messages"
    <3>1. out["messages"] = c["messages"]
      BY <1>1 DEF Unset
    <3>2. DOMAIN b["messages"] = DOMAIN c["messages"]
      BY DEF SameRequest
    <3>3. \A i \in DOMAIN b["messages"] :
            CanonicalizeMessage(b["messages"][i]) = CanonicalizeMessage(c["messages"][i])
      BY MessagesNormalize DEF SameRequest
    <3> QED BY <2>2, <3>1, <3>2, <3>3
  <2>3. CASE field = "prompt" /\ field \in DOMAIN b
    <3>1. SamePrompt(b["prompt"], out["prompt"])
      BY <1>1, <2>3 DEF SameRequest
    <3>2. NormalizeText(Str(b["prompt"])) = NormalizeText(Str(out["prompt"]))
      BY <3>1, PromptsNormalize
    <3> QED BY <2>3, <3>2
  <2>4. CASE field \in Set(b)
    <3>1. field \notin {"stream", "messages", "prompt"}
      BY <1>4, <2>4
    <3>2. out[field] = c[field] /\ SameSetting(b[field], c[field])
      BY <1>1, <1>4, <2>4, <3>1 DEF Unset
    <3>3. Sortable(b[field]) = Sortable(out[field])
      BY <3>2, SettingSorts
    <3> QED BY <3>1, <3>3
  <2> QED BY <2>1, <2>2, <2>3, <2>4
<1>9. Fields(b) = Fields(out)
  BY <1>5, <1>6
<1>10. ASSUME NEW body, ~Unset(body, "messages")
       PROVE  CanonicalizeRequest(body) = [field \in Fields(body) |-> Form(body, field)]
  <2>1. {"messages"} \ {f \in {"messages"} : Unset(body, f)} = {"messages"}
    BY <1>10
  <2> QED BY <2>1 DEF CanonicalizeRequest
<1> HIDE DEF Fields, Form
<1>11. [field \in Fields(b) |-> Form(b, field)] = [field \in Fields(out) |-> Form(out, field)]
  BY <1>8, <1>9
<1> QED BY <1>7, <1>10, <1>11 DEF out

-----------------------------------------------------------------------------
LEMMA KeysAreDigests ==
    ASSUME NEW body \in Bodies
    PROVE  GivenKey[body] \in Keys /\ RequestKey[body] \in Keys
BY BodyAssumption DEF GivenKey, RequestKey, Range

LEMMA MeteredStep == [MeteredNext]_meteredVars => [Next]_vars
<1> SUFFICES ASSUME [MeteredNext]_meteredVars
             PROVE  [Next]_vars
  OBVIOUS
<1>1. ASSUME NEW r \in Tasks, MeteredArrive(r) \/ MeteredEmbedded(r) \/ MeteredReply(r)
                              \/ MeteredFilled(r) \/ MeteredFailure(r) \/ Unmetered(r)
      PROVE  Arrive(r) \/ Progress(r) \/ Cancel(r)
  BY <1>1 DEF MeteredArrive, MeteredEmbedded, MeteredReply, MeteredFilled,
              MeteredFailure, Unmetered, Progress
<1>2. ASSUME NEW body \in Bodies, InvalidateBody(body)
      PROVE  Environment
  BY <1>2, KeysAreDigests DEF InvalidateBody, Environment
<1>3. CASE Others
  BY <1>3 DEF Others, Environment, Next
<1>4. CASE UNCHANGED meteredVars
  BY <1>4 DEF meteredVars
<1> QED BY <1>1, <1>2, <1>3, <1>4 DEF MeteredNext, Next

(* With bodies, replies and the registry around it, the request path is the *)
(* one of FusionCache, and what is proved of that holds here.               *)
THEOREM MeteredImplements == MeteredSpec => Spec
<1>1. MeteredInit => Init
  BY DEF MeteredInit
<1> QED BY <1>1, MeteredStep, PTL DEF MeteredSpec, Spec

(* Under every configuration and fault, callers of the pipeline with its    *)
(* bodies are served what suits the request and came whole, with one call   *)
(* per canonical form at a time, and older than the last flush before them  *)
(* only after a race (pipeline.py:208-406).                                 *)
THEOREM MeteredServes ==
    MeteredSpec =>
        IsAnswerService /\ []OneCallPerKey /\ []AnswersFit /\ []StaleOnlyIfRaced
BY MeteredImplements, SingleFlight, ServesAnswers, ServedFits, StaleMeansRaced, PTL

(* invalidate() drops what the body's request, in these or in other words,  *)
(* has cached: for all bodies, and under every configuration of the layers. *)
THEOREM InvalidateFinds == MeteredSpec => InvalidateReaches
<1>1. ASSUME TypeOK, NEW k \in Keys, NEW b \in BodiesOf[k], InvalidateBody(b)
      PROVE  /\ EnableExact => l1'[k] = NoResponse
             /\ EnableSemantic => l2'[k] = NoResponse
  <2>1. b \in Bodies /\ \E c \in Bodies : RequestKey[c] = k /\ SameRequest(b, c)
    BY <1>1 DEF BodiesOf
  <2>2. PICK c \in Bodies : RequestKey[c] = k /\ SameRequest(b, c)
    BY <2>1
  <2>3. CanonicalizeRequest(b) = CanonicalizeRequest(Outgoing(c))
    BY <2>1, <2>2, OneFormPerRequest, BodyAssumption
  <2>4. k = GivenKey[b]
    BY <2>1, <2>2, <2>3 DEF GivenKey, RequestKey
  <2> QED BY <1>1, <2>4 DEF InvalidateBody, Invalidate, TypeOK
<1>2. TypeOK /\ [MeteredNext]_meteredVars =>
        [\A k \in Keys :
            (EnableExact /\ l1'[k] # NoResponse) \/ (EnableSemantic /\ l2'[k] # NoResponse)
            => \A b \in BodiesOf[k] : ~InvalidateBody(b)]_meteredVars
  BY <1>1
<1> QED BY <1>2, MeteredImplements, TypeCorrect, PTL DEF MeteredSpec, InvalidateReaches

-----------------------------------------------------------------------------
(* RegistryAgrees, of a registry ls that is not yet the next one.           *)
Agrees(ls) ==
    /\ ls["exact"]["hits"] = stats["exact"]
    /\ ls["semantic"]["hits"] = stats["semantic"]
    /\ ls["shared"]["hits"] = stats["shared"]
    /\ ls["miss"]["misses"] = stats["misses"] + ls["miss"]["errors"]
    /\ ls["miss"]["saved"] + ls["shared"]["saved"] = stats["saved"]
    /\ ls["prefix"]["hits"] = prefixes

Registries == [Layers -> [Totals -> Nat]]

LEMMA RecordsType ==
    ASSUME NEW ls \in Registries, NEW layer \in Layers,
           NEW errors \in Nat, NEW saved \in Nat, NEW tokens \in Nat
    PROVE  Hit(ls, layer, saved, tokens) \in Registries
           /\ Missed(ls, layer, errors, saved, tokens) \in Registries
BY DEF Hit, Missed, Registries, Totals

(* A failed embedding changes no number that the two accounts share.        *)
LEMMA EmbedErrorAgrees ==
    ASSUME NEW ls \in Registries, Agrees(ls)
    PROVE  LET next == Missed(ls, "semantic", 0, 0, 0) IN next \in Registries /\ Agrees(next)
BY RecordsType DEF Agrees, Missed, Registries, Layers, Totals

(* A hit upstream is a hit of both accounts: hit tokens and savings, of     *)
(* which the two take note, come together unless hits are the dearer ones.  *)
LEMMA UsageTypes ==
    ASSUME NEW k \in Keys
    PROVE  /\ Saving[k] \in Nat /\ Usage[k].hit \in Nat
           /\ Saving[k] > 0 => Usage[k].hit > 0
<1>1. Usage[k] \in Breakdown /\ Saving[k] = Rebate(Usage[k])
  BY UsageAssumption, SavedIsRebate
<1>2. Usage[k].hit \in Nat
  BY <1>1 DEF Breakdown
<1>3. ASSUME NEW p \in Nat
      PROVE  0 * p = 0
  OBVIOUS
<1>4. CASE Usage[k].hit = 0
  BY <1>1, <1>2, <1>3, <1>4, PriceAssumption, CacheAssumption DEF Rebate
<1>5. CASE Usage[k].hit > 0
  BY <1>2, <1>5, CacheAssumption
<1> QED BY <1>2, <1>4, <1>5

LEMMA OutcomeAgrees ==
    ASSUME TypeOK, prefixes \in Nat, NEW ls \in Registries, Agrees(ls),
           NEW r \in Tasks, Counted(r), pc'[r] = "shared" => waits[r] \in Tasks,
           Outcome(r, ls)
    PROVE  (RegistryAgrees /\ MeteredTypeOK)'
<1> USE DEF Registries, Layers, Totals
<1>1. req[r] \in Keys /\ stats \in [Counters -> Nat]
  BY DEF TypeOK
<1>2. CASE pc'[r] \notin Served \union {"rejected"}
  BY <1>2 DEF Outcome, Counted, Agrees, RegistryAgrees, MeteredTypeOK, Served
<1>3. CASE pc'[r] \in {"exact", "semantic"}
  <2>1. layers' = Hit(ls, pc'[r], 0, 0) /\ prefixes' = prefixes /\ Record(pc'[r], 0)
    BY <1>3 DEF Outcome, Counted, Savings, Served
  <2>2. layers' \in Registries
    BY <1>3, <2>1, RecordsType
  <2> QED BY <1>1, <1>3, <2>1, <2>2
          DEF Hit, Record, Counters, Agrees, RegistryAgrees, MeteredTypeOK
<1>4. CASE pc'[r] = "shared"
  <2> DEFINE k == req[waits[r]]
  <2>1. k \in Keys
    BY <1>4 DEF TypeOK
  <2>2. /\ layers' = Hit(ls, "shared", Saving[k], Usage[k].hit)
        /\ prefixes' = prefixes /\ Record("shared", Saving[k])
    BY <1>4 DEF Outcome, Counted, Savings, Served
  <2> HIDE DEF k
  <2>3. layers' \in Registries
    BY <2>1, <2>2, RecordsType, UsageTypes
  <2> QED BY <1>1, <2>1, <2>2, <2>3, UsageTypes
          DEF Hit, Record, Counters, Agrees, RegistryAgrees, MeteredTypeOK
<1>5. CASE pc'[r] = "rejected"
  <2>1. layers' = Missed(ls, "miss", 0, 0, 0) /\ prefixes' = prefixes /\ Record("rejected", 0)
    BY <1>5 DEF Outcome, Counted, Savings, Served
  <2>2. layers' \in Registries
    BY <2>1, RecordsType
  <2> QED BY <1>1, <2>1, <2>2
          DEF Missed, Record, Counters, Agrees, RegistryAgrees, MeteredTypeOK
<1>6. CASE pc'[r] = "miss"
  <2> DEFINE k == req[r]
             missed == Missed(ls, "miss", 0, Saving[k], Usage[k].hit)
  <2>1. /\ layers' = Completed(ls, k)
        /\ prefixes' = IF PrefixHit(k) THEN prefixes + 1 ELSE prefixes
        /\ Record("miss", Saving[k])
    BY <1>6 DEF Outcome, Counted, Savings, Served
  <2>2. missed \in Registries
    BY <1>1, RecordsType, UsageTypes
  <2>3. /\ missed["exact"]["hits"] = stats'["exact"]
        /\ missed["semantic"]["hits"] = stats'["semantic"]
        /\ missed["shared"]["hits"] = stats'["shared"]
        /\ missed["miss"]["misses"] = stats'["misses"] + missed["miss"]["errors"]
        /\ missed["miss"]["saved"] + missed["shared"]["saved"] = stats'["saved"]
        /\ missed["prefix"]["hits"] = prefixes
    BY <1>1, <2>1, UsageTypes DEF Missed, Record, Counters, Agrees
  <2>4. layers' = IF Usage[k].hit # 0 THEN Hit(missed, "prefix", 0, Usage[k].hit) ELSE missed
    BY <2>1 DEF Completed
  <2>5. PrefixHit(k) <=> Usage[k].hit # 0
    BY <1>1, UsageTypes DEF PrefixHit
  <2> HIDE DEF missed, k
  <2>6. CASE Usage[k].hit = 0
    BY <2>1, <2>2, <2>3, <2>4, <2>5, <2>6 DEF RegistryAgrees, MeteredTypeOK
  <2>7. CASE Usage[k].hit # 0
    <3>1. layers' = Hit(missed, "prefix", 0, Usage[k].hit) /\ prefixes' = prefixes + 1
      BY <2>1, <2>4, <2>5, <2>7
    <3>2. layers' \in Registries
      BY <1>1, <2>2, <3>1, RecordsType, UsageTypes DEF k
    <3> QED BY <2>2, <2>3, <3>1, <3>2 DEF Hit, RegistryAgrees, MeteredTypeOK
  <2> QED BY <2>6, <2>7
<1> QED BY <1>2, <1>3, <1>4, <1>5, <1>6 DEF Served

(* The registry and the statistics, updated by other rules in other places, *)
(* give the same account of the same requests in every state.               *)
THEOREM AccountsAgree == MeteredSpec => [](MeteredTypeOK /\ RegistryAgrees)
<1>1. MeteredInit => MeteredTypeOK /\ RegistryAgrees
  BY DEF MeteredInit, Init, MeteredTypeOK, RegistryAgrees, Layers, Totals, Counters
<1>2. ASSUME TypeOK, MeteredTypeOK, RegistryAgrees, [MeteredNext]_meteredVars
      PROVE  (MeteredTypeOK /\ RegistryAgrees)'
  <2> DEFINE failed == Missed(layers, "semantic", 0, 0, 0)
  <2>1. layers \in Registries /\ Agrees(layers) /\ prefixes \in Nat
    BY <1>2 DEF MeteredTypeOK, RegistryAgrees, Agrees, Registries
  <2>2. failed \in Registries /\ Agrees(failed)
    BY <2>1, EmbedErrorAgrees
  <2> HIDE DEF failed
  <2>3. ASSUME NEW r \in Tasks, MeteredArrive(r) \/ MeteredReply(r)
        PROVE  (MeteredTypeOK /\ RegistryAgrees)'
    BY <1>2, <2>1, <2>3, StepCounted, OutcomeAgrees DEF MeteredArrive, MeteredReply
  <2>4. ASSUME NEW r \in Tasks, MeteredEmbedded(r) \/ MeteredFilled(r)
        PROVE  (MeteredTypeOK /\ RegistryAgrees)'
    <3>1. /\ Embedded(r) \/ Filled(r)
          /\ Outcome(r, layers) \/ Outcome(r, failed)
      BY <2>4 DEF MeteredEmbedded, MeteredFilled, EmbedError, failed
    <3> QED BY <1>2, <2>1, <2>2, <3>1, StepCounted, OutcomeAgrees
  <2>5. ASSUME NEW r \in Tasks, MeteredFailure(r)
        PROVE  (MeteredTypeOK /\ RegistryAgrees)'
    <3>1. layers' = Missed(layers, "miss", 1, 0, 0) /\ UNCHANGED <<prefixes, stats>>
      BY <2>5 DEF MeteredFailure, UpstreamFails, Move
    <3>2. layers' \in Registries
      BY <2>1, <3>1, RecordsType DEF Layers
    <3>3. stats \in [Counters -> Nat]
      BY <1>2 DEF TypeOK
    <3> QED BY <2>1, <3>1, <3>2, <3>3
            DEF Missed, Agrees, RegistryAgrees, MeteredTypeOK, Registries, Layers, Totals, Counters
  <2>6. ASSUME NEW r \in Tasks, Unmetered(r)
        PROVE  (MeteredTypeOK /\ RegistryAgrees)'
    BY <1>2, <2>6 DEF Unmetered, StreamBreaks, CancelledWith, Cancel, Move, metrics,
                      MeteredTypeOK, RegistryAgrees
  <2>7. ASSUME NEW body \in Bodies, InvalidateBody(body)
        PROVE  UNCHANGED <<layers, prefixes, stats>>
    BY <2>7 DEF InvalidateBody, Invalidate, others, metrics
  <2>8. CASE Others
    <3>1. UNCHANGED stats
      BY <2>8 DEF Others, Expire, InvalidateAll, Tick, ReadStatus, others
    <3> QED BY <1>2, <2>8, <3>1 DEF Others, metrics, MeteredTypeOK, RegistryAgrees
  <2>9. CASE UNCHANGED meteredVars
    <3>1. UNCHANGED vars /\ UNCHANGED metrics
      BY <2>9 DEF meteredVars
    <3> QED BY <1>2, <3>1 DEF vars, metrics, MeteredTypeOK, RegistryAgrees
  <2>10. UNCHANGED <<layers, prefixes, stats>> => (MeteredTypeOK /\ RegistryAgrees)'
    BY <1>2 DEF MeteredTypeOK, RegistryAgrees
  <2> QED BY <1>2, <2>3, <2>4, <2>5, <2>6, <2>7, <2>8, <2>9, <2>10 DEF MeteredNext
<1> QED BY <1>1, <1>2, MeteredImplements, TypeCorrect, PTL DEF MeteredSpec

-----------------------------------------------------------------------------
(* What a step records of savings, of a registry ls that has those of now.  *)
LEMMA OutcomeSaves ==
    ASSUME TypeOK, NEW ls \in Registries, ls["miss"]["saved"] = layers["miss"]["saved"],
           NEW r \in Tasks, Outcome(r, ls)
    PROVE  layers'["miss"]["saved"] =
               layers["miss"]["saved"] + IF pc'[r] = "miss" THEN Saving[req[r]] ELSE 0
<1> USE DEF Registries, Layers, Totals
<1>1. CASE pc'[r] = "miss"
  <2> DEFINE missed == Missed(ls, "miss", 0, Saving[req[r]], Usage[req[r]].hit)
  <2>1. missed["miss"]["saved"] = layers["miss"]["saved"] + Saving[req[r]]
        /\ missed \in [Layers -> [Totals -> Int \union Nat]]
    BY UsageTypes DEF Missed, TypeOK
  <2>2. layers' \in {missed, Hit(missed, "prefix", 0, Usage[req[r]].hit)}
    BY <1>1 DEF Outcome, Completed
  <2> HIDE DEF missed
  <2>3. layers'["miss"]["saved"] = missed["miss"]["saved"]
    BY <2>1, <2>2 DEF Hit
  <2> QED BY <1>1, <2>1, <2>3
<1>2. CASE pc'[r] # "miss"
  BY <1>2 DEF Outcome, Hit, Missed
<1> QED BY <1>1, <1>2

(* Every step moves at most one request, which had not ended, and records   *)
(* its savings if it ends with a call of its own.                           *)
LEMMA StepSaves ==
    ASSUME TypeOK, MeteredTypeOK, MeteredNext
    PROVE  \/ pc' = pc /\ layers' = layers
           \/ \E r \in Tasks, phase \in Phases :
                 /\ pc[r] \notin Ended
                 /\ pc' = [pc EXCEPT ![r] = phase]
                 /\ layers'["miss"]["saved"] =
                        layers["miss"]["saved"] + IF phase = "miss" THEN Saving[req[r]] ELSE 0
<1> DEFINE failed == Missed(layers, "semantic", 0, 0, 0)
           Saves(r) == layers'["miss"]["saved"] =
                           layers["miss"]["saved"] + IF pc'[r] = "miss" THEN Saving[req[r]] ELSE 0
<1>1. /\ layers \in Registries /\ failed \in Registries
      /\ failed["miss"]["saved"] = layers["miss"]["saved"]
      /\ layers["miss"]["saved"] \in Nat
  BY RecordsType DEF MeteredTypeOK, Registries, Missed, Layers, Totals
<1>2. ASSUME NEW r \in Tasks, MeteredArrive(r) \/ MeteredEmbedded(r) \/ MeteredReply(r)
                              \/ MeteredFilled(r) \/ MeteredFailure(r) \/ Unmetered(r)
      PROVE  Saves(r) /\ (Arrive(r) \/ Progress(r) \/ Cancel(r))
  <2>1. Arrive(r) \/ Progress(r) \/ Cancel(r)
    BY <1>2 DEF MeteredArrive, MeteredEmbedded, MeteredReply, MeteredFilled,
                MeteredFailure, Unmetered, Progress
  <2>2. CASE Outcome(r, layers) \/ Outcome(r, failed)
    BY <1>1, <2>1, <2>2, OutcomeSaves
  <2>3. CASE MeteredFailure(r)
    <3>1. pc'[r] # "miss"
      BY <2>3 DEF MeteredFailure, UpstreamFails, Move, TypeOK
    <3>2. layers'["miss"]["saved"] = layers["miss"]["saved"] + 0
      BY <1>1, <2>3 DEF MeteredFailure, Missed, Registries, Layers, Totals
    <3> QED BY <2>1, <3>1, <3>2
  <2>4. CASE Unmetered(r)
    <3>1. pc'[r] # "miss" /\ layers' = layers
      BY <2>4 DEF Unmetered, StreamBreaks, CancelledWith, Cancel, Move, metrics, TypeOK
    <3> QED BY <1>1, <2>1, <3>1
  <2>5. \/ Outcome(r, layers) \/ Outcome(r, failed)
        \/ MeteredFailure(r) \/ Unmetered(r)
    BY <1>2 DEF MeteredArrive, MeteredEmbedded, MeteredReply, MeteredFilled, EmbedError
  <2> HIDE DEF failed, Saves
  <2> QED BY <2>1, <2>2, <2>3, <2>4, <2>5
<1>3. ASSUME NEW body \in Bodies, InvalidateBody(body)
      PROVE  pc' = pc /\ layers' = layers
  BY <1>3 DEF InvalidateBody, Invalidate, others, metrics
<1>4. CASE Others
  BY <1>4 DEF Others, Expire, InvalidateAll, Tick, ReadStatus, others, metrics
<1>5. ASSUME NEW r \in Tasks, Saves(r), Arrive(r) \/ Progress(r) \/ Cancel(r)
      PROVE  \E phase \in Phases :
                 /\ pc[r] \notin Ended
                 /\ pc' = [pc EXCEPT ![r] = phase]
                 /\ layers'["miss"]["saved"] =
                        layers["miss"]["saved"] + IF phase = "miss" THEN Saving[req[r]] ELSE 0
  BY <1>5, OneMoves DEF TypeOK
<1> HIDE DEF failed, Saves
<1> QED BY <1>2, <1>3, <1>4, <1>5 DEF MeteredNext

(* Whatever usage the replies report, the savings of the registry's miss    *)
(* layer are the rebates on the tokens that the upstream had cached for the *)
(* requests with a call of their own, none counted twice or left out        *)
(* (accounting.py:12, pipeline.py:360,399).                                 *)
THEOREM SavingsAreExact == IsFiniteSet(Tasks) /\ MeteredSpec => []SavingsAreRebates
<1> SUFFICES ASSUME IsFiniteSet(Tasks)
             PROVE  MeteredSpec => []SavingsAreRebates
  OBVIOUS
<1> DEFINE rebate == [r \in Tasks |-> Rebate(Usage[req[r]])]
           called == {r \in Tasks : pc[r] = "miss"}
           saved == layers["miss"]["saved"]
<1>1. ASSUME MeteredInit
      PROVE  SavingsAreRebates
  <2>1. called = {} /\ saved = 0
    BY <1>1 DEF MeteredInit, Init, Layers, Totals
  <2>2. SumFunctionOnSet(rebate, {}) = 0
    BY SumAdds, FS_EmptySet
  <2> QED BY <2>1, <2>2 DEF SavingsAreRebates
<1>2. ASSUME TypeOK, MeteredTypeOK, SavingsAreRebates, [MeteredNext]_meteredVars
      PROVE  SavingsAreRebates'
  <2>1. req' = req /\ rebate' = rebate
    BY <1>2, MeteredStep, FlightStep
  <2>2. /\ \A r \in Tasks : rebate[r] \in Nat /\ rebate[r] = Saving[req[r]]
        /\ IsFiniteSet(called) /\ IsFiniteSet(called')
    BY <1>2, UsageAssumption, SavedIsRebate, UsageTypes, FS_Subset DEF TypeOK
  <2>3. saved = SumFunctionOnSet(rebate, called)
    BY <1>2 DEF SavingsAreRebates
  <2>4. saved' = SumFunctionOnSet(rebate, called') => SavingsAreRebates'
    BY <2>1 DEF SavingsAreRebates
  <2> HIDE DEF rebate
  <2>5. CASE pc' = pc /\ layers' = layers
    BY <2>3, <2>4, <2>5
  <2>6. ASSUME NEW r \in Tasks, NEW phase \in Phases,
               pc[r] \notin Ended, pc' = [pc EXCEPT ![r] = phase],
               saved' = saved + IF phase = "miss" THEN Saving[req[r]] ELSE 0
        PROVE  SavingsAreRebates'
    <3>1. saved \in Nat /\ r \notin called
      BY <1>2, <2>6 DEF MeteredTypeOK, Layers, Totals, Ended, Served
    <3>2. CASE phase = "miss"
      <4>1. called' = called \union {r}
        BY <1>2, <2>6, <3>2 DEF TypeOK
      <4>2. r \in called' /\ called' \ {r} = called /\ \A t \in called' : rebate[t] \in Nat
        BY <2>2, <3>1, <4>1
      <4> HIDE DEF called, saved
      <4>3. SumFunctionOnSet(rebate, called') = rebate[r] + SumFunctionOnSet(rebate, called)
        BY <2>2, <4>2, SumAdds
      <4> QED BY <2>2, <2>3, <2>4, <2>6, <3>1, <3>2, <4>3
    <3>3. CASE phase # "miss"
      <4>1. called' = called
        BY <1>2, <2>6, <3>1, <3>3 DEF TypeOK
      <4> HIDE DEF called, saved
      <4> QED BY <2>3, <2>4, <2>6, <3>1, <3>3, <4>1
    <3> QED BY <3>2, <3>3
  <2>7. CASE UNCHANGED meteredVars
    <3>1. pc' = pc /\ layers' = layers
      BY <2>7 DEF meteredVars, vars, metrics
    <3> QED BY <2>5, <3>1
  <2> QED BY <1>2, <2>5, <2>6, <2>7, StepSaves
<1> QED BY <1>1, <1>2, MeteredImplements, TypeCorrect, AccountsAgree, PTL DEF MeteredSpec

-----------------------------------------------------------------------------
(* The way back from a canonical form, value by value.                      *)
LEMMA MemberRead ==
    ASSUME NEW v, NEW w, ReadableMember(v), ReadableMember(w), Unordered(v) = Unordered(w)
    PROVE  SameDict(v, w)
BY DEF ReadableMember, Unordered, SameDict, IsDict, Shapes

LEMMA SettingRead ==
    ASSUME NEW v, NEW w, Readable(v), Readable(w), Sortable(v) = Sortable(w)
    PROVE  SameSetting(v, w)
<1>1. CASE IsList(v) /\ IsList(w)
  <2>1. /\ DOMAIN v.items = DOMAIN w.items
        /\ \A i \in DOMAIN v.items : Unordered(v.items[i]) = Unordered(w.items[i])
    <3> DEFINE Forms(items) == [i \in DOMAIN items |-> Unordered(items[i])]
    <3>1. List(Forms(v.items)) = List(Forms(w.items))
      BY <1>1 DEF Sortable
    <3>2. Forms(v.items) = Forms(w.items)
      BY <3>1 DEF List
    <3>3. /\ DOMAIN Forms(v.items) = DOMAIN v.items
          /\ DOMAIN Forms(w.items) = DOMAIN w.items
          /\ \A i \in DOMAIN v.items : Forms(v.items)[i] = Unordered(v.items[i])
          /\ \A i \in DOMAIN w.items : Forms(w.items)[i] = Unordered(w.items[i])
      OBVIOUS
    <3> HIDE DEF Forms
    <3> QED BY <3>2, <3>3
  <2>2. \A i \in DOMAIN v.items : SameDict(v.items[i], w.items[i])
    BY <1>1, <2>1, MemberRead DEF Readable
  <2> QED BY <1>1, <2>1, <2>2 DEF SameSetting
<1>2. CASE ~IsList(v) /\ ~IsList(w)
  BY <1>2, MemberRead DEF Readable, Sortable, SameSetting
<1>3. ASSUME NEW x, NEW y, Readable(x), Readable(y), IsList(x), ~IsList(y),
             Sortable(x) = Sortable(y)
      PROVE  FALSE
  <2>1. /\ Sortable(x) # Null
        /\ DOMAIN Sortable(x) = {"items"}
    BY <1>3 DEF Readable, ReadableMember, Sortable, NormalizeIfText, IsList, IsText, List
  <2> QED BY <1>3, <2>1 DEF Readable, ReadableMember, Sortable, Unordered, IsList, IsDict, Shapes
<1> QED BY <1>1, <1>2, <1>3

LEMMA ValueRead ==
    ASSUME NEW v, NEW w, Readable(v), Readable(w), NormalizeIfText(v) = NormalizeIfText(w)
    PROVE  Alike(v, w)
<1>1. CASE IsText(v) /\ IsText(w)
  BY <1>1 DEF NormalizeIfText, NormalizeText, Text, Alike
<1>2. CASE ~IsText(v) /\ ~IsText(w)
  BY <1>2, SettingRead DEF NormalizeIfText, Alike
<1>3. ASSUME NEW x, NEW y, Readable(x), Readable(y), IsText(x), ~IsText(y),
             NormalizeIfText(x) = NormalizeIfText(y)
      PROVE  FALSE
  <2>1. /\ Sortable(y) # Null
        /\ DOMAIN Sortable(y) = {"words", "spacing"}
    BY <1>3 DEF Readable, ReadableMember, NormalizeIfText, NormalizeText, Text, IsText
  <2> QED BY <1>3, <2>1
          DEF Readable, ReadableMember, Sortable, Unordered, IsText, IsList, IsDict, List, Shapes
<1> QED BY <1>1, <1>2, <1>3

LEMMA PartRead ==
    ASSUME NEW p, NEW q, ReadablePart(p), ReadablePart(q), NormalizePart(p) = NormalizePart(q)
    PROVE  AlikeParts(p, q)
<1>1. CASE IsDict(p) /\ IsDict(q)
  <2>1. /\ DOMAIN p.entries = DOMAIN q.entries
        /\ \A k \in DOMAIN p.entries :
              NormalizeIfText(p.entries[k]) = NormalizeIfText(q.entries[k])
    <3> DEFINE Forms(entries) == [k \in DOMAIN entries |-> NormalizeIfText(entries[k])]
    <3>1. Forms(p.entries) = Forms(q.entries)
      BY <1>1 DEF NormalizePart
    <3>2. /\ DOMAIN Forms(p.entries) = DOMAIN p.entries
          /\ DOMAIN Forms(q.entries) = DOMAIN q.entries
          /\ \A k \in DOMAIN p.entries : Forms(p.entries)[k] = NormalizeIfText(p.entries[k])
          /\ \A k \in DOMAIN q.entries : Forms(q.entries)[k] = NormalizeIfText(q.entries[k])
      OBVIOUS
    <3> HIDE DEF Forms
    <3> QED BY <3>1, <3>2
  <2>2. \A k \in DOMAIN p.entries : Alike(p.entries[k], q.entries[k])
    BY <1>1, <2>1, ValueRead DEF ReadablePart
  <2> QED BY <1>1, <2>1, <2>2 DEF AlikeParts
<1>2. CASE ~IsDict(p) /\ ~IsDict(q)
  BY <1>2, ValueRead DEF ReadablePart, NormalizePart, AlikeParts
<1>3. ASSUME NEW x, NEW y, ReadablePart(x), ReadablePart(y), IsDict(x), ~IsDict(y),
             NormalizePart(x) = NormalizePart(y)
      PROVE  FALSE
  <2>1. /\ NormalizeIfText(y) # Null
        /\ DOMAIN NormalizeIfText(y) \notin Shapes
    <3>1. /\ DOMAIN NormalizePart(x) = DOMAIN x.entries
          /\ NormalizePart(x) # Null
      BY <1>3 DEF NormalizePart, ReadablePart
    <3>2. DOMAIN x.entries \notin Shapes
      BY <1>3 DEF ReadablePart, Readable, ReadableMember, IsDict
    <3> QED BY <1>3, <3>1, <3>2 DEF NormalizePart
  <2> QED BY <1>3, <2>1
          DEF ReadablePart, Readable, ReadableMember, NormalizeIfText, NormalizeText, Text, List,
              Sortable, Unordered, IsText, IsList, IsDict, Shapes
<1> QED BY <1>1, <1>2, <1>3

LEMMA MessageRead ==
    ASSUME NEW m, NEW n, ReadableMessage(m), ReadableMessage(n),
           CanonicalizeMessage(m) = CanonicalizeMessage(n)
    PROVE  AlikeMessages(m, n)
<1> DEFINE Parts(items) == [i \in DOMAIN items |-> NormalizePart(items[i])]
           Form(k, value) == IF k = "content" /\ IsList(value) THEN List(Parts(value.items))
                             ELSE NormalizeIfText(value)
           Forms(entries) == [k \in DOMAIN entries |-> Form(k, entries[k])]
<1>1. \A x : CanonicalizeMessage(x) = Forms(x.entries)
  BY DEF CanonicalizeMessage
<1>2. \A items : /\ DOMAIN Parts(items) = DOMAIN items
                 /\ \A i \in DOMAIN items : Parts(items)[i] = NormalizePart(items[i])
  OBVIOUS
<1>3. \A entries : /\ DOMAIN Forms(entries) = DOMAIN entries
                   /\ \A k \in DOMAIN entries : Forms(entries)[k] = Form(k, entries[k])
  OBVIOUS
<1>4. \A k, value : /\ k = "content" /\ IsList(value) => Form(k, value) = List(Parts(value.items))
                    /\ ~(k = "content" /\ IsList(value)) => Form(k, value) = NormalizeIfText(value)
  OBVIOUS
<1> HIDE DEF Parts, Form, Forms
<1>5. /\ DOMAIN m.entries = DOMAIN n.entries
      /\ \A k \in DOMAIN m.entries : Form(k, m.entries[k]) = Form(k, n.entries[k])
  BY <1>1, <1>3
<1>6. ASSUME NEW x, ReadableMessage(x), NEW k \in DOMAIN x.entries
      PROVE  /\ Readable(x.entries[k])
             /\ k = "content" /\ IsList(x.entries[k]) =>
                   /\ Form(k, x.entries[k]) # Null
                   /\ \A i \in DOMAIN x.entries[k].items : ReadablePart(x.entries[k].items[i])
  BY <1>1, <1>3, <1>6 DEF ReadableMessage
<1>7. ASSUME NEW k \in DOMAIN m.entries
      PROVE  \/ Alike(m.entries[k], n.entries[k])
             \/ /\ k = "content" /\ IsList(m.entries[k]) /\ IsList(n.entries[k])
                /\ DOMAIN m.entries[k].items = DOMAIN n.entries[k].items
                /\ \A i \in DOMAIN m.entries[k].items :
                      AlikeParts(m.entries[k].items[i], n.entries[k].items[i])
  <2> DEFINE v == m.entries[k]
             w == n.entries[k]
             InParts(value) == k = "content" /\ IsList(value)
  <2>1. /\ Form(k, v) = Form(k, w)
        /\ Readable(v) /\ Readable(w)
        /\ InParts(v) => Form(k, v) # Null /\ \A i \in DOMAIN v.items : ReadablePart(v.items[i])
        /\ InParts(w) => Form(k, w) # Null /\ \A i \in DOMAIN w.items : ReadablePart(w.items[i])
    BY <1>5, <1>6
  <2> HIDE DEF v, w
  <2>2. CASE InParts(v) /\ InParts(w)
    <3>1. Parts(v.items) = Parts(w.items)
      BY <1>4, <2>1, <2>2 DEF List
    <3>2. /\ DOMAIN v.items = DOMAIN w.items
          /\ \A i \in DOMAIN v.items : NormalizePart(v.items[i]) = NormalizePart(w.items[i])
      BY <1>2, <3>1
    <3>3. \A i \in DOMAIN v.items : AlikeParts(v.items[i], w.items[i])
      BY <2>1, <2>2, <3>2, PartRead
    <3> QED BY <2>2, <3>2, <3>3 DEF v, w
  <2>3. CASE ~InParts(v) /\ ~InParts(w)
    BY <1>4, <2>1, <2>3, ValueRead DEF v, w
  <2>4. ASSUME NEW x, NEW y, Readable(y), InParts(x), ~InParts(y),
               Form(k, x) # Null, Form(k, x) = Form(k, y)
        PROVE  FALSE
    <3>1. /\ NormalizeIfText(y) # Null
          /\ DOMAIN NormalizeIfText(y) = {"items"}
      BY <1>4, <2>4 DEF List
    <3>2. ~IsList(y)
      BY <2>4
    <3> QED BY <2>4, <3>1, <3>2
            DEF Readable, ReadableMember, NormalizeIfText, NormalizeText, Text, Sortable, Unordered,
                IsText, IsList, IsDict, Shapes
  <2> QED BY <2>1, <2>2, <2>3, <2>4
<1> QED BY <1>5, <1>7 DEF AlikeMessages

(* The canonical form of a body, field by field.                            *)
Affecting(body) == {field \in ResponseAffecting : ~Unset(body, field)}

LEMMA FormOf ==
    ASSUME NEW body, ~Unset(body, "messages")
    PROVE  LET form == CanonicalizeRequest(body) IN
           /\ DOMAIN form = Affecting(body) \union {"messages", "stream"}
                             \union ({"prompt"} \intersect DOMAIN body)
           /\ form["stream"] = StreamFlag(body)
           /\ form["messages"] =
                 [i \in DOMAIN body["messages"] |-> CanonicalizeMessage(body["messages"][i])]
           /\ "prompt" \in DOMAIN body => form["prompt"] = NormalizeText(Str(body["prompt"]))
           /\ \A field \in Affecting(body) : form[field] = Sortable(body[field])
<1>1. {"messages"} \ {f \in {"messages"} : Unset(body, f)} = {"messages"}
  OBVIOUS
<1>2. \A field \in ResponseAffecting : field \notin {"stream", "messages", "prompt"}
  BY DEF ResponseAffecting
<1> QED BY <1>1, <1>2 DEF CanonicalizeRequest, Affecting

LEMMA SettingsRead ==
    ASSUME NEW b, NEW c, ~Unset(b, "messages"), ~Unset(c, "messages"), WellFormed(b), WellFormed(c),
           GuardView(CanonicalizeRequest(b)) = GuardView(CanonicalizeRequest(c))
    PROVE  SameSettings(b, c)
<1> DEFINE View(body) == GuardView(CanonicalizeRequest(body))
<1>1. \A field \in ResponseAffecting : field \notin {"stream", "messages", "prompt"}
  BY DEF ResponseAffecting
<1>2. ASSUME NEW body, ~Unset(body, "messages")
      PROVE  /\ DOMAIN View(body) = Affecting(body) \union {"stream"}
             /\ View(body)["stream"] = StreamFlag(body)
             /\ \A field \in Affecting(body) : View(body)[field] = Sortable(body[field])
  <2> DEFINE form == CanonicalizeRequest(body)
             kept == DOMAIN form \ {"messages", "prompt"}
  <2>1. View(body) = [field \in kept |-> form[field]]
    BY DEF GuardView, Restrict
  <2>2. kept = Affecting(body) \union {"stream"}
    <3>1. DOMAIN form = Affecting(body) \union {"messages", "stream"}
                        \union ({"prompt"} \intersect DOMAIN body)
      BY <1>2, FormOf
    <3>2. \A field \in Affecting(body) : field \notin {"stream", "messages", "prompt"}
      BY <1>1 DEF Affecting
    <3> HIDE DEF form
    <3> QED BY <3>1, <3>2
  <2>3. \A field \in kept : View(body)[field] = form[field]
    BY <2>1
  <2> QED BY <1>2, <2>1, <2>2, <2>3, FormOf
<1> HIDE DEF View
<1>3. View(b) = View(c)
  BY DEF View
<1>4. StreamFlag(b) = StreamFlag(c)
  BY <1>2, <1>3
<1>5. Affecting(b) = Affecting(c)
  <2>1. "stream" \notin Affecting(b) /\ "stream" \notin Affecting(c)
    BY <1>1 DEF Affecting
  <2>2. Affecting(b) \union {"stream"} = Affecting(c) \union {"stream"}
    BY <1>2, <1>3
  <2> QED BY <2>1, <2>2
<1>6. ASSUME NEW field \in Affecting(b)
      PROVE  SameSetting(b[field], c[field])
  <2>1. Sortable(b[field]) = Sortable(c[field])
    BY <1>2, <1>3, <1>5
  <2>2. Readable(b[field]) /\ Readable(c[field])
    BY <1>1, <1>5 DEF WellFormed, Affecting, Unset
  <2> QED BY <2>1, <2>2, SettingRead
<1>7. ASSUME NEW field \in (DOMAIN b \union DOMAIN c)
                            \ (Cosmetic \union {"messages", "prompt", "stream"})
      PROVE  \/ Unset(b, field) /\ Unset(c, field)
             \/ ~Unset(b, field) /\ ~Unset(c, field) /\ SameSetting(b[field], c[field])
  <2>1. field \in ResponseAffecting
    BY DEF WellFormed
  <2> QED BY <1>5, <1>6, <2>1 DEF Affecting
<1> QED BY <1>4, <1>7 DEF SameSettings

(* The converse of OneFormPerRequest: where two bodies have known fields    *)
(* only, and no prompt but a string, one canonical form means one request.  Nothing that the upstream   *)
(* heeds is left out of the key or confused with anything else (key.py:17). *)
THEOREM OneRequestPerForm ==
    ASSUME NEW b, NEW c, ~Unset(b, "messages"), ~Unset(c, "messages"), WellFormed(b), WellFormed(c),
           CanonicalizeRequest(b) = CanonicalizeRequest(c)
    PROVE  SameRequest(b, c)
<1>1. SameSettings(b, c)
  BY SettingsRead
<1>2. "prompt" \in DOMAIN b <=> "prompt" \in DOMAIN c
  <2>1. "prompt" \notin Affecting(b) /\ "prompt" \notin Affecting(c)
    BY DEF Affecting, ResponseAffecting
  <2>2. ASSUME NEW body, ~Unset(body, "messages"), "prompt" \notin Affecting(body)
        PROVE  "prompt" \in DOMAIN CanonicalizeRequest(body) <=> "prompt" \in DOMAIN body
    <3>1. DOMAIN CanonicalizeRequest(body) = Affecting(body) \union {"messages", "stream"}
                                             \union ({"prompt"} \intersect DOMAIN body)
      BY <2>2, FormOf
    <3> QED BY <2>2, <3>1
  <2> QED BY <2>1, <2>2
<1>3. ASSUME "prompt" \in DOMAIN b
      PROVE  SamePrompt(b["prompt"], c["prompt"])
  <2>1. NormalizeText(Str(b["prompt"])) = NormalizeText(Str(c["prompt"]))
    BY <1>2, <1>3, FormOf
  <2>2. IsText(b["prompt"]) /\ IsText(c["prompt"])
    BY <1>2, <1>3 DEF WellFormed
  <2> QED BY <2>1, <2>2 DEF Str, NormalizeText, Text, SamePrompt
<1>4. /\ DOMAIN b["messages"] = DOMAIN c["messages"]
      /\ \A i \in DOMAIN b["messages"] :
            CanonicalizeMessage(b["messages"][i]) = CanonicalizeMessage(c["messages"][i])
  <2> DEFINE Forms(messages) == [i \in DOMAIN messages |-> CanonicalizeMessage(messages[i])]
  <2>1. Forms(b["messages"]) = Forms(c["messages"])
    BY FormOf
  <2>2. \A messages :
          /\ DOMAIN Forms(messages) = DOMAIN messages
          /\ \A i \in DOMAIN messages : Forms(messages)[i] = CanonicalizeMessage(messages[i])
    OBVIOUS
  <2> HIDE DEF Forms
  <2> QED BY <2>1, <2>2
<1>5. \A i \in DOMAIN b["messages"] : AlikeMessages(b["messages"][i], c["messages"][i])
  BY <1>4, MessageRead DEF WellFormed
<1> QED BY <1>1, <1>2, <1>3, <1>4, <1>5 DEF SameRequest

LEMMA SameAsItself == \A body : SameRequest(body, body)
BY DEF SameRequest, SamePrompt, SameSettings, SameSetting, SameDict, Alike, AlikeMessages

(* The stream argument is that of the body: both are hashed alike.          *)
LEMMA KeyOfBody ==
    ASSUME NEW body \in Bodies
    PROVE  RequestKey[body] = Digest[CanonicalizeRequest(body)]
BY SameAsItself, OneFormPerRequest, BodyAssumption DEF RequestKey

(* Whatever bodies are on their way, no request is served the answer to     *)
(* another, or from L2 one made under other settings: the key keeps apart   *)
(* what must be, and the caches keep to the key (key.py:17, matcher.py:75). *)
THEOREM AnswersOfBodies ==
    (\A body \in Bodies : WellFormed(body)) /\ MeteredSpec => []AnswersMatchBodies
<1> SUFFICES ASSUME \A body \in Bodies : WellFormed(body)
             PROVE  MeteredSpec => []AnswersMatchBodies
  OBVIOUS
<1>1. ASSUME NEW b \in Bodies, NEW c \in Bodies, RequestKey[b] = RequestKey[c]
      PROVE  SameRequest(b, c)
  <2>1. CanonicalizeRequest(b) = CanonicalizeRequest(c)
    BY <1>1, KeyOfBody, BodyAssumption DEF IsInjective
  <2> QED BY <2>1, OneRequestPerForm, BodyAssumption
<1>2. ASSUME NEW b \in Bodies, NEW c \in Bodies,
             Settings[RequestKey[b]] = Settings[RequestKey[c]]
      PROVE  SameSettings(b, c)
  <2>1. GuardView(CanonicalizeRequest(b)) = GuardView(CanonicalizeRequest(c))
    BY <1>2, KeyOfBody, BodyAssumption
  <2> QED BY <2>1, SettingsRead, BodyAssumption
<1>3. ASSUME TypeOK, AnswersFit, NEW r \in Tasks, pc[r] \in Served
      PROVE  <<req[r], answer[r].key>> \in IF pc[r] = "semantic" THEN SettingsByKey ELSE SameByKey
  <2>1. req[r] \in Keys /\ answer[r].key \in Keys
    BY <1>3 DEF TypeOK, AnswersFit, Response
  <2>2. CASE answer[r].key = req[r]
    BY <1>1, <2>1, <2>2 DEF SameByKey, SettingsByKey, SameRequest
  <2>3. CASE pc[r] = "semantic" /\ Settings[answer[r].key] = Settings[req[r]]
    BY <1>2, <2>1, <2>3 DEF SettingsByKey
  <2> QED BY <1>3, <2>2, <2>3 DEF AnswersFit
<1>4. TypeOK /\ AnswersFit => AnswersMatchBodies
  BY <1>3 DEF AnswersMatchBodies
<1> QED BY <1>4, MeteredImplements, TypeCorrect, ServedFits, PTL
=============================================================================
