---------------------------- MODULE CanonicalKey ----------------------------
(***************************************************************************)
(* core/key.py: the canonical form of a request body, which is hashed into  *)
(* its L1 key and compared by the semantic guard; and _embed_text of        *)
(* core/pipeline.py, the text that stands for the body in L2.               *)
(*                                                                          *)
(* A body is a function from the fields it has to JSON values.  A string is *)
(* told apart by its words and the whitespace around them ("single" is none *)
(* but one space between two words), a dict also by the order of its keys,  *)
(* a number or a boolean by the name JSON has for it.  Bound: a dict is a field's value, a message, a   *)
(* part of its content, or a member of one of these or of a list.           *)
(***************************************************************************)
EXTENDS Functions, Sequences

CONSTANT Null   \* JSON's null

Text(words, spacing) == [words |-> words, spacing |-> spacing]
Dict(order, entries) == [order |-> order, entries |-> entries]
List(items) == [items |-> items]
Scalar(datum) == [datum |-> datum]
Bool(b) == Scalar(IF b THEN "true" ELSE "false")

ASSUME NullAssumption == Null \notin {Scalar("true"), Scalar("false")}

IsText(v) == v # Null /\ DOMAIN v = {"words", "spacing"}
IsDict(v) == v # Null /\ DOMAIN v = {"order", "entries"}
IsList(v) == v # Null /\ DOMAIN v = {"items"}

Unset(body, field) == field \notin DOMAIN body \/ body[field] = Null

(* The values that Python takes for false.                                  *)
Falsy(v) ==
    \/ v \in {Null, Text("", "single")}
    \/ v \in {Scalar(datum) : datum \in {"false", "0", "0.0", "-0.0"}}
    \/ IsList(v) /\ DOMAIN v.items = {}
    \/ IsDict(v) /\ DOMAIN v.entries = {}

(* bool(body.get("stream", False)), as the callers of the pipeline compute  *)
(* the stream argument.                                                     *)
StreamFlag(body) == "stream" \in DOMAIN body /\ ~Falsy(body["stream"])

-----------------------------------------------------------------------------
(* _RESPONSE_AFFECTING                                                      *)
ResponseAffecting ==
    {"model", "temperature", "top_p", "max_tokens", "max_completion_tokens",
     "stop", "presence_penalty", "frequency_penalty", "logit_bias",
     "logprobs", "top_logprobs", "n", "seed", "tools", "tool_choice",
     "parallel_tool_calls", "response_format", "modalities", "audio",
     "reasoning_effort", "verbosity", "metadata"}

(* normalize_text: runs of whitespace become one space, none at the ends.   *)
NormalizeText(text) == Text(text.words, "single")

(* The order of keys is forgotten, in lists member by member: by _sortable  *)
(* in a setting, by json.dumps(sort_keys=True) in a message.                *)
Unordered(v) == IF IsDict(v) THEN v.entries ELSE v

Sortable(v) ==
    IF IsList(v) THEN List([i \in DOMAIN v.items |-> Unordered(v.items[i])])
    ELSE Unordered(v)

NormalizeIfText(v) == IF IsText(v) THEN NormalizeText(v) ELSE Sortable(v)

(* Slip: the strings of a content array are left as they are.               *)
NormalizePartVerbatim(part) == IF IsDict(part) THEN part.entries ELSE part

(* A member of a content array: a dict key by key, or a string.             *)
NormalizePart(part) ==
    IF IsDict(part)
    THEN [k \in DOMAIN part.entries |-> NormalizeIfText(part.entries[k])]
    ELSE NormalizeIfText(part)

(* canonicalize_messages                                                    *)
CanonicalizeMessage(message) ==
    [k \in DOMAIN message.entries |->
        LET value == message.entries[k] IN
        IF k = "content" /\ IsList(value)
        THEN List([i \in DOMAIN value.items |-> NormalizePart(value.items[i])])
        ELSE NormalizeIfText(value)]

(* str(value).  The repr of a list or a dict keeps all there is to know of  *)
(* it, the order of keys too: the value itself stands for its words.        *)
Str(v) ==
    IF IsText(v) THEN v
    ELSE Text(CASE v = Null -> "None"
                [] v = Bool(TRUE) -> "True"
                [] v = Bool(FALSE) -> "False"
                [] IsList(v) \/ IsDict(v) -> v
                [] OTHER -> v.datum,
              "single")

(* canonicalize_request: of the settings those that are set, the stream     *)
(* flag always, the messages if there are any, the prompt as a string even  *)
(* if it is null.                                                           *)
CanonicalizeRequest(body) ==
    LET settings == {field \in ResponseAffecting : ~Unset(body, field)}
        messages == {"messages"} \ {f \in {"messages"} : Unset(body, f)}
        prompt == {"prompt"} \intersect DOMAIN body
    IN  [field \in settings \union messages \union prompt \union {"stream"} |->
            CASE field = "stream" -> StreamFlag(body)
              [] field = "messages" ->
                    [i \in DOMAIN body["messages"] |-> CanonicalizeMessage(body["messages"][i])]
              [] field = "prompt" -> NormalizeText(Str(body["prompt"]))
              [] OTHER -> Sortable(body[field])]

(* Slip: the guard keeps to what best_match's docstring names.              *)
GuardViewModel(canonical) == Restrict(canonical, {"model", "stream"})

(* What guard_ok compares: the canonical form without the text.             *)
GuardView(canonical) == Restrict(canonical, DOMAIN canonical \ {"messages", "prompt"})

(* _embed_text: role and text of every message.  Whatever of a content      *)
(* array is no text counts as the empty string.                             *)
EmbedText(body) ==
    LET text(v) == IF IsText(v) THEN v.words ELSE ""
        part(p) == IF IsDict(p) THEN IF "text" \in DOMAIN p.entries THEN text(p.entries["text"]) ELSE ""
                   ELSE text(p)
        content(v) == IF IsList(v) THEN [i \in DOMAIN v.items |-> part(v.items[i])]
                      ELSE <<text(v)>>
    IN  [i \in DOMAIN body["messages"] |->
            LET message == body["messages"][i].entries IN
            <<text(message["role"]), content(message["content"])>>]

-----------------------------------------------------------------------------
(* What the canonical form is for, said without it: two bodies make the     *)
(* same request.  They have the same settings, wherever the upstream heeds  *)
(* a field; and the same messages, word for word.                           *)
Cosmetic == {"user", "stream_options"}

SameDict(v, w) == v = w \/ (IsDict(v) /\ IsDict(w) /\ v.entries = w.entries)

SameSetting(v, w) ==
    \/ SameDict(v, w)
    \/ /\ IsList(v) /\ IsList(w)
       /\ DOMAIN v.items = DOMAIN w.items
       /\ \A i \in DOMAIN v.items : SameDict(v.items[i], w.items[i])

Alike(v, w) ==
    \/ SameSetting(v, w)
    \/ IsText(v) /\ IsText(w) /\ v.words = w.words

AlikeParts(p, q) ==
    \/ Alike(p, q)
    \/ /\ IsDict(p) /\ IsDict(q)
       /\ DOMAIN p.entries = DOMAIN q.entries
       /\ \A k \in DOMAIN p.entries : Alike(p.entries[k], q.entries[k])

AlikeMessages(m, n) ==
    /\ DOMAIN m.entries = DOMAIN n.entries
    /\ \A k \in DOMAIN m.entries :
          LET v == m.entries[k]
              w == n.entries[k]
          IN  \/ Alike(v, w)
              \/ /\ k = "content" /\ IsList(v) /\ IsList(w)
                 /\ DOMAIN v.items = DOMAIN w.items
                 /\ \A i \in DOMAIN v.items : AlikeParts(v.items[i], w.items[i])

SameSettings(b, c) ==
    /\ StreamFlag(b) = StreamFlag(c)
    /\ \A field \in (DOMAIN b \union DOMAIN c) \ (Cosmetic \union {"messages", "prompt", "stream"}) :
          \/ Unset(b, field) /\ Unset(c, field)
          \/ ~Unset(b, field) /\ ~Unset(c, field) /\ SameSetting(b[field], c[field])

SamePrompt(v, w) == v = w \/ (IsText(v) /\ IsText(w) /\ v.words = w.words)

SameRequest(b, c) ==
    /\ SameSettings(b, c)
    /\ "prompt" \in DOMAIN b <=> "prompt" \in DOMAIN c
    /\ "prompt" \in DOMAIN b => SamePrompt(b["prompt"], c["prompt"])
    /\ DOMAIN b["messages"] = DOMAIN c["messages"]
    /\ \A i \in DOMAIN b["messages"] : AlikeMessages(b["messages"][i], c["messages"][i])

-----------------------------------------------------------------------------
(* Bodies whose canonical form can be read back: their fields are known,    *)
(* and every value is null or has one of the shapes above, which the keys   *)
(* of no dict spell; nothing but null takes the form of null; and a prompt  *)
(* is a string, for null and "None", 1 and "1" have one form (key.py:126).  *)
Shapes == {{"words", "spacing"}, {"order", "entries"}, {"items"}, {"datum"}}

ReadableMember(v) ==
    \/ v = Null
    \/ /\ DOMAIN v \in Shapes
       /\ Null \notin {Unordered(v), NormalizeIfText(v)}
       /\ IsDict(v) => DOMAIN v.entries \notin Shapes

Readable(v) ==
    /\ ReadableMember(v)
    /\ IsList(v) => \A i \in DOMAIN v.items : ReadableMember(v.items[i])

ReadablePart(p) ==
    /\ Readable(p)
    /\ IsDict(p) => /\ NormalizePart(p) # Null
                    /\ \A k \in DOMAIN p.entries : Readable(p.entries[k])

ReadableMessage(m) ==
    \A k \in DOMAIN m.entries :
        LET value == m.entries[k] IN
        /\ Readable(value)
        /\ k = "content" /\ IsList(value) =>
              /\ CanonicalizeMessage(m)[k] # Null
              /\ \A i \in DOMAIN value.items : ReadablePart(value.items[i])

WellFormed(body) ==
    /\ DOMAIN body \subseteq ResponseAffecting \union Cosmetic \union {"messages", "prompt", "stream"}
    /\ \A field \in DOMAIN body \ {"messages", "prompt"} : Readable(body[field])
    /\ "prompt" \in DOMAIN body => IsText(body["prompt"])
    /\ \A i \in DOMAIN body["messages"] : ReadableMessage(body["messages"][i])
=============================================================================
