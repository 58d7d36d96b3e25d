--------------------------- MODULE MCMeteredCache ---------------------------
(* Instances of MeteredCache for TLC: bodies that make a few requests, each *)
(* in several wordings, and four ways to report usage.                      *)
EXTENDS MeteredCache, TLC

User(order, content) ==
    Dict(order, [role |-> Text("user", "single"), content |-> content])

Options(order) == Dict(order, "type" :> "json" @@ "strict" :> "yes")
Model(order) == "model" :> Scalar("m") @@ "tools" :> List(<<Options(order)>>)

(* One question, plainly and with other spacing, key order and noise; the   *)
(* same as a stream; and at another temperature, twice.                     *)
Plain == Model(<<"type", "strict">>)
         @@ "messages" :> <<User(<<"role", "content">>, Text("hi", "single"))>>
Noisy == Model(<<"strict", "type">>)
         @@ "temperature" :> Null @@ "user" :> Text("u1", "single")
         @@ "stream" :> Scalar("0")
         @@ "messages" :> <<User(<<"content", "role">>, Text("hi", "padded"))>>
Streamed == Plain @@ "stream" :> Scalar("true")
Warm == Plain @@ "temperature" :> Scalar("1.5")
Warmer == Warm @@ "stream" :> Null

(* A paraphrase as a content array, its keys in two orders, with a prompt   *)
(* in two spacings.                                                         *)
Parts(order, spacing) ==
    List(<<Dict(order, "type" :> Text("text", "single") @@ "text" :> Text("hello", spacing)),
           Dict(order, "image_url" :> Dict(order, "url" :> "u" @@ "detail" :> "low"))>>)
Hello == Model(<<"type", "strict">>)
         @@ "prompt" :> Text("once", "single")
         @@ "messages" :> <<User(<<"role", "content">>, Parts(<<"type", "text">>, "single"))>>
Loose == Model(<<"type", "strict">>)
         @@ "prompt" :> Text("once", "padded")
         @@ "messages" :> <<User(<<"role", "content">>, Parts(<<"text", "type">>, "double"))>>

TwoRequests == {Plain, Noisy, Warm, Warmer}
FourRequests == TwoRequests \union {Streamed, Hello, Loose}

Forms == {CanonicalizeRequest(b) : b \in Bodies}
         \union {CanonicalizeRequest(Outgoing(b)) : b \in Bodies}
MCKeys == 1..Cardinality(Forms)
MCDigest == CHOOSE d \in [Forms -> MCKeys] : IsInjective(d)
Canonical == [k \in MCKeys |-> CHOOSE form \in Forms : MCDigest[form] = k]

MCStreaming == {k \in MCKeys : Canonical[k]["stream"]}
MCSettings == [k \in MCKeys |-> GuardView(Canonical[k])]

(* "hi" and "hello" are close.                                              *)
Meaning(body) ==
    LET texts == EmbedText(body) IN
    [i \in DOMAIN texts |-> <<texts[i][1], texts[i][2] \in {<<"hi">>, <<"hello">>}>>]
MCClose ==
    {pair \in MCKeys \X MCKeys :
        \E b, c \in Bodies :
            /\ pair = <<RequestKey[b], RequestKey[c]>>
            /\ Meaning(b) = Meaning(c)}

(* Usage as DeepSeek reports it, as OpenAI does, without any cache field,   *)
(* and not at all.                                                          *)
UsageShapes ==
    <<"usage" :> [prompt_tokens |-> 3, completion_tokens |-> 1,
                  prompt_cache_hit_tokens |-> 2, prompt_cache_miss_tokens |-> 1],
      "usage" :> [prompt_tokens |-> 3, completion_tokens |-> 1,
                  prompt_tokens_details |-> [cached_tokens |-> 1]],
      "usage" :> [prompt_tokens |-> 3, completion_tokens |-> 1],
      "choices" :> 1>>
MCReplies ==
    [k \in MCKeys |->
        IF k \in MCStreaming THEN <<UsageShapes[4], UsageShapes[2], UsageShapes[4]>>
        ELSE <<UsageShapes[1 + (k % 4)]>>]
MCSaving == [k \in MCKeys |-> SavedCost(FromDict(Reported(MCReplies[k])))]

ASSUME BodiesWellFormed == \A body \in Bodies : WellFormed(body)

SameRequests == Permutations(Tasks)
=============================================================================
