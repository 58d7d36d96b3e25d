--------------------------- MODULE AnswerService ---------------------------
(***************************************************************************)
(* What callers of FusionCache.chat_completion may rely on, whatever caches *)
(* and other callers do: a request ends once, alone, and either without an  *)
(* answer or with one that suits its question and that the upstream gave    *)
(* whole; and what it was given stays its own.                              *)
(***************************************************************************)
CONSTANTS
    Requests, Questions, Answers,
    Suits,      \* the pairs of an answer and a question it may be given to
    NoAnswer,
    Processes   \* the sets of requests that a crash may end together

VARIABLES
    question,   \* the question of each request
    open,       \* the requests that have not ended
    given,      \* the answer of each that has ended with one
    known       \* the answers that have come whole from the upstream

Init ==
    /\ question \in [Requests -> Questions]
    /\ open = Requests
    /\ given = [r \in Requests |-> NoAnswer]
    /\ known = {}

Drop(r) ==
    /\ open' = open \ {r}
    /\ UNCHANGED given

(* A process stops, and what it had accepted with it.                       *)
Lose(p) ==
    /\ \E lost \in SUBSET (p \intersect open) : open' = open \ lost
    /\ UNCHANGED given

Serve(r) ==
    /\ open' = open \ {r}
    /\ \E a \in known' :
          /\ <<a, question[r]>> \in Suits
          /\ given' = [given EXCEPT ![r] = a]

(* An answer may become known in the very step that gives it to a request.  *)
Next ==
    /\ known \subseteq known' /\ known' \subseteq Answers
    /\ UNCHANGED question
    /\ \/ UNCHANGED <<open, given>>
       \/ \E r \in open : Drop(r) \/ Serve(r)
       \/ \E p \in Processes : Lose(p)

Spec == Init /\ [][Next]_<<question, open, given, known>>
=============================================================================
