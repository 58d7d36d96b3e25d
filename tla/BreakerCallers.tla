--------------------------- MODULE BreakerCallers ---------------------------
(***************************************************************************)
(* The circuit breaker between concurrent callers whose upstream calls take *)
(* time.  This is the use core/pipeline.py makes of it, with the cache and  *)
(* the single flight left out (FusionCache.tla has them): ask before a      *)
(* call, report how it ended, reset on invalidate_all; mcp_server.py reads  *)
(* the state at any time.  A call lasts at most Timeout ticks, the HTTP     *)
(* client's timeout.                                                        *)
(***************************************************************************)
EXTENDS CircuitBreaker

CONSTANTS
    Callers,      \* the concurrent requests
    Timeout,      \* longest upstream call, in ticks
    MaxFailures   \* bound: failures in a row that a run explores

ASSUME CallersAssumption ==
    /\ Timeout \in Nat \ {0}
    /\ MaxFailures \in Nat

VARIABLES
    phase,        \* what each caller has outstanding
    elapsed       \* for how long, in ticks

vars == <<failures, state, age, phase, elapsed>>

TypeOK ==
    /\ BreakerTypeOK
    /\ phase \in [Callers -> {"idle", "call", "probe"}]
    /\ elapsed \in [Callers -> 0..Timeout]

Init ==
    /\ BreakerInit
    /\ phase = [c \in Callers |-> "idle"]
    /\ elapsed = [c \in Callers |-> 0]

-----------------------------------------------------------------------------
(* allow_request() lets the caller through and its upstream call starts.    *)
(* (A refused caller changes nothing.)                                      *)
Ask(c) ==
    /\ phase[c] = "idle"
    /\ Admit
    /\ phase' = [phase EXCEPT ![c] = IF Probing THEN "probe" ELSE "call"]
    /\ UNCHANGED elapsed

(* The upstream call is over, however it ended.                             *)
Return(c) ==
    /\ phase[c] # "idle"
    /\ phase' = [phase EXCEPT ![c] = "idle"]
    /\ elapsed' = [elapsed EXCEPT ![c] = 0]

Succeed(c) == Return(c) /\ RecordSuccess

Fail(c) == Return(c) /\ failures < MaxFailures /\ RecordFailure

(* A cancelled request reports nothing: CancelledError is no Exception.     *)
Abandon(c) == Return(c) /\ UNCHANGED breaker

ResetAll == Reset /\ UNCHANGED <<phase, elapsed>>

ReadStatus == ReadState /\ UNCHANGED <<phase, elapsed>>

(* Time passes, never beyond the timeout of an outstanding call.            *)
Tick ==
    /\ \A c \in Callers : phase[c] # "idle" => elapsed[c] < Timeout
    /\ elapsed' = [c \in Callers |->
                     IF phase[c] = "idle" THEN 0 ELSE elapsed[c] + 1]
    /\ Elapse
    /\ UNCHANGED phase

End(c) == Succeed(c) \/ Fail(c) \/ Abandon(c)

Next ==
    \/ \E c \in Callers : Ask(c) \/ End(c)
    \/ ResetAll
    \/ ReadStatus
    \/ Tick

(* The clock runs and a call ends, by its timeout at the latest.            *)
Fairness == WF_vars(Tick) /\ \A c \in Callers : WF_vars(End(c))

Spec == Init /\ [][Next]_vars
FairSpec == Spec /\ Fairness

-----------------------------------------------------------------------------
(* Two probes are out together only if the elder has been for a cooldown    *)
(* more: a probe keeps others away for that long, whatever late answers of  *)
(* earlier calls do to the breaker meanwhile (breaker.py:53-57).            *)
ProbesApart ==
    \A c, d \in Callers :
        c # d /\ phase[c] = "probe" /\ phase[d] = "probe" =>
            \/ elapsed[c] >= elapsed[d] + Cooldown
            \/ elapsed[d] >= elapsed[c] + Cooldown

(* A failure that finds the breaker away from closed, a failed probe or a   *)
(* late answer, always opens it for a whole cooldown more.                  *)
FailureReopens ==
    [][\A c \in Callers :
         Fail(c) /\ state # "closed" => state' = "open" /\ age' = 0]_vars

(* The breaker never refuses for good: however calls end, allow_request()   *)
(* returns True again and again.                                            *)
KeepsAdmitting == []<>Allowed

-----------------------------------------------------------------------------
(* What the repository says of the breaker and the code does not keep: after *)
(* the cooldown one probe call is allowed (breaker.py:13, DEPLOYMENT.md:102). *)
OneProbe ==
    \A c, d \in Callers : phase[c] = "probe" /\ phase[d] = "probe" => c = d
=============================================================================
