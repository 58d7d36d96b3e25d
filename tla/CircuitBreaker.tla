--------------------------- MODULE CircuitBreaker ---------------------------
(***************************************************************************)
(* The circuit breaker of core/breaker.py: its three fields and one         *)
(* operator per method.  The modules that call the breaker extend this one  *)
(* and say who calls it and when.                                           *)
(*                                                                          *)
(* _opened_at is a reading of a monotonic clock and the code only ever      *)
(* compares now - _opened_at with cooldown_s, so the model keeps that       *)
(* difference, age, in ticks, and stops counting once the comparison can no *)
(* longer change.  _opened_at = None (a closed breaker) is age 0.           *)
(***************************************************************************)
EXTENDS Naturals

CONSTANTS
    Enabled,    \* enabled: FALSE turns every method into a no-op
    Threshold,  \* failure_threshold (config.py asks for at least 1)
    Cooldown    \* cooldown_s, in ticks; 0 is legal

ASSUME BreakerAssumption ==
    /\ Enabled \in BOOLEAN
    /\ Threshold \in Nat \ {0}
    /\ Cooldown \in Nat

VARIABLES
    failures,   \* _failures
    state,      \* _state
    age         \* now - _opened_at, at most Cooldown

breaker == <<failures, state, age>>

BreakerTypeOK ==
    /\ failures \in Nat
    /\ state \in {"closed", "open", "half-open"}
    /\ age \in 0..Cooldown

BreakerInit ==
    /\ failures = 0
    /\ state = "closed"
    /\ age = 0

-----------------------------------------------------------------------------
(* The state property: reading it turns an open breaker whose cooldown has  *)
(* passed into a half-open one.                                             *)
ObservedState ==
    IF Enabled /\ state = "open" /\ age = Cooldown THEN "half-open" ELSE state

ReadState ==
    /\ state' = ObservedState
    /\ UNCHANGED <<failures, age>>

(* Slip: allow_request() tests _state and not the state property.           *)
AllowedUnrefreshed == Enabled => state # "open"

(* allow_request() returns this.  When it is FALSE nothing has changed.     *)
Allowed == Enabled => ObservedState # "open"

(* The call allow_request() lets through is the probe of a half-open breaker. *)
Probing == Enabled /\ ObservedState = "half-open"

(* Slip: the probe does not mark the breaker, so the next caller probes too. *)
AdmitUnmarked == Allowed /\ UNCHANGED breaker

(* allow_request() returning TRUE: a probe puts the breaker back to open    *)
(* and stamps it, every other call leaves it alone.                         *)
Admit ==
    /\ Allowed
    /\ state' = IF Probing THEN "open" ELSE state
    /\ age' = IF Probing THEN 0 ELSE age
    /\ UNCHANGED failures

(* Slip: a success takes back one failure.                                  *)
RecordSuccessDecay ==
    failures' = failures - 1 /\ state' = "closed" /\ age' = 0

(* Slip: a success closes the breaker and leaves the count.                 *)
RecordSuccessKeepingCount ==
    UNCHANGED failures /\ state' = "closed" /\ age' = 0

(* record_success(): whatever the call was, the breaker closes.             *)
RecordSuccess ==
    IF Enabled
    THEN failures' = 0 /\ state' = "closed" /\ age' = 0
    ELSE UNCHANGED breaker

(* Slip: a failure beyond the threshold does not stamp the breaker anew.    *)
RecordFailureUnstamped ==
    /\ failures' = failures + 1
    /\ state' = IF failures + 1 >= Threshold THEN "open" ELSE state
    /\ UNCHANGED age

(* Slip: one failure too many before the breaker opens.                     *)
RecordFailureLate ==
    LET trips == failures + 1 > Threshold IN
    /\ failures' = failures + 1
    /\ state' = IF trips THEN "open" ELSE state
    /\ age' = IF trips THEN 0 ELSE age

(* record_failure(): at the threshold, and above it, the breaker opens and  *)
(* is stamped anew.                                                         *)
RecordFailure ==
    IF Enabled
    THEN LET trips == failures + 1 >= Threshold IN
         /\ failures' = failures + 1
         /\ state' = IF trips THEN "open" ELSE state
         /\ age' = IF trips THEN 0 ELSE age
    ELSE UNCHANGED breaker

(* reset(): also when disabled.                                             *)
Reset == failures' = 0 /\ state' = "closed" /\ age' = 0

(* The monotonic clock advances by one tick.                                *)
Elapse ==
    /\ age' = IF state # "closed" /\ age < Cooldown THEN age + 1 ELSE age
    /\ UNCHANGED <<failures, state>>

(* The breaker is away from closed exactly while the failures on its count  *)
(* reach the threshold, half-open only with its cooldown over, and, when    *)
(* disabled, never.  No method says so, and a failed probe re-opens the     *)
(* breaker only because of it.                                              *)
BreakerSound ==
    /\ state = "closed" <=> failures < Threshold
    /\ state = "closed" => age = 0
    /\ state = "half-open" => age = Cooldown
    /\ ~Enabled => failures = 0
=============================================================================
