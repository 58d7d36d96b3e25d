------------------------ MODULE CircuitBreakerProofs ------------------------
(***************************************************************************)
(* What the methods of the breaker preserve, for whoever calls them.        *)
(***************************************************************************)
EXTENDS CircuitBreaker, TLAPS

(* Every method, and the clock, keeps the types and BreakerSound.           *)
LEMMA BreakerKeeps ==
    ASSUME BreakerTypeOK, BreakerSound,
           \/ Admit \/ RecordSuccess \/ RecordFailure \/ Reset
           \/ ReadState \/ Elapse \/ UNCHANGED breaker
    PROVE  BreakerTypeOK' /\ BreakerSound'
<1> USE BreakerAssumption DEF BreakerTypeOK, BreakerSound, breaker
<1>1. CASE Admit
  BY <1>1 DEF Admit, Allowed, Probing, ObservedState
<1>2. CASE RecordSuccess
  BY <1>2 DEF RecordSuccess
<1>3. CASE RecordFailure
  BY <1>3 DEF RecordFailure
<1>4. CASE Reset
  BY <1>4 DEF Reset
<1>5. CASE ReadState
  BY <1>5 DEF ReadState, ObservedState
<1>6. CASE Elapse
  BY <1>6 DEF Elapse
<1>7. CASE UNCHANGED breaker
  BY <1>7
<1> QED BY <1>1, <1>2, <1>3, <1>4, <1>5, <1>6, <1>7
=============================================================================
