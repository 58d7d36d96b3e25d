------------------------ MODULE BreakerCallersProofs ------------------------
(***************************************************************************)
(* What BreakerCallers keeps for every number of callers, threshold,        *)
(* cooldown and timeout.                                                    *)
(***************************************************************************)
EXTENDS BreakerCallers, CircuitBreakerProofs

(* One step of the callers, whatever it is, in terms of the breaker: each   *)
(* of its methods, or nothing, happens to the breaker's fields.             *)
LEMMA BreakerStep ==
    ASSUME [Next]_vars
    PROVE  \/ Admit \/ RecordSuccess \/ RecordFailure \/ Reset
           \/ ReadState \/ Elapse \/ UNCHANGED breaker
BY DEF Next, Ask, End, Succeed, Fail, Abandon, Return, ResetAll, ReadStatus,
       Tick, vars, breaker

(* Every state has the types of TypeOK.                                     *)
THEOREM TypeCorrect == Spec => [](TypeOK /\ BreakerSound)
<1>1. Init => TypeOK /\ BreakerSound
  BY BreakerAssumption, CallersAssumption
     DEF Init, BreakerInit, TypeOK, BreakerTypeOK, BreakerSound
<1>2. TypeOK /\ BreakerSound /\ [Next]_vars => TypeOK' /\ BreakerSound'
  <2> SUFFICES ASSUME TypeOK, BreakerSound, [Next]_vars
               PROVE  TypeOK' /\ BreakerSound'
    OBVIOUS
  <2>1. BreakerTypeOK' /\ BreakerSound'
    BY BreakerStep, BreakerKeeps DEF TypeOK
  <2>2. /\ phase' \in [Callers -> {"idle", "call", "probe"}]
        /\ elapsed' \in [Callers -> 0..Timeout]
    BY CallersAssumption
       DEF TypeOK, Next, Ask, End, Succeed, Fail, Abandon, Return, ResetAll,
           ReadStatus, Tick, vars
  <2> QED BY <2>1, <2>2 DEF TypeOK
<1> QED BY <1>1, <1>2, PTL DEF Spec

(* The breaker is away from closed exactly while its failures reach the     *)
(* threshold, whatever the order its callers report in.                     *)
THEOREM BreakerIsSound == Spec => []BreakerSound
BY TypeCorrect, PTL

-----------------------------------------------------------------------------
(* While a probe is out, the breaker has been open for at most as long.     *)
ProbeOlderThanStamp ==
    \A c \in Callers : phase[c] = "probe" => age <= elapsed[c]

IdleAtZero == \A c \in Callers : phase[c] = "idle" => elapsed[c] = 0

(* With the types and BreakerSound, the inductive invariant.                *)
ProbeInv == ProbesApart /\ ProbeOlderThanStamp /\ IdleAtZero

(* Probes are a cooldown apart, however long calls last, whatever the order *)
(* they end in and however often the breaker is reset or read meanwhile.    *)
(* Where calls are shorter than the cooldown that is one probe at a time.   *)
THEOREM ProbesKeepApart == Spec => []ProbesApart
<1>1. Init => ProbeInv
  BY DEF Init, ProbeInv, ProbesApart, ProbeOlderThanStamp, IdleAtZero
<1>2. ASSUME TypeOK, TypeOK', BreakerSound, ProbeInv, [Next]_vars
      PROVE  ProbeInv'
  <2> USE <1>2, BreakerAssumption, CallersAssumption
      DEF TypeOK, BreakerTypeOK, ProbeInv, ProbesApart, ProbeOlderThanStamp, IdleAtZero
  <2>1. ASSUME NEW c \in Callers, Ask(c)
        PROVE  ProbeInv'
    <3>1. CASE Probing
      \* The cooldown is over, so every other probe has been out that long.
      <4>1. age = Cooldown
        BY <2>1, <3>1 DEF Probing, ObservedState, BreakerSound, Ask, Admit
      <4>2. \A d \in Callers : phase[d] = "probe" => elapsed[d] >= Cooldown
        BY <4>1
      <4>3. /\ phase' = [phase EXCEPT ![c] = "probe"]
            /\ age' = 0 /\ elapsed' = elapsed
        BY <2>1, <3>1 DEF Ask, Admit
      <4>4. elapsed[c] = 0
        BY <2>1 DEF Ask
      <4>5. \A d \in Callers : elapsed[d] \in Nat
        OBVIOUS
      <4> QED BY <4>2, <4>3, <4>4, <4>5
    <3>2. CASE ~Probing
      BY <2>1, <3>2 DEF Ask, Admit
    <3> QED BY <3>1, <3>2
  <2>2. ASSUME NEW c \in Callers, End(c)
        PROVE  ProbeInv'
    BY <2>2 DEF End, Succeed, Fail, Abandon, Return, RecordSuccess,
                RecordFailure, breaker
  <2>3. CASE ResetAll
    BY <2>3 DEF ResetAll, Reset
  <2>4. CASE ReadStatus
    BY <2>4 DEF ReadStatus, ReadState
  <2>5. CASE Tick
    BY <2>5 DEF Tick, Elapse
  <2>6. CASE UNCHANGED vars
    BY <2>6 DEF vars
  <2> QED BY <1>2, <2>1, <2>2, <2>3, <2>4, <2>5, <2>6 DEF Next
<1>3. ProbeInv => ProbesApart
  BY DEF ProbeInv
<1> QED BY <1>1, <1>2, <1>3, TypeCorrect, PTL DEF Spec

(* A failure that finds the breaker away from closed opens it anew: the     *)
(* failures on its count have not dropped below the threshold meanwhile.    *)
THEOREM FailuresReopen == Spec => FailureReopens
<1>1. ASSUME TypeOK, BreakerSound, [Next]_vars
      PROVE  [\A c \in Callers :
                Fail(c) /\ state # "closed" => state' = "open" /\ age' = 0]_vars
  BY <1>1, BreakerAssumption
     DEF Fail, RecordFailure, TypeOK, BreakerTypeOK, BreakerSound
<1> QED BY <1>1, TypeCorrect, PTL DEF Spec, FailureReopens
=============================================================================
