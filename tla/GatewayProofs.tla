--------------------------- MODULE GatewayProofs ---------------------------
(***************************************************************************)
(* The gateway implements FusionCache: each of its steps is a step of the   *)
(* pipeline or leaves the pipeline alone.  What is shown of the pipeline    *)
(* therefore holds behind the gateway as well, whose own limiter is exact.  *)
(***************************************************************************)
EXTENDS Gateway, FusionAnswersProofs, SequenceTheorems

(* A step of the gateway is a step of the pipeline or none.                 *)
LEMMA GatewayStep == [GatewayNext]_gatewayVars => [Next]_vars
<1> SUFFICES ASSUME [GatewayNext]_gatewayVars
             PROVE  [Next]_vars
  OBVIOUS
<1>1. ASSUME NEW r \in Tasks, Post(r)
      PROVE  UNCHANGED vars
  BY <1>1 DEF Post, Refuse
<1>7. ASSUME NEW r \in Tasks, Read(r)
      PROVE  Arrive(r) \/ UNCHANGED vars
  BY <1>7 DEF Read, Refuse
<1>2. ASSUME NEW r \in Tasks, Throttled(r) \/ Again(r)
      PROVE  UNCHANGED vars
  BY <1>2 DEF Throttled, Again
<1>3. ASSUME NEW r \in Tasks, UpstreamEnds(r) \/ Pipeline(r)
      PROVE  Progress(r)
  BY <1>3 DEF UpstreamEnds, Pipeline, Progress
<1>4. ASSUME NEW c \in Clients, ListModels(c)
      PROVE  UNCHANGED vars
  BY <1>4 DEF ListModels
<1>5. CASE InvalidateCache \/ Vanish \/ GatewayTick
  BY <1>5 DEF InvalidateCache, Vanish, GatewayTick, Next, Environment
<1>6. CASE UNCHANGED gatewayVars
  BY <1>6 DEF gatewayVars
<1> QED
  BY <1>1, <1>2, <1>3, <1>4, <1>5, <1>6, <1>7 DEF GatewayNext, Handle, Next

(* The gateway, with its refusals and its retries of 429, implements the    *)
(* request path of the pipeline (app.py:158-236).                           *)
THEOREM Implements == GatewaySpec => IsFusionCache
<1>1. GatewayInit => Init
  BY DEF GatewayInit
<1> QED
  BY <1>1, GatewayStep, PTL DEF GatewaySpec, IsFusionCache, Spec

(* One call per key behind the gateway, also while an owner sleeps between  *)
(* two attempts.                                                            *)
THEOREM GatewaySingleFlight == GatewaySpec => []OneCallPerKey
BY Implements, SingleFlight DEF IsFusionCache

(* A request is one failure to the breaker, over however many attempts it   *)
(* has failed (app.py:199).                                                 *)
THEOREM GatewayFailures == IsFiniteSet(Tasks) /\ GatewaySpec => []OneFailurePerRequest
<1>1. FailuresCounted <=> OneFailurePerRequest
  BY DEF FailuresCounted, OneFailurePerRequest
<1> QED
  BY <1>1, Implements, FailuresAreRequests, PTL DEF IsFusionCache

(* A client that posts to the gateway is served what the pipeline promises: *)
(* an answer that fits its request and came whole, older than the last      *)
(* flush before it only after a race; refusals and retries give it no other *)
(* (app.py:158-236).                                                        *)
THEOREM GatewayServes ==
    GatewaySpec => IsAnswerService /\ []AnswersFit /\ []StaleOnlyIfRaced
BY Implements, ServesAnswers, ServedFits, StaleMeansRaced, PTL DEF IsFusionCache

(* Where no stream breaks and no client goes away, no request behind the    *)
(* gateway waits for a future that has lost its owner, also while that owner *)
(* sleeps between two attempts (app.py:199).                                *)
THEOREM GatewayWakes ==
    "stream" \notin Faults /\ "cancel" \notin Faults /\ GatewaySpec => []WaitersHaveOwners
BY Implements, NoLostWakeup, PTL DEF IsFusionCache

-----------------------------------------------------------------------------
LEMMA FreshType ==
    ASSUME NEW dq \in Seq(0..Window)
    PROVE  /\ Fresh(dq) \in Seq(0..Window)
           /\ Append(Fresh(dq), 0) \in Seq(0..Window)
<1> DEFINE S == 0..Window
           old == {i \in 1..Len(dq) : \A j \in 1..i : dq[j] >= Window}
<1>1. Len(dq) \in Nat
  BY LenProperties
<1>2. Cardinality(old) \in Nat
  <2>1. IsFiniteSet(1..Len(dq))
    BY <1>1, FS_Interval
  <2>2. old \subseteq 1..Len(dq)
    OBVIOUS
  <2> HIDE DEF old
  <2> QED BY <2>1, <2>2, FS_Subset, FS_CardinalityType
<1>3. Fresh(dq) = SubSeq(dq, Cardinality(old) + 1, Len(dq))
  BY DEF Fresh
<1>4. 0 \in S
  BY LimiterAssumption
<1> HIDE DEF old, S
<1>5. dq \in Seq(S)
  BY DEF S
<1>6. \A i \in (Cardinality(old) + 1)..Len(dq) : dq[i] \in S
  BY <1>1, <1>2, <1>5, ElementOfSeq
<1>7. Fresh(dq) \in Seq(S)
  BY <1>1, <1>2, <1>3, <1>6, SubSeqProperties
<1>8. Append(Fresh(dq), 0) \in Seq(S)
  BY <1>4, <1>7
<1> QED BY <1>7, <1>8 DEF S

LEMMA LimiterStep ==
    ASSUME LimiterTypeOK, NEW c \in Clients, Charge(c) \/ TurnAway(c)
    PROVE  LimiterTypeOK'
BY FreshType DEF LimiterTypeOK, Charge, TurnAway

LEMMA AgeStep == LimiterTypeOK /\ Age => LimiterTypeOK'
<1> SUFFICES ASSUME LimiterTypeOK, Age
             PROVE  LimiterTypeOK'
  OBVIOUS
<1>1. ASSUME NEW c \in Clients
      PROVE  [i \in DOMAIN hits[c] |-> IF hits[c][i] < Window THEN hits[c][i] + 1 ELSE Window]
                 \in Seq(0..Window)
  <2>1. hits[c] \in Seq(0..Window)
    BY DEF LimiterTypeOK
  <2>2. DOMAIN hits[c] = 1..Len(hits[c]) /\ Len(hits[c]) \in Nat
        /\ \A i \in 1..Len(hits[c]) : hits[c][i] \in 0..Window
    BY <2>1, LenProperties, ElementOfSeq
  <2>3. \A i \in 1..Len(hits[c]) :
            (IF hits[c][i] < Window THEN hits[c][i] + 1 ELSE Window) \in 0..Window
    BY <2>2, LimiterAssumption
  <2> QED BY <2>2, <2>3
<1> QED BY <1>1 DEF LimiterTypeOK, Age

LEMMA RefusalType ==
    ASSUME refused \in [Tasks -> {0, 400, 401, 429, 500}], NEW r \in Tasks, Post(r) \/ Read(r)
    PROVE  refused' \in [Tasks -> {0, 400, 401, 429, 500}]
<1>1. CASE refused' = refused
  BY <1>1
<1>2. ASSUME NEW code \in {400, 401, 429, 500}, refused' = [refused EXCEPT ![r] = code]
      PROVE  refused' \in [Tasks -> {0, 400, 401, 429, 500}]
  BY <1>2
<1> QED BY <1>1, <1>2 DEF Post, Read, Refuse

(* The gateway's own state is well typed, and so are the limiter's deques   *)
(* and the pipeline underneath.                                             *)
THEOREM GatewayTypes == GatewaySpec => []GatewayTypeOK
<1> DEFINE Own == /\ LimiterTypeOK
                  /\ reading \subseteq Tasks
                  /\ refused \in [Tasks -> {0, 400, 401, 429, 500}]
                  /\ tries \in [Tasks -> 0..Retries]
                  /\ napping \subseteq Tasks
                  /\ passed \in [Clients -> [0..(Window - 1) -> Nat]]
<1>1. GatewayInit => Own
  BY GatewayAssumption, LimiterAssumption DEF GatewayInit, LimiterInit, LimiterTypeOK
<1>2. ASSUME Own, [GatewayNext]_gatewayVars
      PROVE  Own'
  <2> USE <1>2, GatewayAssumption, LimiterAssumption
  <2>1. ASSUME NEW c \in Clients, Pass(c) \/ (TurnAway(c) /\ UNCHANGED passed)
        PROVE  LimiterTypeOK' /\ passed' \in [Clients -> [0..(Window - 1) -> Nat]]
    <3>1. LimiterTypeOK'
      BY <2>1, LimiterStep DEF Pass
    <3>2. 0 \in 0..(Window - 1)
      OBVIOUS
    <3>3. CASE Pass(c)
      <4>1. passed[c] \in [0..(Window - 1) -> Nat]
        OBVIOUS
      <4>2. [passed[c] EXCEPT ![0] = passed[c][0] + 1] \in [0..(Window - 1) -> Nat]
        BY <3>2, <4>1
      <4>3. passed' = [passed EXCEPT ![c] = [passed[c] EXCEPT ![0] = passed[c][0] + 1]]
        BY <3>3 DEF Pass
      <4> QED BY <3>1, <4>2, <4>3
    <3>4. CASE passed' = passed
      BY <3>1, <3>4
    <3>5. Pass(c) \/ passed' = passed
      BY <2>1
    <3> QED BY <3>3, <3>4, <3>5
  <2>2. ASSUME NEW r \in Tasks, Post(r)
        PROVE  Own'
    <3>1. Client[r] \in Clients
      OBVIOUS
    <3>2. LimiterTypeOK' /\ passed' \in [Clients -> [0..(Window - 1) -> Nat]]
      BY <2>1, <2>2, <3>1 DEF Post, LimiterTypeOK
    <3>3. refused' \in [Tasks -> {0, 400, 401, 429, 500}]
      BY <2>2, RefusalType
    <3> QED BY <2>2, <3>2, <3>3 DEF Post
  <2>9. ASSUME NEW r \in Tasks, Read(r)
        PROVE  Own'
    <3>1. refused' \in [Tasks -> {0, 400, 401, 429, 500}]
      BY <2>9, RefusalType
    <3> QED BY <2>9, <3>1 DEF Read, LimiterTypeOK
  <2>3. ASSUME NEW r \in Tasks, Throttled(r)
        PROVE  Own'
    BY <2>3 DEF Throttled, LimiterTypeOK
  <2>4. ASSUME NEW r \in Tasks, Handle(r)
        PROVE  Own'
    BY <2>4 DEF Handle, Again, UpstreamEnds, Pipeline, gateway, LimiterTypeOK
  <2>5. ASSUME NEW c \in Clients, ListModels(c)
        PROVE  Own'
    BY <2>1, <2>5 DEF ListModels
  <2>6. CASE InvalidateCache \/ Vanish
    BY <2>6 DEF InvalidateCache, Vanish, gateway, LimiterTypeOK
  <2>7. CASE GatewayTick
    <3>1. LimiterTypeOK'
      BY <2>7, AgeStep DEF GatewayTick
    <3>2. passed' \in [Clients -> [0..(Window - 1) -> Nat]]
      BY <2>7 DEF GatewayTick
    <3> QED BY <2>7, <3>1, <3>2 DEF GatewayTick
  <2>8. CASE UNCHANGED gatewayVars
    BY <2>8 DEF gatewayVars, gateway, LimiterTypeOK
  <2> QED BY <2>2, <2>3, <2>4, <2>5, <2>6, <2>7, <2>8, <2>9 DEF GatewayNext
<1>3. TypeOK /\ Own => GatewayTypeOK
  BY DEF GatewayTypeOK
<1> HIDE DEF Own
<1>4. GatewaySpec => []Own
  BY <1>1, <1>2, PTL DEF GatewaySpec
<1> QED BY <1>3, <1>4, Implements, TypeCorrect, PTL DEF IsFusionCache

-----------------------------------------------------------------------------
LEMMA LeastNatural ==
    ASSUME NEW S \in SUBSET Nat, S # {}
    PROVE  \E m \in S : \A i \in S : m <= i
<1> DEFINE less == {ij \in Nat \X Nat : ij[1] < ij[2]}
<1>1. IsWellFoundedOn(less, Nat)
  BY NatLessThanWellFounded DEF OpToRel
<1>2. S \subseteq Nat
  OBVIOUS
<1> HIDE DEF less
<1>3. \E m \in S : \A i \in S : ~(<<i, m>> \in less)
  BY Zenon, <1>1, <1>2, WFMin
<1>4. PICK m \in S : \A i \in S : ~(<<i, m>> \in less)
  BY <1>3
<1>5. ASSUME NEW i \in S
      PROVE  m <= i
  <2>1. i \in Nat /\ m \in Nat /\ <<i, m>> \notin less
    BY <1>2, <1>4
  <2> QED BY <2>1 DEF less
<1> QED BY <1>5

-----------------------------------------------------------------------------
(* A deque in order; the stamps in it that are still in the window; those   *)
(* of one age.                                                              *)
Falling(dq) == \A i, j \in DOMAIN dq : i < j => dq[i] >= dq[j]
Young(dq) == {i \in DOMAIN dq : dq[i] < Window}
Aged(dq, a) == {i \in DOMAIN dq : dq[i] = a}

(* A deque has, of every age in the window, as many stamps as admissions    *)
(* were made, and no more of them than the limit.                           *)
Tracks(dq, count) ==
    /\ Falling(dq)
    /\ Cardinality(Young(dq)) <= Limit
    /\ \A a \in 0..(Window - 1) : Cardinality(Aged(dq, a)) = count[a]

LEMMA AgesFinite ==
    ASSUME NEW dq \in Seq(0..Window)
    PROVE  /\ IsFiniteSet(Young(dq)) /\ Cardinality(Young(dq)) \in Nat
           /\ \A a : IsFiniteSet(Aged(dq, a)) /\ Cardinality(Aged(dq, a)) \in Nat
<1>1. DOMAIN dq = 1..Len(dq) /\ Len(dq) \in Nat
  BY LenProperties
<1>2. IsFiniteSet(DOMAIN dq)
  BY <1>1, FS_Interval
<1>3. ASSUME NEW part \in SUBSET DOMAIN dq
      PROVE  IsFiniteSet(part) /\ Cardinality(part) \in Nat
  BY <1>2, FS_Subset, FS_CardinalityType
<1> QED BY <1>3 DEF Young, Aged

(* The young stamps of an ordered deque are its end, and Fresh is that end. *)
LEMMA FreshDrops ==
    ASSUME NEW dq \in Seq(0..Window), Falling(dq)
    PROVE  \E k \in 0..Len(dq) :
              /\ Young(dq) = (k + 1)..Len(dq)
              /\ Len(Fresh(dq)) = Len(dq) - k
              /\ \A i \in 1..(Len(dq) - k) : Fresh(dq)[i] = dq[i + k]
<1> DEFINE n == Len(dq)
           old == {i \in 1..n : \A j \in 1..i : dq[j] >= Window}
           rest == {i \in 1..(n + 1) : i \notin old}
<1>1. /\ n \in Nat /\ DOMAIN dq = 1..n
      /\ \A i \in 1..n : dq[i] \in 0..Window
  BY LenProperties, ElementOfSeq
<1>2. rest \subseteq Nat /\ rest # {}
  BY <1>1
<1>3. PICK first \in rest : \A i \in rest : first <= i
  BY <1>2, LeastNatural
<1> DEFINE k == first - 1
<1>5. k \in 0..n /\ old = 1..k
  <2>1. first \in 1..(n + 1) /\ first \notin old
    BY <1>3
  <2>2. \A i \in 1..k : i \in 1..(n + 1) /\ i < first
    BY <1>1, <2>1
  <2>3. \A i \in 1..k : i \in old
    BY <1>1, <1>3, <2>1, <2>2
  <2>4. ASSUME NEW i \in old
        PROVE  i \in 1..k
    <3>1. i \in 1..n /\ \A j \in 1..i : dq[j] >= Window
      OBVIOUS
    <3>2. CASE first <= i
      <4>1. \A j \in 1..first : j \in 1..i
        BY <1>1, <2>1, <3>1, <3>2
      <4>2. first \in old
        BY <1>1, <2>1, <3>1, <3>2, <4>1
      <4> QED BY <2>1, <4>2
    <3>3. CASE ~(first <= i)
      BY <1>1, <2>1, <3>1, <3>3
    <3> QED BY <3>2, <3>3
  <2>5. k \in 0..n
    BY <1>1, <2>1
  <2> HIDE DEF old, rest, k
  <2> QED BY <2>3, <2>4, <2>5
<1>6. Cardinality(old) = k
  <2>1. k \in Nat /\ Cardinality(1..k) = IF 1 > k THEN 0 ELSE k - 1 + 1
    BY <1>1, <1>5, FS_Interval
  <2> HIDE DEF old, k
  <2> QED BY <1>5, <2>1
<1>7. Young(dq) = (k + 1)..n
  <2>1. ASSUME NEW i \in 1..n
        PROVE  dq[i] < Window <=> i > k
    <3>1. dq[i] \in Nat /\ Window \in Nat /\ dq[i] <= Window
      BY <1>1, LimiterAssumption
    <3>2. CASE i <= k
      BY <1>5, <3>1, <3>2
    <3>3. CASE i > k
      <4>1. first \in 1..n /\ first <= i /\ first \notin old
        BY <1>1, <1>5, <3>3
      <4>2. PICK j \in 1..first : ~(dq[j] >= Window)
        BY <4>1
      <4>3. j \in 1..n /\ j <= i /\ dq[j] \in Nat
        BY <1>1, <4>1, <4>2
      <4>4. dq[j] >= dq[i]
        BY <1>1, <4>3, <3>1 DEF Falling
      <4> QED BY <3>1, <3>3, <4>2, <4>3, <4>4
    <3> QED BY <1>1, <1>5, <3>2, <3>3
  <2> QED BY <1>1, <1>5, <2>1 DEF Young
<1>8. Fresh(dq) = SubSeq(dq, k + 1, n)
  BY <1>6 DEF Fresh
<1> HIDE DEF old, rest, n
<1>9. /\ Len(SubSeq(dq, k + 1, n)) = n - k
      /\ \A i \in 1..(n - k) : SubSeq(dq, k + 1, n)[i] = dq[i + k]
  <2>1. \A i \in (k + 1)..n : dq[i] \in 0..Window
    BY <1>1, <1>5
  <2>2. /\ Len(SubSeq(dq, k + 1, n)) = IF k + 1 <= n THEN n - (k + 1) + 1 ELSE 0
        /\ \A i \in 1..(n - (k + 1) + 1) : SubSeq(dq, k + 1, n)[i] = dq[k + 1 + i - 1]
    <3>1. k + 1 \in Int /\ n \in Int
      BY <1>1, <1>5
    <3> HIDE DEF k
    <3> QED BY <2>1, <3>1, SubSeqProperties
  <2>3. k \in Nat /\ n \in Nat /\ k <= n
    BY <1>1, <1>5
  <2> HIDE DEF k
  <2>4. (k + 1 <= n => n - (k + 1) + 1 = n - k) /\ (~(k + 1 <= n) => n - k = 0)
        /\ n - (k + 1) + 1 = n - k /\ \A i \in 1..(n - k) : k + 1 + i - 1 = i + k
    BY <2>3
  <2> QED BY <2>2, <2>4
<1> QED BY <1>5, <1>7, <1>8, <1>9 DEF n

(* A deque without its outdated prefix is as good an account as before, and *)
(* all of it counts against the limit.                                      *)
LEMMA FreshTracks ==
    ASSUME NEW dq \in Seq(0..Window), NEW count, Tracks(dq, count)
    PROVE  /\ Tracks(Fresh(dq), count)
           /\ Len(Fresh(dq)) = Cardinality(Young(dq))
           /\ Young(Fresh(dq)) = DOMAIN Fresh(dq)
<1> DEFINE n == Len(dq)
           fresh == Fresh(dq)
<1>1. fresh \in Seq(0..Window)
  BY FreshType
<1>2. PICK k \in 0..n : /\ Young(dq) = (k + 1)..n
                        /\ Len(fresh) = n - k
                        /\ \A i \in 1..(n - k) : fresh[i] = dq[i + k]
  BY FreshDrops DEF Tracks
<1>3. /\ n \in Nat /\ DOMAIN dq = 1..n /\ DOMAIN fresh = 1..(n - k)
      /\ \A i \in 1..n : dq[i] \in 0..Window
  BY <1>1, <1>2, LenProperties, ElementOfSeq
<1> HIDE DEF n, fresh
<1>4. \A i \in 1..(n - k) : i + k \in (k + 1)..n /\ fresh[i] = dq[i + k]
  BY <1>2, <1>3
<1>5. Falling(fresh)
  <2> SUFFICES ASSUME NEW i \in DOMAIN fresh, NEW j \in DOMAIN fresh, i < j
               PROVE  fresh[i] >= fresh[j]
    BY DEF Falling
  <2>1. /\ i + k \in DOMAIN dq /\ j + k \in DOMAIN dq /\ i + k < j + k
        /\ fresh[i] = dq[i + k] /\ fresh[j] = dq[j + k]
    BY <1>3, <1>4
  <2> QED BY <2>1 DEF Tracks, Falling
<1>6. Young(fresh) = DOMAIN fresh
  BY <1>2, <1>3, <1>4 DEF Young
<1>7. Cardinality(Young(dq)) = n - k /\ Cardinality(DOMAIN fresh) = n - k
  <2>1. k \in Nat /\ n \in Nat /\ k <= n
    BY <1>3
  <2>2. /\ Cardinality((k + 1)..n) = IF k + 1 > n THEN 0 ELSE n - (k + 1) + 1
        /\ Cardinality(1..(n - k)) = IF 1 > n - k THEN 0 ELSE (n - k) - 1 + 1
    BY <2>1, FS_Interval
  <2> QED BY <1>2, <1>3, <2>1, <2>2
<1>8. ASSUME NEW a \in 0..(Window - 1)
      PROVE  Cardinality(Aged(fresh, a)) = Cardinality(Aged(dq, a))
  <2> DEFINE shift == [i \in Aged(fresh, a) |-> i + k]
  <2>1. \A i \in Aged(fresh, a) : i \in Nat /\ i + k \in Aged(dq, a)
    BY <1>2, <1>3, <1>4 DEF Aged
  <2>2. \A i \in Aged(dq, a) : i - k \in Aged(fresh, a) /\ (i - k) + k = i
    <3> SUFFICES ASSUME NEW i \in Aged(dq, a)
                 PROVE  i - k \in Aged(fresh, a) /\ (i - k) + k = i
      OBVIOUS
    <3>1. i \in 1..n /\ dq[i] = a /\ a < Window
      BY <1>3, LimiterAssumption DEF Aged
    <3>2. i \in (k + 1)..n
      BY <1>2, <1>3, <3>1 DEF Young
    <3> QED BY <1>2, <1>3, <1>4, <3>1, <3>2 DEF Aged
  <2>3. shift \in Bijection(Aged(fresh, a), Aged(dq, a))
    BY <1>2, <2>1, <2>2 DEF Bijection, Injection, Surjection, IsInjective
  <2> QED BY <1>1, <2>3, AgesFinite, FS_Bijection DEF ExistsBijection
<1> QED BY <1>2, <1>5, <1>6, <1>7, <1>8 DEF Tracks, fresh

(* An admission stamps the deque and is counted.                            *)
LEMMA StampTracks ==
    ASSUME NEW dq \in Seq(0..Window), NEW count \in [0..(Window - 1) -> Nat],
           Tracks(dq, count), Cardinality(Young(dq)) < Limit
    PROVE  Tracks(Append(dq, 0), [count EXCEPT ![0] = count[0] + 1])
<1> DEFINE n == Len(dq)
           next == Append(dq, 0)
<1>1. /\ 0 \in 0..Window /\ 0 \in 0..(Window - 1) /\ Window \in Nat /\ 0 < Window
      /\ Limit \in Nat
  BY LimiterAssumption
<1>2. /\ n \in Nat /\ DOMAIN dq = 1..n
      /\ \A i \in 1..n : dq[i] \in 0..Window
  BY LenProperties, ElementOfSeq
<1>3. /\ DOMAIN next = 1..(n + 1) /\ next[n + 1] = 0
      /\ \A i \in 1..n : next[i] = dq[i]
  BY <1>1, AppendProperties, LenProperties
<1> HIDE DEF n, next
<1>4. Falling(next)
  <2> SUFFICES ASSUME NEW i \in DOMAIN next, NEW j \in DOMAIN next, i < j
               PROVE  next[i] >= next[j]
    BY DEF Falling
  <2>1. i \in 1..n /\ next[i] = dq[i] /\ dq[i] \in Nat
    BY <1>1, <1>2, <1>3
  <2>2. CASE j = n + 1
    BY <1>3, <2>1, <2>2
  <2>3. CASE j # n + 1
    <3>1. j \in 1..n /\ next[j] = dq[j]
      BY <1>2, <1>3, <2>3
    <3> QED BY <1>2, <2>1, <3>1 DEF Tracks, Falling
  <2> QED BY <2>2, <2>3
<1>5. n + 1 \notin DOMAIN dq
  BY <1>2
<1>6. Young(next) = Young(dq) \union {n + 1} /\ n + 1 \notin Young(dq)
  BY <1>1, <1>2, <1>3 DEF Young
<1>7. Cardinality(Young(next)) <= Limit
  <2>1. Cardinality(Young(next)) = Cardinality(Young(dq)) + 1
    BY <1>6, AgesFinite, FS_AddElement
  <2> QED BY <1>1, <2>1, AgesFinite
<1>8. Aged(next, 0) = Aged(dq, 0) \union {n + 1} /\ n + 1 \notin Aged(dq, 0)
  BY <1>1, <1>2, <1>3 DEF Aged
<1>9. Cardinality(Aged(next, 0)) = count[0] + 1
  <2>1. Cardinality(Aged(next, 0)) = Cardinality(Aged(dq, 0)) + 1
    BY <1>8, AgesFinite, FS_AddElement
  <2>2. Cardinality(Aged(dq, 0)) = count[0]
    BY <1>1 DEF Tracks
  <2> QED BY <2>1, <2>2
<1>10. \A a \in 0..(Window - 1) : a # 0 => Aged(next, a) = Aged(dq, a)
  BY <1>1, <1>2, <1>3 DEF Aged
<1> QED BY <1>1, <1>4, <1>7, <1>9, <1>10 DEF Tracks, next

(* A tick ages stamps and admissions alike.                                 *)
LEMMA TickTracks ==
    ASSUME NEW dq \in Seq(0..Window), NEW count, Tracks(dq, count),
           NEW next, DOMAIN next = DOMAIN dq,
           \A i \in DOMAIN dq : next[i] = IF dq[i] < Window THEN dq[i] + 1 ELSE Window,
           NEW later,
           \A a \in 0..(Window - 1) : later[a] = IF a = 0 THEN 0 ELSE count[a - 1]
    PROVE  Tracks(next, later)
<1>1. Window \in Nat \ {0} /\ Limit \in Nat
  BY LimiterAssumption
<1>2. \A i \in DOMAIN dq : dq[i] \in 0..Window
  BY LenProperties, ElementOfSeq
<1>3. Falling(next)
  BY <1>1, <1>2 DEF Tracks, Falling
<1>4. Cardinality(Young(next)) <= Cardinality(Young(dq)) /\ Cardinality(Young(next)) \in Nat
  <2>1. Young(next) \subseteq Young(dq)
    BY <1>1, <1>2 DEF Young
  <2> QED BY <2>1, AgesFinite, FS_Subset, FS_CardinalityType
<1>5. ASSUME NEW a \in 0..(Window - 1)
      PROVE  Cardinality(Aged(next, a)) = later[a]
  <2>1. CASE a = 0
    <3>1. Aged(next, a) = {}
      BY <1>1, <1>2, <2>1 DEF Aged
    <3> QED BY <2>1, <3>1, FS_EmptySet
  <2>2. CASE a # 0
    <3>1. a - 1 \in 0..(Window - 1)
      BY <1>1, <2>2
    <3>2. \A i \in DOMAIN dq : next[i] = a <=> dq[i] = a - 1
      BY <1>1, <1>2, <2>2
    <3>3. Aged(next, a) = Aged(dq, a - 1)
      BY <3>2 DEF Aged
    <3> QED BY <2>2, <3>1, <3>3 DEF Tracks
  <2> QED BY <2>1, <2>2
<1>6. Cardinality(Young(next)) <= Limit
  BY <1>1, <1>4, AgesFinite DEF Tracks
<1> QED BY <1>3, <1>5, <1>6 DEF Tracks

(* What a deque tracks sums up to the stamps in its window.                 *)
LEMMA TrackedSum ==
    ASSUME NEW dq \in Seq(0..Window), NEW count \in [0..(Window - 1) -> Nat],
           Tracks(dq, count)
    PROVE  SumFunction(count) = Cardinality(Young(dq))
<1>1. Window \in Nat \ {0}
  BY LimiterAssumption
<1>2. \A i \in DOMAIN dq : dq[i] \in 0..Window
  BY LenProperties, ElementOfSeq
<1> DEFINE ages == 0..(Window - 1)
           part == [a \in ages |-> Aged(dq, a)]
<1>3. Disjoint(part, ages)
  <2>1. IsFiniteSet(ages)
    BY <1>1, FS_Interval
  <2> HIDE DEF ages
  <2>2. \A a \in ages : IsFiniteSet(part[a])
    BY AgesFinite
  <2>3. \A a, b \in ages : a # b => part[a] \intersect part[b] = {}
    BY DEF Aged
  <2> QED BY <2>1, <2>2, <2>3 DEF Disjoint
<1>4. \A a \in ages : count[a] = Cardinality(part[a])
  BY DEF Tracks
<1>5. Together(part, ages) = Young(dq)
  BY <1>1, <1>2 DEF Young, Aged, Together
<1> HIDE DEF part, ages
<1>6. SumFunctionOnSet(count, ages) = Cardinality(Young(dq))
  BY <1>3, <1>4, <1>5, SumOfSizes
<1>7. DOMAIN count = 0..(Window - 1)
  OBVIOUS
<1> QED BY <1>6, <1>7 DEF SumFunction, ages

(* Every deque of the limiter tracks the admissions of its client.          *)
Tracked == Limit > 0 => \A c \in Clients : Tracks(hits[c], passed[c])

LEMMA PassTracks ==
    ASSUME LimiterTypeOK, passed \in [Clients -> [0..(Window - 1) -> Nat]], Tracked,
           NEW c \in Clients, Pass(c) \/ (TurnAway(c) /\ UNCHANGED passed)
    PROVE  Tracked'
<1> SUFFICES ASSUME Limit > 0, NEW d \in Clients
             PROVE  Tracks(hits'[d], passed'[d])
  BY DEF Tracked
<1>1. /\ hits[d] \in Seq(0..Window) /\ passed[d] \in [0..(Window - 1) -> Nat]
      /\ Tracks(hits[d], passed[d])
  BY DEF LimiterTypeOK, Tracked
<1>2. /\ Fresh(hits[d]) \in Seq(0..Window) /\ Tracks(Fresh(hits[d]), passed[d])
      /\ Len(Fresh(hits[d])) = Cardinality(Young(Fresh(hits[d])))
  <2>1. Fresh(hits[d]) \in Seq(0..Window)
    BY <1>1, FreshType
  <2>2. /\ Tracks(Fresh(hits[d]), passed[d])
        /\ Young(Fresh(hits[d])) = 1..Len(Fresh(hits[d]))
    BY <1>1, <2>1, FreshTracks, LenProperties
  <2>3. Len(Fresh(hits[d])) \in Nat
    BY <2>1, LenProperties
  <2> DEFINE n == Len(Fresh(hits[d]))
  <2> HIDE DEF n
  <2>4. n \in Nat => Cardinality(1..n) = n
    BY FS_Interval
  <2> QED BY <2>1, <2>2, <2>3, <2>4 DEF n
<1>3. CASE d # c
  <2>1. hits'[d] = hits[d] /\ passed'[d] = passed[d]
    BY <1>3 DEF Pass, Charge, TurnAway, LimiterTypeOK
  <2> QED BY <1>1, <2>1
<1>4. CASE d = c /\ TurnAway(c) /\ UNCHANGED passed
  <2>1. hits'[d] = Fresh(hits[d]) /\ passed'[d] = passed[d]
    BY <1>4 DEF TurnAway, LimiterTypeOK
  <2> QED BY <1>2, <2>1
<1>5. CASE d = c /\ Pass(c)
  <2>1. /\ hits'[d] = Append(Fresh(hits[d]), 0)
        /\ passed'[d] = [passed[d] EXCEPT ![0] = passed[d][0] + 1]
        /\ Len(Fresh(hits[d])) < Limit
    BY <1>5 DEF Pass, Charge, Allows, LimiterTypeOK
  <2> QED BY <1>1, <1>2, <2>1, StampTracks
<1> QED BY <1>3, <1>4, <1>5

(* The limit is exact for every limit, every window and every set of        *)
(* clients: whatever bursts and pauses their requests come in, what the     *)
(* deque answers is what has passed within the window that ends now         *)
(* (ratelimit.py:31, app.py:163,248).                                       *)
THEOREM QuotaKept == GatewaySpec => []QuotaExact
<1> DEFINE Typed == LimiterTypeOK /\ passed \in [Clients -> [0..(Window - 1) -> Nat]]
<1>1. GatewayInit => Tracked
  <2> SUFFICES ASSUME GatewayInit, Limit > 0, NEW c \in Clients
               PROVE  Tracks(hits[c], passed[c])
    BY DEF Tracked
  <2>1. /\ hits[c] = <<>> /\ \A a \in 0..(Window - 1) : passed[c][a] = 0
    BY DEF GatewayInit, LimiterInit
  <2> DEFINE dq == hits[c]
  <2>2. DOMAIN dq = {}
    BY <2>1
  <2> HIDE DEF dq
  <2>3. Young(dq) = {} /\ (\A a : Aged(dq, a) = {}) /\ Falling(dq)
    BY <2>2 DEF Young, Aged, Falling
  <2>4. Cardinality({}) = 0 /\ Limit \in Nat
    BY FS_EmptySet, LimiterAssumption
  <2>5. Tracks(dq, passed[c])
    BY <2>1, <2>3, <2>4 DEF Tracks
  <2> QED BY <2>5 DEF dq
<1>2. ASSUME Typed, Tracked, [GatewayNext]_gatewayVars
      PROVE  Tracked'
  <2>1. ASSUME NEW c \in Clients, Pass(c) \/ (TurnAway(c) /\ UNCHANGED passed)
        PROVE  Tracked'
    BY <1>2, <2>1, PassTracks
  <2>2. ASSUME NEW r \in Tasks, Post(r)
        PROVE  Tracked'
    BY <1>2, <2>1, <2>2, GatewayAssumption DEF Post, Tracked
  <2>3. ASSUME NEW c \in Clients, ListModels(c)
        PROVE  Tracked'
    BY <2>1, <2>3 DEF ListModels
  <2>4. CASE GatewayTick
    <3> SUFFICES ASSUME Limit > 0, NEW c \in Clients
                 PROVE  Tracks(hits'[c], passed'[c])
      BY DEF Tracked
    <3>1. hits[c] \in Seq(0..Window) /\ Tracks(hits[c], passed[c])
      BY <1>2 DEF LimiterTypeOK, Tracked
    <3>2. /\ DOMAIN hits'[c] = DOMAIN hits[c]
          /\ \A i \in DOMAIN hits[c] :
                hits'[c][i] = IF hits[c][i] < Window THEN hits[c][i] + 1 ELSE Window
          /\ \A a \in 0..(Window - 1) : passed'[c][a] = IF a = 0 THEN 0 ELSE passed[c][a - 1]
      BY <2>4 DEF GatewayTick, Age
    <3> DEFINE dq == hits[c]
               next == hits'[c]
               count == passed[c]
               later == passed'[c]
    <3>3. /\ dq \in Seq(0..Window) /\ Tracks(dq, count) /\ DOMAIN next = DOMAIN dq
          /\ \A i \in DOMAIN dq : next[i] = IF dq[i] < Window THEN dq[i] + 1 ELSE Window
          /\ \A a \in 0..(Window - 1) : later[a] = IF a = 0 THEN 0 ELSE count[a - 1]
      BY <3>1, <3>2
    <3> HIDE DEF dq, next, count, later
    <3>4. Tracks(next, later)
      BY <3>3, TickTracks
    <3> QED BY <3>4 DEF next, later
  <2>5. ASSUME UNCHANGED <<hits, passed>>
        PROVE  Tracked'
    BY <1>2, <2>5 DEF Tracked
  <2>6. ASSUME NEW r \in Tasks, Read(r) \/ Throttled(r) \/ Handle(r)
        PROVE  UNCHANGED <<hits, passed>>
    BY <2>6 DEF Read, Throttled, Handle, Again, UpstreamEnds, Pipeline, gateway
  <2>7. CASE InvalidateCache \/ Vanish \/ UNCHANGED gatewayVars
    BY <2>5, <2>7 DEF InvalidateCache, Vanish, gatewayVars, gateway
  <2> QED BY <1>2, <2>2, <2>3, <2>4, <2>5, <2>6, <2>7 DEF GatewayNext
<1>3. ASSUME Typed, Tracked
      PROVE  QuotaExact
  <2> SUFFICES ASSUME Limit > 0, NEW c \in Clients
               PROVE  LET n == SumFunction(passed[c]) IN n <= Limit /\ (Allows(c) <=> n < Limit)
    BY DEF QuotaExact
  <2>1. /\ hits[c] \in Seq(0..Window) /\ passed[c] \in [0..(Window - 1) -> Nat]
        /\ Tracks(hits[c], passed[c])
    BY <1>3 DEF LimiterTypeOK, Tracked
  <2>2. /\ SumFunction(passed[c]) = Cardinality(Young(hits[c]))
        /\ Len(Fresh(hits[c])) = Cardinality(Young(hits[c]))
    BY <2>1, TrackedSum, FreshTracks
  <2> QED BY <2>1, <2>2 DEF Tracks, Allows
<1>4. GatewayTypeOK => Typed
  BY DEF GatewayTypeOK
<1> HIDE DEF Typed
<1> QED BY <1>1, <1>2, <1>3, <1>4, GatewayTypes, PTL DEF GatewaySpec
=============================================================================
