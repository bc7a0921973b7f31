---------------------------- MODULE BreakerProofs ----------------------------
(* Theorems about Fail2ban and BreakerHistory, for every set of endpoints  *)
(* and every value of the breaker's parameters.                            *)
EXTENDS BreakerHistory, TLAPS

(* What one operation of the breaker does, as a disjunction the proofs     *)
(* split on.                                                               *)
LEMMA NextCases ==
  ASSUME Next
  PROVE  \/ Tick
         \/ \E e \in EndpointKey : IsBanned(e)
         \/ \E e \in EndpointKey : Success(e)
         \/ \E e \in EndpointKey : Reset(e)
         \/ \E e \in EndpointKey, code \in Status \cup {NetworkError} :
              record_failure_with_code(e, code) /\ UNCHANGED now
BY DEF Next, Failure, record_failure

-----------------------------------------------------------------------------
(* Every step of every operation keeps the state well-typed.               *)
LEMMA TypeStep ==
  ASSUME TypeOK, [Next]_vars
  PROVE  TypeOK'
<1> USE Fail2banAssumption DEF TypeOK, None, NetworkError
<1>1. CASE UNCHANGED vars
  BY <1>1 DEF vars, breakerVars
<1>2. CASE Tick
  BY <1>2 DEF Tick, breakerVars
<1>3. ASSUME NEW e \in EndpointKey, IsBanned(e)
      PROVE  TypeOK'
  BY <1>3 DEF IsBanned, is_banned, breakerVars
<1>4. ASSUME NEW e \in EndpointKey, Success(e)
      PROVE  TypeOK'
  BY <1>4 DEF Success, record_success
<1>5. ASSUME NEW e \in EndpointKey, Reset(e)
      PROVE  TypeOK'
  BY <1>5 DEF Reset, reset
<1>6. ASSUME NEW e \in EndpointKey, NEW code \in Status \cup {NetworkError},
             record_failure_with_code(e, code), UNCHANGED now
      PROVE  TypeOK'
  BY <1>6 DEF record_failure_with_code
<1>7. QED
  BY <1>1, <1>2, <1>3, <1>4, <1>5, <1>6, NextCases

(* The state of the breaker stays within its types, whatever sequence of   *)
(* calls it gets (`breaker.rs`, every operation).                          *)
THEOREM TypeCorrect == Spec => []TypeOK
<1>1. Init => TypeOK
  BY DEF Init, BreakerInit, TypeOK, NetworkError
<1>2. TypeOK /\ [Next]_vars => TypeOK'
  BY TypeStep
<1>3. QED
  BY <1>1, <1>2, PTL DEF Spec

-----------------------------------------------------------------------------
(* Each operation keeps a count at the threshold together with its ban.    *)
LEMMA ThresholdStep ==
  ASSUME TypeOK, ThresholdHasBan, [Next]_vars
  PROVE  ThresholdHasBan'
<1> SUFFICES ASSUME MaxFailures > 0, NEW k \in EndpointKey,
                    consecutive_failures'[k] >= MaxFailures
             PROVE  banned_until'[k] # None
  BY DEF ThresholdHasBan
<1>0. consecutive_failures[k] >= MaxFailures => banned_until[k] # None
  BY DEF ThresholdHasBan
<1> USE Fail2banAssumption DEF TypeOK, None
<1>1. CASE UNCHANGED vars
  BY <1>0, <1>1 DEF vars, breakerVars
<1>2. CASE Tick
  BY <1>0, <1>2 DEF Tick, breakerVars
<1>3. ASSUME NEW e \in EndpointKey, IsBanned(e)
      PROVE  banned_until'[k] # None
  BY <1>0, <1>3 DEF IsBanned, is_banned, breakerVars
<1>4. ASSUME NEW e \in EndpointKey, Success(e)
      PROVE  banned_until'[k] # None
  BY <1>0, <1>4 DEF Success, record_success
<1>5. ASSUME NEW e \in EndpointKey, Reset(e)
      PROVE  banned_until'[k] # None
  BY <1>0, <1>5 DEF Reset, reset
<1>6. ASSUME NEW e \in EndpointKey, NEW code \in Status \cup {NetworkError},
             record_failure_with_code(e, code), UNCHANGED now
      PROVE  banned_until'[k] # None
  BY <1>0, <1>6 DEF record_failure_with_code, JustBanned
<1>7. QED
  BY <1>1, <1>2, <1>3, <1>4, <1>5, <1>6, NextCases

(* No endpoint keeps MaxFailures failures in a row on its count without    *)
(* the ban they caused (`record_failure_with_code`, `is_banned`, `reset`). *)
THEOREM ThresholdBan == Spec => []ThresholdHasBan
<1>1. Init => ThresholdHasBan
  BY Fail2banAssumption DEF Init, BreakerInit, ThresholdHasBan
<1>2. TypeOK /\ ThresholdHasBan /\ [Next]_vars => ThresholdHasBan'
  BY ThresholdStep
<1>3. QED
  BY <1>1, <1>2, TypeCorrect, PTL DEF Spec

-----------------------------------------------------------------------------
(* Every operation counts a failure as a request, and clears the count of  *)
(* failures in a row only downwards.                                       *)
LEMMA CountersStep ==
  ASSUME TypeOK, CountersNest, [Next]_vars
  PROVE  CountersNest'
<1> USE DEF TypeOK, CountersNest
<1>1. CASE UNCHANGED vars
  BY <1>1 DEF vars, breakerVars
<1>2. CASE Tick
  BY <1>2 DEF Tick, breakerVars
<1>3. ASSUME NEW e \in EndpointKey, IsBanned(e)
      PROVE  CountersNest'
  BY <1>3 DEF IsBanned, is_banned, breakerVars
<1>4. ASSUME NEW e \in EndpointKey, Success(e)
      PROVE  CountersNest'
  BY <1>4 DEF Success, record_success
<1>5. ASSUME NEW e \in EndpointKey, Reset(e)
      PROVE  CountersNest'
  BY <1>5 DEF Reset, reset
<1>6. ASSUME NEW e \in EndpointKey, NEW code \in Status \cup {NetworkError},
             record_failure_with_code(e, code), UNCHANGED now
      PROVE  CountersNest'
  BY <1>6 DEF record_failure_with_code
<1>7. QED
  BY <1>1, <1>2, <1>3, <1>4, <1>5, <1>6, NextCases

(* Failures in a row never outnumber failures, nor failures requests: the  *)
(* error rate that record_failure_with_code computes lies between 0 and 1. *)
THEOREM CountersAlwaysNest == Spec => []CountersNest
<1>1. Init => CountersNest
  <2> SUFFICES ASSUME Init, NEW e \in EndpointKey
               PROVE  /\ consecutive_failures[e] <= total_failures[e]
                      /\ total_failures[e] <= total_requests[e]
    BY DEF CountersNest
  <2>1. /\ consecutive_failures[e] = 0
        /\ total_failures[e] = 0
        /\ total_requests[e] = 0
    BY DEF Init, BreakerInit
  <2>2. QED
    BY <2>1
<1>2. TypeOK /\ CountersNest /\ [Next]_vars => CountersNest'
  BY CountersStep
<1>3. QED
  BY <1>1, <1>2, TypeCorrect, PTL DEF Spec

-----------------------------------------------------------------------------
(* No ban ends later than BanDuration from now.                            *)
BanWithinDuration ==
  \A e \in EndpointKey : banned_until[e] <= now + BanDuration

LEMMA DurationStep ==
  ASSUME TypeOK, BanWithinDuration, [Next]_vars
  PROVE  BanWithinDuration'
<1> SUFFICES ASSUME NEW k \in EndpointKey
             PROVE  banned_until'[k] <= now' + BanDuration
  BY DEF BanWithinDuration
<1>0. banned_until[k] <= now + BanDuration
  BY DEF BanWithinDuration
<1> USE <1>0, Fail2banAssumption DEF TypeOK, None
<1>1. CASE UNCHANGED vars
  BY <1>1 DEF vars, breakerVars
<1>2. CASE Tick
  BY <1>2 DEF Tick, breakerVars
<1>3. ASSUME NEW e \in EndpointKey, IsBanned(e)
      PROVE  banned_until'[k] <= now' + BanDuration
  BY <1>3 DEF IsBanned, is_banned, breakerVars
<1>4. ASSUME NEW e \in EndpointKey, Success(e)
      PROVE  banned_until'[k] <= now' + BanDuration
  BY <1>4 DEF Success, record_success
<1>5. ASSUME NEW e \in EndpointKey, Reset(e)
      PROVE  banned_until'[k] <= now' + BanDuration
  BY <1>5 DEF Reset, reset
<1>6. ASSUME NEW e \in EndpointKey, NEW code \in Status \cup {NetworkError},
             record_failure_with_code(e, code), UNCHANGED now
      PROVE  banned_until'[k] <= now' + BanDuration
  BY <1>6 DEF record_failure_with_code
<1>7. QED
  BY <1>1, <1>2, <1>3, <1>4, <1>5, <1>6, NextCases

LEMMA DurationInvariant == Spec => []BanWithinDuration
<1>1. Init => BanWithinDuration
  <2> SUFFICES ASSUME Init, NEW e \in EndpointKey
               PROVE  banned_until[e] <= now + BanDuration
    BY DEF BanWithinDuration
  <2>1. banned_until[e] = -1 /\ now = 0
    BY DEF Init, BreakerInit, None
  <2>2. QED
    BY <2>1, Fail2banAssumption
<1>2. TypeOK /\ BanWithinDuration /\ [Next]_vars => BanWithinDuration'
  BY DurationStep
<1>3. QED
  BY <1>1, <1>2, TypeCorrect, PTL DEF Spec

(* Nothing but `reset` ends or shortens a ban that still runs: a success   *)
(* in flight, another failure and is_banned leave it or prolong it.        *)
THEOREM ResetAloneLifts == Spec => OnlyResetLiftsABan
<1>1. ASSUME TypeOK, BanWithinDuration, [Next]_vars,
             NEW k \in EndpointKey, Banned(k)
      PROVE  banned_until'[k] >= banned_until[k] \/ Reset(k)
  <2>0. banned_until[k] \in Nat /\ now \in Nat /\ banned_until[k] <= now + BanDuration
    BY <1>1 DEF TypeOK, Banned, BanWithinDuration
  <2> USE <2>0, Fail2banAssumption
  <2>1. CASE UNCHANGED vars
    BY <2>1 DEF vars, breakerVars
  <2>2. CASE Tick
    BY <2>2 DEF Tick, breakerVars
  <2>3. ASSUME NEW e \in EndpointKey, IsBanned(e)
        PROVE  banned_until'[k] >= banned_until[k]
    BY <1>1, <2>3 DEF IsBanned, is_banned, breakerVars, Banned, TypeOK, None
  <2>4. ASSUME NEW e \in EndpointKey, Success(e)
        PROVE  banned_until'[k] >= banned_until[k]
    BY <2>4 DEF Success, record_success
  <2>5. ASSUME NEW e \in EndpointKey, Reset(e)
        PROVE  banned_until'[k] >= banned_until[k] \/ Reset(k)
    <3>1. CASE e = k
      BY <2>5, <3>1
    <3>2. CASE e # k
      BY <1>1, <2>5, <3>2 DEF Reset, reset, TypeOK
    <3>3. QED
      BY <3>1, <3>2
  <2>6. ASSUME NEW e \in EndpointKey, NEW code \in Status \cup {NetworkError},
               record_failure_with_code(e, code), UNCHANGED now
        PROVE  banned_until'[k] >= banned_until[k]
    BY <1>1, <2>6 DEF record_failure_with_code, TypeOK
  <2>7. QED
    BY <1>1, <2>1, <2>2, <2>3, <2>4, <2>5, <2>6, NextCases
<1>2. TypeOK /\ BanWithinDuration /\ [Next]_vars
        => [\A e \in EndpointKey :
              Banned(e) => banned_until'[e] >= banned_until[e] \/ Reset(e)]_vars
  BY <1>1
<1>3. QED
  BY <1>2, TypeCorrect, DurationInvariant, PTL DEF Spec, OnlyResetLiftsABan

-----------------------------------------------------------------------------
(* The breaker with its history takes the breaker's steps only.            *)
LEMMA HistoryIsHarmless == HSpec => Spec
<1>1. HInit => Init
  BY DEF HInit
<1>2. [HNext]_hvars => [Next]_vars
  <2>1. HNext => Next
    BY DEF HNext, HTick, HIsBanned, HSuccess, HFailure, HReset, Next
  <2>2. UNCHANGED hvars => UNCHANGED vars
    BY DEF hvars
  <2>3. QED
    BY <2>1, <2>2
<1>3. QED
  BY <1>1, <1>2, PTL DEF HSpec, Spec

(* What a step with history does, as a disjunction the proofs split on.    *)
LEMMA HNextCases ==
  ASSUME HNext
  PROVE  \/ Tick /\ UNCHANGED historyVars
         \/ \E e \in EndpointKey : IsBanned(e) /\ UNCHANGED historyVars
         \/ \E e \in EndpointKey : Reset(e) /\ UNCHANGED historyVars
         \/ \E e \in EndpointKey : HSuccess(e)
         \/ \E e \in EndpointKey, code \in Status \cup {NetworkError} :
              /\ record_failure_with_code(e, code) /\ UNCHANGED now
              /\ streak' = [streak EXCEPT ![e] = @ + 1]
              /\ last_failure' = [last_failure EXCEPT ![e] = now]
BY DEF HNext, HTick, HIsBanned, HReset, HFailure, Failure, record_failure

(* What is known of the code's counters and instants from the history.     *)
FailuresPast == \A e \in EndpointKey : last_failure[e] <= now

HInv ==
  /\ HTypeOK
  /\ FailuresPast
  /\ CountWithinStreak
  /\ BanFollowsAFailure

LEMMA HInvInit == HInit => HInv
<1> SUFFICES ASSUME HInit
             PROVE  HInv
  OBVIOUS
<1>1. HTypeOK
  BY DEF HInit, Init, BreakerInit, HTypeOK, TypeOK, NetworkError
<1>2. CountWithinStreak
  <2> SUFFICES ASSUME NEW e \in EndpointKey
               PROVE  consecutive_failures[e] <= streak[e]
    BY DEF CountWithinStreak
  <2>1. consecutive_failures[e] = 0 /\ streak[e] = 0
    BY DEF HInit, Init, BreakerInit
  <2>2. QED
    BY <2>1
<1>3. BanFollowsAFailure
  BY DEF HInit, Init, BreakerInit, BanFollowsAFailure
<1>4. FailuresPast
  <2> SUFFICES ASSUME NEW e \in EndpointKey
               PROVE  last_failure[e] <= now
    BY DEF FailuresPast
  <2>1. last_failure[e] = -1 /\ now = 0
    BY DEF HInit, Init, None
  <2>2. QED
    BY <2>1
<1>5. QED
  BY <1>1, <1>2, <1>3, <1>4 DEF HInv

LEMMA HInvStep ==
  ASSUME HInv, [HNext]_hvars
  PROVE  HInv'
<1> USE Fail2banAssumption
        DEF HInv, HTypeOK, TypeOK, CountWithinStreak, BanFollowsAFailure,
            FailuresPast, None, NetworkError
<1>1. CASE UNCHANGED hvars
  BY <1>1 DEF hvars, historyVars, vars, breakerVars
<1>2. CASE Tick /\ UNCHANGED historyVars
  BY <1>2 DEF Tick, historyVars, breakerVars
<1>3. ASSUME NEW e \in EndpointKey, IsBanned(e), UNCHANGED historyVars
      PROVE  HInv'
  BY <1>3 DEF IsBanned, is_banned, historyVars, breakerVars
<1>4. ASSUME NEW e \in EndpointKey, Reset(e), UNCHANGED historyVars
      PROVE  HInv'
  BY <1>4 DEF Reset, reset, historyVars
<1>5. ASSUME NEW e \in EndpointKey, HSuccess(e)
      PROVE  HInv'
  BY <1>5 DEF HSuccess, Success, record_success
<1>6. ASSUME NEW e \in EndpointKey, NEW code \in Status \cup {NetworkError},
             record_failure_with_code(e, code), UNCHANGED now,
             streak' = [streak EXCEPT ![e] = @ + 1],
             last_failure' = [last_failure EXCEPT ![e] = now]
      PROVE  HInv'
  <2>1. HTypeOK'
    BY <1>6 DEF record_failure_with_code
  <2>2. CountWithinStreak'
    BY <1>6 DEF record_failure_with_code
  <2>3. ASSUME NEW k \in EndpointKey, banned_until'[k] # None
        PROVE  /\ last_failure'[k] # None
               /\ banned_until'[k] <= last_failure'[k] + BanDuration
    <3>1. CASE k = e
      BY <1>6, <2>3, <3>1 DEF record_failure_with_code
    <3>2. CASE k # e
      BY <1>6, <2>3, <3>2 DEF record_failure_with_code
    <3>3. QED
      BY <3>1, <3>2
  <2>4. FailuresPast'
    BY <1>6
  <2>5. QED
    BY <2>1, <2>2, <2>3, <2>4
<1>7. QED
  BY <1>1, <1>2, <1>3, <1>4, <1>5, <1>6, HNextCases

LEMMA HInvariant == HSpec => []HInv
BY HInvInit, HInvStep, PTL DEF HSpec

(* The history keeps its types too: no count goes below zero.              *)
THEOREM HTypeCorrect == HSpec => []HTypeOK
<1>1. HInv => HTypeOK
  BY DEF HInv
<1>2. QED
  BY <1>1, HInvariant, PTL

(* The count of failures in a row never runs ahead of the failures that    *)
(* really came in a row; expiry and `reset` only ever make it fall behind. *)
THEOREM CountNeverOverstates == HSpec => []CountWithinStreak
<1>1. HInv => CountWithinStreak
  BY DEF HInv
<1>2. QED
  BY <1>1, HInvariant, PTL

(* A ban is over BanDuration after the last failure at the latest.         *)
THEOREM BansEnd == HSpec => []BanFollowsAFailure
<1>1. HInv => BanFollowsAFailure
  BY DEF HInv
<1>2. QED
  BY <1>1, HInvariant, PTL

(* A ban is set or prolonged only for one of the README's two reasons:     *)
(* MaxFailures failures in a row, or an error rate above the threshold.    *)
THEOREM BansAreJustified == HSpec => BanJustified
<1>1. ASSUME HInv, [HNext]_hvars, NEW k \in EndpointKey,
             banned_until'[k] \notin {None, banned_until[k]}
      PROVE  \/ streak'[k] >= MaxFailures
             \/ RateExceeded(total_failures'[k], total_requests'[k])
  <2> USE <1>1
  <2>1. CASE UNCHANGED hvars
    BY <2>1 DEF hvars, vars, breakerVars
  <2>2. CASE Tick
    BY <2>2 DEF Tick, breakerVars
  <2>3. ASSUME NEW e \in EndpointKey, IsBanned(e)
        PROVE  FALSE
    BY <2>3 DEF IsBanned, is_banned, breakerVars, HInv, HTypeOK, TypeOK
  <2>4. ASSUME NEW e \in EndpointKey, Reset(e)
        PROVE  FALSE
    BY <2>4 DEF Reset, reset, HInv, HTypeOK, TypeOK
  <2>5. ASSUME NEW e \in EndpointKey, HSuccess(e)
        PROVE  FALSE
    BY <2>5 DEF HSuccess, Success, record_success
  <2>6. ASSUME NEW e \in EndpointKey, NEW code \in Status \cup {NetworkError},
               record_failure_with_code(e, code),
               streak' = [streak EXCEPT ![e] = @ + 1]
        PROVE  \/ streak'[k] >= MaxFailures
               \/ RateExceeded(total_failures'[k], total_requests'[k])
    <3>1. k = e /\ JustBanned(e)
      BY <2>6 DEF record_failure_with_code, HInv, HTypeOK, TypeOK
    <3>2. CASE consecutive_failures[e] + 1 >= MaxFailures
      <4>1. /\ streak[e] \in Nat /\ consecutive_failures[e] \in Nat
            /\ consecutive_failures[e] <= streak[e]
            /\ streak'[e] = streak[e] + 1
        BY <2>6 DEF HInv, HTypeOK, TypeOK, CountWithinStreak
      <4>2. QED
        BY <3>1, <3>2, <4>1, Fail2banAssumption
    <3>3. CASE RateExceeded(total_failures[e] + 1, total_requests[e] + 1)
      <4>1. /\ total_failures'[e] = total_failures[e] + 1
            /\ total_requests'[e] = total_requests[e] + 1
        BY <2>6 DEF record_failure_with_code, HInv, HTypeOK, TypeOK
      <4>2. QED
        BY <3>1, <3>3, <4>1
    <3>4. QED
      BY <3>1, <3>2, <3>3 DEF JustBanned
  <2>7. QED
    BY <2>1, <2>2, <2>3, <2>4, <2>5, <2>6, HNextCases
<1>2. HInv /\ [HNext]_hvars
        => [\A e \in EndpointKey :
              banned_until'[e] \notin {None, banned_until[e]} =>
                \/ streak'[e] >= MaxFailures
                \/ RateExceeded(total_failures'[e], total_requests'[e])]_hvars
  BY <1>1
<1>3. QED
  BY <1>2, HInvariant, PTL DEF HSpec, BanJustified

-----------------------------------------------------------------------------
(* What a step of the breaker is to its callers.  The four lemmas follow   *)
(* the operations; is_banned is the one they do not notice.                *)
LEMMA LooksUnnoticed ==
  ASSUME TypeOK, NEW e \in EndpointKey, IsBanned(e), UNCHANGED historyVars
  PROVE  UNCHANGED Abstract!vars
<1>1. ASSUME NEW k \in EndpointKey
      PROVE  (IF Banned(k) THEN banned_until[k] ELSE 0)' = IF Banned(k) THEN banned_until[k] ELSE 0
  BY <1>1 DEF IsBanned, is_banned, Banned, breakerVars, TypeOK
<1>2. Until' = Until
  BY <1>1 DEF Until
<1>3. QED
  BY <1>2 DEF Abstract!vars, IsBanned, is_banned, historyVars, breakerVars

LEMMA TickPasses ==
  ASSUME TypeOK, Tick, UNCHANGED historyVars
  PROVE  Abstract!Pass
<1>1. ASSUME NEW k \in EndpointKey
      PROVE  (IF Banned(k) THEN banned_until[k] ELSE 0)' = Abstract!Ahead(Until[k], now + 1)
  BY <1>1 DEF Tick, Banned, breakerVars, TypeOK, Until, Abstract!Ahead, None
<1>2. Until' = [k \in EndpointKey |-> Abstract!Ahead(Until[k], now + 1)]
  BY <1>1 DEF Until
<1>3. QED
  BY <1>2 DEF Abstract!Pass, Tick, historyVars, breakerVars

LEMMA SuccessSucceeds ==
  ASSUME TypeOK, NEW e \in EndpointKey, HSuccess(e)
  PROVE  Abstract!Succeed(e)
<1>1. now' = now /\ banned_until' = banned_until
  BY DEF HSuccess, Success, record_success
<1>2. Until' = Until
  BY <1>1 DEF Until, Banned
<1>3. QED
  BY <1>2 DEF Abstract!Succeed, HSuccess, Success, record_success

LEMMA ResetCloses ==
  ASSUME TypeOK, NEW e \in EndpointKey, Reset(e), UNCHANGED historyVars
  PROVE  Abstract!Close(e)
<1>1. ASSUME NEW k \in EndpointKey
      PROVE  (IF Banned(k) THEN banned_until[k] ELSE 0)' = [Until EXCEPT ![e] = 0][k]
  BY <1>1 DEF Reset, reset, Banned, TypeOK, Until, None
<1>2. Until' = [Until EXCEPT ![e] = 0]
  BY <1>1 DEF Until
<1>3. QED
  BY <1>2 DEF Abstract!Close, Reset, reset, historyVars

LEMMA FailureFails ==
  ASSUME HInv, NEW e \in EndpointKey, NEW code \in Status \cup {NetworkError},
         record_failure_with_code(e, code), UNCHANGED now,
         streak' = [streak EXCEPT ![e] = @ + 1]
  PROVE  Abstract!Fail(e)
<1> USE DEF HInv, HTypeOK, TypeOK
<1>1. /\ total_requests' = [total_requests EXCEPT ![e] = @ + 1]
      /\ total_failures' = [total_failures EXCEPT ![e] = @ + 1]
      /\ banned_until' = IF JustBanned(e)
                         THEN [banned_until EXCEPT ![e] = now + BanDuration]
                         ELSE banned_until
  BY DEF record_failure_with_code
<1>2. CASE JustBanned(e)
  <2>1. ASSUME NEW k \in EndpointKey
        PROVE  (IF Banned(k) THEN banned_until[k] ELSE 0)'
                 = [Until EXCEPT ![e] = Abstract!Ahead(now + BanDuration, now)][k]
    BY <1>1, <1>2, <2>1, Fail2banAssumption DEF Banned, Until, Abstract!Ahead, None
  <2>2. Until' = [Until EXCEPT ![e] = Abstract!Ahead(now + BanDuration, now)]
    BY <2>1 DEF Until
  <2>3. streak[e] + 1 >= MaxFailures \/ Abstract!TooMany(e)
    <3>1. /\ streak[e] \in Nat /\ consecutive_failures[e] \in Nat
          /\ consecutive_failures[e] <= streak[e]
      BY DEF CountWithinStreak
    <3>2. QED
      BY <1>2, <3>1, Fail2banAssumption DEF JustBanned, RateExceeded, Abstract!TooMany
  <2>4. QED
    BY <1>1, <2>2, <2>3 DEF Abstract!Fail
<1>3. CASE ~JustBanned(e)
  <2>1. Until' = Until
    BY <1>1, <1>3 DEF Until, Banned
  <2>2. ~Abstract!TooMany(e)
    BY <1>3 DEF JustBanned, RateExceeded, Abstract!TooMany
  <2>3. QED
    BY <1>1, <2>1, <2>2 DEF Abstract!Fail
<1>4. QED
  BY <1>2, <1>3

(* The breaker of breaker.rs implements CircuitBreaker, for any endpoints, *)
(* thresholds and bounds: with the invariant HInv every operation maps to  *)
(* the abstract one or, if it is a look, to nothing.                       *)
THEOREM Implements == HSpec => ImplementsCircuitBreaker
<1>1. HInit => Abstract!Init
  <2> SUFFICES ASSUME HInit
               PROVE  Abstract!Init
    OBVIOUS
  <2>1. ASSUME NEW k \in EndpointKey
        PROVE  (IF Banned(k) THEN banned_until[k] ELSE 0) = 0
    BY <2>1 DEF HInit, Init, BreakerInit, Banned
  <2>2. Until = [k \in EndpointKey |-> 0]
    BY <2>1 DEF Until
  <2>3. QED
    BY <2>2 DEF HInit, Init, BreakerInit, Abstract!Init
<1>2. HInv /\ [HNext]_hvars => [Abstract!Next]_(Abstract!vars)
  <2> SUFFICES ASSUME HInv, [HNext]_hvars
               PROVE  Abstract!Next \/ UNCHANGED Abstract!vars
    BY DEF Abstract!vars
  <2>0. TypeOK
    BY DEF HInv, HTypeOK
  <2>1. CASE UNCHANGED hvars
    <3>1. Until' = Until
      BY <2>1 DEF hvars, vars, breakerVars, Until, Banned
    <3>2. QED
      BY <2>1, <3>1 DEF hvars, vars, breakerVars, historyVars, Abstract!vars
  <2>2. CASE Tick /\ UNCHANGED historyVars
    BY <2>0, <2>2, TickPasses DEF Abstract!Next
  <2>3. ASSUME NEW e \in EndpointKey, IsBanned(e), UNCHANGED historyVars
        PROVE  UNCHANGED Abstract!vars
    BY <2>0, <2>3, LooksUnnoticed
  <2>4. ASSUME NEW e \in EndpointKey, Reset(e), UNCHANGED historyVars
        PROVE  Abstract!Next
    BY <2>0, <2>4, ResetCloses DEF Abstract!Next
  <2>5. ASSUME NEW e \in EndpointKey, HSuccess(e)
        PROVE  Abstract!Next
    BY <2>0, <2>5, SuccessSucceeds DEF Abstract!Next
  <2>6. ASSUME NEW e \in EndpointKey, NEW code \in Status \cup {NetworkError},
               record_failure_with_code(e, code), UNCHANGED now,
               streak' = [streak EXCEPT ![e] = @ + 1]
        PROVE  Abstract!Next
    BY <2>6, FailureFails DEF Abstract!Next
  <2>7. QED
    BY <2>1, <2>2, <2>3, <2>4, <2>5, <2>6, HNextCases
<1>3. QED
  BY <1>1, <1>2, HInvariant, PTL DEF HSpec, ImplementsCircuitBreaker, Abstract!Spec
=============================================================================
