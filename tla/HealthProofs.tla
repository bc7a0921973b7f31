---------------------------- MODULE HealthProofs ----------------------------
(* Theorems about HealthChecker, for every configuration, any number of    *)
(* requests beside the checker, and whatever the endpoints answer.         *)
EXTENDS HealthChecker, RouterProofs, FiniteSetTheorems

-----------------------------------------------------------------------------
(* Who has told the breaker of its result, and not yet the store.          *)

Counting == {r \in Request : pc[r] = "count"}
Counted(k) == {r \in Counting : Key(r) = k}
CountedErrors(k) == {r \in Counted(k) : Failed(r)}

\* What the store counts of an endpoint; without an entry nothing.
Seen(k) == IF health[k] = NoEntry THEN 0
           ELSE health[k].request_count + health[k].error_count
SeenErrors(k) == IF health[k] = NoEntry THEN 0 ELSE health[k].error_count

Behind(seen, waiting, told) == seen + Cardinality(waiting) <= told

\* The inductive invariant: the store may be behind by the requests between
\* the two, and is never ahead.
StoreBehind ==
  \A k \in EndpointKeys :
    /\ Behind(Seen(k), Counted(k), total_requests[k])
    /\ Behind(SeenErrors(k), CountedErrors(k), total_failures[k])

HealthInv ==
  /\ TypeOK
  /\ ProberAt("record") => prober.result # Ok
  /\ IsFiniteSet(Counting)
  /\ StoreBehind

-----------------------------------------------------------------------------
(* Constants and types.                                                    *)

StoreEntries ==
  {NoEntry} \cup [healthy : BOOLEAN, request_count : Nat, error_count : Nat]

CallType == [model : Model, stream : BOOLEAN,
             current : Nat \cup {NoEndpoint}, result : Results]

PcType == {"idle", "sent", "answered", "count", "done"}

ProberType == [step : {"sleep", "probe", "mark", "look", "reset", "record"},
               at : 1..Len(Sweep), result : Results]

\* TypeOK, by the parts the steps disturb.
BreakerOK == F2B!TypeOK
ProberOK == prober \in ProberType /\ (ProberAt("record") => prober.result # Ok)
StoreOK ==
  /\ health \in [EndpointKeys -> StoreEntries]
  /\ store_requests \in Nat /\ store_errors \in Nat
RequestsOK == pc \in [Request -> PcType] /\ call \in [Request -> CallType]
WorldOK == up \in [EndpointKeys -> BOOLEAN] /\ changes \in 0..MaxChanges

LEMMA InvParts ==
  HealthInv <=> /\ BreakerOK /\ RouterTypeOK /\ WorldOK /\ ProberOK /\ StoreOK /\ RequestsOK
                /\ IsFiniteSet(Counting) /\ StoreBehind
BY DEF HealthInv, TypeOK, BreakerOK, WorldOK, ProberOK, StoreOK, RequestsOK,
       StoreEntries, CallType, PcType, ProberType

LEMMA InvPartsThen ==
  ASSUME BreakerOK', RouterTypeOK', WorldOK', ProberOK', StoreOK', RequestsOK',
         IsFiniteSet(Counting'), StoreBehind'
  PROVE  HealthInv'
BY DEF HealthInv, TypeOK, BreakerOK, WorldOK, ProberOK, StoreOK, RequestsOK,
       StoreEntries, CallType, PcType, ProberType

LEMMA SweepInKeys ==
  ASSUME prober \in ProberType
  PROVE  Len(Sweep) \in Nat /\ Probed \in EndpointKeys
<1>1. Len(Sweep) \in Nat
  BY HealthAssumption, LenProperties
<1>2. prober.at \in 1..Len(Sweep)
  BY DEF ProberType
<1>3. QED
  BY <1>1, <1>2 DEF Probed, EndpointKeys

LEMMA StatusesAreNumbers == Status \subseteq Nat /\ BanDuration \in Nat
BY BreakerAssumption DEF F2B!Fail2banAssumption

-----------------------------------------------------------------------------
(* The breaker's operations: its types, and what its totals count.         *)

\* The totals of k grow by a request, and by a failure if there was one.
Totals(k, requests, failures) ==
  \A j \in EndpointKeys :
    /\ total_requests'[j] = total_requests[j] + (IF j = k THEN requests ELSE 0)
    /\ total_failures'[j] = total_failures[j] + (IF j = k THEN failures ELSE 0)

\* A count of k goes from f to g.
OneAdded(f, g, k) ==
  f \in [EndpointKeys -> Nat] /\ g = [f EXCEPT ![k] = @ + 1]

LEMMA OneMore ==
  ASSUME NEW f, NEW g, NEW k, OneAdded(f, g, k)
  PROVE  /\ g \in [EndpointKeys -> Nat]
         /\ \A j \in EndpointKeys : g[j] = f[j] + (IF j = k THEN 1 ELSE 0)
<1>1. \A j \in EndpointKeys : g[j] = f[j] + (IF j = k THEN 1 ELSE 0)
  BY DEF OneAdded
<1>2. \A j \in EndpointKeys : g[j] \in Nat
  BY <1>1 DEF OneAdded
<1>3. g \in [EndpointKeys -> Nat]
  BY <1>2 DEF OneAdded
<1>4. QED
  BY <1>1, <1>3

LEMMA LookKeeps ==
  ASSUME BreakerOK, NEW k, F2B!is_banned(k), UNCHANGED now
  PROVE  BreakerOK' /\ UNCHANGED <<total_requests, total_failures>>
<1>1. UNCHANGED <<total_requests, total_failures, last_error_code>>
  BY DEF F2B!is_banned, F2B!breakerVars
<1>2. \/ UNCHANGED <<consecutive_failures, banned_until>>
      \/ /\ consecutive_failures' = [consecutive_failures EXCEPT ![k] = 0]
         /\ banned_until' = [banned_until EXCEPT ![k] = F2B!None]
  BY DEF F2B!is_banned, F2B!breakerVars
<1>3. QED
  BY <1>1, <1>2 DEF BreakerOK, F2B!TypeOK

LEMMA ResetKeeps ==
  ASSUME BreakerOK, NEW k, F2B!reset(k), UNCHANGED now
  PROVE  BreakerOK' /\ UNCHANGED <<total_requests, total_failures>>
BY DEF BreakerOK, F2B!TypeOK, F2B!reset, F2B!None

LEMMA SuccessCounts ==
  ASSUME BreakerOK, NEW k, F2B!record_success(k), UNCHANGED now
  PROVE  BreakerOK' /\ Totals(k, 1, 0)
<1>1. /\ total_requests' \in [EndpointKeys -> Nat]
      /\ \A j \in EndpointKeys :
           total_requests'[j] = total_requests[j] + (IF j = k THEN 1 ELSE 0)
  <2>1. OneAdded(total_requests, total_requests', k)
    BY DEF OneAdded, BreakerOK, F2B!TypeOK, F2B!record_success
  <2>2. QED
    BY <2>1, OneMore
<1>2. consecutive_failures' \in [EndpointKeys -> Nat]
  BY DEF BreakerOK, F2B!TypeOK, F2B!record_success
<1>3. UNCHANGED <<now, total_failures, banned_until, last_error_code>>
  BY DEF F2B!record_success
<1>4. QED
  BY <1>1, <1>2, <1>3 DEF BreakerOK, Totals, F2B!TypeOK

LEMMA FailureCounts ==
  ASSUME BreakerOK, NEW k, NEW code \in Status \cup {NetworkError},
         F2B!record_failure_with_code(k, code), UNCHANGED now
  PROVE  BreakerOK' /\ Totals(k, 1, 1)
<1>1. banned_until' \in [EndpointKeys -> Nat \cup {F2B!None}]
  <2>1. now + BanDuration \in Nat
    BY StatusesAreNumbers DEF BreakerOK, F2B!TypeOK
  <2>2. \/ banned_until' = banned_until
        \/ banned_until' = [banned_until EXCEPT ![k] = now + BanDuration]
    BY DEF F2B!record_failure_with_code
  <2>3. QED
    BY <2>1, <2>2 DEF BreakerOK, F2B!TypeOK
<1>2. /\ total_requests' \in [EndpointKeys -> Nat]
      /\ \A j \in EndpointKeys :
           total_requests'[j] = total_requests[j] + (IF j = k THEN 1 ELSE 0)
  <2>1. OneAdded(total_requests, total_requests', k)
    BY DEF OneAdded, BreakerOK, F2B!TypeOK, F2B!record_failure_with_code
  <2>2. QED
    BY <2>1, OneMore
<1>3. /\ total_failures' \in [EndpointKeys -> Nat]
      /\ \A j \in EndpointKeys :
           total_failures'[j] = total_failures[j] + (IF j = k THEN 1 ELSE 0)
  <2>1. OneAdded(total_failures, total_failures', k)
    BY DEF OneAdded, BreakerOK, F2B!TypeOK, F2B!record_failure_with_code
  <2>2. QED
    BY <2>1, OneMore
<1>4. consecutive_failures' \in [EndpointKeys -> Nat]
  <2>1. OneAdded(consecutive_failures, consecutive_failures', k)
    BY DEF OneAdded, BreakerOK, F2B!TypeOK, F2B!record_failure_with_code
  <2>2. QED
    BY <2>1, OneMore
<1>5. last_error_code' \in [EndpointKeys -> Status \cup {F2B!NetworkError}]
  BY DEF BreakerOK, F2B!TypeOK, F2B!record_failure_with_code, F2B!NetworkError, NetworkError
<1>6. QED
  BY <1>1, <1>2, <1>3, <1>4, <1>5 DEF BreakerOK, Totals, F2B!TypeOK

-----------------------------------------------------------------------------
(* Who counts.                                                             *)

LEMMA CountersFinite ==
  IsFiniteSet(Counting) =>
    \A k : /\ IsFiniteSet(Counted(k)) /\ Cardinality(Counted(k)) \in Nat
          /\ IsFiniteSet(CountedErrors(k)) /\ Cardinality(CountedErrors(k)) \in Nat
<1>1. \A k : Counted(k) \subseteq Counting /\ CountedErrors(k) \subseteq Counting
  BY DEF Counted, CountedErrors
<1>2. QED
  BY <1>1, FS_Subset, FS_CardinalityType

\* A request moves, neither to the store nor away from it.
LEMMA NobodyCounts ==
  ASSUME RequestsOK, NEW r \in Request, NEW p \in PcType, NEW c \in CallType,
         pc[r] # "count", p # "count",
         pc' = [pc EXCEPT ![r] = p], call' = [call EXCEPT ![r] = c]
  PROVE  /\ RequestsOK' /\ Counting' = Counting
         /\ \A k : Counted(k)' = Counted(k) /\ CountedErrors(k)' = CountedErrors(k)
<1>1. RequestsOK'
  BY DEF RequestsOK
<1>2. \A s \in Request : s # r => pc'[s] = pc[s] /\ call'[s] = call[s]
  BY DEF RequestsOK
<1>3. pc'[r] # "count"
  BY DEF RequestsOK
<1>4. Counting' = Counting
  BY <1>2, <1>3 DEF Counting
<1>5. \A s \in Counting : s \in Request /\ Key(s)' = Key(s) /\ Failed(s)' = Failed(s)
  BY <1>2 DEF Counting, Key, Failed, HandlerKey, F2B!is_fail_status
<1>6. \A k : Counted(k)' = Counted(k)
  BY <1>4, <1>5 DEF Counted
<1>7. \A k : CountedErrors(k)' = CountedErrors(k)
  BY <1>4, <1>5, <1>6 DEF CountedErrors, Counted
<1>8. QED
  BY <1>1, <1>4, <1>6, <1>7

\* A request that has told the breaker.
LEMMA OneMoreCounts ==
  ASSUME RequestsOK, IsFiniteSet(Counting), NEW r \in Request, pc[r] # "count",
         pc' = [pc EXCEPT ![r] = "count"], call' = call
  PROVE  /\ RequestsOK' /\ IsFiniteSet(Counting')
         /\ \A k : /\ Cardinality(Counted(k)') =
                        Cardinality(Counted(k)) + (IF k = Key(r) THEN 1 ELSE 0)
                   /\ Cardinality(CountedErrors(k)') =
                        Cardinality(CountedErrors(k)) + (IF k = Key(r) /\ Failed(r) THEN 1 ELSE 0)
<1>1. RequestsOK'
  BY DEF RequestsOK, PcType
<1>2. Counting' = Counting \cup {r} /\ r \notin Counting
  BY DEF RequestsOK, Counting
<1>3. IsFiniteSet(Counting')
  BY <1>2, FS_AddElement
<1>4. \A s \in Request : Key(s)' = Key(s) /\ Failed(s)' = Failed(s)
  BY DEF Key, Failed, HandlerKey, F2B!is_fail_status
<1>5. ASSUME NEW k
      PROVE  /\ Cardinality(Counted(k)') =
                  Cardinality(Counted(k)) + (IF k = Key(r) THEN 1 ELSE 0)
             /\ Cardinality(CountedErrors(k)') =
                  Cardinality(CountedErrors(k)) + (IF k = Key(r) /\ Failed(r) THEN 1 ELSE 0)
  <2>1. /\ Counted(k)' = IF k = Key(r) THEN Counted(k) \cup {r} ELSE Counted(k)
        /\ r \notin Counted(k) /\ r \notin CountedErrors(k)
    BY <1>2, <1>4 DEF Counted, CountedErrors, Counting
  <2>2. CountedErrors(k)' = IF k = Key(r) /\ Failed(r) THEN CountedErrors(k) \cup {r}
                            ELSE CountedErrors(k)
    BY <1>2, <1>4, <2>1 DEF CountedErrors, Counted, Counting
  <2>3. /\ IsFiniteSet(Counted(k)) /\ Cardinality(Counted(k)) \in Nat
        /\ IsFiniteSet(CountedErrors(k)) /\ Cardinality(CountedErrors(k)) \in Nat
    BY CountersFinite
  <2>4. /\ Cardinality(Counted(k) \cup {r}) = Cardinality(Counted(k)) + 1
        /\ Cardinality(CountedErrors(k) \cup {r}) = Cardinality(CountedErrors(k)) + 1
    BY <2>1, <2>3, FS_AddElement
  <2>5. QED
    BY <2>1, <2>2, <2>3, <2>4
<1>6. QED
  BY <1>1, <1>3, <1>5

\* A request that has told the store as well.
LEMMA OneFewerCounts ==
  ASSUME RequestsOK, IsFiniteSet(Counting), NEW r \in Request, pc[r] = "count",
         pc' = [pc EXCEPT ![r] = "done"], call' = call
  PROVE  /\ RequestsOK' /\ IsFiniteSet(Counting')
         /\ \A k : /\ Cardinality(Counted(k)') =
                        Cardinality(Counted(k)) - (IF k = Key(r) THEN 1 ELSE 0)
                   /\ Cardinality(CountedErrors(k)') =
                        Cardinality(CountedErrors(k)) - (IF k = Key(r) /\ Failed(r) THEN 1 ELSE 0)
<1>1. RequestsOK'
  BY DEF RequestsOK, PcType
<1>2. Counting' = Counting \ {r} /\ r \in Counting
  BY DEF RequestsOK, Counting
<1>3. IsFiniteSet(Counting')
  BY <1>2, FS_RemoveElement
<1>4. \A s \in Request : Key(s)' = Key(s) /\ Failed(s)' = Failed(s)
  BY DEF Key, Failed, HandlerKey, F2B!is_fail_status
<1>5. ASSUME NEW k
      PROVE  /\ Cardinality(Counted(k)') =
                  Cardinality(Counted(k)) - (IF k = Key(r) THEN 1 ELSE 0)
             /\ Cardinality(CountedErrors(k)') =
                  Cardinality(CountedErrors(k)) - (IF k = Key(r) /\ Failed(r) THEN 1 ELSE 0)
  <2>1. /\ Counted(k)' = Counted(k) \ {r} /\ CountedErrors(k)' = CountedErrors(k) \ {r}
        /\ r \in Counted(k) <=> k = Key(r)
        /\ r \in CountedErrors(k) <=> k = Key(r) /\ Failed(r)
    BY <1>2, <1>4 DEF Counted, CountedErrors, Counting
  <2>2. /\ IsFiniteSet(Counted(k)) /\ Cardinality(Counted(k)) \in Nat
        /\ IsFiniteSet(CountedErrors(k)) /\ Cardinality(CountedErrors(k)) \in Nat
    BY CountersFinite
  <2>3. Cardinality(Counted(k) \ {r}) =
          IF r \in Counted(k) THEN Cardinality(Counted(k)) - 1 ELSE Cardinality(Counted(k))
    BY <2>2, FS_RemoveElement
  <2>4. Cardinality(CountedErrors(k) \ {r}) =
          IF r \in CountedErrors(k) THEN Cardinality(CountedErrors(k)) - 1
          ELSE Cardinality(CountedErrors(k))
    BY <2>2, FS_RemoveElement
  <2>5. QED
    BY <2>1, <2>2, <2>3, <2>4
<1>6. QED
  BY <1>1, <1>3, <1>5

-----------------------------------------------------------------------------
(* How far the store is behind.                                            *)

LEMMA SeenIsANumber ==
  StoreOK => \A k \in EndpointKeys : Seen(k) \in Nat /\ SeenErrors(k) \in Nat
<1> SUFFICES ASSUME StoreOK, NEW k \in EndpointKeys
             PROVE  Seen(k) \in Nat /\ SeenErrors(k) \in Nat
  OBVIOUS
<1>1. health[k] \in StoreEntries
  BY DEF StoreOK
<1>2. QED
  BY <1>1 DEF Seen, SeenErrors, StoreEntries

\* No step closes the gap between what the breaker was told and the rest.
LEMMA StillBehind ==
  ASSUME HealthInv, StoreOK', BreakerOK', IsFiniteSet(Counting'),
         \A k \in EndpointKeys :
           /\ Seen(k)' + Cardinality(Counted(k)') + total_requests[k]
                <= Seen(k) + Cardinality(Counted(k)) + total_requests'[k]
           /\ SeenErrors(k)' + Cardinality(CountedErrors(k)') + total_failures[k]
                <= SeenErrors(k) + Cardinality(CountedErrors(k)) + total_failures'[k]
  PROVE  StoreBehind'
<1> SUFFICES ASSUME NEW k \in EndpointKeys
             PROVE  /\ Seen(k)' + Cardinality(Counted(k)') <= total_requests'[k]
                    /\ SeenErrors(k)' + Cardinality(CountedErrors(k)') <= total_failures'[k]
  BY DEF StoreBehind, Behind
<1>1. /\ Seen(k) \in Nat /\ SeenErrors(k) \in Nat
      /\ Cardinality(Counted(k)) \in Nat /\ Cardinality(CountedErrors(k)) \in Nat
      /\ total_requests[k] \in Nat /\ total_failures[k] \in Nat
  BY InvParts, SeenIsANumber, CountersFinite DEF BreakerOK, F2B!TypeOK
<1>2. Seen(k)' \in Nat /\ SeenErrors(k)' \in Nat
  <2>1. health'[k] \in StoreEntries
    BY DEF StoreOK
  <2>2. QED
    BY <2>1 DEF Seen, SeenErrors, StoreEntries
<1>3. Cardinality(Counted(k)') \in Nat /\ Cardinality(CountedErrors(k)') \in Nat
  <2>1. Counted(k)' \subseteq Counting' /\ CountedErrors(k)' \subseteq Counting'
    BY DEF Counted, CountedErrors
  <2>2. QED
    BY <2>1, FS_Subset, FS_CardinalityType
<1>4. total_requests'[k] \in Nat /\ total_failures'[k] \in Nat
  BY DEF BreakerOK, F2B!TypeOK
<1>5. /\ Seen(k) + Cardinality(Counted(k)) <= total_requests[k]
      /\ SeenErrors(k) + Cardinality(CountedErrors(k)) <= total_failures[k]
  BY InvParts DEF StoreBehind, Behind
<1>6. QED
  BY <1>1, <1>2, <1>3, <1>4, <1>5

LEMMA RequestsRest ==
  ASSUME RequestsOK, UNCHANGED <<pc, call>>
  PROVE  /\ RequestsOK' /\ Counting' = Counting
         /\ \A k : Counted(k)' = Counted(k) /\ CountedErrors(k)' = CountedErrors(k)
<1>1. RequestsOK' /\ Counting' = Counting
  BY DEF RequestsOK, Counting
<1>2. \A s \in Request : Key(s)' = Key(s) /\ Failed(s)' = Failed(s)
  BY DEF Key, Failed, HandlerKey, F2B!is_fail_status
<1>3. QED
  BY <1>1, <1>2 DEF Counted, CountedErrors, Counting

LEMMA StoreRests ==
  ASSUME StoreOK, UNCHANGED storeVars
  PROVE  StoreOK' /\ \A k : Seen(k)' = Seen(k) /\ SeenErrors(k)' = SeenErrors(k)
BY DEF StoreOK, storeVars, Seen, SeenErrors

LEMMA BreakerRests ==
  ASSUME BreakerOK, UNCHANGED breakerVars, now' \in Nat
  PROVE  BreakerOK' /\ UNCHANGED <<total_requests, total_failures>>
BY DEF BreakerOK, breakerVars, F2B!TypeOK

LEMMA ProberMoves ==
  ASSUME ProberOK, ProberMovesOn
  PROVE  ProberOK'
<1>1. Len(Sweep) \in Nat /\ Len(Sweep) > 0 /\ prober.at \in 1..Len(Sweep)
  BY HealthAssumption, LenProperties, EmptySeq DEF ProberOK, ProberType
<1>2. QED
  BY <1>1 DEF ProberOK, ProberType, ProberMovesOn, ProberAt, Results

-----------------------------------------------------------------------------
(* Each step of Next.                                                      *)

LEMMA StepCases ==
  ASSUME [Next]_vars
  PROVE  \/ Wake \/ Probe \/ Mark \/ LookAtBan \/ ResetBan \/ RecordFailure
         \/ \E r \in Request : Send(r) \/ Answer(r)
         \/ \E r \in Request : Record(r)
         \/ \E r \in Request : Count(r)
         \/ \E k \in EndpointKeys : Dashboard(k) \/ Change(k)
         \/ Tick \/ UNCHANGED vars
BY DEF Next, Checker

\* What a step does that leaves the store alone and tells the breaker nothing.
LEMMA NothingReported ==
  ASSUME HealthInv, BreakerOK', UNCHANGED <<total_requests, total_failures>>,
         UNCHANGED storeVars, Counting' = Counting,
         \A k : Counted(k)' = Counted(k) /\ CountedErrors(k)' = CountedErrors(k)
  PROVE  StoreOK' /\ IsFiniteSet(Counting') /\ StoreBehind'
<1>1. StoreOK' /\ \A k : Seen(k)' = Seen(k) /\ SeenErrors(k)' = SeenErrors(k)
  BY InvParts, StoreRests
<1>2. IsFiniteSet(Counting')
  BY InvParts
<1>3. \A k \in EndpointKeys : Behind(Seen(k), Counted(k), total_requests[k])' /\
                              Behind(SeenErrors(k), CountedErrors(k), total_failures[k])'
  BY <1>1, InvParts DEF StoreBehind, Behind
<1>4. QED
  BY <1>1, <1>2, <1>3 DEF StoreBehind

LEMMA CheckerWaits ==
  ASSUME HealthInv, Wake \/ Probe
  PROVE  HealthInv'
<1>1. UNCHANGED <<worldVars, breakerVars, counters, storeVars, pc, call>>
  BY DEF Wake, Probe
<1>2. ProberOK'
  <2>1. CASE Wake
    BY <2>1, InvParts DEF Wake, ProberGoes, ProberAt, ProberOK, ProberType
  <2>2. CASE Probe
    <3>1. Answers(Probed) \subseteq Results
      BY DEF Answers, Results
    <3>2. QED
      BY <2>2, <3>1, InvParts DEF Probe, ProberAt, ProberOK, ProberType
  <2>3. QED
    BY <2>1, <2>2
<1>3. /\ BreakerOK' /\ UNCHANGED <<total_requests, total_failures>>
      /\ RouterTypeOK' /\ WorldOK'
  <2>1. now \in Nat /\ now' = now
    BY <1>1, InvParts DEF worldVars, BreakerOK, F2B!TypeOK
  <2>2. QED
    BY <1>1, <2>1, InvParts, BreakerRests DEF worldVars, RouterTypeOK, WorldOK
<1>4. /\ RequestsOK' /\ Counting' = Counting
      /\ \A k : Counted(k)' = Counted(k) /\ CountedErrors(k)' = CountedErrors(k)
  BY <1>1, InvParts, RequestsRest
<1>5. StoreOK' /\ IsFiniteSet(Counting') /\ StoreBehind'
  BY <1>1, <1>3, <1>4, NothingReported
<1>6. QED
  BY <1>2, <1>3, <1>4, <1>5, InvPartsThen

\* set_healthy and set_unhealthy count nothing.
LEMMA MarkCountsNothing ==
  ASSUME StoreOK, NEW k \in EndpointKeys, NEW healthy \in BOOLEAN, set_health(k, healthy),
         UNCHANGED <<store_requests, store_errors>>
  PROVE  /\ StoreOK'
         /\ \A j \in EndpointKeys : Seen(j)' = Seen(j) /\ SeenErrors(j)' = SeenErrors(j)
<1> DEFINE entry == IF health[k] = NoEntry
                    THEN [healthy |-> healthy, request_count |-> 0, error_count |-> 0]
                    ELSE [health[k] EXCEPT !.healthy = healthy]
<1>1. health[k] \in StoreEntries
  BY DEF StoreOK
<1>2. /\ entry \in StoreEntries /\ entry # NoEntry
      /\ entry.request_count + entry.error_count = Seen(k)
      /\ entry.error_count = SeenErrors(k)
  <2>1. CASE health[k] = NoEntry
    <3>1. entry = [healthy |-> healthy, request_count |-> 0, error_count |-> 0]
      BY <2>1
    <3>2. QED
      BY <2>1, <3>1 DEF StoreEntries, NoEntry, Seen, SeenErrors
  <2>2. CASE health[k] # NoEntry
    <3>1. entry = [health[k] EXCEPT !.healthy = healthy]
      BY <2>2
    <3>2. health[k] \in [healthy : BOOLEAN, request_count : Nat, error_count : Nat]
      BY <2>2, <1>1 DEF StoreEntries
    <3>3. /\ entry \in [healthy : BOOLEAN, request_count : Nat, error_count : Nat]
          /\ entry.request_count = health[k].request_count
          /\ entry.error_count = health[k].error_count
      BY <3>1, <3>2
    <3>4. entry # NoEntry
      BY <3>3 DEF NoEntry
    <3>5. QED
      BY <2>2, <3>3, <3>4 DEF StoreEntries, Seen, SeenErrors
  <2>3. QED
    BY <2>1, <2>2
<1>3. health' = [health EXCEPT ![k] = entry]
  BY DEF set_health
<1> HIDE DEF entry
<1>4. StoreOK'
  BY <1>2, <1>3 DEF StoreOK
<1>5. ASSUME NEW j \in EndpointKeys
      PROVE  Seen(j)' = Seen(j) /\ SeenErrors(j)' = SeenErrors(j)
  <2>1. health'[j] = IF j = k THEN entry ELSE health[j]
    BY <1>3 DEF StoreOK
  <2>2. QED
    BY <1>2, <2>1 DEF Seen, SeenErrors
<1>6. QED
  BY <1>4, <1>5

\* record_request and record_error count one, if there is an entry.
LEMMA ReportCountsOne ==
  ASSUME StoreOK, NEW k, record_request(k) \/ record_error(k)
  PROVE  /\ StoreOK'
         /\ \A j \in EndpointKeys :
              /\ Seen(j)' <= Seen(j) + (IF j = k THEN 1 ELSE 0)
              /\ SeenErrors(j)' <= SeenErrors(j) + (IF j = k /\ record_error(k) THEN 1 ELSE 0)
<1>1. ASSUME NEW j \in EndpointKeys
      PROVE  /\ health'[j] \in StoreEntries
             /\ Seen(j)' <= Seen(j) + (IF j = k THEN 1 ELSE 0)
             /\ SeenErrors(j)' <= SeenErrors(j) + (IF j = k /\ record_error(k) THEN 1 ELSE 0)
  <2>1. health[j] \in StoreEntries /\ Seen(j) \in Nat /\ SeenErrors(j) \in Nat
    BY SeenIsANumber DEF StoreOK
  <2>2. CASE j # k \/ health[j] = NoEntry
    <3>1. health'[j] = health[j]
      <4>1. CASE j # k
        BY <4>1 DEF StoreOK, record_request, record_error
      <4>2. CASE j = k /\ health[k] = NoEntry
        <5>1. \/ health'[k] = [NoEntry EXCEPT !.request_count = -1]
              \/ health'[k] = [NoEntry EXCEPT !.error_count = -1]
          BY <4>2 DEF StoreOK, record_request, record_error, NoEntry
        <5>2. QED
          BY <4>2, <5>1 DEF NoEntry
      <4>3. QED
        BY <2>2, <4>1, <4>2
    <3>2. QED
      BY <2>1, <3>1 DEF Seen, SeenErrors
  <2>3. CASE j = k /\ health[k] # NoEntry
    <3>1. health[k] \in [healthy : BOOLEAN, request_count : Nat, error_count : Nat]
      BY <2>1, <2>3 DEF StoreEntries
    <3>2. CASE record_request(k)
      <4>1. health'[k] = [health[k] EXCEPT !.request_count = @ + 1]
        BY <2>3, <3>2 DEF StoreOK, record_request
      <4>2. /\ health'[k] \in [healthy : BOOLEAN, request_count : Nat, error_count : Nat]
            /\ health'[k].request_count = health[k].request_count + 1
            /\ health'[k].error_count = health[k].error_count
        BY <3>1, <4>1
      <4>3. health'[k] # NoEntry
        BY <4>2 DEF NoEntry
      <4>4. QED
        BY <2>3, <3>1, <4>2, <4>3 DEF Seen, SeenErrors, StoreEntries
    <3>3. CASE record_error(k)
      <4>1. health'[k] = [health[k] EXCEPT !.error_count = @ + 1]
        BY <2>3, <3>3 DEF StoreOK, record_error
      <4>2. /\ health'[k] \in [healthy : BOOLEAN, request_count : Nat, error_count : Nat]
            /\ health'[k].request_count = health[k].request_count
            /\ health'[k].error_count = health[k].error_count + 1
        BY <3>1, <4>1
      <4>3. health'[k] # NoEntry
        BY <4>2 DEF NoEntry
      <4>4. QED
        BY <2>3, <3>1, <3>3, <4>2, <4>3 DEF Seen, SeenErrors, StoreEntries
    <3>4. QED
      BY <3>2, <3>3
  <2>4. QED
    BY <2>2, <2>3
<1>2. StoreOK'
  <2>1. /\ DOMAIN health' = EndpointKeys /\ health' = [j \in EndpointKeys |-> health'[j]]
        /\ store_requests' \in Nat /\ store_errors' \in Nat
    BY DEF StoreOK, record_request, record_error
  <2>2. health' \in [EndpointKeys -> StoreEntries]
    BY <1>1, <2>1
  <2>3. QED
    BY <2>1, <2>2 DEF StoreOK
<1>3. QED
  BY <1>1, <1>2

LEMMA MarkKeeps ==
  ASSUME HealthInv, Mark
  PROVE  HealthInv'
<1>1. /\ UNCHANGED <<worldVars, breakerVars, counters, store_requests, store_errors, pc, call>>
      /\ set_health(Probed, prober.result = Ok) /\ ProberGoes("look")
  BY DEF Mark
<1>2. ProberOK' /\ Probed \in EndpointKeys
  BY <1>1, InvParts, SweepInKeys DEF ProberGoes, ProberAt, ProberOK, ProberType
<1>3. /\ BreakerOK' /\ UNCHANGED <<total_requests, total_failures>>
      /\ RouterTypeOK' /\ WorldOK'
  <2>1. now \in Nat /\ now' = now
    BY <1>1, InvParts DEF worldVars, BreakerOK, F2B!TypeOK
  <2>2. QED
    BY <1>1, <2>1, InvParts, BreakerRests DEF worldVars, RouterTypeOK, WorldOK
<1>4. /\ RequestsOK' /\ Counting' = Counting
      /\ \A k : Counted(k)' = Counted(k) /\ CountedErrors(k)' = CountedErrors(k)
  BY <1>1, InvParts, RequestsRest
<1>5. /\ StoreOK'
      /\ \A j \in EndpointKeys : Seen(j)' = Seen(j) /\ SeenErrors(j)' = SeenErrors(j)
  BY <1>1, <1>2, InvParts, MarkCountsNothing
<1>6. \A k \in EndpointKeys : Behind(Seen(k), Counted(k), total_requests[k])' /\
                              Behind(SeenErrors(k), CountedErrors(k), total_failures[k])'
  BY <1>3, <1>4, <1>5, InvParts DEF StoreBehind, Behind
<1>7. IsFiniteSet(Counting') /\ StoreBehind'
  BY <1>4, <1>6, InvParts DEF StoreBehind
<1>8. QED
  BY <1>2, <1>3, <1>4, <1>5, <1>7, InvPartsThen

\* Looks at bans, by the checker and by the dashboard.
LEMMA LooksKeep ==
  ASSUME HealthInv, LookAtBan \/ ResetBan \/ \E k \in EndpointKeys : Dashboard(k)
  PROVE  HealthInv'
<1>1. /\ UNCHANGED <<worldVars, counters, storeVars, pc, call>>
      /\ \E k : F2B!is_banned(k) \/ F2B!reset(k)
  BY DEF LookAtBan, ResetBan, Dashboard
<1>2. UNCHANGED now
  BY <1>1 DEF worldVars
<1>3. BreakerOK' /\ UNCHANGED <<total_requests, total_failures>>
  BY <1>1, <1>2, InvParts, LookKeeps, ResetKeeps
<1>4. ProberOK'
  <2>1. \/ ProberMovesOn
        \/ ProberGoes("reset")
        \/ prober.result # Ok /\ ProberGoes("record")
        \/ prober' = prober
    BY DEF LookAtBan, ResetBan, Dashboard
  <2>2. CASE ProberMovesOn
    BY <2>2, InvParts, ProberMoves
  <2>3. CASE ProberGoes("reset")
    BY <2>3, InvParts DEF ProberGoes, ProberAt, ProberOK, ProberType
  <2>4. CASE prober.result # Ok /\ ProberGoes("record")
    BY <2>4, InvParts DEF ProberGoes, ProberAt, ProberOK, ProberType
  <2>5. CASE prober' = prober
    BY <2>5, InvParts DEF ProberAt, ProberOK, ProberType
  <2>6. QED
    BY <2>1, <2>2, <2>3, <2>4, <2>5
<1>5. /\ RequestsOK' /\ Counting' = Counting
      /\ \A k : Counted(k)' = Counted(k) /\ CountedErrors(k)' = CountedErrors(k)
  BY <1>1, InvParts, RequestsRest
<1>6. StoreOK' /\ IsFiniteSet(Counting') /\ StoreBehind'
  BY <1>1, <1>3, <1>5, NothingReported
<1>7. RouterTypeOK' /\ WorldOK'
  BY <1>1, InvParts DEF worldVars, RouterTypeOK, WorldOK
<1>8. QED
  BY <1>3, <1>4, <1>5, <1>6, <1>7, InvPartsThen

LEMMA RecordFailureKeeps ==
  ASSUME HealthInv, RecordFailure
  PROVE  HealthInv'
<1>1. /\ ProberAt("record") /\ ProberMovesOn
      /\ F2B!record_failure_with_code(Probed, prober.result)
      /\ UNCHANGED <<worldVars, counters, storeVars, pc, call>>
  BY DEF RecordFailure
<1>2. UNCHANGED now
  BY <1>1 DEF worldVars
<1>3. prober.result \in Status \cup {NetworkError}
  BY <1>1, InvParts DEF ProberOK, ProberType, Results
<1>4. BreakerOK' /\ Totals(Probed, 1, 1)
  BY <1>1, <1>2, <1>3, InvParts, FailureCounts
<1>5. ProberOK'
  BY <1>1, InvParts, ProberMoves
<1>6. /\ RequestsOK' /\ Counting' = Counting
      /\ \A k : Counted(k)' = Counted(k) /\ CountedErrors(k)' = CountedErrors(k)
  BY <1>1, InvParts, RequestsRest
<1>7. StoreOK' /\ \A k : Seen(k)' = Seen(k) /\ SeenErrors(k)' = SeenErrors(k)
  BY <1>1, InvParts, StoreRests
<1>8. IsFiniteSet(Counting')
  BY <1>6, InvParts
<1>9. StoreBehind'
  <2>1. ASSUME NEW k \in EndpointKeys
        PROVE  /\ Seen(k)' + Cardinality(Counted(k)') + total_requests[k]
                    <= Seen(k) + Cardinality(Counted(k)) + total_requests'[k]
               /\ SeenErrors(k)' + Cardinality(CountedErrors(k)') + total_failures[k]
                    <= SeenErrors(k) + Cardinality(CountedErrors(k)) + total_failures'[k]
    <3>1. /\ Seen(k) \in Nat /\ SeenErrors(k) \in Nat
          /\ Cardinality(Counted(k)) \in Nat /\ Cardinality(CountedErrors(k)) \in Nat
          /\ total_requests[k] \in Nat /\ total_failures[k] \in Nat
      BY InvParts, SeenIsANumber, CountersFinite DEF BreakerOK, F2B!TypeOK
    <3>2. /\ Cardinality(Counted(k)') = Cardinality(Counted(k))
          /\ Cardinality(CountedErrors(k)') = Cardinality(CountedErrors(k))
      BY <1>6
    <3>3. total_requests'[k] >= total_requests[k] /\ total_failures'[k] >= total_failures[k]
      BY <1>4, <3>1 DEF Totals
    <3>4. /\ total_requests'[k] \in Nat /\ total_failures'[k] \in Nat
      BY <1>4 DEF BreakerOK, F2B!TypeOK
    <3>5. QED
      BY <1>7, <3>1, <3>2, <3>3, <3>4
  <2>2. QED
    BY <1>4, <1>7, <1>8, <2>1, StillBehind
<1>10. RouterTypeOK' /\ WorldOK'
  BY <1>1, InvParts DEF worldVars, RouterTypeOK, WorldOK
<1>11. QED
  BY <1>4, <1>5, <1>6, <1>7, <1>8, <1>9, <1>10, InvPartsThen

-----------------------------------------------------------------------------
(* The steps of a request.                                                 *)

LEMMA SendKeeps ==
  ASSUME HealthInv, NEW r \in Request, Send(r) \/ Answer(r)
  PROVE  HealthInv'
<1>1. UNCHANGED <<worldVars, breakerVars, prober, storeVars>>
  BY DEF Send, Answer
<1>2. call[r] \in CallType /\ pc \in [Request -> PcType] /\ call \in [Request -> CallType]
  BY InvParts DEF RequestsOK
<1>3. /\ RouterTypeOK'
      /\ \E p \in PcType, c \in CallType :
           /\ pc[r] # "count" /\ p # "count"
           /\ pc' = [pc EXCEPT ![r] = p] /\ call' = [call EXCEPT ![r] = c]
  <2>1. CASE pc[r] \in {"idle", "sent"} /\ GoTo(r, "done") /\ UNCHANGED <<counters, call>>
    <3>1. call = [call EXCEPT ![r] = call[r]] /\ "done" \in PcType
      BY <1>2 DEF PcType
    <3>2. /\ pc[r] # "count" /\ "done" # "count"
          /\ pc' = [pc EXCEPT ![r] = "done"] /\ call' = [call EXCEPT ![r] = call[r]]
      BY <2>1, <3>1 DEF GoTo
    <3>3. RouterTypeOK'
      BY <2>1, InvParts DEF RouterTypeOK
    <3>4. QED
      BY <1>2, <3>1, <3>2, <3>3
  <2>2. CASE /\ pc[r] = "idle" /\ Total(call[r].model) > 0 /\ next(call[r].model)
             /\ call' = [call EXCEPT ![r].current = pick_weighted(call[r].model)]
             /\ GoTo(r, "sent")
    <3> DEFINE m == call[r].model
               c == [call[r] EXCEPT !.current = pick_weighted(m)]
    <3>1. m \in Model
      BY <1>2 DEF CallType
    <3>2. Total(m) \in Nat \ {0}
      BY <2>2, <3>1, RouterAssumption, LenProperties DEF Total
    <3>3. Start(m) \in Index(m)
      BY <3>1, <3>2, InvParts, StartInRange
    <3>4. pick_weighted(m) \in Nat
      BY <3>2, <3>3 DEF pick_weighted, Index
    <3>5. c \in CallType
      BY <1>2, <3>4 DEF CallType
    <3>6. call' = [call EXCEPT ![r] = c]
      BY <1>2, <2>2
    <3>7. RouterTypeOK'
      BY <2>2, <3>1, InvParts, RouterAssumption DEF RouterTypeOK, next
    <3>8. "sent" \in PcType /\ pc' = [pc EXCEPT ![r] = "sent"]
      BY <2>2 DEF PcType, GoTo
    <3> HIDE DEF c
    <3>9. QED
      BY <2>2, <3>5, <3>6, <3>7, <3>8
  <2>3. CASE /\ pc[r] = "sent" /\ GoTo(r, "answered") /\ UNCHANGED counters
             /\ \E result \in Answers(Key(r)) : call' = [call EXCEPT ![r].result = result]
    <3>1. PICK result \in Answers(Key(r)) : call' = [call EXCEPT ![r].result = result]
      BY <2>3
    <3>2. result \in Results
      BY DEF Answers, Results
    <3> DEFINE c == [call[r] EXCEPT !.result = result]
    <3>3. c \in CallType /\ call' = [call EXCEPT ![r] = c]
      BY <1>2, <3>1, <3>2 DEF CallType
    <3>4. "answered" \in PcType /\ pc' = [pc EXCEPT ![r] = "answered"] /\ RouterTypeOK'
      BY <2>3, InvParts DEF PcType, GoTo, RouterTypeOK
    <3> HIDE DEF c
    <3>5. QED
      BY <2>3, <3>3, <3>4
  <2>4. QED
    BY <2>1, <2>2, <2>3 DEF Send, Answer
<1>4. /\ RequestsOK' /\ Counting' = Counting
      /\ \A k : Counted(k)' = Counted(k) /\ CountedErrors(k)' = CountedErrors(k)
  BY <1>3, InvParts, NobodyCounts
<1>5. BreakerOK' /\ UNCHANGED <<total_requests, total_failures>> /\ WorldOK' /\ ProberOK'
  <2>1. now \in Nat /\ now' = now
    BY <1>1, InvParts DEF worldVars, BreakerOK, F2B!TypeOK
  <2>2. QED
    BY <1>1, <2>1, InvParts, BreakerRests DEF worldVars, WorldOK, ProberOK, ProberAt
<1>6. StoreOK' /\ IsFiniteSet(Counting') /\ StoreBehind'
  BY <1>1, <1>4, <1>5, NothingReported
<1>7. QED
  BY <1>3, <1>4, <1>5, <1>6, InvPartsThen

\* A request tells the breaker first, and counts as told from then on.
LEMMA RecordKeeps ==
  ASSUME HealthInv, NEW r \in Request, Record(r)
  PROVE  HealthInv'
<1>1. /\ UNCHANGED <<worldVars, counters, prober, storeVars, call>>
      /\ pc[r] # "count" /\ pc' = [pc EXCEPT ![r] = "count"]
      /\ Failed(r) => F2B!record_failure_with_code(Key(r), call[r].result)
      /\ ~Failed(r) => F2B!record_success(Key(r))
  BY DEF Record, GoTo
<1>2. UNCHANGED now
  BY <1>1 DEF worldVars
<1>3. Failed(r) => call[r].result \in Status \cup {NetworkError}
  <2>1. call[r].result \in Results
    BY InvParts DEF RequestsOK, CallType
  <2>2. QED
    BY <2>1 DEF Failed, Results, Ok, NetworkError
<1>4. BreakerOK' /\ Totals(Key(r), 1, IF Failed(r) THEN 1 ELSE 0)
  <2>1. CASE Failed(r)
    BY <2>1, <1>1, <1>2, <1>3, InvParts, FailureCounts
  <2>2. CASE ~Failed(r)
    BY <2>2, <1>1, <1>2, InvParts, SuccessCounts
  <2>3. QED
    BY <2>1, <2>2
<1>5. /\ RequestsOK' /\ IsFiniteSet(Counting')
      /\ \A k : /\ Cardinality(Counted(k)') =
                     Cardinality(Counted(k)) + (IF k = Key(r) THEN 1 ELSE 0)
                /\ Cardinality(CountedErrors(k)') =
                     Cardinality(CountedErrors(k)) + (IF k = Key(r) /\ Failed(r) THEN 1 ELSE 0)
  BY <1>1, InvParts, OneMoreCounts
<1>6. StoreOK' /\ \A k : Seen(k)' = Seen(k) /\ SeenErrors(k)' = SeenErrors(k)
  BY <1>1, InvParts, StoreRests
<1>7. StoreBehind'
  <2>1. ASSUME NEW k \in EndpointKeys
        PROVE  /\ Seen(k)' + Cardinality(Counted(k)') + total_requests[k]
                    <= Seen(k) + Cardinality(Counted(k)) + total_requests'[k]
               /\ SeenErrors(k)' + Cardinality(CountedErrors(k)') + total_failures[k]
                    <= SeenErrors(k) + Cardinality(CountedErrors(k)) + total_failures'[k]
    <3>1. /\ Seen(k) \in Nat /\ SeenErrors(k) \in Nat
          /\ Cardinality(Counted(k)) \in Nat /\ Cardinality(CountedErrors(k)) \in Nat
          /\ total_requests[k] \in Nat /\ total_failures[k] \in Nat
      BY InvParts, SeenIsANumber, CountersFinite DEF BreakerOK, F2B!TypeOK
    <3>2. /\ total_requests'[k] = total_requests[k] + (IF k = Key(r) THEN 1 ELSE 0)
          /\ total_failures'[k] = total_failures[k] + (IF k = Key(r) /\ Failed(r) THEN 1 ELSE 0)
      BY <1>4 DEF Totals
    <3>3. QED
      BY <1>5, <1>6, <3>1, <3>2
  <2>2. QED
    BY <1>4, <1>5, <1>6, <2>1, StillBehind
<1>8. RouterTypeOK' /\ WorldOK' /\ ProberOK'
  BY <1>1, InvParts DEF worldVars, RouterTypeOK, WorldOK, ProberOK, ProberAt
<1>9. QED
  BY <1>4, <1>5, <1>6, <1>7, <1>8, InvPartsThen

\* The store counts what the breaker counted a step before.
LEMMA CountKeeps ==
  ASSUME HealthInv, NEW r \in Request, Count(r)
  PROVE  HealthInv'
<1>1. /\ UNCHANGED <<worldVars, breakerVars, counters, prober, call>>
      /\ pc[r] = "count" /\ pc' = [pc EXCEPT ![r] = "done"]
      /\ Failed(r) => record_error(Key(r))
      /\ ~Failed(r) => record_request(Key(r))
  BY DEF Count, GoTo
<1>2. ~Failed(r) => ~record_error(Key(r))
  <2>1. record_request(Key(r)) => store_requests' = store_requests + 1
    BY DEF record_request
  <2>2. record_error(Key(r)) => store_requests' = store_requests
    BY DEF record_error
  <2>3. store_requests \in Nat
    BY InvParts DEF StoreOK
  <2>4. QED
    BY <1>1, <2>1, <2>2, <2>3
<1>3. /\ RequestsOK' /\ IsFiniteSet(Counting')
      /\ \A k : /\ Cardinality(Counted(k)') =
                     Cardinality(Counted(k)) - (IF k = Key(r) THEN 1 ELSE 0)
                /\ Cardinality(CountedErrors(k)') =
                     Cardinality(CountedErrors(k)) - (IF k = Key(r) /\ Failed(r) THEN 1 ELSE 0)
  BY <1>1, InvParts, OneFewerCounts
<1>4. /\ StoreOK'
      /\ \A j \in EndpointKeys :
           /\ Seen(j)' <= Seen(j) + (IF j = Key(r) THEN 1 ELSE 0)
           /\ SeenErrors(j)' <= SeenErrors(j) + (IF j = Key(r) /\ record_error(Key(r)) THEN 1 ELSE 0)
  BY <1>1, InvParts, ReportCountsOne
<1>5. BreakerOK' /\ UNCHANGED <<total_requests, total_failures>>
  <2>1. now \in Nat /\ now' = now
    BY <1>1, InvParts DEF worldVars, BreakerOK, F2B!TypeOK
  <2>2. QED
    BY <1>1, <2>1, InvParts, BreakerRests
<1>6. StoreBehind'
  <2>1. ASSUME NEW k \in EndpointKeys
        PROVE  /\ Seen(k)' + Cardinality(Counted(k)') + total_requests[k]
                    <= Seen(k) + Cardinality(Counted(k)) + total_requests'[k]
               /\ SeenErrors(k)' + Cardinality(CountedErrors(k)') + total_failures[k]
                    <= SeenErrors(k) + Cardinality(CountedErrors(k)) + total_failures'[k]
    <3>1. /\ Seen(k) \in Nat /\ SeenErrors(k) \in Nat
          /\ Cardinality(Counted(k)) \in Nat /\ Cardinality(CountedErrors(k)) \in Nat
          /\ total_requests[k] \in Nat /\ total_failures[k] \in Nat
      BY InvParts, SeenIsANumber, CountersFinite DEF BreakerOK, F2B!TypeOK
    <3>2. Seen(k)' \in Nat /\ SeenErrors(k)' \in Nat
      <4>1. health'[k] \in StoreEntries
        BY <1>4 DEF StoreOK
      <4>2. QED
        BY <4>1 DEF Seen, SeenErrors, StoreEntries
    <3>3. /\ Seen(k)' <= Seen(k) + (IF k = Key(r) THEN 1 ELSE 0)
          /\ SeenErrors(k)' <= SeenErrors(k) + (IF k = Key(r) /\ Failed(r) THEN 1 ELSE 0)
      BY <1>1, <1>2, <1>4, <3>1, <3>2
    <3>4. QED
      BY <1>3, <1>5, <3>1, <3>2, <3>3
  <2>2. QED
    BY <1>3, <1>4, <1>5, <2>1, StillBehind
<1>7. RouterTypeOK' /\ WorldOK' /\ ProberOK'
  BY <1>1, InvParts DEF worldVars, RouterTypeOK, WorldOK, ProberOK, ProberAt
<1>8. QED
  BY <1>3, <1>4, <1>5, <1>6, <1>7, InvPartsThen

\* Endpoints come and go, and time passes.
LEMMA WorldKeeps ==
  ASSUME HealthInv, (\E k \in EndpointKeys : Change(k)) \/ Tick \/ UNCHANGED vars
  PROVE  HealthInv'
<1>1. UNCHANGED <<breakerVars, counters, prober, storeVars, pc, call>>
  BY DEF Change, Tick, vars
<1>2. now' \in Nat
  <2>1. now \in Nat /\ (now' = now \/ now' = now + 1)
    BY InvParts DEF Change, Tick, vars, worldVars, BreakerOK, F2B!TypeOK
  <2>2. QED
    BY <2>1
<1>3. BreakerOK' /\ UNCHANGED <<total_requests, total_failures>>
  BY <1>1, <1>2, InvParts, BreakerRests
<1>4. /\ RequestsOK' /\ Counting' = Counting
      /\ \A k : Counted(k)' = Counted(k) /\ CountedErrors(k)' = CountedErrors(k)
  BY <1>1, InvParts, RequestsRest
<1>5. StoreOK' /\ IsFiniteSet(Counting') /\ StoreBehind'
  BY <1>1, <1>3, <1>4, NothingReported
<1>6. RouterTypeOK' /\ ProberOK'
  BY <1>1, InvParts DEF RouterTypeOK, ProberOK, ProberAt
<1>7. WorldOK'
  <2>1. changes \in Nat /\ MaxChanges \in Nat /\ changes <= MaxChanges
    BY InvParts, HealthAssumption DEF WorldOK
  <2>2. CASE \E k \in EndpointKeys : Change(k)
    BY <2>1, <2>2, InvParts DEF WorldOK, Change
  <2>3. CASE Tick \/ UNCHANGED vars
    BY <2>3, InvParts DEF WorldOK, Tick, vars, worldVars
  <2>4. QED
    BY <2>2, <2>3
<1>8. QED
  BY <1>3, <1>4, <1>5, <1>6, <1>7, InvPartsThen

-----------------------------------------------------------------------------
(* The invariant.                                                          *)

LEMMA InvInit == Init => HealthInv
<1> SUFFICES ASSUME Init PROVE HealthInv
  OBVIOUS
<1>1. BreakerOK /\ RouterTypeOK
  BY RouterAssumption
     DEF Init, BreakerOK, RouterInit, RouterTypeOK, F2B!Init, F2B!BreakerInit, F2B!TypeOK,
         F2B!None, F2B!NetworkError
<1>2. WorldOK /\ ProberOK
  <2>1. Len(Sweep) \in Nat /\ Len(Sweep) > 0
    BY HealthAssumption, LenProperties, EmptySeq
  <2>2. QED
    BY <2>1, HealthAssumption DEF Init, WorldOK, ProberOK, ProberType, ProberAt, Results
<1>3. StoreOK /\ RequestsOK
  BY HealthAssumption
     DEF Init, StoreOK, StoreEntries, RequestsOK, PcType, CallType, Results
<1>4. Counting = {} /\ \A k : Counted(k) = {} /\ CountedErrors(k) = {}
  BY DEF Init, Counting, Counted, CountedErrors
<1>5. IsFiniteSet(Counting) /\ StoreBehind
  <2>1. ASSUME NEW k \in EndpointKeys
        PROVE  Seen(k) = 0 /\ SeenErrors(k) = 0 /\ total_requests[k] = 0 /\ total_failures[k] = 0
    BY DEF Init, Seen, SeenErrors, F2B!Init, F2B!BreakerInit
  <2>2. QED
    BY <1>4, <2>1, FS_EmptySet DEF StoreBehind, Behind
<1>6. QED
  BY <1>1, <1>2, <1>3, <1>5, InvParts

LEMMA InvStep == HealthInv /\ [Next]_vars => HealthInv'
BY StepCases, CheckerWaits, MarkKeeps, LooksKeep, RecordFailureKeeps, SendKeeps, RecordKeeps,
   CountKeeps, WorldKeeps

LEMMA InvAlways == Spec => []HealthInv
BY InvInit, InvStep, PTL DEF Spec

(* The checker's place in its sweep, the store, the breaker and every      *)
(* request beside them stay of their types: the checker never probes past  *)
(* the end of its list.                                                    *)
THEOREM HealthTypesKept == Spec => []TypeOK
<1>1. HealthInv => TypeOK
  BY DEF HealthInv
<1>2. QED
  BY <1>1, InvAlways, PTL

(* handler.rs line 1283 and after: whatever requests are between breaker   *)
(* and store, and wherever the checker is, the store counts no result of an *)
(* endpoint that the breaker has not counted, and no failure.              *)
THEOREM StoreNeverAhead == Spec => []StoreWithinBreaker
<1>1. HealthInv => StoreWithinBreaker
  <2> SUFFICES ASSUME HealthInv, NEW k \in EndpointKeys
               PROVE  /\ health[k].request_count + health[k].error_count <= total_requests[k]
                      /\ health[k].error_count <= total_failures[k]
    BY DEF StoreWithinBreaker
  <2>1. /\ health[k] \in StoreEntries /\ total_requests[k] \in Nat /\ total_failures[k] \in Nat
        /\ Cardinality(Counted(k)) \in Nat /\ Cardinality(CountedErrors(k)) \in Nat
    BY InvParts, CountersFinite DEF StoreOK, BreakerOK, F2B!TypeOK
  <2>2. /\ Seen(k) + Cardinality(Counted(k)) <= total_requests[k]
        /\ SeenErrors(k) + Cardinality(CountedErrors(k)) <= total_failures[k]
    BY InvParts DEF StoreBehind, Behind
  <2>3. CASE health[k] = NoEntry
    BY <2>1, <2>3 DEF NoEntry
  <2>4. CASE health[k] # NoEntry
    BY <2>1, <2>2, <2>4 DEF Seen, SeenErrors, StoreEntries
  <2>5. QED
    BY <2>3, <2>4
<1>2. QED
  BY <1>1, InvAlways, PTL

-----------------------------------------------------------------------------
(* Bans lifted before their time.                                          *)

\* No ban reaches further than a ban set now.
BansWithin ==
  \A k \in EndpointKeys : banned_until[k] # F2B!None => banned_until[k] <= now + BanDuration

\* From its entry in the store on, what the checker does follows that entry.
ProbeMarked ==
  /\ prober.step \in {"look", "reset", "record"} => health[Probed].healthy = (prober.result = Ok)
  /\ ProberAt("reset") => prober.result = Ok

UnbanInv == BansWithin /\ ProbeMarked

\* No ban that runs is shortened.
NoneShortened ==
  \A k \in EndpointKeys : F2B!Banned(k) => banned_until'[k] >= banned_until[k]

LEMMA RestShortensNone ==
  ASSUME BreakerOK, BansWithin, UNCHANGED breakerVars, now' = now \/ now' = now + 1
  PROVE  BansWithin' /\ NoneShortened
<1>1. now \in Nat /\ banned_until \in [EndpointKeys -> Nat \cup {F2B!None}] /\ BanDuration \in Nat
      /\ banned_until' = banned_until
  BY StatusesAreNumbers DEF BreakerOK, F2B!TypeOK, breakerVars
<1>2. QED
  BY <1>1 DEF BansWithin, NoneShortened, F2B!Banned

LEMMA LookShortensNone ==
  ASSUME BreakerOK, BansWithin, NEW j, F2B!is_banned(j), UNCHANGED now
  PROVE  BansWithin' /\ NoneShortened
<1>1. now \in Nat /\ banned_until \in [EndpointKeys -> Nat \cup {F2B!None}]
  BY DEF BreakerOK, F2B!TypeOK
<1>2. \/ banned_until' = banned_until
      \/ ~F2B!Banned(j) /\ banned_until' = [banned_until EXCEPT ![j] = F2B!None]
  BY DEF F2B!is_banned, F2B!breakerVars
<1>3. QED
  BY <1>1, <1>2 DEF BansWithin, NoneShortened, F2B!Banned

LEMMA SuccessShortensNone ==
  ASSUME BreakerOK, BansWithin, NEW j, F2B!record_success(j), UNCHANGED now
  PROVE  BansWithin' /\ NoneShortened
<1>1. /\ banned_until \in [EndpointKeys -> Nat \cup {F2B!None}] /\ banned_until' = banned_until
  BY DEF BreakerOK, F2B!TypeOK, F2B!record_success
<1>2. QED
  BY <1>1 DEF BansWithin, NoneShortened, F2B!Banned

LEMMA FailureShortensNone ==
  ASSUME BreakerOK, BansWithin, NEW j, NEW code, F2B!record_failure_with_code(j, code), UNCHANGED now
  PROVE  BansWithin' /\ NoneShortened
<1>1. now \in Nat /\ banned_until \in [EndpointKeys -> Nat \cup {F2B!None}] /\ BanDuration \in Nat
  BY StatusesAreNumbers DEF BreakerOK, F2B!TypeOK
<1>2. \/ banned_until' = banned_until
      \/ banned_until' = [banned_until EXCEPT ![j] = now + BanDuration]
  BY DEF F2B!record_failure_with_code
<1>3. QED
  BY <1>1, <1>2 DEF BansWithin, NoneShortened, F2B!Banned

\* A reset of the probed endpoint touches no other's ban.
LEMMA ResetShortensOne ==
  ASSUME BreakerOK, BansWithin, NEW j, F2B!reset(j), UNCHANGED now
  PROVE  BansWithin' /\ \A k \in EndpointKeys : k # j => banned_until'[k] = banned_until[k]
<1>1. banned_until \in [EndpointKeys -> Nat \cup {F2B!None}]
  BY DEF BreakerOK, F2B!TypeOK
<1>2. banned_until' = [banned_until EXCEPT ![j] = F2B!None]
  BY DEF F2B!reset
<1>3. QED
  BY <1>1, <1>2 DEF BansWithin

LEMMA BansStep ==
  ASSUME HealthInv, BansWithin, [Next]_vars
  PROVE  BansWithin' /\ (NoneShortened \/ ResetBan)
<1>1. BreakerOK /\ ProberOK /\ RequestsOK
  BY InvParts
<1>2. ASSUME \/ Wake \/ Probe \/ Mark \/ (\E r \in Request : Send(r) \/ Answer(r) \/ Count(r))
             \/ (\E k \in EndpointKeys : Change(k)) \/ Tick \/ UNCHANGED vars
      PROVE  BansWithin' /\ NoneShortened
  <2>1. UNCHANGED breakerVars /\ (now' = now \/ now' = now + 1)
    BY <1>2 DEF Wake, Probe, Mark, Send, Answer, Count, Change, Tick, vars, worldVars
  <2>2. QED
    BY <1>1, <2>1, RestShortensNone
<1>3. ASSUME LookAtBan \/ \E k \in EndpointKeys : Dashboard(k)
      PROVE  BansWithin' /\ NoneShortened
  <2>1. UNCHANGED now /\ \E j : F2B!is_banned(j)
    BY <1>3 DEF LookAtBan, Dashboard, worldVars
  <2>2. QED
    BY <1>1, <2>1, LookShortensNone
<1>4. ASSUME RecordFailure \/ \E r \in Request : Record(r)
      PROVE  BansWithin' /\ NoneShortened
  <2>1. /\ UNCHANGED now
        /\ \E j : \/ F2B!record_success(j)
                  \/ \E code : F2B!record_failure_with_code(j, code)
    BY <1>4 DEF RecordFailure, Record, worldVars
  <2>2. QED
    BY <1>1, <2>1, SuccessShortensNone, FailureShortensNone
<1>5. ASSUME ResetBan PROVE BansWithin'
  BY <1>1, <1>5, ResetShortensOne DEF ResetBan, worldVars
<1>6. QED
  BY <1>2, <1>3, <1>4, <1>5, StepCases

\* The checker's own steps, up to the next probe.
LEMMA CheckerMarks ==
  ASSUME HealthInv, ProbeMarked, Wake \/ Probe \/ Mark \/ LookAtBan \/ ResetBan \/ RecordFailure
  PROVE  ProbeMarked'
<1>1. prober \in ProberType /\ StoreOK /\ Probed \in EndpointKeys
  BY InvParts, SweepInKeys DEF ProberOK
<1>2. ASSUME ProberMovesOn PROVE ProbeMarked'
  <2>1. prober'.step \in {"probe", "sleep"}
    BY <1>2 DEF ProberMovesOn
  <2>2. QED
    BY <2>1 DEF ProbeMarked, ProberAt
<1>3. ASSUME NEW step, ProberGoes(step)
      PROVE  prober'.step = step /\ prober'.result = prober.result /\ Probed' = Probed
  BY <1>1, <1>3 DEF ProberGoes, ProberType, Probed, HandlerKey
<1>4. CASE Wake \/ Probe
  <2>1. prober'.step \in {"probe", "mark"}
    BY <1>1, <1>4 DEF Wake, Probe, ProberGoes, ProberType
  <2>2. QED
    BY <2>1 DEF ProbeMarked, ProberAt
<1>5. CASE Mark
  <2> DEFINE k == Probed
             healthy == (prober.result = Ok)
             entry == IF health[k] = NoEntry
                      THEN [healthy |-> healthy, request_count |-> 0, error_count |-> 0]
                      ELSE [health[k] EXCEPT !.healthy = healthy]
  <2>1. ProberGoes("look") /\ health' = [health EXCEPT ![k] = entry]
    BY <1>5 DEF Mark, set_health
  <2>2. entry.healthy = healthy
    <3>1. health[k] \in StoreEntries
      BY <1>1 DEF StoreOK
    <3>2. QED
      BY <3>1 DEF StoreEntries
  <2>3. health'[k] = entry
    BY <1>1, <2>1 DEF StoreOK
  <2>4. prober'.step = "look" /\ prober'.result = prober.result /\ Probed' = k
    BY <1>3, <2>1
  <2>5. health'[Probed'].healthy = (prober'.result = Ok)
    BY <2>2, <2>3, <2>4
  <2>6. QED
    BY <2>4, <2>5 DEF ProbeMarked, ProberAt
<1>6. CASE LookAtBan
  <2>1. UNCHANGED health /\ ProberAt("look")
    BY <1>6 DEF LookAtBan, storeVars
  <2>2. \/ ProberMovesOn
        \/ prober.result = Ok /\ ProberGoes("reset")
        \/ prober.result # Ok /\ ProberGoes("record")
    BY <1>6 DEF LookAtBan
  <2>3. health[Probed].healthy = (prober.result = Ok)
    BY <2>1 DEF ProbeMarked, ProberAt
  <2>4. ASSUME NEW step \in {"reset", "record"}, ProberGoes(step),
               step = "reset" => prober.result = Ok
        PROVE  ProbeMarked'
    <3>1. prober'.step = step /\ prober'.result = prober.result /\ Probed' = Probed
      BY <1>3, <2>4
    <3>2. health'[Probed'].healthy = (prober'.result = Ok)
      BY <2>1, <2>3, <3>1
    <3>3. QED
      BY <2>4, <3>1, <3>2 DEF ProbeMarked, ProberAt
  <2>5. QED
    BY <1>2, <2>2, <2>4
<1>7. CASE ResetBan \/ RecordFailure
  BY <1>2, <1>7 DEF ResetBan, RecordFailure
<1>8. QED
  BY <1>4, <1>5, <1>6, <1>7

\* A report of a request to the store leaves every mark alone.
LEMMA ReportsKeepMarks ==
  ASSUME StoreOK, NEW j, record_request(j) \/ record_error(j), NEW k \in EndpointKeys
  PROVE  health'[k].healthy = health[k].healthy
<1>1. \/ \E n : health' = [health EXCEPT ![j].request_count = n]
      \/ \E n : health' = [health EXCEPT ![j].error_count = n]
  <2>1. record_request(j) =>
          health' = [health EXCEPT ![j].request_count =
                       IF health[j] = NoEntry THEN health[j].request_count
                       ELSE health[j].request_count + 1]
    BY DEF record_request, StoreOK
  <2>2. record_error(j) =>
          health' = [health EXCEPT ![j].error_count =
                       IF health[j] = NoEntry THEN health[j].error_count
                       ELSE health[j].error_count + 1]
    BY DEF record_error, StoreOK
  <2>3. QED
    BY <2>1, <2>2
<1>2. health[k] \in StoreEntries /\ health \in [EndpointKeys -> StoreEntries]
  BY DEF StoreOK
<1>3. \/ health'[k] = health[k]
      \/ \E n : health'[k] = [health[k] EXCEPT !.request_count = n]
      \/ \E n : health'[k] = [health[k] EXCEPT !.error_count = n]
  BY <1>1, <1>2
<1>4. QED
  BY <1>2, <1>3 DEF StoreEntries, NoEntry

LEMMA MarksStep ==
  ASSUME HealthInv, ProbeMarked, [Next]_vars
  PROVE  ProbeMarked'
<1>1. prober \in ProberType /\ StoreOK /\ Probed \in EndpointKeys
  BY InvParts, SweepInKeys DEF ProberOK
<1>2. ASSUME prober' = prober, health'[Probed].healthy = health[Probed].healthy
      PROVE  ProbeMarked'
  BY <1>2 DEF ProbeMarked, ProberAt, Probed, HandlerKey
<1>3. ASSUME \/ (\E r \in Request : Send(r) \/ Answer(r) \/ Record(r))
             \/ (\E k \in EndpointKeys : Dashboard(k) \/ Change(k)) \/ Tick \/ UNCHANGED vars
      PROVE  ProbeMarked'
  <2>1. prober' = prober /\ health' = health
    BY <1>3 DEF Send, Answer, Record, Dashboard, Change, Tick, vars, storeVars
  <2>2. QED
    BY <1>2, <2>1
<1>4. ASSUME NEW r \in Request, Count(r) PROVE ProbeMarked'
  <2>1. prober' = prober /\ (record_request(Key(r)) \/ record_error(Key(r)))
    BY <1>4 DEF Count
  <2>2. QED
    BY <1>1, <1>2, <2>1, ReportsKeepMarks
<1>5. QED
  BY <1>3, <1>4, CheckerMarks, StepCases

LEMMA UnbanInvAlways == Spec => []UnbanInv
<1>1. Init => UnbanInv
  BY DEF Init, UnbanInv, BansWithin, ProbeMarked, ProberAt, F2B!Init, F2B!BreakerInit
<1>2. HealthInv /\ UnbanInv /\ [Next]_vars => UnbanInv'
  BY BansStep, MarksStep DEF UnbanInv
<1>3. QED
  BY <1>1, <1>2, InvAlways, PTL DEF Spec

(* README line 20: a ban that runs is shortened by the checker alone, and  *)
(* only of an endpoint whose probe has just succeeded and which the store  *)
(* shows healthy; with any number of requests and looks at the dashboard   *)
(* between the checker's steps.                                            *)
THEOREM OnlyRecoveryLiftsABan == Spec => EarlyUnbanIsHealthy
<1>1. ASSUME HealthInv, UnbanInv, [Next]_vars, NEW k \in EndpointKeys,
             F2B!Banned(k), banned_until'[k] < banned_until[k]
      PROVE  /\ ProberAt("reset") /\ Probed = k /\ prober.result = Ok
             /\ health[k].healthy
  <2>1. banned_until[k] \in Nat
    BY <1>1, InvParts DEF BreakerOK, F2B!TypeOK, F2B!Banned
  <2>2. ~NoneShortened
    <3>1. SUFFICES ASSUME NoneShortened PROVE FALSE
      OBVIOUS
    <3>2. banned_until'[k] >= banned_until[k]
      BY <1>1, <3>1 DEF NoneShortened
    <3>3. banned_until'[k] \in Nat \cup {F2B!None}
      BY <1>1, InvStep, InvParts DEF HealthInv, TypeOK, F2B!TypeOK
    <3>4. QED
      BY <1>1, <2>1, <3>2, <3>3 DEF F2B!None
  <2>3. ResetBan
    BY <1>1, <2>2, BansStep DEF UnbanInv
  <2>4. ProberAt("reset") /\ F2B!reset(Probed) /\ UNCHANGED now
    BY <2>3 DEF ResetBan, worldVars
  <2>5. Probed = k
    <3>1. SUFFICES ASSUME k # Probed PROVE FALSE
      OBVIOUS
    <3>2. banned_until'[k] = banned_until[k]
      BY <1>1, <2>4, <3>1, InvParts, ResetShortensOne DEF UnbanInv
    <3>3. QED
      BY <1>1, <2>1, <3>2
  <2>6. prober.result = Ok /\ health[Probed].healthy
    BY <1>1, <2>4 DEF UnbanInv, ProbeMarked, ProberAt
  <2>7. QED
    BY <2>4, <2>5, <2>6
<1>2. HealthInv /\ UnbanInv /\ [Next]_vars =>
        [\A k \in EndpointKeys :
           F2B!Banned(k) /\ banned_until'[k] < banned_until[k] =>
             /\ ProberAt("reset") /\ Probed = k /\ prober.result = Ok
             /\ health[k].healthy]_vars
  BY <1>1
<1>3. QED
  BY <1>2, InvAlways, UnbanInvAlways, PTL DEF Spec, EarlyUnbanIsHealthy

-----------------------------------------------------------------------------
(* The breaker's counts beside the checker, which records failures of any  *)
(* status and resets bans: neither is a step of the request handlers.      *)

BreakerCounts == F2B!ThresholdHasBan /\ F2B!CountersNest

\* What one operation leaves of an endpoint's counts.
CountsOK(k) ==
  /\ MaxFailures > 0 /\ consecutive_failures[k] >= MaxFailures => banned_until[k] # F2B!None
  /\ consecutive_failures[k] <= total_failures[k] /\ total_failures[k] <= total_requests[k]

LEMMA BreakerCountsParts == BreakerCounts <=> \A k \in EndpointKeys : CountsOK(k)
BY DEF BreakerCounts, CountsOK, F2B!ThresholdHasBan, F2B!CountersNest

\* Every step is at most one operation of the breaker.
LEMMA StepOperation ==
  ASSUME [Next]_vars
  PROVE  \/ UNCHANGED breakerVars
         \/ \E j : F2B!is_banned(j) \/ F2B!reset(j) \/ F2B!record_success(j)
         \/ \E j, code : F2B!record_failure_with_code(j, code)
<1>1. ASSUME \/ Wake \/ Probe \/ Mark \/ (\E r \in Request : Send(r) \/ Answer(r) \/ Count(r))
             \/ (\E k \in EndpointKeys : Change(k)) \/ Tick \/ UNCHANGED vars
      PROVE  UNCHANGED breakerVars
  BY <1>1 DEF Wake, Probe, Mark, Send, Answer, Count, Change, Tick, vars
<1>2. ASSUME LookAtBan \/ \E k \in EndpointKeys : Dashboard(k)
      PROVE  \E j : F2B!is_banned(j)
  BY <1>2 DEF LookAtBan, Dashboard
<1>3. ASSUME ResetBan PROVE \E j : F2B!reset(j)
  BY <1>3 DEF ResetBan
<1>4. ASSUME RecordFailure \/ \E r \in Request : Record(r)
      PROVE  \E j : F2B!record_success(j) \/ \E code : F2B!record_failure_with_code(j, code)
  BY <1>4 DEF RecordFailure, Record
<1>5. QED
  BY <1>1, <1>2, <1>3, <1>4, StepCases

LEMMA CountsStep ==
  ASSUME BreakerOK, BreakerCounts, [Next]_vars
  PROVE  BreakerCounts'
<1> SUFFICES ASSUME NEW k \in EndpointKeys PROVE CountsOK(k)'
  <2>1. (\A k \in EndpointKeys : CountsOK(k)') => BreakerCounts'
    BY DEF BreakerCounts, CountsOK, F2B!ThresholdHasBan, F2B!CountersNest
  <2>2. QED
    BY <2>1
<1>1. /\ now \in Nat /\ BanDuration \in Nat /\ MaxFailures \in Nat
      /\ consecutive_failures \in [EndpointKeys -> Nat]
      /\ total_failures \in [EndpointKeys -> Nat] /\ total_requests \in [EndpointKeys -> Nat]
      /\ banned_until \in [EndpointKeys -> Nat \cup {F2B!None}]
  BY BreakerAssumption DEF F2B!Fail2banAssumption, BreakerOK, F2B!TypeOK
<1>2. CountsOK(k)
  BY BreakerCountsParts
<1>3. CASE UNCHANGED breakerVars
  BY <1>2, <1>3 DEF breakerVars, CountsOK
<1>4. ASSUME NEW j, F2B!is_banned(j) PROVE CountsOK(k)'
  <2>1. \/ UNCHANGED breakerVars
        \/ /\ consecutive_failures' = [consecutive_failures EXCEPT ![j] = 0]
           /\ banned_until' = [banned_until EXCEPT ![j] = F2B!None]
           /\ UNCHANGED <<total_requests, total_failures>>
    BY <1>4 DEF F2B!is_banned, F2B!breakerVars, breakerVars
  <2>2. QED
    BY <1>1, <1>2, <1>3, <2>1 DEF CountsOK
<1>5. ASSUME NEW j, F2B!reset(j) PROVE CountsOK(k)'
  BY <1>1, <1>2, <1>5 DEF F2B!reset, CountsOK
<1>6. ASSUME NEW j, F2B!record_success(j) PROVE CountsOK(k)'
  BY <1>1, <1>2, <1>6 DEF F2B!record_success, CountsOK
<1>7. ASSUME NEW j, NEW code, F2B!record_failure_with_code(j, code) PROVE CountsOK(k)'
  <2>1. /\ total_requests' = [total_requests EXCEPT ![j] = total_requests[j] + 1]
        /\ total_failures' = [total_failures EXCEPT ![j] = total_failures[j] + 1]
        /\ consecutive_failures' = [consecutive_failures EXCEPT ![j] = consecutive_failures[j] + 1]
        /\ banned_until' = IF F2B!JustBanned(j)
                           THEN [banned_until EXCEPT ![j] = now + BanDuration] ELSE banned_until
    BY <1>7 DEF F2B!record_failure_with_code
  <2>2. CASE k = j
    <3>1. consecutive_failures[k] + 1 >= MaxFailures => F2B!JustBanned(k)
      BY DEF F2B!JustBanned
    <3>2. F2B!JustBanned(k) => banned_until'[k] = now + BanDuration
      BY <1>1, <2>1, <2>2
    <3>3. QED
      BY <1>1, <1>2, <2>1, <2>2, <3>1, <3>2 DEF CountsOK, F2B!None
  <2>3. CASE k # j
    BY <1>1, <1>2, <2>1, <2>3 DEF CountsOK
  <2>4. QED
    BY <2>2, <2>3
<1>8. QED
  BY <1>3, <1>4, <1>5, <1>6, <1>7, StepOperation

(* checker.rs line 159: whatever requests record between the checker's     *)
(* look at a ban and its reset, no endpoint is left at the threshold       *)
(* without a ban, where only a further failure would exclude it, and no    *)
(* reset makes the counts of failures disagree with each other.            *)
THEOREM CountsHoldBesideTheChecker ==
  Spec => [](F2B!ThresholdHasBan /\ F2B!CountersNest)
<1>1. Init => BreakerCounts
  <2>1. Init => \A k \in EndpointKeys : CountsOK(k)
    BY BreakerAssumption DEF F2B!Fail2banAssumption, Init, F2B!Init, F2B!BreakerInit, CountsOK
  <2>2. QED
    BY <2>1, BreakerCountsParts
<1>2. HealthInv /\ BreakerCounts /\ [Next]_vars => BreakerCounts'
  BY CountsStep, InvParts
<1>3. QED
  BY <1>1, <1>2, InvAlways, PTL DEF Spec, BreakerCounts
=============================================================================
