---------------------------- MODULE HealthChecker ----------------------------
(***************************************************************************)
(* The background health checker and the HealthStore of                    *)
(* src/health/checker.rs, beside the requests of proxy_generic             *)
(* (src/proxy/handler.rs) and the dashboard, all of them on one circuit    *)
(* breaker.                                                                *)
(*                                                                         *)
(* The checker is one task that probes every endpoint of every model in    *)
(* turn and sleeps.  What it does with an answer is several steps: the     *)
(* store, a look at the ban, and the ban itself or a failure, each under a *)
(* lock of its own.  A request of proxy_generic takes the next endpoint    *)
(* without a look at bans, is never retried, and reports its result to the *)
(* breaker and then to the store.                                          *)
(***************************************************************************)
EXTENDS ModelRouter

CONSTANTS
  Request,
  Sweep,         \* the <<model, index>> pairs in the order they are probed
  MaxFailures, BanDuration, ErrorThreshold, FailPatterns,
  Status,        \* the statuses other than 2xx endpoints answer with
  MayStream,     \* the values of "stream" in request bodies
  MaxNow,        \* bound: the last instant
  MaxChanges     \* bound: how often endpoints go down or come back

ASSUME HealthAssumption ==
  /\ Sweep \in Seq(UNION {{m} \X Index(m) : m \in Model}) /\ Sweep # <<>>
  /\ MayStream \subseteq BOOLEAN
  /\ MaxChanges \in Nat

VARIABLES
  now, consecutive_failures, total_requests, total_failures, banned_until,
  last_error_code,
  up, changes,     \* the endpoints: which of them work, and changes so far
  prober,          \* the checker: its step, place in Sweep and the probe's result
  health,          \* HealthStore: key |-> [healthy, request_count, error_count] or NoEntry
  store_requests, store_errors,  \* HealthStore: total_requests, total_errors
  pc, call         \* proxy_generic: where each request stands, its endpoint and result

EndpointKeys == {HandlerKey(p[1], p[2]) : p \in {Sweep[i] : i \in 1..Len(Sweep)}}

F2B == INSTANCE Fail2ban WITH EndpointKey <- EndpointKeys, MaxRequests <- 0

ASSUME BreakerAssumption == F2B!Fail2banAssumption

breakerVars == <<consecutive_failures, total_requests, total_failures,
                 banned_until, last_error_code>>
storeVars == <<health, store_requests, store_errors>>
worldVars == <<now, up, changes>>
vars == <<worldVars, breakerVars, counters, prober, storeVars, pc, call>>

NoEntry == [healthy |-> FALSE, request_count |-> -1, error_count |-> -1]

\* What comes back from an endpoint: 200, another status, or no answer.
Ok == 200
NetworkError == 0
Results == {Ok, NetworkError} \cup Status

TypeOK ==
  /\ F2B!TypeOK
  /\ RouterTypeOK
  /\ up \in [EndpointKeys -> BOOLEAN] /\ changes \in 0..MaxChanges
  /\ prober \in [step : {"sleep", "probe", "mark", "look", "reset", "record"},
                 at : 1..Len(Sweep), result : Results]
  /\ health \in [EndpointKeys ->
                   {NoEntry} \cup [healthy : BOOLEAN, request_count : Nat, error_count : Nat]]
  /\ store_requests \in Nat /\ store_errors \in Nat
  /\ pc \in [Request -> {"idle", "sent", "answered", "count", "done"}]
  /\ call \in [Request -> [model : Model, stream : BOOLEAN,
                           current : Nat \cup {NoEndpoint}, result : Results]]

Init ==
  /\ F2B!Init
  /\ RouterInit
  /\ up \in [EndpointKeys -> BOOLEAN] /\ changes = 0
  /\ prober = [step |-> "sleep", at |-> 1, result |-> Ok]
  /\ health = [k \in EndpointKeys |-> NoEntry]
  /\ store_requests = 0 /\ store_errors = 0
  /\ pc = [r \in Request |-> "idle"]
  /\ call \in [Request -> {[model |-> m, stream |-> s, current |-> NoEndpoint, result |-> Ok] :
                             m \in Model, s \in MayStream}]

\* What an endpoint may answer now.
Answers(k) == IF up[k] THEN {Ok} ELSE {NetworkError} \cup Status

-----------------------------------------------------------------------------
(* HealthStore. *)

\* set_healthy and set_unhealthy make the entry if there is none.
set_health(k, healthy) ==
  health' = [health EXCEPT ![k] =
    IF @ = NoEntry THEN [healthy |-> healthy, request_count |-> 0, error_count |-> 0]
    ELSE [@ EXCEPT !.healthy = healthy]]

\* The counts of an endpoint start with its first probe.
record_request(k) ==
  /\ store_requests' = store_requests + 1
  /\ health' = [health EXCEPT ![k].request_count = IF health[k] = NoEntry THEN @ ELSE @ + 1]
  /\ UNCHANGED store_errors

record_error(k) ==
  /\ store_errors' = store_errors + 1
  /\ health' = [health EXCEPT ![k].error_count = IF health[k] = NoEntry THEN @ ELSE @ + 1]
  /\ UNCHANGED store_requests

-----------------------------------------------------------------------------
(* The checker, check_all_endpoints in its loop. *)

Probed == HandlerKey(Sweep[prober.at][1], Sweep[prober.at][2])

ProberAt(step) == prober.step = step
ProberGoes(step) == prober' = [prober EXCEPT !.step = step]

\* Mutant: the sweep goes one endpoint too far.
ProberMovesOn_PastEnd ==
  prober' = IF prober.at <= Len(Sweep)
            THEN [step |-> "probe", at |-> prober.at + 1, result |-> Ok]
            ELSE [step |-> "sleep", at |-> 1, result |-> Ok]

\* On to the next endpoint, or to sleep after the last.
ProberMovesOn ==
  prober' = IF prober.at < Len(Sweep)
            THEN [step |-> "probe", at |-> prober.at + 1, result |-> Ok]
            ELSE [step |-> "sleep", at |-> 1, result |-> Ok]

Wake ==
  /\ ProberAt("sleep")
  /\ ProberGoes("probe")
  /\ UNCHANGED <<worldVars, breakerVars, counters, storeVars, pc, call>>

\* The probe's await; an answer later than ten seconds is a network error.
Probe ==
  /\ ProberAt("probe")
  /\ \E result \in Answers(Probed) :
       prober' = [prober EXCEPT !.step = "mark", !.result = result]
  /\ UNCHANGED <<worldVars, breakerVars, counters, storeVars, pc, call>>

Mark ==
  /\ ProberAt("mark")
  /\ set_health(Probed, prober.result = Ok)
  /\ ProberGoes("look")
  /\ UNCHANGED <<worldVars, breakerVars, counters, store_requests, store_errors, pc, call>>

\* Mutant: a ban is lifted whatever the probe said.
LookAtBan_AnyAnswer ==
  /\ ProberAt("look")
  /\ F2B!is_banned(Probed)
  /\ \/ F2B!Banned(Probed) /\ ProberGoes("reset")
     \/ ~F2B!Banned(Probed) /\ prober.result # Ok /\ ProberGoes("record")
     \/ ~F2B!Banned(Probed) /\ prober.result = Ok /\ ProberMovesOn
  /\ UNCHANGED <<worldVars, counters, storeVars, pc, call>>

\* A ban is lifted after a success; after a failure it is left to run.
LookAtBan ==
  /\ ProberAt("look")
  /\ F2B!is_banned(Probed)
  /\ \/ prober.result = Ok /\ F2B!Banned(Probed) /\ ProberGoes("reset")
     \/ prober.result # Ok /\ ~F2B!Banned(Probed) /\ ProberGoes("record")
     \/ (prober.result = Ok) # F2B!Banned(Probed) /\ ProberMovesOn
  /\ UNCHANGED <<worldVars, counters, storeVars, pc, call>>

\* Mutant: the ban is left to run its time.
ResetBan_Never ==
  /\ ProberAt("reset")
  /\ ProberMovesOn
  /\ UNCHANGED <<worldVars, breakerVars, counters, storeVars, pc, call>>

ResetBan ==
  /\ ProberAt("reset")
  /\ F2B!reset(Probed)
  /\ ProberMovesOn
  /\ UNCHANGED <<worldVars, counters, storeVars, pc, call>>

\* Mutant: only failures fail_status_codes names are recorded.
RecordFailure_OnlyNamed ==
  /\ ProberAt("record")
  /\ IF F2B!is_fail_status(prober.result)
     THEN F2B!record_failure_with_code(Probed, prober.result)
     ELSE UNCHANGED breakerVars
  /\ ProberMovesOn
  /\ UNCHANGED <<worldVars, counters, storeVars, pc, call>>

\* Whatever fail_status_codes says of the status.
RecordFailure ==
  /\ ProberAt("record")
  /\ F2B!record_failure_with_code(Probed, prober.result)
  /\ ProberMovesOn
  /\ UNCHANGED <<worldVars, counters, storeVars, pc, call>>

Checker == Wake \/ Probe \/ Mark \/ LookAtBan \/ ResetBan \/ RecordFailure

-----------------------------------------------------------------------------
(* proxy_generic. *)

GoTo(r, point) == pc' = [pc EXCEPT ![r] = point]

Key(r) == HandlerKey(call[r].model, call[r].current)

\* check_all_rate_limits may refuse the request; a model may have no endpoint.
Send(r) ==
  /\ pc[r] = "idle"
  /\ \/ GoTo(r, "done") /\ UNCHANGED <<counters, call>>
     \/ /\ Total(call[r].model) > 0
        /\ next(call[r].model)
        /\ call' = [call EXCEPT ![r].current = pick_weighted(call[r].model)]
        /\ GoTo(r, "sent")
  /\ UNCHANGED <<worldVars, breakerVars, prober, storeVars>>

\* The upstream answers, or timeout_middleware drops the handler.
Answer(r) ==
  /\ pc[r] = "sent"
  /\ \/ /\ \E result \in Answers(Key(r)) : call' = [call EXCEPT ![r].result = result]
        /\ GoTo(r, "answered")
     \/ GoTo(r, "done") /\ UNCHANGED call
  /\ UNCHANGED <<worldVars, breakerVars, counters, prober, storeVars>>

\* A stream fails with any other status than 2xx, a plain answer with one that
\* fail_status_codes names.
Failed(r) ==
  \/ call[r].result = NetworkError
  \/ call[r].stream /\ call[r].result # Ok
  \/ call[r].result >= 400 /\ F2B!is_fail_status(call[r].result)

\* Mutant: the breaker does not hear of a stream that could not be sent.
Record_SkipsStreams(r) ==
  /\ pc[r] = "answered"
  /\ \/ call[r].stream /\ call[r].result = NetworkError /\ UNCHANGED breakerVars
     \/ ~call[r].stream /\ Failed(r) /\ F2B!record_failure_with_code(Key(r), call[r].result)
     \/ ~Failed(r) /\ F2B!record_success(Key(r))
  /\ GoTo(r, "count")
  /\ UNCHANGED <<worldVars, counters, prober, storeVars, call>>

Record(r) ==
  /\ pc[r] = "answered"
  /\ IF Failed(r) THEN F2B!record_failure_with_code(Key(r), call[r].result)
                  ELSE F2B!record_success(Key(r))
  /\ GoTo(r, "count")
  /\ UNCHANGED <<worldVars, counters, prober, storeVars, call>>

Count(r) ==
  /\ pc[r] = "count"
  /\ IF Failed(r) THEN record_error(Key(r)) ELSE record_request(Key(r))
  /\ GoTo(r, "done")
  /\ UNCHANGED <<worldVars, breakerVars, counters, prober, call>>

-----------------------------------------------------------------------------
(* The dashboard, the endpoints and time. *)

\* health_json and health_dashboard look at every ban.
Dashboard(k) ==
  /\ F2B!is_banned(k)
  /\ UNCHANGED <<worldVars, counters, prober, storeVars, pc, call>>

Change(k) ==
  /\ changes < MaxChanges
  /\ changes' = changes + 1
  /\ up' = [up EXCEPT ![k] = ~@]
  /\ UNCHANGED <<now, breakerVars, counters, prober, storeVars, pc, call>>

Tick ==
  /\ now < MaxNow
  /\ now' = now + 1
  /\ UNCHANGED <<up, changes, breakerVars, counters, prober, storeVars, pc, call>>

Next ==
  \/ Checker
  \/ \E r \in Request : Send(r) \/ Answer(r) \/ Record(r) \/ Count(r)
  \/ \E k \in EndpointKeys : Dashboard(k) \/ Change(k)
  \/ Tick

Spec == Init /\ [][Next]_vars

(* The checker's task is polled for ever: its sleep ends, a probe answers   *)
(* or runs into its timeout of ten seconds.  Requests need not come or end. *)
FairSpec == Spec /\ WF_vars(Checker)

-----------------------------------------------------------------------------
(* README line 20, "auto-unban on recovery": an endpoint that has come back *)
(* for good is marked healthy and its ban lifted, for good, whatever late   *)
(* failures of earlier requests and expiring bans come between.             *)
RecoveryNoticed ==
  \A k \in EndpointKeys :
    <>[]up[k] => <>[](health[k].healthy /\ ~F2B!Banned(k))

(* An endpoint that is gone for good is banned again and again, without any *)
(* request to it, and stays marked unhealthy.                               *)
OutageNoticed ==
  \A k \in EndpointKeys :
    <>[]~up[k] => []<>F2B!Banned(k) /\ <>[]~health[k].healthy

(* handler.rs line 1283 and after: a request reports its result to the      *)
(* breaker and then to the store, on each of six paths.  What the dashboard *)
(* counts for an endpoint, the breaker counted before: no path tells the    *)
(* store alone.  (That the breaker may be alone with a result is not ruled  *)
(* out: the checker's failures are none of the store's.)                    *)
StoreWithinBreaker ==
  \A k \in EndpointKeys :
    /\ health[k].request_count + health[k].error_count <= total_requests[k]
    /\ health[k].error_count <= total_failures[k]

(* README line 20 and checker.rs line 159: a ban that runs is shortened by  *)
(* the checker alone, and only of an endpoint that the store shows healthy  *)
(* and whose probe has just succeeded - not by the success of a request     *)
(* that was in flight, nor by the dashboard's look at it.                   *)
EarlyUnbanIsHealthy ==
  [][\A k \in EndpointKeys :
       F2B!Banned(k) /\ banned_until'[k] < banned_until[k] =>
         /\ ProberAt("reset") /\ Probed = k /\ prober.result = Ok
         /\ health[k].healthy]_vars
=============================================================================
