------------------------------ MODULE Fail2ban ------------------------------
(***************************************************************************)
(* The circuit breaker of src/fail2ban/breaker.rs.                         *)
(*                                                                         *)
(* Every endpoint key has an EndpointState.  An entry that the DashMap     *)
(* does not hold yet behaves exactly as one that `ensure` has just         *)
(* inserted, so the map is a total function here.  record_* hold the       *)
(* entry exclusively (RefMut of `ensure`) and is_banned and reset hold it  *)
(* shared, so each operation is one atomic step with respect to record_*;  *)
(* is_banned and reset both only clear fields, in any interleaving.        *)
(*                                                                         *)
(* A ban ends lazily: banned_until keeps an instant that has passed until  *)
(* somebody calls is_banned or reset.                                      *)
(***************************************************************************)
EXTENDS Integers

CONSTANTS
  EndpointKey,      \* the keys of `states`: "url:masked key"
  MaxFailures,      \* max_failures
  BanDuration,      \* ban_duration, in ticks of the clock
  ErrorThreshold,   \* error_threshold, in percent
  FailPatterns,     \* fail_patterns: records [min, max], an Exact code has min = max
  Status,           \* the HTTP status codes that occur
  MaxNow,           \* bound: the last instant the clock reaches
  MaxRequests       \* bound: results recorded per endpoint

ASSUME Fail2banAssumption ==
  /\ MaxFailures \in Nat
  /\ BanDuration \in Nat
  /\ ErrorThreshold \in Nat
  /\ FailPatterns \subseteq [min : Nat, max : Nat]
  /\ Status \subseteq Nat
  /\ MaxNow \in Nat
  /\ MaxRequests \in Nat

VARIABLES
  now,                   \* Instant::now()
  consecutive_failures,
  total_requests,
  total_failures,
  banned_until,          \* an instant, or None
  last_error_code        \* HTTP status, 0 for a network error

breakerVars == <<consecutive_failures, total_requests, total_failures,
                 banned_until, last_error_code>>
vars == <<now, breakerVars>>

None == -1         \* banned_until holds no instant
NetworkError == 0  \* the code record_failure passes on
MinSample == 10    \* results needed before the error rate counts

TypeOK ==
  /\ now \in Nat
  /\ consecutive_failures \in [EndpointKey -> Nat]
  /\ total_requests \in [EndpointKey -> Nat]
  /\ total_failures \in [EndpointKey -> Nat]
  /\ banned_until \in [EndpointKey -> Nat \cup {None}]
  /\ last_error_code \in [EndpointKey -> Status \cup {NetworkError}]

BreakerInit ==
  /\ consecutive_failures = [e \in EndpointKey |-> 0]
  /\ total_requests = [e \in EndpointKey |-> 0]
  /\ total_failures = [e \in EndpointKey |-> 0]
  /\ banned_until = [e \in EndpointKey |-> None]
  /\ last_error_code = [e \in EndpointKey |-> 0]

Init == now = 0 /\ BreakerInit

-----------------------------------------------------------------------------
(* What the operations compute and return. *)

is_fail_status(status) ==
  \E p \in FailPatterns : p.min <= status /\ status <= p.max

\* A ban instant is stored and lies ahead: what is_banned returns.
Banned(e) == banned_until[e] # None /\ now < banned_until[e]

RateExceeded(errors, requests) ==
  requests >= MinSample /\ errors * 100 > ErrorThreshold * requests

\* Mutant: the failure is counted twice against the threshold.
JustBanned_OneTooSoon(e) ==
  \/ consecutive_failures[e] + 2 >= MaxFailures
  \/ RateExceeded(total_failures[e] + 1, total_requests[e] + 1)

\* Mutant: the error rate is not looked at.
JustBanned_CountOnly(e) == consecutive_failures[e] + 1 >= MaxFailures

\* What record_failure_with_code returns when it is called now.
JustBanned(e) ==
  \/ consecutive_failures[e] + 1 >= MaxFailures
  \/ RateExceeded(total_failures[e] + 1, total_requests[e] + 1)

-----------------------------------------------------------------------------
(* The operations. *)

\* Mutant: the count survives the end of the ban.
is_banned_KeepsCount(e) ==
  IF banned_until[e] # None /\ ~Banned(e)
  THEN /\ banned_until' = [banned_until EXCEPT ![e] = None]
       /\ UNCHANGED <<consecutive_failures, total_requests, total_failures, last_error_code>>
  ELSE UNCHANGED breakerVars

\* is_banned writes when it meets an expired ban: the count starts afresh.
is_banned(e) ==
  IF banned_until[e] # None /\ ~Banned(e)
  THEN /\ consecutive_failures' = [consecutive_failures EXCEPT ![e] = 0]
       /\ banned_until' = [banned_until EXCEPT ![e] = None]
       /\ UNCHANGED <<total_requests, total_failures, last_error_code>>
  ELSE UNCHANGED breakerVars

\* Mutant: a success takes back one failure instead of all.
record_success_TakesOneBack(e) ==
  /\ total_requests' = [total_requests EXCEPT ![e] = @ + 1]
  /\ consecutive_failures' = [consecutive_failures EXCEPT ![e] = @ - 1]
  /\ UNCHANGED <<total_failures, banned_until, last_error_code>>

\* Mutant: a success leaves the count of failures alone.
record_success_KeepsCount(e) ==
  /\ total_requests' = [total_requests EXCEPT ![e] = @ + 1]
  /\ UNCHANGED <<consecutive_failures, total_failures, banned_until, last_error_code>>

\* Mutant: a success lifts the ban.
record_success_Unbans(e) ==
  /\ total_requests' = [total_requests EXCEPT ![e] = @ + 1]
  /\ consecutive_failures' = [consecutive_failures EXCEPT ![e] = 0]
  /\ banned_until' = [banned_until EXCEPT ![e] = None]
  /\ UNCHANGED <<total_failures, last_error_code>>

record_success(e) ==
  /\ total_requests' = [total_requests EXCEPT ![e] = @ + 1]
  /\ consecutive_failures' = [consecutive_failures EXCEPT ![e] = 0]
  /\ UNCHANGED <<total_failures, banned_until, last_error_code>>

\* Mutant: a failure is not counted as a request.
record_failure_with_code_NoRequest(e, code) ==
  /\ total_failures' = [total_failures EXCEPT ![e] = @ + 1]
  /\ last_error_code' = [last_error_code EXCEPT ![e] = code]
  /\ consecutive_failures' = [consecutive_failures EXCEPT ![e] = @ + 1]
  /\ banned_until' = IF JustBanned(e)
                     THEN [banned_until EXCEPT ![e] = now + BanDuration]
                     ELSE banned_until
  /\ UNCHANGED total_requests

\* Mutant: a ban that runs is prolonged from its end.
record_failure_with_code_Prolongs(e, code) ==
  /\ total_requests' = [total_requests EXCEPT ![e] = @ + 1]
  /\ total_failures' = [total_failures EXCEPT ![e] = @ + 1]
  /\ last_error_code' = [last_error_code EXCEPT ![e] = code]
  /\ consecutive_failures' = [consecutive_failures EXCEPT ![e] = @ + 1]
  /\ banned_until' = IF JustBanned(e)
                     THEN [banned_until EXCEPT ![e] =
                             (IF Banned(e) THEN @ ELSE now) + BanDuration]
                     ELSE banned_until

record_failure_with_code(e, code) ==
  /\ total_requests' = [total_requests EXCEPT ![e] = @ + 1]
  /\ total_failures' = [total_failures EXCEPT ![e] = @ + 1]
  /\ last_error_code' = [last_error_code EXCEPT ![e] = code]
  /\ consecutive_failures' = [consecutive_failures EXCEPT ![e] = @ + 1]
  /\ banned_until' = IF JustBanned(e)
                     THEN [banned_until EXCEPT ![e] = now + BanDuration]
                     ELSE banned_until

record_failure(e) == record_failure_with_code(e, NetworkError)

reset(e) ==
  /\ consecutive_failures' = [consecutive_failures EXCEPT ![e] = 0]
  /\ banned_until' = [banned_until EXCEPT ![e] = None]
  /\ UNCHANGED <<total_requests, total_failures, last_error_code>>

-----------------------------------------------------------------------------
(* The breaker under any caller: both proxies, the health checker and the  *)
(* dashboard.                                                              *)

Tick == now < MaxNow /\ now' = now + 1 /\ UNCHANGED breakerVars

MayRecord(e) == total_requests[e] < MaxRequests

\* proxy_handler reports the statuses that fail_patterns name as failures, the
\* health checker and the generic proxy's streams every status but 2xx.
MayCountAsFailure(status) == is_fail_status(status) \/ status < 200 \/ status > 299

IsBanned(e) == is_banned(e) /\ UNCHANGED now
Success(e) == MayRecord(e) /\ record_success(e) /\ UNCHANGED now
Failure(e) ==
  /\ MayRecord(e)
  /\ \/ record_failure(e)
     \/ \E s \in Status : MayCountAsFailure(s) /\ record_failure_with_code(e, s)
  /\ UNCHANGED now
Reset(e) == reset(e) /\ UNCHANGED now

Next ==
  \/ Tick
  \/ \E e \in EndpointKey : IsBanned(e) \/ Success(e) \/ Failure(e) \/ Reset(e)

Spec == Init /\ [][Next]_vars

-----------------------------------------------------------------------------
(* An endpoint whose count of failures in a row stands at the threshold    *)
(* carries a ban instant: no path through expiry, success or reset leaves  *)
(* a count that reached MaxFailures behind without its ban.                *)
ThresholdHasBan ==
  MaxFailures > 0 =>
    \A e \in EndpointKey :
      consecutive_failures[e] >= MaxFailures => banned_until[e] # None

(* The three counters nest: every failure in a row was counted as a        *)
(* failure, every failure as a request.  The error rate never exceeds 1.   *)
CountersNest ==
  \A e \in EndpointKey :
    /\ consecutive_failures[e] <= total_failures[e]
    /\ total_failures[e] <= total_requests[e]

(* A ban that still runs is lifted by `reset` alone: neither the success   *)
(* of a request that was in flight when the ban was set, nor a look at the *)
(* ban, nor time before its end shortens it.                               *)
OnlyResetLiftsABan ==
  [][\A e \in EndpointKey :
       Banned(e) => banned_until'[e] >= banned_until[e] \/ Reset(e)]_vars
=============================================================================
