--------------------------- MODULE BreakerHistory ---------------------------
(***************************************************************************)
(* Fail2ban with the history its promises speak of: the results callers    *)
(* reported, kept beside the counters the code keeps.  The history never   *)
(* influences a step.                                                      *)
(***************************************************************************)
EXTENDS Fail2ban

VARIABLES
  streak,         \* failures reported since the last success
  last_failure    \* the instant of the last reported failure, or None

historyVars == <<streak, last_failure>>
hvars == <<vars, historyVars>>

HTypeOK ==
  /\ TypeOK
  /\ streak \in [EndpointKey -> Nat]
  /\ last_failure \in [EndpointKey -> Nat \cup {None}]

HInit ==
  /\ Init
  /\ streak = [e \in EndpointKey |-> 0]
  /\ last_failure = [e \in EndpointKey |-> None]

HTick == Tick /\ UNCHANGED historyVars
HIsBanned(e) == IsBanned(e) /\ UNCHANGED historyVars
HReset(e) == Reset(e) /\ UNCHANGED historyVars
HSuccess(e) ==
  /\ Success(e)
  /\ streak' = [streak EXCEPT ![e] = 0]
  /\ UNCHANGED last_failure
HFailure(e) ==
  /\ Failure(e)
  /\ streak' = [streak EXCEPT ![e] = @ + 1]
  /\ last_failure' = [last_failure EXCEPT ![e] = now]

HNext ==
  \/ HTick
  \/ \E e \in EndpointKey : HIsBanned(e) \/ HSuccess(e) \/ HFailure(e) \/ HReset(e)

HSpec == HInit /\ [][HNext]_hvars

-----------------------------------------------------------------------------
(* README "Two ban triggers": an endpoint is banned, or its ban prolonged, *)
(* only by a failure that completes MaxFailures failures with no success   *)
(* between them, or one that finds more than ErrorThreshold percent of ten *)
(* or more results failed.  Expiry and reset may make the code count fewer *)
(* failures than there were, never more.                                   *)
BanJustified ==
  [][\A e \in EndpointKey :
       banned_until'[e] \notin {None, banned_until[e]} =>
         \/ streak'[e] >= MaxFailures
         \/ RateExceeded(total_failures'[e], total_requests'[e])]_hvars

(* A ban lasts exactly as long as it should: an endpoint is never banned   *)
(* BanDuration or longer after the last failure reported for it, however   *)
(* often it was banned again meanwhile, and whether or not it was looked   *)
(* at in between.                                                          *)
BanFollowsAFailure ==
  \A e \in EndpointKey :
    banned_until[e] # None =>
      /\ last_failure[e] # None
      /\ banned_until[e] <= last_failure[e] + BanDuration

(* The strengthening from which BanJustified follows.                      *)
CountWithinStreak ==
  \A e \in EndpointKey : consecutive_failures[e] <= streak[e]

\* The breaker as callers see it: a ban that has expired is none, whether or
\* not anybody has looked.
Until == [e \in EndpointKey |-> IF Banned(e) THEN banned_until[e] ELSE 0]

Abstract == INSTANCE CircuitBreaker WITH
  Endpoint <- EndpointKey, requests <- total_requests, failures <- total_failures,
  until <- Until

(* The counters and the lazy expiry keep the promise: the breaker opens    *)
(* for the two reasons only, always for the second, and what is_banned     *)
(* clears on its way is not noticed.                                       *)
ImplementsCircuitBreaker == Abstract!Spec
=============================================================================
