--------------------------- MODULE CircuitBreaker ---------------------------
(***************************************************************************)
(* What callers are promised of the circuit breaker (README "Circuit       *)
(* Breaker", "Two ban triggers"), without the counters and the lazy expiry *)
(* Fail2ban promises it with: an endpoint is kept away from requests until *)
(* an instant, which only the clock or a reset can end.                    *)
(*                                                                         *)
(* Too high an error rate always opens the breaker.  MaxFailures failures  *)
(* in a row may open it: those from before its last ban or reset need not  *)
(* count.  Nothing else does.                                              *)
(***************************************************************************)
EXTENDS Integers

CONSTANTS Endpoint, MaxFailures, BanDuration, ErrorThreshold, MinSample

VARIABLES
  now,
  streak,      \* failures since the last success
  requests,    \* results reported
  failures,    \* those that were failures
  until        \* the instant the breaker closes; 0 when it is closed

vars == <<now, streak, requests, failures, until>>

Init ==
  /\ now = 0
  /\ streak = [e \in Endpoint |-> 0]
  /\ requests = [e \in Endpoint |-> 0]
  /\ failures = [e \in Endpoint |-> 0]
  /\ until = [e \in Endpoint |-> 0]

\* An instant that is over is as good as none.
Ahead(instant, clock) == IF clock < instant THEN instant ELSE 0

Pass ==
  /\ now' = now + 1
  /\ until' = [e \in Endpoint |-> Ahead(until[e], now + 1)]
  /\ UNCHANGED <<streak, requests, failures>>

Succeed(e) ==
  /\ streak' = [streak EXCEPT ![e] = 0]
  /\ requests' = [requests EXCEPT ![e] = @ + 1]
  /\ UNCHANGED <<now, failures, until>>

TooMany(e) ==
  /\ requests[e] + 1 >= MinSample
  /\ (failures[e] + 1) * 100 > ErrorThreshold * (requests[e] + 1)

Fail(e) ==
  /\ streak' = [streak EXCEPT ![e] = @ + 1]
  /\ requests' = [requests EXCEPT ![e] = @ + 1]
  /\ failures' = [failures EXCEPT ![e] = @ + 1]
  /\ \/ /\ streak[e] + 1 >= MaxFailures \/ TooMany(e)
        /\ until' = [until EXCEPT ![e] = Ahead(now + BanDuration, now)]
     \/ ~TooMany(e) /\ UNCHANGED until
  /\ UNCHANGED now

Close(e) == until' = [until EXCEPT ![e] = 0] /\ UNCHANGED <<now, streak, requests, failures>>

Next == Pass \/ \E e \in Endpoint : Succeed(e) \/ Fail(e) \/ Close(e)

Spec == Init /\ [][Next]_vars
=============================================================================
