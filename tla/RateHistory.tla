----------------------------- MODULE RateHistory -----------------------------
(***************************************************************************)
(* RateLimiter with the history its promises speak of: when each request   *)
(* was admitted and by which pair, and the bucket the README describes, which  *)
(* refills linearly and without rounding.  The history never influences a  *)
(* step.                                                                   *)
(***************************************************************************)
EXTENDS RateLimiter, FiniteSets

VARIABLES
  admitted_at,   \* the instant a request passed the limit of requests, or None
  admitted_by,   \* the pair that admitted it
  ideal          \* pair |-> [level, at]: the ideal bucket, in tokens times Minute

historyVars == <<admitted_at, admitted_by, ideal>>
hvars == <<vars, historyVars>>

None == -1

HTypeOK ==
  /\ TypeOK
  /\ admitted_at \in [Request -> Nat \cup {None}]
  /\ admitted_by \in [Request -> Nat]
  /\ ideal \in Seq([level : Int, at : Nat])
  /\ Len(ideal) = Len(pairs)

HInit ==
  /\ Init
  /\ admitted_at = [r \in Request |-> None]
  /\ admitted_by = [r \in Request |-> Absent]
  /\ ideal = <<>>

\* The ideal level of pair i before anything is taken from it now.
Burst(i) == AtLeastOne(pairs[i].capacity) * Minute
IdealNow(i) == AtMost(ideal[i].level + (now - ideal[i].at) * pairs[i].capacity, Burst(i))

Spend(i, n) ==
  ideal' = [ideal EXCEPT ![i] = [level |-> IdealNow(i) - n * Minute, at |-> now]]

\* History of a pair that get_or_create may have added.
Extend(tpm) ==
  ideal' = IF limiter = Absent
           THEN Append(ideal, [level |-> AtLeastOne(tpm) * Minute, at |-> now])
           ELSE ideal

HBegin(r) == Begin(r) /\ UNCHANGED historyVars

HGetForRpm(r) ==
  /\ GetForRpm(r)
  /\ IF call[r].rpm > 0 THEN Extend(call[r].tpm) ELSE UNCHANGED ideal
  /\ UNCHANGED <<admitted_at, admitted_by>>

HCheckRpm(r) ==
  /\ CheckRpm(r)
  /\ IF PermitsNow(Held(r))
     THEN /\ admitted_at' = [admitted_at EXCEPT ![r] = now]
          /\ admitted_by' = [admitted_by EXCEPT ![r] = call[r].pair]
     ELSE UNCHANGED <<admitted_at, admitted_by>>
  /\ UNCHANGED ideal

HGetForTpm(r) ==
  /\ GetForTpm(r)
  /\ IF call[r].tpm > 0 THEN Extend(call[r].tpm) ELSE UNCHANGED ideal
  /\ UNCHANGED <<admitted_at, admitted_by>>

HCheckTpm(r) ==
  /\ CheckTpm(r)
  /\ Spend(call[r].pair, IF refill(Held(r)).tokens >= 1 THEN 1 ELSE 0)
  /\ UNCHANGED <<admitted_at, admitted_by>>

HAnswered(r, tpm) ==
  /\ Answered(r, tpm)
  /\ IF pc'[r] = "consume" THEN Extend(tpm) ELSE UNCHANGED ideal
  /\ UNCHANGED <<admitted_at, admitted_by>>

HConsume(r) ==
  /\ Consume(r)
  /\ Spend(call[r].pair, call[r].used)
  /\ UNCHANGED <<admitted_at, admitted_by>>

HGetTpmState == GetTpmState /\ Extend(limits.tpm) /\ UNCHANGED <<admitted_at, admitted_by>>

HRest == (Cleanup \/ Reload \/ Tick) /\ UNCHANGED historyVars

HNext ==
  \/ \E r \in Request :
       \/ HBegin(r) \/ HGetForRpm(r) \/ HCheckRpm(r) \/ HGetForTpm(r) \/ HCheckTpm(r)
       \/ \E tpm \in TpmsNow(r) : HAnswered(r, tpm)
       \/ HConsume(r)
  \/ HGetTpmState \/ HRest

HSpec == HInit /\ [][HNext]_hvars

-----------------------------------------------------------------------------
AdmittedSince(instant) == {q \in Request : admitted_at[q] # None /\ admitted_at[q] > instant}
AdmittedBy(i) == {q \in Request : admitted_by[q] = i}

(* README line 180, "If the bucket is empty, the request is rejected": a    *)
(* request is refused for the limit of requests only after as many requests *)
(* as its limit allows were admitted within the minute before.              *)
RpmRefusalJustified ==
  [][\A r \in Request :
       pc[r] = "rpm_check" /\ pc'[r] = "rpm_refused" =>
         Cardinality(AdmittedSince(now - Minute)) >= call[r].rpm]_hvars

(* The same of each pair and the quota it was created with, which holds     *)
(* whoever created it, and whatever cleanup and reloads did since: a pair   *)
(* refuses only after it admitted its quota within the minute before.       *)
PairRefusalJustified ==
  [][\A r \in Request :
       pc[r] = "rpm_check" /\ pc'[r] = "rpm_refused" =>
         Cardinality(AdmittedBy(call[r].pair) \cap AdmittedSince(now - Minute))
           >= Held(r).quota]_hvars

(* A quota holds in every minute, not only in those a counter starts with:  *)
(* whatever requests are interleaved in their checks, a pair admits fewer   *)
(* than twice its quota in any minute (a full bucket, and what flows in     *)
(* while it is drained).  For quotas that divide Minute.                    *)
PairAdmissionBound ==
  \A r \in Request : admitted_at[r] # None =>
    Cardinality({q \in AdmittedBy(admitted_by[r]) \cap AdmittedSince(admitted_at[r] - Minute) :
                   admitted_at[q] <= admitted_at[r]})
      < 2 * pairs[admitted_by[r]].quota

(* README line 191, "The refill rate is linear": however the bucket's       *)
(* operations are spread over time, it is never a whole token ahead of the  *)
(* linear refill.                                                           *)
RefillNeverAhead ==
  \A i \in 1..Len(pairs) : pairs[i].tokens * Minute < ideal[i].level + Minute
=============================================================================
