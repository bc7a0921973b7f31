----------------------------- MODULE RateLimiter -----------------------------
(***************************************************************************)
(* RateLimiterStore of src/ratelimit/limiter.rs, seen from one of its keys *)
(* (a token, a team or an endpoint; the keys share nothing): requests that *)
(* check the key's limits and deduct what they used once the upstream has  *)
(* answered, the dashboard that asks for the balance, the cleanup of idle  *)
(* entries and a configuration that may be reloaded.                       *)
(*                                                                         *)
(* The map holds an Arc of a RateLimitPair.  A caller that cloned the Arc  *)
(* keeps the pair when cleanup removes it from the map, so every pair that *)
(* was ever created stays in the sequence `pairs`.                         *)
(***************************************************************************)
EXTENDS Integers, Sequences

CONSTANTS
  Request,
  Minute,       \* 60 seconds, in ticks of the clock (60 000 in the code)
  IdleLimit,    \* 600 seconds, in ticks
  Limits,       \* the records [rpm, tpm] the configuration may give the key
  Usage,        \* tokens an answer reports, less the one reserved
  StatsPolled,  \* whether somebody asks for the key's balance
  Elapses,      \* the ticks time advances by
  MaxNow,       \* bound: the last instant
  MaxPairs      \* bound: pairs created

ASSUME LimiterAssumption ==
  /\ Minute \in Nat \ {0}
  /\ IdleLimit \in Nat
  /\ Limits \subseteq [rpm : Nat, tpm : Nat]
  /\ Usage \subseteq Nat
  /\ Elapses \subseteq Nat \ {0}
  /\ MaxNow \in Nat /\ MaxPairs \in Nat
  /\ StatsPolled \in BOOLEAN

VARIABLES
  now,
  limits,    \* what the current configuration gives the key
  limiter,   \* the pair the map holds, or Absent
  pairs,
  pc,
  call       \* a request's limits, its clone of the Arc and the tokens it used

vars == <<now, limits, limiter, pairs, pc, call>>

Absent == 0

Pairs == [quota : Nat \ {0}, free_at : Nat, capacity : Nat, tokens : Int,
          last_update : Nat, window_start : Nat, window_consumed : Nat, last_used : Nat]

Points == {"idle", "rpm", "rpm_check", "tpm", "tpm_check", "upstream", "consume",
           "done", "rpm_refused", "tpm_refused"}

Calls == [rpm : Nat, tpm : Nat, pair : Nat, used : Nat]

TypeOK ==
  /\ now \in Nat
  /\ limits \in [rpm : Nat, tpm : Nat]
  /\ limiter \in 0..Len(pairs)
  /\ pairs \in Seq(Pairs)
  /\ pc \in [Request -> Points]
  /\ call \in [Request -> Calls]
  /\ \A r \in Request : pc[r] \in {"rpm_check", "tpm_check", "consume"} =>
                          call[r].pair \in 1..Len(pairs)

Init ==
  /\ now = 0
  /\ limits \in Limits
  /\ limiter = Absent
  /\ pairs = <<>>
  /\ pc = [r \in Request |-> "idle"]
  /\ call = [r \in Request |-> [rpm |-> 0, tpm |-> 0, pair |-> 0, used |-> 0]]

-----------------------------------------------------------------------------
(* The bucket for tokens per minute, TpmLimiter: a pair after each of its  *)
(* operations.                                                             *)

AtLeastOne(n) == IF n > 0 THEN n ELSE 1
AtMost(n, bound) == IF n < bound THEN n ELSE bound

\* RateLimitPair::new.  A quota of 0 requests becomes one of 1.
NewPair(rpm, tpm) ==
  [quota |-> AtLeastOne(rpm), free_at |-> now,
   capacity |-> tpm, tokens |-> AtLeastOne(tpm), last_update |-> now,
   window_start |-> now, window_consumed |-> 0, last_used |-> now]

\* What has flowed in since last_update: whole tokens only, and the instant
\* moves on only when there was one.
Inflow(p) == ((now - p.last_update) * p.capacity) \div Minute

\* Mutant: the inflow is added and its instant forgotten.
refill_KeepsInstant(p) ==
  IF Inflow(p) > 0 THEN [p EXCEPT !.tokens = AtMost(@ + Inflow(p), p.capacity)] ELSE p

refill(p) ==
  IF Inflow(p) > 0
  THEN [p EXCEPT !.tokens = AtMost(@ + Inflow(p), p.capacity), !.last_update = now]
  ELSE p

WindowOver(p) == now - p.window_start > Minute

\* Mutant: the window counts what is left instead of what was consumed.
Deduct_WindowDown(p, n) ==
  [p EXCEPT !.tokens = @ - n,
            !.window_start = IF WindowOver(p) THEN now ELSE @,
            !.window_consumed = IF WindowOver(p) THEN n ELSE @ - n]

\* The deduction of n tokens and its entry in the window of the statistics.
Deduct(p, n) ==
  [p EXCEPT !.tokens = @ - n,
            !.window_start = IF WindowOver(p) THEN now ELSE @,
            !.window_consumed = IF WindowOver(p) THEN n ELSE @ + n]

check_n(p, n) == IF refill(p).tokens >= n THEN Deduct(refill(p), n) ELSE refill(p)

consume_n(p, n) == Deduct(refill(p), n)

-----------------------------------------------------------------------------
(* The limiter for requests per minute (crate governor): `quota` requests  *)
(* at once, then one every Minute \div quota.                              *)

Interval(p) == Minute \div p.quota

\* Mutants: one request too many at once, one too few.
PermitsNow_OneMore(p) == p.free_at <= now + p.quota * Interval(p)
PermitsNow_OneLess(p) == p.free_at < now + (p.quota - 1) * Interval(p)

PermitsNow(p) == p.free_at <= now + (p.quota - 1) * Interval(p)

check_key(p) ==
  IF PermitsNow(p)
  THEN [p EXCEPT !.free_at = (IF @ > now THEN @ ELSE now) + Interval(p)]
  ELSE p

touch(p) == [p EXCEPT !.last_used = now]

-----------------------------------------------------------------------------
(* The store.  A caller that gets a pair touches and uses it in a later    *)
(* step: the guard of the map is dropped in between.                       *)

\* The pair get_or_create returns.
Got == IF limiter = Absent THEN Len(pairs) + 1 ELSE limiter

get_or_create(rpm, tpm) ==
  /\ limiter = Absent => Len(pairs) < MaxPairs
  /\ limiter' = Got
  /\ pairs' = IF limiter = Absent THEN Append(pairs, NewPair(rpm, tpm)) ELSE pairs

GoTo(r, point) == pc' = [pc EXCEPT ![r] = point]

\* The caller clones the Arc of the pair it is given.
Take(r, rpm, tpm, point) ==
  /\ get_or_create(rpm, tpm)
  /\ call' = [call EXCEPT ![r].pair = Got]
  /\ GoTo(r, point)

Held(r) == pairs[call[r].pair]

Update(r, p) == pairs' = [pairs EXCEPT ![call[r].pair] = touch(p)]

-----------------------------------------------------------------------------
(* check: first the requests, then the tokens of the key's limits.         *)

Begin(r) ==
  /\ pc[r] = "idle"
  /\ call' = [call EXCEPT ![r].rpm = limits.rpm, ![r].tpm = limits.tpm]
  /\ GoTo(r, "rpm")
  /\ UNCHANGED <<now, limits, limiter, pairs>>

GetForRpm(r) ==
  /\ pc[r] = "rpm"
  /\ IF call[r].rpm > 0
     THEN Take(r, call[r].rpm, call[r].tpm, "rpm_check")
     ELSE GoTo(r, "tpm") /\ UNCHANGED <<limiter, pairs, call>>
  /\ UNCHANGED <<now, limits>>

CheckRpm(r) ==
  /\ pc[r] = "rpm_check"
  /\ Update(r, check_key(Held(r)))
  /\ GoTo(r, IF PermitsNow(Held(r)) THEN "tpm" ELSE "rpm_refused")
  /\ UNCHANGED <<now, limits, limiter, call>>

GetForTpm(r) ==
  /\ pc[r] = "tpm"
  /\ IF call[r].tpm > 0
     THEN Take(r, call[r].rpm, call[r].tpm, "tpm_check")
     ELSE GoTo(r, "upstream") /\ UNCHANGED <<limiter, pairs, call>>
  /\ UNCHANGED <<now, limits>>

\* Callers reserve one token.
CheckTpm(r) ==
  /\ pc[r] = "tpm_check"
  /\ Update(r, check_n(Held(r), 1))
  /\ GoTo(r, IF refill(Held(r)).tokens >= 1 THEN "upstream" ELSE "tpm_refused")
  /\ UNCHANGED <<now, limits, limiter, call>>

\* The limit that consume_tpm is given: the one the request started with if the
\* key is a token's or an endpoint's; a team's is loaded anew, and may be another.
TpmsNow(r) == {call[r].tpm, limits.tpm}

\* consume_tpm.
Answered(r, tpm) ==
  /\ pc[r] = "upstream"
  /\ \E n \in Usage :
       IF tpm > 0 /\ n > 0
       THEN /\ get_or_create(0, tpm)
            /\ call' = [call EXCEPT ![r].pair = Got, ![r].used = n]
            /\ GoTo(r, "consume")
       ELSE GoTo(r, "done") /\ UNCHANGED <<limiter, pairs, call>>
  /\ UNCHANGED <<now, limits>>

Consume(r) ==
  /\ pc[r] = "consume"
  /\ Update(r, consume_n(Held(r), call[r].used))
  /\ GoTo(r, "done")
  /\ UNCHANGED <<now, limits, limiter, call>>

-----------------------------------------------------------------------------
(* The rest of the program.                                                *)

\* get_tpm_state: it does not touch the pair, and starts a window that is over
\* afresh.  The code does so in a second step, with the pair it holds; should
\* cleanup or a request come between, the next to look starts the window instead.
GetTpmState ==
  /\ StatsPolled
  /\ limits.tpm > 0
  /\ limiter = Absent => Len(pairs) < MaxPairs
  /\ limiter' = Got
  /\ pairs' = IF limiter = Absent THEN Append(pairs, NewPair(0, limits.tpm))
              ELSE IF WindowOver(pairs[limiter])
              THEN [pairs EXCEPT ![limiter].window_start = now,
                                 ![limiter].window_consumed = 0]
              ELSE pairs
  /\ UNCHANGED <<now, limits, pc, call>>

Cleanup ==
  /\ limiter # Absent
  /\ now - pairs[limiter].last_used >= IdleLimit
  /\ limiter' = Absent
  /\ UNCHANGED <<now, limits, pairs, pc, call>>

Reload ==
  /\ limits' \in Limits \ {limits}
  /\ UNCHANGED <<now, limiter, pairs, pc, call>>

Tick ==
  /\ \E d \in Elapses : now + d <= MaxNow /\ now' = now + d
  /\ UNCHANGED <<limits, limiter, pairs, pc, call>>

Next ==
  \/ \E r \in Request :
       \/ Begin(r) \/ GetForRpm(r) \/ CheckRpm(r) \/ GetForTpm(r) \/ CheckTpm(r)
       \/ \E tpm \in TpmsNow(r) : Answered(r, tpm)
       \/ Consume(r)
  \/ GetTpmState \/ Cleanup \/ Reload \/ Tick

Spec == Init /\ [][Next]_vars
=============================================================================
