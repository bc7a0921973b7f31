-------------------------- MODULE RateLimiterProofs --------------------------
(***************************************************************************)
(* The token bucket is never a whole token ahead of the linear refill the  *)
(* README promises: for every capacity, every rounding of the inflow and   *)
(* every interleaving of requests, dashboard, cleanup and reloads.         *)
(*                                                                         *)
(* A pair admits fewer than twice its quota of requests in any minute, and *)
(* refuses one only after it admitted its quota within the last: for every *)
(* quota and every number of requests.                                     *)
(***************************************************************************)
EXTENDS RateHistory, FiniteSetTheorems, TLAPS

-----------------------------------------------------------------------------
(* Arithmetic. *)

LEMMA DivBounds ==
  ASSUME NEW a \in Nat, NEW M \in Nat \ {0}
  PROVE  /\ a \div M \in Nat
         /\ (a \div M) * M <= a
         /\ a < (a \div M) * M + M
  BY SMT

LEMMA Distribute ==
  ASSUME NEW a \in Int, NEW b \in Int, NEW c \in Int
  PROVE  (a + b) * c = a * c + b * c
  BY SMT

LEMMA Monotone ==
  ASSUME NEW a \in Int, NEW b \in Int, NEW c \in Nat, a <= b
  PROVE  a * c <= b * c
  BY SMT

(* One refill, in numbers: tokens were added for the time since lu, the     *)
(* ideal bucket gains for the time since at.                                *)
LEMMA RefillArithmetic ==
  ASSUME NEW M \in Nat \ {0}, NEW cap \in Nat, NEW burst \in Nat,
         NEW tokens \in Int, NEW level \in Int,
         NEW lu \in Nat, NEW at \in Nat, NEW t \in Nat,
         lu <= at, at <= t, cap <= burst, tokens <= burst,
         tokens * M + (at - lu) * cap < level + M,
         NEW add \in Int, add = ((t - lu) * cap) \div M,
         NEW gained \in Int, gained = AtMost(level + (t - at) * cap, burst * M)
  PROVE  /\ add > 0 => /\ AtMost(tokens + add, cap) <= burst
                        /\ AtMost(tokens + add, cap) * M < gained + M
         /\ ~(add > 0) => tokens * M + (t - lu) * cap < gained + M
  <1> DEFINE inflow == (t - lu) * cap
             before == (at - lu) * cap
             after == (t - at) * cap
  <1>1. inflow \in Nat /\ before \in Nat /\ after \in Nat
    BY SMT
  <1>2. inflow = before + after
    <2>1. t - lu = (at - lu) + (t - at)
      OBVIOUS
    <2> QED
      BY <2>1, Distribute
  <1>3. /\ add \in Nat
        /\ add * M <= inflow
        /\ inflow < add * M + M
    BY <1>1, DivBounds
  <1>4. tokens * M \in Int /\ burst * M \in Int /\ add * M \in Int /\ cap * M \in Int
    BY SMT
  <1>5. tokens * M <= burst * M /\ cap * M <= burst * M
    BY Monotone
  <1>6. tokens * M + inflow < level + after + M
    <2>1. tokens * M + before < level + M
      OBVIOUS
    <2> HIDE DEF inflow, before, after
    <2> QED
      BY <2>1, <1>1, <1>2, <1>4
  <1>7. gained = IF level + after < burst * M THEN level + after ELSE burst * M
    BY DEF AtMost
  <1>8. ASSUME add > 0
        PROVE  /\ AtMost(tokens + add, cap) <= burst
               /\ AtMost(tokens + add, cap) * M < gained + M
    <2> DEFINE filled == AtMost(tokens + add, cap)
    <2>1. filled \in Int /\ filled <= cap /\ filled <= tokens + add /\ filled <= burst
      BY <1>3 DEF AtMost
    <2>2. filled * M <= cap * M /\ filled * M <= (tokens + add) * M /\ filled * M \in Int
      <3> HIDE DEF filled
      <3>1. filled * M <= cap * M
        BY <2>1, Monotone
      <3>2. filled * M <= (tokens + add) * M
        BY <2>1, Monotone, <1>3
      <3> QED
        BY <3>1, <3>2, <2>1
    <2>3. (tokens + add) * M = tokens * M + add * M
      BY Distribute, <1>3
    <2> HIDE DEF filled, inflow, before, after
    <2>4. filled * M < gained + M
      BY <2>2, <2>3, <1>1, <1>3, <1>4, <1>5, <1>6, <1>7
    <2> QED
      BY <2>1, <2>4 DEF filled
  <1>9. ASSUME ~(add > 0)
        PROVE  tokens * M + inflow < gained + M
    <2>1. add = 0
      BY <1>9, <1>3
    <2>2. inflow < M
      BY <2>1, <1>3
    <2> HIDE DEF inflow, before, after
    <2> QED
      BY <2>2, <1>1, <1>4, <1>5, <1>6, <1>7
  <1> QED
    BY <1>8, <1>9

-----------------------------------------------------------------------------
(* Pairs stay pairs. *)

LEMMA NewPairType ==
  ASSUME now \in Nat, NEW rpm \in Nat, NEW tpm \in Nat
  PROVE  NewPair(rpm, tpm) \in Pairs
  BY DEF NewPair, Pairs, AtLeastOne

LEMMA InflowType ==
  ASSUME now \in Nat, NEW p \in Pairs, p.last_update <= now
  PROVE  Inflow(p) \in Nat
  <1>1. Minute \in Nat \ {0} /\ p.capacity \in Nat /\ p.last_update \in Nat
    BY LimiterAssumption DEF Pairs
  <1>2. (now - p.last_update) * p.capacity \in Nat
    BY <1>1
  <1> QED
    BY <1>1, <1>2, DivBounds DEF Inflow

LEMMA RefillType ==
  ASSUME now \in Nat, NEW p \in Pairs, p.last_update <= now
  PROVE  refill(p) \in Pairs /\ refill(p).last_update <= now
  <1>1. Inflow(p) \in Nat
    BY InflowType
  <1> DEFINE filled == AtMost(p.tokens + Inflow(p), p.capacity)
  <1> HIDE DEF Inflow
  <1>2. filled \in Int
    BY <1>1 DEF Pairs, AtMost
  <1> HIDE DEF filled
  <1>3. [p EXCEPT !.tokens = filled, !.last_update = now] \in Pairs
    BY <1>2 DEF Pairs
  <1>4. [p EXCEPT !.tokens = filled, !.last_update = now].last_update <= now
    BY DEF Pairs
  <1>5. refill(p) = [p EXCEPT !.tokens = filled, !.last_update = now] \/ refill(p) = p
    BY DEF refill, filled, Pairs
  <1> QED
    BY <1>3, <1>4, <1>5, Zenon

LEMMA DeductType ==
  ASSUME now \in Nat, NEW p \in Pairs, NEW n \in Nat
  PROVE  Deduct(p, n) \in Pairs
  <1> DEFINE start == IF WindowOver(p) THEN now ELSE p.window_start
             consumed == IF WindowOver(p) THEN n ELSE p.window_consumed + n
  <1>1. start \in Nat /\ consumed \in Nat /\ p.tokens - n \in Int
    BY DEF Pairs
  <1>2. Deduct(p, n) = [p EXCEPT !.tokens = p.tokens - n, !.window_start = start,
                                 !.window_consumed = consumed]
    BY DEF Deduct, Pairs
  <1> HIDE DEF start, consumed
  <1> QED
    BY <1>1, <1>2 DEF Pairs

LEMMA CheckKeyType ==
  ASSUME now \in Nat, NEW p \in Pairs
  PROVE  check_key(p) \in Pairs
  <1>1. Interval(p) \in Nat
    BY LimiterAssumption, DivBounds DEF Interval, Pairs
  <1> QED
    BY <1>1 DEF check_key, Pairs

LEMMA TouchType ==
  ASSUME now \in Nat, NEW p \in Pairs
  PROVE  touch(p) \in Pairs
  BY DEF touch, Pairs

-----------------------------------------------------------------------------
(* The inductive invariant.  A bucket may run ahead by the fraction of a   *)
(* token that had flowed in, uncounted, when the ideal bucket was full;    *)
(* what has flowed in since last_update is counted with its tokens.        *)

BucketWithin(p, b) ==
  /\ b.at <= now
  /\ p.last_update <= b.at
  /\ p.tokens <= AtLeastOne(p.capacity)
  /\ p.tokens * Minute + (b.at - p.last_update) * p.capacity < b.level + Minute

BucketsWithin == \A i \in 1..Len(pairs) : BucketWithin(pairs[i], ideal[i])

RefillInv == HTypeOK /\ BucketsWithin

LEMMA InitRefill == HInit => RefillInv
  BY LimiterAssumption
  DEF HInit, Init, RefillInv, HTypeOK, TypeOK, Points, Calls, BucketsWithin, Absent, None

LEMMA NewBucketWithin ==
  ASSUME now \in Nat, NEW rpm \in Nat, NEW tpm \in Nat
  PROVE  BucketWithin(NewPair(rpm, tpm), [level |-> AtLeastOne(tpm) * Minute, at |-> now])
  <1> DEFINE level == AtLeastOne(tpm) * Minute
  <1>1. Minute \in Nat \ {0} /\ level \in Nat
    BY LimiterAssumption DEF AtLeastOne
  <1>2. (now - now) * tpm = 0
    BY SMT
  <1>3. /\ NewPair(rpm, tpm).tokens = AtLeastOne(tpm) /\ NewPair(rpm, tpm).capacity = tpm
        /\ NewPair(rpm, tpm).last_update = now
    BY DEF NewPair
  <1>4. AtLeastOne(tpm) \in Nat
    BY DEF AtLeastOne
  <1>5. level + 0 < level + Minute
    BY <1>1
  <1> QED
    BY <1>2, <1>3, <1>4, <1>5 DEF BucketWithin

(* A refill of a bucket, and of its ideal: what Spend starts from.          *)
LEMMA RefilledWithin ==
  ASSUME now \in Nat, NEW p \in Pairs, NEW b \in [level : Int, at : Nat], BucketWithin(p, b),
         NEW gained \in Int,
         gained = AtMost(b.level + (now - b.at) * p.capacity, AtLeastOne(p.capacity) * Minute)
  PROVE  BucketWithin(refill(p), [level |-> gained, at |-> now])
  <1> DEFINE burst == AtLeastOne(p.capacity)
  <1>1. /\ Minute \in Nat \ {0} /\ burst \in Nat /\ p.capacity \in Nat /\ p.capacity <= burst
        /\ p.tokens \in Int /\ p.last_update \in Nat /\ b.at \in Nat /\ b.level \in Int
    BY LimiterAssumption DEF Pairs, AtLeastOne
  <1>2. /\ p.last_update <= b.at /\ b.at <= now /\ p.tokens <= burst
        /\ p.tokens * Minute + (b.at - p.last_update) * p.capacity < b.level + Minute
    BY DEF BucketWithin
  <1>3. Inflow(p) \in Nat /\ Inflow(p) \in Int
    BY <1>1, <1>2, InflowType
  <1>4. gained = AtMost(b.level + (now - b.at) * p.capacity, burst * Minute)
    OBVIOUS
  <1>5. Inflow(p) = ((now - p.last_update) * p.capacity) \div Minute
    BY DEF Inflow
  <1> HIDE DEF burst
  <1>6. /\ Inflow(p) > 0 => /\ AtMost(p.tokens + Inflow(p), p.capacity) <= burst
                            /\ AtMost(p.tokens + Inflow(p), p.capacity) * Minute < gained + Minute
        /\ ~(Inflow(p) > 0) =>
             p.tokens * Minute + (now - p.last_update) * p.capacity < gained + Minute
    BY <1>1, <1>2, <1>3, <1>4, <1>5, RefillArithmetic
  <1>7. CASE Inflow(p) > 0
    <2> DEFINE filled == AtMost(p.tokens + Inflow(p), p.capacity)
    <2>1. filled <= burst /\ filled * Minute < gained + Minute
      BY <1>6, <1>7
    <2>2. /\ refill(p).tokens = filled /\ refill(p).last_update = now
          /\ refill(p).capacity = p.capacity
      BY <1>7 DEF refill, Pairs
    <2>3. (now - now) * p.capacity = 0 /\ filled * Minute \in Int
      BY <1>1, <1>3 DEF AtMost
    <2> HIDE DEF filled
    <2> QED
      BY <2>1, <2>2, <2>3, <1>1 DEF BucketWithin, burst
  <1>8. CASE ~(Inflow(p) > 0)
    <2>1. refill(p) = p
      BY <1>8 DEF refill
    <2> QED
      BY <2>1, <1>1, <1>2, <1>6, <1>8 DEF BucketWithin, burst
  <1> QED
    BY <1>7, <1>8

LEMMA SpentWithin ==
  ASSUME now \in Nat, NEW p \in Pairs, NEW level \in Int, NEW n \in Nat,
         BucketWithin(p, [level |-> level, at |-> now])
  PROVE  BucketWithin(Deduct(p, n), [level |-> level - n * Minute, at |-> now])
  <1>1. /\ Minute \in Nat \ {0} /\ p.capacity \in Nat /\ p.tokens \in Int
        /\ p.last_update \in Nat /\ AtLeastOne(p.capacity) \in Nat
    BY LimiterAssumption DEF Pairs, AtLeastOne
  <1>2. (p.tokens - n) * Minute = p.tokens * Minute - n * Minute
    BY <1>1, SMT
  <1>3. /\ Deduct(p, n).tokens = p.tokens - n /\ Deduct(p, n).capacity = p.capacity
        /\ Deduct(p, n).last_update = p.last_update
    BY DEF Deduct, Pairs
  <1> DEFINE owed == (now - p.last_update) * p.capacity
             spent == n * Minute
             held == p.tokens * Minute
  <1>4. owed \in Int /\ spent \in Nat /\ held \in Int
    BY <1>1
  <1>5. p.last_update <= now /\ p.tokens <= AtLeastOne(p.capacity) /\ held + owed < level + Minute
    BY DEF BucketWithin
  <1>6. held - spent + owed < level - spent + Minute
    <2> HIDE DEF owed, spent, held
    <2> QED
      BY <1>1, <1>4, <1>5
  <1> QED
    BY <1>1, <1>2, <1>3, <1>5, <1>6 DEF BucketWithin

-----------------------------------------------------------------------------
(* What the steps do to the store. *)

Ideals == [level : Int, at : Nat]

StoreOK ==
  /\ now \in Nat
  /\ limiter \in 0..Len(pairs)
  /\ pairs \in Seq(Pairs) /\ ideal \in Seq(Ideals)
  /\ Len(ideal) = Len(pairs)
  /\ BucketsWithin

RequestsOK ==
  /\ limits \in [rpm : Nat, tpm : Nat]
  /\ pc \in [Request -> Points]
  /\ call \in [Request -> Calls]
  /\ admitted_at \in [Request -> Nat \cup {None}]
  /\ admitted_by \in [Request -> Nat]
  /\ \A r \in Request : pc[r] \in {"rpm_check", "tpm_check", "consume"} =>
                          call[r].pair \in 1..Len(pairs)

LEMMA RefillInvParts == RefillInv <=> StoreOK /\ RequestsOK
  BY DEF RefillInv, HTypeOK, TypeOK, StoreOK, RequestsOK, Ideals

(* get_or_create, with the history of the pair it may add.                  *)
LEMMA GrowStep ==
  ASSUME StoreOK, NEW rpm \in Nat, NEW tpm \in Nat, now' = now,
         get_or_create(rpm, tpm), Extend(tpm)
  PROVE  StoreOK' /\ Len(pairs) <= Len(pairs') /\ Got \in 1..Len(pairs')
  <1>1. CASE limiter = Absent
    <2> DEFINE new == NewPair(rpm, tpm)
               bucket == [level |-> AtLeastOne(tpm) * Minute, at |-> now]
    <2>1. new \in Pairs /\ bucket \in Ideals
      <3>1. new \in Pairs
        BY NewPairType DEF StoreOK
      <3>2. AtLeastOne(tpm) * Minute \in Int
        BY LimiterAssumption DEF AtLeastOne
      <3> QED
        BY <3>1, <3>2 DEF StoreOK, Ideals
    <2>2. BucketWithin(new, bucket)
      BY NewBucketWithin DEF StoreOK
    <2> HIDE DEF new, bucket
    <2>3. /\ pairs' = Append(pairs, new) /\ ideal' = Append(ideal, bucket)
          /\ limiter' = Len(pairs) + 1
      BY <1>1 DEF get_or_create, Extend, Got, new, bucket
    <2>4. /\ pairs' \in Seq(Pairs) /\ ideal' \in Seq(Ideals)
          /\ Len(pairs') = Len(pairs) + 1 /\ Len(ideal') = Len(pairs) + 1
          /\ Len(pairs) \in Nat
      BY <2>1, <2>3 DEF StoreOK
    <2>5. ASSUME NEW i \in 1..Len(pairs') PROVE BucketWithin(pairs[i], ideal[i])'
      <3>1. CASE i \in 1..Len(pairs)
        <4>1. pairs'[i] = pairs[i] /\ ideal'[i] = ideal[i]
          BY <2>3, <3>1 DEF StoreOK
        <4>2. BucketWithin(pairs[i], ideal[i])
          BY <3>1 DEF StoreOK, BucketsWithin
        <4> QED
          BY <4>1, <4>2 DEF BucketWithin
      <3>2. CASE i = Len(pairs) + 1
        <4>1. pairs'[i] = new /\ ideal'[i] = bucket
          BY <2>3, <3>2 DEF StoreOK
        <4> QED
          BY <4>1, <2>2 DEF BucketWithin
      <3> QED
        BY <3>1, <3>2, <2>4
    <2> QED
      BY <1>1, <2>3, <2>4, <2>5 DEF StoreOK, BucketsWithin, Got
  <1>2. CASE limiter # Absent
    <2>1. UNCHANGED <<pairs, ideal, limiter>>
      BY <1>2 DEF get_or_create, Extend, Got
    <2>2. Got \in 1..Len(pairs)
      BY <1>2 DEF Got, StoreOK, Absent
    <2> QED
      BY <2>1, <2>2 DEF StoreOK, BucketsWithin, BucketWithin
  <1> QED
    BY <1>1, <1>2

(* A pair and its bucket change in place.                                   *)
LEMMA ReplaceStep ==
  ASSUME StoreOK, NEW i \in 1..Len(pairs), NEW q \in Pairs, NEW b \in Ideals, now' = now,
         BucketWithin(q, b),
         pairs' = [pairs EXCEPT ![i] = q], ideal' = [ideal EXCEPT ![i] = b],
         limiter' = limiter
  PROVE  StoreOK' /\ Len(pairs') = Len(pairs)
  <1>1. /\ pairs' \in Seq(Pairs) /\ ideal' \in Seq(Ideals)
        /\ Len(pairs') = Len(pairs) /\ Len(ideal') = Len(pairs)
    BY DEF StoreOK
  <1>2. ASSUME NEW j \in 1..Len(pairs') PROVE BucketWithin(pairs[j], ideal[j])'
    <2>1. CASE j = i
      <3>1. pairs'[j] = q /\ ideal'[j] = b
        BY <2>1, <1>1 DEF StoreOK
      <3> QED
        BY <3>1 DEF BucketWithin
    <2>2. CASE j # i
      <3>1. pairs'[j] = pairs[j] /\ ideal'[j] = ideal[j]
        BY <2>2, <1>1 DEF StoreOK
      <3>2. BucketWithin(pairs[j], ideal[j])
        BY <1>1 DEF StoreOK, BucketsWithin
      <3> QED
        BY <3>1, <3>2 DEF BucketWithin
    <2> QED
      BY <2>1, <2>2
  <1> QED
    BY <1>1, <1>2 DEF StoreOK, BucketsWithin

(* touch, and the statistics' window, leave the bucket alone.               *)
LEMMA SameBucket ==
  ASSUME NEW p, NEW q, NEW b, BucketWithin(p, b),
         q.tokens = p.tokens, q.capacity = p.capacity, q.last_update = p.last_update
  PROVE  BucketWithin(q, b)
  BY DEF BucketWithin

(* A refill of pair i and a deduction of n tokens from it, or none.         *)
LEMMA SpendStep ==
  ASSUME StoreOK, NEW i \in 1..Len(pairs), NEW n \in Nat, now' = now, limiter' = limiter,
         NEW q, q = Deduct(refill(pairs[i]), n) \/ (n = 0 /\ q = refill(pairs[i])),
         pairs' = [pairs EXCEPT ![i] = touch(q)], Spend(i, n)
  PROVE  StoreOK' /\ Len(pairs') = Len(pairs)
  <1> DEFINE p == pairs[i]
             level == IdealNow(i)
             b == [level |-> level - n * Minute, at |-> now]
  <1>1. /\ now \in Nat /\ p \in Pairs /\ ideal[i] \in [level : Int, at : Nat]
        /\ BucketWithin(p, ideal[i])
    <2>1. now \in Nat /\ p \in Pairs /\ ideal[i] \in Ideals
      BY DEF StoreOK
    <2>2. BucketWithin(p, ideal[i])
      BY DEF StoreOK, BucketsWithin
    <2> QED
      BY <2>1, <2>2 DEF Ideals
  <1>2. p.last_update <= now /\ Minute \in Nat
    <2>1. p.last_update <= ideal[i].at /\ ideal[i].at <= now
      BY <1>1 DEF BucketWithin
    <2>2. p.last_update \in Nat /\ ideal[i].at \in Nat /\ Minute \in Nat
      BY <1>1, LimiterAssumption DEF Pairs
    <2> QED
      BY <2>1, <2>2, <1>1
  <1>3. level \in Int
    <2>1. /\ p.capacity \in Nat /\ ideal[i].level \in Int /\ ideal[i].at \in Nat
          /\ AtLeastOne(p.capacity) \in Nat
      BY <1>1 DEF Pairs, AtLeastOne
    <2>0. Burst(i) \in Int
      BY <2>1, <1>2 DEF Burst
    <2>2. (now - ideal[i].at) * p.capacity \in Int
      BY <2>1, <1>1
    <2> HIDE DEF p
    <2> QED
      BY <2>0, <2>1, <2>2 DEF IdealNow, AtMost, p
  <1>4. BucketWithin(refill(p), [level |-> level, at |-> now])
    <2>1. level = AtMost(ideal[i].level + (now - ideal[i].at) * p.capacity,
                         AtLeastOne(p.capacity) * Minute)
      BY DEF IdealNow, Burst
    <2> HIDE DEF level, p
    <2> QED
      BY <2>1, <1>1, <1>3, RefilledWithin
  <1>5. refill(p) \in Pairs
    BY <1>1, <1>2, RefillType
  <1> HIDE DEF level, p
  <1>6. q \in Pairs /\ BucketWithin(q, b)
    <2>1. CASE q = Deduct(refill(p), n)
      BY <2>1, <1>1, <1>3, <1>4, <1>5, DeductType, SpentWithin
    <2>2. CASE n = 0 /\ q = refill(p)
      <3>1. level - n * Minute = level
        BY <2>2, <1>2, <1>3
      <3> QED
        BY <3>1, <2>2, <1>4, <1>5
    <2> QED
      BY <2>1, <2>2 DEF p
  <1>7. touch(q) \in Pairs /\ BucketWithin(touch(q), b)
    <2>1. touch(q) \in Pairs
      BY <1>1, <1>6, TouchType
    <2>2. /\ touch(q).tokens = q.tokens /\ touch(q).capacity = q.capacity
          /\ touch(q).last_update = q.last_update
      BY <1>6 DEF touch, Pairs
    <2> QED
      BY <2>1, <2>2, <1>6, SameBucket
  <1>8. b \in Ideals
    BY <1>1, <1>2, <1>3 DEF Ideals
  <1>9. ideal' = [ideal EXCEPT ![i] = b]
    BY DEF Spend, level
  <1> HIDE DEF b
  <1> QED
    BY <1>7, <1>8, <1>9, ReplaceStep

(* An operation of the key's pair that leaves its bucket alone.             *)
LEMMA KeepStep ==
  ASSUME StoreOK, NEW i \in 1..Len(pairs), NEW q \in Pairs, now' = now, limiter' = limiter,
         q.tokens = pairs[i].tokens, q.capacity = pairs[i].capacity,
         q.last_update = pairs[i].last_update,
         pairs' = [pairs EXCEPT ![i] = q], UNCHANGED ideal
  PROVE  StoreOK' /\ Len(pairs') = Len(pairs)
  <1>1. ideal[i] \in Ideals /\ ideal' = [ideal EXCEPT ![i] = ideal[i]]
    BY DEF StoreOK
  <1>2. BucketWithin(pairs[i], ideal[i])
    BY DEF StoreOK, BucketsWithin
  <1>3. BucketWithin(q, ideal[i])
    BY <1>2, SameBucket
  <1> QED
    BY <1>1, <1>3, ReplaceStep

(* What the requests hold stays in range while the store only grows.        *)
Holding == {"rpm_check", "tpm_check", "consume"}

LEMMA HolderMoves ==
  ASSUME RequestsOK, Len(pairs) \in Nat, Len(pairs') = Len(pairs),
         NEW r \in Request, NEW point \in Points \ Holding,
         pc' = [pc EXCEPT ![r] = point], UNCHANGED <<limits, call, admitted_at, admitted_by>>
  PROVE  RequestsOK'
  BY DEF RequestsOK, Holding

LEMMA HolderTakes ==
  ASSUME RequestsOK, Len(pairs) \in Nat, Len(pairs') \in Nat, Len(pairs) <= Len(pairs'),
         NEW r \in Request, NEW point \in Points, NEW c \in Calls,
         pc' = [pc EXCEPT ![r] = point], call' = [call EXCEPT ![r] = c],
         UNCHANGED <<limits, admitted_at, admitted_by>>,
         point \notin Holding \/ c.pair \in 1..Len(pairs')
  PROVE  RequestsOK'
  BY DEF RequestsOK, Holding

LEMMA CallType ==
  ASSUME RequestsOK, NEW r \in Request
  PROVE  /\ call[r].rpm \in Nat /\ call[r].tpm \in Nat /\ call[r].used \in Nat
         /\ \A g \in Nat : /\ [call[r] EXCEPT !.pair = g] \in Calls
                           /\ [call[r] EXCEPT !.pair = g].pair = g
  BY DEF RequestsOK, Calls

LEMMA TpmsNowType ==
  ASSUME RequestsOK, NEW r \in Request, NEW tpm \in TpmsNow(r)
  PROVE  tpm \in Nat
  BY CallType DEF TpmsNow, RequestsOK

LEMMA StoreUnchanged ==
  ASSUME StoreOK, UNCHANGED <<now, limiter, pairs, ideal>>
  PROVE  StoreOK' /\ Len(pairs') = Len(pairs)
  BY DEF StoreOK, BucketsWithin, BucketWithin

LEMMA StepRefill ==
  ASSUME RefillInv, [HNext]_hvars
  PROVE  RefillInv'
  <1>0. StoreOK /\ RequestsOK /\ Len(pairs) \in Nat
    BY RefillInvParts DEF StoreOK
  <1> SUFFICES StoreOK' /\ RequestsOK'
    BY RefillInvParts, PTL
  <1>a. ASSUME StoreOK' PROVE Len(pairs') \in Nat
    BY <1>a DEF StoreOK
  <1>1. ASSUME NEW r \in Request, HBegin(r)
        PROVE  StoreOK' /\ RequestsOK'
    <2>1. UNCHANGED <<now, limits, limiter, pairs, ideal, admitted_at, admitted_by>>
      BY <1>1 DEF HBegin, Begin, historyVars
    <2>2. StoreOK' /\ Len(pairs') = Len(pairs)
      BY <2>1, <1>0, StoreUnchanged
    <2> DEFINE c == [call[r] EXCEPT !.rpm = limits.rpm, !.tpm = limits.tpm]
    <2>3. c \in Calls
      BY <1>0 DEF RequestsOK, Calls
    <2>4. pc' = [pc EXCEPT ![r] = "rpm"] /\ call' = [call EXCEPT ![r] = c]
      BY <1>1, <1>0 DEF HBegin, Begin, GoTo, RequestsOK
    <2>5. "rpm" \in Points /\ "rpm" \notin Holding
      BY DEF Points, Holding
    <2> HIDE DEF c
    <2>6. Len(pairs') \in Nat /\ Len(pairs) <= Len(pairs')
      BY <2>2, <1>0
    <2>7. RequestsOK'
      BY <2>1, <2>3, <2>4, <2>5, <2>6, <1>0, HolderTakes
    <2> QED
      BY <2>2, <2>7
  <1>2. ASSUME NEW r \in Request, HGetForRpm(r)
        PROVE  StoreOK' /\ RequestsOK'
    <2>1. CASE call[r].rpm > 0
      <3>1. /\ get_or_create(call[r].rpm, call[r].tpm) /\ Extend(call[r].tpm)
            /\ UNCHANGED <<now, limits, admitted_at, admitted_by>>
            /\ call' = [call EXCEPT ![r] = [call[r] EXCEPT !.pair = Got]]
            /\ pc' = [pc EXCEPT ![r] = "rpm_check"]
        BY <2>1, <1>2, <1>0 DEF HGetForRpm, GetForRpm, Take, GoTo, RequestsOK
      <3>2. StoreOK' /\ Len(pairs) <= Len(pairs') /\ Got \in 1..Len(pairs')
        BY <3>1, <1>0, CallType, GrowStep
      <3>3. Got \in Nat /\ "rpm_check" \in Points
        BY <3>2 DEF Points
      <3> QED
        BY <3>1, <3>2, <3>3, <1>0, <1>a, CallType, HolderTakes
    <2>2. CASE ~(call[r].rpm > 0)
      <3>1. /\ UNCHANGED <<now, limits, limiter, pairs, ideal, admitted_at, admitted_by, call>>
            /\ pc' = [pc EXCEPT ![r] = "tpm"]
        BY <2>2, <1>2 DEF HGetForRpm, GetForRpm, GoTo
      <3>2. StoreOK' /\ Len(pairs') = Len(pairs)
        BY <3>1, <1>0, StoreUnchanged
      <3>3. "tpm" \in Points /\ "tpm" \notin Holding
        BY DEF Points, Holding
      <3> QED
        BY <3>1, <3>2, <3>3, <1>0, HolderMoves
    <2> QED
      BY <2>1, <2>2
  <1>3. ASSUME NEW r \in Request, HCheckRpm(r)
        PROVE  StoreOK' /\ RequestsOK'
    <2> DEFINE i == call[r].pair
               q == touch(check_key(pairs[i]))
               point == IF PermitsNow(pairs[i]) THEN "tpm" ELSE "rpm_refused"
    <2>1. /\ pairs' = [pairs EXCEPT ![i] = q] /\ pc' = [pc EXCEPT ![r] = point]
          /\ UNCHANGED <<now, limits, limiter, call, ideal>>
          /\ pc[r] = "rpm_check"
      BY <1>3 DEF HCheckRpm, CheckRpm, Update, Held, GoTo
    <2>2. i \in 1..Len(pairs)
      BY <2>1, <1>0 DEF RequestsOK
    <2>3. pairs[i] \in Pairs /\ now \in Nat
      BY <2>2, <1>0 DEF StoreOK
    <2>4. q \in Pairs
      BY <2>3, CheckKeyType, TouchType
    <2>5. /\ q.tokens = pairs[i].tokens /\ q.capacity = pairs[i].capacity
          /\ q.last_update = pairs[i].last_update
      BY <2>3 DEF touch, check_key, Pairs
    <2>6. StoreOK' /\ Len(pairs') = Len(pairs)
      <3> HIDE DEF q, i
      <3> QED
        BY <2>1, <2>2, <2>4, <2>5, <1>0, KeepStep
    <2>7. admitted_at' \in [Request -> Nat \cup {None}] /\ admitted_by' \in [Request -> Nat]
      <3>1. i \in Nat
        BY <2>2, <1>0
      <3> HIDE DEF q
      <3>2. CASE PermitsNow(Held(r))
        BY <1>3, <2>3, <3>1, <3>2, <1>0 DEF HCheckRpm, RequestsOK
      <3>3. CASE ~PermitsNow(Held(r))
        BY <1>3, <3>3, <1>0 DEF HCheckRpm, RequestsOK
      <3> QED
        BY <3>2, <3>3
    <2>8. point \in Points /\ point \notin Holding
      BY DEF Points, Holding
    <2> HIDE DEF point, q, i
    <2>9. RequestsOK'
      BY <2>1, <2>6, <2>7, <2>8, <1>0 DEF RequestsOK, Holding
    <2> QED
      BY <2>6, <2>9
  <1>4. ASSUME NEW r \in Request, HGetForTpm(r)
        PROVE  StoreOK' /\ RequestsOK'
    <2>1. CASE call[r].tpm > 0
      <3>1. /\ get_or_create(call[r].rpm, call[r].tpm) /\ Extend(call[r].tpm)
            /\ UNCHANGED <<now, limits, admitted_at, admitted_by>>
            /\ call' = [call EXCEPT ![r] = [call[r] EXCEPT !.pair = Got]]
            /\ pc' = [pc EXCEPT ![r] = "tpm_check"]
        BY <2>1, <1>4, <1>0 DEF HGetForTpm, GetForTpm, Take, GoTo, RequestsOK
      <3>2. StoreOK' /\ Len(pairs) <= Len(pairs') /\ Got \in 1..Len(pairs')
        BY <3>1, <1>0, CallType, GrowStep
      <3>3. Got \in Nat /\ "tpm_check" \in Points
        BY <3>2 DEF Points
      <3> QED
        BY <3>1, <3>2, <3>3, <1>0, <1>a, CallType, HolderTakes
    <2>2. CASE ~(call[r].tpm > 0)
      <3>1. /\ UNCHANGED <<now, limits, limiter, pairs, ideal, admitted_at, admitted_by, call>>
            /\ pc' = [pc EXCEPT ![r] = "upstream"]
        BY <2>2, <1>4 DEF HGetForTpm, GetForTpm, GoTo
      <3>2. StoreOK' /\ Len(pairs') = Len(pairs)
        BY <3>1, <1>0, StoreUnchanged
      <3>3. "upstream" \in Points /\ "upstream" \notin Holding
        BY DEF Points, Holding
      <3> QED
        BY <3>1, <3>2, <3>3, <1>0, HolderMoves
    <2> QED
      BY <2>1, <2>2
  <1>5. ASSUME NEW r \in Request, HCheckTpm(r)
        PROVE  StoreOK' /\ RequestsOK'
    <2> DEFINE i == call[r].pair
               p == pairs[i]
               n == IF refill(p).tokens >= 1 THEN 1 ELSE 0
               q == check_n(p, 1)
               point == IF refill(p).tokens >= 1 THEN "upstream" ELSE "tpm_refused"
    <2>1. /\ pairs' = [pairs EXCEPT ![i] = touch(q)] /\ pc' = [pc EXCEPT ![r] = point]
          /\ Spend(i, n) /\ UNCHANGED <<now, limits, limiter, call, admitted_at, admitted_by>>
          /\ pc[r] = "tpm_check"
      BY <1>5 DEF HCheckTpm, CheckTpm, Update, Held, GoTo
    <2>2. i \in 1..Len(pairs)
      BY <2>1, <1>0 DEF RequestsOK
    <2>3. n \in Nat /\ (q = Deduct(refill(p), n) \/ (n = 0 /\ q = refill(p)))
      BY DEF check_n
    <2>4. StoreOK' /\ Len(pairs') = Len(pairs)
      <3> HIDE DEF n, q, i
      <3> QED
        BY <2>1, <2>2, <2>3, <1>0, SpendStep
    <2>5. point \in Points /\ point \notin Holding
      BY DEF Points, Holding
    <2> HIDE DEF point, n, q, i
    <2> QED
      BY <2>1, <2>4, <2>5, <1>0, HolderMoves
  <1>6. ASSUME NEW r \in Request, NEW tpm \in TpmsNow(r), HAnswered(r, tpm)
        PROVE  StoreOK' /\ RequestsOK'
    <2>1. PICK n \in Usage :
            IF tpm > 0 /\ n > 0
            THEN /\ get_or_create(0, tpm)
                 /\ call' = [call EXCEPT ![r].pair = Got, ![r].used = n]
                 /\ GoTo(r, "consume")
            ELSE GoTo(r, "done") /\ UNCHANGED <<limiter, pairs, call>>
      BY <1>6 DEF HAnswered, Answered
    <2>2. UNCHANGED <<now, limits, admitted_at, admitted_by>> /\ n \in Nat
      BY <1>6, LimiterAssumption DEF HAnswered, Answered
    <2>3. CASE tpm > 0 /\ n > 0
      <3> DEFINE c == [call[r] EXCEPT !.pair = Got, !.used = n]
      <3>1. /\ get_or_create(0, tpm)
            /\ call' = [call EXCEPT ![r] = c]
            /\ pc' = [pc EXCEPT ![r] = "consume"]
        BY <2>1, <2>3, <1>0 DEF GoTo, RequestsOK
      <3>2. Extend(tpm)
        <4>1. pc'[r] = "consume"
          BY <3>1, <1>0 DEF RequestsOK
        <4> QED
          BY <4>1, <1>6 DEF HAnswered
      <3>3. StoreOK' /\ Len(pairs) <= Len(pairs') /\ Got \in 1..Len(pairs')
        BY <3>1, <3>2, <2>2, <1>0, TpmsNowType, GrowStep
      <3>4. Got \in Nat /\ "consume" \in Points
        BY <3>3 DEF Points
      <3>5. c \in Calls /\ c.pair = Got
        BY <3>4, <2>2, <1>0 DEF RequestsOK, Calls
      <3> HIDE DEF c
      <3> QED
        BY <3>1, <3>3, <3>4, <3>5, <2>2, <1>0, <1>a, CallType, HolderTakes
    <2>4. CASE ~(tpm > 0 /\ n > 0)
      <3>1. pc' = [pc EXCEPT ![r] = "done"] /\ UNCHANGED <<limiter, pairs, call>>
        BY <2>1, <2>4 DEF GoTo
      <3>2. UNCHANGED ideal
        <4>1. pc'[r] # "consume"
          BY <3>1, <1>0 DEF RequestsOK
        <4> QED
          BY <4>1, <1>6 DEF HAnswered
      <3>3. StoreOK' /\ Len(pairs') = Len(pairs)
        BY <3>1, <3>2, <2>2, <1>0, StoreUnchanged
      <3>4. "done" \in Points /\ "done" \notin Holding
        BY DEF Points, Holding
      <3> QED
        BY <3>1, <3>3, <3>4, <2>2, <1>0, HolderMoves
    <2> QED
      BY <2>3, <2>4
  <1>7. ASSUME NEW r \in Request, HConsume(r)
        PROVE  StoreOK' /\ RequestsOK'
    <2> DEFINE i == call[r].pair
               q == consume_n(pairs[i], call[r].used)
    <2>1. /\ pairs' = [pairs EXCEPT ![i] = touch(q)] /\ pc' = [pc EXCEPT ![r] = "done"]
          /\ Spend(i, call[r].used) /\ UNCHANGED <<now, limits, limiter, call, admitted_at, admitted_by>>
          /\ pc[r] = "consume"
      BY <1>7 DEF HConsume, Consume, Update, Held, GoTo
    <2>2. i \in 1..Len(pairs)
      BY <2>1, <1>0 DEF RequestsOK
    <2>3. call[r].used \in Nat /\ q = Deduct(refill(pairs[i]), call[r].used)
      BY <1>0, CallType DEF consume_n
    <2>4. StoreOK' /\ Len(pairs') = Len(pairs)
      <3> HIDE DEF q, i
      <3> QED
        BY <2>1, <2>2, <2>3, <1>0, SpendStep
    <2>5. "done" \in Points /\ "done" \notin Holding
      BY DEF Points, Holding
    <2> HIDE DEF q, i
    <2> QED
      BY <2>1, <2>4, <2>5, <1>0, HolderMoves
  <1>8. ASSUME HGetTpmState
        PROVE  StoreOK' /\ RequestsOK'
    <2>1. /\ UNCHANGED <<now, limits, pc, call, admitted_at, admitted_by>>
          /\ Extend(limits.tpm) /\ limiter' = Got
      BY <1>8 DEF HGetTpmState, GetTpmState
    <2>2. StoreOK' /\ Len(pairs) <= Len(pairs')
      <3>1. CASE limiter = Absent
        <4>1. get_or_create(0, limits.tpm)
          BY <3>1, <1>8 DEF HGetTpmState, GetTpmState, get_or_create
        <4>2. limits.tpm \in Nat
          BY <1>0 DEF RequestsOK
        <4> QED
          BY <4>1, <4>2, <2>1, <1>0, GrowStep
      <3>2. CASE limiter # Absent
        <4> DEFINE q == [pairs[limiter] EXCEPT !.window_start = now, !.window_consumed = 0]
        <4>1. limiter \in 1..Len(pairs)
          BY <3>2, <1>0 DEF StoreOK, Absent
        <4>2. pairs[limiter] \in Pairs /\ now \in Nat
          BY <4>1, <1>0 DEF StoreOK
        <4>3. /\ q \in Pairs /\ q.tokens = pairs[limiter].tokens
              /\ q.capacity = pairs[limiter].capacity
              /\ q.last_update = pairs[limiter].last_update
          BY <4>2 DEF Pairs
        <4>4. limiter' = limiter /\ UNCHANGED ideal
          BY <2>1, <3>2 DEF Got, Extend
        <4>5. pairs' = pairs \/ pairs' = [pairs EXCEPT ![limiter] = q]
          BY <1>8, <3>2, <4>1, <1>0 DEF HGetTpmState, GetTpmState, StoreOK
        <4> HIDE DEF q
        <4>6. CASE pairs' = pairs
          <5>1. UNCHANGED <<now, limiter, pairs, ideal>>
            BY <4>6, <4>4, <2>1
          <5> QED
            BY <5>1, <1>0, StoreUnchanged
        <4>7. CASE pairs' = [pairs EXCEPT ![limiter] = q]
          <5>1. now' = now
            BY <2>1
          <5>2. StoreOK' /\ Len(pairs') = Len(pairs)
            BY <5>1, <4>7, <4>1, <4>3, <4>4, <1>0, KeepStep
          <5> QED
            BY <5>2, <1>0
        <4> QED
          BY <4>5, <4>6, <4>7
      <3> QED
        BY <3>1, <3>2
    <2>3. Len(pairs') \in Nat
      BY <2>2, <1>a
    <2>4. RequestsOK'
      BY <2>1, <2>2, <2>3, <1>0 DEF RequestsOK
    <2> QED
      BY <2>2, <2>4
  <1>9. ASSUME HRest
        PROVE  StoreOK' /\ RequestsOK'
    <2>1. UNCHANGED <<pairs, pc, call, ideal, admitted_at, admitted_by>>
      BY <1>9 DEF HRest, Cleanup, Reload, Tick, historyVars
    <2>2. /\ now' \in Nat /\ now <= now'
          /\ limiter' \in 0..Len(pairs)
          /\ limits' \in [rpm : Nat, tpm : Nat]
      BY <1>9, <1>0, LimiterAssumption
      DEF HRest, Cleanup, Reload, Tick, StoreOK, RequestsOK, Absent
    <2>3. BucketsWithin'
      <3>1. ASSUME NEW i \in 1..Len(pairs) PROVE BucketWithin(pairs[i], ideal[i])'
        <4>1. BucketWithin(pairs[i], ideal[i])
          BY <1>0 DEF StoreOK, BucketsWithin
        <4>2. ideal[i] \in Ideals /\ now \in Nat
          BY <1>0 DEF StoreOK
        <4>3. ideal[i].at \in Nat
          BY <4>2 DEF Ideals
        <4> QED
          BY <4>1, <4>2, <4>3, <2>1, <2>2 DEF BucketWithin
      <3> QED
        BY <3>1, <2>1 DEF BucketsWithin
    <2> QED
      BY <2>1, <2>2, <2>3, <1>0 DEF StoreOK, RequestsOK
  <1>10. CASE UNCHANGED hvars
    BY <1>10, <1>0
    DEF hvars, vars, historyVars, StoreOK, RequestsOK, BucketsWithin, BucketWithin
  <1> QED
    BY <1>1, <1>2, <1>3, <1>4, <1>5, <1>6, <1>7, <1>8, <1>9, <1>10 DEF HNext

LEMMA RefillInvariant == HSpec => []RefillInv
  <1>1. HInit => RefillInv
    BY InitRefill
  <1>2. RefillInv /\ [HNext]_hvars => RefillInv'
    BY StepRefill
  <1> QED
    BY <1>1, <1>2, PTL DEF HSpec

-----------------------------------------------------------------------------
(* The store, its pairs and every request's clone of an Arc stay of their   *)
(* types; in particular a request only ever uses a pair that was created.   *)
THEOREM LimiterTypeCorrect == HSpec => []HTypeOK
  <1>1. RefillInv => HTypeOK
    BY DEF RefillInv
  <1> QED
    BY <1>1, RefillInvariant, PTL

(* README line 191: a bucket is never a whole token ahead of the linear     *)
(* refill, whatever its capacity and however its operations are spread.     *)
THEOREM RefillStaysBehind == HSpec => []RefillNeverAhead
  <1>1. RefillInv => RefillNeverAhead
    <2> SUFFICES ASSUME RefillInv, NEW i \in 1..Len(pairs)
                 PROVE  pairs[i].tokens * Minute < ideal[i].level + Minute
      BY DEF RefillNeverAhead
    <2> DEFINE p == pairs[i]
               b == ideal[i]
    <2>1. p \in Pairs /\ b \in Ideals /\ BucketWithin(p, b)
      BY RefillInvParts DEF StoreOK, BucketsWithin
    <2>2. /\ p.tokens \in Int /\ p.capacity \in Nat /\ p.last_update \in Nat
          /\ b.at \in Nat /\ b.level \in Int /\ Minute \in Nat
      BY <2>1, LimiterAssumption DEF Pairs, Ideals
    <2>3. /\ p.last_update <= b.at
          /\ p.tokens * Minute + (b.at - p.last_update) * p.capacity < b.level + Minute
      BY <2>1 DEF BucketWithin
    <2> HIDE DEF p, b
    <2>4. (b.at - p.last_update) * p.capacity >= 0 /\ p.tokens * Minute \in Int
      <3>1. b.at - p.last_update \in Nat
        BY <2>2, <2>3
      <3>2. 0 * p.capacity <= (b.at - p.last_update) * p.capacity /\ 0 * p.capacity = 0
        BY <3>1, <2>2, Monotone
      <3> QED
        BY <3>2, <2>2
    <2>5. p.tokens * Minute < b.level + Minute
      <3> DEFINE owed == (b.at - p.last_update) * p.capacity
                 held == p.tokens * Minute
      <3>1. owed \in Int /\ owed >= 0 /\ held \in Int /\ held + owed < b.level + Minute
        BY <2>2, <2>3, <2>4
      <3> HIDE DEF owed, held
      <3>2. held < b.level + Minute
        BY <3>1, <2>2
      <3> QED
        BY <3>2 DEF held
    <2> QED
      BY <2>5 DEF p, b
  <1> QED
    BY <1>1, RefillInvariant, PTL

-----------------------------------------------------------------------------
(* Admissions.  What the limiter for requests per minute keeps of them is  *)
(* one instant, free_at; the invariant ties it to the admissions from      *)
(* above and from below.                                                   *)

Later(a, b) == IF a > b THEN a ELSE b

Since(i, t) == AdmittedBy(i) \cap AdmittedSince(t)
Count(i, t) == Cardinality(Since(i, t))

Admitted == {q \in Request : admitted_at[q] # None}

\* Requests that have not passed the limit of requests.
Before == {"idle", "rpm", "rpm_check"}

AdmissionsOK ==
  /\ IsFiniteSet(Admitted)
  /\ \A r \in Request :
       /\ pc[r] \in Before => admitted_at[r] = None
       /\ admitted_at[r] # None => /\ admitted_at[r] <= now
                                   /\ admitted_by[r] \in 1..Len(pairs)

\* After k admissions since t the next is free k intervals later than it would
\* be had the bucket been full at t ...
FreeAtMost(f, q, interval, i) ==
  \A t \in Int : t <= now => f <= Later(t + q * interval, now) + Count(i, t) * interval

\* ... and no sooner than k intervals after t.
FreeAtLeast(f, interval, i) ==
  \A t \in Int : Count(i, t) > 0 => t + 1 + Count(i, t) * interval <= f

PairQuotaOK(p, i) ==
  /\ FreeAtMost(p.free_at, p.quota, Interval(p), i)
  /\ FreeAtLeast(p.free_at, Interval(p), i)

PairsQuotaOK == \A i \in 1..Len(pairs) : PairQuotaOK(pairs[i], i)

\* The requests a pair admitted in the minute that ended with the admission of r.
Window(r) == {q \in AdmittedBy(admitted_by[r]) \cap AdmittedSince(admitted_at[r] - Minute) :
                admitted_at[q] <= admitted_at[r]}

WindowOK(r) ==
  LET p == pairs[admitted_by[r]]
  IN  Cardinality(Window(r)) * Interval(p) < p.quota * Interval(p) + Minute

WindowsOK == \A r \in Request : admitted_at[r] # None => WindowOK(r)

QuotaInv == AdmissionsOK /\ PairsQuotaOK /\ WindowsOK

-----------------------------------------------------------------------------
(* The two kinds of steps, as the limiter for requests per minute sees     *)
(* them: one that admits a request, and all others.                        *)

SameLimit(p, q) == q.quota = p.quota /\ q.free_at = p.free_at

Quiet ==
  /\ now <= now'
  /\ UNCHANGED <<admitted_at, admitted_by>>
  /\ Len(pairs) <= Len(pairs')
  /\ \A i \in 1..Len(pairs) : SameLimit(pairs[i], pairs'[i])
  /\ \A i \in 1..Len(pairs') : i \notin 1..Len(pairs) => pairs'[i].free_at = now /\ now' = now

Admits(r) ==
  LET i == call[r].pair
      p == pairs[i]
  IN  /\ pc[r] = "rpm_check" /\ PermitsNow(p)
      /\ now' = now
      /\ Len(pairs') = Len(pairs)
      /\ \A j \in 1..Len(pairs) : j # i => SameLimit(pairs[j], pairs'[j])
      /\ pairs'[i].quota = p.quota
      /\ pairs'[i].free_at = Later(p.free_at, now) + Interval(p)
      /\ admitted_at' = [admitted_at EXCEPT ![r] = now]
      /\ admitted_by' = [admitted_by EXCEPT ![r] = i]

LEMMA GrowIsQuiet ==
  ASSUME StoreOK, NEW rpm \in Nat, NEW tpm \in Nat, get_or_create(rpm, tpm),
         UNCHANGED <<now, admitted_at, admitted_by>>
  PROVE  Quiet
<1>1. now \in Nat /\ pairs \in Seq(Pairs) /\ Len(pairs) \in Nat
  BY DEF StoreOK
<1>2. CASE limiter = Absent
  <2>1. pairs' = Append(pairs, NewPair(rpm, tpm))
    BY <1>2 DEF get_or_create
  <2>2. /\ Len(pairs') = Len(pairs) + 1
        /\ pairs'[Len(pairs) + 1] = NewPair(rpm, tpm)
        /\ \A i \in 1..Len(pairs) : pairs'[i] = pairs[i]
    BY <1>1, <2>1
  <2>3. \A i \in 1..Len(pairs') : i \notin 1..Len(pairs) => i = Len(pairs) + 1
    BY <1>1, <2>2
  <2>4. NewPair(rpm, tpm).free_at = now
    BY DEF NewPair
  <2>5. QED
    BY <1>1, <2>2, <2>3, <2>4 DEF Quiet, SameLimit
<1>3. CASE limiter # Absent
  <2>1. pairs' = pairs
    BY <1>3 DEF get_or_create
  <2>2. QED
    BY <1>1, <2>1 DEF Quiet, SameLimit
<1>4. QED
  BY <1>2, <1>3

LEMMA RestIsQuiet ==
  ASSUME StoreOK, UNCHANGED <<pairs, admitted_at, admitted_by>>, now <= now'
  PROVE  Quiet
<1>1. Len(pairs) \in Nat
  BY DEF StoreOK
<1>2. QED
  BY <1>1 DEF Quiet, SameLimit

\* A pair changes in place, and its limit of requests does not.
LEMMA ReplaceIsQuiet ==
  ASSUME StoreOK, NEW i \in 1..Len(pairs), NEW q, SameLimit(pairs[i], q),
         pairs' = [pairs EXCEPT ![i] = q],
         UNCHANGED <<now, admitted_at, admitted_by>>
  PROVE  Quiet
<1>1. pairs \in Seq(Pairs) /\ Len(pairs) \in Nat /\ now \in Nat
  BY DEF StoreOK
<1>2. /\ Len(pairs') = Len(pairs)
      /\ \A j \in 1..Len(pairs) : pairs'[j] = IF j = i THEN q ELSE pairs[j]
  BY <1>1
<1>3. \A j \in 1..Len(pairs) : SameLimit(pairs[j], pairs'[j])
  BY <1>2 DEF SameLimit
<1>4. QED
  BY <1>1, <1>2, <1>3 DEF Quiet

\* The bucket for tokens has nothing to do with it.
LEMMA TokensKeepLimit ==
  ASSUME NEW p \in Pairs, NEW n
  PROVE  /\ SameLimit(p, touch(p)) /\ SameLimit(p, touch(refill(p)))
         /\ SameLimit(p, touch(Deduct(refill(p), n)))
BY DEF SameLimit, refill, Deduct, touch, Pairs

LEMMA CheckRpmKind ==
  ASSUME RefillInv, NEW r \in Request, HCheckRpm(r)
  PROVE  Quiet \/ Admits(r)
<1> DEFINE i == call[r].pair
           p == pairs[i]
<1>1. /\ pc[r] = "rpm_check" /\ UNCHANGED now
      /\ pairs' = [pairs EXCEPT ![i] = touch(check_key(p))]
  BY DEF HCheckRpm, CheckRpm, Update, Held
<1>2. StoreOK /\ i \in 1..Len(pairs) /\ p \in Pairs /\ pairs \in Seq(Pairs)
  <2>1. StoreOK /\ i \in 1..Len(pairs)
    BY <1>1, RefillInvParts DEF RequestsOK
  <2>2. QED
    BY <2>1 DEF StoreOK
<1>3. CASE PermitsNow(p)
  <2> DEFINE free == (IF p.free_at > now THEN p.free_at ELSE now) + Interval(p)
  <2>1. check_key(p) = [p EXCEPT !.free_at = free]
    BY <1>2, <1>3 DEF check_key, Pairs
  <2> HIDE DEF free
  <2>2. /\ touch(check_key(p)).quota = p.quota
        /\ touch(check_key(p)).free_at = free
    BY <1>2, <2>1 DEF touch, Pairs
  <2>3. free = Later(p.free_at, now) + Interval(p)
    BY DEF free, Later
  <2>4. /\ Len(pairs') = Len(pairs)
        /\ pairs'[i] = touch(check_key(p))
        /\ \A j \in 1..Len(pairs) : j # i => pairs'[j] = pairs[j]
    BY <1>1, <1>2
  <2>5. /\ admitted_at' = [admitted_at EXCEPT ![r] = now]
        /\ admitted_by' = [admitted_by EXCEPT ![r] = i]
    BY <1>3 DEF HCheckRpm, Held
  <2>6. \A j \in 1..Len(pairs) : j # i => SameLimit(pairs[j], pairs'[j])
    BY <2>4 DEF SameLimit
  <2>7. QED
    BY <1>1, <1>3, <2>2, <2>3, <2>4, <2>5, <2>6 DEF Admits
<1>4. CASE ~PermitsNow(p)
  <2>1. check_key(p) = p
    BY <1>4 DEF check_key
  <2>2. pairs' = [pairs EXCEPT ![i] = touch(p)]
    BY <1>1, <2>1
  <2>3. UNCHANGED <<now, admitted_at, admitted_by>>
    BY <1>1, <1>4 DEF HCheckRpm, Held
  <2>4. SameLimit(p, touch(p))
    BY <1>2, TokensKeepLimit
  <2>5. QED
    BY <1>2, <2>2, <2>3, <2>4, ReplaceIsQuiet
<1>5. QED
  BY <1>3, <1>4

LEMMA StepKinds ==
  ASSUME RefillInv, [HNext]_hvars
  PROVE  Quiet \/ \E r \in Request : Admits(r) /\ HCheckRpm(r)
<1>1. StoreOK /\ RequestsOK /\ now \in Nat /\ pairs \in Seq(Pairs)
  BY RefillInvParts DEF StoreOK
<1>2. \A r \in Request : call[r].rpm \in Nat /\ call[r].tpm \in Nat /\ call[r].used \in Nat
  BY <1>1, CallType
<1>3. ASSUME NEW r \in Request, HBegin(r) PROVE Quiet
  BY <1>1, <1>3, RestIsQuiet DEF HBegin, Begin, historyVars
<1>4. ASSUME NEW r \in Request, HGetForRpm(r) \/ HGetForTpm(r) PROVE Quiet
  <2>1. UNCHANGED <<now, admitted_at, admitted_by>>
    BY <1>4 DEF HGetForRpm, HGetForTpm, GetForRpm, GetForTpm
  <2>2. get_or_create(call[r].rpm, call[r].tpm) \/ UNCHANGED pairs
    BY <1>4 DEF HGetForRpm, HGetForTpm, GetForRpm, GetForTpm, Take
  <2>3. QED
    BY <1>1, <1>2, <2>1, <2>2, GrowIsQuiet, RestIsQuiet
<1>5. ASSUME NEW r \in Request, HCheckTpm(r) \/ HConsume(r) PROVE Quiet
  <2> DEFINE i == call[r].pair
  <2>1. UNCHANGED <<now, admitted_at, admitted_by>>
    BY <1>5 DEF HCheckTpm, HConsume, CheckTpm, Consume
  <2>2. i \in 1..Len(pairs)
    BY <1>1, <1>5 DEF HCheckTpm, HConsume, CheckTpm, Consume, RequestsOK
  <2>3. \E q : pairs' = [pairs EXCEPT ![i] = q] /\ SameLimit(pairs[i], q)
    <3>1. pairs[i] \in Pairs
      BY <1>1, <2>2
    <3>2. \/ pairs' = [pairs EXCEPT ![i] = touch(refill(pairs[i]))]
          \/ \E n : pairs' = [pairs EXCEPT ![i] = touch(Deduct(refill(pairs[i]), n))]
      BY <1>5 DEF HCheckTpm, HConsume, CheckTpm, Consume, Update, Held, check_n, consume_n
    <3>3. QED
      BY <3>1, <3>2, TokensKeepLimit
  <2>4. QED
    BY <1>1, <2>1, <2>2, <2>3, ReplaceIsQuiet
<1>6. ASSUME NEW r \in Request, NEW tpm \in TpmsNow(r), HAnswered(r, tpm) PROVE Quiet
  <2>1. UNCHANGED <<now, admitted_at, admitted_by>>
    BY <1>6 DEF HAnswered, Answered
  <2>2. get_or_create(0, tpm) \/ UNCHANGED pairs
    <3>1. \E n \in Usage :
            IF tpm > 0 /\ n > 0
            THEN /\ get_or_create(0, tpm)
                 /\ call' = [call EXCEPT ![r].pair = Got, ![r].used = n]
                 /\ GoTo(r, "consume")
            ELSE GoTo(r, "done") /\ UNCHANGED <<limiter, pairs, call>>
      BY <1>6 DEF HAnswered, Answered
    <3>2. QED
      BY <3>1
  <2>3. CASE get_or_create(0, tpm)
    BY <1>1, <2>1, <2>3, TpmsNowType, GrowIsQuiet
  <2>4. CASE UNCHANGED pairs
    BY <1>1, <2>1, <2>4, RestIsQuiet
  <2>5. QED
    BY <2>2, <2>3, <2>4
<1>7. ASSUME HGetTpmState PROVE Quiet
  <2>1. UNCHANGED <<now, admitted_at, admitted_by>>
    BY <1>7 DEF HGetTpmState, GetTpmState
  <2>2. CASE limiter = Absent
    <3>1. get_or_create(0, limits.tpm)
      BY <1>7, <2>2 DEF HGetTpmState, GetTpmState, get_or_create
    <3>2. limits.tpm \in Nat
      BY <1>1 DEF RequestsOK
    <3>3. QED
      BY <1>1, <2>1, <3>1, <3>2, GrowIsQuiet
  <2>3. CASE limiter # Absent
    <3> DEFINE q == [pairs[limiter] EXCEPT !.window_start = now, !.window_consumed = 0]
    <3>1. limiter \in 1..Len(pairs) /\ pairs[limiter] \in Pairs
      BY <1>1, <2>3 DEF StoreOK, Absent
    <3>2. pairs' = pairs \/ pairs' = [pairs EXCEPT ![limiter] = q]
      BY <1>1, <1>7, <2>3, <3>1 DEF HGetTpmState, GetTpmState
    <3>3. SameLimit(pairs[limiter], q)
      BY <3>1 DEF SameLimit, Pairs
    <3> HIDE DEF q
    <3>4. QED
      BY <1>1, <2>1, <3>1, <3>2, <3>3, ReplaceIsQuiet, RestIsQuiet
  <2>4. QED
    BY <2>2, <2>3
<1>8. ASSUME HRest PROVE Quiet
  <2>1. UNCHANGED <<pairs, admitted_at, admitted_by>> /\ now <= now'
    BY <1>1, <1>8, LimiterAssumption DEF HRest, Cleanup, Reload, Tick, historyVars
  <2>2. QED
    BY <1>1, <2>1, RestIsQuiet
<1>9. CASE UNCHANGED hvars
  BY <1>1, <1>9, RestIsQuiet DEF hvars, vars, historyVars
<1>10. QED
  BY <1>3, <1>4, <1>5, <1>6, <1>7, <1>8, <1>9, CheckRpmKind DEF HNext

-----------------------------------------------------------------------------
(* Counting admissions.                                                    *)

LEMMA CountIsANumber ==
  ASSUME IsFiniteSet(Admitted), NEW i, NEW t
  PROVE  IsFiniteSet(Since(i, t)) /\ Count(i, t) \in Nat
<1>1. Since(i, t) \subseteq Admitted
  BY DEF Since, AdmittedBy, AdmittedSince, Admitted
<1>2. QED
  BY <1>1, FS_Subset, FS_CardinalityType DEF Count

LEMMA QuietCounts ==
  ASSUME UNCHANGED <<admitted_at, admitted_by>>
  PROVE  /\ Admitted' = Admitted
         /\ \A i, t : Since(i, t)' = Since(i, t) /\ Count(i, t)' = Count(i, t)
BY DEF Since, Count, AdmittedBy, AdmittedSince, Admitted

LEMMA AdmissionCounts ==
  ASSUME RequestsOK, IsFiniteSet(Admitted), now \in Nat, NEW r \in Request,
         admitted_at[r] = None, NEW i \in Nat,
         admitted_at' = [admitted_at EXCEPT ![r] = now],
         admitted_by' = [admitted_by EXCEPT ![r] = i]
  PROVE  /\ IsFiniteSet(Admitted')
         /\ \A t \in Int : Count(i, t)' = IF t < now THEN Count(i, t) + 1 ELSE Count(i, t)
         /\ \A j, t : j # i => Count(j, t)' = Count(j, t)
<1>1. /\ admitted_at \in [Request -> Nat \cup {None}] /\ admitted_by \in [Request -> Nat]
      /\ now # None
  BY DEF RequestsOK, None
<1>2. /\ admitted_at'[r] = now /\ admitted_by'[r] = i
      /\ \A s \in Request : s # r => /\ admitted_at'[s] = admitted_at[s]
                                     /\ admitted_by'[s] = admitted_by[s]
  BY <1>1
<1>3. IsFiniteSet(Admitted')
  <2>1. Admitted' = Admitted \cup {r}
    BY <1>1, <1>2 DEF Admitted
  <2>2. QED
    BY <2>1, FS_AddElement
<1>4. ASSUME NEW t \in Int
      PROVE  Count(i, t)' = IF t < now THEN Count(i, t) + 1 ELSE Count(i, t)
  <2>1. r \notin Since(i, t)
    BY DEF Since, AdmittedSince
  <2>2. Since(i, t)' = IF t < now THEN Since(i, t) \cup {r} ELSE Since(i, t)
    <3>1. \A s \in Request : s # r => (s \in Since(i, t)' <=> s \in Since(i, t))
      BY <1>1, <1>2 DEF Since, AdmittedSince, AdmittedBy
    <3>2. r \in Since(i, t)' <=> t < now
      BY <1>1, <1>2 DEF Since, AdmittedSince, AdmittedBy
    <3>3. Since(i, t) \subseteq Request /\ Since(i, t)' \subseteq Request
      BY DEF Since, AdmittedBy
    <3>4. QED
      BY <2>1, <3>1, <3>2, <3>3
  <2>3. IsFiniteSet(Since(i, t))
    BY CountIsANumber
  <2>4. QED
    BY <2>1, <2>2, <2>3, FS_AddElement DEF Count
<1>5. ASSUME NEW j, NEW t, j # i
      PROVE  Count(j, t)' = Count(j, t)
  <2>1. Since(j, t)' = Since(j, t)
    BY <1>1, <1>2, <1>5 DEF Since, AdmittedSince, AdmittedBy
  <2>2. QED
    BY <2>1 DEF Count
<1>6. QED
  BY <1>3, <1>4, <1>5

-----------------------------------------------------------------------------
(* The instant free_at, between the admissions' bounds.                    *)

LEMMA IntervalFits ==
  ASSUME NEW p \in Pairs
  PROVE  /\ p.quota \in Nat \ {0} /\ p.free_at \in Nat /\ Interval(p) \in Nat
         /\ p.quota * Interval(p) <= Minute /\ p.quota * Interval(p) \in Nat
<1>1. p.quota \in Nat \ {0} /\ p.free_at \in Nat /\ Minute \in Nat
  BY LimiterAssumption DEF Pairs
<1>2. Interval(p) \in Nat /\ Interval(p) * p.quota <= Minute
  BY <1>1, DivBounds DEF Interval
<1>3. p.quota * Interval(p) = Interval(p) * p.quota /\ p.quota * Interval(p) \in Nat
  BY <1>1, <1>2
<1>4. QED
  BY <1>1, <1>2, <1>3

\* A permit moves free_at one interval on; what is permitted fits the quota.
Permit(q, interval, clock, f, g) ==
  g = Later(f, clock) + interval /\ f <= clock + (q - 1) * interval

LEMMA PermitArithmetic ==
  ASSUME NEW q \in Nat \ {0}, NEW interval \in Nat, NEW clock \in Nat, NEW f \in Nat,
         NEW g, Permit(q, interval, clock, f, g), NEW n \in Nat, NEW t \in Int
  PROVE  /\ g \in Nat /\ g <= clock + q * interval
         /\ t < clock /\ f <= Later(t + q * interval, clock) + n * interval =>
              g <= Later(t + q * interval, clock) + (n + 1) * interval
         /\ t < clock /\ (n > 0 => t + 1 + n * interval <= f) =>
              t + 1 + (n + 1) * interval <= g
<1> DEFINE room == q * interval
           used == n * interval
<1>0. g = Later(f, clock) + interval /\ f <= clock + (q - 1) * interval
  BY DEF Permit
<1>1. room \in Nat /\ used \in Nat
  BY SMT
<1>2. (q - 1) * interval = room - interval
  <2>1. (q + (-1)) * interval = q * interval + (-1) * interval
    BY Distribute
  <2>2. q - 1 = q + (-1) /\ (-1) * interval = -interval
    OBVIOUS
  <2>3. QED
    BY <2>1, <2>2
<1>3. (n + 1) * interval = used + interval
  <2>1. (n + 1) * interval = n * interval + 1 * interval
    BY Distribute
  <2>2. QED
    BY <2>1
<1>4. n = 0 => used = 0
  OBVIOUS
<1> HIDE DEF room, used
<1>5. g \in Nat /\ g <= clock + room
  BY <1>0, <1>1, <1>2 DEF Later
<1>6. ASSUME t < clock, f <= Later(t + room, clock) + used
      PROVE  g <= Later(t + room, clock) + (used + interval)
  BY <1>0, <1>1, <1>6 DEF Later
<1>7. ASSUME t < clock, n > 0 => t + 1 + used <= f
      PROVE  t + 1 + (used + interval) <= g
  BY <1>0, <1>1, <1>4, <1>7 DEF Later
<1>8. QED
  BY <1>3, <1>5, <1>6, <1>7 DEF room, used

LEMMA QuietPair ==
  ASSUME RefillInv, QuotaInv, Quiet, RefillInv', NEW i \in 1..Len(pairs')
  PROVE  PairQuotaOK(pairs[i], i)'
<1>1. /\ now \in Nat /\ now' \in Nat /\ now <= now' /\ IsFiniteSet(Admitted)
      /\ Len(pairs) \in Nat /\ pairs \in Seq(Pairs) /\ pairs' \in Seq(Pairs)
  BY RefillInvParts DEF RefillInv, HTypeOK, TypeOK, QuotaInv, AdmissionsOK, Quiet
<1>2. \A t : Count(i, t)' = Count(i, t) /\ Count(i, t) \in Nat
  BY <1>1, QuietCounts, CountIsANumber DEF Quiet
<1>3. \A t \in Int : t >= now => Count(i, t) = 0
  <2>1. \A t \in Int : t >= now => Since(i, t) = {}
    BY <1>1, RefillInvParts DEF Since, AdmittedSince, AdmittedBy, QuotaInv, AdmissionsOK, RequestsOK, None
  <2>2. QED
    BY <2>1, FS_EmptySet DEF Count
<1> DEFINE p == pairs'[i]
<1>4. p \in Pairs /\ Interval(pairs[i])' = Interval(p)
  BY <1>1 DEF Interval
<1>5. /\ p.quota * Interval(p) \in Nat /\ Interval(p) \in Nat /\ p.free_at \in Nat
  BY <1>4, IntervalFits
<1>6. CASE i \in 1..Len(pairs)
  <2>1. p.quota = pairs[i].quota /\ p.free_at = pairs[i].free_at
    BY <1>6 DEF Quiet, SameLimit
  <2>2. Interval(p) = Interval(pairs[i])
    BY <2>1 DEF Interval
  <2>3. /\ FreeAtMost(p.free_at, p.quota, Interval(p), i)
        /\ FreeAtLeast(p.free_at, Interval(p), i)
    BY <1>6, <2>1, <2>2 DEF QuotaInv, PairsQuotaOK, PairQuotaOK
  <2> DEFINE room == p.quota * Interval(p)
  <2> HIDE DEF p
  <2>4. ASSUME NEW t \in Int, t <= now'
        PROVE  p.free_at <= Later(t + p.quota * Interval(p), now') + Count(i, t) * Interval(p)
    <3>1. CASE t <= now
      <4>1. p.free_at <= Later(t + room, now) + Count(i, t) * Interval(p)
        BY <2>3, <3>1 DEF FreeAtMost
      <4>2. Later(t + room, now) <= Later(t + room, now') /\ Later(t + room, now) \in Int
            /\ Later(t + room, now') \in Int
        BY <1>1, <1>5 DEF Later
      <4>3. Count(i, t) * Interval(p) \in Int
        BY <1>2, <1>5
      <4> HIDE DEF room
      <4>4. p.free_at <= Later(t + room, now') + Count(i, t) * Interval(p)
        BY <1>5, <4>1, <4>2, <4>3
      <4>5. QED
        BY <4>4 DEF room
    <3>2. CASE t > now
      <4>1. Count(i, t) = 0 /\ Count(i, now) = 0
        BY <1>1, <1>3, <3>2
      <4>2. p.free_at <= Later(now + room, now) + Count(i, now) * Interval(p)
        BY <1>1, <2>3 DEF FreeAtMost
      <4>3. p.free_at <= Later(now + room, now) /\ p.free_at \in Nat
        BY <1>1, <1>5, <4>1, <4>2 DEF Later
      <4>4. room \in Nat
        BY <1>5
      <4> HIDE DEF room
      <4>5. p.free_at <= Later(t + room, now')
        BY <1>1, <3>2, <4>3, <4>4 DEF Later
      <4>6. Later(t + room, now') \in Int /\ Count(i, t) * Interval(p) = 0
        BY <1>1, <1>5, <4>1, <4>4 DEF Later
      <4>7. p.free_at <= Later(t + room, now') + Count(i, t) * Interval(p)
        BY <4>3, <4>5, <4>6
      <4>8. QED
        BY <4>7 DEF room
    <3>3. QED
      BY <1>1, <3>1, <3>2
  <2>5. FreeAtMost(pairs[i].free_at, pairs[i].quota, Interval(pairs[i]), i)'
    BY <1>2, <1>4, <2>4 DEF FreeAtMost, p
  <2>6. FreeAtLeast(pairs[i].free_at, Interval(pairs[i]), i)'
    BY <1>2, <1>4, <2>3 DEF FreeAtLeast, p
  <2>7. QED
    BY <2>5, <2>6 DEF PairQuotaOK
<1>7. CASE i \notin 1..Len(pairs)
  <2>1. p.free_at = now /\ now' = now
    BY <1>7 DEF Quiet
  <2>2. \A t : Count(i, t) = 0
    <3>1. \A t : Since(i, t) = {}
      BY <1>7 DEF Since, AdmittedSince, AdmittedBy, QuotaInv, AdmissionsOK
    <3>2. QED
      BY <3>1, FS_EmptySet DEF Count
  <2>3. \A t \in Int : p.free_at <= Later(t + p.quota * Interval(p), now')
                                     + Count(i, t) * Interval(p)
    <3> DEFINE room == p.quota * Interval(p)
    <3>1. room \in Nat
      BY <1>5
    <3>2. \A t \in Int : Count(i, t) * Interval(p) = 0
      BY <1>5, <2>2
    <3> HIDE DEF room, p
    <3>3. \A t \in Int : p.free_at <= Later(t + room, now') + Count(i, t) * Interval(p)
      BY <1>1, <2>1, <3>1, <3>2 DEF Later
    <3>4. QED
      BY <3>3 DEF room
  <2>4. FreeAtMost(pairs[i].free_at, pairs[i].quota, Interval(pairs[i]), i)'
    BY <1>2, <1>4, <2>3 DEF FreeAtMost
  <2>5. FreeAtLeast(pairs[i].free_at, Interval(pairs[i]), i)'
    BY <1>2, <1>4, <2>2 DEF FreeAtLeast
  <2>6. QED
    BY <2>4, <2>5 DEF PairQuotaOK
<1>8. QED
  BY <1>6, <1>7

LEMMA AdmittingPair ==
  ASSUME RefillInv, QuotaInv, NEW r \in Request, Admits(r), RefillInv', NEW i \in 1..Len(pairs')
  PROVE  /\ PairQuotaOK(pairs[i], i)'
         /\ i = call[r].pair => pairs'[i].free_at <= now + pairs[i].quota * Interval(pairs[i])
<1>1. /\ now \in Nat /\ now' = now /\ IsFiniteSet(Admitted) /\ RequestsOK
      /\ pairs \in Seq(Pairs) /\ i \in 1..Len(pairs) /\ i \in Nat /\ admitted_at[r] = None
  <2>1. RequestsOK /\ now \in Nat /\ pairs \in Seq(Pairs) /\ Len(pairs) \in Nat
    BY RefillInvParts DEF StoreOK
  <2>2. /\ now' = now /\ Len(pairs') = Len(pairs) /\ pc[r] = "rpm_check"
        /\ IsFiniteSet(Admitted) /\ (pc[r] \in Before => admitted_at[r] = None)
    BY DEF Admits, QuotaInv, AdmissionsOK
  <2>3. QED
    BY <2>1, <2>2 DEF Before
<1> DEFINE p == pairs[i]
           interval == Interval(p)
           g == pairs'[i].free_at
<1>2. p \in Pairs /\ PairQuotaOK(p, i)
  BY <1>1 DEF QuotaInv, PairsQuotaOK
<1>3. /\ p.quota \in Nat \ {0} /\ p.free_at \in Nat /\ interval \in Nat
      /\ p.quota * interval \in Nat
  BY <1>2, IntervalFits
<1>4. pairs'[i].quota = p.quota /\ Interval(pairs[i])' = interval
  BY <1>1 DEF Admits, SameLimit, Interval
<1>5. \A t : Count(i, t) \in Nat
  BY <1>1, CountIsANumber
<1>6. FreeAtMost(p.free_at, p.quota, interval, i) /\ FreeAtLeast(p.free_at, interval, i)
  BY <1>2 DEF PairQuotaOK
<1>7. CASE i # call[r].pair
  <2>1. g = p.free_at
    BY <1>1, <1>7 DEF Admits, SameLimit
  <2>2. \A t : Count(i, t)' = Count(i, t)
    <3> DEFINE k == call[r].pair
    <3>1. /\ admitted_at' = [admitted_at EXCEPT ![r] = now]
          /\ admitted_by' = [admitted_by EXCEPT ![r] = k] /\ i # k /\ k \in Nat
      BY <1>1, <1>7 DEF Admits, RequestsOK, Calls
    <3> HIDE DEF k
    <3>2. \A j, t : j # k => Count(j, t)' = Count(j, t)
      BY <1>1, <3>1, AdmissionCounts
    <3>3. QED
      BY <3>1, <3>2
  <2>3. FreeAtMost(pairs[i].free_at, pairs[i].quota, Interval(pairs[i]), i)'
    BY <1>1, <1>4, <1>6, <2>1, <2>2 DEF FreeAtMost
  <2>4. FreeAtLeast(pairs[i].free_at, Interval(pairs[i]), i)'
    BY <1>4, <1>6, <2>1, <2>2 DEF FreeAtLeast
  <2>5. QED
    BY <1>7, <2>3, <2>4 DEF PairQuotaOK
<1>8. CASE i = call[r].pair
  <2>1. g = Later(p.free_at, now) + interval /\ p.free_at <= now + (p.quota - 1) * interval
    BY <1>8 DEF Admits, PermitsNow
  <2>2. \A t \in Int : Count(i, t)' = IF t < now THEN Count(i, t) + 1 ELSE Count(i, t)
    <3>1. /\ admitted_at' = [admitted_at EXCEPT ![r] = now]
          /\ admitted_by' = [admitted_by EXCEPT ![r] = i]
      BY <1>8 DEF Admits
    <3>2. QED
      BY <1>1, <3>1, AdmissionCounts
  <2>3. \A t \in Int : t >= now => Count(i, t) = 0
    <3>1. \A t \in Int : t >= now => Since(i, t) = {}
      BY <1>1 DEF Since, AdmittedSince, AdmittedBy, QuotaInv, AdmissionsOK, RequestsOK, None
    <3>2. QED
      BY <3>1, FS_EmptySet DEF Count
  <2> HIDE DEF p, interval, g
  <2>4. ASSUME NEW t \in Int
        PROVE  /\ g \in Nat /\ g <= now + p.quota * interval
               /\ t < now /\ p.free_at <= Later(t + p.quota * interval, now) + Count(i, t) * interval =>
                    g <= Later(t + p.quota * interval, now) + (Count(i, t) + 1) * interval
               /\ t < now /\ (Count(i, t) > 0 => t + 1 + Count(i, t) * interval <= p.free_at) =>
                    t + 1 + (Count(i, t) + 1) * interval <= g
    <3>1. Permit(p.quota, interval, now, p.free_at, g)
      BY <2>1 DEF Permit
    <3>2. QED
      BY <1>1, <1>3, <1>5, <3>1, PermitArithmetic
  <2>5. g \in Nat /\ g <= now + p.quota * interval
    BY <1>1, <2>4
  <2>6. \A t \in Int : t <= now =>
          g <= Later(t + p.quota * interval, now) + Count(i, t)' * interval
    <3> SUFFICES ASSUME NEW t \in Int, t <= now
                 PROVE  g <= Later(t + p.quota * interval, now) + Count(i, t)' * interval
      OBVIOUS
    <3>1. CASE t < now
      <4>1. Count(i, t)' = Count(i, t) + 1
        BY <2>2, <3>1
      <4>2. p.free_at <= Later(t + p.quota * interval, now) + Count(i, t) * interval
        BY <1>6, <3>1 DEF FreeAtMost
      <4>3. QED
        BY <2>4, <3>1, <4>1, <4>2
    <3>2. CASE t = now
      <4>1. Count(i, t)' = 0
        BY <1>1, <2>2, <2>3, <3>2
      <4>2. Count(i, t)' * interval = 0
        BY <1>3, <4>1
      <4> DEFINE room == p.quota * interval
      <4>3. room \in Nat /\ g <= now + room
        BY <1>3, <2>5
      <4> HIDE DEF room
      <4>4. g <= Later(t + room, now) + 0
        BY <1>1, <2>5, <3>2, <4>3 DEF Later
      <4>5. QED
        BY <4>2, <4>4 DEF room
    <3>3. QED
      BY <1>1, <3>1, <3>2
  <2>7. \A t \in Int : Count(i, t)' > 0 => t + 1 + Count(i, t)' * interval <= g
    <3> SUFFICES ASSUME NEW t \in Int, Count(i, t)' > 0
                 PROVE  t + 1 + Count(i, t)' * interval <= g
      OBVIOUS
    <3>1. t < now /\ Count(i, t)' = Count(i, t) + 1
      BY <1>1, <2>2, <2>3
    <3>2. Count(i, t) > 0 => t + 1 + Count(i, t) * interval <= p.free_at
      BY <1>6 DEF FreeAtLeast
    <3>3. QED
      BY <2>4, <3>1, <3>2
  <2>8. FreeAtMost(pairs[i].free_at, pairs[i].quota, Interval(pairs[i]), i)'
    BY <1>1, <1>4, <2>6 DEF FreeAtMost, g
  <2>9. FreeAtLeast(pairs[i].free_at, Interval(pairs[i]), i)'
    BY <1>4, <2>7 DEF FreeAtLeast, g
  <2>10. QED
    BY <2>5, <2>8, <2>9 DEF PairQuotaOK, g, p, interval
<1>9. QED
  BY <1>7, <1>8

-----------------------------------------------------------------------------
(* The steps, and the invariant.                                           *)

LEMMA BeforeStays ==
  ASSUME RequestsOK, [HNext]_hvars, NEW r \in Request, pc'[r] \in Before
  PROVE  pc[r] \in Before /\ ~HCheckRpm(r)
<1>1. pc \in [Request -> Points]
  BY DEF RequestsOK
<1>2. ASSUME NEW s \in Request, NEW point, pc' = [pc EXCEPT ![s] = point],
             point \notin Before \/ pc[s] \in Before
      PROVE  pc[r] \in Before
  BY <1>1, <1>2
<1>3. ASSUME NEW s \in Request, HBegin(s) PROVE pc[r] \in Before
  BY <1>2, <1>3 DEF HBegin, Begin, GoTo, Before
<1>4. ASSUME NEW s \in Request, HGetForRpm(s) PROVE pc[r] \in Before
  <2>1. pc[s] \in Before /\ \E point : pc' = [pc EXCEPT ![s] = point]
    BY <1>4 DEF HGetForRpm, GetForRpm, Take, GoTo, Before
  <2>2. QED
    BY <1>2, <2>1
<1>5. ASSUME NEW s \in Request, HCheckRpm(s) PROVE pc[r] \in Before /\ s # r
  <2>1. PICK point \in {"tpm", "rpm_refused"} : pc' = [pc EXCEPT ![s] = point]
    BY <1>5 DEF HCheckRpm, CheckRpm, GoTo
  <2>2. point \notin Before
    BY <2>1 DEF Before
  <2>3. pc'[s] \notin Before
    BY <1>1, <2>1, <2>2
  <2>4. QED
    BY <1>2, <2>1, <2>2, <2>3
<1>6. ASSUME NEW s \in Request,
             HGetForTpm(s) \/ HCheckTpm(s) \/ (\E tpm : HAnswered(s, tpm)) \/ HConsume(s)
      PROVE  pc[r] \in Before
  <2>1. \E point \in {"tpm_check", "upstream", "tpm_refused", "consume", "done"} :
          pc' = [pc EXCEPT ![s] = point]
    BY <1>6 DEF HGetForTpm, HCheckTpm, HAnswered, HConsume,
                GetForTpm, CheckTpm, Answered, Consume, Take, GoTo
  <2>2. PICK point \in {"tpm_check", "upstream", "tpm_refused", "consume", "done"} :
          pc' = [pc EXCEPT ![s] = point]
    BY <2>1
  <2>3. point \notin Before
    BY <2>2 DEF Before
  <2>4. QED
    BY <1>2, <2>2, <2>3
<1>7. ASSUME HGetTpmState \/ HRest \/ UNCHANGED hvars PROVE pc[r] \in Before
  <2>1. HGetTpmState => pc' = pc
    BY DEF HGetTpmState, GetTpmState
  <2>2. HRest => pc' = pc
    BY DEF HRest, Cleanup, Reload, Tick
  <2>3. UNCHANGED hvars => pc' = pc
    BY DEF hvars, vars
  <2>4. QED
    BY <1>7, <2>1, <2>2, <2>3
<1>8. pc[r] \in Before
  BY <1>3, <1>4, <1>5, <1>6, <1>7 DEF HNext
<1>9. QED
  BY <1>5, <1>8

LEMMA StepAdmissions ==
  ASSUME RefillInv, QuotaInv, [HNext]_hvars, RefillInv'
  PROVE  AdmissionsOK'
<1>1. /\ RequestsOK /\ RequestsOK' /\ now \in Nat /\ IsFiniteSet(Admitted)
      /\ Len(pairs) \in Nat /\ Len(pairs') \in Nat
  <2>1. RequestsOK /\ now \in Nat /\ Len(pairs) \in Nat
    BY RefillInvParts DEF StoreOK
  <2>2. RequestsOK' /\ Len(pairs') \in Nat
    BY DEF RefillInv, HTypeOK, TypeOK, RequestsOK
  <2>3. QED
    BY <2>1, <2>2 DEF QuotaInv, AdmissionsOK
<1>2. CASE Quiet
  <2>1. IsFiniteSet(Admitted')
    BY <1>1, <1>2, QuietCounts DEF Quiet
  <2>2. ASSUME NEW r \in Request
        PROVE  /\ pc'[r] \in Before => admitted_at'[r] = None
               /\ admitted_at'[r] # None => /\ admitted_at'[r] <= now'
                                            /\ admitted_by'[r] \in 1..Len(pairs')
    <3>1. pc'[r] \in Before => pc[r] \in Before
      BY <1>1, BeforeStays
    <3>2. /\ admitted_at'[r] = admitted_at[r] /\ admitted_by'[r] = admitted_by[r]
          /\ now <= now' /\ Len(pairs) <= Len(pairs') /\ now' \in Nat
      BY <1>2 DEF Quiet, RefillInv, HTypeOK, TypeOK
    <3>3. admitted_at[r] \in Nat \cup {None}
      BY <1>1 DEF RequestsOK
    <3>4. QED
      BY <1>1, <3>1, <3>2, <3>3 DEF QuotaInv, AdmissionsOK, None
  <2>3. QED
    BY <2>1, <2>2 DEF AdmissionsOK
<1>3. ASSUME NEW s \in Request, Admits(s), HCheckRpm(s)
      PROVE  AdmissionsOK'
  <2> DEFINE k == call[s].pair
  <2>1. k \in 1..Len(pairs) /\ k \in Nat /\ admitted_at[s] = None
    BY <1>1, <1>3 DEF Admits, RequestsOK, QuotaInv, AdmissionsOK, Before
  <2>2. /\ admitted_at' = [admitted_at EXCEPT ![s] = now]
        /\ admitted_by' = [admitted_by EXCEPT ![s] = k]
        /\ Len(pairs') = Len(pairs) /\ now' = now
    BY <1>3 DEF Admits
  <2> HIDE DEF k
  <2>3. IsFiniteSet(Admitted')
    BY <1>1, <2>1, <2>2, AdmissionCounts
  <2>4. ASSUME NEW r \in Request
        PROVE  /\ pc'[r] \in Before => admitted_at'[r] = None
               /\ admitted_at'[r] # None => /\ admitted_at'[r] <= now'
                                            /\ admitted_by'[r] \in 1..Len(pairs')
    <3>1. pc'[r] \in Before => pc[r] \in Before /\ r # s
      BY <1>1, <1>3, BeforeStays
    <3>2. CASE r = s
      BY <1>1, <2>1, <2>2, <3>1, <3>2 DEF RequestsOK
    <3>3. CASE r # s
      <4>1. admitted_at'[r] = admitted_at[r] /\ admitted_by'[r] = admitted_by[r]
        BY <1>1, <2>2, <3>3 DEF RequestsOK
      <4>2. QED
        BY <2>2, <3>1, <4>1 DEF QuotaInv, AdmissionsOK
    <3>4. QED
      BY <3>2, <3>3
  <2>5. QED
    BY <2>3, <2>4 DEF AdmissionsOK
<1>4. QED
  BY <1>2, <1>3, StepKinds, Zenon

\* The window that ends with the admission of an earlier request has not changed.
LEMMA WindowStays ==
  ASSUME RefillInv, AdmissionsOK, NEW r \in Request, admitted_at[r] # None,
         NEW s \in Request, admitted_at[s] = None, NEW i \in Nat,
         i # admitted_by[r] \/ admitted_at[r] < now,
         admitted_at' = [admitted_at EXCEPT ![s] = now],
         admitted_by' = [admitted_by EXCEPT ![s] = i]
  PROVE  Window(r)' = Window(r)
<1>1. /\ admitted_at \in [Request -> Nat \cup {None}] /\ admitted_by \in [Request -> Nat]
      /\ now \in Nat /\ r # s
  BY RefillInvParts DEF RequestsOK, StoreOK
<1>2. /\ admitted_at'[s] = now /\ admitted_by'[s] = i
      /\ \A q \in Request : q # s => /\ admitted_at'[q] = admitted_at[q]
                                     /\ admitted_by'[q] = admitted_by[q]
  BY <1>1
<1>3. admitted_at'[r] = admitted_at[r] /\ admitted_by'[r] = admitted_by[r]
  BY <1>1, <1>2
<1>4. \A q \in Request : q # s => (q \in Window(r)' <=> q \in Window(r))
  BY <1>2, <1>3 DEF Window, AdmittedBy, AdmittedSince
<1>5. s \notin Window(r)
  BY DEF Window, AdmittedSince
<1>6. s \notin Window(r)'
  <2>1. s \in Window(r)' => i = admitted_by[r] /\ now <= admitted_at[r]
    BY <1>2, <1>3 DEF Window, AdmittedBy
  <2>2. admitted_at[r] \in Nat
    BY <1>1
  <2>3. QED
    BY <1>1, <2>1, <2>2
<1>7. Window(r)' \subseteq Request /\ Window(r) \subseteq Request
  BY DEF Window, AdmittedBy
<1>8. QED
  BY <1>4, <1>5, <1>6, <1>7

LEMMA WindowArithmetic ==
  ASSUME NEW w \in Nat, NEW n \in Nat, w <= n, NEW interval \in Nat, NEW q \in Nat,
         NEW clock \in Nat, NEW f \in Nat, f <= clock + q * interval,
         n > 0 => clock - Minute + 1 + n * interval <= f
  PROVE  w * interval < q * interval + Minute
<1> DEFINE a == w * interval
           b == n * interval
           c == q * interval
<1>1. Minute \in Nat \ {0}
  BY LimiterAssumption
<1>2. a \in Nat /\ b \in Nat /\ c \in Nat
  BY SMT
<1>3. a <= b
  BY Monotone
<1>4. n = 0 => b = 0
  OBVIOUS
<1> HIDE DEF a, b, c
<1>5. f <= clock + c /\ (n > 0 => clock - Minute + 1 + b <= f)
  BY DEF b, c
<1>6. a < c + Minute
  BY <1>1, <1>2, <1>3, <1>4, <1>5
<1>7. QED
  BY <1>6 DEF a, c

LEMMA StepWindows ==
  ASSUME RefillInv, QuotaInv, [HNext]_hvars, RefillInv', AdmissionsOK', PairsQuotaOK'
  PROVE  WindowsOK'
<1>1. /\ RequestsOK /\ RequestsOK' /\ now \in Nat /\ AdmissionsOK
      /\ Len(pairs) \in Nat /\ Len(pairs') \in Nat
      /\ pairs \in Seq(Pairs) /\ pairs' \in Seq(Pairs)
  <2>1. RequestsOK /\ now \in Nat /\ Len(pairs) \in Nat /\ pairs \in Seq(Pairs)
    BY RefillInvParts DEF StoreOK
  <2>2. RequestsOK' /\ Len(pairs') \in Nat /\ pairs' \in Seq(Pairs)
    BY DEF RefillInv, HTypeOK, TypeOK, RequestsOK
  <2>3. QED
    BY <2>1, <2>2 DEF QuotaInv
<1>2. ASSUME NEW r \in Request, admitted_at[r] # None, Window(r)' = Window(r),
             admitted_by'[r] = admitted_by[r],
             pairs'[admitted_by[r]].quota = pairs[admitted_by[r]].quota
      PROVE  WindowOK(r)'
  <2> DEFINE i == admitted_by[r]
  <2>1. pairs'[admitted_by'[r]].quota = pairs[i].quota
    BY <1>2
  <2>2. Interval(pairs[admitted_by[r]])' = Interval(pairs[i])
    BY <2>1 DEF Interval
  <2>3. WindowOK(r)
    BY <1>2 DEF QuotaInv, WindowsOK
  <2>4. QED
    BY <1>2, <2>1, <2>2, <2>3 DEF WindowOK
<1>3. CASE Quiet
  <2> SUFFICES ASSUME NEW r \in Request, admitted_at'[r] # None
               PROVE  WindowOK(r)'
    BY DEF WindowsOK
  <2>1. admitted_at' = admitted_at /\ admitted_by' = admitted_by /\ admitted_at[r] # None
    BY <1>3 DEF Quiet
  <2>2. admitted_by[r] \in 1..Len(pairs)
    BY <1>1, <2>1 DEF AdmissionsOK
  <2>3. pairs'[admitted_by[r]].quota = pairs[admitted_by[r]].quota
    BY <1>3, <2>2 DEF Quiet, SameLimit
  <2>4. Window(r)' = Window(r)
    BY <2>1 DEF Window, AdmittedBy, AdmittedSince
  <2>5. QED
    BY <1>2, <2>1, <2>3, <2>4
<1>4. ASSUME NEW s \in Request, Admits(s)
      PROVE  WindowsOK'
  <2> SUFFICES ASSUME NEW r \in Request, admitted_at'[r] # None
               PROVE  WindowOK(r)'
    BY DEF WindowsOK
  <2>0. PICK i \in Nat : i = call[s].pair
    BY <1>1, <1>4 DEF Admits, RequestsOK, Calls
  <2>1. /\ i \in 1..Len(pairs) /\ i \in Nat /\ admitted_at[s] = None
        /\ admitted_at' = [admitted_at EXCEPT ![s] = now]
        /\ admitted_by' = [admitted_by EXCEPT ![s] = i]
        /\ now' = now /\ Len(pairs') = Len(pairs)
    BY <1>1, <1>4, <2>0 DEF Admits, RequestsOK, AdmissionsOK, Before
  <2>2. \A j \in 1..Len(pairs) : pairs'[j].quota = pairs[j].quota
    BY <1>4 DEF Admits, SameLimit
  <2>3. CASE r # s /\ (i # admitted_by[r] \/ admitted_at[r] < now)
    <3>1. admitted_at'[r] = admitted_at[r] /\ admitted_by'[r] = admitted_by[r]
      BY <1>1, <2>1, <2>3 DEF RequestsOK
    <3>2. admitted_at[r] # None /\ admitted_by[r] \in 1..Len(pairs)
      BY <1>1, <3>1 DEF AdmissionsOK
    <3>3. Window(r)' = Window(r)
      BY <1>1, <2>1, <2>3, <3>2, WindowStays
    <3>4. QED
      BY <1>2, <2>2, <3>1, <3>2, <3>3
  <2>4. CASE r = s \/ (i = admitted_by[r] /\ ~(admitted_at[r] < now))
    <3>1. admitted_at'[r] = now /\ admitted_by'[r] = i
      <4>1. r # s => admitted_at'[r] = admitted_at[r] /\ admitted_by'[r] = admitted_by[r]
        BY <1>1, <2>1 DEF RequestsOK
      <4>2. r # s => admitted_at[r] \in Nat /\ admitted_at[r] <= now
        BY <1>1, <4>1 DEF RequestsOK, AdmissionsOK
      <4>3. r = s => admitted_at'[r] = now /\ admitted_by'[r] = i
        BY <1>1, <2>1 DEF RequestsOK
      <4>4. QED
        BY <1>1, <2>4, <4>1, <4>2, <4>3
    <3>0. PICK t \in Int : t = now - Minute
      BY <1>1, LimiterAssumption
    <3> DEFINE p == pairs'[i]
    <3>2. p \in Pairs /\ p.quota = pairs[i].quota
      BY <1>1, <2>1, <2>2
    <3>4. p.free_at <= now + p.quota * Interval(p)
      <4>1. i \in 1..Len(pairs')
        BY <2>1
      <4>2. pairs'[i].free_at <= now + pairs[i].quota * Interval(pairs[i])
        BY <1>4, <2>0, <4>1, AdmittingPair
      <4>3. Interval(p) = Interval(pairs[i])
        BY <3>2 DEF Interval
      <4>4. QED
        BY <3>2, <4>2, <4>3
    <3>5. Count(i, t)' > 0 => t + 1 + Count(i, t)' * Interval(p) <= p.free_at
      <4>1. FreeAtLeast(pairs[i].free_at, Interval(pairs[i]), i)'
        BY <2>1 DEF PairsQuotaOK, PairQuotaOK
      <4>2. Interval(pairs[i])' = Interval(p)
        BY DEF Interval
      <4>3. QED
        BY <4>1, <4>2 DEF FreeAtLeast
    <3>6. /\ IsFiniteSet(Since(i, t)') /\ Count(i, t)' \in Nat
          /\ Cardinality(Window(r)') \in Nat /\ Cardinality(Window(r)') <= Count(i, t)'
      <4>1. IsFiniteSet(Admitted') /\ Since(i, t)' \subseteq Admitted'
        BY DEF AdmissionsOK, Since, AdmittedBy, AdmittedSince, Admitted
      <4>2. Window(r)' \subseteq Since(i, t)'
        BY <2>1, <3>0, <3>1 DEF Window, Since, AdmittedBy, AdmittedSince
      <4>3. IsFiniteSet(Since(i, t)')
        BY <4>1, FS_Subset
      <4>4. IsFiniteSet(Window(r)') /\ Cardinality(Window(r)') <= Cardinality(Since(i, t)')
        BY <4>2, <4>3, FS_Subset
      <4>5. QED
        BY <4>3, <4>4, FS_CardinalityType DEF Count
    <3>7. p.quota \in Nat /\ p.free_at \in Nat /\ Interval(p) \in Nat
      BY <3>2, IntervalFits
    <3>8. Cardinality(Window(r)') * Interval(p) < p.quota * Interval(p) + Minute
      <4> HIDE DEF p
      <4>1. Count(i, t)' > 0 => now - Minute + 1 + Count(i, t)' * Interval(p) <= p.free_at
        BY <3>0, <3>5
      <4>2. \A n \in Nat : Cardinality(Window(r)') <= n
                             /\ (n > 0 => now - Minute + 1 + n * Interval(p) <= p.free_at) =>
              Cardinality(Window(r)') * Interval(p) < p.quota * Interval(p) + Minute
        BY <1>1, <3>4, <3>6, <3>7, WindowArithmetic
      <4>3. QED
        BY <3>6, <4>1, <4>2
    <3>9. QED
      BY <3>1, <3>8 DEF WindowOK, Interval
  <2>5. QED
    BY <2>3, <2>4
<1>5. QED
  BY <1>3, <1>4, StepKinds, Zenon

LEMMA InitQuota == HInit => QuotaInv
<1> SUFFICES ASSUME HInit PROVE QuotaInv
  OBVIOUS
<1>1. /\ pairs = <<>> /\ admitted_at = [r \in Request |-> None]
  BY DEF HInit, Init
<1>2. Admitted = {} /\ IsFiniteSet(Admitted)
  BY <1>1, FS_EmptySet DEF Admitted
<1>3. AdmissionsOK /\ WindowsOK
  BY <1>1, <1>2 DEF AdmissionsOK, WindowsOK
<1>4. PairsQuotaOK
  BY <1>1 DEF PairsQuotaOK
<1>5. QED
  BY <1>3, <1>4 DEF QuotaInv

LEMMA StepQuota ==
  ASSUME RefillInv, QuotaInv, [HNext]_hvars, RefillInv'
  PROVE  QuotaInv'
<1>1. AdmissionsOK'
  BY StepAdmissions
<1>2. PairsQuotaOK'
  <2> SUFFICES ASSUME NEW i \in 1..Len(pairs')
               PROVE  PairQuotaOK(pairs[i], i)'
    BY DEF PairsQuotaOK
  <2>1. Quiet => PairQuotaOK(pairs[i], i)'
    BY QuietPair
  <2>2. ASSUME NEW r \in Request, Admits(r) PROVE PairQuotaOK(pairs[i], i)'
    BY <2>2, AdmittingPair
  <2>3. QED
    BY <2>1, <2>2, StepKinds, Zenon
<1>3. WindowsOK'
  BY <1>1, <1>2, StepWindows
<1>4. QED
  BY <1>1, <1>2, <1>3 DEF QuotaInv

LEMMA QuotaInvariant == HSpec => [](RefillInv /\ QuotaInv)
<1>1. HInit => QuotaInv
  BY InitQuota
<1>2. RefillInv /\ QuotaInv /\ [HNext]_hvars /\ RefillInv' => QuotaInv'
  BY StepQuota
<1>3. QED
  BY <1>1, <1>2, RefillInvariant, PTL DEF HSpec

-----------------------------------------------------------------------------
(* The quotas in force are those of the configurations, or 1.              *)

Rpms == {l.rpm : l \in Limits} \cup {0}
Quotas == {AtLeastOne(n) : n \in Rpms}

QuotasKept ==
  /\ limits \in Limits
  /\ \A r \in Request : call[r].rpm \in Rpms
  /\ \A i \in 1..Len(pairs) : pairs[i].quota \in Quotas

\* The pairs a step adds.
Fresh == (1..Len(pairs')) \ (1..Len(pairs))

LEMMA GrowQuotas ==
  ASSUME StoreOK, NEW rpm \in Rpms, NEW tpm, get_or_create(rpm, tpm)
  PROVE  \A i \in Fresh : pairs'[i].quota \in Quotas
<1>1. pairs \in Seq(Pairs) /\ Len(pairs) \in Nat
  BY DEF StoreOK
<1>2. pairs' = pairs \/ pairs' = Append(pairs, NewPair(rpm, tpm))
  BY DEF get_or_create
<1>3. pairs' = Append(pairs, NewPair(rpm, tpm)) =>
        Len(pairs') = Len(pairs) + 1 /\ pairs'[Len(pairs) + 1] = NewPair(rpm, tpm)
  BY <1>1
<1>4. NewPair(rpm, tpm).quota \in Quotas
  BY DEF NewPair, Quotas
<1>5. QED
  BY <1>1, <1>2, <1>3, <1>4 DEF Fresh

LEMMA FreshQuotas ==
  ASSUME RefillInv, QuotasKept, [HNext]_hvars
  PROVE  \A i \in Fresh : pairs'[i].quota \in Quotas
<1>1. StoreOK /\ pairs \in Seq(Pairs) /\ 0 \in Rpms
  BY RefillInvParts DEF StoreOK, Rpms
<1>2. ASSUME NEW rpm \in Rpms, NEW tpm, get_or_create(rpm, tpm) \/ UNCHANGED pairs
      PROVE  \A i \in Fresh : pairs'[i].quota \in Quotas
  <2>1. UNCHANGED pairs => Fresh = {}
    BY DEF Fresh
  <2>2. QED
    BY <1>1, <1>2, <2>1, GrowQuotas
<1>3. ASSUME NEW k, NEW q, pairs' = [pairs EXCEPT ![k] = q]
      PROVE  \A i \in Fresh : pairs'[i].quota \in Quotas
  <2>1. Len(pairs') = Len(pairs)
    BY <1>1, <1>3
  <2>2. QED
    BY <2>1 DEF Fresh
<1>4. ASSUME NEW r \in Request, HGetForRpm(r) \/ HGetForTpm(r)
      PROVE  \A i \in Fresh : pairs'[i].quota \in Quotas
  <2>1. get_or_create(call[r].rpm, call[r].tpm) \/ UNCHANGED pairs
    BY <1>4 DEF HGetForRpm, HGetForTpm, GetForRpm, GetForTpm, Take
  <2>2. QED
    BY <1>2, <2>1 DEF QuotasKept
<1>5. ASSUME NEW r \in Request, NEW tpm \in TpmsNow(r), HAnswered(r, tpm)
      PROVE  \A i \in Fresh : pairs'[i].quota \in Quotas
  <2>1. \E n \in Usage :
          IF tpm > 0 /\ n > 0
          THEN /\ get_or_create(0, tpm)
               /\ call' = [call EXCEPT ![r].pair = Got, ![r].used = n]
               /\ GoTo(r, "consume")
          ELSE GoTo(r, "done") /\ UNCHANGED <<limiter, pairs, call>>
    BY <1>5 DEF HAnswered, Answered
  <2>2. get_or_create(0, tpm) \/ UNCHANGED pairs
    BY <2>1
  <2>3. QED
    BY <1>1, <1>2, <2>2
<1>6. ASSUME NEW r \in Request, HCheckRpm(r) \/ HCheckTpm(r) \/ HConsume(r)
      PROVE  \A i \in Fresh : pairs'[i].quota \in Quotas
  <2>1. \E q : pairs' = [pairs EXCEPT ![call[r].pair] = q]
    BY <1>6 DEF HCheckRpm, HCheckTpm, HConsume, CheckRpm, CheckTpm, Consume, Update
  <2>2. QED
    BY <1>3, <2>1
<1>7. ASSUME HGetTpmState
      PROVE  \A i \in Fresh : pairs'[i].quota \in Quotas
  <2>1. CASE limiter = Absent
    <3>1. get_or_create(0, limits.tpm)
      BY <1>7, <2>1 DEF HGetTpmState, GetTpmState, get_or_create
    <3>2. QED
      BY <1>1, <1>2, <3>1
  <2>2. CASE limiter # Absent
    <3>1. UNCHANGED pairs \/ \E q : pairs' = [pairs EXCEPT ![limiter] = q]
      <4>1. UNCHANGED pairs
            \/ pairs' = [pairs EXCEPT ![limiter].window_start = now,
                                      ![limiter].window_consumed = 0]
        BY <1>7, <2>2 DEF HGetTpmState, GetTpmState
      <4>2. limiter \in DOMAIN pairs
        BY <1>1, <2>2 DEF StoreOK, Absent
      <4>3. QED
        BY <1>1, <4>1, <4>2
    <3>2. QED
      BY <1>1, <1>2, <1>3, <3>1
  <2>3. QED
    BY <2>1, <2>2
<1>8. UNCHANGED pairs => \A i \in Fresh : pairs'[i].quota \in Quotas
  BY DEF Fresh
<1>9. ASSUME NEW r \in Request, HBegin(r) PROVE UNCHANGED pairs
  BY <1>9 DEF HBegin, Begin
<1>10. HRest => UNCHANGED pairs
  BY DEF HRest, Cleanup, Reload, Tick
<1>11. UNCHANGED hvars => UNCHANGED pairs
  BY DEF hvars, vars
<1>12. QED
  BY <1>4, <1>5, <1>6, <1>7, <1>8, <1>9, <1>10, <1>11 DEF HNext

LEMMA StepQuotas ==
  ASSUME RefillInv, QuotasKept, [HNext]_hvars, RefillInv'
  PROVE  QuotasKept'
<1>1. RequestsOK
  BY RefillInvParts
<1>2. limits' \in Limits
  <2>1. ASSUME NEW r \in Request,
               \/ HBegin(r) \/ HGetForRpm(r) \/ HCheckRpm(r) \/ HGetForTpm(r)
               \/ HCheckTpm(r) \/ (\E tpm : HAnswered(r, tpm)) \/ HConsume(r)
        PROVE  UNCHANGED limits
    BY <2>1 DEF HBegin, HGetForRpm, HCheckRpm, HGetForTpm, HCheckTpm, HAnswered, HConsume,
                Begin, GetForRpm, CheckRpm, GetForTpm, CheckTpm, Answered, Consume
  <2>2. HGetTpmState => UNCHANGED limits
    BY DEF HGetTpmState, GetTpmState
  <2>3. HRest => UNCHANGED limits \/ limits' \in Limits
    BY DEF HRest, Cleanup, Reload, Tick
  <2>4. UNCHANGED hvars => UNCHANGED limits
    BY DEF hvars, vars
  <2>5. QED
    BY <2>1, <2>2, <2>3, <2>4 DEF HNext, QuotasKept
<1>3. ASSUME NEW q \in Request PROVE call'[q].rpm \in Rpms
  <2>1. /\ call \in [Request -> Calls] /\ call[q].rpm \in Rpms /\ limits.rpm \in Rpms
    BY <1>1 DEF RequestsOK, QuotasKept, Rpms
  <2>2. ASSUME NEW r \in Request, HBegin(r) PROVE call'[q].rpm \in Rpms
    <3>1. call' = [call EXCEPT ![r].rpm = limits.rpm, ![r].tpm = limits.tpm]
      BY <2>2 DEF HBegin, Begin
    <3>2. call'[q].rpm = IF q = r THEN limits.rpm ELSE call[q].rpm
      BY <2>1, <3>1 DEF Calls
    <3>3. QED
      BY <2>1, <3>2
  <2>3. ASSUME NEW r \in Request, HGetForRpm(r) \/ HGetForTpm(r) PROVE call'[q].rpm = call[q].rpm
    <3>1. UNCHANGED call \/ call' = [call EXCEPT ![r].pair = Got]
      BY <2>3 DEF HGetForRpm, HGetForTpm, GetForRpm, GetForTpm, Take
    <3>2. QED
      BY <2>1, <3>1 DEF Calls
  <2>4. ASSUME NEW r \in Request, NEW tpm \in TpmsNow(r), HAnswered(r, tpm) PROVE call'[q].rpm = call[q].rpm
    <3>1. PICK n \in Usage :
            IF tpm > 0 /\ n > 0
            THEN /\ get_or_create(0, tpm)
                 /\ call' = [call EXCEPT ![r].pair = Got, ![r].used = n]
                 /\ GoTo(r, "consume")
            ELSE GoTo(r, "done") /\ UNCHANGED <<limiter, pairs, call>>
      BY <2>4 DEF HAnswered, Answered
    <3>2. UNCHANGED call \/ call' = [call EXCEPT ![r].pair = Got, ![r].used = n]
      BY <3>1
    <3>3. QED
      BY <2>1, <3>2 DEF Calls
  <2>5. ASSUME NEW r \in Request, HCheckRpm(r) \/ HCheckTpm(r) \/ HConsume(r) PROVE UNCHANGED call
    BY <2>5 DEF HCheckRpm, HCheckTpm, HConsume, CheckRpm, CheckTpm, Consume
  <2>6. HGetTpmState => UNCHANGED call
    BY DEF HGetTpmState, GetTpmState
  <2>7. HRest => UNCHANGED call
    BY DEF HRest, Cleanup, Reload, Tick
  <2>8. UNCHANGED hvars => UNCHANGED call
    BY DEF hvars, vars
  <2>9. QED
    BY <2>1, <2>2, <2>3, <2>4, <2>5, <2>6, <2>7, <2>8 DEF HNext
<1>4. ASSUME NEW i \in 1..Len(pairs') PROVE pairs'[i].quota \in Quotas
  <2>1. CASE i \in Fresh
    BY <2>1, FreshQuotas
  <2>2. CASE i \notin Fresh
    <3>1. i \in 1..Len(pairs)
      BY <2>2 DEF Fresh
    <3>2. Quiet => pairs'[i].quota = pairs[i].quota
      BY <3>1 DEF Quiet, SameLimit
    <3>3. \A r \in Request : Admits(r) => pairs'[i].quota = pairs[i].quota
      BY <3>1 DEF Admits, SameLimit
    <3>4. pairs'[i].quota = pairs[i].quota
      BY <3>2, <3>3, StepKinds, Zenon
    <3>5. QED
      BY <3>1, <3>4 DEF QuotasKept
  <2>3. QED
    BY <2>1, <2>2
<1>5. QED
  BY <1>2, <1>3, <1>4 DEF QuotasKept

LEMMA QuotasInvariant == HSpec => []QuotasKept
<1>1. HInit => QuotasKept
  BY DEF HInit, Init, QuotasKept, Rpms
<1>2. RefillInv /\ QuotasKept /\ [HNext]_hvars /\ RefillInv' => QuotasKept'
  BY StepQuotas
<1>3. QED
  BY <1>1, <1>2, RefillInvariant, PTL DEF HSpec

-----------------------------------------------------------------------------
(* What a pair admits in a minute fits its rate, for every quota: what was *)
(* admitted takes less time at the pair's interval than a full bucket and  *)
(* the minute itself (src/ratelimit/limiter.rs, check and its use of the   *)
(* crate governor).                                                        *)
THEOREM AdmissionsFitTheRate == HSpec => []WindowsOK
<1>1. QuotaInv => WindowsOK
  BY DEF QuotaInv
<1>2. QED
  BY <1>1, QuotaInvariant, PTL

LEMMA MinuteDivided ==
  ASSUME NEW q \in Nat \ {0}, Minute % q = 0
  PROVE  q * (Minute \div q) = Minute
BY LimiterAssumption, SMT

LEMMA TwiceArithmetic ==
  ASSUME NEW n \in Nat, NEW q \in Nat, NEW interval \in Nat, NEW m \in Nat \ {0},
         q * interval = m, n * interval < q * interval + m
  PROVE  ~(2 * q <= n)
<1>1. SUFFICES ASSUME 2 * q <= n PROVE FALSE
  OBVIOUS
<1>2. (2 * q) * interval <= n * interval
  BY <1>1, Monotone
<1>3. (2 * q) * interval = q * interval + q * interval
  <2>1. 2 * q = q + q
    OBVIOUS
  <2>2. QED
    BY <2>1, Distribute
<1>4. n * interval \in Nat
  BY SMT
<1>5. QED
  BY <1>2, <1>3, <1>4

(* Where every configured limit of requests divides the minute, that is    *)
(* fewer than twice the quota in any minute, for any number of requests    *)
(* and however their checks, cleanup and reloads are interleaved.          *)
THEOREM FewerThanTwiceTheQuota ==
  ASSUME \A l \in Limits : l.rpm > 0 => Minute % l.rpm = 0
  PROVE  HSpec => []PairAdmissionBound
<1>1. ASSUME RefillInv, QuotaInv, QuotasKept PROVE PairAdmissionBound
  <2> SUFFICES ASSUME NEW r \in Request, admitted_at[r] # None
               PROVE  Cardinality(Window(r)) < 2 * pairs[admitted_by[r]].quota
    BY DEF PairAdmissionBound, Window
  <2> DEFINE p == pairs[admitted_by[r]]
             interval == Interval(p)
             n == Cardinality(Window(r))
  <2>1. admitted_by[r] \in 1..Len(pairs)
    BY <1>1 DEF QuotaInv, AdmissionsOK
  <2>2. p \in Pairs /\ p.quota \in Quotas
    BY <1>1, <2>1, RefillInvParts DEF StoreOK, QuotasKept
  <2>3. n * interval < p.quota * interval + Minute
    BY <1>1 DEF QuotaInv, WindowsOK, WindowOK
  <2>4. n \in Nat
    <3>1. Window(r) \subseteq Admitted /\ IsFiniteSet(Admitted)
      BY <1>1 DEF Window, AdmittedBy, AdmittedSince, Admitted, QuotaInv, AdmissionsOK
    <3>2. QED
      BY <3>1, FS_Subset, FS_CardinalityType
  <2>5. p.quota \in Nat \ {0} /\ interval \in Nat /\ Minute \in Nat \ {0}
    BY <2>2, IntervalFits, LimiterAssumption
  <2>6. Minute % p.quota = 0
    <3>1. PICK m \in Rpms : p.quota = AtLeastOne(m)
      BY <2>2 DEF Quotas
    <3>2. CASE m \in {l.rpm : l \in Limits} /\ m > 0
      BY <3>1, <3>2 DEF AtLeastOne
    <3>3. CASE ~(m > 0)
      <4>1. p.quota = 1
        BY <3>1, <3>3 DEF AtLeastOne
      <4>2. QED
        BY <2>5, <4>1
    <3>4. QED
      BY <3>2, <3>3 DEF Rpms
  <2> HIDE DEF n
  <2>7. p.quota * interval = Minute
    BY <2>5, <2>6, MinuteDivided DEF Interval
  <2> HIDE DEF p, interval
  <2>8. ~(2 * p.quota <= n)
    BY <2>3, <2>4, <2>5, <2>7, TwiceArithmetic
  <2>9. QED
    BY <2>4, <2>5, <2>8 DEF p, n
<1>2. QED
  BY <1>1, QuotaInvariant, QuotasInvariant, PTL

LEMMA RefusalArithmetic ==
  ASSUME NEW q \in Nat \ {0}, NEW interval \in Nat, NEW clock \in Nat, NEW f \in Nat,
         NEW n \in Nat, q * interval <= Minute, ~(f <= clock + (q - 1) * interval),
         f <= Later(clock - Minute + q * interval, clock) + n * interval
  PROVE  n >= q
<1>1. SUFFICES ASSUME n <= q - 1 PROVE FALSE
  OBVIOUS
<1> DEFINE a == n * interval
           b == (q - 1) * interval
           c == q * interval
<1>2. a <= b /\ a \in Nat /\ b \in Nat /\ c \in Nat
  <2>1. q - 1 \in Nat
    OBVIOUS
  <2>2. a <= b
    BY <1>1, <2>1, Monotone
  <2>3. QED
    BY <2>1, <2>2, SMT
<1>3. c <= Minute /\ ~(f <= clock + b) /\ f <= Later(clock - Minute + c, clock) + a
  OBVIOUS
<1> HIDE DEF a, b, c
<1>4. QED
  BY <1>2, <1>3, LimiterAssumption DEF Later

\* Only the check of a request refuses it, and only where the pair permits none.
LEMMA RefusalStep ==
  ASSUME RequestsOK, [HNext]_hvars, NEW r \in Request,
         pc[r] = "rpm_check", pc'[r] = "rpm_refused"
  PROVE  ~PermitsNow(Held(r))
<1>1. pc \in [Request -> Points]
  BY DEF RequestsOK
<1>2. ASSUME NEW s \in Request, NEW point, pc' = [pc EXCEPT ![s] = point]
      PROVE  s = r /\ point = "rpm_refused"
  BY <1>1, <1>2
<1>3. ASSUME NEW s \in Request, HBegin(s) PROVE FALSE
  BY <1>2, <1>3 DEF HBegin, Begin, GoTo
<1>4. ASSUME NEW s \in Request, HGetForRpm(s) \/ HGetForTpm(s) PROVE FALSE
  <2>1. pc[s] # "rpm_check" /\ \E point : pc' = [pc EXCEPT ![s] = point]
    BY <1>4 DEF HGetForRpm, HGetForTpm, GetForRpm, GetForTpm, Take, GoTo
  <2>2. QED
    BY <1>2, <2>1
<1>5. ASSUME NEW s \in Request, HCheckTpm(s) \/ HConsume(s) PROVE FALSE
  <2>1. pc[s] # "rpm_check" /\ \E point : pc' = [pc EXCEPT ![s] = point]
    BY <1>5 DEF HCheckTpm, HConsume, CheckTpm, Consume, GoTo
  <2>2. QED
    BY <1>2, <2>1
<1>6. ASSUME NEW s \in Request, NEW tpm, HAnswered(s, tpm) PROVE FALSE
  <2>1. pc[s] # "rpm_check" /\ \E point : pc' = [pc EXCEPT ![s] = point]
    BY <1>6 DEF HAnswered, Answered, GoTo
  <2>2. QED
    BY <1>2, <2>1
<1>7. ASSUME NEW s \in Request, HCheckRpm(s) PROVE ~PermitsNow(Held(r))
  <2>1. pc' = [pc EXCEPT ![s] = IF PermitsNow(Held(s)) THEN "tpm" ELSE "rpm_refused"]
    BY <1>7 DEF HCheckRpm, CheckRpm, GoTo
  <2>2. QED
    BY <1>2, <2>1
<1>8. HGetTpmState => pc' = pc
  BY DEF HGetTpmState, GetTpmState
<1>9. HRest => pc' = pc
  BY DEF HRest, Cleanup, Reload, Tick
<1>10. UNCHANGED hvars => pc' = pc
  BY DEF hvars, vars
<1>11. QED
  BY <1>3, <1>4, <1>5, <1>6, <1>7, <1>8, <1>9, <1>10 DEF HNext

(* README line 180: a pair refuses a request only after it admitted its    *)
(* whole quota within the minute before; for every quota, and whoever      *)
(* created the pair.                                                       *)
THEOREM RefusalsAreJustified == HSpec => PairRefusalJustified
<1> DEFINE Justified ==
      \A r \in Request :
        pc[r] = "rpm_check" /\ pc'[r] = "rpm_refused" =>
          Cardinality(AdmittedBy(call[r].pair) \cap AdmittedSince(now - Minute)) >= Held(r).quota
<1>1. ASSUME RefillInv, QuotaInv, [HNext]_hvars PROVE Justified
  <2> SUFFICES ASSUME NEW r \in Request, pc[r] = "rpm_check", pc'[r] = "rpm_refused"
               PROVE  Count(call[r].pair, now - Minute) >= Held(r).quota
    BY DEF Count, Since
  <2> DEFINE i == call[r].pair
             p == Held(r)
             n == Count(i, now - Minute)
  <2>1. /\ i \in 1..Len(pairs) /\ now \in Nat /\ Minute \in Nat /\ pairs \in Seq(Pairs)
        /\ RequestsOK
    BY <1>1, RefillInvParts, LimiterAssumption DEF RequestsOK, StoreOK
  <2>2. p \in Pairs /\ p = pairs[i]
    BY <2>1 DEF Held
  <2>3. ~(p.free_at <= now + (p.quota - 1) * Interval(p))
    BY <1>1, <2>1, RefusalStep DEF PermitsNow
  <2>4. now - Minute \in Int /\ now - Minute <= now
    BY <2>1
  <2>5. p.free_at <= Later(now - Minute + p.quota * Interval(p), now) + n * Interval(p)
    BY <1>1, <2>1, <2>2, <2>4 DEF QuotaInv, PairsQuotaOK, PairQuotaOK, FreeAtMost
  <2>6. n \in Nat
    BY <1>1, CountIsANumber DEF QuotaInv, AdmissionsOK
  <2>7. /\ p.quota \in Nat \ {0} /\ p.free_at \in Nat /\ Interval(p) \in Nat
        /\ p.quota * Interval(p) <= Minute
    BY <2>2, IntervalFits
  <2> HIDE DEF n, p
  <2>8. n >= p.quota
    BY <2>1, <2>3, <2>5, <2>6, <2>7, RefusalArithmetic
  <2>9. QED
    BY <2>8 DEF n, p
<1>2. QED
  BY <1>1, QuotaInvariant, PTL DEF HSpec, PairRefusalJustified
=============================================================================
