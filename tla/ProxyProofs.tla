----------------------------- MODULE ProxyProofs -----------------------------
(* Theorems about ProxyHistory, for any models, endpoints, sessions and    *)
(* number of requests in progress, any settings of the breaker and of      *)
(* Redis, and any failures of it.                                          *)
EXTENDS ProxyHistory, RouterProofs, FiniteSetTheorems

-----------------------------------------------------------------------------
(* The breaker under the handlers' operations.                             *)

\* No ban reaches further than a ban set now.
BreakerInv ==
  /\ F2B!TypeOK
  /\ \A k \in HandlerKeys : banned_until[k] # F2B!None => banned_until[k] <= now + BanDuration

\* The bans that run are the same, and as long.
SameBans ==
  \A k \in HandlerKeys :
    /\ F2B!Banned(k)' = F2B!Banned(k)
    /\ F2B!Banned(k) => banned_until'[k] = banned_until[k]

LEMMA LookKeeps ==
  ASSUME BreakerInv, NEW k \in HandlerKeys, F2B!is_banned(k), UNCHANGED now
  PROVE  BreakerInv' /\ SameBans
BY DEF BreakerInv, SameBans, F2B!TypeOK, F2B!is_banned, F2B!Banned, F2B!None, F2B!breakerVars

LEMMA SuccessKeeps ==
  ASSUME BreakerInv, NEW k \in HandlerKeys, F2B!record_success(k), UNCHANGED now
  PROVE  BreakerInv' /\ SameBans
BY DEF BreakerInv, SameBans, F2B!TypeOK, F2B!record_success, F2B!Banned, F2B!None

LEMMA FailureKeeps ==
  ASSUME BreakerInv, NEW k \in HandlerKeys, NEW code \in Status \cup {0},
         F2B!record_failure_with_code(k, code), UNCHANGED now
  PROVE  /\ BreakerInv'
         /\ \A j \in HandlerKeys :
              banned_until'[j] = IF j = k /\ F2B!JustBanned(k) THEN now + BanDuration
                                 ELSE banned_until[j]
<1>1. BanDuration \in Nat
  BY BreakerAssumption DEF F2B!Fail2banAssumption
<1>2. banned_until' = IF F2B!JustBanned(k) THEN [banned_until EXCEPT ![k] = now + BanDuration]
                      ELSE banned_until
  BY DEF F2B!record_failure_with_code
<1>3. banned_until' \in [HandlerKeys -> Nat \cup {F2B!None}]
  BY <1>1, <1>2 DEF BreakerInv, F2B!TypeOK
<1>4. F2B!TypeOK'
  BY <1>3 DEF BreakerInv, F2B!TypeOK, F2B!record_failure_with_code, F2B!NetworkError
<1>5. \A j \in HandlerKeys :
        banned_until'[j] = IF j = k /\ F2B!JustBanned(k) THEN now + BanDuration ELSE banned_until[j]
  BY <1>2 DEF BreakerInv, F2B!TypeOK
<1>6. QED
  BY <1>1, <1>4, <1>5 DEF BreakerInv, F2B!TypeOK

LEMMA ResetKeeps ==
  ASSUME BreakerInv, NEW k \in HandlerKeys, F2B!reset(k), UNCHANGED now
  PROVE  /\ BreakerInv'
         /\ \A j \in HandlerKeys :
              banned_until'[j] = IF j = k THEN F2B!None ELSE banned_until[j]
BY DEF BreakerInv, F2B!TypeOK, F2B!reset, F2B!None

LEMMA TickKeeps ==
  ASSUME BreakerInv, Tick
  PROVE  /\ BreakerInv'
         /\ \A k \in HandlerKeys : F2B!Banned(k)' => F2B!Banned(k)
BY BreakerAssumption
   DEF BreakerInv, Tick, breakerVars, F2B!TypeOK, F2B!Banned, F2B!None, F2B!Fail2banAssumption

-----------------------------------------------------------------------------
(* A request: where it stands, what its handler holds, and the keys that   *)
(* were free since it arrived.                                             *)

AllKeysShort == \A m \in Model : ShortKeys(m)

\* The keys of m's endpoints.
KeysOf(m) == {HandlerKey(m, i) : i \in Index(m)}

Early == {"idle", "collect", "collect_sync"}
Placed == {"touch", "limits", "attempt", "sent", "next", "finish"}
Over == {"idle", "done"}

CallKey(c) == HandlerKey(c.model, c.current)

Exhausted(c) == KeysOf(c.model) \subseteq c.banned_keys \cup c.tried_keys

\* The errors that are answered when nothing is left to try.
Errors == {"upstream_error", "stream_error", "no_endpoint", "all_banned"}

CallInv(point, c, free) ==
  /\ c \in Calls /\ c.stream \in MayStream
  /\ c.scanned <= Total(c.model)
  /\ c.banned_keys \subseteq KeysOf(c.model)
  /\ point = "idle" => c.scanned = 0 /\ c.banned_keys = {}
  /\ point = "collect_sync" =>
       c.scanned < Total(c.model) /\ HandlerKey(c.model, c.scanned) \in free
  /\ point \notin Early \cup Over => c.scanned = Total(c.model)
  /\ point # "done" =>
       /\ \A i \in 0..(c.scanned - 1) : HandlerKey(c.model, i) \in c.banned_keys \cup free
       /\ c.reply = NoReply
  /\ point \in {"sticky", "sticky_remove", "sticky_sync", "touch"} => c.session \in Session
  /\ point \notin Placed \cup {"done"} => c.tried_keys = {}
  /\ point \in Placed => c.current \in Index(c.model)
  /\ AllKeysShort /\ point \in {"touch", "limits", "attempt", "sent"} =>
       CallKey(c) \notin c.banned_keys \cup c.tried_keys
  /\ point \in {"touch", "limits"} => c.tried_keys = {}
  /\ point = "next" => c.last \in {"rate_limited", "upstream_error"}
  /\ AllKeysShort /\ c.retry /\ ~c.stream /\ c.reply \in Errors => Exhausted(c)

HandlersInv ==
  /\ pc \in [Request -> Points]
  /\ call \in [Request -> Calls]
  /\ free_since \in [Request -> SUBSET HandlerKeys]
  /\ \A r \in Request :
       /\ CallInv(pc[r], call[r], free_since[r])
       /\ pc[r] \notin Over => Free \subseteq free_since[r]

LEMMA TotalsOK ==
  ASSUME NEW m \in Model
  PROVE  Total(m) \in Nat /\ KeysOf(m) \subseteq HandlerKeys
BY RouterAssumption, LenProperties DEF Total, KeysOf, HandlerKeys

LEMMA KeyIn ==
  ASSUME NEW m \in Model, NEW i \in Nat, i < Total(m)
  PROVE  i \in Index(m) /\ HandlerKey(m, i) \in KeysOf(m) /\ HandlerKey(m, i) \in HandlerKeys
BY TotalsOK DEF Index, KeysOf, HandlerKeys

\* More keys that were free change nothing.
LEMMA FreeGrows ==
  ASSUME NEW point \in Points, NEW c, NEW free, NEW more,
         point \in Over \/ free \subseteq more, CallInv(point, c, free)
  PROVE  CallInv(point, c, more)
<1>1. CASE point = "idle"
  BY <1>1 DEF CallInv, Early, Over, Placed, Calls
<1>2. CASE point = "done"
  BY <1>2 DEF CallInv, Early, Over, Placed
<1>3. CASE point \notin Over
  BY <1>3 DEF CallInv, Over
<1>4. QED
  BY <1>1, <1>2, <1>3 DEF Over

-----------------------------------------------------------------------------
(* Steps of one handler.                                                   *)

\* What Remember makes of the keys that were free.
LEMMA FreeThen ==
  ASSUME HandlersInv, Remember
  PROVE  /\ free_since' \in [Request -> SUBSET HandlerKeys]
         /\ \A r \in Request :
              pc'[r] \notin Over =>
                /\ pc[r] = "idle" => free_since'[r] = Free
                /\ pc[r] # "idle" => free_since[r] \subseteq free_since'[r] /\ Free' \subseteq free_since'[r]
<1>1. free_since' = [r \in Request |->
        IF pc'[r] \in {"idle", "done"} THEN {}
        ELSE IF pc[r] = "idle" THEN Free
        ELSE free_since[r] \cup Free']
  BY DEF Remember
<1>2. Free \subseteq HandlerKeys /\ Free' \subseteq HandlerKeys
  BY DEF Free
<1>3. QED
  BY <1>1, <1>2 DEF HandlersInv, Over

\* The requests that do not move.
LEMMA Rest ==
  ASSUME HandlersInv, Remember, NEW r \in Request, pc'[r] = pc[r], call'[r] = call[r]
  PROVE  /\ CallInv(pc'[r], call'[r], free_since'[r])
         /\ pc'[r] \notin Over => Free' \subseteq free_since'[r]
<1>1. CallInv(pc[r], call[r], free_since[r]) /\ pc[r] \in Points
  BY DEF HandlersInv
<1>2. pc[r] \in Over \/ (free_since[r] \subseteq free_since'[r] /\ Free' \subseteq free_since'[r])
  BY FreeThen DEF Over
<1>3. QED
  BY <1>1, <1>2, FreeGrows

LEMMA RequestMoves ==
  ASSUME HandlersInv, Remember, NEW r \in Request, NEW point \in Points, NEW c,
         pc' = [pc EXCEPT ![r] = point], call' = [call EXCEPT ![r] = c],
         pc[r] # "idle", CallInv(point, c, free_since[r])
  PROVE  HandlersInv'
<1>1. pc'[r] = point /\ call'[r] = c
      /\ \A q \in Request \ {r} : pc'[q] = pc[q] /\ call'[q] = call[q]
  BY DEF HandlersInv
<1>2. pc' \in [Request -> Points] /\ call' \in [Request -> Calls]
  BY DEF HandlersInv, CallInv
<1>3. point \in Over \/ (free_since[r] \subseteq free_since'[r] /\ Free' \subseteq free_since'[r])
  BY <1>1, FreeThen
<1>4. CallInv(point, c, free_since'[r])
  BY <1>3, FreeGrows
<1>5. QED
  BY <1>1, <1>2, <1>3, <1>4, FreeThen, Rest DEF HandlersInv

LEMMA NobodyMoves ==
  ASSUME HandlersInv, Remember, UNCHANGED <<pc, call>>
  PROVE  HandlersInv'
<1>1. \A r \in Request : pc'[r] = pc[r] /\ call'[r] = call[r]
  OBVIOUS
<1>2. QED
  BY <1>1, FreeThen, Rest DEF HandlersInv

LEMMA RepliesMove ==
  ASSUME HandlersInv, Remember, NEW r \in Request, NEW reply \in Replies, Reply(r, reply),
         pc[r] # "idle",
         AllKeysShort /\ call[r].retry /\ ~call[r].stream /\ reply \in Errors => Exhausted(call[r])
  PROVE  HandlersInv'
<1> DEFINE c == [call[r] EXCEPT !.reply = reply]
<1>1. CallInv(pc[r], call[r], free_since[r]) /\ call[r] \in Calls
  BY DEF HandlersInv
<1>2. /\ c \in Calls /\ c.reply = reply /\ c.stream = call[r].stream /\ c.retry = call[r].retry
      /\ c.scanned = call[r].scanned /\ c.model = call[r].model
      /\ c.banned_keys = call[r].banned_keys /\ c.tried_keys = call[r].tried_keys
  BY <1>1 DEF Calls
<1>3. pc' = [pc EXCEPT ![r] = "done"] /\ call' = [call EXCEPT ![r] = c]
  BY <1>1 DEF Reply, GoTo, HandlersInv
<1> HIDE DEF c
<1>4. Exhausted(c) = Exhausted(call[r])
  BY <1>2 DEF Exhausted
<1>5. CallInv("done", c, free_since[r])
  BY <1>1, <1>2, <1>4 DEF CallInv, Early, Over, Placed
<1>6. QED
  BY <1>3, <1>5, RequestMoves DEF Points

-----------------------------------------------------------------------------
(* Collecting bans.                                                        *)
LEMMA ArriveMoves ==
  ASSUME HandlersInv, Remember, NEW r \in Request, Arrive(r)
  PROVE  HandlersInv'
<1>1. /\ pc'[r] = "collect" /\ call'[r] = call[r]
      /\ \A q \in Request \ {r} : pc'[q] = pc[q] /\ call'[q] = call[q]
  BY DEF Arrive, GoTo, HandlersInv
<1>2. CallInv("idle", call[r], free_since[r]) /\ pc[r] = "idle"
  BY DEF Arrive, HandlersInv
<1>3. CallInv("collect", call[r], {})
  BY <1>2 DEF CallInv, Early, Over, Placed, Calls
<1>4. CallInv("collect", call[r], free_since'[r])
  BY <1>3, FreeGrows DEF Points
<1>5. Free' = Free
  BY DEF Arrive, Free, F2B!Banned, breakerVars
<1>6. pc' \in [Request -> Points] /\ call' \in [Request -> Calls]
  BY DEF Arrive, GoTo, HandlersInv, Points
<1>7. Free' \subseteq free_since'[r]
  BY <1>1, <1>2, <1>5, FreeThen DEF Over
<1>8. QED
  BY <1>1, <1>4, <1>6, <1>7, FreeThen, Rest DEF HandlersInv

\* A call after its handler looked at an endpoint.
Scanned(c, B) == [c EXCEPT !.scanned = @ + 1, !.banned_keys = @ \cup B]

LEMMA ScannedCall ==
  ASSUME NEW c \in Calls, NEW B \in SUBSET HandlerKeys
  PROVE  /\ Scanned(c, B) \in Calls
         /\ Scanned(c, B).scanned = c.scanned + 1
         /\ Scanned(c, B).banned_keys = c.banned_keys \cup B
         /\ Scanned(c, B).model = c.model /\ Scanned(c, B).stream = c.stream
         /\ Scanned(c, B).tried_keys = c.tried_keys /\ Scanned(c, B).reply = c.reply
<1>1. PICK d : d = [c EXCEPT !.scanned = @ + 1]
  OBVIOUS
<1>2. /\ d \in Calls /\ d.scanned = c.scanned + 1 /\ d.banned_keys = c.banned_keys
      /\ d.model = c.model /\ d.stream = c.stream /\ d.tried_keys = c.tried_keys
      /\ d.reply = c.reply
  BY <1>1 DEF Calls
<1>3. Scanned(c, B) = [d EXCEPT !.banned_keys = @ \cup B]
  BY <1>1, <1>2 DEF Calls, Scanned
<1>4. d.banned_keys \cup B \in SUBSET HandlerKeys
  BY <1>2 DEF Calls
<1>5. PICK S \in SUBSET HandlerKeys : S = d.banned_keys \cup B
  BY <1>4
<1>6. Scanned(c, B) = [d EXCEPT !.banned_keys = S]
  BY <1>3, <1>5
<1>7. /\ [d EXCEPT !.banned_keys = S] \in Calls
      /\ [d EXCEPT !.banned_keys = S].banned_keys = S
      /\ [d EXCEPT !.banned_keys = S].scanned = d.scanned
      /\ [d EXCEPT !.banned_keys = S].model = d.model
      /\ [d EXCEPT !.banned_keys = S].stream = d.stream
      /\ [d EXCEPT !.banned_keys = S].tried_keys = d.tried_keys
      /\ [d EXCEPT !.banned_keys = S].reply = d.reply
  BY <1>2 DEF Calls
<1>8. QED
  BY <1>2, <1>5, <1>6, <1>7

LEMMA ScanUpdates ==
  ASSUME call \in [Request -> Calls], NEW r \in Request, NEW B \in SUBSET HandlerKeys
  PROVE  [call EXCEPT ![r].scanned = @ + 1, ![r].banned_keys = @ \cup B]
           = [call EXCEPT ![r] = Scanned(call[r], B)]
<1> DEFINE d == [call[r] EXCEPT !.scanned = @ + 1]
           f == [call EXCEPT ![r] = d]
           g == [call EXCEPT ![r].scanned = @ + 1, ![r].banned_keys = @ \cup B]
<1>1. f[r] = d /\ f \in [Request -> Calls] /\ d \in Calls /\ d.banned_keys = call[r].banned_keys
  BY DEF Calls
<1>2. g = [f EXCEPT ![r] = [f[r] EXCEPT !.banned_keys = @ \cup B]]
  OBVIOUS
<1>3. Scanned(call[r], B) = [d EXCEPT !.banned_keys = @ \cup B]
  BY DEF Calls, Scanned
<1>4. \A q \in Request \ {r} : f[q] = call[q]
  OBVIOUS
<1> HIDE DEF d, f, g
<1>5. g = [q \in Request |-> IF q = r THEN Scanned(call[r], B) ELSE f[q]]
  BY <1>1, <1>2, <1>3
<1>6. g = [call EXCEPT ![r] = Scanned(call[r], B)]
  BY <1>4, <1>5
<1>7. QED
  BY <1>6 DEF g

LEMMA NothingBanned ==
  ASSUME call \in [Request -> Calls], NEW r \in Request
  PROVE  [call EXCEPT ![r].scanned = @ + 1]
           = [call EXCEPT ![r].scanned = @ + 1, ![r].banned_keys = @ \cup {}]
<1>1. \A c \in Calls : Scanned(c, {}) = [c EXCEPT !.scanned = @ + 1]
  BY DEF Scanned, Calls
<1>2. [call EXCEPT ![r].scanned = @ + 1] = [call EXCEPT ![r] = Scanned(call[r], {})]
  BY <1>1
<1>3. [call EXCEPT ![r].scanned = @ + 1, ![r].banned_keys = @ \cup {}]
        = [call EXCEPT ![r] = Scanned(call[r], {})]
  BY ScanUpdates
<1>4. QED
  BY <1>2, <1>3

\* An endpoint has been looked at.
LEMMA ScanMoves ==
  ASSUME HandlersInv, Remember, NEW r \in Request, pc[r] \in {"collect", "collect_sync"},
         NEW B \in SUBSET {HandlerKey(call[r].model, call[r].scanned)},
         HandlerKey(call[r].model, call[r].scanned) \in B \cup free_since[r],
         call[r].scanned < Total(call[r].model),
         pc' = [pc EXCEPT ![r] = "collect"],
         call' = [call EXCEPT ![r].scanned = @ + 1, ![r].banned_keys = @ \cup B]
  PROVE  HandlersInv'
<1> DEFINE k == HandlerKey(call[r].model, call[r].scanned)
           c == Scanned(call[r], B)
<1>1. CallInv(pc[r], call[r], free_since[r]) /\ call[r] \in Calls /\ call \in [Request -> Calls]
  BY DEF HandlersInv
<1>2. call[r].scanned \in Nat /\ call[r].model \in Model /\ Total(call[r].model) \in Nat
  BY <1>1, TotalsOK DEF Calls
<1>3. k \in KeysOf(call[r].model) /\ k \in HandlerKeys
  BY <1>2, KeyIn
<1>4. B \in SUBSET HandlerKeys
  BY <1>3
<1>5. /\ c \in Calls /\ c.scanned = call[r].scanned + 1
      /\ c.banned_keys = call[r].banned_keys \cup B /\ c.model = call[r].model
      /\ c.stream = call[r].stream /\ c.tried_keys = call[r].tried_keys /\ c.reply = call[r].reply
  BY <1>1, <1>4, ScannedCall
<1>6. call' = [call EXCEPT ![r] = c]
  BY <1>1, <1>4, ScanUpdates
<1> HIDE DEF c
<1>7. \A i \in 0..(c.scanned - 1) : HandlerKey(c.model, i) \in c.banned_keys \cup free_since[r]
  <2>1. \A i \in 0..(c.scanned - 1) : i \in 0..(call[r].scanned - 1) \/ i = call[r].scanned
    BY <1>2, <1>5
  <2>2. pc[r] # "done"
    OBVIOUS
  <2>3. QED
    BY <1>1, <1>5, <2>1, <2>2 DEF CallInv
<1>8. c.reply = NoReply /\ c.tried_keys = {} /\ c.banned_keys \subseteq KeysOf(c.model)
  BY <1>1, <1>3, <1>5 DEF CallInv, Placed
<1>9. CallInv("collect", c, free_since[r])
  BY <1>1, <1>2, <1>5, <1>7, <1>8 DEF CallInv, Early, Over, Placed, Errors, NoReply
<1>10. QED
  BY <1>6, <1>9, RequestMoves DEF Points

\* A request that goes on with what it holds.
LEMMA PointMoves ==
  ASSUME HandlersInv, Remember, NEW r \in Request, NEW point \in Points,
         GoTo(r, point), UNCHANGED call, pc[r] # "idle",
         CallInv(point, call[r], free_since[r])
  PROVE  HandlersInv'
<1>1. call' = [call EXCEPT ![r] = call[r]]
  BY DEF HandlersInv
<1>2. QED
  BY <1>1, RequestMoves DEF GoTo

LEMMA CollectMoves ==
  ASSUME HandlersInv, Remember, NEW r \in Request, Collect(r)
  PROVE  HandlersInv'
<1> DEFINE k == HandlerKey(call[r].model, call[r].scanned)
<1>1. /\ pc[r] = "collect" /\ call[r].scanned < Total(call[r].model)
      /\ CallInv("collect", call[r], free_since[r])
      /\ call[r] \in Calls /\ call \in [Request -> Calls]
      /\ Free \subseteq free_since[r]
  BY DEF Collect, HandlersInv, Over
<1>2. call[r].model \in Model /\ call[r].scanned \in Nat
  BY <1>1 DEF Calls
<1>3. k \in HandlerKeys
  BY <1>1, <1>2, KeyIn
<1>4. ~F2B!Banned(k) => k \in free_since[r]
  BY <1>1, <1>3 DEF Free
<1>5. \/ /\ call' = [call EXCEPT ![r].scanned = @ + 1, ![r].banned_keys = @ \cup {k}]
         /\ UNCHANGED pc
      \/ ~F2B!Banned(k) /\ GoTo(r, "collect_sync") /\ UNCHANGED call
      \/ ~F2B!Banned(k) /\ call' = [call EXCEPT ![r].scanned = @ + 1] /\ UNCHANGED pc
  BY DEF Collect, KeyAt
<1> HIDE DEF k
<1>6. pc = [pc EXCEPT ![r] = "collect"]
  BY <1>1 DEF HandlersInv
<1>7. CASE /\ call' = [call EXCEPT ![r].scanned = @ + 1, ![r].banned_keys = @ \cup {k}]
           /\ UNCHANGED pc
  BY <1>1, <1>6, <1>7, ScanMoves DEF k
<1>8. CASE ~F2B!Banned(k) /\ GoTo(r, "collect_sync") /\ UNCHANGED call
  <2>1. CallInv("collect_sync", call[r], free_since[r])
    BY <1>1, <1>4, <1>8 DEF CallInv, Early, Over, Placed, k
  <2>2. QED
    BY <1>1, <1>8, <2>1, PointMoves DEF Points
<1>9. CASE ~F2B!Banned(k) /\ call' = [call EXCEPT ![r].scanned = @ + 1] /\ UNCHANGED pc
  <2>1. PICK B \in SUBSET {k} : B = {}
    OBVIOUS
  <2>2. call' = [call EXCEPT ![r].scanned = @ + 1, ![r].banned_keys = @ \cup B]
    BY <1>1, <1>9, <2>1, NothingBanned
  <2>3. QED
    BY <1>1, <1>4, <1>6, <1>9, <2>2, ScanMoves DEF k
<1>10. QED
  BY <1>5, <1>7, <1>8, <1>9

LEMMA CollectSyncMoves ==
  ASSUME HandlersInv, Remember, NEW r \in Request, CollectSync(r)
  PROVE  HandlersInv'
<1> DEFINE k == HandlerKey(call[r].model, call[r].scanned)
<1>1. /\ pc[r] = "collect_sync" /\ pc' = [pc EXCEPT ![r] = "collect"]
      /\ CallInv("collect_sync", call[r], free_since[r])
      /\ call \in [Request -> Calls]
  BY DEF CollectSync, HandlersInv, GoTo
<1>2. k \in free_since[r] /\ call[r].scanned < Total(call[r].model)
  BY <1>1 DEF CallInv
<1>3. \/ call' = [call EXCEPT ![r].scanned = @ + 1, ![r].banned_keys = @ \cup {k}]
      \/ call' = [call EXCEPT ![r].scanned = @ + 1]
  BY DEF CollectSync, KeyAt
<1> HIDE DEF k
<1>4. PICK B \in SUBSET {k} :
        call' = [call EXCEPT ![r].scanned = @ + 1, ![r].banned_keys = @ \cup B]
  <2>1. CASE call' = [call EXCEPT ![r].scanned = @ + 1, ![r].banned_keys = @ \cup {k}]
    BY <2>1
  <2>2. CASE call' = [call EXCEPT ![r].scanned = @ + 1]
    <3>1. call' = [call EXCEPT ![r].scanned = @ + 1, ![r].banned_keys = @ \cup {}]
      BY <1>1, <2>2, NothingBanned
    <3>2. QED
      BY <3>1
  <2>3. QED
    BY <1>3, <2>1, <2>2
<1>5. QED
  BY <1>1, <1>2, <1>4, ScanMoves DEF k

\* As many banned keys as endpoints are the keys of all endpoints.
LEMMA AllSeenBanned ==
  ASSUME NEW m \in Model, NEW S \in SUBSET KeysOf(m), Total(m) > 0,
         Cardinality(S) = Total(m)
  PROVE  KeysOf(m) \subseteq S
<1> DEFINE f == [i \in Index(m) |-> HandlerKey(m, i)]
<1>1. Total(m) \in Nat
  BY TotalsOK
<1>2. IsFiniteSet(Index(m)) /\ Cardinality(Index(m)) = Total(m)
  BY <1>1, FS_Interval DEF Index
<1>3. f \in Surjection(Index(m), KeysOf(m))
  BY DEF Surjection, KeysOf
<1>4. IsFiniteSet(KeysOf(m)) /\ Cardinality(KeysOf(m)) <= Total(m)
  BY <1>2, <1>3, FS_Surjection
<1>5. /\ Cardinality(S) <= Cardinality(KeysOf(m))
      /\ Cardinality(KeysOf(m)) = Cardinality(S) => KeysOf(m) = S
  BY <1>4, FS_Subset
<1>6. Cardinality(KeysOf(m)) \in Nat
  BY <1>4, FS_CardinalityType
<1>7. Cardinality(KeysOf(m)) = Cardinality(S)
  BY <1>1, <1>4, <1>5, <1>6
<1>8. QED
  BY <1>5, <1>7

LEMMA CollectedMoves ==
  ASSUME HandlersInv, Remember, NEW r \in Request, Collected(r)
  PROVE  HandlersInv'
<1>1. /\ pc[r] = "collect" /\ call[r].scanned = Total(call[r].model)
      /\ CallInv("collect", call[r], free_since[r]) /\ call[r] \in Calls
  BY DEF Collected, HandlersInv
<1>2. /\ call[r].model \in Model /\ call[r].session \in Session \cup {NoSession}
      /\ call[r].banned_keys \in SUBSET KeysOf(call[r].model)
      /\ call[r].tried_keys = {}
  BY <1>1 DEF Calls, CallInv, Placed
<1>3. CASE Total(call[r].model) > 0 /\ Cardinality(call[r].banned_keys) = Total(call[r].model)
  <2>1. Exhausted(call[r])
    BY <1>2, <1>3, AllSeenBanned DEF Exhausted
  <2>2. Reply(r, "all_banned")
    BY <1>3 DEF Collected
  <2>3. QED
    BY <1>1, <2>1, <2>2, RepliesMove DEF Replies
<1>4. CASE ~(Total(call[r].model) > 0 /\ Cardinality(call[r].banned_keys) = Total(call[r].model))
  <2>1. PICK point \in {"select", "sticky"} :
          /\ GoTo(r, point) /\ UNCHANGED call
          /\ point = "sticky" => call[r].session \in Session
    BY <1>2, <1>4 DEF Collected
  <2>2. CallInv(point, call[r], free_since[r])
    BY <1>1, <1>2, <2>1 DEF CallInv, Early, Over, Placed
  <2>3. QED
    BY <1>1, <2>1, <2>2, PointMoves DEF Points
<1>5. QED
  BY <1>3, <1>4

-----------------------------------------------------------------------------
(* The state the requests share, beside the breaker.                       *)
WorldInv ==
  /\ RouterTypeOK
  /\ sticky \in [Session -> {Unbound} \cup (Nat \X Nat)]
  /\ sync_bans \in [HandlerKeys -> Nat \cup {Never}]
  /\ sync_sticky \in [Session -> Nat \cup {NoEndpoint}]
  /\ spawned \subseteq [by : Request, ban : HandlerKeys]
                     \cup [by : Request, bind : Session, index : Nat]

-----------------------------------------------------------------------------
(* Choosing an endpoint.                                                   *)

\* A call after its handler chose endpoint i.
Chosen(c, i) == [c EXCEPT !.current = i]

LEMMA ChosenCall ==
  ASSUME NEW c \in Calls, NEW i \in Nat
  PROVE  /\ Chosen(c, i) \in Calls
         /\ Chosen(c, i).current = i /\ Chosen(c, i).scanned = c.scanned
         /\ Chosen(c, i).banned_keys = c.banned_keys
         /\ Chosen(c, i).tried_keys = c.tried_keys
         /\ Chosen(c, i).model = c.model /\ Chosen(c, i).stream = c.stream
         /\ Chosen(c, i).reply = c.reply /\ Chosen(c, i).session = c.session
BY DEF Calls, Chosen

\* An endpoint that is not excluded is chosen.
LEMMA ChoiceMoves ==
  ASSUME HandlersInv, Remember, NEW r \in Request,
         pc[r] \notin Early \cup Over, NEW point \in {"touch", "limits", "attempt"},
         point \in {"touch", "limits"} => call[r].tried_keys = {},
         point = "touch" => call[r].session \in Session,
         NEW i \in Index(call[r].model),
         AllKeysShort =>
           HandlerKey(call[r].model, i) \notin call[r].banned_keys \cup call[r].tried_keys,
         GoTo(r, point), call' = [call EXCEPT ![r].current = i]
  PROVE  HandlersInv'
<1> DEFINE c == Chosen(call[r], i)
<1>1. CallInv(pc[r], call[r], free_since[r]) /\ call[r] \in Calls /\ call \in [Request -> Calls]
      /\ pc[r] \in Points
  BY DEF HandlersInv
<1>2. call[r].model \in Model
  BY <1>1 DEF Calls
<1>3. i \in Nat
  BY <1>2, TotalsOK DEF Index
<1>4. /\ c \in Calls /\ c.current = i /\ c.scanned = call[r].scanned
      /\ c.banned_keys = call[r].banned_keys /\ c.tried_keys = call[r].tried_keys
      /\ c.model = call[r].model /\ c.stream = call[r].stream /\ c.reply = call[r].reply
      /\ c.session = call[r].session
  BY <1>1, <1>3, ChosenCall
<1>5. call' = [call EXCEPT ![r] = c]
  BY <1>1 DEF Chosen
<1> HIDE DEF c
<1>6. c.reply = NoReply
  BY <1>1, <1>4 DEF CallInv, Over
<1>7. CallInv(point, c, free_since[r])
  BY <1>1, <1>4, <1>6 DEF CallInv, Early, Over, Placed, Errors, NoReply, CallKey
<1>8. pc' = [pc EXCEPT ![r] = point] /\ pc[r] # "idle" /\ point \in Points
  BY DEF GoTo, Points, Over
<1>9. QED
  BY <1>5, <1>7, <1>8, RequestMoves

\* The handler turns to the next way of choosing.
LEMMA TurnMoves ==
  ASSUME HandlersInv, Remember, NEW r \in Request,
         pc[r] \in {"sticky", "sticky_remove", "sticky_sync"},
         NEW point \in {"sticky_remove", "sticky_sync", "select"},
         GoTo(r, point), UNCHANGED call
  PROVE  HandlersInv'
<1>1. CallInv(pc[r], call[r], free_since[r])
  BY DEF HandlersInv
<1>2. CallInv(point, call[r], free_since[r])
  BY <1>1 DEF CallInv, Early, Over, Placed
<1>3. QED
  BY <1>2, PointMoves DEF Points

LEMMA FollowMoves ==
  ASSUME HandlersInv, Remember, NEW r \in Request, pc[r] \in {"sticky", "sticky_sync"},
         NEW i \in Nat \cup {NoEndpoint}, Follow(r, i)
  PROVE  HandlersInv'
<1>1. CallInv(pc[r], call[r], free_since[r]) /\ call[r] \in Calls
  BY DEF HandlersInv
<1>2. call[r].tried_keys = {} /\ call[r].model \in Model
  BY <1>1 DEF CallInv, Placed, Calls
<1>3. CASE Usable(r, i)
  <2>1. /\ i \in Index(call[r].model)
        /\ HandlerKey(call[r].model, i) \notin call[r].banned_keys
    BY <1>2, <1>3, KeyIn DEF Usable, KeyAt
  <2>2. GoTo(r, "touch") /\ call' = [call EXCEPT ![r].current = i]
    BY <1>3 DEF Follow
  <2>3. call[r].session \in Session
    BY <1>1 DEF CallInv
  <2>4. QED
    BY <1>2, <2>1, <2>2, <2>3, ChoiceMoves DEF Early, Over
<1>4. CASE ~Usable(r, i)
  BY <1>4, TurnMoves DEF Follow
<1>5. QED
  BY <1>3, <1>4

LEMMA StickyMoves ==
  ASSUME HandlersInv, WorldInv, Remember, NEW r \in Request, Sticky(r)
  PROVE  HandlersInv'
<1>1. pc[r] = "sticky" /\ call[r].session \in Session
  BY DEF Sticky, HandlersInv, CallInv
<1>2. CASE sticky[call[r].session] # Unbound /\ Follow(r, sticky[call[r].session][1])
  <2>1. sticky[call[r].session][1] \in Nat
    BY <1>1, <1>2 DEF WorldInv
  <2>2. QED
    BY <1>1, <1>2, <2>1, FollowMoves
<1>3. CASE GoTo(r, "sticky_remove") /\ UNCHANGED call
  BY <1>1, <1>3, TurnMoves
<1>4. CASE GoTo(r, AfterLocalSticky) /\ UNCHANGED call
  BY <1>1, <1>4, TurnMoves DEF AfterLocalSticky
<1>5. QED
  BY <1>2, <1>3, <1>4 DEF Sticky

LEMMA StickyRemoveMoves ==
  ASSUME HandlersInv, Remember, NEW r \in Request, StickyRemove(r)
  PROVE  HandlersInv'
BY TurnMoves DEF StickyRemove, AfterLocalSticky

LEMMA StickySyncMoves ==
  ASSUME HandlersInv, WorldInv, Remember, NEW r \in Request, StickySync(r)
  PROVE  HandlersInv'
<1>1. pc[r] = "sticky_sync" /\ call[r].session \in Session
  BY DEF StickySync, HandlersInv, CallInv
<1>2. sync_sticky[call[r].session] \in Nat \cup {NoEndpoint}
  BY <1>1 DEF WorldInv
<1>3. QED
  BY <1>1, <1>2, FollowMoves DEF StickySync

LEMMA SelectedInModel ==
  ASSUME RouterTypeOK, NEW m \in Model, NEW banned, NEW tried
  PROVE  Selected(m, banned, tried) \in Index(m) \cup {NoEndpoint}
<1>1. CASE Total(m) = 0
  BY <1>1 DEF Selected
<1>2. CASE Total(m) # 0
  <2>1. Total(m) \in Nat \ {0}
    BY <1>2, TotalsOK
  <2>2. Start(m) \in Index(m)
    BY <2>1, StartInRange
  <2>3. FirstFree(m, Start(m), banned \cup tried) \in Index(m) \cup {NoEndpoint}
    BY <2>1, <2>2, FirstFreeIsFree
  <2>4. QED
    BY <1>2, <2>3 DEF Selected
<1>3. QED
  BY <1>1, <1>2

\* What a handler with short keys learns from select_available.
LEMMA SelectionKnows ==
  ASSUME RouterTypeOK, AllKeysShort, NEW m \in Model, NEW banned, NEW tried
  PROVE  LET sel == Selected(m, banned, tried)
         IN  /\ sel # NoEndpoint => HandlerKey(m, sel) \notin banned \cup tried
             /\ sel = NoEndpoint => KeysOf(m) \subseteq banned \cup tried
BY ShortKeysRespectExclusions DEF AllKeysShort, KeysOf

LEMMA SelectMoves ==
  ASSUME HandlersInv, WorldInv, Remember, NEW r \in Request, Select(r)
  PROVE  HandlersInv'
<1> DEFINE sel == Selected(call[r].model, call[r].banned_keys, {})
<1>1. /\ CallInv("select", call[r], free_since[r]) /\ call[r] \in Calls
      /\ pc[r] = "select" /\ RouterTypeOK
  BY DEF Select, HandlersInv, WorldInv
<1>2. call[r].tried_keys = {} /\ call[r].model \in Model
  BY <1>1 DEF CallInv, Placed, Calls
<1>3. sel \in Index(call[r].model) \cup {NoEndpoint}
  BY <1>1, <1>2, SelectedInModel
<1>4. AllKeysShort =>
        /\ sel # NoEndpoint => HandlerKey(call[r].model, sel) \notin call[r].banned_keys \cup {}
        /\ sel = NoEndpoint => KeysOf(call[r].model) \subseteq call[r].banned_keys \cup {}
  BY <1>1, <1>2, SelectionKnows
<1>5. \/ sel = NoEndpoint /\ Reply(r, "no_endpoint")
      \/ sel # NoEndpoint /\ call' = [call EXCEPT ![r].current = sel] /\ GoTo(r, "limits")
  BY DEF Select
<1> HIDE DEF sel
<1>6. CASE sel = NoEndpoint /\ Reply(r, "no_endpoint")
  <2>1. AllKeysShort => Exhausted(call[r])
    BY <1>4, <1>6 DEF Exhausted
  <2>2. QED
    BY <1>1, <1>6, <2>1, RepliesMove DEF Replies
<1>7. CASE sel # NoEndpoint /\ call' = [call EXCEPT ![r].current = sel] /\ GoTo(r, "limits")
  BY <1>1, <1>2, <1>3, <1>4, <1>7, ChoiceMoves DEF Early, Over
<1>8. QED
  BY <1>5, <1>6, <1>7

LEMMA SelectNextMoves ==
  ASSUME HandlersInv, WorldInv, Remember, NEW r \in Request, SelectNext(r)
  PROVE  HandlersInv'
<1> DEFINE sel == Selected(call[r].model, call[r].banned_keys, call[r].tried_keys)
<1>1. /\ CallInv("next", call[r], free_since[r]) /\ call[r] \in Calls
      /\ pc[r] = "next" /\ RouterTypeOK
  BY DEF SelectNext, HandlersInv, WorldInv
<1>2. call[r].last \in {"rate_limited", "upstream_error"} /\ call[r].model \in Model
  BY <1>1 DEF CallInv, Calls
<1>3. sel \in Index(call[r].model) \cup {NoEndpoint}
  BY <1>1, <1>2, SelectedInModel
<1>4. AllKeysShort =>
        /\ sel # NoEndpoint =>
             HandlerKey(call[r].model, sel) \notin call[r].banned_keys \cup call[r].tried_keys
        /\ sel = NoEndpoint => Exhausted(call[r])
  BY <1>1, <1>2, SelectionKnows DEF Exhausted
<1>5. \/ sel = NoEndpoint /\ Reply(r, call[r].last)
      \/ sel # NoEndpoint /\ call' = [call EXCEPT ![r].current = sel] /\ GoTo(r, "attempt")
  BY DEF SelectNext
<1> HIDE DEF sel
<1>6. CASE sel = NoEndpoint /\ Reply(r, call[r].last)
  <2>1. call[r].last \in Replies
    BY <1>2 DEF Replies
  <2>2. QED
    BY <1>1, <1>4, <1>6, <2>1, RepliesMove
<1>7. CASE sel # NoEndpoint /\ call' = [call EXCEPT ![r].current = sel] /\ GoTo(r, "attempt")
  BY <1>1, <1>3, <1>4, <1>7, ChoiceMoves DEF Early, Over
<1>8. QED
  BY <1>5, <1>6, <1>7

-----------------------------------------------------------------------------
(* From the limits to the answer.                                          *)

\* A call whose endpoint is given up.
GivenUp(c, key, why) == [c EXCEPT !.tried_keys = @ \cup {key}, !.last = why]

LEMMA GivenUpCall ==
  ASSUME NEW c \in Calls, NEW key \in HandlerKeys, NEW why \in Replies
  PROVE  /\ GivenUp(c, key, why) \in Calls /\ GivenUp(c, key, why).last = why
         /\ GivenUp(c, key, why).current = c.current
         /\ GivenUp(c, key, why).scanned = c.scanned
         /\ GivenUp(c, key, why).banned_keys = c.banned_keys
         /\ GivenUp(c, key, why).model = c.model
         /\ GivenUp(c, key, why).stream = c.stream
         /\ GivenUp(c, key, why).reply = c.reply
<1>1. PICK d : d = [c EXCEPT !.tried_keys = @ \cup {key}]
  OBVIOUS
<1>2. c.tried_keys \cup {key} \in SUBSET HandlerKeys
  BY DEF Calls
<1>3. PICK S \in SUBSET HandlerKeys : S = c.tried_keys \cup {key}
  BY <1>2
<1>4. /\ d \in Calls /\ d.current = c.current /\ d.scanned = c.scanned
      /\ d.banned_keys = c.banned_keys /\ d.model = c.model
      /\ d.stream = c.stream /\ d.reply = c.reply
  BY <1>1, <1>3 DEF Calls
<1>5. GivenUp(c, key, why) = [d EXCEPT !.last = why]
  BY <1>1, <1>4 DEF GivenUp, Calls
<1>6. QED
  BY <1>4, <1>5 DEF Calls

LEMMA GiveUpUpdates ==
  ASSUME call \in [Request -> Calls], NEW r \in Request, NEW why, GiveUpOn(r, why)
  PROVE  call' = [call EXCEPT ![r] = GivenUp(call[r], Key(r), why)]
<1>1. PICK key : key = Key(r)
  OBVIOUS
<1>2. call' = [call EXCEPT ![r].tried_keys = @ \cup {key}, ![r].last = why]
  BY <1>1 DEF GiveUpOn
<1> DEFINE d == [call[r] EXCEPT !.tried_keys = @ \cup {key}]
           f == [call EXCEPT ![r] = d]
<1>3. f[r] = d /\ DOMAIN f = Request
  OBVIOUS
<1>4. call' = [f EXCEPT ![r] = [f[r] EXCEPT !.last = why]]
  BY <1>2
<1>5. GivenUp(call[r], key, why) = [d EXCEPT !.last = why]
  BY DEF GivenUp
<1>6. \A q \in Request \ {r} : f[q] = call[q]
  OBVIOUS
<1> HIDE DEF d, f
<1>7. call' = [q \in Request |-> IF q = r THEN GivenUp(call[r], key, why) ELSE f[q]]
  BY <1>3, <1>4, <1>5
<1>8. call' = [call EXCEPT ![r] = GivenUp(call[r], key, why)]
  BY <1>6, <1>7
<1>9. QED
  BY <1>1, <1>8

LEMMA GiveUpMoves ==
  ASSUME HandlersInv, Remember, NEW r \in Request, pc[r] \in {"attempt", "sent"},
         NEW why \in {"rate_limited", "upstream_error"}, GiveUpOn(r, why)
  PROVE  HandlersInv'
<1> DEFINE c == GivenUp(call[r], Key(r), why)
<1>1. CallInv(pc[r], call[r], free_since[r]) /\ call[r] \in Calls /\ call \in [Request -> Calls]
  BY DEF HandlersInv
<1>2. call[r].model \in Model /\ call[r].current \in Index(call[r].model)
  BY <1>1 DEF Calls, CallInv, Placed
<1>3. Key(r) \in HandlerKeys /\ why \in Replies
  BY <1>2 DEF Key, KeyAt, HandlerKeys, Replies
<1>4. /\ c \in Calls /\ c.last = why /\ c.current = call[r].current
      /\ c.scanned = call[r].scanned /\ c.banned_keys = call[r].banned_keys
      /\ c.model = call[r].model /\ c.stream = call[r].stream /\ c.reply = call[r].reply
  BY <1>1, <1>3, GivenUpCall
<1>5. call' = [call EXCEPT ![r] = c] /\ pc' = [pc EXCEPT ![r] = "next"]
  BY <1>1, GiveUpUpdates DEF GiveUpOn, GoTo
<1> HIDE DEF c
<1>6. /\ c.reply = NoReply /\ c.scanned = Total(c.model) /\ c.current \in Index(c.model)
      /\ c.banned_keys \subseteq KeysOf(c.model) /\ c.stream \in MayStream
      /\ \A i \in 0..(c.scanned - 1) : HandlerKey(c.model, i) \in c.banned_keys \cup free_since[r]
  BY <1>1, <1>4 DEF CallInv, Early, Over, Placed
<1>7. c.scanned <= Total(c.model)
  BY <1>1, <1>4 DEF CallInv
<1>8. CallInv("next", c, free_since[r])
  BY <1>4, <1>6, <1>7 DEF CallInv, Early, Over, Placed, Errors, NoReply
<1>9. QED
  BY <1>5, <1>8, RequestMoves DEF Points

\* A reply that is no error, or to a request that does not want retries.
LEMMA PlainReplyMoves ==
  ASSUME HandlersInv, Remember, NEW r \in Request, pc[r] # "idle",
         NEW reply \in Replies, Reply(r, reply),
         reply \notin Errors \/ ~call[r].retry \/ call[r].stream
  PROVE  HandlersInv'
BY RepliesMove DEF HandlersInv, Calls

\* The next point, with the endpoint that was chosen.
LEMMA OnwardMoves ==
  ASSUME HandlersInv, Remember, NEW r \in Request,
         NEW point \in {"limits", "attempt", "sent", "finish"},
         \/ pc[r] = "touch" /\ point = "limits"
         \/ pc[r] = "limits" /\ point = "attempt"
         \/ pc[r] = "attempt" /\ point = "sent"
         \/ pc[r] = "sent" /\ point = "finish",
         GoTo(r, point), UNCHANGED call
  PROVE  HandlersInv'
<1>1. CallInv(pc[r], call[r], free_since[r])
  BY DEF HandlersInv
<1>2. CallInv(point, call[r], free_since[r])
  BY <1>1 DEF CallInv, Early, Over, Placed
<1>3. point \in Points /\ pc[r] # "idle"
  BY DEF Points
<1>4. QED
  BY <1>2, <1>3, PointMoves

LEMMA TouchMoves ==
  ASSUME HandlersInv, Remember, NEW r \in Request, Touch(r)
  PROVE  HandlersInv'
BY OnwardMoves DEF Touch

LEMMA CheckLimitsMoves ==
  ASSUME HandlersInv, Remember, NEW r \in Request, CheckLimits(r)
  PROVE  HandlersInv'
BY OnwardMoves, PlainReplyMoves DEF CheckLimits, Replies, Errors

LEMMA AttemptMoves ==
  ASSUME HandlersInv, Remember, NEW r \in Request, Attempt(r)
  PROVE  HandlersInv'
BY OnwardMoves, GiveUpMoves DEF Attempt

LEMMA UpstreamStatusMoves ==
  ASSUME HandlersInv, Remember, NEW r \in Request, NEW status, UpstreamStatus(r, status)
  PROVE  HandlersInv'
<1>1. pc[r] = "sent"
  BY DEF UpstreamStatus
<1>2. (GoTo(r, "finish") /\ UNCHANGED call) \/ GiveUpOn(r, "upstream_error")
  BY DEF UpstreamStatus
<1>3. QED
  BY <1>1, <1>2, OnwardMoves, GiveUpMoves

LEMMA NetworkErrorMoves ==
  ASSUME HandlersInv, Remember, NEW r \in Request, NetworkError(r)
  PROVE  HandlersInv'
<1>1. pc[r] = "sent"
  BY DEF NetworkError
<1>2. \/ GiveUpOn(r, "upstream_error")
      \/ ~call[r].retry /\ Reply(r, "upstream_error")
  BY DEF NetworkError
<1>3. QED
  BY <1>1, <1>2, GiveUpMoves, PlainReplyMoves DEF Replies

LEMMA StreamNetworkErrorMoves ==
  ASSUME HandlersInv, Remember, NEW r \in Request, StreamNetworkError(r)
  PROVE  HandlersInv'
BY PlainReplyMoves DEF StreamNetworkError, Replies

LEMMA FinishMoves ==
  ASSUME HandlersInv, Remember, NEW r \in Request, Finish(r)
  PROVE  HandlersInv'
BY PlainReplyMoves DEF Finish, Replies, Errors

LEMMA TimeoutMoves ==
  ASSUME HandlersInv, Remember, NEW r \in Request, Timeout(r)
  PROVE  HandlersInv'
BY PlainReplyMoves DEF Timeout, Replies, Errors, AwaitPoints

-----------------------------------------------------------------------------
(* The invariant of all requests together.                                 *)
Inv == BreakerInv /\ WorldInv /\ HandlersInv

\* Steps that leave the breaker, or the rest of the shared state, alone.
LEMMA BreakerRests ==
  ASSUME BreakerInv, UNCHANGED <<now, breakerVars>>
  PROVE  BreakerInv' /\ SameBans
BY DEF BreakerInv, SameBans, F2B!TypeOK, F2B!Banned, F2B!None, breakerVars

LEMMA WorldRests ==
  ASSUME WorldInv, UNCHANGED <<counters, sticky, syncVars>>
  PROVE  WorldInv'
BY DEF WorldInv, RouterTypeOK, syncVars

LEMMA SelectionKeepsWorld ==
  ASSUME WorldInv, NEW m \in Model, select_available(m), UNCHANGED <<sticky, syncVars>>
  PROVE  WorldInv'
<1>1. RouterTypeOK'
  <2>1. CASE UNCHANGED counters
    BY <2>1 DEF WorldInv, RouterTypeOK
  <2>2. CASE next(m)
    <3>1. (counters[m] + 1) % CounterRange \in 0..(CounterRange - 1)
      BY RouterAssumption DEF WorldInv, RouterTypeOK
    <3>2. QED
      BY <2>2, <3>1 DEF WorldInv, RouterTypeOK, next
  <2>3. QED
    BY <2>1, <2>2 DEF select_available
<1>2. QED
  BY <1>1 DEF WorldInv, syncVars

LEMMA TouchKeepsWorld ==
  ASSUME WorldInv, now \in Nat, NEW s \in Session, touch(s), UNCHANGED <<counters, syncVars>>
  PROVE  WorldInv'
<1>1. sticky' = [sticky EXCEPT ![s] = IF @ = Unbound THEN @ ELSE <<@[1], now>>]
  BY DEF touch
<1>2. sticky \in [Session -> {Unbound} \cup (Nat \X Nat)]
  BY DEF WorldInv
<1>3. (IF sticky[s] = Unbound THEN sticky[s] ELSE <<sticky[s][1], now>>)
        \in {Unbound} \cup (Nat \X Nat)
  BY <1>2
<1>4. sticky' \in [Session -> {Unbound} \cup (Nat \X Nat)]
  BY <1>1, <1>2, <1>3
<1>5. QED
  BY <1>4 DEF WorldInv, RouterTypeOK, syncVars

\* The request's endpoint has a key once it is placed.
LEMMA PlacedKey ==
  ASSUME HandlersInv, NEW r \in Request, pc[r] \in Placed
  PROVE  /\ call[r].current \in Nat /\ call[r].current \in Index(call[r].model)
         /\ Key(r) \in HandlerKeys
<1>1. call[r] \in Calls /\ call[r].current \in Index(call[r].model)
  BY DEF HandlersInv, CallInv
<1>2. call[r].model \in Model
  BY <1>1 DEF Calls
<1>3. call[r].current \in Nat
  BY <1>1, <1>2, TotalsOK DEF Index
<1>4. QED
  BY <1>1, <1>2, <1>3 DEF Key, KeyAt, HandlerKeys

LEMMA SpawnKeepsWorld ==
  ASSUME WorldInv, UNCHANGED <<counters, sticky, sync_bans, sync_sticky>>,
         spawned' \subseteq spawned \cup [by : Request, ban : HandlerKeys]
  PROVE  WorldInv'
BY DEF WorldInv, RouterTypeOK

LEMMA PublishSpawns ==
  ASSUME NEW r \in Request, Key(r) \in HandlerKeys, PublishIfBanned(r)
  PROVE  spawned' \subseteq spawned \cup [by : Request, ban : HandlerKeys]
BY DEF PublishIfBanned

\* What a failure does to the breaker and to the tasks left behind.
LEMMA FailedAttempt ==
  ASSUME Inv, NEW r \in Request, pc[r] = "sent", NEW code \in Status \cup {0},
         F2B!record_failure_with_code(Key(r), code), PublishIfBanned(r),
         UNCHANGED <<now, counters, sticky, sync_bans, sync_sticky>>
  PROVE  BreakerInv' /\ WorldInv'
<1>1. Key(r) \in HandlerKeys
  BY PlacedKey DEF Placed, Inv
<1>2. BreakerInv'
  BY <1>1, FailureKeeps DEF Inv
<1>3. WorldInv'
  BY <1>1, PublishSpawns, SpawnKeepsWorld DEF Inv
<1>4. QED
  BY <1>2, <1>3

LEMMA InvInit == HInit => Inv
<1> SUFFICES ASSUME HInit PROVE Inv
  OBVIOUS
<1>1. now = 0 /\ F2B!TypeOK /\ \A k \in HandlerKeys : banned_until[k] = F2B!None
  BY DEF HInit, Init, F2B!Init, F2B!BreakerInit, F2B!TypeOK, F2B!None, F2B!NetworkError
<1>2. BreakerInv
  BY <1>1 DEF BreakerInv
<1>3. WorldInv
  BY RouterAssumption DEF HInit, Init, RouterInit, RouterTypeOK, WorldInv
<1>4. call \in [Request -> Calls]
      /\ \A r \in Request :
           /\ call[r].scanned = 0 /\ call[r].banned_keys = {} /\ call[r].tried_keys = {}
           /\ call[r].reply = NoReply /\ call[r].stream \in MayStream
  <2>1. call \in [Request ->
          {[model |-> m, session |-> s, stream |-> b, retry |-> retry, scanned |-> 0,
            banned_keys |-> {}, tried_keys |-> {}, current |-> NoEndpoint,
            last |-> NoReply, reply |-> NoReply] :
           m \in Model, s \in Session \cup {NoSession}, b \in MayStream, retry \in MayRetry}]
    BY DEF HInit, Init
  <2>2. ASSUME NEW r \in Request
        PROVE  /\ call[r] \in Calls
               /\ call[r].scanned = 0 /\ call[r].banned_keys = {} /\ call[r].tried_keys = {}
               /\ call[r].reply = NoReply /\ call[r].stream \in MayStream
    <3>1. PICK m \in Model, s \in Session \cup {NoSession}, b \in MayStream, retry \in MayRetry :
            call[r] = [model |-> m, session |-> s, stream |-> b, retry |-> retry, scanned |-> 0,
                       banned_keys |-> {}, tried_keys |-> {}, current |-> NoEndpoint,
                       last |-> NoReply, reply |-> NoReply]
      BY <2>1
    <3>2. b \in BOOLEAN /\ retry \in BOOLEAN /\ NoReply \in Replies
      BY ProxyAssumption DEF Replies
    <3>3. QED
      BY <3>1, <3>2 DEF Calls
  <2>3. QED
    BY <2>1, <2>2
<1>5. ASSUME NEW r \in Request
      PROVE  pc[r] = "idle" /\ CallInv("idle", call[r], free_since[r])
  <2>1. call[r].model \in Model
    BY <1>4 DEF Calls
  <2>2. pc[r] = "idle" /\ 0 <= Total(call[r].model)
    BY <2>1, TotalsOK DEF HInit, Init
  <2>3. QED
    BY <1>4, <2>2 DEF CallInv, Early, Over, Placed, Errors, NoReply
<1>6. pc \in [Request -> Points] /\ free_since \in [Request -> SUBSET HandlerKeys]
  BY DEF HInit, Init, Points
<1>7. HandlersInv
  BY <1>4, <1>5, <1>6 DEF HandlersInv, Over
<1>8. QED
  BY <1>2, <1>3, <1>7 DEF Inv

\* The steps of one request keep the breaker's invariant and the shared state's.
LEMMA SharedStateKept ==
  ASSUME Inv, NEW r \in Request,
         Arrive(r) \/ Handle(r) \/ Timeout(r)
  PROVE  BreakerInv' /\ WorldInv'
<1>1. BreakerInv /\ WorldInv /\ HandlersInv /\ now \in Nat
  BY DEF Inv, BreakerInv, F2B!TypeOK
<1>2. CASE Arrive(r) \/ CollectSync(r) \/ Collected(r) \/ CheckLimits(r) \/ Attempt(r)
           \/ StreamNetworkError(r) \/ Timeout(r) \/ Sticky(r) \/ StickySync(r)
  <2>1. UNCHANGED <<now, breakerVars>> /\ UNCHANGED <<counters, sticky, syncVars>>
    BY <1>2 DEF Arrive, CollectSync, Collected, CheckLimits, Attempt, StreamNetworkError, Timeout,
                Sticky, StickySync
  <2>2. QED
    BY <1>1, <2>1, BreakerRests, WorldRests
<1>3. CASE Collect(r)
  <2>1. call[r].scanned < Total(call[r].model) /\ call[r].scanned \in Nat /\ call[r].model \in Model
    BY <1>1, <1>3 DEF Collect, HandlersInv, Calls
  <2>2. KeyAt(r, call[r].scanned) \in HandlerKeys
    BY <2>1, KeyIn DEF KeyAt
  <2>3. F2B!is_banned(KeyAt(r, call[r].scanned)) /\ UNCHANGED <<now, counters, sticky, syncVars>>
    BY <1>3 DEF Collect
  <2>4. QED
    BY <1>1, <2>2, <2>3, LookKeeps, WorldRests
<1>4. CASE Touch(r)
  <2>1. call[r].session \in Session
    BY <1>1, <1>4 DEF Touch, HandlersInv, CallInv
  <2>2. UNCHANGED <<now, breakerVars, counters, syncVars>> /\ touch(call[r].session)
    BY <1>4 DEF Touch
  <2>3. PICK s \in Session : s = call[r].session
    BY <2>1
  <2>4. QED
    BY <1>1, <2>2, <2>3, BreakerRests, TouchKeepsWorld
<1>5. CASE StickyRemove(r)
  <2>1. call[r].session \in Session
    BY <1>1, <1>5 DEF StickyRemove, HandlersInv, CallInv
  <2>2. sticky' = [sticky EXCEPT ![call[r].session] = Unbound]
        /\ UNCHANGED <<now, breakerVars, counters, syncVars>>
    BY <1>5 DEF StickyRemove
  <2>3. WorldInv'
    BY <1>1, <2>1, <2>2 DEF WorldInv, RouterTypeOK, syncVars
  <2>4. QED
    BY <1>1, <2>2, <2>3, BreakerRests
<1>6. CASE Select(r) \/ SelectNext(r)
  <2>1. call[r].model \in Model
    BY <1>1 DEF HandlersInv, Calls
  <2>2. select_available(call[r].model) /\ UNCHANGED <<now, breakerVars, sticky, syncVars>>
    BY <1>6 DEF Select, SelectNext
  <2>3. QED
    BY <1>1, <2>1, <2>2, BreakerRests, SelectionKeepsWorld
<1>7. CASE \E status \in Status : UpstreamStatus(r, status)
  <2>1. PICK status \in Status : UpstreamStatus(r, status)
    BY <1>7
  <2>2. pc[r] = "sent" /\ UNCHANGED <<now, counters, sticky, sync_bans, sync_sticky>>
    BY <2>1 DEF UpstreamStatus
  <2>3. \/ F2B!record_failure_with_code(Key(r), status) /\ PublishIfBanned(r)
        \/ F2B!record_success(Key(r)) /\ UNCHANGED spawned
    BY <2>1 DEF UpstreamStatus
  <2>4. CASE F2B!record_failure_with_code(Key(r), status) /\ PublishIfBanned(r)
    BY <2>2, <2>4, FailedAttempt
  <2>5. CASE F2B!record_success(Key(r)) /\ UNCHANGED spawned
    <3>1. Key(r) \in HandlerKeys
      BY <1>1, <2>2, PlacedKey DEF Placed
    <3>2. QED
      BY <1>1, <2>2, <2>5, <3>1, SuccessKeeps, WorldRests DEF syncVars
  <2>6. QED
    BY <2>3, <2>4, <2>5
<1>8. CASE NetworkError(r)
  <2>1. pc[r] = "sent" /\ UNCHANGED <<now, counters, sticky, sync_bans, sync_sticky>>
    BY <1>8 DEF NetworkError
  <2>2. F2B!record_failure_with_code(Key(r), 0) /\ PublishIfBanned(r)
    BY <1>8 DEF NetworkError, F2B!record_failure, F2B!NetworkError
  <2>3. QED
    BY <2>1, <2>2, FailedAttempt
<1>9. CASE Finish(r)
  <2>1. call[r].current \in Nat /\ UNCHANGED <<now, breakerVars, counters, sync_bans, sync_sticky>>
    BY <1>1, <1>9, PlacedKey DEF Finish, Placed
  <2>2. CASE call[r].session = NoSession
    <3>1. UNCHANGED <<counters, sticky, syncVars>>
      BY <1>9, <2>1, <2>2 DEF Finish, syncVars
    <3>2. QED
      BY <1>1, <2>1, <3>1, BreakerRests, WorldRests
  <2>3. CASE call[r].session # NoSession
    <3>1. call[r].session \in Session
      BY <1>1, <2>3 DEF HandlersInv, Calls
    <3>2. sticky' \in [Session -> {Unbound} \cup (Nat \X Nat)]
      <4>1. PICK s \in Session, i \in Nat : s = call[r].session /\ i = call[r].current
        BY <2>1, <3>1
      <4>2. sticky' = [sticky EXCEPT ![s] = <<i, now>>]
        BY <1>9, <2>3, <4>1 DEF Finish
      <4>3. QED
        BY <1>1, <4>2 DEF WorldInv
    <3>3. spawned' \subseteq spawned \cup [by : Request, bind : Session, index : Nat]
      BY <1>9, <2>1, <2>3, <3>1 DEF Finish
    <3>4. WorldInv'
      BY <1>1, <2>1, <3>2, <3>3 DEF WorldInv, RouterTypeOK
    <3>5. QED
      BY <1>1, <2>1, <3>4, BreakerRests
  <2>4. QED
    BY <2>2, <2>3
<1>10. QED
  BY <1>2, <1>3, <1>4, <1>5, <1>6, <1>7, <1>8, <1>9 DEF Handle, Answer

\* The steps of Redis, of the tasks left behind, and of the clock.
LEMMA BackgroundKeeps ==
  ASSUME Inv,
         \/ \E t \in spawned : PublishBan(t) \/ PublishBinding(t)
         \/ \E s \in Session : SyncBindingExpires(s)
         \/ Tick
  PROVE  BreakerInv' /\ WorldInv' /\ UNCHANGED <<pc, call>>
<1>1. BreakerInv /\ WorldInv /\ now \in Nat
  BY DEF Inv, BreakerInv, F2B!TypeOK
<1>2. CASE \E t \in spawned : PublishBan(t)
  <2>1. PICK t \in spawned : PublishBan(t)
    BY <1>2
  <2>2. "ban" \in DOMAIN t /\ now + SyncBanTtl \in Nat
    BY <1>1, <2>1, ProxyAssumption DEF PublishBan
  <2>3. t.ban \in HandlerKeys
    BY <1>1, <2>2 DEF WorldInv
  <2>4. sync_bans' \in [HandlerKeys -> Nat \cup {Never}]
    BY <1>1, <2>1, <2>2, <2>3 DEF PublishBan, WorldInv
  <2>5. WorldInv'
    BY <1>1, <2>1, <2>4 DEF PublishBan, WorldInv, RouterTypeOK
  <2>6. QED
    BY <1>1, <2>1, <2>5, BreakerRests DEF PublishBan
<1>3. CASE \E t \in spawned : PublishBinding(t)
  <2>1. PICK t \in spawned : PublishBinding(t)
    BY <1>3
  <2>2. "bind" \in DOMAIN t
    BY <2>1 DEF PublishBinding
  <2>3. t.bind \in Session /\ t.index \in Nat
    BY <1>1, <2>2 DEF WorldInv
  <2>4. sync_sticky' \in [Session -> Nat \cup {NoEndpoint}]
    BY <1>1, <2>1, <2>3 DEF PublishBinding, WorldInv
  <2>5. WorldInv'
    BY <1>1, <2>1, <2>4 DEF PublishBinding, WorldInv, RouterTypeOK
  <2>6. QED
    BY <1>1, <2>1, <2>5, BreakerRests DEF PublishBinding
<1>4. CASE \E s \in Session : SyncBindingExpires(s)
  <2>1. PICK s \in Session : SyncBindingExpires(s)
    BY <1>4
  <2>2. WorldInv'
    BY <1>1, <2>1 DEF SyncBindingExpires, WorldInv, RouterTypeOK
  <2>3. QED
    BY <1>1, <2>1, <2>2, BreakerRests DEF SyncBindingExpires
<1>5. CASE Tick
  BY <1>1, <1>5, TickKeeps, WorldRests DEF Tick
<1>6. QED
  BY <1>2, <1>3, <1>4, <1>5

\* The steps of others, on this instance and elsewhere.
LEMMA OthersKeep ==
  ASSUME Inv, OthersHere \/ Elsewhere
  PROVE  BreakerInv' /\ WorldInv' /\ UNCHANGED <<pc, call>>
<1>1. BreakerInv /\ WorldInv /\ now \in Nat
  BY DEF Inv, BreakerInv, F2B!TypeOK
<1>2. UNCHANGED <<now, sticky, spawned, pc, call>>
  BY DEF OthersHere, Elsewhere, OthersMove, OthersLook, OthersSucceed, OthersFail, CheckerResets,
         OthersDraw, ElsewhereBans, ElsewhereBinds
<1>3. ASSUME NEW k \in HandlerKeys, OthersLook(k) \/ OthersSucceed(k)
      PROVE  BreakerInv' /\ WorldInv'
  BY <1>1, <1>2, <1>3, LookKeeps, SuccessKeeps, WorldRests DEF OthersLook, OthersSucceed, syncVars
<1>4. ASSUME NEW k \in HandlerKeys, CheckerResets(k)
      PROVE  BreakerInv' /\ WorldInv'
  BY <1>1, <1>2, <1>4, ResetKeeps, WorldRests DEF CheckerResets, syncVars
<1>5. ASSUME NEW k \in HandlerKeys, NEW code \in Status \cup {0}, OthersFail(k, code)
      PROVE  BreakerInv' /\ WorldInv'
  BY <1>1, <1>2, <1>5, FailureKeeps, WorldRests DEF OthersFail, syncVars
<1>6. ASSUME NEW m \in Model, OthersDraw(m)
      PROVE  BreakerInv' /\ WorldInv'
  <2>1. select_available(m) /\ UNCHANGED <<now, breakerVars>> /\ UNCHANGED <<sticky, syncVars>>
    BY <1>2, <1>6 DEF OthersDraw, select_available, syncVars
  <2>2. QED
    BY <1>1, <2>1, BreakerRests, SelectionKeepsWorld
<1>7. ASSUME NEW k \in HandlerKeys, ElsewhereBans(k)
      PROVE  BreakerInv' /\ WorldInv'
  <2>1. sync_bans' = [sync_bans EXCEPT ![k] = now + SyncBanTtl] /\ now + SyncBanTtl \in Nat
        /\ UNCHANGED <<breakerVars, counters, sync_sticky>>
    BY <1>1, <1>7, ProxyAssumption DEF ElsewhereBans
  <2>2. WorldInv'
    BY <1>1, <1>2, <2>1 DEF WorldInv, RouterTypeOK
  <2>3. QED
    BY <1>1, <1>2, <2>1, <2>2, BreakerRests
<1>8. ASSUME NEW s \in Session, NEW m \in Model, NEW i \in Index(m), ElsewhereBinds(s, i)
      PROVE  BreakerInv' /\ WorldInv'
  <2>1. sync_sticky' = [sync_sticky EXCEPT ![s] = i] /\ i \in Nat
        /\ UNCHANGED <<breakerVars, counters, sync_bans>>
    BY <1>8, TotalsOK DEF ElsewhereBinds, Index
  <2>2. WorldInv'
    BY <1>1, <1>2, <2>1 DEF WorldInv, RouterTypeOK
  <2>3. QED
    BY <1>1, <1>2, <2>1, <2>2, BreakerRests
<1>9. CASE OthersHere
  BY <1>2, <1>3, <1>4, <1>5, <1>6, <1>9 DEF OthersHere, F2B!NetworkError
<1>10. CASE Elsewhere
  BY <1>2, <1>7, <1>8, <1>10 DEF Elsewhere
<1>11. QED
  BY <1>9, <1>10

\* HNext: a step of a request, one of the background, or one of others.
LEMMA StepsOfHNext ==
  ASSUME HNext
  PROVE  /\ Remember
         /\ \/ \E r \in Request : Arrive(r) \/ Handle(r) \/ Timeout(r)
            \/ \E t \in spawned : PublishBan(t) \/ PublishBinding(t)
            \/ \E s \in Session : SyncBindingExpires(s)
            \/ Tick
            \/ OthersHere \/ Elsewhere
BY DEF HNext, Handle, Answer, OthersHere, Elsewhere

LEMMA InvStep == Inv /\ [HNext]_hvars => Inv'
<1> SUFFICES ASSUME Inv, [HNext]_hvars PROVE Inv'
  OBVIOUS
<1>1. CASE UNCHANGED hvars
  <2>1. UNCHANGED <<now, breakerVars>> /\ UNCHANGED <<counters, sticky, syncVars>>
    BY <1>1 DEF hvars, vars
  <2>2. HandlersInv'
    BY <1>1 DEF Inv, HandlersInv, hvars, vars, breakerVars, Free, F2B!Banned
  <2>3. QED
    BY <2>1, <2>2, BreakerRests, WorldRests DEF Inv
<1>2. CASE HNext
  <2>1. Remember
    BY <1>2, StepsOfHNext
  <2>2. CASE \E r \in Request : Arrive(r) \/ Handle(r) \/ Timeout(r)
    <3>1. PICK r \in Request : Arrive(r) \/ Handle(r) \/ Timeout(r)
      BY <2>2
    <3>2. BreakerInv' /\ WorldInv'
      BY <3>1, SharedStateKept
    <3>3. HandlersInv /\ WorldInv
      BY DEF Inv
    <3>4. CASE Arrive(r)
      BY <2>1, <3>2, <3>3, <3>4, ArriveMoves DEF Inv
    <3>5. CASE Collect(r)
      BY <2>1, <3>2, <3>3, <3>5, CollectMoves DEF Inv
    <3>6. CASE CollectSync(r)
      BY <2>1, <3>2, <3>3, <3>6, CollectSyncMoves DEF Inv
    <3>7. CASE Collected(r)
      BY <2>1, <3>2, <3>3, <3>7, CollectedMoves DEF Inv
    <3>8. CASE Sticky(r)
      BY <2>1, <3>2, <3>3, <3>8, StickyMoves DEF Inv
    <3>9. CASE StickyRemove(r)
      BY <2>1, <3>2, <3>3, <3>9, StickyRemoveMoves DEF Inv
    <3>10. CASE StickySync(r)
      BY <2>1, <3>2, <3>3, <3>10, StickySyncMoves DEF Inv
    <3>11. CASE Select(r)
      BY <2>1, <3>2, <3>3, <3>11, SelectMoves DEF Inv
    <3>12. CASE SelectNext(r)
      BY <2>1, <3>2, <3>3, <3>12, SelectNextMoves DEF Inv
    <3>13. CASE CheckLimits(r)
      BY <2>1, <3>2, <3>3, <3>13, CheckLimitsMoves DEF Inv
    <3>14. CASE Attempt(r)
      BY <2>1, <3>2, <3>3, <3>14, AttemptMoves DEF Inv
    <3>15. CASE \E status \in Status : UpstreamStatus(r, status)
      BY <2>1, <3>2, <3>3, <3>15, UpstreamStatusMoves DEF Inv
    <3>16. CASE NetworkError(r)
      BY <2>1, <3>2, <3>3, <3>16, NetworkErrorMoves DEF Inv
    <3>17. CASE StreamNetworkError(r)
      BY <2>1, <3>2, <3>3, <3>17, StreamNetworkErrorMoves DEF Inv
    <3>18. CASE Finish(r)
      BY <2>1, <3>2, <3>3, <3>18, FinishMoves DEF Inv
    <3>19. CASE Timeout(r)
      BY <2>1, <3>2, <3>3, <3>19, TimeoutMoves DEF Inv
    <3>20. CASE Touch(r)
      BY <2>1, <3>2, <3>3, <3>20, TouchMoves DEF Inv
    <3>21. QED
      BY <3>1, <3>4, <3>5, <3>6, <3>7, <3>8, <3>9, <3>10, <3>11, <3>12, <3>13, <3>14,
         <3>15, <3>16, <3>17, <3>18, <3>19, <3>20 DEF Handle, Answer
  <2>3. CASE \/ \E t \in spawned : PublishBan(t) \/ PublishBinding(t)
             \/ \E s \in Session : SyncBindingExpires(s)
             \/ Tick
             \/ OthersHere \/ Elsewhere
    <3>1. BreakerInv' /\ WorldInv' /\ UNCHANGED <<pc, call>>
      BY <2>3, BackgroundKeeps, OthersKeep
    <3>2. HandlersInv'
      BY <2>1, <3>1, NobodyMoves DEF Inv
    <3>3. QED
      BY <3>1, <3>2 DEF Inv
  <2>4. QED
    BY <1>2, <2>2, <2>3, StepsOfHNext
<1>3. QED
  BY <1>1, <1>2

LEMMA InvAlways == HSpec => []Inv
BY InvInit, InvStep, PTL DEF HSpec

-----------------------------------------------------------------------------
(* The theorems.                                                           *)

(* The breaker, the counters, both session stores, Redis, the tasks left   *)
(* behind and every handler's variables keep their types, whatever the     *)
(* requests and upstreams do.                                              *)
THEOREM TypesKept == HSpec => []TypeOK
<1>1. HInit => others \in Nat
  BY DEF HInit, Init
<1>2. others \in Nat /\ [HNext]_hvars => (others \in Nat)'
  <2> SUFFICES ASSUME others \in Nat, [HNext]_hvars PROVE others' \in Nat
    OBVIOUS
  <2>1. CASE UNCHANGED others
    BY <2>1
  <2>2. CASE OthersHere \/ Elsewhere
    <3>1. others' = others + 1
      BY <2>2 DEF OthersHere, Elsewhere, OthersMove, OthersLook, OthersSucceed, OthersFail,
                  CheckerResets, OthersDraw, ElsewhereBans, ElsewhereBinds
    <3>2. QED
      BY <3>1
  <2>3. ASSUME NEW r \in Request, Arrive(r) \/ Handle(r) \/ Timeout(r) PROVE UNCHANGED others
    BY <2>3 DEF Arrive, Handle, Answer, Timeout, Collect, CollectSync, Collected, Sticky,
                StickyRemove, StickySync, Touch, Select, SelectNext, CheckLimits, Attempt,
                UpstreamStatus, NetworkError, StreamNetworkError, Finish
  <2>4. CASE UNCHANGED hvars
    BY <2>1, <2>4 DEF hvars, vars
  <2>5. ASSUME \/ \E t \in spawned : PublishBan(t) \/ PublishBinding(t)
               \/ \E s \in Session : SyncBindingExpires(s)
               \/ Tick
        PROVE  UNCHANGED others
    BY <2>5 DEF PublishBan, PublishBinding, SyncBindingExpires, Tick
  <2>6. QED
    BY <2>1, <2>2, <2>3, <2>4, <2>5, StepsOfHNext
<1>3. Inv /\ others \in Nat => TypeOK
  BY DEF Inv, BreakerInv, WorldInv, HandlersInv, TypeOK
<1>4. QED
  BY <1>1, <1>2, <1>3, InvAlways, PTL DEF HSpec

(* No binding - the session's own, one another model made, or one read     *)
(* from Redis - sends a request past the end of its model's endpoints.     *)
THEOREM EndpointsStayInModel == HSpec => []EndpointInModel
<1>1. Inv => EndpointInModel
  BY DEF Inv, HandlersInv, CallInv, EndpointInModel, Placed
<1>2. QED
  BY <1>1, InvAlways, PTL

(* balancer.rs line 66: where keys have at most six characters, no request *)
(* is sent to an endpoint its handler saw banned or has tried, by binding, *)
(* selection or retry, however many requests interleave.                   *)
THEOREM ShortKeysNeverSentToExcluded ==
  ASSUME AllKeysShort
  PROVE  HSpec => []NeverSentToExcluded
<1>1. Inv => NeverSentToExcluded
  BY DEF Inv, HandlersInv, CallInv, NeverSentToExcluded, Key, KeyAt, CallKey, Excluded
<1>2. QED
  BY <1>1, InvAlways, PTL

(* Where keys have at most six characters, a request goes to no endpoint   *)
(* that was banned all the time since it arrived.                          *)
THEOREM ShortKeysAvoidTheBanned ==
  ASSUME AllKeysShort
  PROVE  HSpec => []BannedThroughoutIsAvoided
<1>1. Inv => BannedThroughoutIsAvoided
  <2> SUFFICES ASSUME Inv, NEW r \in Request, pc[r] = "sent"
               PROVE  Key(r) \in free_since[r]
    BY DEF BannedThroughoutIsAvoided
  <2>1. CallInv("sent", call[r], free_since[r]) /\ call[r] \in Calls
    BY DEF Inv, HandlersInv
  <2>2. /\ call[r].current \in 0..(call[r].scanned - 1)
        /\ HandlerKey(call[r].model, call[r].current) \notin call[r].banned_keys
    BY <2>1 DEF CallInv, Early, Over, Placed, Index, CallKey
  <2>3. QED
    BY <2>1, <2>2 DEF CallInv, Key, KeyAt
<1>2. QED
  BY <1>1, InvAlways, PTL

(* types.rs line 183: where keys have at most six characters and no        *)
(* request streams, a request that may retry is answered with an error     *)
(* only when every endpoint of its model was seen banned or has been tried.*)
THEOREM ShortKeysGiveUpOnlyWhenExhausted ==
  ASSUME AllKeysShort, TRUE \notin MayStream
  PROVE  HSpec => []GivesUpOnlyWhenExhausted
<1>1. Inv => GivesUpOnlyWhenExhausted
  <2> SUFFICES ASSUME Inv, NEW r \in Request, call[r].retry, call[r].reply \in Errors,
                      NEW i \in Index(call[r].model)
               PROVE  KeyAt(r, i) \in Excluded(r)
    BY DEF GivesUpOnlyWhenExhausted, Errors
  <2>1. CallInv(pc[r], call[r], free_since[r]) /\ call[r] \in Calls
    BY DEF Inv, HandlersInv
  <2>2. ~call[r].stream
    BY <2>1 DEF CallInv, Calls
  <2>3. Exhausted(call[r])
    BY <2>1, <2>2 DEF CallInv
  <2>4. QED
    BY <2>3 DEF Exhausted, KeysOf, KeyAt, Excluded
<1>2. QED
  BY <1>1, InvAlways, PTL

-----------------------------------------------------------------------------
(* "All endpoints banned".                                                 *)

\* Every endpoint was seen banned, and no two of them share a key.
AllSeen(c) ==
  KeysOf(c.model) \subseteq c.banned_keys /\ Cardinality(KeysOf(c.model)) = Total(c.model)

AllBannedIsExact == \A r \in Request : call[r].reply = "all_banned" => AllSeen(call[r])

\* How a step may change what a handler holds.
Onward(c, d) ==
  /\ d.model = c.model /\ c.banned_keys \subseteq d.banned_keys
  /\ d.reply = "all_banned" => c.reply = "all_banned" \/ AllSeen(c)

LEMMA OnwardStays == \A c : Onward(c, c)
BY DEF Onward

LEMMA OnwardOfOne ==
  ASSUME HandlersInv, NEW r \in Request, NEW d, call' = [call EXCEPT ![r] = d], Onward(call[r], d)
  PROVE  \A q \in Request : Onward(call[q], call'[q])
<1>1. \A q \in Request : call'[q] = IF q = r THEN d ELSE call[q]
  BY DEF HandlersInv
<1>2. QED
  BY <1>1, OnwardStays

LEMMA ReplyOnward ==
  ASSUME HandlersInv, NEW r \in Request, NEW reply, Reply(r, reply),
         reply = "all_banned" => AllSeen(call[r])
  PROVE  \A q \in Request : Onward(call[q], call'[q])
<1> DEFINE d == [call[r] EXCEPT !.reply = reply]
<1>1. call[r] \in Calls
  BY DEF HandlersInv
<1>2. call' = [call EXCEPT ![r] = d]
  BY DEF Reply, HandlersInv
<1>3. d.model = call[r].model /\ d.banned_keys = call[r].banned_keys /\ d.reply = reply
  BY <1>1 DEF Calls
<1> HIDE DEF d
<1>4. Onward(call[r], d)
  BY <1>3 DEF Onward
<1>5. QED
  BY <1>2, <1>4, OnwardOfOne

\* The handler looks at one more endpoint, and collects its key or not.
LEMMA ScanOnward ==
  ASSUME HandlersInv, NEW r \in Request, NEW B,
         \/ call' = [call EXCEPT ![r].scanned = @ + 1, ![r].banned_keys = @ \cup B]
         \/ call' = [call EXCEPT ![r].scanned = @ + 1]
  PROVE  \A q \in Request : Onward(call[q], call'[q])
<1> DEFINE c == call[r]
           d == [c EXCEPT !.scanned = @ + 1, !.banned_keys = @ \cup B]
           e == [c EXCEPT !.scanned = @ + 1]
<1>1. c \in Calls
  BY DEF HandlersInv
<1>2. call' = [call EXCEPT ![r] = d] \/ call' = [call EXCEPT ![r] = e]
  BY DEF HandlersInv
<1>3. d.model = c.model /\ d.banned_keys = c.banned_keys \cup B /\ d.reply = c.reply
  BY <1>1 DEF Calls
<1>4. e.model = c.model /\ e.banned_keys = c.banned_keys /\ e.reply = c.reply
  BY <1>1 DEF Calls
<1> HIDE DEF d, e
<1>5. Onward(c, d) /\ Onward(c, e)
  BY <1>1, <1>3, <1>4 DEF Onward
<1>6. QED
  BY <1>2, <1>5, OnwardOfOne

\* The handler chooses an endpoint, or gives up on one.
LEMMA ChoiceOnward ==
  ASSUME HandlersInv, NEW r \in Request,
         \/ \E i : call' = [call EXCEPT ![r].current = i]
         \/ \E T, why : call' = [call EXCEPT ![r].tried_keys = @ \cup T, ![r].last = why]
  PROVE  \A q \in Request : Onward(call[q], call'[q])
<1>1. call[r] \in Calls
  BY DEF HandlersInv
<1>2. CASE \E i : call' = [call EXCEPT ![r].current = i]
  <2>1. PICK i : call' = [call EXCEPT ![r].current = i]
    BY <1>2
  <2> DEFINE d == [call[r] EXCEPT !.current = i]
  <2>2. call' = [call EXCEPT ![r] = d]
    BY <2>1 DEF HandlersInv
  <2>3. d.model = call[r].model /\ d.banned_keys = call[r].banned_keys /\ d.reply = call[r].reply
    BY <1>1 DEF Calls
  <2> HIDE DEF d
  <2>4. Onward(call[r], d)
    BY <2>3 DEF Onward
  <2>5. QED
    BY <2>2, <2>4, OnwardOfOne
<1>3. CASE \E T, why : call' = [call EXCEPT ![r].tried_keys = @ \cup T, ![r].last = why]
  <2>1. PICK T, why : call' = [call EXCEPT ![r].tried_keys = @ \cup T, ![r].last = why]
    BY <1>3
  <2> DEFINE d == [call[r] EXCEPT !.tried_keys = @ \cup T, !.last = why]
  <2>2. call' = [call EXCEPT ![r] = d]
    BY <2>1 DEF HandlersInv
  <2>3. d.model = call[r].model /\ d.banned_keys = call[r].banned_keys /\ d.reply = call[r].reply
    BY <1>1 DEF Calls
  <2> HIDE DEF d
  <2>4. Onward(call[r], d)
    BY <2>3 DEF Onward
  <2>5. QED
    BY <2>2, <2>4, OnwardOfOne
<1>4. QED
  BY <1>2, <1>3

LEMMA StepsOnward ==
  ASSUME Inv, NEW r \in Request, Arrive(r) \/ Handle(r) \/ Timeout(r)
  PROVE  \A q \in Request : Onward(call[q], call'[q])
<1>1. HandlersInv /\ CallInv(pc[r], call[r], free_since[r]) /\ call[r] \in Calls
  BY DEF Inv, HandlersInv
<1>2. UNCHANGED call => \A q \in Request : Onward(call[q], call'[q])
  BY OnwardStays
<1>3. CASE Arrive(r) \/ StickyRemove(r) \/ Touch(r)
  BY <1>2, <1>3 DEF Arrive, StickyRemove, Touch
<1>4. CASE Collect(r) \/ CollectSync(r)
  <2> DEFINE k == KeyAt(r, call[r].scanned)
  <2>1. \/ UNCHANGED call
        \/ call' = [call EXCEPT ![r].scanned = @ + 1, ![r].banned_keys = @ \cup {k}]
        \/ call' = [call EXCEPT ![r].scanned = @ + 1]
    BY <1>4 DEF Collect, CollectSync
  <2> HIDE DEF k
  <2>2. QED
    BY <1>1, <1>2, <2>1, ScanOnward
<1>5. CASE Collected(r)
  <2>1. /\ call[r].model \in Model
        /\ call[r].banned_keys \in SUBSET KeysOf(call[r].model)
    BY <1>1 DEF Calls, CallInv
  <2>2. CASE Total(call[r].model) > 0 /\ Cardinality(call[r].banned_keys) = Total(call[r].model)
    <3>1. KeysOf(call[r].model) \subseteq call[r].banned_keys
      BY <2>1, <2>2, AllSeenBanned
    <3>2. KeysOf(call[r].model) = call[r].banned_keys
      BY <2>1, <3>1
    <3>3. AllSeen(call[r])
      BY <2>2, <3>1, <3>2 DEF AllSeen
    <3>4. Reply(r, "all_banned")
      BY <1>5, <2>2 DEF Collected
    <3>5. QED
      BY <1>1, <3>3, <3>4, ReplyOnward
  <2>3. CASE ~(Total(call[r].model) > 0 /\ Cardinality(call[r].banned_keys) = Total(call[r].model))
    BY <1>2, <1>5, <2>3 DEF Collected
  <2>4. QED
    BY <2>2, <2>3
<1>6. CASE Sticky(r) \/ StickySync(r)
  <2>1. UNCHANGED call \/ \E i : call' = [call EXCEPT ![r].current = i]
    BY <1>6 DEF Sticky, StickySync, Follow
  <2>2. QED
    BY <1>1, <1>2, <2>1, ChoiceOnward
<1>7. CASE Select(r) \/ SelectNext(r)
  <2>1. \/ \E i : call' = [call EXCEPT ![r].current = i]
        \/ Reply(r, "no_endpoint")
        \/ pc[r] = "next" /\ Reply(r, call[r].last)
    BY <1>7 DEF Select, SelectNext
  <2>2. pc[r] = "next" => call[r].last # "all_banned"
    BY <1>1 DEF CallInv
  <2>3. QED
    BY <1>1, <2>1, <2>2, ChoiceOnward, ReplyOnward
<1>8. CASE CheckLimits(r) \/ Attempt(r) \/ Answer(r) \/ Finish(r) \/ Timeout(r)
  <2>1. \/ UNCHANGED call
        \/ \E reply : Reply(r, reply) /\ reply # "all_banned"
        \/ \E why : GiveUpOn(r, why)
    BY <1>8 DEF CheckLimits, Attempt, Answer, UpstreamStatus, NetworkError, StreamNetworkError,
                Finish, Timeout
  <2>2. (\E why : GiveUpOn(r, why)) =>
          \E T, why : call' = [call EXCEPT ![r].tried_keys = @ \cup T, ![r].last = why]
    BY DEF GiveUpOn
  <2>3. QED
    BY <1>1, <1>2, <2>1, <2>2, ChoiceOnward, ReplyOnward
<1>9. QED
  BY <1>3, <1>4, <1>5, <1>6, <1>7, <1>8 DEF Handle

LEMMA OnwardKeepsExact ==
  ASSUME Inv, Inv', AllBannedIsExact, \A q \in Request : Onward(call[q], call'[q])
  PROVE  AllBannedIsExact'
<1> SUFFICES ASSUME NEW q \in Request, call'[q].reply = "all_banned"
             PROVE  AllSeen(call'[q])
  BY DEF AllBannedIsExact
<1>1. Onward(call[q], call'[q]) /\ AllSeen(call[q])
  BY DEF Onward, AllBannedIsExact
<1>2. QED
  BY <1>1 DEF Onward, AllSeen

(* handler.rs line 238: "all endpoints are banned" is answered only when   *)
(* the handler saw every endpoint of the model banned, whether or not it   *)
(* may retry and however long the keys are.                                *)
THEOREM AllBannedMeansAll == HSpec => []AllBannedIsExact
<1>1. HInit => AllBannedIsExact
  <2> SUFFICES ASSUME HInit, NEW r \in Request PROVE call[r].reply # "all_banned"
    BY DEF AllBannedIsExact
  <2>1. Inv /\ pc[r] = "idle"
    BY InvInit DEF HInit, Init
  <2>2. QED
    BY <2>1 DEF Inv, HandlersInv, CallInv, NoReply
<1>2. Inv /\ Inv' /\ AllBannedIsExact /\ [HNext]_hvars => AllBannedIsExact'
  <2> SUFFICES ASSUME Inv, Inv', AllBannedIsExact, [HNext]_hvars PROVE AllBannedIsExact'
    OBVIOUS
  <2>1. ASSUME UNCHANGED call PROVE \A q \in Request : Onward(call[q], call'[q])
    BY <2>1, OnwardStays
  <2>2. UNCHANGED hvars => UNCHANGED call
    BY DEF hvars, vars
  <2>3. ASSUME \/ \E t \in spawned : PublishBan(t) \/ PublishBinding(t)
               \/ \E s \in Session : SyncBindingExpires(s)
               \/ Tick
               \/ OthersHere \/ Elsewhere
        PROVE  UNCHANGED call
    BY <2>3, BackgroundKeeps, OthersKeep
  <2>4. \A q \in Request : Onward(call[q], call'[q])
    BY <2>1, <2>2, <2>3, StepsOnward, StepsOfHNext
  <2>5. QED
    BY <2>4, OnwardKeepsExact
<1>3. QED
  BY <1>1, <1>2, InvAlways, PTL DEF HSpec

(* The test counts keys against endpoints: where two endpoints of a model  *)
(* share a key (one URL, and API keys that are masked alike), the answer   *)
(* "all endpoints are banned" is never given, even when they all are.      *)
THEOREM SharedKeysAreNeverAllBanned ==
  ASSUME NEW m \in Model, NEW i \in Index(m), NEW j \in Index(m), i # j,
         HandlerKey(m, i) = HandlerKey(m, j)
  PROVE  HSpec => [](\A r \in Request : call[r].model = m => call[r].reply # "all_banned")
<1>1. Cardinality(KeysOf(m)) # Total(m)
  <2> DEFINE rest == Index(m) \ {j}
             f == [k \in rest |-> HandlerKey(m, k)]
  <2>1. Total(m) \in Nat
    BY TotalsOK
  <2>2. IsFiniteSet(Index(m)) /\ Cardinality(Index(m)) = Total(m)
    BY <2>1, FS_Interval DEF Index
  <2>3. IsFiniteSet(rest) /\ Cardinality(rest) = Total(m) - 1
    BY <2>2, FS_RemoveElement
  <2>4. f \in Surjection(rest, KeysOf(m))
    <3>1. \A k \in Index(m) : \E n \in rest : HandlerKey(m, n) = HandlerKey(m, k)
      OBVIOUS
    <3>2. QED
      BY <3>1 DEF Surjection, KeysOf
  <2>5. IsFiniteSet(KeysOf(m)) /\ Cardinality(KeysOf(m)) <= Cardinality(rest)
    BY <2>3, <2>4, FS_Surjection
  <2>6. Cardinality(KeysOf(m)) \in Nat
    BY <2>5, FS_CardinalityType
  <2>7. QED
    BY <2>1, <2>3, <2>5, <2>6
<1>2. AllBannedIsExact => \A r \in Request : call[r].model = m => call[r].reply # "all_banned"
  BY <1>1 DEF AllBannedIsExact, AllSeen
<1>3. QED
  BY <1>2, AllBannedMeansAll, PTL

-----------------------------------------------------------------------------
(* Composition: the handlers use the breaker through its operations, so    *)
(* that what is proved of the breaker under any callers holds with them.   *)

\* What a step of the handlers, Redis, others or the clock is to the breaker.
BreakerStep ==
  \/ UNCHANGED <<now, breakerVars>>
  \/ F2B!Tick
  \/ \E k \in HandlerKeys :
       F2B!IsBanned(k) \/ F2B!Success(k) \/ F2B!Failure(k) \/ (F2B!Reset(k) /\ CheckerResets(k))

LEMMA AnswersAreReported ==
  ASSUME Inv, NEW r \in Request, Answer(r)
  PROVE  BreakerStep
<1>1. pc[r] = "sent" /\ UNCHANGED now
  BY DEF Answer, UpstreamStatus, NetworkError, StreamNetworkError
<1>2. Key(r) \in HandlerKeys
  BY <1>1, PlacedKey DEF Inv, Placed
<1>3. F2B!MayRecord(Key(r))
  BY <1>1 DEF Answer, Room, F2B!MayRecord
<1>4. CASE \E status \in Status : UpstreamStatus(r, status)
  <2>1. PICK status \in Status : UpstreamStatus(r, status)
    BY <1>4
  <2>2. CASE F2B!is_fail_status(status)
    <3>1. F2B!record_failure_with_code(Key(r), status)
      BY <2>1, <2>2 DEF UpstreamStatus
    <3>2. F2B!Failure(Key(r))
      BY <1>1, <1>3, <2>2, <3>1 DEF F2B!Failure, F2B!MayCountAsFailure
    <3>3. QED
      BY <1>2, <3>2 DEF BreakerStep
  <2>3. CASE ~F2B!is_fail_status(status)
    <3>1. F2B!record_success(Key(r))
      BY <2>1, <2>3 DEF UpstreamStatus
    <3>2. F2B!Success(Key(r))
      BY <1>1, <1>3, <3>1 DEF F2B!Success
    <3>3. QED
      BY <1>2, <3>2 DEF BreakerStep
  <2>4. QED
    BY <2>2, <2>3
<1>5. CASE NetworkError(r)
  <2>1. F2B!Failure(Key(r))
    BY <1>1, <1>3, <1>5 DEF NetworkError, F2B!Failure
  <2>2. QED
    BY <1>2, <2>1 DEF BreakerStep
<1>6. CASE StreamNetworkError(r)
  BY <1>6 DEF StreamNetworkError, BreakerStep
<1>7. QED
  BY <1>4, <1>5, <1>6 DEF Answer

LEMMA OthersUseTheBreaker ==
  ASSUME OthersHere \/ Elsewhere
  PROVE  BreakerStep
<1>1. UNCHANGED now
  BY DEF OthersHere, Elsewhere, OthersMove, OthersLook, OthersSucceed, OthersFail, CheckerResets,
         OthersDraw, ElsewhereBans, ElsewhereBinds
<1>2. ASSUME NEW k \in HandlerKeys
      PROVE  /\ OthersLook(k) => F2B!IsBanned(k)
             /\ OthersSucceed(k) => F2B!Success(k)
             /\ CheckerResets(k) => F2B!Reset(k)
  BY <1>1 DEF OthersLook, F2B!IsBanned, OthersSucceed, F2B!Success, CheckerResets, F2B!Reset
<1>3. ASSUME NEW k \in HandlerKeys, OthersFail(k, F2B!NetworkError) PROVE F2B!Failure(k)
  BY <1>1, <1>3 DEF OthersFail, F2B!Failure, F2B!record_failure
<1>4. ASSUME NEW k \in HandlerKeys, NEW status \in Status, F2B!MayCountAsFailure(status),
             OthersFail(k, status)
      PROVE  F2B!Failure(k)
  BY <1>1, <1>4 DEF OthersFail, F2B!Failure
<1>5. ASSUME \/ \E m \in Model : OthersDraw(m)
             \/ Elsewhere
      PROVE  UNCHANGED <<now, breakerVars>>
  BY <1>1, <1>5 DEF OthersDraw, Elsewhere, ElsewhereBans, ElsewhereBinds
<1>6. CASE OthersHere
  BY <1>2, <1>3, <1>4, <1>5, <1>6 DEF OthersHere, BreakerStep
<1>7. QED
  BY <1>5, <1>6 DEF BreakerStep

LEMMA StepsOfTheBreaker == Inv /\ [HNext]_hvars => BreakerStep
<1> SUFFICES ASSUME Inv, [HNext]_hvars PROVE BreakerStep
  OBVIOUS
<1>1. CASE UNCHANGED hvars
  BY <1>1 DEF hvars, vars, BreakerStep
<1>2. ASSUME NEW r \in Request, Collect(r) PROVE BreakerStep
  <2> DEFINE k == KeyAt(r, call[r].scanned)
  <2>1. call[r].scanned < Total(call[r].model) /\ call[r].scanned \in Nat /\ call[r].model \in Model
    BY <1>2 DEF Collect, Inv, HandlersInv, Calls
  <2>2. k \in HandlerKeys
    BY <2>1, KeyIn DEF KeyAt
  <2>3. F2B!IsBanned(k)
    BY <1>2 DEF Collect, F2B!IsBanned
  <2>4. QED
    BY <2>2, <2>3 DEF BreakerStep
<1>3. ASSUME NEW r \in Request,
             \/ Arrive(r) \/ CollectSync(r) \/ Collected(r) \/ CheckLimits(r) \/ Attempt(r)
             \/ Sticky(r) \/ StickyRemove(r) \/ StickySync(r) \/ Touch(r) \/ Select(r)
             \/ SelectNext(r) \/ Finish(r) \/ Timeout(r)
      PROVE  BreakerStep
  <2>1. UNCHANGED <<now, breakerVars>>
    BY <1>3 DEF Arrive, CollectSync, Collected, CheckLimits, Attempt, Sticky, StickyRemove,
                StickySync, Touch, Select, SelectNext, Finish, Timeout
  <2>2. QED
    BY <2>1 DEF BreakerStep
<1>4. ASSUME \/ \E t \in spawned : PublishBan(t) \/ PublishBinding(t)
             \/ \E s \in Session : SyncBindingExpires(s)
      PROVE  BreakerStep
  BY <1>4 DEF PublishBan, PublishBinding, SyncBindingExpires, BreakerStep
<1>5. ASSUME Tick PROVE BreakerStep
  BY <1>5 DEF Tick, F2B!Tick, BreakerStep, breakerVars, F2B!breakerVars
<1>6. ASSUME NEW r \in Request, Arrive(r) \/ Handle(r) \/ Timeout(r) PROVE BreakerStep
  BY <1>2, <1>3, <1>6, AnswersAreReported DEF Handle
<1>7. QED
  BY <1>1, <1>4, <1>5, <1>6, OthersUseTheBreaker, StepsOfHNext

(* Whatever requests are in progress beside the generic proxy and the      *)
(* health checker, the breaker sees a behaviour its own specification      *)
(* allows: looks, successes, failures of a status that counts as one, and  *)
(* resets, of an endpoint of a model; so the theorems about the breaker    *)
(* apply to all of them together.                                          *)
THEOREM HandlersUseTheBreaker == HSpec => F2B!Spec
<1>1. HInit => F2B!Init
  BY DEF HInit, Init
<1>2. BreakerStep => [F2B!Next]_(F2B!vars)
  BY DEF BreakerStep, F2B!Next, F2B!vars, F2B!breakerVars, breakerVars
<1>3. QED
  BY <1>1, <1>2, StepsOfTheBreaker, InvAlways, PTL DEF HSpec, F2B!Spec

\* The theorems about the breaker; those used here do not speak of its history.
Breaker == INSTANCE BreakerProofs
  WITH EndpointKey <- HandlerKeys, streak <- consecutive_failures, last_failure <- banned_until

LEMMA BreakerAlike ==
  /\ Breaker!Fail2banAssumption
  /\ F2B!Spec => Breaker!Spec
<1>1. Breaker!Fail2banAssumption
  BY BreakerAssumption DEF F2B!Fail2banAssumption, Breaker!Fail2banAssumption
<1>2. F2B!Init => Breaker!Init
  BY DEF F2B!Init, F2B!BreakerInit, F2B!None, Breaker!Init, Breaker!BreakerInit, Breaker!None
<1>3. F2B!Next => Breaker!Next
  <2>1. F2B!Tick => Breaker!Tick
    BY DEF F2B!Tick, Breaker!Tick, F2B!breakerVars, Breaker!breakerVars
  <2>2. ASSUME NEW k \in HandlerKeys
        PROVE  /\ F2B!IsBanned(k) => Breaker!IsBanned(k)
               /\ F2B!Reset(k) => Breaker!Reset(k)
    BY DEF F2B!IsBanned, F2B!is_banned, F2B!Banned, F2B!None, F2B!breakerVars, F2B!Reset, F2B!reset,
           Breaker!IsBanned, Breaker!is_banned, Breaker!Banned, Breaker!None, Breaker!breakerVars,
           Breaker!Reset, Breaker!reset
  <2>3. ASSUME NEW k \in HandlerKeys, F2B!Success(k) PROVE Breaker!Success(k)
    BY <2>3 DEF F2B!Success, F2B!record_success, F2B!MayRecord,
                Breaker!Success, Breaker!record_success, Breaker!MayRecord
  <2>4. ASSUME NEW k \in HandlerKeys, F2B!Failure(k) PROVE Breaker!Failure(k)
    <3>1. F2B!JustBanned(k) <=> Breaker!JustBanned(k)
      BY DEF F2B!JustBanned, F2B!RateExceeded, F2B!MinSample,
             Breaker!JustBanned, Breaker!RateExceeded, Breaker!MinSample
    <3>2. \A code : F2B!record_failure_with_code(k, code) => Breaker!record_failure_with_code(k, code)
      BY <3>1 DEF F2B!record_failure_with_code, Breaker!record_failure_with_code
    <3>3. QED
      BY <2>4, <3>2 DEF F2B!Failure, F2B!MayRecord, F2B!record_failure, F2B!NetworkError,
                        F2B!is_fail_status, F2B!MayCountAsFailure,
                        Breaker!MayCountAsFailure, Breaker!Failure, Breaker!MayRecord,
                        Breaker!record_failure, Breaker!NetworkError, Breaker!is_fail_status
  <2>5. QED
    BY <2>1, <2>2, <2>3, <2>4 DEF F2B!Next, Breaker!Next
<1>4. [F2B!Next]_(F2B!vars) => [Breaker!Next]_(Breaker!vars)
  BY <1>3 DEF F2B!vars, F2B!breakerVars, Breaker!vars, Breaker!breakerVars
<1>5. QED
  BY <1>1, <1>2, <1>4, PTL DEF F2B!Spec, Breaker!Spec

(* In the whole handler no count that reached the threshold is left        *)
(* without its ban: Collect of one request may end a ban between any two   *)
(* steps of others.                                                        *)
THEOREM ThresholdBansInHandlers == HSpec => []F2B!ThresholdHasBan
<1>1. Breaker!ThresholdHasBan => F2B!ThresholdHasBan
  BY DEF Breaker!ThresholdHasBan, F2B!ThresholdHasBan, Breaker!None, F2B!None
<1>2. Breaker!Spec => []Breaker!ThresholdHasBan
  BY BreakerAlike, Breaker!ThresholdBan
<1>3. QED
  BY <1>1, <1>2, BreakerAlike, HandlersUseTheBreaker, PTL

(* In the whole handler every failure in a row is counted as a failure and *)
(* every failure as a request.                                             *)
THEOREM CountersNestInHandlers == HSpec => []F2B!CountersNest
<1>1. Breaker!CountersNest => F2B!CountersNest
  BY DEF Breaker!CountersNest, F2B!CountersNest
<1>2. Breaker!Spec => []Breaker!CountersNest
  BY BreakerAlike, Breaker!CountersAlwaysNest
<1>3. QED
  BY <1>1, <1>2, BreakerAlike, HandlersUseTheBreaker, PTL

(* The checker's reset alone shortens a ban that runs: not the success of  *)
(* a request that was in flight when the ban was set, of either proxy, nor *)
(* another failure, nor a look at it.                                      *)
THEOREM NoRequestLiftsABan == HSpec => RequestsLiftNoBan
<1>1. ASSUME Inv, BreakerStep, NEW j \in HandlerKeys, F2B!Banned(j)
      PROVE  banned_until'[j] >= banned_until[j] \/ CheckerResets(j)
  <2>1. /\ BreakerInv /\ F2B!TypeOK /\ now \in Nat /\ BanDuration \in Nat
        /\ banned_until[j] \in Nat /\ banned_until[j] <= now + BanDuration
    BY <1>1, BreakerAssumption DEF Inv, BreakerInv, F2B!TypeOK, F2B!Banned, F2B!Fail2banAssumption
  <2>2. CASE UNCHANGED <<now, breakerVars>>
    BY <2>1, <2>2 DEF breakerVars
  <2>3. CASE F2B!Tick
    BY <2>1, <2>3 DEF F2B!Tick, F2B!breakerVars
  <2>4. ASSUME NEW k \in HandlerKeys, F2B!IsBanned(k) \/ F2B!Success(k)
        PROVE  banned_until'[j] >= banned_until[j]
    <3>1. SameBans
      BY <2>1, <2>4, LookKeeps, SuccessKeeps DEF F2B!IsBanned, F2B!Success
    <3>2. QED
      BY <1>1, <2>1, <3>1 DEF SameBans
  <2>5. ASSUME NEW k \in HandlerKeys, F2B!Failure(k)
        PROVE  banned_until'[j] >= banned_until[j]
    <3>1. PICK code \in Status \cup {0} : F2B!record_failure_with_code(k, code)
      BY <2>5 DEF F2B!Failure, F2B!record_failure, F2B!NetworkError
    <3>2. UNCHANGED now
      BY <2>5 DEF F2B!Failure
    <3>3. banned_until'[j] = IF j = k /\ F2B!JustBanned(k) THEN now + BanDuration ELSE banned_until[j]
      BY <2>1, <3>1, <3>2, FailureKeeps
    <3>4. QED
      BY <2>1, <3>3
  <2>6. ASSUME NEW k \in HandlerKeys, F2B!Reset(k), CheckerResets(k)
        PROVE  banned_until'[j] >= banned_until[j] \/ CheckerResets(j)
    <3>1. CASE k = j
      BY <2>6, <3>1
    <3>2. CASE k # j
      <4>1. banned_until'[j] = banned_until[j]
        BY <2>1, <2>6, <3>2, ResetKeeps DEF F2B!Reset
      <4>2. QED
        BY <2>1, <4>1
    <3>3. QED
      BY <3>1, <3>2
  <2>7. QED
    BY <1>1, <2>2, <2>3, <2>4, <2>5, <2>6 DEF BreakerStep
<1>2. Inv /\ [HNext]_hvars =>
        [\A k \in HandlerKeys :
           F2B!Banned(k) => banned_until'[k] >= banned_until[k] \/ CheckerResets(k)]_hvars
  BY <1>1, StepsOfTheBreaker
<1>3. QED
  BY <1>2, InvAlways, PTL DEF HSpec, RequestsLiftNoBan

-----------------------------------------------------------------------------
(* What Redis knows of a ban.                                              *)

\* A task is about to publish the ban of k.
Pending(k) == \E r \in Request : [by |-> r, ban |-> k] \in spawned

\* Redis holds the ban a handler set for as long as it was set, or will be
\* told, or refused to be told - also of one that others have lifted since.
SyncInv ==
  /\ handler_ban \in [HandlerKeys -> Nat \cup {Never}]
  /\ \A k \in HandlerKeys :
       /\ handler_ban[k] <= now + BanDuration
       /\ handler_ban[k] <= sync_bans[k] \/ k \in unpublished \/ Pending(k)

LEMMA SyncTypes ==
  ASSUME Inv
  PROVE  /\ now \in Nat /\ BanDuration \in Nat /\ SyncBanTtl \in Nat
         /\ sync_bans \in [HandlerKeys -> Nat \cup {Never}]
         /\ total_failures \in [HandlerKeys -> Nat]
BY BreakerAssumption, ProxyAssumption
   DEF Inv, BreakerInv, WorldInv, F2B!TypeOK, F2B!Fail2banAssumption

\* What Remember makes of the bans handlers set.
LEMMA BansRemembered ==
  ASSUME Inv, SyncInv, Remember
  PROVE  /\ handler_ban' \in [HandlerKeys -> Nat \cup {Never}]
         /\ \A k \in HandlerKeys :
              handler_ban'[k] = IF BannedByHandler(k) THEN now + BanDuration ELSE handler_ban[k]
<1>1. handler_ban' = [k \in HandlerKeys |->
        IF BannedByHandler(k) THEN now + BanDuration ELSE handler_ban[k]]
  BY DEF Remember
<1>2. \A k \in HandlerKeys : handler_ban[k] \in Nat \cup {Never} /\ now + BanDuration \in Nat
  BY SyncTypes DEF SyncInv
<1> HIDE DEF BannedByHandler
<1>3. QED
  BY <1>1, <1>2

\* No handler sets a ban unless a request moves and a failure is counted.
LEMMA NoHandlerBans ==
  ASSUME Inv, SyncInv, Remember, UNCHANGED total_failures \/ UNCHANGED pc
  PROVE  \A k \in HandlerKeys : handler_ban'[k] = handler_ban[k]
<1>1. \A k \in HandlerKeys : ~BannedByHandler(k)
  BY SyncTypes DEF BannedByHandler
<1>2. QED
  BY <1>1, BansRemembered

\* Steps that end no task: a ban set by a handler leaves one behind, and what
\* is written to Redis lasts as long as a ban set now.
LEMMA SyncKept ==
  ASSUME SyncBanTtl >= BanDuration, Inv, SyncInv, Remember,
         now' = now \/ now' = now + 1, spawned \subseteq spawned',
         \A k \in HandlerKeys :
           handler_ban'[k] = handler_ban[k] \/ (handler_ban'[k] = now + BanDuration /\ Pending(k)'),
         \A k \in HandlerKeys :
           sync_bans'[k] = sync_bans[k] \/ sync_bans'[k] = now + SyncBanTtl
  PROVE  SyncInv'
<1>1. \A k \in HandlerKeys : ~Published(k) /\ (Pending(k) => Pending(k)')
  BY DEF Published, Pending
<1>2. \A k \in HandlerKeys : k \in unpublished => k \in unpublished'
  BY <1>1 DEF Remember
<1>3. handler_ban' \in [HandlerKeys -> Nat \cup {Never}]
  BY BansRemembered
<1>4. ASSUME NEW k \in HandlerKeys
      PROVE  /\ handler_ban'[k] <= now' + BanDuration
             /\ handler_ban'[k] <= sync_bans'[k] \/ k \in unpublished' \/ Pending(k)'
  <2>1. handler_ban[k] \in Int /\ sync_bans[k] \in Int
    BY SyncTypes DEF SyncInv, Never
  <2>2. handler_ban[k] <= now + BanDuration
    BY DEF SyncInv
  <2>3. handler_ban[k] <= sync_bans[k] \/ k \in unpublished \/ Pending(k)
    BY DEF SyncInv
  <2>4. handler_ban'[k] <= now' + BanDuration
    BY <2>1, <2>2, SyncTypes
  <2>5. CASE handler_ban'[k] = handler_ban[k]
    BY <1>1, <1>2, <2>1, <2>2, <2>3, <2>5, SyncTypes
  <2>6. QED
    BY <2>4, <2>5
<1>5. QED
  BY <1>3, <1>4 DEF SyncInv

\* A failure that makes a handler's ban leaves a task behind.
LEMMA SyncKeptByFailure ==
  ASSUME SyncEnabled, SyncBanTtl >= BanDuration, Inv, SyncInv, Remember,
         NEW r \in Request, pc[r] = "sent", NEW code \in Status \cup {0},
         F2B!record_failure_with_code(Key(r), code), PublishIfBanned(r),
         UNCHANGED <<now, sync_bans>>
  PROVE  SyncInv'
<1>1. Key(r) \in HandlerKeys
  BY PlacedKey DEF Placed, Inv
<1>2. PICK k \in HandlerKeys : k = Key(r)
  BY <1>1
<1>3. \A j \in HandlerKeys : j # k => total_failures'[j] = total_failures[j]
  BY <1>2, SyncTypes DEF F2B!record_failure_with_code
<1>4. spawned \subseteq spawned' /\ (F2B!JustBanned(k) => Pending(k)')
  BY <1>2 DEF PublishIfBanned, Pending
<1>5. ASSUME NEW j \in HandlerKeys, BannedByHandler(j)
      PROVE  Pending(j)'
  BY <1>3, <1>4, <1>5, SyncTypes DEF BannedByHandler
<1>6. \A j \in HandlerKeys :
        handler_ban'[j] = handler_ban[j] \/ (handler_ban'[j] = now + BanDuration /\ Pending(j)')
  BY <1>5, BansRemembered
<1>7. QED
  BY <1>4, <1>6, SyncKept

LEMMA SyncKeptByRequest ==
  ASSUME SyncEnabled, SyncBanTtl >= BanDuration, Inv, SyncInv, Remember, NEW r \in Request,
         Arrive(r) \/ Handle(r) \/ Timeout(r)
  PROVE  SyncInv'
<1>1. CASE \E status \in Status :
             UpstreamStatus(r, status) /\ F2B!is_fail_status(status)
  <2>1. PICK status \in Status : UpstreamStatus(r, status) /\ F2B!is_fail_status(status)
    BY <1>1
  <2>2. /\ pc[r] = "sent" /\ UNCHANGED <<now, sync_bans>>
        /\ F2B!record_failure_with_code(Key(r), status) /\ PublishIfBanned(r)
    BY <2>1 DEF UpstreamStatus
  <2>3. QED
    BY <2>2, SyncKeptByFailure
<1>2. CASE NetworkError(r)
  <2>1. /\ pc[r] = "sent" /\ UNCHANGED <<now, sync_bans>>
        /\ F2B!record_failure_with_code(Key(r), 0) /\ PublishIfBanned(r)
    BY <1>2 DEF NetworkError, F2B!record_failure, F2B!NetworkError
  <2>2. QED
    BY <2>1, SyncKeptByFailure
<1>3. CASE /\ UNCHANGED <<now, total_failures, sync_bans>>
           /\ spawned \subseteq spawned'
  BY <1>3, NoHandlerBans, SyncKept
<1>4. CASE Collect(r)
  BY <1>3, <1>4 DEF Collect, F2B!is_banned, F2B!breakerVars, syncVars
<1>5. CASE \E status \in Status :
             UpstreamStatus(r, status) /\ ~F2B!is_fail_status(status)
  BY <1>3, <1>5 DEF UpstreamStatus, F2B!record_success
<1>6. CASE Finish(r)
  BY <1>3, <1>6 DEF Finish, breakerVars
<1>7. CASE \/ Arrive(r) \/ CollectSync(r) \/ Collected(r) \/ Sticky(r) \/ StickyRemove(r)
           \/ StickySync(r) \/ Touch(r) \/ Select(r) \/ SelectNext(r) \/ CheckLimits(r)
           \/ Attempt(r) \/ StreamNetworkError(r) \/ Timeout(r)
  <2>1. UNCHANGED <<now, breakerVars, syncVars>>
    BY <1>7 DEF Arrive, CollectSync, Collected, Sticky, StickyRemove, StickySync, Touch,
                Select, SelectNext, CheckLimits, Attempt, StreamNetworkError, Timeout
  <2>2. QED
    BY <1>3, <2>1 DEF breakerVars, syncVars
<1>8. QED
  BY <1>1, <1>2, <1>4, <1>5, <1>6, <1>7 DEF Handle, Answer

\* Others set bans, lift them and write to Redis; they set no handler's ban.
LEMMA SyncKeptByOthers ==
  ASSUME SyncBanTtl >= BanDuration, Inv, SyncInv, Remember, OthersHere \/ Elsewhere
  PROVE  SyncInv'
<1>1. UNCHANGED <<now, spawned, pc>>
  BY DEF OthersHere, Elsewhere, OthersMove, OthersLook, OthersSucceed, OthersFail, CheckerResets,
         OthersDraw, ElsewhereBans, ElsewhereBinds
<1>2. \A k \in HandlerKeys : sync_bans'[k] = sync_bans[k] \/ sync_bans'[k] = now + SyncBanTtl
  <2>1. CASE UNCHANGED sync_bans
    BY <2>1
  <2>2. ASSUME NEW k \in HandlerKeys, ElsewhereBans(k)
        PROVE  \A j \in HandlerKeys :
                 sync_bans'[j] = sync_bans[j] \/ sync_bans'[j] = now + SyncBanTtl
    BY <2>2, SyncTypes DEF ElsewhereBans
  <2>3. UNCHANGED sync_bans \/ \E k \in HandlerKeys : ElsewhereBans(k)
    BY DEF OthersHere, Elsewhere, OthersLook, OthersSucceed, OthersFail, CheckerResets,
           OthersDraw, ElsewhereBinds
  <2>4. QED
    BY <2>1, <2>2, <2>3
<1>3. QED
  BY <1>1, <1>2, NoHandlerBans, SyncKept

\* The ban published lasts at least as long as the one in the breaker.
LEMMA SyncKeptByPublishBan ==
  ASSUME SyncBanTtl >= BanDuration, Inv, SyncInv, Remember, NEW t \in spawned, PublishBan(t)
  PROVE  SyncInv'
<1>1. "ban" \in DOMAIN t /\ UNCHANGED <<now, pc>> /\ spawned' = spawned \ {t}
  BY DEF PublishBan
<1>2. PICK k \in HandlerKeys : t.ban = k
  BY <1>1 DEF Inv, WorldInv
<1>3. /\ handler_ban' \in [HandlerKeys -> Nat \cup {Never}]
      /\ \A j \in HandlerKeys : handler_ban'[j] = handler_ban[j] /\ handler_ban[j] <= now + BanDuration
  BY <1>1, BansRemembered, NoHandlerBans DEF SyncInv
<1>4. handler_ban'[k] <= sync_bans'[k] \/ k \in unpublished'
  <2>1. Published(k)
    BY <1>1, <1>2 DEF Published
  <2>2. k \in unpublished' \/ sync_bans'[k] = now + SyncBanTtl
    BY <2>1 DEF Remember
  <2>3. handler_ban[k] \in Int
    BY DEF SyncInv, Never
  <2>4. QED
    BY <1>3, <2>2, <2>3, SyncTypes
<1>5. ASSUME NEW j \in HandlerKeys, j # k
      PROVE  handler_ban'[j] <= sync_bans'[j] \/ j \in unpublished' \/ Pending(j)'
  <2>1. sync_bans'[j] = sync_bans[j]
    BY <1>2, <1>5, SyncTypes DEF PublishBan
  <2>2. ~Published(j)
    BY <1>1, <1>2, <1>5 DEF Published
  <2>3. \A r \in Request : [by |-> r, ban |-> j] # t
    BY <1>2, <1>5
  <2>4. (j \in unpublished => j \in unpublished') /\ (Pending(j) => Pending(j)')
    BY <1>1, <2>2, <2>3 DEF Remember, Pending
  <2>5. QED
    BY <1>3, <2>1, <2>4 DEF SyncInv
<1>6. QED
  BY <1>1, <1>3, <1>4, <1>5 DEF SyncInv

\* A binding published is no ban.
LEMMA SyncKeptByPublishBinding ==
  ASSUME Inv, SyncInv, Remember, NEW t \in spawned, PublishBinding(t)
  PROVE  SyncInv'
<1>1. /\ "bind" \in DOMAIN t /\ UNCHANGED <<now, pc>> /\ sync_bans' = sync_bans
      /\ spawned' = spawned \ {t}
  BY DEF PublishBinding
<1>2. t \in [by : Request, bind : Session, index : Nat]
  BY <1>1 DEF Inv, WorldInv
<1>3. "ban" \notin DOMAIN t
  BY <1>2
<1>4. \A k \in HandlerKeys : ~Published(k) /\ (Pending(k) => Pending(k)')
  BY <1>1, <1>3 DEF Published, Pending
<1>5. \A k \in HandlerKeys : k \in unpublished => k \in unpublished'
  BY <1>4 DEF Remember
<1>6. /\ handler_ban' \in [HandlerKeys -> Nat \cup {Never}]
      /\ \A k \in HandlerKeys : handler_ban'[k] = handler_ban[k]
  BY <1>1, BansRemembered, NoHandlerBans
<1>7. QED
  BY <1>1, <1>4, <1>5, <1>6 DEF SyncInv

(* README line 708, "all instances see bans", as far as proxy_handler goes: *)
(* with Redis and bans that last no longer than the 60 seconds they are     *)
(* published for, a ban that runs and that a chat request's handler set     *)
(* runs in Redis, or a task is about to publish it, or Redis refused its    *)
(* last publication - beside a generic proxy and a health checker that ban, *)
(* report and reset without telling Redis, and beside other instances.      *)
THEOREM ShortHandlerBansReachRedis ==
  ASSUME SyncBanTtl >= BanDuration
  PROVE  HSpec => []HandlerBansReachRedis
<1>1. CASE ~SyncEnabled
  <2>1. HandlerBansReachRedis
    BY <1>1 DEF HandlerBansReachRedis
  <2>2. QED
    BY <2>1, PTL
<1>2. CASE SyncEnabled
  <2>1. HInit => SyncInv
    <3> SUFFICES ASSUME HInit PROVE SyncInv
      OBVIOUS
    <3>1. handler_ban = [k \in HandlerKeys |-> Never] /\ sync_bans = [k \in HandlerKeys |-> Never]
          /\ now = 0
      BY DEF HInit, Init, F2B!Init
    <3>2. BanDuration \in Nat
      BY BreakerAssumption DEF F2B!Fail2banAssumption
    <3>3. QED
      BY <3>1, <3>2 DEF SyncInv, Never
  <2>2. Inv /\ SyncInv /\ [HNext]_hvars => SyncInv'
    <3> SUFFICES ASSUME Inv, SyncInv, [HNext]_hvars PROVE SyncInv'
      OBVIOUS
    <3>1. CASE UNCHANGED hvars
      BY <3>1 DEF SyncInv, Pending, hvars, vars, syncVars
    <3>2. CASE HNext
      <4>1. Remember
        BY <3>2, StepsOfHNext
      <4>2. CASE \E r \in Request : Arrive(r) \/ Handle(r) \/ Timeout(r)
        BY <1>2, <4>1, <4>2, SyncKeptByRequest
      <4>3. CASE \E t \in spawned : PublishBan(t)
        BY <4>1, <4>3, SyncKeptByPublishBan
      <4>4. CASE \E t \in spawned : PublishBinding(t)
        BY <4>1, <4>4, SyncKeptByPublishBinding
      <4>5. CASE Tick \/ \E s \in Session : SyncBindingExpires(s)
        <5>1. /\ now' = now \/ now' = now + 1
              /\ UNCHANGED pc /\ sync_bans' = sync_bans /\ spawned' = spawned
          BY <4>5 DEF Tick, SyncBindingExpires, syncVars
        <5>2. QED
          BY <4>1, <5>1, NoHandlerBans, SyncKept
      <4>6. CASE OthersHere \/ Elsewhere
        BY <4>1, <4>6, SyncKeptByOthers
      <4>7. QED
        BY <3>2, <4>2, <4>3, <4>4, <4>5, <4>6, StepsOfHNext
    <3>3. QED
      BY <3>1, <3>2
  <2>3. Inv /\ SyncInv => HandlerBansReachRedis
    <3> SUFFICES ASSUME Inv, SyncInv, NEW k \in HandlerKeys, now < handler_ban[k],
                        k \notin unpublished, ~Pending(k)
                 PROVE  SyncBanned(k)
      BY DEF HandlerBansReachRedis, Pending
    <3>1. handler_ban[k] <= sync_bans[k]
      BY DEF SyncInv
    <3>2. now \in Nat /\ handler_ban[k] \in Int /\ sync_bans[k] \in Int
      BY SyncTypes DEF SyncInv, Never
    <3>3. QED
      BY <3>1, <3>2 DEF SyncBanned
  <2>4. QED
    BY <2>1, <2>2, <2>3, InvAlways, PTL DEF HSpec
<1>3. QED
  BY <1>1, <1>2
=============================================================================
