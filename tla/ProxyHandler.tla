---------------------------- MODULE ProxyHandler ----------------------------
(***************************************************************************)
(* proxy_handler of src/proxy/handler.rs: concurrent requests, each a      *)
(* process that collects the bans of its model's endpoints, follows or     *)
(* replaces a sticky session, passes the rate limits and tries endpoints   *)
(* until one answers or none is left; composed with the circuit breaker    *)
(* (Fail2ban), endpoint selection (ModelRouter), the session store         *)
(* (src/router/sticky.rs) and the state shared through Redis               *)
(* (src/sync/redis_sync.rs).                                               *)
(*                                                                         *)
(* A step ends where another thread can come between: at every await and   *)
(* between two accesses to shared state.  The rate limiters answer either  *)
(* way here; RateLimiter models them.                                      *)
(*                                                                         *)
(* The handlers are not alone with this state.  The generic proxy, the     *)
(* health checker and the dashboard use the same breaker, and the generic  *)
(* proxy the same counters; other instances write bans and bindings to     *)
(* Redis.  They are an environment here, whose steps are those Others* and *)
(* Elsewhere* name: none of these callers publishes a ban it sets.         *)
(***************************************************************************)
EXTENDS ModelRouter, FiniteSets

CONSTANTS
  Request, Session,
  MaxFailures, BanDuration, ErrorThreshold, FailPatterns, Status,
  MayRetry,          \* the values of fail2ban.retry_on_failure requests meet
  StickyTtl,         \* session.sticky_ttl_secs, in ticks
  SyncEnabled,       \* whether Redis is configured
  SyncFaults,        \* whether calls to Redis may fail
  SyncBanTtl,        \* the 60 seconds a ban is published for, in ticks
  MayStream,         \* the values of "stream" in request bodies
  MaxNow,            \* bound: the last instant
  MaxRequests,       \* bound: results recorded per endpoint key
  MaxOthers          \* bound: steps of others on the shared state

ASSUME ProxyAssumption ==
  /\ SyncEnabled \in BOOLEAN /\ SyncFaults \in BOOLEAN
  /\ MayRetry \subseteq BOOLEAN /\ MayStream \subseteq BOOLEAN
  /\ StickyTtl \in Nat /\ SyncBanTtl \in Nat /\ MaxOthers \in Nat

VARIABLES
  now, consecutive_failures, total_requests, total_failures, banned_until,
  last_error_code,
  sticky,        \* session |-> <<endpoint index, last access>> or Unbound
  sync_bans,     \* Redis: key |-> the instant its ban expires, or Never
  sync_sticky,   \* Redis: session |-> endpoint index, or NoEndpoint
  spawned,       \* tasks the handlers left behind: bans and bindings to publish
  pc,            \* where each request stands
  call,          \* what each request's handler holds in its variables
  others         \* how many steps others have taken on the shared state

HandlerKeys == UNION {{HandlerKey(m, i) : i \in Index(m)} : m \in Model}

F2B == INSTANCE Fail2ban WITH EndpointKey <- HandlerKeys

ASSUME BreakerAssumption == F2B!Fail2banAssumption

breakerVars == <<consecutive_failures, total_requests, total_failures,
                 banned_until, last_error_code>>
syncVars == <<sync_bans, sync_sticky, spawned>>
vars == <<now, breakerVars, counters, sticky, syncVars, pc, call, others>>

Unbound == <<>>
Never == -1
NoSession == "no session"
NoReply == "none"

Points == {"idle", "collect", "collect_sync", "sticky", "sticky_remove",
           "sticky_sync", "touch", "select", "limits", "attempt", "sent", "next",
           "finish", "done"}

\* The awaits at which the timeout middleware can drop a handler.
AwaitPoints == {"collect_sync", "sticky_sync", "limits", "attempt", "sent"}

Replies == {NoReply, "answered", "upstream_error", "stream_error", "rate_limited",
            "all_banned", "no_endpoint", "timeout"}

Calls == [model : Model, session : Session \cup {NoSession}, stream : BOOLEAN,
          retry : BOOLEAN, scanned : Nat, banned_keys : SUBSET HandlerKeys,
          tried_keys : SUBSET HandlerKeys, current : Nat \cup {NoEndpoint},
          last : Replies, reply : Replies]

TypeOK ==
  /\ F2B!TypeOK
  /\ RouterTypeOK
  /\ sticky \in [Session -> {Unbound} \cup (Nat \X Nat)]
  /\ sync_bans \in [HandlerKeys -> Nat \cup {Never}]
  /\ sync_sticky \in [Session -> Nat \cup {NoEndpoint}]
  /\ spawned \subseteq [by : Request, ban : HandlerKeys]
                     \cup [by : Request, bind : Session, index : Nat]
  /\ pc \in [Request -> Points]
  /\ call \in [Request -> Calls]
  /\ others \in Nat

Init ==
  /\ F2B!Init
  /\ RouterInit
  /\ sticky = [s \in Session |-> Unbound]
  /\ sync_bans = [k \in HandlerKeys |-> Never]
  /\ sync_sticky = [s \in Session |-> NoEndpoint]
  /\ spawned = {}
  /\ pc = [r \in Request |-> "idle"]
  /\ call \in [Request ->
       {[model |-> m, session |-> s, stream |-> b, retry |-> retry, scanned |-> 0,
         banned_keys |-> {}, tried_keys |-> {}, current |-> NoEndpoint,
         last |-> NoReply, reply |-> NoReply] :
        m \in Model, s \in Session \cup {NoSession}, b \in MayStream, retry \in MayRetry}]
  /\ others = 0

-----------------------------------------------------------------------------
(* Abbreviations over a request's variables. *)

KeyAt(r, i) == HandlerKey(call[r].model, i)
Key(r) == KeyAt(r, call[r].current)
Excluded(r) == call[r].banned_keys \cup call[r].tried_keys

GoTo(r, point) == pc' = [pc EXCEPT ![r] = point]

Reply(r, reply) ==
  /\ GoTo(r, "done")
  /\ call' = [call EXCEPT ![r].reply = reply]

SyncBanned(k) == now < sync_bans[k]

Alive(entry) == now - entry[2] < StickyTtl

\* Mutant: only a binding within the model is looked up, any is followed.
Usable_AnyIndex(r, i) ==
  /\ i # NoEndpoint
  /\ i < Total(call[r].model) => KeyAt(r, i) \notin call[r].banned_keys

\* The binding i can be followed: it names an endpoint of the request's model
\* that was not seen banned.
Usable(r, i) ==
  /\ i # NoEndpoint
  /\ i < Total(call[r].model)
  /\ KeyAt(r, i) \notin call[r].banned_keys

-----------------------------------------------------------------------------
(* Bans: the local breaker, then Redis, endpoint after endpoint. *)

\* The handler has authenticated its request, read its body and found its model
\* allowed; a request refused before that touches nothing modelled here.
Arrive(r) ==
  /\ pc[r] = "idle"
  /\ GoTo(r, "collect")
  /\ UNCHANGED <<now, breakerVars, counters, sticky, syncVars, call, others>>

Collect(r) ==
  LET k == KeyAt(r, call[r].scanned)
  IN  /\ pc[r] = "collect"
      /\ call[r].scanned < Total(call[r].model)
      /\ F2B!is_banned(k)
      /\ \/ /\ F2B!Banned(k)
            /\ call' = [call EXCEPT ![r].scanned = @ + 1, ![r].banned_keys = @ \cup {k}]
            /\ UNCHANGED pc
         \/ /\ ~F2B!Banned(k) /\ SyncEnabled
            /\ GoTo(r, "collect_sync")
            /\ UNCHANGED call
         \/ /\ ~F2B!Banned(k) /\ ~SyncEnabled
            /\ call' = [call EXCEPT ![r].scanned = @ + 1]
            /\ UNCHANGED pc
      /\ UNCHANGED <<now, counters, sticky, syncVars, others>>

\* An error of Redis counts as "not banned".
CollectSync(r) ==
  LET k == KeyAt(r, call[r].scanned)
  IN  /\ pc[r] = "collect_sync"
      /\ \/ /\ SyncBanned(k)
            /\ call' = [call EXCEPT ![r].scanned = @ + 1, ![r].banned_keys = @ \cup {k}]
         \/ /\ ~SyncBanned(k) \/ SyncFaults
            /\ call' = [call EXCEPT ![r].scanned = @ + 1]
      /\ GoTo(r, "collect")
      /\ UNCHANGED <<now, breakerVars, counters, sticky, syncVars, others>>

\* All endpoints banned: as many keys collected as the model has endpoints.
Collected(r) ==
  LET total == Total(call[r].model)
  IN  /\ pc[r] = "collect"
      /\ call[r].scanned = total
      /\ IF total > 0 /\ Cardinality(call[r].banned_keys) = total
         THEN Reply(r, "all_banned")
         ELSE /\ GoTo(r, IF call[r].session = NoSession THEN "select" ELSE "sticky")
              /\ UNCHANGED call
      /\ UNCHANGED <<now, breakerVars, counters, sticky, syncVars, others>>

-----------------------------------------------------------------------------
(* Session affinity. *)

\* Where the handler turns after the local store had nothing for it.
AfterLocalSticky == IF SyncEnabled THEN "sticky_sync" ELSE "select"

touch(s) ==
  sticky' = [sticky EXCEPT ![s] = IF @ = Unbound THEN @ ELSE <<@[1], now>>]

\* Follow the binding i, or fall back to round-robin.
Follow(r, i) ==
  IF Usable(r, i)
  THEN /\ call' = [call EXCEPT ![r].current = i]
       /\ GoTo(r, "touch")
  ELSE /\ GoTo(r, "select")
       /\ UNCHANGED call

\* get: an expired entry is removed in a second step, after the entry's lock
\* has been dropped.
Sticky(r) ==
  LET entry == sticky[call[r].session]
  IN  /\ pc[r] = "sticky"
      /\ \/ /\ entry # Unbound /\ Alive(entry)
            /\ Follow(r, entry[1])
         \/ /\ entry # Unbound /\ ~Alive(entry)
            /\ GoTo(r, "sticky_remove")
            /\ UNCHANGED call
         \/ /\ entry = Unbound
            /\ GoTo(r, AfterLocalSticky)
            /\ UNCHANGED call
      /\ UNCHANGED <<now, breakerVars, counters, sticky, syncVars, others>>

StickyRemove(r) ==
  /\ pc[r] = "sticky_remove"
  /\ sticky' = [sticky EXCEPT ![call[r].session] = Unbound]
  /\ GoTo(r, AfterLocalSticky)
  /\ UNCHANGED <<now, breakerVars, counters, syncVars, call, others>>

StickySync(r) ==
  /\ pc[r] = "sticky_sync"
  /\ \/ Follow(r, sync_sticky[call[r].session])
     \/ SyncFaults /\ Follow(r, NoEndpoint)
  /\ UNCHANGED <<now, breakerVars, counters, sticky, syncVars, others>>

\* The binding that is followed, if it is still in the local store, is renewed.
Touch(r) ==
  /\ pc[r] = "touch"
  /\ touch(call[r].session)
  /\ GoTo(r, "limits")
  /\ UNCHANGED <<now, breakerVars, counters, syncVars, call, others>>

-----------------------------------------------------------------------------
(* Selection, rate limits and the upstream call. *)

\* Fallback: the first endpoint when no binding was followed.
Select(r) ==
  LET sel == Selected(call[r].model, call[r].banned_keys, {})
  IN  /\ pc[r] = "select"
      /\ select_available(call[r].model)
      /\ IF sel = NoEndpoint
         THEN Reply(r, "no_endpoint")
         ELSE /\ call' = [call EXCEPT ![r].current = sel]
              /\ GoTo(r, "limits")
      /\ UNCHANGED <<now, breakerVars, sticky, syncVars, others>>

\* The retry loop: another endpoint, or the last error.
SelectNext(r) ==
  LET sel == Selected(call[r].model, call[r].banned_keys, call[r].tried_keys)
  IN  /\ pc[r] = "next"
      /\ select_available(call[r].model)
      /\ IF sel = NoEndpoint
         THEN Reply(r, call[r].last)
         ELSE /\ call' = [call EXCEPT ![r].current = sel]
              /\ GoTo(r, "attempt")
      /\ UNCHANGED <<now, breakerVars, sticky, syncVars, others>>

\* Team and token limits, checked once per request.
CheckLimits(r) ==
  /\ pc[r] = "limits"
  /\ \/ GoTo(r, "attempt") /\ UNCHANGED call
     \/ Reply(r, "rate_limited")
  /\ UNCHANGED <<now, breakerVars, counters, sticky, syncVars, others>>

\* Mutant: the endpoint is not remembered as tried.
GiveUpOn_Forgets(r, why) ==
  /\ call' = [call EXCEPT ![r].last = why]
  /\ GoTo(r, "next")

\* What the handler does with an endpoint it will not come back to.
GiveUpOn(r, why) ==
  /\ call' = [call EXCEPT ![r].tried_keys = @ \cup {Key(r)}, ![r].last = why]
  /\ GoTo(r, "next")

\* The endpoint's own limits, shared (Redis) and local; then the request goes out.
Attempt(r) ==
  /\ pc[r] = "attempt"
  /\ \/ GoTo(r, "sent") /\ UNCHANGED call
     \/ GiveUpOn(r, "rate_limited")
  /\ UNCHANGED <<now, breakerVars, counters, sticky, syncVars, others>>

\* Mutant: nothing is published.
PublishIfBanned_Never(r) == UNCHANGED spawned

\* A ban just set is published by a task of its own.
PublishIfBanned(r) ==
  spawned' = IF F2B!JustBanned(Key(r)) /\ SyncEnabled
             THEN spawned \cup {[by |-> r, ban |-> Key(r)]}
             ELSE spawned

UpstreamStatus(r, status) ==
  /\ pc[r] = "sent"
  /\ IF F2B!is_fail_status(status)
     THEN F2B!record_failure_with_code(Key(r), status) /\ PublishIfBanned(r)
     ELSE F2B!record_success(Key(r)) /\ UNCHANGED spawned
  /\ IF status < 400 \/ ~(call[r].retry /\ F2B!is_fail_status(status))
     THEN GoTo(r, "finish") /\ UNCHANGED call
     ELSE GiveUpOn(r, "upstream_error")
  /\ UNCHANGED <<now, counters, sticky, sync_bans, sync_sticky, others>>

\* proxy_regular returned an error.
NetworkError(r) ==
  /\ pc[r] = "sent" /\ ~call[r].stream
  /\ F2B!record_failure(Key(r))
  /\ PublishIfBanned(r)
  /\ IF call[r].retry THEN GiveUpOn(r, "upstream_error") ELSE Reply(r, "upstream_error")
  /\ UNCHANGED <<now, counters, sticky, sync_bans, sync_sticky, others>>

\* The inline send of the streaming branch failed: the handler returns at once.
StreamNetworkError(r) ==
  /\ pc[r] = "sent" /\ call[r].stream
  /\ Reply(r, "stream_error")
  /\ UNCHANGED <<now, breakerVars, counters, sticky, syncVars, others>>

\* The response goes to the client; its endpoint becomes the session's.
Finish(r) ==
  LET s == call[r].session
  IN  /\ pc[r] = "finish"
      /\ IF s = NoSession
         THEN UNCHANGED <<sticky, spawned>>
         ELSE /\ sticky' = [sticky EXCEPT ![s] = <<call[r].current, now>>]
              /\ spawned' = IF SyncEnabled
                            THEN spawned \cup {[by |-> r, bind |-> s, index |-> call[r].current]}
                            ELSE spawned
      /\ Reply(r, "answered")
      /\ UNCHANGED <<now, breakerVars, counters, sync_bans, sync_sticky, others>>

\* timeout_middleware drops the handler where it waits and answers 504.
Timeout(r) ==
  /\ pc[r] \in AwaitPoints
  /\ Reply(r, "timeout")
  /\ UNCHANGED <<now, breakerVars, counters, sticky, syncVars, others>>

-----------------------------------------------------------------------------
(* The tasks left behind, Redis expiring bindings, and time. *)

PublishBan(t) ==
  /\ t \in spawned /\ "ban" \in DOMAIN t
  /\ spawned' = spawned \ {t}
  /\ \/ sync_bans' = [sync_bans EXCEPT ![t.ban] = now + SyncBanTtl]
     \/ SyncFaults /\ UNCHANGED sync_bans
  /\ UNCHANGED <<now, breakerVars, counters, sticky, sync_sticky, pc, call, others>>

PublishBinding(t) ==
  /\ t \in spawned /\ "bind" \in DOMAIN t
  /\ spawned' = spawned \ {t}
  /\ \/ sync_sticky' = [sync_sticky EXCEPT ![t.bind] = t.index]
     \/ SyncFaults /\ UNCHANGED sync_sticky
  /\ UNCHANGED <<now, breakerVars, counters, sticky, sync_bans, pc, call, others>>

SyncBindingExpires(s) ==
  /\ sync_sticky[s] # NoEndpoint
  /\ sync_sticky' = [sync_sticky EXCEPT ![s] = NoEndpoint]
  /\ UNCHANGED <<now, breakerVars, counters, sticky, sync_bans, spawned, pc, call, others>>

Tick ==
  /\ now < MaxNow
  /\ now' = now + 1
  /\ UNCHANGED <<breakerVars, counters, sticky, syncVars, pc, call, others>>

-----------------------------------------------------------------------------
(* Others on the same state.                                               *)

OthersMove ==
  /\ others < MaxOthers
  /\ others' = others + 1
  /\ UNCHANGED <<now, sticky, spawned, pc, call>>

\* The health checker and the dashboard look at bans.
OthersLook(k) ==
  /\ OthersMove
  /\ F2B!is_banned(k)
  /\ UNCHANGED <<counters, sync_bans, sync_sticky>>

\* The generic proxy reports an answer.
OthersSucceed(k) ==
  /\ OthersMove
  /\ F2B!MayRecord(k) /\ F2B!record_success(k)
  /\ UNCHANGED <<counters, sync_bans, sync_sticky>>

\* The generic proxy or the health checker reports a failure, and publishes
\* nothing when it bans.
OthersFail(k, status) ==
  /\ OthersMove
  /\ F2B!MayRecord(k) /\ F2B!record_failure_with_code(k, status)
  /\ UNCHANGED <<counters, sync_bans, sync_sticky>>

\* The health checker's probe succeeded on an endpoint it found banned.
CheckerResets(k) ==
  /\ OthersMove
  /\ F2B!reset(k)
  /\ UNCHANGED <<counters, sync_bans, sync_sticky>>

\* The generic proxy selects an endpoint.
OthersDraw(m) ==
  /\ OthersMove
  /\ Total(m) > 0 /\ next(m)
  /\ UNCHANGED <<breakerVars, sync_bans, sync_sticky>>

\* A chat request on another instance bans an endpoint, or binds a session.
ElsewhereBans(k) ==
  /\ SyncEnabled /\ OthersMove
  /\ sync_bans' = [sync_bans EXCEPT ![k] = now + SyncBanTtl]
  /\ UNCHANGED <<breakerVars, counters, sync_sticky>>

ElsewhereBinds(s, i) ==
  /\ SyncEnabled /\ OthersMove
  /\ sync_sticky' = [sync_sticky EXCEPT ![s] = i]
  /\ UNCHANGED <<breakerVars, counters, sync_bans>>

\* What others do to the local state, and to Redis.
OthersHere ==
  \/ \E k \in HandlerKeys : OthersLook(k) \/ OthersSucceed(k) \/ CheckerResets(k)
  \/ \E k \in HandlerKeys : OthersFail(k, F2B!NetworkError)
  \/ \E k \in HandlerKeys, status \in Status :
       F2B!MayCountAsFailure(status) /\ OthersFail(k, status)
  \/ \E m \in Model : OthersDraw(m)

Elsewhere ==
  \/ \E k \in HandlerKeys : ElsewhereBans(k)
  \/ \E s \in Session, i \in UNION {Index(m) : m \in Model} : ElsewhereBinds(s, i)

-----------------------------------------------------------------------------

\* Bound: an endpoint has room for another result.
Room(r) == pc[r] = "sent" => total_requests[Key(r)] < MaxRequests

Answer(r) ==
  /\ Room(r)
  /\ \/ \E status \in Status : UpstreamStatus(r, status)
     \/ NetworkError(r)
     \/ StreamNetworkError(r)

Handle(r) ==
  \/ Collect(r) \/ CollectSync(r) \/ Collected(r)
  \/ Sticky(r) \/ StickyRemove(r) \/ StickySync(r) \/ Touch(r)
  \/ Select(r) \/ CheckLimits(r) \/ Attempt(r) \/ SelectNext(r)
  \/ Answer(r) \/ Finish(r)

Next ==
  \/ \E r \in Request : Arrive(r) \/ Handle(r) \/ Timeout(r)
  \/ \E t \in spawned : PublishBan(t) \/ PublishBinding(t)
  \/ \E s \in Session : SyncBindingExpires(s)
  \/ Tick
  \/ OthersHere \/ Elsewhere

Spec == Init /\ [][Next]_vars

-----------------------------------------------------------------------------
(* balancer.rs line 66, "skipping banned and already tried ones": a request *)
(* is never sent to an endpoint its handler saw banned, nor to one it       *)
(* already tried.                                                           *)
NeverSentToExcluded ==
  \A r \in Request : pc[r] = "sent" => Key(r) \notin Excluded(r)

(* types.rs line 183, "on error try the next endpoint, don't return 5xx to  *)
(* client": with retry_on_failure an error is answered only when every      *)
(* endpoint of the model was seen banned or has been tried.                 *)
GivesUpOnlyWhenExhausted ==
  \A r \in Request :
    call[r].retry /\ call[r].reply \in {"upstream_error", "stream_error", "no_endpoint", "all_banned"} =>
      \A i \in Index(call[r].model) : KeyAt(r, i) \in Excluded(r)

(* A binding made for one model never sends a request of another model past *)
(* the end of its list of endpoints, whatever wrote it: another request, a  *)
(* request of another model, or Redis.                                      *)
EndpointInModel ==
  \A r \in Request :
    pc[r] \in {"touch", "limits", "attempt", "sent", "next", "finish"} =>
      call[r].current \in Index(call[r].model)

(* The retry loop ends: every request that arrives is answered, however     *)
(* often upstreams fail and limits refuse.                                  *)
EveryRequestAnswered ==
  \A r \in Request : pc[r] = "collect" ~> pc[r] = "done"
=============================================================================
