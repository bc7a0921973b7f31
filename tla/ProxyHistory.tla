---------------------------- MODULE ProxyHistory ----------------------------
(***************************************************************************)
(* ProxyHandler with the history its promises speak of: what has been true *)
(* of the breaker since each request arrived, to say how stale the bans a  *)
(* handler acts on can be; which bans a handler has set, whatever others   *)
(* did to them, and which of these Redis refused to hear of.               *)
(***************************************************************************)
EXTENDS ProxyHandler

VARIABLES
  free_since,   \* request |-> keys that were not banned at some instant
                \* since its handler began to collect bans
  handler_ban,  \* key |-> the end of the last ban a handler set, or Never
  unpublished   \* keys whose last publication Redis refused

hvars == <<vars, free_since, handler_ban, unpublished>>

Free == {k \in HandlerKeys : ~F2B!Banned(k)}

HInit ==
  /\ Init
  /\ free_since = [r \in Request |-> {}]
  /\ handler_ban = [k \in HandlerKeys |-> Never]
  /\ unpublished = {}

\* A request has found k failing, and the breaker has told its handler that k
\* is banned now.
BannedByHandler(k) ==
  /\ \E r \in Request : pc[r] = "sent" /\ pc'[r] # "sent" /\ Key(r) = k
  /\ total_failures'[k] > total_failures[k]
  /\ F2B!JustBanned(k)

Published(k) == \E t \in spawned \ spawned' : "ban" \in DOMAIN t /\ t.ban = k

Remember ==
  /\ free_since' = [r \in Request |->
       IF pc'[r] \in {"idle", "done"} THEN {}
       ELSE IF pc[r] = "idle" THEN Free
       ELSE free_since[r] \cup Free']
  /\ handler_ban' = [k \in HandlerKeys |->
       IF BannedByHandler(k) THEN now + BanDuration ELSE handler_ban[k]]
  /\ unpublished' = {k \in HandlerKeys :
       IF Published(k) THEN sync_bans'[k] # now + SyncBanTtl ELSE k \in unpublished}

\* ProxyHandler's Next, action by action: each is remembered.
HNext ==
  \/ \E r \in Request :
       \/ Arrive(r) /\ Remember
       \/ Collect(r) /\ Remember
       \/ CollectSync(r) /\ Remember
       \/ Collected(r) /\ Remember
       \/ Sticky(r) /\ Remember
       \/ StickyRemove(r) /\ Remember
       \/ StickySync(r) /\ Remember
       \/ Touch(r) /\ Remember
       \/ Select(r) /\ Remember
       \/ CheckLimits(r) /\ Remember
       \/ Attempt(r) /\ Remember
       \/ SelectNext(r) /\ Remember
       \/ \E status \in Status : Room(r) /\ UpstreamStatus(r, status) /\ Remember
       \/ Room(r) /\ NetworkError(r) /\ Remember
       \/ Room(r) /\ StreamNetworkError(r) /\ Remember
       \/ Finish(r) /\ Remember
       \/ Timeout(r) /\ Remember
  \/ \E t \in spawned : PublishBan(t) /\ Remember
  \/ \E t \in spawned : PublishBinding(t) /\ Remember
  \/ \E s \in Session : SyncBindingExpires(s) /\ Remember
  \/ Tick /\ Remember
  \/ \E k \in HandlerKeys : OthersLook(k) /\ Remember
  \/ \E k \in HandlerKeys : OthersSucceed(k) /\ Remember
  \/ \E k \in HandlerKeys : CheckerResets(k) /\ Remember
  \/ \E k \in HandlerKeys : OthersFail(k, F2B!NetworkError) /\ Remember
  \/ \E k \in HandlerKeys, status \in Status :
       F2B!MayCountAsFailure(status) /\ OthersFail(k, status) /\ Remember
  \/ \E m \in Model : OthersDraw(m) /\ Remember
  \/ \E k \in HandlerKeys : ElsewhereBans(k) /\ Remember
  \/ \E s \in Session, i \in UNION {Index(m) : m \in Model} : ElsewhereBinds(s, i) /\ Remember

HSpec == HInit /\ [][HNext]_hvars

(* A handler that has arrived keeps being polled, and an upstream either   *)
(* answers or runs into the client's connect and read timeouts.  Requests  *)
(* need not come, and the timeout middleware need not step in.             *)
HFairSpec == HSpec /\ \A r \in Request : WF_vars(Handle(r))

-----------------------------------------------------------------------------
(* However stale the set of banned keys a handler collected has become, it *)
(* sends its request to no endpoint that was banned all the time since the *)
(* request arrived - by whichever path it chose it: the session's binding, *)
(* the first selection, or a retry.                                        *)
BannedThroughoutIsAvoided ==
  \A r \in Request : pc[r] = "sent" => Key(r) \in free_since[r]

(* README line 708, "all instances see bans", as far as proxy_handler goes, *)
(* which alone publishes: while a ban runs that a chat request's handler    *)
(* set, it is in Redis, or a task is about to publish it, or Redis refused  *)
(* its last publication - whatever the generic proxy, the health checker    *)
(* and other instances do to the same endpoint meanwhile.  A ban those two  *)
(* set is never published, nor is what they add to a handler's ban.         *)
HandlerBansReachRedis ==
  SyncEnabled =>
    \A k \in HandlerKeys :
      F2B!Banned(k) /\ now < handler_ban[k] =>
        \/ SyncBanned(k)
        \/ k \in unpublished
        \/ \E r \in Request : [by |-> r, ban |-> k] \in spawned

(* breaker.rs line 77, record_success clears the count of failures and not  *)
(* the ban: a ban that runs is shortened by the health checker's reset and  *)
(* never by requests of either proxy, whatever they report of an endpoint   *)
(* that others found failing, and in whatever order.                        *)
RequestsLiftNoBan ==
  [][\A k \in HandlerKeys :
       F2B!Banned(k) => banned_until'[k] >= banned_until[k] \/ CheckerResets(k)]_hvars
=============================================================================
