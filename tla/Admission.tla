----------------------------- MODULE Admission -----------------------------
(***************************************************************************)
(* The gates a request passes on its way out: its team's limits, its       *)
(* token's, and those of each endpoint it tries; each a counter shared     *)
(* through Redis (sync/redis_sync.rs) and then a local limiter.  Composed  *)
(* with endpoint selection, which chat requests go through before the      *)
(* gates and generic ones after them.  Lists of models pass the gates too. *)
(*                                                                         *)
(* A handler is one place in the server: it takes request after request.   *)
(* The local limiters answer either way (RateLimiter models them), and so  *)
(* do upstreams; a counter of Redis expires some time after it was told to.*)
(***************************************************************************)
EXTENDS ModelRouter, FiniteSets

CONSTANTS
  Handler,         \* requests in progress at once
  Token,           \* the tokens' keys
  Team,
  TeamOf,          \* token |-> its team
  TeamLimits,      \* team |-> [rpm, tpm], or Unset
  TokenLimits,     \* token |-> [rpm, tpm], or Unset
  EndpointLimits,  \* model |-> sequence of [rpm, tpm]
  Unset,           \* limits that are not configured
  Retries,         \* fail2ban.retry_on_failure
  RedisFaults      \* whether calls to Redis may fail

NoLimits == [rpm |-> 0, tpm |-> 0]

ASSUME AdmissionAssumption ==
  LET Limits == [rpm : Nat, tpm : Nat]
  IN  /\ Token # {} /\ Model # {}
      /\ TeamOf \in [Token -> Team]
      /\ TeamLimits \in [Team -> Limits \cup {Unset}]
      /\ TokenLimits \in [Token -> Limits \cup {Unset}]
      /\ \A m \in Model : EndpointLimits[m] \in Seq(Limits)
                          /\ Len(EndpointLimits[m]) = Total(m)
      /\ Retries \in BOOLEAN /\ RedisFaults \in BOOLEAN

VARIABLES
  shared,     \* Redis: key |-> its counter, 0 when the key is absent
  expiring,   \* Redis: the keys with a time to live
  pc,         \* where each handler stands
  call        \* the request it works on

vars == <<counters, shared, expiring, pc, call>>

-----------------------------------------------------------------------------
(* Limits and the counters they are kept under. *)

Configured(limits) == IF limits = Unset THEN NoLimits ELSE limits

\* resolve_token: a token that sets one limit sets both.
EffectiveLimits(t) ==
  IF TokenLimits[t] # Unset THEN TokenLimits[t] ELSE Configured(TeamLimits[TeamOf[t]])

Gates == {"team", "token", "endpoint"}
Kinds == {"chat", "generic", "list"}
HandlerKeys == UNION {{HandlerKey(m, i) : i \in Index(m)} : m \in Model}

TeamKey(t) == <<"team", TeamOf[t]>>
TokenKey(t) == <<"token", t>>
EndpointKey(m, i) == <<"ep", HandlerKey(m, i)>>

\* The keys that requests are counted under: those with a limit of requests.
Keys ==
  {TeamKey(t) : t \in {u \in Token : Configured(TeamLimits[TeamOf[u]]).rpm > 0}}
  \cup {TokenKey(t) : t \in {u \in Token : EffectiveLimits(u).rpm > 0}}
  \cup UNION {{EndpointKey(m, i) : i \in {j \in Index(m) : EndpointLimits[m][j + 1].rpm > 0}} :
              m \in Model}

\* The key and the limits of a request at a gate.
KeyAt(c, gate) ==
  CASE gate = "team" -> TeamKey(c.token)
    [] gate = "token" -> TokenKey(c.token)
    [] gate = "endpoint" -> EndpointKey(c.model, c.current)

LimitsAt(c, gate) ==
  CASE gate = "team" -> Configured(TeamLimits[TeamOf[c.token]])
    [] gate = "token" -> EffectiveLimits(c.token)
    [] gate = "endpoint" -> EndpointLimits[c.model][c.current + 1]

NoCall == [kind |-> "list", gate |-> "team", token |-> CHOOSE t \in Token : TRUE,
           model |-> CHOOSE m \in Model : TRUE, banned |-> {}, tried |-> {},
           current |-> NoEndpoint]

Calls == [kind : Kinds, gate : Gates, token : Token, model : Model,
          banned : SUBSET HandlerKeys, tried : SUBSET HandlerKeys,
          current : Nat \cup {NoEndpoint}]

Points == {"idle", "shared", "expire", "local", "next", "sent"}

Key(h) == KeyAt(call[h], call[h].gate)
Limits(h) == LimitsAt(call[h], call[h].gate)

TypeOK ==
  /\ RouterTypeOK
  /\ shared \in [Keys -> Nat]
  /\ expiring \subseteq {k \in Keys : shared[k] > 0}
  /\ pc \in [Handler -> Points]
  /\ call \in [Handler -> Calls]
  /\ \A h \in Handler :
       call[h].current # NoEndpoint => call[h].current \in Index(call[h].model)

Init ==
  /\ RouterInit
  /\ shared = [k \in Keys |-> 0]
  /\ expiring = {}
  /\ pc = [h \in Handler |-> "idle"]
  /\ call = [h \in Handler |-> NoCall]

-----------------------------------------------------------------------------

Becomes(h, point, c) ==
  /\ pc' = [pc EXCEPT ![h] = point]
  /\ call' = [call EXCEPT ![h] = c]

Answered(h) == Becomes(h, "idle", NoCall)

\* Request c comes to a gate.
Enter(h, gate, c) ==
  Becomes(h, IF LimitsAt(c, gate).rpm > 0 THEN "shared" ELSE "local", [c EXCEPT !.gate = gate])

\* A chat request has an endpoint before it comes to the gates: its session's
\* or the router's, in either case one of those it did not see banned.
ArriveChat(h, m, t, B) ==
  LET c == [NoCall EXCEPT !.kind = "chat", !.model = m, !.token = t,
                          !.banned = {HandlerKey(m, i) : i \in B}]
      sel == Selected(m, c.banned, {})
  IN  /\ pc[h] = "idle"
      /\ \/ \E i \in Index(m) : /\ HandlerKey(m, i) \notin c.banned
                               /\ Enter(h, "team", [c EXCEPT !.current = i])
                               /\ UNCHANGED counters
         \/ /\ sel # NoEndpoint
            /\ Enter(h, "team", [c EXCEPT !.current = sel])
            /\ select_available(m)
      /\ UNCHANGED <<shared, expiring>>

\* list_models and ollama_tags, and proxy_generic, which has no endpoint yet.
ArriveOther(h, kind, m, t) ==
  /\ pc[h] = "idle"
  /\ Enter(h, "team", [NoCall EXCEPT !.kind = kind, !.model = m, !.token = t])
  /\ UNCHANGED <<counters, shared, expiring>>

\* A refusal by the team or the token is the answer; one by an endpoint makes
\* the handler look for another.
Refuse(h) ==
  IF call[h].gate = "endpoint"
  THEN Becomes(h, "next", [call[h] EXCEPT
                           !.tried = @ \cup {HandlerKey(call[h].model, call[h].current)}])
  ELSE Answered(h)

\* What INCR leaves in the counter a request stands at.  One past its limit is
\* all the same to the code, and is not counted further here.
Count(h) ==
  IF shared[Key(h)] > Limits(h).rpm THEN shared[Key(h)] ELSE shared[Key(h)] + 1

\* Mutant: no EXPIRE when the limit allows the request.
CheckShared_NoExpire(h) ==
  /\ pc[h] = "shared"
  /\ shared' = [shared EXCEPT ![Key(h)] = Count(h)]
  /\ IF Count(h) <= Limits(h).rpm THEN Becomes(h, "local", call[h]) ELSE Refuse(h)
  /\ UNCHANGED <<counters, expiring>>

\* check_rate_limit: INCR.
CheckShared(h) ==
  /\ pc[h] = "shared"
  /\ shared' = [shared EXCEPT ![Key(h)] = Count(h)]
  /\ IF Count(h) = 1 THEN Becomes(h, "expire", call[h])
     ELSE IF Count(h) <= Limits(h).rpm THEN Becomes(h, "local", call[h])
     ELSE Refuse(h)
  /\ UNCHANGED <<counters, expiring>>

\* An error of INCR counts as allowed, and may mean that only the answer got
\* lost; to lose the answer "1" is to lose the EXPIRE it would have led to.
SharedFails(h) ==
  /\ pc[h] = "shared" /\ RedisFaults
  /\ \/ UNCHANGED shared
     \/ Count(h) > 1 /\ shared' = [shared EXCEPT ![Key(h)] = Count(h)]
  /\ Becomes(h, "local", call[h])
  /\ UNCHANGED <<counters, expiring>>

\* The request that created the counter gives it its time to live, in a
\* second call whose error is dropped.
Expire(h) ==
  /\ pc[h] = "expire"
  /\ \/ expiring' = expiring \cup {Key(h)}
     \/ RedisFaults /\ UNCHANGED expiring
  /\ Becomes(h, "local", call[h])
  /\ UNCHANGED <<counters, shared>>

\* What follows a gate that let the request pass.
PassTeam(h) ==
  /\ call[h].gate = "team"
  /\ Enter(h, "token", call[h])
  /\ UNCHANGED counters

\* A list is the answer.  proxy_generic may still refuse the request: a body it
\* cannot read, a model it does not find or the token may not use, no endpoint.
\* Otherwise it selects, whatever is banned, and passes no more gates.
PassToken(h) ==
  LET c == call[h]
      sel == pick_weighted(c.model)
  IN  /\ c.gate = "token"
      /\ \/ c.kind \in {"list", "generic"} /\ Answered(h) /\ UNCHANGED counters
         \/ c.kind = "chat" /\ Enter(h, "endpoint", c) /\ UNCHANGED counters
         \/ /\ c.kind = "generic" /\ sel # NoEndpoint /\ next(c.model)
            /\ Becomes(h, "sent", [c EXCEPT !.current = sel])

PassEndpoint(h) ==
  /\ call[h].gate = "endpoint"
  /\ Becomes(h, "sent", call[h])
  /\ UNCHANGED counters

\* The local limiter: it may refuse if there is a limit.
CheckLocal(h) ==
  /\ pc[h] = "local"
  /\ \/ PassTeam(h) \/ PassToken(h) \/ PassEndpoint(h)
     \/ Limits(h) # NoLimits /\ Refuse(h) /\ UNCHANGED counters
  /\ UNCHANGED <<shared, expiring>>

\* Mutant: the endpoint's limits are checked before the loop only.
SelectNext_Unchecked(h) ==
  LET c == call[h]
      sel == Selected(c.model, c.banned, c.tried)
  IN  /\ pc[h] = "next"
      /\ select_available(c.model)
      /\ IF sel = NoEndpoint THEN Answered(h)
         ELSE Becomes(h, "sent", [c EXCEPT !.current = sel])
      /\ UNCHANGED <<shared, expiring>>

\* The retry loop: another endpoint and its gate, or the last error.
SelectNext(h) ==
  LET c == call[h]
      sel == Selected(c.model, c.banned, c.tried)
  IN  /\ pc[h] = "next"
      /\ select_available(c.model)
      /\ IF sel = NoEndpoint THEN Answered(h)
         ELSE Enter(h, "endpoint", [c EXCEPT !.current = sel])
      /\ UNCHANGED <<shared, expiring>>

\* The upstream's answer is the client's, or the endpoint has failed and a
\* chat request goes on.
Answer(h) ==
  /\ pc[h] = "sent"
  /\ \/ Answered(h)
     \/ /\ call[h].kind = "chat" /\ Retries
        /\ Becomes(h, "next", [call[h] EXCEPT
                               !.tried = @ \cup {HandlerKey(call[h].model, call[h].current)}])
  /\ UNCHANGED <<counters, shared, expiring>>

\* timeout_middleware drops a handler where it waits, between INCR and EXPIRE too.
Timeout(h) ==
  /\ pc[h] \in {"shared", "expire", "sent"}
  /\ Answered(h)
  /\ UNCHANGED <<counters, shared, expiring>>

CounterExpires(k) ==
  /\ k \in expiring
  /\ shared' = [shared EXCEPT ![k] = 0]
  /\ expiring' = expiring \ {k}
  /\ UNCHANGED <<counters, pc, call>>

Handle(h) ==
  CheckShared(h) \/ Expire(h) \/ CheckLocal(h) \/ SelectNext(h) \/ Answer(h)

\* Every step but an error of INCR.
Proceed ==
  \/ \E h \in Handler :
       \/ \E m \in Model, t \in Token :
            \/ \E B \in SUBSET Index(m) \ {Index(m)} : ArriveChat(h, m, t, B)
            \/ \E kind \in {"generic", "list"} : ArriveOther(h, kind, m, t)
       \/ Handle(h) \/ Timeout(h)
  \/ \E k \in Keys : CounterExpires(k)

Next == Proceed \/ \E h \in Handler : SharedFails(h)

Spec == Init /\ [][Next]_vars
=============================================================================
