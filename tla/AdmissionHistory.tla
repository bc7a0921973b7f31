-------------------------- MODULE AdmissionHistory --------------------------
(***************************************************************************)
(* Admission with what its promises speak of: where each request was       *)
(* counted and where Redis answered its call with an error, the counters   *)
(* that were left without a time to live, and how long each endpoint has   *)
(* been passed over.                                                       *)
(***************************************************************************)
EXTENDS Admission

VARIABLES
  counted,    \* handler |-> keys whose counter its request has increased, or
              \* whose call failed for it
  orphaned,   \* keys whose EXPIRE failed or was never issued
  waiting     \* model |-> index |-> selections in a row that could have
              \* taken the endpoint and took another

hvars == <<vars, counted, orphaned, waiting>>

HTypeOK ==
  /\ TypeOK
  /\ counted \in [Handler -> SUBSET Keys]
  /\ orphaned \subseteq Keys
  /\ \A m \in Model : waiting[m] \in [Index(m) -> Nat]

HInit ==
  /\ Init
  /\ counted = [h \in Handler |-> {}]
  /\ orphaned = {}
  /\ waiting = [m \in Model |-> [i \in Index(m) |-> 0]]

\* A selection for model m by handler h; its answer may be "no endpoint".
Selection(m) == counters'[m] # counters[m]
Took(h, m, i) == call'[h].model = m /\ call'[h].current = i

Offered(h, m) ==
  IF call'[h].current = NoEndpoint THEN {}
  ELSE IF call'[h].kind = "generic" THEN Index(m)
  ELSE {i \in Index(m) : HandlerKey(m, i) \notin call'[h].banned \cup call'[h].tried}

Waited(h, m, i) ==
  IF ~Selection(m) THEN waiting[m][i]
  ELSE IF Took(h, m, i) \/ i \notin Offered(h, m) THEN 0
  ELSE waiting[m][i] + 1

Moves(h) == pc'[h] # pc[h] \/ call'[h] # call[h]

Increased(h) == pc[h] = "shared" /\ Moves(h) /\ shared'[Key(h)] > shared[Key(h)]

\* A step in which the calls of the handlers in F fail.
Remember(F) ==
  /\ counted' = [h \in Handler |->
       IF pc'[h] = "idle" THEN {}
       ELSE IF Increased(h) \/ h \in F THEN counted[h] \cup {Key(h)}
       ELSE counted[h]]
  /\ orphaned' = {k \in Keys :
       /\ shared'[k] > 0
       /\ \/ k \in orphaned
          \/ \E h \in Handler : pc[h] = "expire" /\ Moves(h) /\ Key(h) = k /\ k \notin expiring'}
  /\ waiting' = IF \E h \in Handler : Moves(h)
                THEN LET h == CHOOSE g \in Handler : Moves(g)
                     IN  [m \in Model |-> [i \in Index(m) |-> Waited(h, m, i)]]
                ELSE waiting

HNext ==
  \/ Proceed /\ Remember({})
  \/ \E h \in Handler : SharedFails(h) /\ Remember({h})

HSpec == HInit /\ [][HNext]_hvars

(* Redis expires the keys it was told to expire, and a handler that waits  *)
(* for the answer to its EXPIRE gets it, or an error, or is dropped.       *)
HFairSpec ==
  /\ HSpec
  /\ \A h \in Handler : WF_hvars(Expire(h) /\ Remember({}))
  /\ \A k \in Keys : WF_hvars(CounterExpires(k) /\ Remember({}))

-----------------------------------------------------------------------------
(* README "team shared budget -> token personal limit", and the endpoint's *)
(* after them: on whatever way a request comes to an endpoint, by its      *)
(* session, the router, a retry after an error or after another endpoint's *)
(* refusal, it has increased the counter of every limit it is subject to,  *)
(* or the very call that should have was answered with an error.  The      *)
(* generic proxy has no endpoint limit.                                    *)
ForwardedIsCounted ==
  \A h \in Handler : pc[h] = "sent" =>
    \A gate \in (IF call[h].kind = "chat" THEN Gates ELSE {"team", "token"}) :
      LimitsAt(call[h], gate).rpm > 0 => KeyAt(call[h], gate) \in counted[h]

(* No starvation and no favourites: an endpoint that no selection has to   *)
(* do without is taken within Total(m) selections of its model, whatever   *)
(* requests draw from the counter: first choices, retries, the generic     *)
(* proxy, and requests that are refused after they were given an endpoint. *)
NoStarvation ==
  \A m \in Model : \A i \in Index(m) : waiting[m][i] < Total(m)

(* redis_sync.rs's window: a shared counter that has refused requests goes *)
(* away, however many requests keep coming and are refused meanwhile,      *)
(* unless its EXPIRE got lost.                                             *)
LockoutEnds ==
  \A k \in Keys : (shared[k] > 1) ~> (shared[k] = 0 \/ k \in orphaned)
=============================================================================
