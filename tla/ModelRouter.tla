----------------------------- MODULE ModelRouter -----------------------------
(***************************************************************************)
(* Endpoint selection, src/router/balancer.rs: one round-robin counter per *)
(* model, and a pass over the model's endpoints from where it points that  *)
(* skips the keys a caller excludes.  Endpoint indices count from 0.       *)
(***************************************************************************)
EXTENDS EndpointKeys

CONSTANTS
  Model,         \* canonical model names
  Url,           \* endpoint URLs
  Endpoints,     \* model |-> sequence of records [url, key, weight]
  CounterRange   \* values of a round-robin counter: 2^64 in the code

ASSUME RouterAssumption ==
  /\ \A m \in Model : Endpoints[m] \in Seq([url : Url, key : Seq(Char), weight : Nat])
  /\ CounterRange \in Nat \ {0}

VARIABLE counters

RouterTypeOK == counters \in [Model -> 0..(CounterRange - 1)]

RouterInit == counters = [m \in Model |-> 0]

-----------------------------------------------------------------------------

NoEndpoint == -1

Total(m) == Len(Endpoints[m])
Index(m) == 0..(Total(m) - 1)

\* The key select_available looks up, and the one the request handlers keep
\* bans, failures and tried endpoints under.
RouterKey(m, i) == <<Endpoints[m][i + 1].url, router_mask_key(Endpoints[m][i + 1].key)>>
HandlerKey(m, i) == <<Endpoints[m][i + 1].url, handler_mask_key(Endpoints[m][i + 1].key)>>

\* Mutant: every pass starts at the first endpoint.
Start_First(m) == 0

\* Where the next pass over the endpoints of m starts.
Start(m) == counters[m] % Total(m)

\* RoundRobinCounters::next
next(m) == counters' = [counters EXCEPT ![m] = (@ + 1) % CounterRange]

\* Mutant: the pass stops one endpoint short.
FreeOffsets_OneShort(m, start, excluded) ==
  {o \in 0..(Total(m) - 2) : RouterKey(m, (start + o) % Total(m)) \notin excluded}

\* The place of the pass at which the first endpoint that is not excluded stands.
FreeOffsets(m, start, excluded) ==
  {o \in Index(m) : RouterKey(m, (start + o) % Total(m)) \notin excluded}

\* Mutant: the index is not taken modulo the number of endpoints.
FirstFree_NoWrap(m, start, excluded) ==
  LET free == FreeOffsets(m, start, excluded)
  IN  IF free = {} THEN NoEndpoint
      ELSE start + CHOOSE o \in free : \A p \in free : o <= p

FirstFree(m, start, excluded) ==
  LET free == FreeOffsets(m, start, excluded)
  IN  IF free = {} THEN NoEndpoint
      ELSE (start + CHOOSE o \in free : \A p \in free : o <= p) % Total(m)

\* Mutants: one of the two sets is not looked at.
Selected_IgnoresTried(m, banned, tried) ==
  IF Total(m) = 0 THEN NoEndpoint ELSE FirstFree(m, Start(m), banned)
Selected_IgnoresBanned(m, banned, tried) ==
  IF Total(m) = 0 THEN NoEndpoint ELSE FirstFree(m, Start(m), tried)

\* What select_available returns; it draws from the counter unless the model
\* has no endpoints.
Selected(m, banned, tried) ==
  IF Total(m) = 0 THEN NoEndpoint ELSE FirstFree(m, Start(m), banned \cup tried)

select_available(m) == IF Total(m) = 0 THEN UNCHANGED counters ELSE next(m)

\* select_endpoint, which pick_weighted implements without looking at weights.
pick_weighted(m) == IF Total(m) = 0 THEN NoEndpoint ELSE Start(m)
=============================================================================
