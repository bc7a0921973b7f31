--------------------------- MODULE MCProxyHistory ---------------------------
EXTENDS ProxyHistory, MCProxyHandler

KeysOfModel == [m \in Model |-> {HandlerKey(m, i) : i \in Index(m)}]

Settled(r) ==
  call[r].retry /\ call[r].reply \in {"upstream_error", "stream_error", "no_endpoint", "all_banned"} =>
    KeysOfModel[call[r].model] \subseteq Excluded(r)

Ahead(t) == IF now < t THEN t ELSE Never

\* What the run tells states apart by.  With MaxFailures = 1 and MaxRequests
\* out of reach, no later step and no property but TypeOK depends on the rest:
\* the breaker's counts and codes, the rotation beyond its next start, what an
\* answered request held, bans that are over, other models' keys that were free.
View ==
  <<now, banned_until, [m \in Model |-> Start(m)], sticky, sync_sticky, spawned, pc, others,
    [k \in HandlerKeys |-> Ahead(sync_bans[k])],
    [k \in HandlerKeys |-> Ahead(handler_ban[k])],
    {k \in unpublished : now < handler_ban[k]},
    [r \in Request |-> IF pc[r] = "done" THEN Settled(r)
                       ELSE <<call[r], free_since[r] \cap KeysOfModel[call[r].model]>>]>>
=============================================================================
