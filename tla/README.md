# rust-ai-router in TLA+

A verification development of the router under `src/`: an HTTP proxy that spreads
OpenAI-style requests over upstream endpoints, bans endpoints that fail, retries,
limits rates, keeps sessions on one endpoint and shares some of this state between
instances through Redis. The modules are translated from the Rust code; names follow it.

## Inventory of the system

| Component (source) | State it keeps | Operations | What makes it correct |
|---|---|---|---|
| Circuit breaker (`fail2ban/breaker.rs`) | per endpoint key: failures in a row, totals, `banned_until`, last code | `is_banned`, `record_success`, `record_failure(_with_code)`, `reset` | a ban has one of the two documented causes, lasts no longer than it should, is shortened by `reset` only |
| Endpoint selection (`router/balancer.rs`) | one round-robin counter per model | `select_available`, `select_endpoint` | excluded endpoints are skipped, the others take turns |
| Request handler (`proxy/handler.rs`, `proxy_handler`) | the variables of each running request | collect bans, follow or make a binding, check limits, try endpoints, report results | nothing excluded is tried, an error is answered only when nothing is left, every request is answered |
| Generic proxy (`proxy/handler.rs`, `proxy_generic`) | the variables of each running request | one endpoint, one attempt | breaker and store hear the same story |
| Session affinity (`router/sticky.rs`) | session to endpoint index with last access | `get`, `set`, `touch` | an index is only followed where it names an endpoint |
| Rate limits (`ratelimit/limiter.rs`) | per key a governor limiter and a token bucket, behind an `Arc` | `check`, `consume_tpm`, `get_tpm_state`, cleanup | limits hold in every minute and are not enforced too early |
| Redis (`sync/redis_sync.rs`) | bans, bindings, request counters with expiry | get, set, count, each of which may fail | other instances learn of bans; every request is counted; a counter that refuses goes away |
| Health checker and store (`health/checker.rs`) | per key: healthy, request and error counts | the periodic sweep; `set_*`, `record_*` | outages and recoveries are noticed |
| Timeout (`auth/timeout.rs`) | none | drops a handler at an await | dropped handlers leave consistent state |
| Access control (`auth/middleware.rs`, `config/types.rs`) | none of its own, reads the configuration, anew at each of its steps | token resolution, inheritance from teams, aliases, access check | a request only reaches endpoints of models its token may use, and is refused for a reason, whatever is reloaded meanwhile |
| Configuration (`config/loader.rs`, `config/watcher.rs`) | the current configuration, swapped atomically; a channel of file events | load, validate, reload | what is in force is validated, the last valid file wins |
| Statistics (`stats/pg.rs`) | rows, two tables of hourly sums and a cursor in PostgreSQL, shared by all instances | record, aggregate, clean up | each row of a completed hour gets into both tables, once, whatever fails |
| Dashboard, live statistics (`health/dashboard.rs`, `proxy/handler.rs`) | counters per token, team, endpoint | rendering | displayed numbers are meaningful |
| Start-up, utilities (`main.rs`, `utils.rs`) | none | wiring; two lists of models behind the limits | lists are limited like requests |
| Anthropic translation, metrics | none, or write-only counters | conversions | - |

Handlers run concurrently on a multi-threaded tokio runtime and call breaker, router,
session store and limiters directly; these are DashMaps and atomics, so each call is a
critical section of its own and nothing spans two calls. Handlers await Redis and the
upstream, may be dropped at any await by the timeout middleware, and leave tasks behind
(bans and bindings to publish, streams whose tokens are counted at their end). The health
checker, the limiter cleanup, the configuration watcher and the two tasks of the statistics
are background tasks; those of the statistics of every instance meet in one database. Hard behaviours are therefore: state read before an await and used after it,
operations of several requests interleaved on one key, bans that end lazily, pairs used
after they left their map, publications that get lost, counters whose expiry gets lost, statements
that fail inside a transaction, and truncating arithmetic. Each
is listed with its line under `hazards` in `PROJECT.json`.

## Modules

| Module | Models |
|---|---|
| `Fail2ban` | the breaker under any caller |
| `CircuitBreaker` | the abstract specification of the breaker: what callers are promised |
| `BreakerHistory` | the breaker with the reported results as history, and the refinement mapping to `CircuitBreaker` |
| `BreakerProofs` | theorems about these |
| `EndpointKeys` | the two functions called `mask_key` |
| `ModelRouter` | the two selection functions and their counters |
| `RouterProofs` | theorems about `ModelRouter`'s operators |
| `ProxyHandler` | `proxy_handler`, composed of `Fail2ban` (instance `F2B`), `ModelRouter`, sticky.rs, the timeout and Redis; beside it, as an environment (`OthersHere`, `Elsewhere`), what the generic proxy, the health checker, the dashboard and other instances do to the same breaker, counters and Redis |
| `ProxyHistory` | the same with a history of the bans: which endpoints have been free since a request arrived, which bans a handler set (`handler_ban`), which Redis refused (`unpublished`) |
| `ProxyProofs` | theorems about both, and that the handlers use the breaker as its own theorems suppose |
| `Admission` | the gates of a request: the limits of its team, its token and the endpoints it tries, counted in Redis and then locally, for all three kinds of requests; composed with `ModelRouter` |
| `AdmissionHistory` | the same with who was counted where, lost expiries, and how long each endpoint has waited |
| `AdmissionProofs` | theorems about both |
| `RateLimiter` | one key of the local limiter store |
| `RateHistory` | the same with who was admitted when, and the ideal bucket |
| `RateLimiterProofs` | theorems about both |
| `HealthChecker` | the checker and the store beside `proxy_generic` and the dashboard, composed of `Fail2ban` and `ModelRouter` |
| `HealthProofs` | theorems about it |
| `AccessControl` | the watcher and the requests that load the configuration while it is replaced |
| `AccessProofs` | theorems about it |
| `StatsAggregation` | stats/pg.rs on one database: rows, hourly tables, cursor, transactions, cleanup, crashes |
| `StatsHistory` | the same with the rows no aggregation could have seen, and whether aggregations overlapped |
| `StatsProofs` | theorems about both |
| `MC*` | constants for TLC, one module per specification checked |

How they correspond to the code:

- **Atomic steps.** An operation that holds a map entry (`record_*`, `check_key`,
  `check_n`) is one step. A handler's step ends at every await and between two
  accesses to shared state: in `ProxyHandler`, collecting bans is one step per endpoint
  (two with Redis), the removal of an expired binding is a step after its lookup
  (`StickyRemove`), renewing the binding that is followed is one too (`Touch`), and publishing a
  ban is a task of its own that may run late. What others do to the state a handler shares
  with them is one step each, at any moment. In
  `RateLimiter`, cloning a pair's `Arc` (`Take`) and using it (`Update`) are two steps, so
  cleanup can come between; `get_tpm_state` is one step although the code gets the pair and then
  reads its window (`limiter.rs:259-260`): should anyone come between, the next to look
  starts the window that is over, and nothing else depends on it. In `HealthChecker`, what follows a probe is up to four steps.
  In `Admission`, INCR and EXPIRE are two steps, and the local check a third; a call that fails
  is an action of its own (`SharedFails`), and `ForwardedIsCounted` takes a gate for counted only
  if its counter grew or that very call failed. In
  `StatsAggregation`, every statement of the aggregation is a step; UPDATE of the cursor and
  COMMIT are one, as nobody sees the first without the second.
- **Time** is a counter of ticks. A ban that has ended stays in `banned_until`, as in the
  code, until `is_banned` or `reset` removes it.
- **Keys.** An API key is a sequence of characters and the two maskings are modelled as
  they are, because they differ: the router keeps three characters at each end, the
  handlers four. With keys of up to six characters both give `***`.
- **Results.** Upstreams answer with any status of a small set, or not at all. Limits,
  where a module is not about them, allow or refuse nondeterministically. The governor
  crate is modelled (as external) by the cell-rate algorithm it documents:
  `quota` at once, then one every `Minute \div quota`.
- **Redis counters.** A call may fail, and may have been counted all the same. A counter that
  was given a time to live expires at some moment (the window's length is not modelled); one
  past its limit is not counted further, as the code treats all such values alike. Handlers
  of `Admission` may belong to any instances, since Redis is all they share with others, except
  that the rotation counters are one instance's.
- **PostgreSQL** is read committed. A failing statement aborts its transaction, what follows
  it fails too and COMMIT rolls back. An upsert waits for open transactions that have written
  its keys and then adds to what they committed. A row stands for the numbers in it: the
  tables are given by how often each request is counted in them. Rows and aggregations use
  one clock (the code takes the end of an aggregation from the application's clock, a row's
  time from the database's). An INSERT may take any time, or for ever if it is lost. The
  cleanup's three DELETEs come in any order.
- **Configuration** is what `AccessControl` is about: `versions` holds every configuration
  that was in force, and a place in it stands for the pointer a request has loaded. The
  middleware, the access check and every selection load it afresh; following a binding
  uses the one of the access check. Validation is modelled as the code has it. Elsewhere
  the configuration is fixed, except that `retry_on_failure` may differ between requests
  (a handler reads it once) and that `Reload` changes the limits in `RateLimiter`.

## Runs

| Run | Checks | Bounds, and why they are enough |
|---|---|---|
| `breaker` (`MCBreakerHistory`) | `HTypeOK`, `ThresholdHasBan`, `CountersNest`, `BanFollowsAFailure`, `CountWithinStreak`, `OnlyResetLiftsABan`, `BanJustified`, `ImplementsCircuitBreaker` | one endpoint (entries of the map are independent), 13 results so that the error rate (from 10 on) bans before and after four failures in a row do, six ticks for three bans of two ticks |
| `admission` (`MCAdmissionHistory`) | `HTypeOK`, `ForwardedIsCounted`, `NoStarvation`, `LockoutEnds` | two handlers that take requests without end, one model with two endpoints and one without any, a team with a limit of two requests, a token with a limit of tokens only, an endpoint with a limit of one request. The rotation counter wraps at two: where it wraps matters only modulo the number of endpoints. Requests are endless and the state is finite, so no bound cuts a behaviour off |
| `proxy` (`MCProxyHistory`) | `TypeOK`, `NeverSentToExcluded`, `EndpointInModel`, `GivesUpOnlyWhenExhausted`, `BannedThroughoutIsAvoided`, `HandlerBansReachRedis`, `RequestsLiftNoBan` | two requests for models of two and one endpoints that share one, one session, Redis on and failing anywhere, one failure bans, one tick, one step of others anywhere (`MaxOthers`). Two requests suffice for each hazard, which is one request acting on what another changed; one foreign step adds a failure, a success, a reset, a look, a draw, or a ban or binding from elsewhere between any two steps. `MaxRequests` never binds. Keys are short; requests do not stream |
| `proxy_live` (`MCProxyLive`) | `EveryRequestAnswered` | two requests on two endpoints, streaming or not, with retries or not. `MaxRequests` never binds: a request tries an endpoint at most once. No step of others (`MaxOthers = 0`): to a request it is what the other request's steps are, and the graph would not fit the time |
| `limiter` (`MCLimiter`) | `HTypeOK`, `PairAdmissionBound`, `RefillNeverAhead`, `PairRefusalJustified` | three requests, a minute of two ticks, idle after three (ten minutes in the code: no property depends on the ratio), limits 2/3 and 1/none with reloads between them, at most two pairs. The view leaves out what a request that has ended still holds |
| `health` (`MCHealthChecker`) | `TypeOK`, `StoreWithinBreaker`, `EarlyUnbanIsHealthy`, `RecoveryNoticed`, `OutageNoticed` | two endpoints, one of them probed twice per sweep as it serves two models, one request, one outage or recovery, one tick. The sweeps are not bounded |
| `access` (`MCAccessControl`) | `TypeOK`, `ServedModelGranted`, `RefusalExplained`, `ReloadSettles` | one request, as requests share nothing but a configuration they only read; two edits, so that authentication, access check and selection may each see another configuration and an edit may fall into a reload. Six files (two the validation refuses, one without models, one whose list names an alias) and one that does not parse |
| `stats` (`MCStatsHistory`) | `HTypeOK`, `CountedOnce`, `PassedIsCounted`, `TablesAgree`, `HoursAreAggregated` | one instance, two rows, hours of two ticks, two failures, retention of an hour: a row may be late, be deleted early, meet a failing statement or a crash and its retry, and share a token hash with the other. Two instances are checked by `bug_two_instances` and by the proofs |
| `bug_long_keys` | finds `NeverSentToExcluded` violated | keys of ten characters |
| `bug_stream_retry` | finds `GivesUpOnlyWhenExhausted` violated | streaming requests |
| `bug_rpm_of_one` | finds `RpmRefusalJustified` violated | the dashboard polls first |
| `bug_two_instances` | finds `NoDoubleCounting` violated | two instances, one row, no failure |

`CHECK_DEADLOCK FALSE` stands where all requests may be done, or the bounds on time and rows are used up.
The `proxy` run has a view, which takes states together that differ only in what no later step and no
property but `TypeOK` depends on there: the breaker's counts and codes (one failure bans, whatever the
counts, and the error rate needs ten results), a counter beyond the endpoint it points at, what an
answered request held, bans that are over, and free keys of other models. `TypeOK` of what the view leaves out is proved (`TypesKept`).
`HandlerBansReachRedis` is checked with
`SyncBanTtl >= BanDuration` (60 seconds against the default of 60; a longer ban is a divergence, see below).
`ServedModelGranted` and `RefusalExplained` suppose that the files agree on what a name means
(`Unambiguous`), which `validate_config` does not ask for: if one file moves a name to another
model, a request admitted for one may be served by the other, and no code prevents it.
`PairAdmissionBound` is for quotas that divide the minute; the code counts nanoseconds,
where the remainder is negligible.

**Fairness.** `ProxyHistory!HFairSpec` has weak fairness of each request's own steps: tokio
polls a task that can go on, and the client's connect and overall timeouts (10 s and 300 s,
`main.rs:87-92`) make the upstream's answer or failure certain. It does not assume that
requests arrive or that the timeout middleware fires. `HealthChecker!FairSpec` has weak
fairness of the checker alone: its sleep ends and each probe has a timeout of ten seconds.
Requests may stop anywhere there. `AccessControl!FairSpec` has weak fairness of the reloading
task, which receives, sleeps 100 ms and loads without waiting for anyone; the file
need never change and requests need not go on. `AdmissionHistory!HFairSpec` has weak fairness of
EXPIRE, which a handler that waits for it issues, gives up (an error) or is dropped from, and of
the expiry of a counter that has a time to live. `StatsHistory!HFairSpec` has weak fairness of
each instance's aggregation: a loop with a timer that nothing stops while the process lives.
It does not assume that rows become visible, that instances start or that failures end other
than by their bound; `HoursAreAggregated` itself supposes that again and again somebody could
aggregate.

## What is proved

All proofs hold for every value of the constants that satisfies the named assumptions
(`Fail2banAssumption`, `ProxyAssumption`, `RouterAssumption`, `CharAssumption`, `LimiterAssumption`,
`AccessAssumption`, `AdmissionAssumption`, `StatsAssumption`, `HealthAssumption` and the breaker's
own as `BreakerAssumption` where it is a part), which only give types. What a theorem supposes
beyond them (short keys, a lifetime in Redis, a quota that divides the minute) is in its statement.
Every invariant and every action property of a passing run is stated by a theorem.

- `BreakerProofs`: type correctness of both specifications, and every property of the
  `breaker` run. `ThresholdHasBan` and `CountersNest` are inductive with the types.
  `OnlyResetLiftsABan` needs that no ban ends later than `now + BanDuration`, otherwise a
  failure during a ban could shorten it. The history's invariant (`HInv`) joins
  `CountWithinStreak` and `BanFollowsAFailure` with "the last failure is not in the
  future"; `BanJustified` is read off each step that sets a ban.
  `Implements`: the breaker implements `CircuitBreaker` under the mapping `Until`, which reads a
  ban that is over as none. Under `HInv` every recorded result and reset maps to its abstract
  step and a look at a ban to a stutter, because what it clears is over.
- `RouterProofs`: with keys of at most six characters a selection is never one the caller
  excluded, and is nothing only when all are (`ShortKeysRespectExclusions`); with longer
  keys it does not depend on what is excluded at all (`LongKeysIgnoreExclusions`), since
  the two maskings of a long key have different lengths (`LongKeysMaskApart`). Together
  they say exactly when bans and retries work.
- `RateLimiterProofs`: type correctness and `RefillNeverAhead` for any capacity, rate and
  spacing of operations. The inductive invariant (`RefillInv`) carries
  the tokens on to the instant the ideal bucket was last looked at: what the bucket holds,
  with what has flowed in since its own `last_update`, stays less than a token above the
  ideal level. `RefillNeverAhead` alone is not inductive, as it says nothing of the inflow a
  refill has still to add.
  Of the governor's quota: `RefusalsAreJustified` (a pair that refuses has admitted its whole quota
  within the last minute), `AdmissionsFitTheRate` (in no minute more than the burst and what the
  minute gives back) for every quota, and from it `FewerThanTwiceTheQuota`, which is
  `PairAdmissionBound` where every limit divides the minute (with a remainder of the division the
  interval is shorter than the limit asks for and the bound can fail). None is inductive, as each is about one
  window of time. `QuotaInv` joins, for every pair and every instant `t`, the number of admissions since
  `t` to the instant `free_at` at which the pair is free again: `n` admissions push it to at most
  `n` intervals past a bucket that was full at `t` (`FreeAtMost`), and to at least `n` intervals past
  `t` (`FreeAtLeast`). One lemma per kind of step suffices (`Quiet` steps only let time pass, add
  pairs or requests that were not admitted). That a pair's quota is one of the configured limits or
  1 (`QuotasKept`) is an invariant of its own.
- `AdmissionProofs`: type correctness, `ForwardedIsCounted` and `NoStarvation`, for any models,
  limits, tokens and number of handlers. The invariant (`AdmissionInv`) says of each handler which
  gates its request must have been counted at where it stands (`CallInv`), and that only one
  handler at a time is about to give a counter its time to live. `NoStarvation` needs
  `WaitingInv`: the selections an endpoint has waited and those until its turn (`Ahead`)
  together stay below the number of endpoints; each selection that could have taken it brings
  its turn one nearer. It is stated for counter ranges that every number of endpoints
  divides (`WholeRounds`): where the counter wraps in the middle of a round (2^64 is no
  multiple of three) a turn is lost, once in 2^64 selections.
- `StatsProofs`: type correctness, `PassedIsCounted` and `TablesAgree` for any number of
  instances, also when their aggregations overlap, and `CountedOnce`. The invariant (`StatsInv`)
  relates what is counted to the cursor and to every open transaction: what is before the
  cursor or before an open range is counted (`PassedInv`), a transaction that can still commit
  has written what it passed (`ReadInv`), rows deleted in time are behind every range
  (`DeletedInv`). For `CountedOnce` it adds that, without overlap, the only open range starts at
  the cursor and nothing from there on is counted (`AloneInv`, `OnceInv`).
- `AccessProofs`: type correctness (with it: every configuration in force has passed the
  validation), `ServedModelGranted` and `RefusalExplained`, for any files, any number of requests
  and edits. The invariant (`AccessInv`) adds what a request holds at each point:
  once admitted, the canonical name it was checked for under a configuration in force since
  it arrived; once picked, the configuration the endpoint came from. The step
  that matters is a selection under a newer configuration (`AgreedName`): where files agree
  on names, what it finds has a name the token was granted, or the token has the wildcard.
  New configurations disturb none of it, as `versions` only grows.
- `HealthProofs`: type correctness (the checker never probes past the end of its list),
  `StoreWithinBreaker` and `EarlyUnbanIsHealthy`, for any models, sweeps, number of requests, and
  endpoints that fail and come back as they like. `StoreWithinBreaker` is not inductive, as
  it does not know which requests have told the breaker and not yet the store: `StoreBehind` adds them
  (`Counted`, `CountedErrors`) to the store's side of the inequality, so that each report to the
  breaker adds one to both sides and each report to the store leaves the sum alone. `EarlyUnbanIsHealthy` needs that no ban reaches further than one set now
  (`BansWithin`, else a late failure could shorten one) and that from its mark on the checker's
  answer is the one the store shows (`ProbeMarked`), which no request's report changes.
  `CountsHoldBesideTheChecker` proves `ThresholdHasBan` and `CountersNest` there, by induction on the
  module's own steps.
- `ProxyProofs`: type correctness and `EndpointInModel` without further assumption;
  `NeverSentToExcluded` and `BannedThroughoutIsAvoided` where keys have at most six characters
  (`AllKeysShort`, from `ShortKeysRespectExclusions`; with longer keys `bug_long_keys` refutes
  the first); `GivesUpOnlyWhenExhausted` where, besides, no request streams (`bug_stream_retry`);
  `HandlerBansReachRedis` where `SyncBanTtl >= BanDuration`. All hold for any models, endpoints, sessions,
  number of requests, failures of Redis, and any steps of the generic proxy, the health checker
  and other instances. The invariant (`Inv`) says of each handler what it
  holds at the point where it stands (`CallInv`): every endpoint it has looked at was found
  banned or was free at some instant since it arrived, what it chose is in its model and not
  excluded, and an error means that nothing is left to try. A handler's step can only make other
  handlers' `free_since` grow (`Rest`), so the proof needs one lemma per action for the handler that
  moves. "All endpoints banned" needs the cardinality of the keys of a model (`AllSeenBanned`).
  `HandlerBansReachRedis` is about the bans a handler set, which the history keeps until when they last
  (`handler_ban`). It needs that Redis holds the whole of such a ban (`SyncInv`), not merely that it
  holds one now; that others prolong, shorten or repeat the ban in the breaker does not matter.
  `RequestsLiftNoBan` needs that no ban reaches further than `now + BanDuration` (`BreakerInv`); the one
  step it excepts is the checker's reset.
  *All endpoints banned* (`handler.rs:238`): `AllBannedMeansAll` proves the answer true for keys of any
  length, and that it is only given where the model's endpoints have distinct masked keys;
  `SharedKeysAreNeverAllBanned` is the other side: where two endpoints mask alike, nobody is ever told.
  *Composition*: `HandlersUseTheBreaker` proves that each step of the handlers, of others, Redis or the clock
  is to the breaker one of its own steps (`BreakerStep`), so every behaviour of `ProxyHistory` is one
  of `Fail2ban!Spec`, and the theorems of `BreakerProofs` carry over by instantiation
  (`ThresholdBansInHandlers`, `CountersNestInHandlers`). Those about a history (`BanJustified`,
  `CountWithinStreak`) do not carry over, as `ProxyHistory` keeps no such history.

Model-checked only: the liveness properties (`EveryRequestAnswered`, `LockoutEnds`,
`RecoveryNoticed`, `OutageNoticed`, `ReloadSettles`, `HoursAreAggregated`) stay with TLC, as the prover has
no reasoning about fairness. The properties of the violation runs are refuted, not proved, under the
constants of their runs.

## Divergences

Found by the violation runs (`findings` in `PROJECT.json`):

1. The router looks exclusions up under keys masked 3+3, the handlers make them 4+4. With
   keys of more than six characters (all real ones) bans and tried endpoints are ignored
   by selection. A handler whose upstream keeps failing then retries the same endpoints
   until one answers or the request's timeout drops it; `EveryRequestAnswered` is a
   statement about short keys.
2. A streaming request whose send fails is answered with 502 at once, without retry.
3. A pair created by `get_tpm_state` or `consume_tpm` allows one request per minute for as
   long as it lives.
4. Two instances that aggregate at the same time both read the old cursor and count every
   request of the range twice (`pg.rs:302`); `README.md:393` says "no double-counting" and
   `README.md:937` deploys three replicas.

Noted while reading, without a run:

- The streaming error above is not reported to the breaker, although `config/types.rs:173` says
  network errors are always counted.
- Weights are ignored (`router/balancer.rs:121`, `README.md:253`).
- `README.md:708` has all instances see bans instantly. Only `proxy_handler` publishes the bans it
  sets (`handler.rs:533`, `729`). The generic proxy (`handler.rs:1283`, `1298`, `1402`, `1466`) and the
  health checker (`checker.rs:173`, `187`) ban in the same breaker and publish nothing, so other
  instances go on using an endpoint these found failing; nor is it published when they prolong a
  ban. `HandlerBansReachRedis` is restricted to the former. Nor is there any Pub/Sub:
  `publish_ban` is empty (`redis_sync.rs:153`), and only `proxy_handler` asks Redis for bans
  (`handler.rs:230`), when a request arrives.
- A ban is published for 60 seconds whatever `ban_duration_secs` is (`handler.rs:534`).
- "All endpoints banned" counts distinct masked keys (`handler.rs:238`); two endpoints of one
  URL whose keys mask alike never reach the number of endpoints (`SharedKeysAreNeverAllBanned`).
- The removal of an expired binding may take a fresh one with it (`sticky.rs:31`), and
  concurrent first requests of a session use different endpoints (`handler.rs:550`).
- The token bucket may fall behind its linear rate, as every refill drops a fraction
  (`limiter.rs:65`); its overdraft is forgotten by the cleanup (`limiter.rs:446`); the "last
  60 seconds" of the statistics are a fixed window (`limiter.rs:129`); limits changed by a
  reload reach a key only when its pair has been idle (`limiter.rs:190`).
- A failing Redis always allows requests (`redis_sync.rs:106`); `fail_open` (`types.rs:313`) is never
  read, whatever `README.md:740` says of it.
- The health checker (`checker.rs:173`) and streams of the generic proxy count any status other than
  2xx as a failure; `types.rs:172` names `fail_status_codes` as those that count.
- The generic proxy records every row under the token hash `''` (`handler.rs:1462`), and the primary
  key of `token_usage_hourly` is hour and hash while the aggregation groups by team too
  (`pg.rs:342`). Two teams with such requests in one hour make every aggregation from then on
  fail ("cannot affect row a second time"), until the rows are deleted: the premise of
  `HoursAreAggregated`. A token moved to another team within an hour does the same.
- The cursor's row may never be created (`pg.rs:95`, `.ok()`): nothing is aggregated until a restart.
  Instances that start at once on an empty database may fail each other's CREATE TABLE, and
  the one that fails goes on without statistics (`pg.rs:60`).
- A request that is refused at its token's or endpoint's limit, or by every endpoint, stays
  charged to its team, and a chat request refused by limits has used a turn of the rotation.
- A handler that is dropped, or whose Redis fails, between INCR and EXPIRE leaves a counter that
  never expires (`redis_sync.rs:111`): the exception in `LockoutEnds`.
- The generic proxy checks no endpoint limit of requests; it only charges endpoint tokens.
- `requests - errors` in the dashboard can underflow (`dashboard.rs:89`).
- A token that overrides one limit gets 0, unlimited, for the other
  (`config/types.rs:354`), where `README.md:700` says it comes from the team.
- A list of models that names an alias allows nothing, as access is checked after aliases
  are resolved (`handler.rs:203`).
- A changed configuration reaches what reads it per request; what is built from it at
  start (breaker, session lifetime, Redis) keeps its values, whatever `README.md:17` says of
  changes. An editor that replaces the file by renaming may raise no event the watcher
  looks at (`watcher.rs:26`).

## Not modelled

Connecting to Redis; the inheritance of costs; the
live statistics of the dashboard, which are counters that are only displayed (their underflow is
noted above); the sums in the columns of the hourly tables. `select_sticky`,
`pick_weighted_with_offset`, `SessionStickyStore::cleanup` and `RateLimitPair::remaining` have no
caller. The Anthropic translation converts between two JSON formats, and metrics and rendering
keep no state a property could be about. Parsing of request bodies, headers and multipart forms is
abstracted to which model and session a request names. The build without the features
`postgres` and `redis-sync` has stubs that do nothing: Redis off is `SyncEnabled = FALSE`, and
limits that only the local limiters know.

## Plan

Done, in this order: breaker, selection, request handler, limiter, health checker, access
control with reloads, statistics, the chain of limits with the shared counters, the abstract
breaker and its refinement, and the proofs above. What could follow:

1. `HealthChecker` and `ProxyHistory` with the history of results that `CircuitBreaker` needs, and
   the proof that both implement it.
2. Limits under a changing configuration, joining `Admission` and `AccessControl`.
