# Verification of the NetGoat agent

NetGoat is a reverse proxy and traffic-policy agent written in Go. One process
polls a control plane for its configuration, keeps it in SQLite, compiles the
tables into the structures requests are served from, and passes every request
through authentication, rate limit, queue, classifiers, WAF, routing, cache and
a balancer. This directory holds TLA+ models of the parts whose correctness
depends on the order in which things happen, the TLC runs that check them on
small instances, and theorems proved for every instance.

Source references are relative to the repository's root.

## 1. Inventory

| Component | State it keeps | Operations | Talks to |
| --- | --- | --- | --- |
| Poller (`main.go:1157-1257`) | digest and version of the last delivered response, back-off | `connectToAPIStream`, `pollDomains`, conversion `snapshotFromDomainsResponse` | control plane (HTTP), streaming manager |
| Streaming manager (`internal/streaming/manager.go`) | current snapshot and version under a lock, listener channels of capacity 10, the recovery file | `NewManager`, `HandleMessage`, `Subscribe`, `GetSnapshot`, `Close` | poller, applier, disk |
| Applier (`main.go:1659-1891`) | none of its own; position in its loop | `applyConfigUpdates`, `applySnapshotToDB`, `mergeConfigSnapshots`, `syncHealthTargets` | manager's channel, SQLite, resolver, WAF, health worker |
| Startup (`main.go:53-166`) | agent settings | open the database, apply local routes and recovered snapshot, build the engines, start the goroutines | all of the above |
| SQLite store (`internal/database/database.go`) | routes, targets, WAF rules, users, sessions, zero-trust settings | `Init`, seeding, `SetRouteTargetsTx`, `ListAllRouteTargets`, ... | applier, resolver, WAF, auth |
| Route resolver (`internal/database/route_resolver.go`) | an atomically published route snapshot | `Reload`, `Resolve` | SQLite, request handler |
| WAF engine (`internal/waf/waf.go`) | an atomically published list of compiled rules | `Reload`, `Check` | SQLite, request handler |
| Health worker (`internal/health/worker.go`) | targets, their health, an in-flight limit | `Sync`, `Start`, `probeAll`, `recordProbe`, `IsHealthy` | applier, balancer |
| Balancer and proxy (`internal/balancer/balancer.go`) | a counter per route | `Pick`, `Serve` (retry of safe methods), `streamWriter` | health worker, request handler |
| Traffic (`internal/traffic`) | buckets of the rate and bandwidth limiters, slots and waiters of the queue | `Allow`, `Acquire`/`release`, `Wait` | request handler |
| Challenge store (`internal/challenge`) | pending challenges, failure budgets, verified clients, all bounded | `Create`, `Get`, `Verify`, `IsVerified` | request handler, verify handler |
| AI workers (`internal/aiworker`, `internal/anomaly`, `internal/koda2`, `internal/koda_waf`, `ai/*.py`) | a Python process and its pipes behind a one-slot lock | `Request`, start, restart, stop, `Close` | request handler, child process |
| Response cache (`internal/cache`, `main.go:1483-1569`) | an LRU of entries with deadlines | `Get`, `SetWithTTL`, `CaptureOnEOF`, cacheability rules | request handler |
| Client address (`internal/clientip`) | none | `Resolve` over forwarding headers and trusted proxies | request handler |
| Auth (`internal/auth`) | sessions and users in SQLite | `Check`, `Login`, `RequireZeroTrustChallenge` | request handler |
| Metrics (`internal/metrics`) | counters, a bounded reason map | `Record*`, two exporters | request handler |
| Telemetry (`internal/telemetry`) | reporter goroutine | `Start`, `Stop`, heartbeat | main |
| Request handler (`main.go:373-685`) | none of its own | the pipeline of one request | everything above |
| Configuration, honeypot, overlay, model download, scripts | none that matters here | parsing, rendering, I/O | startup, request handler |

How the parts interact:

    control plane --HTTP--> poller --> streaming manager --channel(10)--> applier
                                            |                               |
                                      recovery file            SQLite transaction, then
                                            |                  resolver, WAF, health worker
                              main at boot: local routes, then       (one after the other)
                              recovered snapshot, then fatal                 |
                              load of the routes                             v
    client --> auth -> honeypot -> rate limit -> queue -> classifiers -> WAF -> resolver
                    -> cache -> balancer (health) -> upstream -> cache

What is hard here: the poller, the applier, the probes and every request are
goroutines; the applier refreshes four structures one after the other with
failures in between; a full channel drops a snapshot without a word; the
recovery file and the tables survive a crash and are combined with `config.yml`
at the next boot; the version of a snapshot is the wall clock; a waiting request
leaves the queue by slot, cancellation or timeout, whichever the runtime picks;
a worker process is killed between request and answer; a response body reaches
the cache when it ends, long after it was asked for.

What makes each part correct:

* poller, manager, applier, startup: nothing accepted is lost, reordered or
  served in halves; what is served never goes back; a restart resumes with the
  last good configuration; the agent converges once the control plane settles;
* resolver, WAF: requests see all of one configuration or all of another;
* health and balancer: a result of a removed target changes nothing; a request
  is sent again only if that is safe and nothing reached the client;
* traffic: never more requests inside than slots, never more waiters than the
  bound, no slot leaked; over any window no more than burst + rate x time;
* challenge: an answer counts once, failures are bounded, eviction never
  verifies anybody, and nobody passes the gate on what another user solved; AI
  worker: an answer belongs to its request, and every request returns; cache: a
  hit is what an upstream said for that key within its lifetime, and was allowed
  by the rules and routes of this request; client address: what a client writes
  into its headers never decides whose request it is.

## 2. Modules

| Module | What it is |
| --- | --- |
| `ConfigStream` | poller, streaming manager, recovery file, applier and startup, composed: they share too much state to be apart |
| `ConfigFeed` | abstract specification: what the agent promises about its configuration, in three variables |
| `RequestQueue` | `traffic.Queue`, with a specification of its own (`QueueSpec`) |
| `Orders` | the elements of a set in order and parts of a list, defined without the library's `SortSeq` and `SelectSeq`, which the proof system does not know |
| `Buckets` | what the two token-bucket limiters have in common: refill, pruning, ageing |
| `RateLimiter`, `BandwidthLimiter` | `traffic.RateLimiter`; `traffic.BandwidthLimiter` with its response writer |
| `Traffic` | a request's way through the three, as the handler composes them |
| `HealthWorker` | `health.Worker`: probe cycles against a changing set of targets |
| `HealthAudit` | `HealthWorker` with a record of how the upstreams were, to judge verdicts by |
| `Exchange` | abstract specification: what proxying promises about one request |
| `Upstream` | `balancer.ProxyHandler`, `Balancer` and `streamWriter` on top of `HealthWorker` |
| `WorkerPromise` | abstract specification: what a classifier process promises to its callers |
| `AIWorker` | `aiworker.Worker` with its readers and the child process |
| `ChallengeStore` | `challenge.Store`: its critical sections as operators on stores, its operations |
| `Access` | who is let through: the zero-trust gate, error pages and the verify endpoint on top of `ChallengeStore` |
| `ResponseCache` | `cache.Store`, with the rules, the route and the upstream the handler asks around it |
| `RuleEngine` | WAF rules from a control-plane response to a verdict: conversion, order, evaluation |
| `Routing` | `RouteResolver.Resolve` next to the look-ups it replaced |
| `ClientAddress` | `clientip.Resolver`, with the proxies that extend its headers |
| `Services` | the services the request handler calls, which share no state, with their steps interleaved freely |
| `ConfigStreamMC`, `TrafficMC`, `HealthMC`, `UpstreamMC`, `ServicesMC` | the values of the constants for TLC; `ServicesMC` also looks at one service at a time |
| `ConfigStreamProofs`, `TrafficProofs`, `HealthProofs`, `UpstreamProofs`, `AIWorkerProofs`, `AccessProofs`, `ServicesProofs` | theorems |
| `BucketProofs` | lemmas about `Orders` and `Buckets` that two of them rest on |

Definitions marked "Mutant" in a comment are variants of the definition after
them with a plausible bug. No specification uses them; they document which bug
each property finds (`PROJECT.json`, "mutants").

### ConfigStream

State and code:

| Variable | Code |
| --- | --- |
| `remote`, `published` | what `GET /domains` answers; a history count that bounds the runs |
| `phase` | how far `main` has come: local routes applied, recovered snapshot applied, routes loaded, serving |
| `pollPc`, `response`, `digest`, `lastVersion` | `pollDomains` between its network read and its delivery; `domainPollState` |
| `current`, `queue` | `Manager.current` (`Manager.version` always equals its version), the applier's channel |
| `applierPc`, `taken` | the position in `applyConfigUpdates` |
| `recovery`, `db` | `database/config-snapshot.json` and the SQLite tables: they survive `Crash` |
| `resolver`, `waf`, `health` | the published route snapshot, the compiled rules, the probed targets |
| `settings` | the agent settings in `cfg` |
| `missed`, `lastServed` | history: the last broadcast met a full channel; the version last published to requests |

One action per step that other goroutines or a crash can separate: `Start`,
`ApplyLocal`, `ApplyRecovered`, `LoadRoutesFails`, `StartServing` for `main`;
`Fetch`, `SkipUnchanged`, `Deliver` (with `HandleMessage`, which runs under the
manager's lock) for the poller; `Subscribe`, `Take`, `ApplySnapshot`,
`ReloadRoutes`, `ReloadRules`, `SyncTargets` for the applier; `Crash`, and
`Publish` for the control plane. SQLite's transaction makes `ApplySnapshot`
atomic.

A snapshot is abstracted to a pool per route key, a set of rules, the zero-trust
switch and the agent section. Three kinds of bad content are told apart because
the code tells them apart: a pool or rule the transaction rejects, and a key the
transaction stores but `compileDomainMatcher` rejects.

Faults: with `"db"` any transaction, reload or target listing may fail; with
`"disk"` any save of the recovery file. A failed poll is not an action: it
changes none of this state.

### Traffic: RequestQueue, Buckets, RateLimiter, BandwidthLimiter

`RequestQueue`: `slots` is the length of the channel `sem`, `waiting` the counter
under the mutex, `timer` and `cancelled` what the second `select` of `Acquire`
waits for. `place` is the position of a request's goroutine: it has found no
slot (`busy`), waits, has been granted a slot or is leaving while its deferred
function has yet to run, is inside, was rejected, or is gone. One action per
channel operation or critical section; where several cases of the `select` are
ready, any may be taken. `Release` follows the code in ignoring an empty channel.

`Buckets`: a time stamp is represented by its age in ticks, so that behaviours
may go on for ever in finitely many states. Ages stop at `AgeBound`, above which
no comparison and no refill tells them apart (the assumptions on the constants
say so). `Allow` and `reserve` read the clock before they take the lock:
`Lag` bounds how old such a reading may be when it is used, so readings
overtake each other. Tokens are counted in units, so that a tick may be worth a
fraction of a request.

`RateLimiter`: `rateBuckets` and `recency` are the map and the list,
`ratePruneAge` the age of `lastPrune`. `BandwidthLimiter`: `pipes` is the map of
buckets, `remaining` what a writer has yet to write, `nap` its timer. Where the
scan for the oldest bucket meets several of one age, the order of Go's map
iteration decides: `Reserve` may take any. `quota` and `credit` are histories: what
an ideal bucket, never pruned and always refilled in time, would hold for each
key. They start afresh when a key is evicted, because eviction forgives.

`Traffic`: `rated` is the rate limiter's answer, `reply` the response. A request
asks the rate limiter, passes the queue, answers (with the upstream's response
or an error page, both through the throttle) and releases its slot on every way
out. The rate limiter shares nothing with queue and throttle, so `Traffic`
lets it answer anything; which answers it gives is checked in `Services`.
`RateLimited`, `Queued`, `Throttled` are the three `enabled` switches of the
configuration.

### Upstream: HealthWorker, HealthAudit, Exchange

`HealthWorker`: `targets`, `healthy`, `checked` are the maps of the worker,
`jobs` and `probes` the copy a cycle works on and the probes in flight. `up`
stands for the upstreams themselves: which kinds of check each would pass. A
probe's outcome is fixed when it starts and recorded later, or ignored if its
target is gone or checked otherwise. The agent has one probe loop, so the next
cycle begins after the last one is over. `HealthAudit` adds the conditions every upstream
had in this cycle and the one before.

`Upstream`: `rr` is the round-robin counter, `serve` the position in `Serve`
(`looking`: inside `Pick`; `trying`: inside the reverse proxy; `failed`: at the
head of the loop again). `Pick` looks up one target after the other, each under
the health worker's lock, so verdicts may change in between. `wrote`, `retry`,
`large` are the fields of the `streamWriter`; `hinted`, `status`, `from` what the
client has received. Upstreams are free to fail, to send an informational
response first, to answer well or with an error, to send an error larger than
the buffer, and to break off in the body. `dead` is a history: targets that
counted as unhealthy at some time while the request was served.

`Harmless` are the requests with a safe method and no body. `Exchange` says
what proxying is for: to be sent to several upstreams a request has to be
harmless, nobody is asked after the client got the beginning of an answer, and
the answer is from the upstream asked last or the agent's own.

### Services: AIWorker, Access, ResponseCache, RuleEngine, Routing, ClientAddress

The request handler calls these for every request, and requests are served
concurrently. Each service has its own lock, none calls another, and they share
no state. `Services` is their composition: a step of it (`Rate`, `Classifier`,
`Admission`, `Cache`, `Rules`, `Routes`, `Addresses`) is a step of one service
that leaves the others as they are, and steps of all of them follow each other in
any order. The handler's order of calls for one request is not assumed, so what
holds without it holds with it; where a property needs an order (rules, route,
cache), the module of the service has it. `RateLimiter` is one of the services.

`ServicesAreApart` proves that each service behaves in the composition as it does
alone, so a property of one can be checked without steps of the others.
`ServicesMC` does that, because the product of their states is out of TLC's
reach: its variable `service` says which of the services moves in this behaviour
(`OneService`).

`AIWorker`: `token` is the channel of capacity one that all calls of a detector
wait for; `process` is `cmd` with its pipes: whether it runs, the line it works
on and what it has written, which includes what the `bufio.Reader` holds. `stage`
is a call's position: `queued` in `acquire`, `holding` the token, `ready` to
write, `reading` (the select of `requestOnceLocked`), `failed` (back in
`Request`'s loop), `reaping` (the child is killed, its reader has to end).
`reader` is the goroutine that reads for a call: `blocked` in `readLine`,
`orphaned` when its child was killed, or the result that waits in its channel.
Where the select has several cases ready, any may be taken. The child may answer,
write a line that does not decode, write one above the limit, say nothing, or
die, as `ChildFaults` allows; starting one may fail.

`ChallengeStore`: `store` has the two maps and the two lists; `Cleaned`,
`Created`, `Marked`, `Failed` are the functions that need the lock, from a
store to a store, so that an operation is their composition as in the code.
`judged`, `solved`, `earned` are histories: wrong and right answers per
challenge, and when a binding last solved one. `Access` adds where each client's
request is (`visit`): about to look at the store, about to look again under the
write lock, about to be given a challenge, or between the two calls of the verify
endpoint. A binding is an address, with a user or without; clients behind one
address are different users. `Store.Get` is not called by the agent.

`ResponseCache`: `lru` is the list, whose order is the recency; `fetch` where a
handler is: at the rules, at the route, at the cache, waiting for the upstream,
or copying a body that will be stored when it ends. `Machine` is the product of
two durations in a machine integer. `open` is what the published rules and routes
let through; `chance` is a history of what has been open since a request came in.

`RuleEngine`: `records`, `usedNames`, `converted` are the conversion of a
response's rules; `ruleTable` is what `applySnapshotToDB` stored, in any order, as
Go's maps have none. `RuleOrder` is the engine's ORDER BY, `Evaluated` its list, `WafVerdict` its `Check`.
`Routing`: `routes` is the table; `Resolve` is the resolver on its sorted lists,
`LegacyRoutes` the set of answers of `GetRouteTargets`, whose queries leave some
ties open. A row is told by how it relates to one request.

`ClientAddress`: `peer`, `forwarded`, `xff` are what the resolver gets; `Forward`
is a trusted proxy, which appends the address it was connected from to one header
or to both. Three histories say who connected to the first trusted proxy
(`origin`), whether it sent headers (`forged`) and which headers the proxies
extended (`extended`): only if they all extended the same ones need the headers
agree without anybody's forging.

## 3. Runs

| Run | Shows |
| --- | --- |
| `config_outage` | with configurations of different shapes: `FeedSpec` (the refinement), `BootServesRecovered`, `ComesBack` |
| `config_rejected` | with rejected and unloadable snapshots: `CaughtUp`, `LayersAgree`, `ServedNeverRollsBack`, `Convergence` |
| `config_faults` | with transient faults and invalid snapshots: type invariant and the agreement of poller, manager and applier |
| `config_last_known_good` | violated: see 5.1 |
| `config_boot` | violated: see 5.2 |
| `config_agent` | violated: see 5.3 |
| `traffic_slots` | requests through rate limiter (any answer), queue and throttle: `SlotsAccounted`, `WaitersAccounted`, `ThrottleRespected`, `EverybodyLeaves` |
| `health_verdicts` | probe cycles against reconfiguration: `TrackedExactly`, `VerdictFresh`, `HealthConverges` |
| `upstream_failover` | proxying: `ExchangeSpec` (the refinement), `StatusTold`, `LastResort`, `FailsOverUnhinted`, `EverybodyServed` |
| `upstream_hints` | violated: see 5.5 |
| `services` | the services one at a time: rate limiter `RecencyKept`, `QuotaRespected`; classifier `PipesOwned`, `WorkerPromiseKept` (the refinement), `EveryCallReturns`; access `ListsAgree`, `AnswersRationed`, `VerifiedEarned`, `GateEarned`; cache `HitFresh`, `WithdrawnNotServed`; rules `RulesKept`, `FirstMatchDecides`; routes `ResolvesLikeLegacy`; address `AddressVouched`; and the types of all of them |
| `worker_overlong` | violated: see 5.6 |

Bounds.

* `config_*`: three route keys (one that does not compile), three pools (one
  invalid), three rules (one invalid), a clock that reads 1 or 3 in any order (so
  versions repeat and go back), a channel of capacity 2 instead of 10, at most
  three publications and one crash. Three publications are one more than fit
  the channel; one crash separates every pair of steps; the clock's two values
  give a forward jump, a repeat and a step back.
* `traffic_slots`: three requests of two clients, one slot, one waiting place,
  one byte bucket, a burst smaller than a response, readings of the clock up to
  one tick late. So a request waits, another is turned away by the queue or by
  the rate limiter, two share a bucket, the second client's bucket evicts the
  first's.
* `health_verdicts`: two upstreams, two probes at a time, two reconfigurations
  (removed and added again, checked in another way), two changes of an upstream.
  Two are what it takes for a result to be older than a removal and an addition.
* `upstream_failover`, `upstream_hints`: two requests of one route, one
  repeatable and one not, two targets, of which one or none is monitored, one
  change of its condition: verdicts change between two look-ups of one `Pick`,
  and both targets fail.
* `services`, rate limiter: three clients on two buckets, a tick worth half a
  request, late readings. Three keys on two buckets evict.
* `services`, classifier: two calls; the child dies, is silent or writes a line
  that does not decode. The second call meets what the first left behind: the
  most a call can leave, since each begins with what its predecessor left.
  `worker_overlong` needs three calls, as described in 5.6.
* `services`, access: two users behind one address, so three bindings, of which
  two can be verified at a time; three challenges, two at a time, two wrong
  answers each; a challenge lives for one tick, a verification for two, of three.
  So challenges and verifications are evicted, expire and are renewed, a look is
  split in two by any of this, and one user solves another's challenge.
* `services`, cache: two handlers, two pages, one entry, a word of eight units in
  which lifetimes of one, two and three seconds are positive below the store's
  limit, negative and positive again.
* `services`, rules and routes: every table of up to three rows. Two rows
  compare; the third is what may come between them, and names collide (5.7) from
  three rules on. Names are a word and the same word with a number.
* `services`, address: every pair of headers of up to two elements, two trusted
  and two other addresses, two hops, headers of at most three elements: one more
  than fits is refused. Without forged headers these are all the ways two proxies
  can extend them.

Fairness.

* `config_*`: `FairSpec` has weak fairness for `Boot` (a supervisor restarts the
  process, and `main` goes on), for the poller (its loop never ends, and the
  control plane answers again after a while) and for the applier (a goroutine
  that can run does run). Nothing is assumed of `Publish` and `Crash`.
  `config_faults` uses `Spec`: its properties are safety.
* `traffic_*`: weak fairness for the clock and for each request's goroutine.
  Clients need not disconnect. That each request's own step is enough although
  slots and bytes are contended is what `EverybodyLeaves` shows: every
  wait has a timeout, and there are finitely many requests.
* `services`, `worker_overlong`: `WorkerFairness` has weak fairness for each
  call's own goroutine, for its reader and for its deadline (every context has
  one: `worker.go:116`). Nothing is assumed of the child, of the other services
  or of `Close`. That a call gets the token although others want it too is shown:
  each that holds it comes to its end, and there are finitely many.
* `health_verdicts`, `upstream_*`: weak fairness for the probe loop (a ticker;
  each probe has a timeout) and for each request (an upstream answers, or the
  transport's timeouts end the attempt). Upstreams need not recover.

`Convergence` and `CaughtUp` except a broadcast that met a full channel: that
snapshot is not delivered again until the control plane changes
(`manager.go:247-253` together with the digest), and the properties say so with
`missed`. They also except an unloadable route that is already in the tables,
which blocks every reload until a snapshot removes it. `QuotaRespected` and
`ThrottleRespected` hold if a bucket refills within its lifetime
(`PruningRefills`, `PruningFills`; with ten minutes, any rate of at least
burst / 10 min); below that rate pruning hands out a full bucket early.

## 4. Proofs

`ConfigStreamProofs` proves, for every set of snapshots, every clock, every
channel capacity, every set of faults and any number of crashes:

* `TypeCorrect`: `Spec => []TypeOK`, inductive as it stands, with one lemma per
  operator on snapshots and tables and one step per action;
* `NoPollSwallowed`, `DeduplicationSound`, `SnapshotsInOrder`,
  `NothingLostBeforeSubscribing`: the four invariants of `config_faults`.

The four are conjuncts of one inductive invariant, `Agreement`, because none is
inductive alone. `DigestIsHeld` needs `VersionsInStep` (else `HandleMessage`
could ignore the delivery whose digest is then recorded), `PendingInOrder` needs
it too (the appended snapshot must be newer than all before it), and
`NewestReachesApplier` needs to know that the channel is empty before the
subscription. `Agreement` adds what holds before the goroutines run
(`NotStarted`, `NoChannel`) and that the applier never holds a snapshot newer
than the manager's.

* `ServedMovesForward` (`ServedNeverRollsBack`) and `FeedImplemented`
  (`FeedSpec`) need two assumptions more, together called `Calm`: no transient
  fault, and a snapshot that is applicable stays so with the local routes merged
  in. The invariant `Progress` says how versions are ordered from what is
  served over the tables, the applier and the channel to the recovery file.

* `LayersStayTogether` (`LayersAgree`), `NewestIsServed` (`CaughtUp`) and
  `RecoveredIsServed` (`BootServesRecovered`) need only that the database works
  (`DatabaseWorks`: no transient fault of a transaction, reload or listing; the
  disk may fail and any snapshot may be rejected). None is inductive: that an idle
  applier serves the newest snapshot has to be known of the one it took last
  (`Handed`: what was applied is in the tables, what the applier is done with is
  served), that one has to be the manager's (`Agreement`), and while the applier
  refreshes routes, rules and targets one after the other, those it has done have
  the tables' version (`Layered`). A crash and a boot re-establish all of it
  from the recovery file. Together with `Layered` and `Handed`,
  `BootServesRecovered` is the invariant `Serving`.

`BucketProofs` has what the two limiters and the rules share: `Sorted` lists each
element of a finite set once and in order (`SortedElements`; the ranks are 1 to
the cardinality, by a pigeonhole argument instead of an induction), `Sublist`
keeps the order of what it keeps, and buckets are `Backed` by ideal ones: what a
bucket would hold, if it were used right away with the oldest reading of the clock
there is, is no more than the ideal bucket has, and a key without a bucket has a
full ideal one. Refilling, ageing and pruning keep that (`RefillBacked`,
`AgedBacked`, `PrunedBacked`); pruning does because a bucket it takes has
refilled, which is where `PruningRefills` and `PruningFills` are needed.

`TrafficProofs`, for any number of requests, slots, places and any timeout:
`QueueSafe` proves the counters of the queue alone; `HandlerUsesQueue`
that the handler implements `QueueSpec`, that is, it never releases a slot it
does not hold; `SlotsStayAccounted` and `WaitersStayAccounted` follow for the
whole handler. `QueueInv` is inductive; its step rests on how moving one request changes
the cardinality of a group. `BandwidthTypes` and `ThrottleIsRespected`
(`ThrottleRespected`) add the throttle, for any keys, rates, chunks and late
readings: its buckets are `Backed` by `credit` (`BandwidthInv`), whichever writer
takes the bytes and whichever bucket makes room.

`HealthProofs`, for any targets, checks, workers, configurations and changes:
`HealthTypeCorrect`, `NothingComesBack` (`TrackedExactly`), `VerdictsStayFresh`
(`VerdictFresh`). The invariant says that jobs and probes are of different
targets (`CycleInv`), that a probe in flight answers how its upstream was since the cycle
began, and that a target configured before the cycle has a job,
a probe or a verdict of this cycle (`FreshInv`); the last is what makes a
verdict fresh when the cycle ends.

`UpstreamProofs`, for any requests, pools (a target may be named twice), targets
and health checks: `ExchangeImplemented` (`ExchangeSpec`), `FailoverComplete`
(`FailsOverUnhinted`), `PageIsLast` (`LastResort`), `StatusIsTold`
(`StatusTold`). The invariant has one part per phase of a request: between attempts
nothing reached the client; during `Pick`, each target was tried, found, dead or
is still to be looked up; in an attempt, the flags of the `streamWriter` say
what reached the client. The types of the health worker are not needed.

`AIWorkerProofs`, for any number of calls: `PipesStayOwned` (`PipesOwned`) and
`PromiseIsKept` (`WorkerPromiseKept`, that `AIWorker` implements
`WorkerPromise`). The first needs to know, for each stage, whether there is a
child and what the reader does (`Consistent`), and that who is in an owning stage
has the token (`OneOwner`). The second adds `Clean`: while nobody reads, the child
has no request and nothing is in its pipe; while a call reads, its request is with
the child, or one line for it is in the pipe or with the reader, and nothing
else is anywhere. It is proved for children that never
exceed the limit (`"oversized" \notin ChildFaults`); otherwise it is false (5.6).

`AccessProofs`, for any clients, addresses, users, bounds and lifetimes:
`ListsStayAgreed` (`ListsAgree`), `AnswersAreRationed` (`AnswersRationed`),
`GatesAreEarned` (`GateEarned`) and `VerifiedIsEarned` (`VerifiedEarned`). First, what holds of a list that is ordered by
expiry when an element or a front is taken off or a later one appended; then one
lemma per critical section (`CleanedStore`, `CreatedStore`, `MarkedStore`,
`WithoutChallengeStore`, `FailedStore`) that it keeps lists and maps in agreement
and says what becomes of each entry; then `StoreInv`. The invariant is needed
as a whole: appending at the end keeps the order only because no entry
expires later than the clock and a lifetime from now, which for verified bindings
follows from `verified = earned + VerificationTTL` and `earned <= clock`; and that
a challenge is gone once it is solved needs that its count of failures is the
history's. `GateEarned` follows because cleaning up with an old time
(`IsVerified`'s second look) removes entries and changes none.

`VerifiedIsEarned` adds to that, with an argument about numbers, that a binding
forgotten before its time has `MaxVerified` others that solved a challenge since
(`Remembered`). The store drops the front of a full list, and the list is in the
order of expiry, so all who stay solved theirs since; and whoever has solved one
since remains so, however often it is renewed, evicted or expires itself. It needs
to know as well that no look at the store goes on with a time to come
(`NowPast`): cleaning up with one would forget bindings that still count.

`ServicesProofs` has the rest of the services and all of them together.

* Rate limiter, for any keys, rates and bounds: `QuotaIsRespected`
  (`QuotaRespected`) as above, with `quota` for the ideal buckets, and
  `RecencyIsKept` (`RecencyKept`): each key is in the list once, and one before
  another was used no more than `Lag` earlier. That moving a key to the front
  keeps this needs that nobody reads a clock older than `Lag`.
* Cache, for any pages, lifetimes, word sizes: `HitsAreFresh` (`HitFresh`) and
  `WithdrawnIsNotServed` (`WithdrawnNotServed`). Entries are in the list once and
  stored in the past for no longer than allowed (`Sound`), where the arithmetic
  of `SharedTTL` is a lemma about the modulus; and a handler has got no further
  than what was open since its request came in let it (`Permitted`).
* Client address, for any proxies, forged headers and hops: `AddressIsVouched`
  (`AddressVouched`). One of the headers has the origin's address, followed by
  trusted ones only (`Vouches`), but nobody knows which: that is why both have to
  agree when both are there. That it is not the proxy if nothing was forged and
  all proxies extended the same headers needs that these have an element for
  every proxy, are equal, and are the only ones (`Plain`, `Grown`). Proxies that
  extend different headers make an honest request's headers contradict each
  other, and it is taken to come from the last proxy (`resolver.go:78-79`).
* Rules, for any names and responses of any size: `RulesAreKept` (`RulesKept`). The
  invariant has a bijection between the keys and the pairs of a name and the
  number of its copy (`KeyedBy`); that two copies are called alike then comes
  down to when two names are. That a new key exists is the pigeonhole principle:
  one of `MaxRules` numbers is free. `FirstMatchIsDecisive` (`FirstMatchDecides`)
  follows from what sorting yields, for tables of any size.
* Routes, for tables of any size: `ResolverFollowsLookUps` (`ResolvesLikeLegacy`).
  Each of the resolver's three lists finds a row that the corresponding query
  may find, or both find none (`Answers`), and the three are asked in the same
  order (`ChosenInTurn`).
* Composition: `ServicesAreApart` proves that `Services`, whose steps are those of
  all services interleaved in any order, implements the specification of each:
  the steps of the others change none of its variables (`OneServiceSteps`), and
  the fairness of the composition is the classifier's. So what was proved of one
  alone holds while all of them work (`ServicesTypes`, `ServicesKeepTheirPromises`).

All theorems rest on the assumptions the modules name for their constants. Six
have a hypothesis of their own, for behaviours in which the property is false or
not promised: `Calm` (two), `DatabaseWorks` (three) and a child that writes no
line above the limit (`PromiseIsKept`).

Every invariant, action property and refinement that a passing run checks is
stated by a theorem. Model-checked only are the liveness properties (`ComesBack`,
`Convergence`, `EverybodyLeaves`, `HealthConverges`, `EverybodyServed`,
`EveryCallReturns`), because the proof system does not handle fairness with
ENABLED. So `ConfigFeed` and the other abstract specifications promise safety
only: that something happens is for TLC.

## 5. Where the code and its documents disagree

1. `manager.go:242` saves every newer snapshot over the recovery file before it
   was applied, and at boot the local routes replace the stored ones first
   (`main.go:100`). After a snapshot the transaction rejects and a restart, the
   agent serves `config.yml` alone, not the last known-good configuration of
   `README.md:5` and `config.yml:103`.
2. A key that is stored but does not compile as a pattern leaves the running
   agent on its routes (`route_resolver.go:54-58`) and makes every later boot
   end in `log.Fatal` (`main.go:115`), before the poller could fetch a fix.
3. A snapshot without `agent_config` becomes one with a zero section by the JSON
   round trip (`manager.go:144-153`), which the next boot applies over the
   settings of `config.yml`; `agent_config_test.go:82-92` wants the opposite.
4. `applyConfigUpdates` never refreshes the standby copy of the database: the
   only call is in the periodic loop (`main.go:1711`), which a zero interval
   does not start. `config.go:179` says that snapshot-triggered backups still
   run then, and `main.go:1685` speaks of the "config-update and periodic backup
   goroutines". Found by reading; no run models the standby.
5. `streamWriter.WriteHeader` (`balancer.go:239-255`) takes an informational
   response (103) for the final header. A 5xx after it is neither held back nor
   retried, and the client gets its body with status 200; the comment at
   `balancer.go:82-83` promises failover on 5xx. With metrics,
   `metrics.go:244` drops the final status in the same way.

6. `readLine` (`worker.go:222-233`) stops at the limit and leaves the rest of the
   line in the reader's buffer. Normally the child is then restarted, but not if
   the call's context has ended meanwhile (`worker.go:141-143`). The next call
   takes the rest for its answer and may give up in the same way; the one after
   it is given the answer meant for the second. `worker_test.go:65` and
   `worker_test.go:110` promise a clean start after a failed call. A child that
   writes no such line keeps the promise (`PromiseIsKept`).
7. The second rule called "n" is renamed to "n #2" (`main.go:1313`) even if there
   is a rule of that name; then `UNIQUE(name)` makes the transaction reject the
   whole snapshot. `waf_scope_test.go:10` states that duplicate names are kept.
   `RulesKept` says that this is exactly when names collide.
8. `route_resolver_test.go:14` wants the resolver to answer as `GetRouteTargets`
   does. They differ on stored domains with a port or a final dot, and on paths
   that SQL's `LIKE` matches without regard to case or through `%` and `_`.
   `GetRouteTargets` is called by tests only. `ResolvesLikeLegacy` shows that they
   agree on all other tables.

Two remarks where no document says otherwise: a 5xx that is held back and whose
body breaks off aborts the request instead of failing over; and `main.go:688-713`
returns from `main` as soon as `ListenAndServe` does, without waiting for
`Shutdown` to drain the requests.

What the properties do not say: `HitFresh` counts an entry's age from when it was
stored, so of two responses for one page the older may replace the newer and is
then served for up to its lifetime; and after a route has moved to another
upstream, pages of the old one are served until they expire. `FirstMatchDecides`
leaves open which of two rules of one priority decides: their ids follow the order
of a Go map (`main.go:1804`). A transaction that fails transiently is not tried
again (`main.go:1668`), and the properties about what is served assume that none
does.

## 6. Not modelled

* Rendering (challenge images, the debug overlay, error and login pages), model
  downloads, scripts, TLS and HTTP itself: no state whose order matters.
* The expression language of the WAF, regular expressions, cookies and password
  hashing: libraries. A rule matches, does not, or fails; a route's pattern relates
  to the request in one of the ways the code tells apart.
* The flattening of domains and targets in `snapshotFromDomainsResponse`: pure
  functions, whose result `ConfigStream` takes as a payload. The conversion of
  rules is in `RuleEngine`.
* Queries that do not decode, which `Check` blocks before it looks at the rules
  (`waf.go:97-101`), and the 8 KiB above which forwarding headers are refused
  like those that do not parse (`resolver.go:153,180`).
* Protocol upgrades: an upstream's 101 ends `Upstream`'s exchange in a tunnel that
  is the library's.
* What may happen between the statements of `seedDefaults` (`database.go:244-299`):
  they run one by one before anything else does, and `Start` takes them together.
* Migrations, users and session rows; `auth.Check` is a user or nobody.
* The detectors around the AI workers (`anomaly`, `koda2`, `koda_waf`) format a
  request and compare a score; the Python side is `ChildWrites` and `ChildDies`.
  A child that writes a line nobody asked for beside its answer is left out:
  `write_response` writes one line for each it reads.
* Metrics: counters under one lock nothing reads back. Telemetry: one goroutine
  that posts until it is stopped. Honeypot: a stateless match. `config.yml`:
  parsed once.
* The standby database (`OpenWithFailover`, `BackupTo`) is called by `main.go` but
  is not in the sources at this commit.

Worth doing next: the life cycle of telemetry, sessions and their expiry, and the
requests' own bodies under the throttle, each with its theorems.
