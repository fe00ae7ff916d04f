---------------------------- MODULE ConfigStream ----------------------------
(***************************************************************************)
(* How a configuration travels from the control plane to the request path: *)
(*                                                                         *)
(*   control plane --poll--> streaming.Manager --channel--> applier        *)
(*                              |                             |            *)
(*                        recovery file        SQLite -> resolver, WAF,    *)
(*                                                       health worker     *)
(*                                                                         *)
(* The poller (connectToAPIStream) and the applier (applyConfigUpdates)    *)
(* are goroutines; the process may die between any two of their steps and  *)
(* main boots again from the SQLite file and the recovery file.            *)
(*                                                                         *)
(* Simplifications:                                                        *)
(*  - a fetch that fails or is rejected changes none of this state (it     *)
(*    only delays the next one), so it is not an action: not fetching is   *)
(*    always allowed, except where fairness says otherwise;                *)
(*  - the poller's snapshots never carry users or user domains             *)
(*    (snapshotFromDomainsResponse leaves both empty), so the database has *)
(*    no users here;                                                       *)
(*  - health checks are enabled, and the recovery file is readable when it *)
(*    exists: a rename replaces it as a whole;                             *)
(*  - graceful shutdown ends in a process exit: it is the Crash action.    *)
(***************************************************************************)
EXTENDS Integers, Sequences, FiniteSets

CONSTANTS
  Key,             \* route keys: (route_type, domain, path_prefix)
  Target,          \* upstream pools a route may name
  NoRoute,         \* the value of a key without a row
  InvalidTarget,   \* pools normalizedRouteTargets rejects
  UnloadableKey,   \* keys applySnapshotToDB stores and compileDomainMatcher rejects
  Rule,            \* WAF rules
  InvalidRule,     \* rules the transaction rejects: a bad expression, a duplicate name
  AgentSettings,   \* values of the agent_config section
  ZeroSettings,    \* the one with every field at its zero value
  LocalRoutes,     \* the routes of config.yml
  LocalConfigured, \* does config.yml have a routes section?
  SeedRoutes,      \* what seedDefaults inserts into an empty routes table
  SeedRules,       \* and into an empty waf_rules table
  Payload,         \* snapshots the control plane may publish, as converted
  NoPayload,       \* no digest recorded yet / no response at hand
  Clock,           \* readings of time.Now().UnixNano()
  ListenerCap,     \* capacity of a listener channel: 10 in the code
  Faults,          \* transient failures considered: a subset of {"db", "disk"}
  MaxPublishes,    \* bound: configuration changes made by the control plane
  MaxCrashes       \* bound: times the process dies

RouteTable == [Key -> Target \cup {NoRoute}]
EmptyRoutes == [k \in Key |-> NoRoute]
Absent == "absent"

Config ==
  [routesSet : BOOLEAN, routes : RouteTable, rulesSet : BOOLEAN, rules : SUBSET Rule,
   zeroTrust : {"unset", "on", "off"}, agent : AgentSettings \cup {Absent}]

EmptyConfig ==
  [routesSet |-> FALSE, routes |-> EmptyRoutes, rulesSet |-> FALSE, rules |-> {},
   zeroTrust |-> "unset", agent |-> Absent]

ASSUME ConstantsAssumption ==
  /\ NoRoute \notin Target
  /\ InvalidTarget \subseteq Target /\ UnloadableKey \subseteq Key /\ InvalidRule \subseteq Rule
  /\ ZeroSettings \in AgentSettings /\ Absent \notin AgentSettings
  /\ "local" \notin AgentSettings
  /\ LocalRoutes \in RouteTable /\ LocalConfigured \in BOOLEAN
  /\ (LocalRoutes # EmptyRoutes) => LocalConfigured
  /\ SeedRoutes \in RouteTable /\ SeedRules \subseteq Rule
  /\ Payload \subseteq Config /\ Payload # {} /\ NoPayload \notin Payload
  /\ Clock \subseteq Nat /\ Clock # {}
  /\ ListenerCap \in Nat \ {0}
  /\ Faults \subseteq {"db", "disk"}
  /\ MaxPublishes \in Nat /\ MaxCrashes \in Nat

VARIABLES
  remote,      \* what GET /domains would answer now
  published,   \* how often the control plane changed it
  crashes,     \* how often the process died
  phase,       \* how far main has come
  pollPc,      \* the poller: not started, between polls, or holding a response
  response,    \* that response
  digest,      \* domainPollState.digest, NoPayload when hasDigest is false
  lastVersion, \* domainPollState.lastVersion
  current,     \* Manager.current; Manager.version always equals current.version
  missed,      \* history: the broadcast of current found the channel full
  queue,       \* the applier's listener channel
  applierPc,   \* the applier's next step
  taken,       \* the snapshot the applier last received
  recovery,    \* the recovery file (survives a crash)
  db,          \* the SQLite tables (survive a crash)
  resolver,    \* the route snapshot requests are served from
  waf,         \* the compiled rules requests are checked against
  health,      \* the targets the health worker probes
  settings,    \* the agent settings main runs with: config.yml's or streamed
  lastServed   \* history: version behind the last route snapshot published

pollVars == <<pollPc, response, digest, lastVersion>>
mgrVars == <<current, missed, queue>>
applierVars == <<applierPc, taken>>
liveVars == <<resolver, waf, health, lastServed>>
remoteVars == <<remote, published>>
vars == <<remoteVars, crashes, phase, pollVars, mgrVars, applierVars, recovery, db,
          liveVars, settings>>

Snapshot == [version : Nat, cfg : Config]
NoSnapshot == [version |-> 0, cfg |-> EmptyConfig]

TypeOK ==
  /\ remote \in Payload /\ published \in Nat /\ crashes \in Nat
  /\ phase \in {"down", "local", "recovered", "load", "serving"}
  /\ pollPc \in {"off", "ready", "fetched"}
  /\ IF pollPc = "fetched" THEN response \in Payload ELSE response = NoPayload
  /\ digest \in Payload \cup {NoPayload}
  /\ lastVersion \in Nat
  /\ current \in Snapshot /\ missed \in BOOLEAN
  /\ queue \in Seq(Snapshot)
  /\ applierPc \in {"off", "subscribe", "idle", "apply", "routes", "rules", "targets"}
  /\ taken \in Snapshot
  /\ recovery \in Snapshot
  /\ db \in [version : Nat, routes : RouteTable, rules : SUBSET Rule, zeroTrust : {"on", "off"}]
  /\ resolver \in [version : Nat, routes : RouteTable]
  /\ waf \in [version : Nat, rules : SUBSET Rule]
  /\ health \in [version : Nat, targets : SUBSET Target]
  /\ settings \in AgentSettings \cup {"local"}
  /\ lastServed \in Nat
-----------------------------------------------------------------------------
(* What the pieces of data become on their way.                            *)

\* localConfigSnapshot: config.yml as a snapshot. It has routes and nothing else.
LocalConfig == [EmptyConfig EXCEPT !.routesSet = LocalConfigured, !.routes = LocalRoutes]

\* mergeConfigSnapshots: a remote route replaces the local one of the same key.
Merge(cfg) ==
  [cfg EXCEPT
     !.routesSet = LocalConfigured \/ cfg.routesSet \/ cfg.routes # EmptyRoutes,
     !.routes = [k \in Key |-> IF cfg.routes[k] # NoRoute THEN cfg.routes[k] ELSE LocalRoutes[k]],
     !.rulesSet = cfg.rulesSet \/ cfg.rules # {}]

\* The agent_config section after a JSON round trip: marshalling always writes
\* the section, and AgentConfigData.UnmarshalJSON then marks it present.
Decoded(cfg) == [cfg EXCEPT !.agent = IF @ = Absent THEN ZeroSettings ELSE @]

\* snapshotHasContent
HasContent(snap) ==
  \/ snap.version > 0
  \/ snap.cfg.routesSet \/ snap.cfg.rulesSet
  \/ snap.cfg.routes # EmptyRoutes \/ snap.cfg.rules # {}
  \/ snap.cfg.agent # Absent

\* The checks of applySnapshotToDB: one failure rolls the transaction back.
Applicable(cfg) ==
  /\ \A k \in Key : cfg.routes[k] \notin InvalidTarget
  /\ cfg.rules \cap InvalidRule = {}

\* Mutant: rows the snapshot no longer has stay active.
AppliedWithoutReconciling(cfg, version) ==
  [db EXCEPT !.version = version,
             !.routes = [k \in Key |-> IF cfg.routes[k] # NoRoute THEN cfg.routes[k] ELSE @[k]],
             !.rules = IF cfg.rulesSet THEN cfg.rules ELSE @]

\* The tables after applySnapshotToDB committed cfg. Routes and rules are
\* replaced as a whole, each only when the snapshot configures it.
Applied(cfg, version) ==
  [version |-> version,
   routes |-> IF cfg.routesSet THEN cfg.routes ELSE db.routes,
   rules |-> IF cfg.rulesSet THEN cfg.rules ELSE db.rules,
   zeroTrust |-> IF cfg.zeroTrust = "unset" THEN db.zeroTrust ELSE cfg.zeroTrust]

\* loadRouteSnapshot compiles every stored pattern; one bad pattern fails the load.
Loadable(routes) == \A k \in UnloadableKey : routes[k] = NoRoute

\* Mutant: routes without a target are listed too.
UpstreamsWithGaps(routes) == {routes[k] : k \in Key}

\* ListAllRouteTargets
Upstreams(routes) == {routes[k] : k \in Key} \ {NoRoute}

\* seedDefaults, run by every database.Init
Seeded(tables) ==
  [tables EXCEPT !.routes = IF @ = EmptyRoutes THEN SeedRoutes ELSE @,
                 !.rules = IF @ = {} THEN SeedRules ELSE @]

-----------------------------------------------------------------------------
(* The control plane.                                                      *)

Publish(p) ==
  /\ published < MaxPublishes
  /\ p # remote
  /\ remote' = p
  /\ published' = published + 1
  /\ UNCHANGED <<crashes, phase, pollVars, mgrVars, applierVars, recovery, db, liveVars, settings>>

-----------------------------------------------------------------------------
(* main, up to the listener.                                               *)

\* Mutant: a missing recovery file is fatal.
StartRequiringFile ==
  /\ phase = "down" /\ recovery # NoSnapshot
  /\ phase' = "local"
  /\ db' = Seeded(db) /\ current' = recovery /\ settings' = "local"
  /\ UNCHANGED <<remoteVars, crashes, pollVars, missed, queue, applierVars, recovery, liveVars>>

\* Mutant: NewManager does not read the recovery file.
StartFromScratch ==
  /\ phase = "down"
  /\ phase' = "local"
  /\ db' = Seeded(db) /\ current' = NoSnapshot /\ settings' = "local"
  /\ UNCHANGED <<remoteVars, crashes, pollVars, missed, queue, applierVars, recovery, liveVars>>

\* database.OpenWithFailover seeds empty tables; NewManager reads the recovery file.
Start ==
  /\ phase = "down"
  /\ phase' = "local"
  /\ db' = Seeded(db)
  /\ current' = recovery
  /\ settings' = "local"
  /\ UNCHANGED <<remoteVars, crashes, pollVars, missed, queue, applierVars, recovery, liveVars>>

\* The local routes replace the stored ones before the recovered snapshot is
\* looked at. An error is only logged.
ApplyLocal ==
  /\ phase = "local"
  /\ phase' = "recovered"
  /\ \/ LocalConfigured /\ Applicable(LocalConfig) /\ db' = Applied(LocalConfig, 0)
     \/ ~(LocalConfigured /\ Applicable(LocalConfig)) /\ UNCHANGED db
     \/ "db" \in Faults /\ UNCHANGED db
  /\ UNCHANGED <<remoteVars, crashes, pollVars, mgrVars, applierVars, recovery, liveVars, settings>>

\* Mutant: the recovered snapshot is applied without the local routes.
ApplyRecoveredAlone ==
  /\ phase = "recovered"
  /\ phase' = "load"
  /\ IF HasContent(current) /\ Applicable(current.cfg)
     THEN db' = Applied(current.cfg, current.version) ELSE UNCHANGED db
  /\ UNCHANGED <<remoteVars, crashes, pollVars, mgrVars, applierVars, recovery, liveVars, settings>>

\* The recovered snapshot, merged over the local routes. Its agent settings
\* are taken whether or not the transaction succeeded.
ApplyRecovered ==
  /\ phase = "recovered"
  /\ phase' = "load"
  /\ LET merged == Merge(current.cfg)
         usable == HasContent(current) /\ Applicable(merged)
     IN \/ usable /\ db' = Applied(merged, current.version)
        \/ ~usable /\ UNCHANGED db
        \/ "db" \in Faults /\ UNCHANGED db
  /\ settings' = IF HasContent(current) /\ current.cfg.agent # Absent
                 THEN current.cfg.agent ELSE settings
  /\ UNCHANGED <<remoteVars, crashes, pollVars, mgrVars, applierVars, recovery, liveVars>>

\* log.Fatal when the stored routes cannot be loaded. Nothing of the next
\* boot depends on the control plane before this point.
LoadRoutesFails ==
  /\ phase = "load"
  /\ ~Loadable(db.routes) \/ "db" \in Faults
  /\ phase' = "down"
  /\ current' = NoSnapshot
  /\ settings' = "local"
  /\ UNCHANGED <<remoteVars, crashes, pollVars, missed, queue, applierVars, recovery, db, liveVars>>

\* The engines are built from the tables, the startup agent settings are
\* fetched, and the poller and the applier are started. A failed rule reload or
\* target listing is only logged; so is a failed fetch.
StartServing ==
  /\ phase = "load"
  /\ Loadable(db.routes)
  /\ phase' = "serving"
  /\ resolver' = [version |-> db.version, routes |-> db.routes]
  /\ lastServed' = db.version
  /\ \/ waf' = [version |-> db.version, rules |-> db.rules]
     \/ "db" \in Faults /\ UNCHANGED waf
  /\ \/ health' = [version |-> db.version, targets |-> Upstreams(db.routes)]
     \/ "db" \in Faults /\ UNCHANGED health
  /\ \/ UNCHANGED settings
     \/ remote.agent # Absent /\ settings' = remote.agent
  /\ pollPc' = "ready" /\ response' = NoPayload
  /\ digest' = NoPayload /\ lastVersion' = current.version
  /\ applierPc' = "subscribe"
  /\ UNCHANGED <<remoteVars, crashes, mgrVars, taken, recovery, db>>

-----------------------------------------------------------------------------
(* The poller: connectToAPIStream calling pollDomains.                     *)

\* The response is read and converted; the control plane may change after this.
Fetch ==
  /\ pollPc = "ready"
  /\ pollPc' = "fetched"
  /\ response' = remote
  /\ UNCHANGED <<remoteVars, crashes, phase, digest, lastVersion, mgrVars, applierVars,
                 recovery, db, liveVars, settings>>

\* A response with the recorded digest is dropped.
SkipUnchanged ==
  /\ pollPc = "fetched"
  /\ response = digest
  /\ pollPc' = "ready" /\ response' = NoPayload
  /\ UNCHANGED <<remoteVars, crashes, phase, digest, lastVersion, mgrVars, applierVars,
                 recovery, db, liveVars, settings>>

\* Manager.HandleMessage: an old version is ignored without an error; a new
\* one replaces the current snapshot, is saved, and is offered to the listener
\* without waiting for room. A save that fails is only logged.
HandleMessage(snap) ==
  IF snap.version <= current.version
  THEN UNCHANGED <<mgrVars, recovery>>
  ELSE LET subscribed == applierPc \notin {"off", "subscribe"}
           full == Len(queue) >= ListenerCap
       IN /\ current' = snap
          /\ \/ recovery' = snap
             \/ "disk" \in Faults /\ UNCHANGED recovery
          /\ queue' = IF subscribed /\ ~full THEN Append(queue, snap) ELSE queue
          /\ missed' = (subscribed /\ full)

\* Mutant: the clock is trusted.
ClockVersion(now) == now

\* Mutant: a clock that went back repeats the last version.
RepeatedVersion(now) == IF now <= lastVersion THEN lastVersion ELSE now

\* The version of a changed response is above the last one even when the clock
\* went back.
NextVersion(now) == IF now <= lastVersion THEN lastVersion + 1 ELSE now

\* A changed response is versioned and handed to the manager; then its digest
\* is recorded.
Deliver ==
  /\ pollPc = "fetched"
  /\ response # digest
  /\ \E now \in Clock :
       /\ HandleMessage([version |-> NextVersion(now), cfg |-> Decoded(response)])
       /\ lastVersion' = NextVersion(now)
  /\ digest' = response
  /\ pollPc' = "ready" /\ response' = NoPayload
  /\ UNCHANGED <<remoteVars, crashes, phase, applierVars, db, liveVars, settings>>

-----------------------------------------------------------------------------
(* The applier: applyConfigUpdates.                                        *)

\* Mutant: the channel starts empty.
SubscribeEmpty ==
  /\ applierPc = "subscribe"
  /\ applierPc' = "idle"
  /\ UNCHANGED <<remoteVars, crashes, phase, pollVars, mgrVars, taken, recovery, db, liveVars,
                 settings>>

\* Manager.Subscribe: the channel starts with the current snapshot.
Subscribe ==
  /\ applierPc = "subscribe"
  /\ applierPc' = "idle"
  /\ queue' = <<current>>
  /\ UNCHANGED <<remoteVars, crashes, phase, pollVars, current, missed, taken, recovery, db,
                 liveVars, settings>>

\* Mutant: the newest snapshot is taken first.
TakeNewest ==
  /\ applierPc = "idle"
  /\ queue # <<>>
  /\ taken' = queue[Len(queue)]
  /\ queue' = SubSeq(queue, 1, Len(queue) - 1)
  /\ applierPc' = "apply"
  /\ UNCHANGED <<remoteVars, crashes, phase, pollVars, current, missed, recovery, db, liveVars,
                 settings>>

\* The receive of the for loop.
Take ==
  /\ applierPc = "idle"
  /\ queue # <<>>
  /\ taken' = Head(queue)
  /\ queue' = Tail(queue)
  /\ applierPc' = "apply"
  /\ UNCHANGED <<remoteVars, crashes, phase, pollVars, current, missed, recovery, db, liveVars,
                 settings>>

\* One transaction; when it fails the snapshot is given up.
ApplySnapshot ==
  /\ applierPc = "apply"
  /\ LET merged == Merge(taken.cfg)
     IN \/ /\ Applicable(merged)
           /\ db' = Applied(merged, taken.version)
           /\ applierPc' = "routes"
        \/ /\ ~Applicable(merged) \/ "db" \in Faults
           /\ applierPc' = "idle"
           /\ UNCHANGED db
  /\ UNCHANGED <<remoteVars, crashes, phase, pollVars, mgrVars, taken, recovery, liveVars, settings>>

\* Mutant: no continue after a failed reload.
ReloadRoutesAndGoOn ==
  /\ applierPc = "routes"
  /\ IF Loadable(db.routes)
     THEN /\ resolver' = [version |-> db.version, routes |-> db.routes]
          /\ lastServed' = db.version
     ELSE UNCHANGED <<resolver, lastServed>>
  /\ applierPc' = "rules"
  /\ UNCHANGED <<remoteVars, crashes, phase, pollVars, mgrVars, taken, recovery, db, waf, health,
                 settings>>

\* routeResolver.Reload publishes the stored routes or keeps the old ones; in
\* the second case the rules and the health targets are not refreshed either.
ReloadRoutes ==
  /\ applierPc = "routes"
  /\ \/ /\ Loadable(db.routes)
        /\ resolver' = [version |-> db.version, routes |-> db.routes]
        /\ lastServed' = db.version
        /\ applierPc' = "rules"
     \/ /\ ~Loadable(db.routes) \/ "db" \in Faults
        /\ applierPc' = "idle"
        /\ UNCHANGED <<resolver, lastServed>>
  /\ UNCHANGED <<remoteVars, crashes, phase, pollVars, mgrVars, taken, recovery, db, waf, health,
                 settings>>

ReloadRules ==
  /\ applierPc = "rules"
  /\ \/ waf' = [version |-> db.version, rules |-> db.rules]
     \/ "db" \in Faults /\ UNCHANGED waf
  /\ applierPc' = "targets"
  /\ UNCHANGED <<remoteVars, crashes, phase, pollVars, mgrVars, taken, recovery, db, resolver,
                 health, lastServed, settings>>

\* syncHealthTargets
SyncTargets ==
  /\ applierPc = "targets"
  /\ \/ health' = [version |-> db.version, targets |-> Upstreams(db.routes)]
     \/ "db" \in Faults /\ UNCHANGED health
  /\ applierPc' = "idle"
  /\ UNCHANGED <<remoteVars, crashes, phase, pollVars, mgrVars, taken, recovery, db, resolver, waf,
                 lastServed, settings>>

-----------------------------------------------------------------------------
\* The process dies: only the recovery file and the committed tables survive.
\* lastServed is history and is kept.
Crash ==
  /\ phase # "down"
  /\ crashes < MaxCrashes
  /\ crashes' = crashes + 1
  /\ phase' = "down"
  /\ pollPc' = "off" /\ response' = NoPayload /\ digest' = NoPayload /\ lastVersion' = 0
  /\ current' = NoSnapshot /\ missed' = FALSE /\ queue' = <<>>
  /\ applierPc' = "off" /\ taken' = NoSnapshot
  /\ resolver' = [version |-> 0, routes |-> EmptyRoutes]
  /\ waf' = [version |-> 0, rules |-> {}]
  /\ health' = [version |-> 0, targets |-> {}]
  /\ settings' = "local"
  /\ UNCHANGED <<remoteVars, recovery, db, lastServed>>

\* A first installation: no recovery file and empty tables, where
\* IsZeroTrustEnabled answers true.
Init ==
  /\ remote \in Payload /\ published = 0 /\ crashes = 0
  /\ phase = "down"
  /\ pollPc = "off" /\ response = NoPayload /\ digest = NoPayload /\ lastVersion = 0
  /\ current = NoSnapshot /\ missed = FALSE /\ queue = <<>>
  /\ applierPc = "off" /\ taken = NoSnapshot
  /\ recovery = NoSnapshot
  /\ db = [version |-> 0, routes |-> EmptyRoutes, rules |-> {}, zeroTrust |-> "on"]
  /\ resolver = [version |-> 0, routes |-> EmptyRoutes]
  /\ waf = [version |-> 0, rules |-> {}]
  /\ health = [version |-> 0, targets |-> {}]
  /\ settings = "local"
  /\ lastServed = 0

Boot == Start \/ ApplyLocal \/ ApplyRecovered \/ LoadRoutesFails \/ StartServing
Poller == Fetch \/ SkipUnchanged \/ Deliver
Applier == Subscribe \/ Take \/ ApplySnapshot \/ ReloadRoutes \/ ReloadRules \/ SyncTargets

Next ==
  \/ \E p \in Payload : Publish(p)
  \/ Boot
  \/ Poller
  \/ Applier
  \/ Crash

Spec == Init /\ [][Next]_vars

\* Goroutines that can run do run, a supervisor restarts a dead process, and
\* the control plane answers again after a while. Nothing is assumed of
\* Publish and Crash.
Fairness == WF_vars(Boot) /\ WF_vars(Poller) /\ WF_vars(Applier)

FairSpec == Spec /\ Fairness
-----------------------------------------------------------------------------
(* Properties of Manager and poller.                                       *)

\* The poller and the manager agree on the newest version, so no changed
\* response is taken for a stale message: HandleMessage would ignore it without
\* an error and the poller would then record its digest.
VersionsInStep == pollPc # "off" => lastVersion = current.version

\* Skipping a response because of its digest is sound: the manager holds
\* exactly the configuration that digest was computed from.
DigestIsHeld == digest # NoPayload => current.cfg = Decoded(digest)

\* The listener channel holds ever newer snapshots, all newer than the one the
\* applier has in hand and none newer than the manager's.
PendingInOrder ==
  /\ \A i, j \in 1 .. Len(queue) : i < j => queue[i].version < queue[j].version
  /\ \A i \in 1 .. Len(queue) :
       /\ taken = NoSnapshot \/ taken.version < queue[i].version
       /\ queue[i].version <= current.version

\* The manager's snapshot is the last one in the channel, or the one the
\* applier took last, unless its broadcast met a full channel: subscribing
\* after the poller has started loses nothing.
NewestReachesApplier ==
  applierPc \notin {"off", "subscribe"} /\ ~missed =>
    current = IF queue = <<>> THEN taken ELSE queue[Len(queue)]

-----------------------------------------------------------------------------
(* Properties of what is served.                                           *)

\* The request path serves the merge of config.yml and cfg.
Serves(cfg) ==
  LET merged == Merge(cfg)
  IN /\ merged.routesSet => resolver.routes = merged.routes
     /\ merged.rulesSet => waf.rules = merged.rules
     /\ health.targets = Upstreams(resolver.routes)

Acceptable(cfg) == Applicable(Merge(cfg)) /\ Loadable(Merge(cfg).routes)

\* When the applier has drained its channel, requests see the newest snapshot,
\* all of it, if it is one the agent can apply. (No transient faults.)
CaughtUp ==
  /\ applierPc = "idle" /\ queue = <<>> /\ ~missed
  /\ Acceptable(current.cfg) /\ Loadable(db.routes)
  => Serves(current.cfg)

\* Between two updates routes, rules and health targets stem from one state of
\* the tables, whatever was rejected before. (No transient faults.)
LayersAgree ==
  phase = "serving" /\ applierPc \in {"subscribe", "idle"} =>
    /\ resolver.version = waf.version /\ waf.version = health.version
    /\ health.targets = Upstreams(resolver.routes)

\* A boot without the control plane serves the recovered snapshot over the
\* local routes: neither the local routes nor the seeded defaults win over it.
BootServesRecovered ==
  /\ applierPc = "subscribe" /\ digest = NoPayload
  /\ HasContent(current) /\ Acceptable(current.cfg)
  => Serves(current.cfg)

\* An empty agent configuration does not replace the one of config.yml. (Runs
\* whose payloads have no agent_config section.)
EmptyAgentConfigKeepsLocal == settings = "local"

\* Requests never go back to an older configuration: not between two updates,
\* and not after a crash, when the agent resumes with what it served last or
\* with something newer.
ServedNeverRollsBack == [][lastServed' >= lastServed]_vars

\* An agent that is down comes back.
ComesBack == phase = "down" ~> phase = "serving"

\* Once the control plane settles on a configuration the agent can apply, that
\* is what is served, for good, unless its broadcast met a full channel.
Convergence ==
  <>[](Acceptable(remote) /\ Loadable(db.routes) =>
         missed \/ (phase = "serving" /\ Serves(remote)))

-----------------------------------------------------------------------------
(* The abstract specification this one implements when nothing fails.      *)
Feed == INSTANCE ConfigFeed WITH
  accepted <- recovery.version, served <- lastServed, up <- (phase = "serving")

FeedSpec == Feed!Spec
=============================================================================
