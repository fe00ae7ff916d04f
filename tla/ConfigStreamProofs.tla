------------------------- MODULE ConfigStreamProofs -------------------------
(***************************************************************************)
(* Proofs about ConfigStream, for every value of its constants: type       *)
(* correctness, the agreement of poller, manager and applier (for any      *)
(* payloads and any transient faults), and the implementation of           *)
(* ConfigFeed when no fault occurs and every payload can be applied.       *)
(***************************************************************************)
EXTENDS ConfigStream, SequenceTheorems, TLAPS

Database ==
  [version : Nat, routes : RouteTable, rules : SUBSET Rule, zeroTrust : {"on", "off"}]

\* A merge of a snapshot with the local routes is again a configuration.
LEMMA MergeType == ASSUME NEW cfg \in Config PROVE Merge(cfg) \in Config
<1>1. [k \in Key |-> IF cfg.routes[k] # NoRoute THEN cfg.routes[k] ELSE LocalRoutes[k]] \in RouteTable
  BY ConstantsAssumption DEF Config, RouteTable
<1>2. (LocalConfigured \/ cfg.routesSet \/ cfg.routes # EmptyRoutes) \in BOOLEAN
  OBVIOUS
<1> QED
  BY <1>1, ConstantsAssumption DEF Merge, Config

\* A payload that went through JSON is a configuration.
LEMMA DecodedType == ASSUME NEW cfg \in Config PROVE Decoded(cfg) \in Config
BY ConstantsAssumption DEF Decoded, Config

LEMMA EmptyConfigType == EmptyConfig \in Config
BY DEF EmptyConfig, Config, EmptyRoutes, RouteTable, Absent

LEMMA EmptyRoutesType == EmptyRoutes \in RouteTable
BY DEF EmptyRoutes, RouteTable

LEMMA LocalConfigType == LocalConfig \in Config
BY EmptyConfigType, ConstantsAssumption DEF LocalConfig, Config, EmptyConfig

LEMMA NoSnapshotType == NoSnapshot \in Snapshot
BY EmptyConfigType DEF NoSnapshot, Snapshot

\* A committed snapshot leaves well-formed tables.
LEMMA AppliedType ==
  ASSUME db \in Database, NEW cfg \in Config, NEW v \in Nat
  PROVE  Applied(cfg, v) \in Database
BY DEF Applied, Database, Config

LEMMA SeededType == ASSUME NEW d \in Database PROVE Seeded(d) \in Database
BY ConstantsAssumption DEF Seeded, Database

LEMMA UpstreamsType ==
  ASSUME NEW routes \in RouteTable PROVE Upstreams(routes) \in SUBSET Target
BY DEF Upstreams, RouteTable

LEMMA NextVersionType ==
  ASSUME lastVersion \in Nat, NEW now \in Clock
  PROVE  NextVersion(now) \in Nat /\ NextVersion(now) > lastVersion
BY ConstantsAssumption DEF NextVersion

-----------------------------------------------------------------------------
(* Type correctness.                                                       *)

\* No step of the agent or of the control plane leaves the types.
LEMMA TypeStep == TypeOK /\ [Next]_vars => TypeOK'
<1> SUFFICES ASSUME TypeOK, [Next]_vars PROVE TypeOK'
  OBVIOUS
<1> USE DEF TypeOK, Database, remoteVars, pollVars, mgrVars, applierVars, liveVars
<1>0. db \in Database /\ Payload \subseteq Config
  BY ConstantsAssumption
<1>1. ASSUME NEW p \in Payload, Publish(p) PROVE TypeOK'
  BY <1>1 DEF Publish
<1>2. CASE Start
  <2>1. Seeded(db) \in Database
    BY <1>0, SeededType
  <2> QED
    BY <1>2, <2>1 DEF Start
<1>3. CASE ApplyLocal
  <2>1. Applied(LocalConfig, 0) \in Database
    BY <1>0, AppliedType, LocalConfigType
  <2>2. db' \in Database
    BY <1>0, <1>3, <2>1 DEF ApplyLocal
  <2> QED
    BY <1>3, <2>2 DEF ApplyLocal
<1>4. CASE ApplyRecovered
  <2>1. current.cfg \in Config /\ current.version \in Nat
    BY DEF Snapshot
  <2>2. Applied(Merge(current.cfg), current.version) \in Database
    BY <1>0, <2>1, AppliedType, MergeType
  <2>3. db' \in Database
    BY <1>0, <1>4, <2>2 DEF ApplyRecovered
  <2>4. settings' \in AgentSettings \cup {"local"}
    BY <1>4, <2>1 DEF ApplyRecovered, Config
  <2> QED
    BY <1>4, <2>3, <2>4 DEF ApplyRecovered
<1>5. CASE LoadRoutesFails
  BY <1>5, NoSnapshotType DEF LoadRoutesFails
<1>6. CASE StartServing
  <2>1. Upstreams(db.routes) \in SUBSET Target
    BY UpstreamsType
  <2>2. remote.agent # Absent => remote.agent \in AgentSettings
    BY <1>0 DEF Config
  <2>3. /\ resolver' \in [version : Nat, routes : RouteTable] /\ lastServed' \in Nat
        /\ waf' \in [version : Nat, rules : SUBSET Rule]
        /\ health' \in [version : Nat, targets : SUBSET Target]
    BY <1>6, <2>1 DEF StartServing
  <2>4. settings' \in AgentSettings \cup {"local"} /\ lastVersion' \in Nat
    BY <1>6, <2>2 DEF StartServing, Snapshot
  <2> QED
    BY <1>6, <2>3, <2>4 DEF StartServing
<1>7. CASE Fetch
  BY <1>7 DEF Fetch
<1>8. CASE SkipUnchanged
  BY <1>8 DEF SkipUnchanged
<1>9. CASE Deliver
  <2>1. PICK now \in Clock :
          /\ HandleMessage([version |-> NextVersion(now), cfg |-> Decoded(response)])
          /\ lastVersion' = NextVersion(now)
    BY <1>9 DEF Deliver
  <2> DEFINE snap == [version |-> NextVersion(now), cfg |-> Decoded(response)]
  <2>2. response \in Payload
    BY <1>9 DEF Deliver
  <2>3. snap \in Snapshot
    BY <1>0, <2>2, DecodedType, NextVersionType DEF Snapshot
  <2> HIDE DEF snap
  <2>4. HandleMessage(snap)
    BY <2>1 DEF snap
  <2>5. current' \in Snapshot /\ recovery' \in Snapshot
    BY <2>3, <2>4 DEF HandleMessage
  <2>8. missed' \in BOOLEAN
    <3>1. missed' = missed
            \/ missed' = (applierPc \notin {"off", "subscribe"} /\ Len(queue) >= ListenerCap)
      BY <2>4, Zenon DEF HandleMessage
    <3>2. (applierPc \notin {"off", "subscribe"} /\ Len(queue) >= ListenerCap) \in BOOLEAN
      OBVIOUS
    <3> QED
      BY <3>1, <3>2, Zenon
  <2>6. queue' \in Seq(Snapshot)
    <3>1. queue' = queue \/ queue' = Append(queue, snap)
      BY <2>4, Zenon DEF HandleMessage
    <3>2. queue \in Seq(Snapshot)
      OBVIOUS
    <3> HIDE DEF TypeOK
    <3> QED
      BY <2>3, <3>1, <3>2
  <2>7. lastVersion' \in Nat
    BY <2>1, NextVersionType
  <2> QED
    BY <1>9, <2>2, <2>5, <2>6, <2>7, <2>8 DEF Deliver
<1>10. CASE Subscribe
  BY <1>10 DEF Subscribe
<1>11. CASE Take
  BY <1>11 DEF Take
<1>12. CASE ApplySnapshot
  <2>1. taken.cfg \in Config /\ taken.version \in Nat
    BY DEF Snapshot
  <2>2. Applied(Merge(taken.cfg), taken.version) \in Database
    BY <1>0, <2>1, AppliedType, MergeType
  <2>3. db' \in Database
    BY <1>0, <1>12, <2>2 DEF ApplySnapshot
  <2> QED
    BY <1>12, <2>3 DEF ApplySnapshot
<1>13. CASE ReloadRoutes
  BY <1>13 DEF ReloadRoutes
<1>14. CASE ReloadRules
  BY <1>14 DEF ReloadRules
<1>15. CASE SyncTargets
  <2>1. Upstreams(db.routes) \in SUBSET Target
    BY UpstreamsType
  <2> QED
    BY <1>15, <2>1 DEF SyncTargets
<1>16. CASE Crash
  <2>1. current' \in Snapshot /\ taken' \in Snapshot /\ queue' \in Seq(Snapshot)
    BY <1>16, NoSnapshotType DEF Crash
  <2>2. /\ resolver' \in [version : Nat, routes : RouteTable]
        /\ waf' \in [version : Nat, rules : SUBSET Rule]
        /\ health' \in [version : Nat, targets : SUBSET Target]
    BY <1>16, EmptyRoutesType DEF Crash
  <2>3. /\ pollPc' = "off" /\ response' = NoPayload /\ digest' = NoPayload /\ lastVersion' = 0
        /\ phase' = "down" /\ applierPc' = "off" /\ settings' = "local" /\ missed' = FALSE
        /\ crashes' \in Nat
        /\ UNCHANGED <<remote, published, recovery, db, lastServed>>
    BY <1>16 DEF Crash
  <2> QED
    BY <2>1, <2>2, <2>3
<1>17. CASE UNCHANGED vars
  BY <1>17 DEF vars
<1> QED
  BY <1>1, <1>2, <1>3, <1>4, <1>5, <1>6, <1>7, <1>8, <1>9, <1>10, <1>11, <1>12, <1>13, <1>14,
     <1>15, <1>16, <1>17 DEF Next, Boot, Poller, Applier

\* Every reachable state is well-typed.
THEOREM TypeCorrect == Spec => []TypeOK
<1>1. Init => TypeOK
  <2> SUFFICES ASSUME Init PROVE TypeOK
    OBVIOUS
  <2>1. /\ db \in Database
        /\ resolver \in [version : Nat, routes : RouteTable]
        /\ waf \in [version : Nat, rules : SUBSET Rule]
        /\ health \in [version : Nat, targets : SUBSET Target]
    BY EmptyRoutesType DEF Init, Database
  <2>2. current \in Snapshot /\ taken \in Snapshot /\ recovery \in Snapshot /\ queue \in Seq(Snapshot)
    BY NoSnapshotType DEF Init
  <2> QED
    BY <2>1, <2>2 DEF Init, TypeOK, Database
<1> QED
  BY <1>1, TypeStep, PTL DEF Spec
-----------------------------------------------------------------------------
(* Poller, manager and applier agree, whatever is published and whichever  *)
(* step fails.                                                             *)

\* Neither goroutine runs before main has reached the listener.
NotStarted == phase # "serving" => pollPc = "off" /\ applierPc = "off" /\ digest = NoPayload

\* Before the applier subscribes there is no channel.
NoChannel == applierPc \in {"off", "subscribe"} => queue = <<>> /\ taken = NoSnapshot

\* The inductive invariant: the four properties of the runs, what holds before
\* the goroutines start, and a bound on the snapshot in hand that makes the
\* order of the channel survive a new broadcast.
Agreement ==
  /\ NotStarted
  /\ NoChannel
  /\ taken.version <= current.version
  /\ VersionsInStep
  /\ DigestIsHeld
  /\ PendingInOrder
  /\ NewestReachesApplier

\* The variables Agreement is about.
agreementVars == <<phase, pollPc, digest, lastVersion, current, missed, queue, applierPc, taken>>

LEMMA AgreementUnchanged == Agreement /\ UNCHANGED agreementVars => Agreement'
BY DEF Agreement, agreementVars, NotStarted, NoChannel, VersionsInStep, DigestIsHeld, PendingInOrder,
       NewestReachesApplier

\* A boot step keeps the agreement: nothing runs yet.
LEMMA AgreementBoot ==
  ASSUME TypeOK, Agreement, Start \/ LoadRoutesFails \/ StartServing \/ Crash
  PROVE  Agreement'
<1> USE DEF Agreement, NotStarted, NoChannel, VersionsInStep, DigestIsHeld, PendingInOrder,
            NewestReachesApplier, pollVars, mgrVars, applierVars
<1>0. current \in Snapshot /\ recovery \in Snapshot /\ queue \in Seq(Snapshot)
  BY DEF TypeOK
<1>1. CASE Start
  BY <1>0, <1>1 DEF Start, Snapshot, NoSnapshot
<1>2. CASE LoadRoutesFails
  BY <1>0, <1>2 DEF LoadRoutesFails, NoSnapshot
<1>3. CASE StartServing
  BY <1>0, <1>3 DEF StartServing
<1>4. CASE Crash
  BY <1>4 DEF Crash, NoSnapshot
<1> QED
  BY <1>1, <1>2, <1>3, <1>4

\* Delivering a response keeps the agreement.
LEMMA AgreementDeliver == ASSUME TypeOK, Agreement, Deliver PROVE Agreement'
<1>0. /\ current \in Snapshot /\ taken \in Snapshot /\ queue \in Seq(Snapshot)
      /\ lastVersion \in Nat /\ response \in Payload
  BY DEF TypeOK, Deliver
<1>1. PICK now \in Clock :
        /\ HandleMessage([version |-> NextVersion(now), cfg |-> Decoded(response)])
        /\ lastVersion' = NextVersion(now)
  BY DEF Deliver
<1> DEFINE snap == [version |-> NextVersion(now), cfg |-> Decoded(response)]
<1>2. snap.version \in Nat /\ snap.version > current.version /\ lastVersion' = snap.version
  <2>1. lastVersion = current.version
    BY DEF Agreement, VersionsInStep, Deliver
  <2> QED
    BY <1>0, <1>1, <2>1, NextVersionType
<1>3. snap \in Snapshot /\ snap.cfg = Decoded(response)
  <2>1. Decoded(response) \in Config
    BY <1>0, DecodedType, ConstantsAssumption
  <2> QED
    BY <1>2, <2>1 DEF Snapshot
<1>4. HandleMessage(snap)
  BY <1>1
<1> HIDE DEF snap
<1> DEFINE subscribed == applierPc \notin {"off", "subscribe"}
           full == Len(queue) >= ListenerCap
<1>5. /\ current' = snap
      /\ queue' = IF subscribed /\ ~full THEN Append(queue, snap) ELSE queue
      /\ missed' = (subscribed /\ full)
  <2>1. ~(snap.version <= current.version)
    BY <1>0, <1>2 DEF Snapshot
  <2> QED
    BY <1>4, <2>1, Zenon DEF HandleMessage
<1>6. UNCHANGED <<phase, applierPc, taken>> /\ digest' = response /\ pollPc = "fetched"
  BY DEF Deliver, applierVars
<1>7. NotStarted'
  BY <1>6 DEF Agreement, NotStarted
<1>8. NoChannel'
  BY <1>5, <1>6 DEF Agreement, NoChannel
<1>9. (taken.version <= current.version)'
  BY <1>0, <1>2, <1>5, <1>6 DEF Agreement, Snapshot
<1>10. VersionsInStep' /\ DigestIsHeld'
  BY <1>2, <1>3, <1>5, <1>6 DEF VersionsInStep, DigestIsHeld
<1>11. PendingInOrder'
  <2>1. \A i \in 1 .. Len(queue) : queue[i] \in Snapshot
    BY <1>0
  <2>2. \A i \in 1 .. Len(queue) : queue[i].version < snap.version
    BY <1>0, <1>2, <2>1 DEF Agreement, PendingInOrder, Snapshot
  <2>3. taken.version < snap.version
    BY <1>0, <1>2 DEF Agreement, Snapshot
  <2>4. CASE queue' = queue
    BY <1>5, <1>6, <2>2, <2>4, <1>2, <2>1 DEF Agreement, PendingInOrder, Snapshot
  <2>5. CASE queue' = Append(queue, snap)
    <3>1. /\ Len(queue') = Len(queue) + 1 /\ queue'[Len(queue) + 1] = snap
          /\ \A i \in 1 .. Len(queue) : queue'[i] = queue[i]
      BY <1>0, <1>3, <2>5
    <3>2. Len(queue) \in Nat
      BY <1>0
    <3>3. ASSUME NEW i \in 1 .. Len(queue'), NEW j \in 1 .. Len(queue'), i < j
          PROVE  queue'[i].version < queue'[j].version
      BY <2>2, <3>1, <3>2, <3>3 DEF Agreement, PendingInOrder
    <3>4. ASSUME NEW i \in 1 .. Len(queue')
          PROVE  /\ taken' = NoSnapshot \/ taken'.version < queue'[i].version
                 /\ queue'[i].version <= current'.version
      BY <1>2, <1>5, <1>6, <2>1, <2>2, <2>3, <3>1, <3>2, <3>4
         DEF Agreement, PendingInOrder, Snapshot
    <3> QED
      BY <3>3, <3>4 DEF PendingInOrder
  <2> QED
    BY <1>5, <2>4, <2>5
<1>12. NewestReachesApplier'
  <2> SUFFICES ASSUME subscribed, ~missed'
               PROVE  current' = IF queue' = <<>> THEN taken' ELSE queue'[Len(queue')]
    BY <1>6 DEF NewestReachesApplier
  <2>1. queue' = Append(queue, snap)
    BY <1>5
  <2> QED
    BY <1>0, <1>3, <1>5, <2>1, AppendProperties
<1> QED
  BY <1>7, <1>8, <1>9, <1>10, <1>11, <1>12 DEF Agreement

\* Receiving from the channel keeps the agreement.
LEMMA AgreementTake == ASSUME TypeOK, Agreement, Take PROVE Agreement'
<1>0. current \in Snapshot /\ taken \in Snapshot /\ queue \in Seq(Snapshot) /\ queue # <<>>
  BY DEF TypeOK, Take
<1>1. /\ taken' = queue[1] /\ queue' = Tail(queue) /\ applierPc' = "apply" /\ applierPc = "idle"
      /\ UNCHANGED <<phase, pollPc, digest, lastVersion, current, missed>>
  BY <1>0 DEF Take, pollVars
<1>2. /\ Len(queue) \in Nat \ {0} /\ Len(queue') = Len(queue) - 1
      /\ \A i \in 1 .. Len(queue') : queue'[i] = queue[i + 1]
  BY <1>0, <1>1, HeadTailProperties
<1>3. \A i \in 1 .. Len(queue) : queue[i] \in Snapshot
  BY <1>0
<1>4. NotStarted' /\ NoChannel' /\ VersionsInStep' /\ DigestIsHeld'
  BY <1>1 DEF Agreement, NotStarted, NoChannel, VersionsInStep, DigestIsHeld
<1>5. (taken.version <= current.version)'
  BY <1>1, <1>2 DEF Agreement, PendingInOrder
<1>6. PendingInOrder'
  BY <1>1, <1>2 DEF Agreement, PendingInOrder
<1>7. NewestReachesApplier'
  <2>1. CASE Len(queue) = 1
    BY <1>0, <1>1, <1>2, <2>1 DEF Agreement, NewestReachesApplier
  <2>2. CASE Len(queue) > 1
    BY <1>0, <1>1, <1>2, <2>2 DEF Agreement, NewestReachesApplier
  <2> QED
    BY <1>2, <2>1, <2>2
<1> QED
  BY <1>4, <1>5, <1>6, <1>7 DEF Agreement

LEMMA AgreementSubscribe == ASSUME TypeOK, Agreement, Subscribe PROVE Agreement'
<1>1. current \in Snapshot
  BY DEF TypeOK
<1>2. /\ queue' = <<current>> /\ applierPc' = "idle" /\ taken = NoSnapshot /\ phase = "serving"
      /\ UNCHANGED <<phase, pollPc, digest, lastVersion, current, missed, taken>>
  BY DEF Subscribe, pollVars, Agreement, NoChannel, NotStarted
<1> QED
  BY <1>1, <1>2 DEF Agreement, NotStarted, NoChannel, VersionsInStep, DigestIsHeld,
     PendingInOrder, NewestReachesApplier, Snapshot

LEMMA AgreementStep == TypeOK /\ Agreement /\ [Next]_vars => Agreement'
<1> SUFFICES ASSUME TypeOK, Agreement, [Next]_vars PROVE Agreement'
  OBVIOUS
<1>1. ASSUME NEW p \in Payload, Publish(p) PROVE Agreement'
  BY <1>1, AgreementUnchanged DEF Publish, agreementVars, pollVars, mgrVars, applierVars
<1>2. CASE ApplyLocal \/ ApplyRecovered
  <2>1. /\ phase # "serving" /\ phase' # "serving"
        /\ UNCHANGED <<pollPc, digest, lastVersion, current, missed, queue, applierPc, taken>>
    BY <1>2 DEF ApplyLocal, ApplyRecovered, pollVars, mgrVars, applierVars
  <2> QED
    BY <2>1 DEF Agreement, NotStarted, NoChannel, VersionsInStep, DigestIsHeld, PendingInOrder,
                NewestReachesApplier
<1>3. CASE Fetch \/ SkipUnchanged
  <2>1. /\ pollPc # "off" /\ pollPc' # "off"
        /\ UNCHANGED <<phase, digest, lastVersion, current, missed, queue, applierPc, taken>>
    BY <1>3 DEF Fetch, SkipUnchanged, mgrVars, applierVars
  <2> QED
    BY <2>1 DEF Agreement, NotStarted, NoChannel, VersionsInStep, DigestIsHeld, PendingInOrder,
                NewestReachesApplier
<1>4. CASE ApplySnapshot \/ ReloadRoutes \/ ReloadRules \/ SyncTargets
  <2>1. /\ applierPc \notin {"off", "subscribe"} /\ applierPc' \notin {"off", "subscribe"}
        /\ UNCHANGED <<phase, pollPc, digest, lastVersion, current, missed, queue, taken>>
    BY <1>4 DEF ApplySnapshot, ReloadRoutes, ReloadRules, SyncTargets, pollVars, mgrVars
  <2> QED
    BY <2>1 DEF Agreement, NotStarted, NoChannel, VersionsInStep, DigestIsHeld, PendingInOrder,
                NewestReachesApplier
<1>5. CASE UNCHANGED vars
  BY <1>5, AgreementUnchanged DEF vars, agreementVars, pollVars, mgrVars, applierVars
<1> QED
  BY <1>1, <1>2, <1>3, <1>4, <1>5, AgreementBoot, AgreementDeliver, AgreementTake,
     AgreementSubscribe DEF Next, Boot, Poller, Applier

LEMMA AgreementInit == Init => Agreement
BY DEF Init, Agreement, NotStarted, NoChannel, VersionsInStep, DigestIsHeld, PendingInOrder,
       NewestReachesApplier, NoSnapshot

LEMMA AgreementHolds == Spec => []Agreement
BY AgreementInit, AgreementStep, TypeCorrect, PTL DEF Spec

\* No changed response of the control plane is taken for a stale message.
THEOREM NoPollSwallowed == Spec => []VersionsInStep
<1>1. Agreement => VersionsInStep
  BY DEF Agreement
<1> QED
  BY <1>1, AgreementHolds, PTL

\* Skipping a response with the recorded digest skips nothing new.
THEOREM DeduplicationSound == Spec => []DigestIsHeld
<1>1. Agreement => DigestIsHeld
  BY DEF Agreement
<1> QED
  BY <1>1, AgreementHolds, PTL

\* The applier receives ever newer snapshots.
THEOREM SnapshotsInOrder == Spec => []PendingInOrder
<1>1. Agreement => PendingInOrder
  BY DEF Agreement
<1> QED
  BY <1>1, AgreementHolds, PTL

\* Only a full channel keeps the newest snapshot from the applier.
THEOREM NothingLostBeforeSubscribing == Spec => []NewestReachesApplier
<1>1. Agreement => NewestReachesApplier
  BY DEF Agreement
<1> QED
  BY <1>1, AgreementHolds, PTL
-----------------------------------------------------------------------------
(* What is served only moves forward, and ConfigFeed is implemented, when  *)
(* nothing fails and the transaction rejects nothing or there are no local *)
(* routes to fall back to.                                                 *)

\* The circumstances: without them the run of ServedNeverRollsBack with local
\* routes and a rejected snapshot has a counterexample.
Calm ==
  /\ Faults = {}
  /\ LocalConfigured => \A p \in Payload : Applicable(Merge(p))

\* The inductive invariant. The tables are never ahead of the recovery file and
\* never behind what was served, except while main has only applied the local
\* routes; whatever the applier will apply is at least as new as the tables;
\* and the recovery file can then be applied at the next boot.
Progress ==
  /\ phase # "down" => current = recovery
  /\ lastServed <= recovery.version
  /\ db.version <= recovery.version
  /\ phase \in {"load", "serving"} \/ ~LocalConfigured => lastServed <= db.version
  /\ applierPc = "apply" => db.version <= taken.version
  /\ \A i \in 1 .. Len(queue) : db.version <= queue[i].version
  /\ LocalConfigured /\ HasContent(recovery) => Applicable(Merge(recovery.cfg))

\* The variables Progress is about.
progressVars == <<phase, current, recovery, lastServed, db, applierPc, taken, queue>>

LEMMA ProgressUnchanged == Progress /\ UNCHANGED progressVars => Progress'
BY DEF Progress, progressVars, HasContent, Applicable, Merge

\* The agent section does not decide whether a snapshot can be applied.
LEMMA DecodedApplicable ==
  ASSUME NEW cfg \in Config, Applicable(Merge(cfg)) PROVE Applicable(Merge(Decoded(cfg)))
<1>1. /\ Decoded(cfg).routes = cfg.routes /\ Decoded(cfg).rules = cfg.rules
      /\ Decoded(cfg) \in Config
  BY DecodedType DEF Decoded, Config
<1>2. /\ Merge(Decoded(cfg)).routes = Merge(cfg).routes
      /\ Merge(Decoded(cfg)).rules = Merge(cfg).rules
  BY <1>1 DEF Merge, Config
<1> QED
  BY <1>2 DEF Applicable

\* The numbers the steps below compare.
LEMMA VersionTypes ==
  ASSUME TypeOK
  PROVE  /\ lastServed \in Nat /\ db.version \in Nat /\ recovery.version \in Nat
         /\ taken.version \in Nat /\ current.version \in Nat
         /\ queue \in Seq(Snapshot) /\ \A i \in 1 .. Len(queue) : queue[i].version \in Nat
<1>1. /\ lastServed \in Nat /\ db \in Database /\ recovery \in Snapshot
      /\ taken \in Snapshot /\ current \in Snapshot /\ queue \in Seq(Snapshot)
  BY DEF TypeOK, Database
<1>2. \A i \in 1 .. Len(queue) : queue[i] \in Snapshot
  BY <1>1
<1> QED
  BY <1>1, <1>2 DEF Database, Snapshot

\* Booting: the tables catch up with the recovery file before routes are loaded.
LEMMA ProgressBoot ==
  ASSUME TypeOK, Agreement, Progress, Calm, Boot PROVE Progress'
<1>0. queue = <<>> /\ applierPc = "off" /\ phase # "serving"
  BY DEF Boot, Start, ApplyLocal, ApplyRecovered, LoadRoutesFails, StartServing, Agreement,
         NotStarted, NoChannel
<1>1. CASE Start
  <2>0. Seeded(db).version = db.version
    BY DEF Seeded, TypeOK
  <2>1. /\ phase' = "local" /\ current' = recovery /\ db'.version = db.version
        /\ UNCHANGED <<recovery, lastServed, applierPc, taken, queue>>
    BY <1>1, <2>0 DEF Start, applierVars, liveVars
  <2> QED
    BY <1>0, <2>1, VersionTypes DEF Progress, HasContent, Applicable, Merge
<1>2. CASE ApplyLocal
  <2>1. /\ \/ db'.version = db.version
           \/ LocalConfigured /\ db'.version = 0
        /\ phase # "down" /\ phase' = "recovered"
        /\ UNCHANGED <<current, recovery, lastServed, applierPc, taken, queue>>
    BY <1>2 DEF ApplyLocal, Applied, applierVars, liveVars, mgrVars
  <2> QED
    BY <1>0, <2>1, VersionTypes DEF Progress, HasContent, Applicable, Merge
<1>3. CASE ApplyRecovered
  <2>1. /\ phase = "recovered" /\ phase' = "load"
        /\ UNCHANGED <<current, recovery, lastServed, applierPc, taken, queue>>
    BY <1>3 DEF ApplyRecovered, applierVars, liveVars, mgrVars
  <2>2. current = recovery
    BY <2>1 DEF Progress
  <2>3. \/ db'.version = recovery.version
        \/ db' = db /\ ~(HasContent(recovery) /\ Applicable(Merge(recovery.cfg)))
    BY <1>3, <2>2 DEF ApplyRecovered, Applied, Calm
  <2>4. ~HasContent(recovery) => recovery.version = 0
    BY VersionTypes DEF HasContent
  <2>5. lastServed <= db'.version /\ db'.version <= recovery.version
    BY <2>3, <2>4, VersionTypes DEF Progress
  <2> QED
    BY <1>0, <2>1, <2>2, <2>5 DEF Progress, HasContent, Applicable, Merge
<1>4. CASE LoadRoutesFails
  <2>1. phase = "load" /\ phase' = "down" /\ UNCHANGED <<recovery, lastServed, db, applierPc, taken, queue>>
    BY <1>4 DEF LoadRoutesFails, applierVars, liveVars
  <2> QED
    BY <1>0, <2>1 DEF Progress, HasContent, Applicable, Merge
<1>5. CASE StartServing
  <2>1. /\ phase = "load" /\ phase' = "serving" /\ lastServed' = db.version /\ applierPc' = "subscribe"
        /\ UNCHANGED <<current, recovery, db, taken, queue>>
    BY <1>5 DEF StartServing, mgrVars
  <2> QED
    BY <1>0, <2>1, VersionTypes DEF Progress, HasContent, Applicable, Merge
<1> QED
  BY <1>1, <1>2, <1>3, <1>4, <1>5 DEF Boot

\* A delivery moves the manager and the recovery file forward together.
LEMMA ProgressDeliver == ASSUME TypeOK, Agreement, Progress, Calm, Deliver PROVE Progress'
<1>0. phase = "serving" /\ current = recovery /\ response \in Payload
  BY DEF Deliver, Agreement, NotStarted, Progress, TypeOK
<1>1. PICK now \in Clock :
        /\ HandleMessage([version |-> NextVersion(now), cfg |-> Decoded(response)])
        /\ lastVersion' = NextVersion(now)
  BY DEF Deliver
<1> DEFINE snap == [version |-> NextVersion(now), cfg |-> Decoded(response)]
<1>2. snap.version \in Nat /\ snap.version > current.version
  <2>1. lastVersion = current.version /\ lastVersion \in Nat
    BY DEF Agreement, VersionsInStep, Deliver, TypeOK
  <2> QED
    BY <2>1, NextVersionType
<1>3. snap \in Snapshot /\ snap.cfg = Decoded(response)
  <2>1. Decoded(response) \in Config
    BY <1>0, DecodedType, ConstantsAssumption
  <2> QED
    BY <1>2, <2>1 DEF Snapshot
<1>4. HandleMessage(snap)
  BY <1>1
<1>5. LocalConfigured => Applicable(Merge(snap.cfg))
  BY <1>0, <1>3, DecodedApplicable, ConstantsAssumption DEF Calm
<1> HIDE DEF snap
<1>6. /\ current' = snap /\ recovery' = snap
      /\ queue' = queue \/ queue' = Append(queue, snap)
  <2>1. ~(snap.version <= current.version)
    BY <1>2, VersionTypes
  <2> QED
    BY <1>4, <2>1, Zenon DEF HandleMessage, Calm
<1>7. UNCHANGED <<phase, lastServed, db, applierPc, taken>>
  BY DEF Deliver, applierVars, liveVars
<1>8. \A i \in 1 .. Len(queue') : db.version <= queue'[i].version
  BY <1>0, <1>2, <1>3, <1>6, VersionTypes DEF Progress
<1> QED
  BY <1>0, <1>2, <1>5, <1>6, <1>7, <1>8, VersionTypes DEF Progress, Applicable, Merge

\* The applier moves the tables up to what it holds, and the routes up to the tables.
LEMMA ProgressApplier ==
  ASSUME TypeOK, Agreement, Progress, Applier PROVE Progress'
<1>0. phase = "serving" /\ phase' = "serving" /\ UNCHANGED <<current, recovery>>
  BY DEF Applier, Subscribe, Take, ApplySnapshot, ReloadRoutes, ReloadRules, SyncTargets,
         Agreement, NotStarted, mgrVars
<1>1. (LocalConfigured /\ HasContent(recovery) => Applicable(Merge(recovery.cfg)))'
  BY <1>0 DEF Progress, HasContent, Applicable, Merge
<1>2. CASE Subscribe
  <2>1. /\ queue' = <<current>> /\ applierPc' = "idle" /\ UNCHANGED <<lastServed, db, taken>>
    BY <1>2 DEF Subscribe, liveVars
  <2> QED
    BY <1>0, <1>1, <2>1, VersionTypes DEF Progress
<1>3. CASE Take
  <2>1. /\ taken' = queue[1] /\ queue' = Tail(queue) /\ queue # <<>> /\ UNCHANGED <<lastServed, db>>
    BY <1>3, VersionTypes DEF Take, liveVars
  <2>2. /\ Len(queue) \in Nat \ {0} /\ Len(queue') = Len(queue) - 1
        /\ \A i \in 1 .. Len(queue') : queue'[i] = queue[i + 1]
    BY <2>1, VersionTypes, HeadTailProperties
  <2> QED
    BY <1>0, <1>1, <2>1, <2>2 DEF Progress
<1>4. CASE ApplySnapshot
  <2>1. /\ UNCHANGED <<lastServed, taken, queue>> /\ applierPc = "apply" /\ applierPc' # "apply"
        /\ db' = db \/ db'.version = taken.version
    BY <1>4 DEF ApplySnapshot, Applied, liveVars, mgrVars
  <2>2. \A i \in 1 .. Len(queue) : taken.version <= queue[i].version
    BY VersionTypes DEF Agreement, PendingInOrder, NoSnapshot
  <2>3. taken.version <= recovery.version
    BY <1>0 DEF Agreement, Progress
  <2> QED
    BY <1>0, <1>1, <2>1, <2>2, <2>3, VersionTypes DEF Progress
<1>5. CASE ReloadRoutes
  <2>1. /\ UNCHANGED <<taken, queue, db>> /\ applierPc' # "apply"
        /\ lastServed' \in {lastServed, db.version}
    BY <1>5 DEF ReloadRoutes, mgrVars
  <2> QED
    BY <1>0, <1>1, <2>1, VersionTypes DEF Progress
<1>6. CASE ReloadRules \/ SyncTargets
  <2>1. UNCHANGED <<lastServed, taken, queue, db>> /\ applierPc' # "apply"
    BY <1>6 DEF ReloadRules, SyncTargets, mgrVars
  <2> QED
    BY <1>0, <1>1, <2>1 DEF Progress
<1> QED
  BY <1>2, <1>3, <1>4, <1>5, <1>6 DEF Applier

LEMMA ProgressStep ==
  ASSUME Calm PROVE TypeOK /\ Agreement /\ Progress /\ [Next]_vars => Progress'
<1> SUFFICES ASSUME TypeOK, Agreement, Progress, [Next]_vars PROVE Progress'
  OBVIOUS
<1>1. ASSUME NEW p \in Payload, Publish(p) PROVE Progress'
  BY <1>1, ProgressUnchanged DEF Publish, progressVars, mgrVars, applierVars, liveVars
<1>2. CASE Fetch \/ SkipUnchanged
  BY <1>2, ProgressUnchanged DEF Fetch, SkipUnchanged, progressVars, mgrVars, applierVars, liveVars
<1>3. CASE Crash
  <2>1. /\ phase' = "down" /\ applierPc' = "off" /\ queue' = <<>>
        /\ UNCHANGED <<recovery, db, lastServed>>
    BY <1>3 DEF Crash
  <2> QED
    BY <2>1 DEF Progress, HasContent, Applicable, Merge
<1>4. CASE UNCHANGED vars
  BY <1>4, ProgressUnchanged DEF vars, progressVars, mgrVars, applierVars, liveVars
<1> QED
  BY <1>1, <1>2, <1>3, <1>4, ProgressBoot, ProgressDeliver, ProgressApplier
     DEF Next, Poller

LEMMA ProgressInit == Init => Progress
BY DEF Init, Progress, NoSnapshot, HasContent, EmptyConfig

LEMMA ProgressHolds == ASSUME Calm PROVE Spec => []Progress
BY ProgressInit, ProgressStep, TypeCorrect, AgreementHolds, PTL DEF Spec

\* Requests never go back to an older configuration, not even by a crash.
THEOREM ServedMovesForward == ASSUME Calm PROVE Spec => ServedNeverRollsBack
<1>1. TypeOK /\ Agreement /\ Progress /\ [Next]_vars => [lastServed' >= lastServed]_vars
  <2> SUFFICES ASSUME TypeOK, Agreement, Progress, Next PROVE lastServed' >= lastServed
    OBVIOUS
  <2>1. lastServed' = lastServed \/ (StartServing \/ ReloadRoutes)
    BY DEF Next, Publish, Boot, Start, ApplyLocal, ApplyRecovered, LoadRoutesFails, Poller, Fetch,
           SkipUnchanged, Deliver, Applier, Subscribe, Take, ApplySnapshot, ReloadRules,
           SyncTargets, Crash, liveVars
  <2>2. CASE StartServing
    BY <2>2, VersionTypes DEF StartServing, Progress
  <2>3. CASE ReloadRoutes
    BY <2>3, VersionTypes DEF ReloadRoutes, Progress, Agreement, NotStarted
  <2> QED
    BY <2>1, <2>2, <2>3, VersionTypes
<1> QED
  BY <1>1, TypeCorrect, AgreementHolds, ProgressHolds, PTL DEF Spec, ServedNeverRollsBack

\* The agent implements ConfigFeed.
THEOREM FeedImplemented == ASSUME Calm PROVE Spec => FeedSpec
<1>1. Init => Feed!Init
  BY DEF Init, Feed!Init, NoSnapshot
<1>2. TypeOK /\ Agreement /\ Progress /\ [Next]_vars => [Feed!Next]_(Feed!feedVars)
  <2> SUFFICES ASSUME TypeOK, Agreement, Progress, [Next]_vars
               PROVE  Feed!Next \/ UNCHANGED <<recovery.version, lastServed, phase = "serving">>
    BY DEF Feed!feedVars
  <2>1. CASE StartServing
    <3>1. /\ phase # "serving" /\ phase' = "serving" /\ lastServed' = db.version
          /\ recovery' = recovery
      BY <2>1 DEF StartServing
    <3>2. lastServed' \in lastServed .. recovery.version
      BY <2>1, <3>1, VersionTypes DEF StartServing, Progress
    <3> QED
      BY <3>1, <3>2 DEF Feed!Next, Feed!Resume
  <2>2. CASE ReloadRoutes
    <3>1. /\ phase = "serving" /\ UNCHANGED <<phase, recovery>>
          /\ lastServed' \in {lastServed, db.version}
      BY <2>2 DEF ReloadRoutes, Agreement, NotStarted
    <3>2. lastServed' \in lastServed .. recovery.version
      BY <3>1, VersionTypes DEF Progress
    <3> QED
      BY <3>1, <3>2 DEF Feed!Next, Feed!Advance
  <2>3. CASE Deliver
    <3>1. phase = "serving" /\ UNCHANGED <<phase, lastServed>> /\ current = recovery
      BY <2>3 DEF Deliver, Agreement, NotStarted, Progress, liveVars
    <3>2. PICK now \in Clock : HandleMessage([version |-> NextVersion(now), cfg |-> Decoded(response)])
      BY <2>3 DEF Deliver
    <3> DEFINE snap == [version |-> NextVersion(now), cfg |-> Decoded(response)]
    <3>3. snap.version \in Nat
      BY NextVersionType DEF TypeOK
    <3> HIDE DEF snap
    <3>4. recovery' = recovery \/ (recovery' = snap /\ snap.version > recovery.version)
      <4>1. HandleMessage(snap)
        BY <3>2 DEF snap
      <4>2. recovery' = recovery \/ (recovery' = snap /\ ~(snap.version <= current.version))
        BY <4>1, Zenon DEF HandleMessage
      <4> QED
        BY <3>1, <3>3, <4>2, VersionTypes
    <3> QED
      BY <3>1, <3>3, <3>4 DEF Feed!Next, Feed!Accept
  <2>4. CASE Crash
    BY <2>4 DEF Crash, Feed!Next, Feed!Stop
  <2>5. CASE UNCHANGED vars
    BY <2>5 DEF vars, liveVars
  <2>6. ASSUME NEW p \in Payload, Publish(p)
        PROVE  UNCHANGED <<recovery.version, lastServed, phase = "serving">>
    BY <2>6 DEF Publish, liveVars
  <2>7. CASE Start \/ ApplyLocal \/ ApplyRecovered \/ LoadRoutesFails
    BY <2>7 DEF Start, ApplyLocal, ApplyRecovered, LoadRoutesFails, liveVars
  <2>8. CASE Fetch \/ SkipUnchanged
    BY <2>8 DEF Fetch, SkipUnchanged, liveVars
  <2>9. CASE Subscribe \/ Take \/ ApplySnapshot \/ ReloadRules \/ SyncTargets
    BY <2>9 DEF Subscribe, Take, ApplySnapshot, ReloadRules, SyncTargets, liveVars
  <2> QED
    BY <2>1, <2>2, <2>3, <2>4, <2>5, <2>6, <2>7, <2>8, <2>9 DEF Next, Boot, Poller, Applier
<1> QED
  BY <1>1, <1>2, TypeCorrect, AgreementHolds, ProgressHolds, PTL DEF Spec, FeedSpec, Feed!Spec
-----------------------------------------------------------------------------
(* What requests are served from, whatever is published, rejected or       *)
(* recovered and whenever the process dies, as long as the database works. *)

DatabaseWorks == "db" \notin Faults

\* The tables have what the merge of a snapshot configures.
Stored(cfg) ==
  LET merged == Merge(cfg)
  IN /\ merged.routesSet => db.routes = merged.routes
     /\ merged.rulesSet => db.rules = merged.rules

\* Routes, rules and targets stem from one state of the tables, or the applier is
\* on its way from one to the next and has refreshed the first of them.
Layered ==
  /\ applierPc \in {"subscribe", "idle", "apply", "routes"} =>
       /\ resolver.version = waf.version /\ waf.version = health.version
       /\ health.targets = Upstreams(resolver.routes)
  /\ applierPc \in {"rules", "targets"} =>
       resolver.version = db.version /\ resolver.routes = db.routes
  /\ applierPc = "targets" => waf.version = db.version /\ waf.rules = db.rules

\* A snapshot that was applied is in the tables until the next one is, and what
\* the applier is done with is served, if it can be.
Handed ==
  /\ phase = "load" /\ HasContent(current) /\ Applicable(Merge(current.cfg)) => Stored(current.cfg)
  /\ applierPc \in {"routes", "rules", "targets"} => Stored(taken.cfg)
  /\ applierPc = "idle" =>
       \/ taken = NoSnapshot /\ queue # <<>>
       \/ Acceptable(taken.cfg) /\ Loadable(db.routes) => Serves(taken.cfg)

\* The inductive invariant.
Serving == Layered /\ Handed /\ BootServesRecovered

\* The variables Serving is about.
servingVars ==
  <<phase, digest, current, queue, applierPc, taken, db, resolver, waf, health>>

LEMMA ServingUnchanged == Serving /\ UNCHANGED servingVars => Serving'
<1> SUFFICES ASSUME Serving, UNCHANGED servingVars PROVE Serving'
  OBVIOUS
<1>1. Layered'
  BY DEF Serving, Layered, servingVars, Upstreams
<1>2. Handed'
  BY DEF Serving, Handed, servingVars, Stored, Serves, HasContent, Acceptable, Applicable, Loadable,
         Merge, Upstreams
<1>3. BootServesRecovered'
  BY DEF Serving, BootServesRecovered, servingVars, Serves, HasContent, Acceptable, Applicable,
         Loadable, Merge, Upstreams
<1> QED
  BY <1>1, <1>2, <1>3 DEF Serving

\* A step of main before the goroutines start: only the tables matter.
LEMMA ServingBoot ==
  ASSUME TypeOK, Agreement, DatabaseWorks, Serving,
         Start \/ ApplyLocal \/ ApplyRecovered \/ LoadRoutesFails
  PROVE  Serving'
<1>1. applierPc = "off" /\ applierPc' = "off"
  BY DEF Start, ApplyLocal, ApplyRecovered, LoadRoutesFails, Agreement, NotStarted, applierVars
<1>2. (phase = "load" /\ HasContent(current) /\ Applicable(Merge(current.cfg)) => Stored(current.cfg))'
  <2>1. CASE Start \/ ApplyLocal \/ LoadRoutesFails
    BY <2>1 DEF Start, ApplyLocal, LoadRoutesFails
  <2>2. CASE ApplyRecovered
    <3> DEFINE merged == Merge(current.cfg)
    <3>1. /\ current' = current
          /\ HasContent(current) /\ Applicable(merged) => db' = Applied(merged, current.version)
      BY <2>2 DEF ApplyRecovered, DatabaseWorks, mgrVars
    <3>2. db' = Applied(merged, current.version) =>
            /\ merged.routesSet => db'.routes = merged.routes
            /\ merged.rulesSet => db'.rules = merged.rules
      BY DEF Applied
    <3>3. HasContent(current)' <=> HasContent(current)
      BY <3>1 DEF HasContent
    <3>4. Merge(current.cfg)' = merged /\ (Applicable(Merge(current.cfg))' <=> Applicable(merged))
      BY <3>1 DEF Merge, Applicable
    <3> HIDE DEF merged
    <3>5. Stored(current.cfg)' <=> /\ merged.routesSet => db'.routes = merged.routes
                                   /\ merged.rulesSet => db'.rules = merged.rules
      BY <3>4 DEF Stored
    <3> QED
      BY <3>1, <3>2, <3>3, <3>4, <3>5
  <2> QED
    BY <2>1, <2>2
<1> QED
  BY <1>1, <1>2 DEF Serving, Layered, Handed, BootServesRecovered

\* All engines are built from the tables of one moment.
LEMMA ServingStart ==
  ASSUME TypeOK, Agreement, DatabaseWorks, Serving, StartServing PROVE Serving'
<1>1. /\ phase = "load" /\ phase' = "serving" /\ applierPc' = "subscribe"
      /\ resolver' = [version |-> db.version, routes |-> db.routes]
      /\ waf' = [version |-> db.version, rules |-> db.rules]
      /\ health' = [version |-> db.version, targets |-> Upstreams(db.routes)]
      /\ UNCHANGED <<current, queue, taken, db>>
  BY DEF StartServing, DatabaseWorks, mgrVars
<1>2. Layered'
  BY <1>1 DEF Layered, Upstreams
<1>3. Handed'
  BY <1>1 DEF Handed
<1>4. BootServesRecovered'
  <2> SUFFICES ASSUME HasContent(current)', Acceptable(current.cfg)' PROVE Serves(current.cfg)'
    BY DEF BootServesRecovered
  <2>1. HasContent(current) /\ Applicable(Merge(current.cfg))
    BY <1>1 DEF HasContent, Acceptable, Applicable, Merge
  <2>2. Stored(current.cfg)
    BY <1>1, <2>1 DEF Serving, Handed
  <2>3. Merge(current.cfg)' = Merge(current.cfg)
    BY <1>1 DEF Merge
  <2>4. health'.targets = Upstreams(resolver'.routes)
    BY <1>1 DEF Upstreams
  <2> QED
    BY <1>1, <2>2, <2>3, <2>4 DEF Serves, Stored, Upstreams
<1> QED
  BY <1>2, <1>3, <1>4 DEF Serving

\* A delivery changes nothing that is served, and ends the time in which the
\* recovered snapshot is the only one.
LEMMA ServingDeliver == ASSUME TypeOK, Agreement, Serving, Deliver PROVE Serving'
<1>1. /\ phase = "serving" /\ digest' # NoPayload
      /\ UNCHANGED <<phase, applierPc, taken, db, resolver, waf, health>>
  BY ConstantsAssumption DEF Deliver, TypeOK, Agreement, NotStarted, applierVars, liveVars
<1>2. queue # <<>> => queue' # <<>>
  <2>1. PICK snap : HandleMessage(snap)
    BY DEF Deliver
  <2>2. queue' = queue \/ queue' = Append(queue, snap)
    BY <2>1, Zenon DEF HandleMessage, mgrVars
  <2>3. queue \in Seq(Snapshot)
    BY DEF TypeOK
  <2> QED
    BY <2>2, <2>3
<1>3. Layered'
  BY <1>1 DEF Serving, Layered, Upstreams
<1>4. Handed'
  BY <1>1, <1>2 DEF Serving, Handed, Stored, Serves, Acceptable, Applicable, Loadable, Merge, Upstreams
<1> QED
  BY <1>1, <1>3, <1>4 DEF Serving, BootServesRecovered

\* The applier receives a snapshot; nothing is changed yet.
LEMMA ServingReceive ==
  ASSUME TypeOK, Agreement, Serving, Subscribe \/ Take PROVE Serving'
<1>1. /\ phase = "serving" /\ phase' = "serving"
      /\ applierPc \in {"subscribe", "idle"} /\ applierPc' \in {"idle", "apply"}
      /\ UNCHANGED <<db, resolver, waf, health>>
  BY DEF Subscribe, Take, Agreement, NotStarted, liveVars
<1>2. applierPc' = "idle" => taken' = NoSnapshot /\ queue' # <<>>
  BY DEF Subscribe, Take, Agreement, NoChannel
<1>3. Layered'
  BY <1>1 DEF Serving, Layered, Upstreams
<1> QED
  BY <1>1, <1>2, <1>3 DEF Serving, Handed, BootServesRecovered, NoSnapshot, EmptyConfig

\* The transaction: the tables have the snapshot, or it cannot be applied.
LEMMA ServingApply ==
  ASSUME TypeOK, Agreement, DatabaseWorks, Serving, ApplySnapshot PROVE Serving'
<1> DEFINE merged == Merge(taken.cfg)
<1>1. /\ phase = "serving" /\ phase' = "serving" /\ applierPc = "apply"
      /\ UNCHANGED <<taken, queue, resolver, waf, health>>
  BY DEF ApplySnapshot, Agreement, NotStarted, liveVars, mgrVars
<1>2. \/ applierPc' = "routes" /\ db' = Applied(merged, taken.version)
      \/ applierPc' = "idle" /\ ~Applicable(merged)
  BY DEF ApplySnapshot, DatabaseWorks
<1>3. Merge(taken.cfg)' = merged
  BY <1>1 DEF Merge
<1>4. Layered'
  BY <1>1, <1>2 DEF Serving, Layered, Upstreams
<1>5. CASE applierPc' = "routes" /\ db' = Applied(merged, taken.version)
  <2> HIDE DEF merged
  <2>1. Stored(taken.cfg)'
    BY <1>3, <1>5 DEF Stored, Applied
  <2> QED
    BY <1>1, <1>4, <1>5, <2>1 DEF Serving, Handed, BootServesRecovered
<1>6. CASE applierPc' = "idle" /\ ~Applicable(merged)
  <2> HIDE DEF merged
  <2>1. ~Acceptable(taken.cfg)'
    BY <1>3, <1>6 DEF Acceptable, Applicable
  <2> QED
    BY <1>1, <1>4, <1>6, <2>1 DEF Serving, Handed, BootServesRecovered
<1> QED
  BY <1>2, <1>5, <1>6

\* The three refreshes, one after the other.
LEMMA ServingReload ==
  ASSUME TypeOK, Agreement, DatabaseWorks, Serving, ReloadRoutes \/ ReloadRules \/ SyncTargets
  PROVE  Serving'
<1>1. phase = "serving" /\ phase' = "serving" /\ UNCHANGED <<taken, queue, db>>
  BY DEF ReloadRoutes, ReloadRules, SyncTargets, Agreement, NotStarted, mgrVars
<1>2. Stored(taken.cfg) /\ (Stored(taken.cfg)' <=> Stored(taken.cfg))
  BY <1>1 DEF Serving, Handed, Stored, Merge, ReloadRoutes, ReloadRules, SyncTargets
<1>3. CASE ReloadRoutes
  <2>1. CASE Loadable(db.routes)
    <3>1. /\ applierPc' = "rules" /\ resolver' = [version |-> db.version, routes |-> db.routes]
      BY <1>3, <2>1 DEF ReloadRoutes, DatabaseWorks
    <3> QED
      BY <1>1, <1>2, <3>1 DEF Serving, Layered, Handed, BootServesRecovered
  <2>2. CASE ~Loadable(db.routes)
    <3>1. applierPc = "routes" /\ applierPc' = "idle" /\ UNCHANGED <<resolver, waf, health>>
      BY <1>3, <2>2 DEF ReloadRoutes
    <3>2. ~Loadable(db.routes)'
      BY <1>1, <2>2 DEF Loadable
    <3> QED
      BY <1>1, <3>1, <3>2 DEF Serving, Layered, Handed, BootServesRecovered, Upstreams
  <2> QED
    BY <2>1, <2>2
<1>4. CASE ReloadRules
  <2>1. /\ applierPc = "rules" /\ applierPc' = "targets" /\ UNCHANGED <<resolver, health>>
        /\ waf' = [version |-> db.version, rules |-> db.rules]
    BY <1>4 DEF ReloadRules, DatabaseWorks
  <2> QED
    BY <1>1, <1>2, <2>1 DEF Serving, Layered, Handed, BootServesRecovered
<1>5. CASE SyncTargets
  <2>1. /\ applierPc = "targets" /\ applierPc' = "idle" /\ UNCHANGED <<resolver, waf>>
        /\ health' = [version |-> db.version, targets |-> Upstreams(db.routes)]
    BY <1>5 DEF SyncTargets, DatabaseWorks
  <2>2. /\ resolver.version = db.version /\ resolver.routes = db.routes
        /\ waf.version = db.version /\ waf.rules = db.rules
    BY <2>1 DEF Serving, Layered
  <2>3. Layered'
    BY <1>1, <2>1, <2>2 DEF Layered, Upstreams
  <2>4. Serves(taken.cfg)'
    BY <1>1, <1>2, <2>1, <2>2 DEF Serves, Stored, Merge, Upstreams
  <2> QED
    BY <1>1, <2>1, <2>3, <2>4 DEF Serving, Handed, BootServesRecovered
<1> QED
  BY <1>3, <1>4, <1>5

LEMMA ServingStep ==
  ASSUME DatabaseWorks PROVE TypeOK /\ Agreement /\ Serving /\ [Next]_vars => Serving'
<1> SUFFICES ASSUME TypeOK, Agreement, Serving, [Next]_vars PROVE Serving'
  OBVIOUS
<1>1. ASSUME NEW p \in Payload, Publish(p) PROVE Serving'
  BY <1>1, ServingUnchanged DEF Publish, servingVars, pollVars, mgrVars, applierVars, liveVars
<1>2. CASE Fetch \/ SkipUnchanged
  BY <1>2, ServingUnchanged DEF Fetch, SkipUnchanged, servingVars, mgrVars, applierVars, liveVars
<1>3. CASE Crash
  BY <1>3 DEF Crash, Serving, Layered, Handed, BootServesRecovered
<1>4. CASE UNCHANGED vars
  BY <1>4, ServingUnchanged DEF vars, servingVars, pollVars, mgrVars, applierVars, liveVars
<1> QED
  BY <1>1, <1>2, <1>3, <1>4, ServingBoot, ServingStart, ServingDeliver, ServingReceive,
     ServingApply, ServingReload DEF Next, Boot, Poller, Applier

LEMMA ServingHolds == ASSUME DatabaseWorks PROVE Spec => []Serving
<1>1. Init => Serving
  BY DEF Init, Serving, Layered, Handed, BootServesRecovered
<1> QED
  BY <1>1, ServingStep, TypeCorrect, AgreementHolds, PTL DEF Spec

\* Between two updates routes, rules and health targets are of one state of the
\* tables, however many snapshots were rejected in between.
THEOREM LayersStayTogether == ASSUME DatabaseWorks PROVE Spec => []LayersAgree
<1>1. Serving => LayersAgree
  BY DEF Serving, Layered, LayersAgree
<1> QED
  BY <1>1, ServingHolds, PTL

\* When the applier has nothing left to do, requests see the newest snapshot as a
\* whole: that it is the newest is Agreement's part, that it is whole Serving's.
THEOREM NewestIsServed == ASSUME DatabaseWorks PROVE Spec => []CaughtUp
<1>1. Agreement /\ Serving => CaughtUp
  <2> SUFFICES ASSUME Agreement, Serving, applierPc = "idle", queue = <<>>, ~missed,
                      Acceptable(current.cfg), Loadable(db.routes)
               PROVE  Serves(current.cfg)
    BY DEF CaughtUp
  <2>1. current = taken
    BY DEF Agreement, NewestReachesApplier
  <2> QED
    BY <2>1 DEF Serving, Handed
<1> QED
  BY <1>1, AgreementHolds, ServingHolds, PTL

\* Without the control plane the recovered snapshot is served, over the local
\* routes and the defaults.
THEOREM RecoveredIsServed == ASSUME DatabaseWorks PROVE Spec => []BootServesRecovered
<1>1. Serving => BootServesRecovered
  BY DEF Serving
<1> QED
  BY <1>1, ServingHolds, PTL
=============================================================================
