---------------------------- MODULE HealthWorker ----------------------------
(***************************************************************************)
(* health.Worker: probe cycles against a set of targets that changes while *)
(* they run. A cycle works on a copy of the targets; its results are       *)
(* recorded one by one, each under the lock, if the target is still there  *)
(* and still checked in the same way.                                      *)
(*                                                                         *)
(* The agent has one probe loop, so cycles never overlap.                  *)
(***************************************************************************)
EXTENDS Integers, FiniteSets, Functions

CONSTANTS
  Target,    \* URLs of upstreams
  Check,     \* kinds of check: http, tcp
  Workers,   \* maxConcurrentProbes
  Configs,   \* what Sync may be called with
  MaxSyncs,  \* bound: calls of Sync after the first
  MaxFlips   \* bound: changes of an upstream's condition

ASSUME HealthAssumption ==
  /\ Workers \in Nat \ {0} /\ MaxSyncs \in Nat /\ MaxFlips \in Nat
  /\ \A c \in Configs : DOMAIN c \subseteq Target /\ c \in [DOMAIN c -> Check]

VARIABLES
  targets,   \* Worker.targets: from URL to kind of check
  healthy,   \* Worker.healthy
  checked,   \* Worker.checked
  jobs,      \* targets of this cycle that wait for a probe
  probes,    \* probes in progress: targets with what the upstream answered
  up,        \* external: the kinds of check each upstream passes
  syncs, flips

workerVars == <<targets, healthy, checked, jobs, probes>>
worldVars == <<up, syncs, flips>>
healthVars == <<workerVars, worldVars>>

Job == [url : Target, check : Check]
Probe == [url : Target, check : Check, passed : BOOLEAN]

HealthTypeOK ==
  /\ targets \in Configs
  /\ healthy \in [DOMAIN healthy -> BOOLEAN] /\ checked \in [DOMAIN checked -> BOOLEAN]
  /\ jobs \subseteq Job /\ probes \subseteq Probe /\ Cardinality(probes) <= Workers
  /\ \A p, q \in probes : p.url = q.url => p = q
  /\ up \in [Target -> SUBSET Check]
  /\ syncs \in 0 .. MaxSyncs /\ flips \in 0 .. MaxFlips

\* The first Sync precedes the probe loop.
HealthInit ==
  /\ targets \in Configs
  /\ healthy = [u \in DOMAIN targets |-> TRUE]
  /\ checked = [u \in DOMAIN targets |-> FALSE]
  /\ jobs = {} /\ probes = {}
  /\ up \in [Target -> SUBSET Check]
  /\ syncs = 0 /\ flips = 0

\* A target nobody monitors or nobody has probed yet counts as healthy.
IsHealthy(u) == u \notin DOMAIN targets \/ ~checked[u] \/ healthy[u]

\* Sync forgets the verdicts of targets that are gone and keeps the others.
Sync(next) ==
  /\ syncs < MaxSyncs
  /\ targets' = next
  /\ healthy' = [u \in DOMAIN next |-> IF u \in DOMAIN targets THEN healthy[u] ELSE TRUE]
  /\ checked' = [u \in DOMAIN next |-> u \in DOMAIN targets /\ checked[u]]
  /\ syncs' = syncs + 1
  /\ UNCHANGED <<jobs, probes, up, flips>>

\* Mutant: a cycle does not wait for the probes of the last one.
BeginCycleEarly ==
  /\ jobs = {}
  /\ jobs' = {[url |-> u, check |-> targets[u]] : u \in DOMAIN targets}
  /\ UNCHANGED <<targets, healthy, checked, probes, worldVars>>

\* Mutant: unhealthy targets are not looked at again.
BeginCycleHealthyOnly ==
  /\ jobs = {} /\ probes = {}
  /\ jobs' = {[url |-> u, check |-> targets[u]] : u \in {t \in DOMAIN targets : healthy[t]}}
  /\ UNCHANGED <<targets, healthy, checked, probes, worldVars>>

\* probeAll, when the ticker fires: a copy of the targets, once the probes of the
\* last cycle are over.
BeginCycle ==
  /\ jobs = {} /\ probes = {}
  /\ jobs' = {[url |-> u, check |-> targets[u]] : u \in DOMAIN targets}
  /\ UNCHANGED <<targets, healthy, checked, probes, worldVars>>

\* A worker probes a target of the cycle. The answer is on its way from here on.
StartProbe(job) ==
  /\ job \in jobs /\ Cardinality(probes) < Workers
  /\ jobs' = jobs \ {job}
  /\ probes' = probes \cup
       {[url |-> job.url, check |-> job.check, passed |-> job.check \in up[job.url]]}
  /\ UNCHANGED <<targets, healthy, checked, worldVars>>

\* Mutant: the result is recorded whether or not the target is still there.
RecordsAlways(probe) == TRUE

\* recordProbe ignores a result nobody waits for any more.
Records(probe) == probe.url \in DOMAIN targets /\ targets[probe.url] = probe.check

RecordProbe(probe) ==
  /\ probe \in probes
  /\ probes' = probes \ {probe}
  /\ IF Records(probe)
     THEN /\ healthy' = [u \in DOMAIN healthy \cup {probe.url} |->
                          IF u = probe.url THEN probe.passed ELSE healthy[u]]
          /\ checked' = [u \in DOMAIN checked \cup {probe.url} |->
                          u = probe.url \/ checked[u]]
     ELSE UNCHANGED <<healthy, checked>>
  /\ UNCHANGED <<targets, jobs, worldVars>>

\* An upstream changes.
Flip(u, condition) ==
  /\ flips < MaxFlips /\ condition # up[u]
  /\ up' = [up EXCEPT ![u] = condition]
  /\ flips' = flips + 1
  /\ UNCHANGED <<workerVars, syncs>>

Probing == BeginCycle \/ (\E job \in jobs : StartProbe(job)) \/ \E probe \in probes : RecordProbe(probe)

HealthNext ==
  \/ Probing
  \/ \E next \in Configs : Sync(next)
  \/ \E u \in Target, condition \in SUBSET Check : Flip(u, condition)

HealthSpec == HealthInit /\ [][HealthNext]_healthVars /\ WF_healthVars(Probing)
-----------------------------------------------------------------------------
\* What is known is known exactly of the monitored targets: a late result does
\* not bring back a removed target.
TrackedExactly == DOMAIN healthy = DOMAIN targets /\ DOMAIN checked = DOMAIN targets

\* Once upstreams and configuration stay as they are, the verdicts become right.
HealthConverges ==
  <>[](\A u \in DOMAIN targets : checked[u] /\ healthy[u] = (targets[u] \in up[u]))
=============================================================================
