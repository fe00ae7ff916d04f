---------------------------- MODULE HealthProofs ----------------------------
(***************************************************************************)
(* Proofs about the health worker, for any number of upstreams, kinds of   *)
(* check, probes at a time, configurations and changes.                    *)
(***************************************************************************)
EXTENDS HealthAudit, FiniteSetTheorems, TLAPS

\* A probe in progress answers how the upstream was since the cycle began.
ProbesRecent ==
  \A p \in probes : \E condition \in lately[p.url] : p.passed = (p.check \in condition)

\* A cycle that began after a target was configured has yet to probe it, or is
\* probing it, or has left a verdict of its own.
InCycle(u) ==
  \/ [url |-> u, check |-> targets[u]] \in jobs
  \/ \E p \in probes : p.url = u /\ p.check = targets[u]
  \/ checked[u] /\ \E condition \in lately[u] : healthy[u] = (targets[u] \in condition)

\* Jobs and probes are of different targets, so that no two probes of one are
\* on their way; what was observed is in the record.
CycleInv ==
  /\ \A j \in jobs, p \in probes : j.url # p.url
  /\ \A j, k \in jobs : j.url = k.url => j = k
  /\ IsFiniteSet(probes)
  /\ \A u \in Target : up[u] \in lately[u]

FreshInv ==
  /\ ProbesRecent
  /\ \A u \in DOMAIN targets : settled[u] > 0 => InCycle(u)
  /\ VerdictFresh

Inv == TypeOK /\ TrackedExactly /\ CycleInv /\ FreshInv

LEMMA TargetsTyped ==
  ASSUME targets \in Configs
  PROVE  /\ DOMAIN targets \subseteq Target
         /\ \A u \in DOMAIN targets : targets[u] \in Check
BY HealthAssumption

LEMMA InvInit == Init => Inv
<1> SUFFICES ASSUME Init PROVE Inv
  OBVIOUS
<1> USE DEF Init, HealthInit
<1>1. TypeOK
  BY FS_EmptySet, HealthAssumption, TargetsTyped
     DEF TypeOK, HealthTypeOK, Job, Probe
<1>2. TrackedExactly
  BY DEF TrackedExactly
<1>3. CycleInv
  BY FS_EmptySet DEF CycleInv
<1>4. FreshInv
  BY TargetsTyped DEF FreshInv, ProbesRecent, VerdictFresh
<1> QED
  BY <1>1, <1>2, <1>3, <1>4 DEF Inv

LEMMA InvCycleBegins == ASSUME Inv, CycleBegins PROVE Inv'
<1> USE DEF CycleBegins, BeginCycle, worldVars, Inv, TypeOK, HealthTypeOK
<1>1. /\ DOMAIN targets \subseteq Target
      /\ \A u \in DOMAIN targets : targets[u] \in Check
  BY TargetsTyped
<1>2. TypeOK'
  <2>1. jobs' \subseteq Job
    BY <1>1 DEF Job
  <2>2. lately' \in [Target -> SUBSET SUBSET Check] /\ earlier' \in [Target -> SUBSET SUBSET Check]
    OBVIOUS
  <2>3. settled' \in [Target -> 0 .. 2]
    OBVIOUS
  <2> QED
    BY <2>1, <2>2, <2>3
<1>3. TrackedExactly'
  BY DEF TrackedExactly
<1>4. CycleInv'
  BY <1>1 DEF CycleInv
<1>5. FreshInv'
  <2>1. ProbesRecent'
    BY DEF ProbesRecent
  <2>2. ASSUME NEW u \in DOMAIN targets' PROVE InCycle(u)'
    BY <2>2 DEF InCycle
  <2>3. VerdictFresh'
    <3> SUFFICES ASSUME NEW u \in DOMAIN targets, settled'[u] = 2
                 PROVE  /\ checked[u]
                        /\ \E condition \in lately[u] : healthy[u] = (targets[u] \in condition)
      BY <1>1 DEF VerdictFresh
    <3>1. settled[u] > 0
      BY <1>1
    <3>2. InCycle(u)
      BY <3>1 DEF FreshInv
    <3> QED
      BY <3>2 DEF InCycle
  <2> QED
    BY <2>1, <2>2, <2>3 DEF FreshInv
<1> QED
  BY <1>2, <1>3, <1>4, <1>5

LEMMA InvStartProbe ==
  ASSUME Inv, NEW job \in jobs, StartProbe(job), UNCHANGED recordVars
  PROVE  Inv'
<1> USE DEF StartProbe, worldVars, recordVars, Inv, TypeOK, HealthTypeOK
<1> DEFINE new == [url |-> job.url, check |-> job.check, passed |-> job.check \in up[job.url]]
<1>1. job \in Job /\ new \in Probe /\ new.url \in Target
  BY DEF Job, Probe
<1>2. TypeOK'
  <2>1. probes' \subseteq Probe /\ jobs' \subseteq Job
    BY <1>1
  <2>2. Cardinality(probes') <= Workers
    <3>1. IsFiniteSet(probes) /\ Cardinality(probes) \in Nat
      BY FS_CardinalityType DEF CycleInv
    <3>2. Cardinality(probes \cup {new}) = Cardinality(probes)
            \/ Cardinality(probes \cup {new}) = Cardinality(probes) + 1
      BY <3>1, FS_AddElement
    <3> QED
      BY <3>1, <3>2, HealthAssumption
  <2>3. ASSUME NEW p \in probes', NEW q \in probes', p.url = q.url PROVE p = q
    BY <1>1, <2>3 DEF CycleInv
  <2> QED
    BY <2>1, <2>2, <2>3
<1>3. TrackedExactly'
  BY DEF TrackedExactly
<1>4. CycleInv'
  <2>1. IsFiniteSet(probes')
    BY FS_AddElement DEF CycleInv
  <2>2. ASSUME NEW j \in jobs', NEW p \in probes' PROVE j.url # p.url
    BY <1>1, <2>2 DEF CycleInv, Job
  <2> QED
    BY <2>1, <2>2 DEF CycleInv
<1>5. FreshInv'
  <2>1. ProbesRecent'
    <3>1. \E condition \in lately[new.url] : new.passed = (new.check \in condition)
      BY <1>1 DEF CycleInv
    <3> QED
      BY <3>1 DEF ProbesRecent, FreshInv
  <2>2. ASSUME NEW u \in DOMAIN targets', settled'[u] > 0 PROVE InCycle(u)'
    <3>1. InCycle(u)
      BY <2>2 DEF FreshInv
    <3>2. CASE [url |-> u, check |-> targets[u]] = job
      <4>1. new \in probes' /\ new.url = u /\ new.check = targets'[u]
        BY <3>2
      <4> QED
        BY <4>1 DEF InCycle
    <3>3. CASE [url |-> u, check |-> targets[u]] # job
      BY <3>1, <3>3 DEF InCycle
    <3> QED
      BY <3>2, <3>3
  <2>3. VerdictFresh'
    BY DEF VerdictFresh, FreshInv
  <2> QED
    BY <2>1, <2>2, <2>3 DEF FreshInv
<1> QED
  BY <1>2, <1>3, <1>4, <1>5

\* The verdict that a result leaves is as fresh as the result.
LEMMA InvRecordProbe ==
  ASSUME Inv, NEW probe \in probes, RecordProbe(probe), UNCHANGED recordVars
  PROVE  Inv'
<1> USE DEF RecordProbe, worldVars, recordVars, Inv, TypeOK, HealthTypeOK
<1>1. /\ DOMAIN targets \subseteq Target
      /\ \A u \in DOMAIN targets : targets[u] \in Check
  BY TargetsTyped
<1>2. probe.url \in Target /\ probe.check \in Check /\ probe.passed \in BOOLEAN
  BY DEF Probe
<1>3. Records(probe) =>
        /\ healthy' = [u \in DOMAIN targets |-> IF u = probe.url THEN probe.passed ELSE healthy[u]]
        /\ checked' = [u \in DOMAIN targets |-> u = probe.url \/ checked[u]]
  BY DEF Records, TrackedExactly
<1>4. ~Records(probe) => healthy' = healthy /\ checked' = checked
  OBVIOUS
<1>5. TrackedExactly'
  BY <1>3, <1>4 DEF TrackedExactly
<1>6. TypeOK'
  <2>1. healthy' \in [DOMAIN healthy' -> BOOLEAN] /\ checked' \in [DOMAIN checked' -> BOOLEAN]
    <3>1. CASE Records(probe)
      BY <1>2, <1>3, <3>1 DEF TrackedExactly
    <3>2. CASE ~Records(probe)
      BY <1>4, <3>2
    <3> QED
      BY <3>1, <3>2
  <2>2. Cardinality(probes') <= Workers
    <3>1. IsFiniteSet(probes) /\ Cardinality(probes) \in Nat
      BY FS_CardinalityType DEF CycleInv
    <3>2. Cardinality(probes \ {probe}) = Cardinality(probes) - 1
      BY <3>1, FS_RemoveElement
    <3> QED
      BY <3>1, <3>2, HealthAssumption
  <2> QED
    BY <2>1, <2>2
<1>7. CycleInv'
  <2>1. IsFiniteSet(probes')
    BY FS_RemoveElement DEF CycleInv
  <2> QED
    BY <2>1 DEF CycleInv
<1>8. FreshInv'
  <2>1. ProbesRecent'
    BY DEF ProbesRecent, FreshInv
  <2>2. ASSUME NEW u \in DOMAIN targets, u = probe.url, Records(probe)
        PROVE  checked'[u] /\ \E condition \in lately[u] : healthy'[u] = (targets[u] \in condition)
    <3>1. PICK condition \in lately[u] : probe.passed = (probe.check \in condition)
      BY <2>2 DEF ProbesRecent, FreshInv
    <3>2. healthy'[u] = probe.passed /\ checked'[u] /\ targets[u] = probe.check
      BY <1>3, <2>2 DEF Records
    <3> QED
      BY <3>1, <3>2
  <2>3. ASSUME NEW u \in DOMAIN targets, ~(u = probe.url /\ Records(probe))
        PROVE  checked'[u] = checked[u] /\ healthy'[u] = healthy[u]
    <3>1. CASE Records(probe)
      BY <1>3, <2>3, <3>1 DEF TrackedExactly
    <3>2. CASE ~Records(probe)
      BY <1>4, <3>2
    <3> QED
      BY <3>1, <3>2
  <2>4. ASSUME NEW u \in DOMAIN targets', settled'[u] > 0 PROVE InCycle(u)'
    <3>1. InCycle(u)
      BY <2>4 DEF FreshInv
    <3>2. CASE u = probe.url /\ Records(probe)
      BY <2>2, <3>2 DEF InCycle
    <3>3. CASE ~(u = probe.url /\ Records(probe))
      <4>1. ASSUME NEW p \in probes, p.url = u, p.check = targets[u] PROVE p \in probes'
        BY <3>3, <4>1 DEF Records
      <4> QED
        BY <2>3, <3>1, <3>3, <4>1 DEF InCycle
    <3> QED
      BY <3>2, <3>3
  <2>5. VerdictFresh'
    <3> SUFFICES ASSUME NEW u \in DOMAIN targets, settled[u] = 2
                 PROVE  /\ checked'[u]
                        /\ \E condition \in earlier[u] \cup lately[u] :
                             healthy'[u] = (targets[u] \in condition)
      BY DEF VerdictFresh
    <3>1. CASE u = probe.url /\ Records(probe)
      BY <2>2, <3>1
    <3>2. CASE ~(u = probe.url /\ Records(probe))
      BY <2>3, <3>2 DEF FreshInv, VerdictFresh
    <3> QED
      BY <3>1, <3>2
  <2> QED
    BY <2>1, <2>4, <2>5 DEF FreshInv
<1> QED
  BY <1>5, <1>6, <1>7, <1>8

LEMMA InvSynced == ASSUME Inv, NEW next \in Configs, Synced(next) PROVE Inv'
<1> USE DEF Synced, Sync, Inv, TypeOK, HealthTypeOK
<1>1. /\ DOMAIN targets \subseteq Target
      /\ DOMAIN next \subseteq Target
  BY HealthAssumption
<1>2. TrackedExactly'
  BY DEF TrackedExactly
<1>3. TypeOK'
  <2>1. healthy' \in [DOMAIN next -> BOOLEAN] /\ checked' \in [DOMAIN next -> BOOLEAN]
    BY DEF TrackedExactly
  <2>2. syncs' \in 0 .. MaxSyncs
    BY HealthAssumption
  <2>3. settled' \in [Target -> 0 .. 2]
    OBVIOUS
  <2>4. DOMAIN healthy' = DOMAIN next /\ DOMAIN checked' = DOMAIN next
    OBVIOUS
  <2> QED
    BY <2>1, <2>2, <2>3, <2>4
<1>4. CycleInv'
  BY DEF CycleInv
<1>5. ASSUME NEW u \in DOMAIN next, settled'[u] > 0
      PROVE  /\ u \in DOMAIN targets /\ targets[u] = next[u] /\ settled'[u] = settled[u]
             /\ checked'[u] = checked[u] /\ healthy'[u] = healthy[u]
  <2>1. u \in DOMAIN targets /\ targets[u] = next[u] /\ settled'[u] = settled[u]
    BY <1>1, <1>5
  <2> QED
    BY <2>1 DEF TrackedExactly
<1>6. FreshInv'
  <2>1. ProbesRecent'
    BY DEF ProbesRecent, FreshInv
  <2>2. ASSUME NEW u \in DOMAIN next, settled'[u] > 0 PROVE InCycle(u)'
    <3>1. InCycle(u)
      BY <1>5, <2>2 DEF FreshInv
    <3> QED
      BY <1>5, <2>2, <3>1 DEF InCycle
  <2>3. VerdictFresh'
    <3> SUFFICES ASSUME NEW u \in DOMAIN next, settled'[u] = 2
                 PROVE  /\ checked'[u]
                        /\ \E condition \in earlier[u] \cup lately[u] :
                             healthy'[u] = (next[u] \in condition)
      BY DEF VerdictFresh
    <3>0. settled'[u] > 0
      OBVIOUS
    <3>1. /\ u \in DOMAIN targets /\ targets[u] = next[u] /\ settled[u] = 2
          /\ checked'[u] = checked[u] /\ healthy'[u] = healthy[u]
      <4> HIDE DEF Synced, Sync
      <4> QED
        BY <1>5, <3>0
    <3> QED
      BY <3>1 DEF FreshInv, VerdictFresh
  <2> QED
    BY <2>1, <2>2, <2>3 DEF FreshInv
<1> QED
  BY <1>2, <1>3, <1>4, <1>6

LEMMA InvFlipped ==
  ASSUME Inv, NEW u \in Target, NEW condition \in SUBSET Check, Flipped(u, condition)
  PROVE  Inv'
<1> USE DEF Flipped, Flip, workerVars, Inv, TypeOK, HealthTypeOK
<1>1. DOMAIN targets \subseteq Target
  BY TargetsTyped
<1>2. /\ lately' \in [Target -> SUBSET SUBSET Check]
      /\ \A v \in Target : lately[v] \subseteq lately'[v]
  OBVIOUS
<1>3. TypeOK'
  BY <1>2, HealthAssumption
<1>4. TrackedExactly'
  BY DEF TrackedExactly
<1>5. CycleInv'
  BY <1>2 DEF CycleInv
<1>6. FreshInv'
  <2>1. ProbesRecent'
    BY <1>2 DEF ProbesRecent, FreshInv, Probe
  <2>2. ASSUME NEW v \in DOMAIN targets, settled[v] > 0 PROVE InCycle(v)'
    <3>1. InCycle(v)
      BY <2>2 DEF FreshInv
    <3> QED
      BY <1>1, <1>2, <3>1 DEF InCycle
  <2>3. VerdictFresh'
    BY <1>1, <1>2 DEF VerdictFresh, FreshInv
  <2> QED
    BY <2>1, <2>2, <2>3 DEF FreshInv
<1> QED
  BY <1>3, <1>4, <1>5, <1>6

LEMMA InvNext == Inv /\ [Next]_auditVars => Inv'
<1> SUFFICES ASSUME Inv, [Next]_auditVars PROVE Inv'
  OBVIOUS
<1>1. CASE CycleBegins
  BY <1>1, InvCycleBegins
<1>2. CASE Probed
  BY <1>2, InvStartProbe, InvRecordProbe DEF Probed
<1>3. ASSUME NEW next \in Configs, Synced(next) PROVE Inv'
  BY <1>3, InvSynced
<1>4. ASSUME NEW u \in Target, NEW condition \in SUBSET Check, Flipped(u, condition) PROVE Inv'
  BY <1>4, InvFlipped
<1>5. CASE UNCHANGED auditVars
  BY <1>5 DEF auditVars, healthVars, workerVars, worldVars, recordVars, Inv, TypeOK, HealthTypeOK,
              TrackedExactly, CycleInv, FreshInv, ProbesRecent, InCycle, VerdictFresh
<1> QED
  BY <1>1, <1>2, <1>3, <1>4, <1>5 DEF Next

\* The types, and with them the bound on probes at a time (probeAll).
THEOREM HealthTypeCorrect == Spec => []TypeOK
<1>1. Inv => TypeOK
  BY DEF Inv
<1> QED
  BY <1>1, InvInit, InvNext, PTL DEF Spec

\* A late result never brings back a target that Sync removed (recordProbe).
THEOREM NothingComesBack == Spec => []TrackedExactly
<1>1. Inv => TrackedExactly
  BY DEF Inv
<1> QED
  BY <1>1, InvInit, InvNext, PTL DEF Spec

\* Verdicts are never older than the beginning of the last finished cycle
\* (probeAll waits for its probes; Sync and recordProbe agree on what counts).
THEOREM VerdictsStayFresh == Spec => []VerdictFresh
<1>1. Inv => VerdictFresh
  BY DEF Inv, FreshInv
<1> QED
  BY <1>1, InvInit, InvNext, PTL DEF Spec
=============================================================================
