---------------------------- MODULE HealthAudit -----------------------------
(***************************************************************************)
(* The health worker with a record of how the upstreams were while it      *)
(* probed them: what its verdicts are judged by. The record changes        *)
(* nothing of the worker.                                                  *)
(***************************************************************************)
EXTENDS HealthWorker

VARIABLES
  earlier,  \* the conditions of each upstream in the cycle before the last ...
  lately,   \* ... and since the last one began
  settled   \* cycles begun since a target was configured, up to 2

recordVars == <<earlier, lately, settled>>
auditVars == <<healthVars, recordVars>>

TypeOK ==
  /\ HealthTypeOK
  /\ earlier \in [Target -> SUBSET SUBSET Check] /\ lately \in [Target -> SUBSET SUBSET Check]
  /\ settled \in [Target -> 0 .. 2]

Init ==
  /\ HealthInit
  /\ earlier = [u \in Target |-> {}]
  /\ lately = [u \in Target |-> {up[u]}]
  /\ settled = [u \in Target |-> 0]

CycleBegins ==
  /\ BeginCycle
  /\ earlier' = lately
  /\ lately' = [u \in Target |-> {up[u]}]
  /\ settled' = [u \in Target |->
       IF u \in DOMAIN targets /\ settled[u] < 2 THEN settled[u] + 1 ELSE settled[u]]

Probed ==
  /\ (\E job \in jobs : StartProbe(job)) \/ \E probe \in probes : RecordProbe(probe)
  /\ UNCHANGED recordVars

Synced(next) ==
  /\ Sync(next)
  /\ settled' = [u \in Target |->
       IF u \in DOMAIN targets \cap DOMAIN next /\ targets[u] = next[u] THEN settled[u] ELSE 0]
  /\ UNCHANGED <<earlier, lately>>

Flipped(u, condition) ==
  /\ Flip(u, condition)
  /\ lately' = [lately EXCEPT ![u] = @ \cup {condition}]
  /\ UNCHANGED <<earlier, settled>>

Next ==
  \/ CycleBegins \/ Probed
  \/ \E next \in Configs : Synced(next)
  \/ \E u \in Target, condition \in SUBSET Check : Flipped(u, condition)

\* The probe loop goes on; every probe ends, at the latest by its timeout.
Spec == Init /\ [][Next]_auditVars /\ WF_auditVars(CycleBegins \/ Probed)
-----------------------------------------------------------------------------
\* The verdict on a target that was configured before the last finished cycle
\* began is how the upstream was at some moment since then, whatever results
\* of older probes were still on their way.
VerdictFresh ==
  \A u \in DOMAIN targets :
    settled[u] = 2 =>
      /\ checked[u]
      /\ \E condition \in earlier[u] \cup lately[u] : healthy[u] = (targets[u] \in condition)
=============================================================================
