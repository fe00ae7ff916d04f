------------------------------ MODULE HealthMC ------------------------------
(* A small instance of HealthAudit for TLC. *)
EXTENDS HealthAudit

\* Two upstreams. A configuration drops one, adds it, or checks it otherwise.
TwoTargets == {"a", "b"}
AllConfigs ==
  {[u \in {"a", "b"} |-> "http"], [u \in {"b"} |-> "http"],
   [u \in {"a", "b"} |-> IF u = "a" THEN "tcp" ELSE "http"]}
=============================================================================
