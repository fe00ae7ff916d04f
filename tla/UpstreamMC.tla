----------------------------- MODULE UpstreamMC -----------------------------
(* A small instance of Upstream for TLC. *)
EXTENDS Upstream

\* Two upstreams, one of which is not monitored; nor is the other at times.
TwoTargets == {"a", "b"}
OneMonitored == {[u \in {"b"} |-> "http"], <<>>}

\* A request that may be repeated, and one with a body, of one route.
Two == {"get", "body"}
TwoPool == [r \in Two |-> <<"a", "b">>]
OneRoute == [r \in Two |-> "route"]
=============================================================================
