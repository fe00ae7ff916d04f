--------------------------- MODULE ConfigStreamMC ---------------------------
(* Small instances of ConfigStream for TLC.                                *)
EXTENDS ConfigStream

MCKey == {"app", "api", "bad pattern"}
MCTarget == {"t1", "t2", "bad url"}
MCInvalidTarget == {"bad url"}
MCUnloadableKey == {"bad pattern"}
MCRule == {"r1", "seed", "bad rule"}
MCInvalidRule == {"bad rule"}
MCAgentSettings == {"zero", "a1"}

Routes(keys, target) == [k \in MCKey |-> IF k \in keys THEN target ELSE "none"]
NoLocalRoutes == Routes({}, "none")
AppLocally == Routes({"app"}, "t1")
SeededRoutes == Routes({"app"}, "t2")
SeededRules == {"seed"}

Snap(keys, target, rules) ==
  [routesSet |-> TRUE, routes |-> Routes(keys, target), rulesSet |-> TRUE, rules |-> rules,
   zeroTrust |-> "off", agent |-> "a1"]

\* A full snapshot, one with every rule removed, and one that says nothing of
\* routes and rules.
OneRoute == Snap({"api"}, "t2", {"r1"})
NoRules == [Snap({"app"}, "t2", {}) EXCEPT !.zeroTrust = "unset", !.agent = "absent"]
OnlyZeroTrust == [Snap({}, "none", {}) EXCEPT !.routesSet = FALSE, !.rulesSet = FALSE]
BadUrl == Snap({"api"}, "bad url", {"r1"})
BadRule == Snap({"app", "api"}, "t2", {"bad rule"})
BadPattern == Snap({"bad pattern"}, "t2", {})

GoodPayloads == {OneRoute, NoRules, OnlyZeroTrust}
RejectedPayloads == {OneRoute, NoRules, BadUrl, BadPattern}
FaultPayloads == {OneRoute, BadRule}
InvalidPayloads == {OneRoute, BadUrl}
PatternPayloads == {OneRoute, BadPattern}
NoAgentPayloads == {NoRules, [OneRoute EXCEPT !.agent = "absent"]}

SlowClock == {1, 3}
NoFaults == {}
AllFaults == {"db", "disk"}
=============================================================================
