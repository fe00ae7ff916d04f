------------------------------ MODULE Services ------------------------------
(***************************************************************************)
(* The services the request handler calls: the rate limiter, the           *)
(* classifier processes, who is let through, the response cache, the       *)
(* rules, the routes and the address of the client. Requests are served    *)
(* concurrently, so steps of all of them follow each other in any order.   *)
(* The handler's own order of calls for one request is not assumed here:   *)
(* what holds without it holds with it.                                    *)
(***************************************************************************)
EXTENDS RateLimiter, AIWorker, Access, ResponseCache, RuleEngine, Routing, ClientAddress

vars == <<rateVars, workerVars, accessVars, cacheVars, ruleVars, routes, addressVars>>

ServicesTypeOK ==
  /\ RateTypeOK /\ WorkerTypeOK /\ AccessTypeOK /\ CacheTypeOK
  /\ RulesTypeOK /\ RoutesTypeOK /\ AddressTypeOK

Init ==
  /\ RateInit /\ WorkerInit /\ AccessInit /\ CacheInit
  /\ RulesInit /\ RoutesInit /\ AddressInit

\* Each service locks for itself and calls none of the others.
Rate ==
  /\ RateNext
  /\ UNCHANGED <<workerVars, accessVars, cacheVars, ruleVars, routes, addressVars>>

Classifier ==
  /\ WorkerNext
  /\ UNCHANGED <<rateVars, accessVars, cacheVars, ruleVars, routes, addressVars>>

Admission ==
  /\ AccessNext
  /\ UNCHANGED <<rateVars, workerVars, cacheVars, ruleVars, routes, addressVars>>

Cache ==
  /\ CacheNext
  /\ UNCHANGED <<rateVars, workerVars, accessVars, ruleVars, routes, addressVars>>

Rules ==
  /\ RulesNext
  /\ UNCHANGED <<rateVars, workerVars, accessVars, cacheVars, routes, addressVars>>

Routes ==
  /\ RoutesNext
  /\ UNCHANGED <<rateVars, workerVars, accessVars, cacheVars, ruleVars, addressVars>>

Addresses ==
  /\ AddressNext
  /\ UNCHANGED <<rateVars, workerVars, accessVars, cacheVars, ruleVars, routes>>

Next == Rate \/ Classifier \/ Admission \/ Cache \/ Rules \/ Routes \/ Addresses

Spec == Init /\ [][Next]_vars /\ WorkerFairness
=============================================================================
