------------------------------ MODULE Upstream ------------------------------
(***************************************************************************)
(* balancer.ProxyHandler and balancer.Balancer on top of the health        *)
(* worker: a request picks a healthy target of its route's pool, is sent   *)
(* there by net/http's ReverseProxy, and if that fails and the request may *)
(* be repeated, it picks another one.                                      *)
(*                                                                         *)
(* The ReverseProxy writes into a streamWriter, which passes the response  *)
(* on to the client unless it is a 5xx: that one is held back, so that it  *)
(* can still be dropped. An upstream's behaviour is left open: it may fail *)
(* to answer, send informational responses (1xx) first, answer well or     *)
(* with an error, and break off in the body.                               *)
(***************************************************************************)
EXTENDS HealthWorker, Sequences, SequencesExt

CONSTANTS
  Request,
  Route, RouteOf,   \* the route a request resolved to ...
  Pool,             \* ... with the URLs of its targets
  SafeMethod,       \* requests with a method that does not change anything
  WithBody,         \* requests with a body
  Hints,            \* do upstreams send informational responses?
  Metered           \* are metrics enabled?

ASSUME UpstreamAssumption ==
  /\ SafeMethod \subseteq Request /\ WithBody \subseteq Request
  /\ RouteOf \in [Request -> Route]
  /\ Pool \in [Request -> Seq(Target) \ {<<>>}]
  /\ {Hints, Metered} \subseteq BOOLEAN
  /\ {"nobody", "page"} \cap Target = {}

VARIABLES
  rr,       \* Balancer.rr
  serve,    \* how far Serve has come
  tried,    \* targets it has picked
  rest,     \* the part of the pool Pick has not looked up yet
  found,    \* the candidates it found healthy
  at,       \* the target of this attempt
  said,     \* what that upstream answered
  wrote,    \* streamWriter.wroteHdr
  retry,    \* streamWriter.retry
  large,    \* an error was too large to be held back
  hinted,   \* an informational response reached the client
  status,   \* the status the client got
  from,     \* where what the client got comes from
  dead      \* history: targets that counted as unhealthy while the request was served

attemptVars == <<at, said, wrote, retry, large>>
clientVars == <<hinted, status, from>>
pickVars == <<rest, found>>
serveVars == <<rr, serve, tried, pickVars, attemptVars, clientVars>>
vars == <<healthVars, serveVars, dead>>

Status == {"none", "ok", "error"}

ServeTypeOK ==
  /\ rr \in [Route -> Nat]
  /\ serve \in [Request -> {"new", "looking", "trying", "failed", "done"}]
  /\ tried \in [Request -> SUBSET Target]
  /\ rest \in [Request -> Seq(Target)] /\ found \in [Request -> Seq(Target)]
  /\ at \in [Request -> Target \cup {"nobody"}]
  /\ said \in [Request -> Status] /\ status \in [Request -> Status]
  /\ {wrote, retry, large, hinted} \subseteq [Request -> BOOLEAN]
  /\ from \in [Request -> SUBSET (Target \cup {"page"})]
  /\ dead \in [Request -> SUBSET Target]


Init ==
  /\ HealthInit
  /\ rr = [route \in Route |-> 0]
  /\ serve = [r \in Request |-> "new"]
  /\ tried = [r \in Request |-> {}]
  /\ rest = [r \in Request |-> <<>>] /\ found = [r \in Request |-> <<>>]
  /\ at = [r \in Request |-> "nobody"]
  /\ said = [r \in Request |-> "none"] /\ status = [r \in Request |-> "none"]
  /\ wrote = [r \in Request |-> FALSE] /\ retry = [r \in Request |-> FALSE]
  /\ large = [r \in Request |-> FALSE] /\ hinted = [r \in Request |-> FALSE]
  /\ from = [r \in Request |-> {}]
  /\ dead = [r \in Request |-> {}]

Unhealthy == {u \in Target : ~IsHealthy(u)}

Goes(r, to) == serve' = [serve EXCEPT ![r] = to]

\* Mutant: a safe method is enough, whatever the body.
RepeatableByMethod(r) == r \in SafeMethod

\* isFailoverSafeMethod and not requestHasBody.
Repeatable(r) == r \in SafeMethod /\ r \notin WithBody

\* What the client gets when a header is written to it. With metrics, their
\* writer keeps the first status it sees, and drops every later one.
Received(r, code, source) ==
  /\ status' = [status EXCEPT ![r] =
       IF @ # "none" THEN @ ELSE IF Metered /\ hinted[r] THEN "ok" ELSE code]
  /\ from' = [from EXCEPT ![r] = @ \cup {source}]
  /\ UNCHANGED hinted

\* The agent's own error page.
AnswerPage(r) ==
  /\ Goes(r, "done")
  /\ Received(r, "error", "page")

Candidates(r) == ToSet(Pool[r]) \ tried[r]

\* Mutant: the last target is never tried.
MayTryButLast(r) == Cardinality(tried[r]) < Len(Pool[r]) - 1

\* The condition of Serve's loop.
MayTry(r) == Cardinality(tried[r]) < Len(Pool[r]) /\ Candidates(r) # {}

\* The next round of Serve's loop, with the targets that were not tried.
BeginPick(r) ==
  /\ serve[r] \in {"new", "failed"} /\ MayTry(r)
  /\ Goes(r, "looking")
  /\ rest' = [rest EXCEPT ![r] = Pool[r]]
  /\ found' = [found EXCEPT ![r] = <<>>]
  /\ dead' = IF serve[r] = "new" THEN [dead EXCEPT ![r] = Unhealthy] ELSE dead
  /\ UNCHANGED <<rr, tried, attemptVars, clientVars>>

\* Every target was tried.
Exhausted(r) ==
  /\ serve[r] \in {"new", "failed"} /\ ~MayTry(r)
  /\ AnswerPage(r)
  /\ UNCHANGED <<rr, tried, pickVars, attemptVars, dead>>

\* HealthyTargets looks up one candidate after the other.
LookUp(r) ==
  /\ serve[r] = "looking" /\ rest[r] # <<>>
  /\ rest' = [rest EXCEPT ![r] = Tail(@)]
  /\ LET u == Head(rest[r]) IN
       found' = [found EXCEPT ![r] = IF u \in Candidates(r) /\ IsHealthy(u) THEN Append(@, u) ELSE @]
  /\ UNCHANGED <<rr, serve, tried, attemptVars, clientVars, dead>>

\* Mutant: without a healthy target the loop goes on.
NoneHealthyWaits(r) ==
  /\ serve[r] = "looking" /\ rest[r] = <<>> /\ found[r] = <<>>
  /\ Goes(r, "failed")
  /\ UNCHANGED <<rr, tried, pickVars, attemptVars, clientVars, dead>>

\* ErrNoHealthyTargets
NoneHealthy(r) ==
  /\ serve[r] = "looking" /\ rest[r] = <<>> /\ found[r] = <<>>
  /\ AnswerPage(r)
  /\ UNCHANGED <<rr, tried, pickVars, attemptVars, dead>>

\* Pick takes the next number of the route, and the attempt begins with a new
\* streamWriter.
Choose(r) ==
  /\ serve[r] = "looking" /\ rest[r] = <<>> /\ found[r] # <<>>
  /\ LET route == RouteOf[r]
         chosen == found[r][(rr[route] % Len(found[r])) + 1]
     IN /\ rr' = [rr EXCEPT ![route] = @ + 1]
        /\ at' = [at EXCEPT ![r] = chosen]
        /\ tried' = [tried EXCEPT ![r] = @ \cup {chosen}]
  /\ Goes(r, "trying")
  /\ said' = [said EXCEPT ![r] = "none"]
  /\ wrote' = [wrote EXCEPT ![r] = FALSE]
  /\ retry' = [retry EXCEPT ![r] = FALSE]
  /\ found' = [found EXCEPT ![r] = <<>>]
  /\ UNCHANGED <<rest, large, clientVars, dead>>

\* The attempt ended with an error of the transport: no connection, no header
\* in time, or the client is gone.
FailAttempt(r) ==
  /\ serve[r] = "trying" /\ said[r] = "none"
  /\ IF Repeatable(r) THEN Goes(r, "failed") /\ UNCHANGED clientVars ELSE AnswerPage(r)
  /\ UNCHANGED <<rr, tried, pickVars, attemptVars, dead>>

\* An informational response, which WriteHeader passes on like any other below
\* 500 and takes for the response's header.
Hint(r) ==
  /\ Hints
  /\ serve[r] = "trying" /\ said[r] = "none" /\ ~wrote[r]
  /\ wrote' = [wrote EXCEPT ![r] = TRUE]
  /\ hinted' = [hinted EXCEPT ![r] = TRUE]
  /\ UNCHANGED <<rr, serve, tried, pickVars, at, said, retry, large, status, from, dead>>

\* Mutant: every response is passed on at once.
HeldBackNever(r, code) == FALSE

\* WriteHeader holds back an error, for a safe or an unsafe request alike.
HeldBack(r, code) == code = "error" /\ ~wrote[r]

\* The upstream's response begins.
Respond(r, code) ==
  /\ serve[r] = "trying" /\ said[r] = "none"
  /\ said' = [said EXCEPT ![r] = code]
  /\ wrote' = [wrote EXCEPT ![r] = TRUE]
  /\ retry' = [retry EXCEPT ![r] = HeldBack(r, code)]
  /\ IF wrote[r] \/ HeldBack(r, code) THEN UNCHANGED clientVars ELSE Received(r, code, at[r])
  /\ UNCHANGED <<rr, serve, tried, pickVars, at, large, dead>>

\* Write gives up holding back an error that is too large.
Overflow(r) ==
  /\ serve[r] = "trying" /\ retry[r]
  /\ retry' = [retry EXCEPT ![r] = FALSE]
  /\ large' = [large EXCEPT ![r] = TRUE]
  /\ Received(r, "error", at[r])
  /\ UNCHANGED <<rr, serve, tried, pickVars, at, said, wrote, dead>>

\* Mutant: what was held back is passed on without its status.
EndBodyWithoutStatus(r) ==
  /\ serve[r] = "trying" /\ said[r] # "none"
  /\ IF retry[r] /\ Repeatable(r)
     THEN Goes(r, "failed") /\ UNCHANGED clientVars
     ELSE /\ Goes(r, "done")
          /\ Received(r, "ok", at[r])
  /\ UNCHANGED <<rr, tried, pickVars, attemptVars, dead>>

\* The body is complete. Where no header was written, net/http writes 200.
EndBody(r) ==
  /\ serve[r] = "trying" /\ said[r] # "none"
  /\ IF retry[r] /\ Repeatable(r)
     THEN Goes(r, "failed") /\ UNCHANGED clientVars
     ELSE /\ Goes(r, "done")
          /\ Received(r, IF retry[r] THEN "error" ELSE "ok", at[r])
  /\ UNCHANGED <<rr, tried, pickVars, attemptVars, dead>>

\* The body breaks off: the ReverseProxy panics, and the server closes the
\* connection. A part of the body may have been passed on.
BreakBody(r) ==
  /\ serve[r] = "trying" /\ said[r] # "none"
  /\ Goes(r, "done")
  /\ (~retry[r] /\ Received(r, "ok", at[r])) \/ UNCHANGED clientVars
  /\ UNCHANGED <<rr, tried, pickVars, attemptVars, dead>>

Attempt(r) ==
  \/ FailAttempt(r) \/ Hint(r) \/ (\E code \in {"ok", "error"} : Respond(r, code))
  \/ Overflow(r) \/ EndBody(r) \/ BreakBody(r)

Serve(r) == BeginPick(r) \/ Exhausted(r) \/ LookUp(r) \/ NoneHealthy(r) \/ Choose(r) \/ Attempt(r)

\* The health worker, the applier's Sync and the upstreams go on.
Observed ==
  /\ dead' = [r \in Request |->
       IF serve[r] \in {"new", "done"} THEN dead[r] ELSE dead[r] \cup Unhealthy']
  /\ UNCHANGED serveVars
Surroundings == HealthNext /\ Observed

Next == Surroundings \/ \E r \in Request : Serve(r) /\ UNCHANGED healthVars

\* The probe loop goes on, and no upstream makes a request wait for ever.
Fairness ==
  /\ WF_vars(Probing /\ Observed)
  /\ \A r \in Request : WF_vars(Serve(r) /\ UNCHANGED healthVars)

Spec == Init /\ [][Next]_vars /\ Fairness
-----------------------------------------------------------------------------
\* Requests whose repetition changes nothing.
Harmless == SafeMethod \ WithBody

Promise ==
  INSTANCE Exchange WITH sent <- tried, answer <- from

\* Whatever the upstreams do, proxying keeps its promise: one answer at most,
\* from the upstream asked last, and unsafe requests are sent once.
ExchangeSpec == Promise!Spec

\* The status the client got is the one its answer's upstream sent, unless an
\* informational response came first.
StatusTold ==
  \A r \in Request :
    from[r] = {at[r]} /\ ~hinted[r] => status[r] = said[r]

\* The agent answers for itself only after it tried every target of the pool,
\* or the health worker took the others for dead at some time meanwhile.
LastResort ==
  \A r \in Harmless :
    "page" \in from[r] => ToSet(Pool[r]) \subseteq tried[r] \cup dead[r]

\* A request that may be repeated ends with an upstream's error only if that is
\* too large to be held back.
FailsOver ==
  \A r \in Harmless :
    said[r] = "error" /\ from[r] = {at[r]} => large[r]

\* The same where upstreams send no informational responses before.
FailsOverUnhinted ==
  \A r \in Harmless :
    said[r] = "error" /\ from[r] = {at[r]} => large[r] \/ hinted[r]

\* Every request is over in the end: no round of failover goes on for ever, and
\* no target is asked again and again.
EverybodyServed == <>(\A r \in Request : serve[r] = "done")
=============================================================================
