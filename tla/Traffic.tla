------------------------------ MODULE Traffic -------------------------------
(***************************************************************************)
(* A request on its way through the traffic controls, as the handler of    *)
(* main.go composes them: rate limiter, queue, then the response, which    *)
(* the bandwidth limiter slows down while the request keeps its slot.      *)
(* Error responses are written through the same limiter. The deferred      *)
(* release runs on every way out of the handler.                           *)
(*                                                                         *)
(* The rate limiter shares nothing with the other two, and may answer what *)
(* it likes here; which answers it gives is RateLimiter's subject.         *)
(***************************************************************************)
EXTENDS RequestQueue, BandwidthLimiter

CONSTANTS
  RateLimited, Queued, Throttled,  \* which of the three the configuration enables
  KeyOf,       \* rateLimitKey of each request
  BodySize,    \* bytes of an upstream's response
  ErrorSize    \* and of an error page

ASSUME TrafficAssumption ==
  /\ {RateLimited, Queued, Throttled} \subseteq BOOLEAN
  /\ Writer = Request /\ KeyOf \in [Request -> Key]
  /\ BodySize \in Nat \ {0} /\ ErrorSize \in Nat \ {0}

VARIABLES
  rated,   \* the rate limiter's answer: new, allowed or limited
  reply    \* the response: none, writing or over

trafficVars == <<rated, reply>>
vars == <<queueVars, bandwidthVars, trafficVars>>

Init ==
  /\ QueueInit /\ BandwidthInit
  /\ rated = [r \in Request |-> "new"]
  /\ reply = [r \in Request |-> "none"]

\* The request arrives and asks the rate limiter.
CheckRate(r) ==
  /\ rated[r] = "new"
  /\ \E answer \in {"allowed"} \cup {a \in {"limited"} : RateLimited} :
       rated' = [rated EXCEPT ![r] = answer]
  /\ UNCHANGED <<queueVars, bandwidthVars, reply>>

\* It passes the queue, or tries to.
Enter(r) ==
  /\ Queued /\ rated[r] = "allowed"
  /\ Acquire(r)
  /\ UNCHANGED <<bandwidthVars, trafficVars>>

Admitted(r) == rated[r] = "allowed" /\ (Queued => place[r] = "inside")
Refused(r) == rated[r] = "limited" \/ place[r] = "rejected"

\* The upstream's response, or an error page, is about to be written.
Answer(r) ==
  /\ reply[r] = "none"
  /\ Admitted(r) \/ Refused(r)
  /\ reply' = [reply EXCEPT ![r] = "writing"]
  /\ remaining' = [remaining EXCEPT ![r] = IF Admitted(r) THEN BodySize ELSE ErrorSize]
  /\ UNCHANGED <<queueVars, pipes, pipePruneAge, nap, credit, rated>>

\* The response writer: slowed down, unless the client is found to be gone.
Write(r) ==
  /\ reply[r] = "writing" /\ remaining[r] > 0
  /\ IF Throttled
     THEN \/ \E lag \in 0 .. Lag : Reserve(r, KeyOf[r], lag)
          \/ cancelled[r] /\ Abort(r)
     ELSE remaining' = [remaining EXCEPT ![r] = 0]
          /\ UNCHANGED <<pipes, pipePruneAge, nap, credit>>
  /\ UNCHANGED <<queueVars, trafficVars>>

\* The handler returns.
Finish(r) ==
  /\ reply[r] = "writing" /\ remaining[r] = 0
  /\ reply' = [reply EXCEPT ![r] = "over"]
  /\ IF place[r] = "inside" THEN Release(r) ELSE UNCHANGED queueVars
  /\ UNCHANGED <<bandwidthVars, rated>>

\* The client goes away; the queue and the throttle are who may notice.
Disconnect(r) ==
  /\ Queued \/ Throttled
  /\ reply[r] # "over"
  /\ Cancel(r)
  /\ UNCHANGED <<bandwidthVars, trafficVars>>

Tick ==
  /\ QueueTick /\ BandwidthTick
  /\ UNCHANGED trafficVars

Step(r) == CheckRate(r) \/ Enter(r) \/ Answer(r) \/ Write(r) \/ Finish(r)

Next == Tick \/ \E r \in Request : Step(r) \/ Disconnect(r)

\* Goroutines run, time passes, and an upstream answers or times out. No client
\* has to disconnect.
Fairness == WF_vars(Tick) /\ \A r \in Request : WF_vars(Step(r))

Spec == Init /\ [][Next]_vars /\ Fairness
-----------------------------------------------------------------------------
\* Every request is answered in the end, whatever the others do, and leaves
\* neither a slot nor a place in the queue behind.
EverybodyLeaves ==
  <>[](slots = 0 /\ waiting = 0 /\ \A r \in Request : reply[r] = "over")
=============================================================================
