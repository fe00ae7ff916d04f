--------------------------- MODULE UpstreamProofs ---------------------------
(***************************************************************************)
(* Proofs about proxying with failover, for any number of requests, pools, *)
(* targets and health checks.                                              *)
(***************************************************************************)
EXTENDS Upstream, FunctionTheorems, FiniteSetTheorems, TLAPS

\* Between two attempts nothing reached the client, and only a request that may
\* be repeated gets here a second time.
BetweenAttempts(r) ==
  serve[r] \in {"new", "looking", "failed"} =>
    /\ from[r] = {}
    /\ serve[r] = "new" => tried[r] = {}
    /\ tried[r] # {} => r \in Harmless

\* What Pick found are targets of the pool that were not tried. What it did not
\* find was tried, is still to be looked up, or was dead at some time.
Lookups(r) ==
  /\ tried[r] \subseteq ToSet(Pool[r])
  /\ serve[r] = "looking" =>
       /\ ToSet(found[r]) \subseteq Candidates(r)
       /\ ToSet(Pool[r]) \subseteq tried[r] \cup ToSet(found[r]) \cup ToSet(rest[r]) \cup dead[r]

\* What the streamWriter did with the response of this attempt.
InAttempt(r) ==
  serve[r] = "trying" =>
    /\ at[r] \in tried[r]
    /\ from[r] \in {{}, {at[r]}}
    /\ retry[r] => from[r] = {} /\ said[r] = "error"
    /\ said[r] = "none" => from[r] = {} /\ (wrote[r] => hinted[r])
    /\ said[r] # "none" /\ ~retry[r] /\ ~hinted[r] => from[r] = {at[r]}
    /\ said[r] = "error" /\ ~retry[r] => large[r] \/ hinted[r]

\* What the client got, and whether it had to be so.
AtClient(r) ==
  /\ status[r] = "none" <=> from[r] = {}
  /\ from[r] = {at[r]} /\ ~hinted[r] => status[r] = said[r]
  /\ r \in Harmless /\ said[r] = "error" /\ from[r] = {at[r]} => large[r] \/ hinted[r]
  /\ r \in Harmless /\ "page" \in from[r] => ToSet(Pool[r]) \subseteq tried[r] \cup dead[r]

\* While a request is served, the targets that are dead now were dead meanwhile.
Watched(r) == serve[r] \notin {"new", "done"} => Unhealthy \subseteq dead[r]

RequestInv(r) ==
  BetweenAttempts(r) /\ Lookups(r) /\ InAttempt(r) /\ AtClient(r) /\ Watched(r)

Inv == ServeTypeOK /\ \A r \in Request : RequestInv(r)

-----------------------------------------------------------------------------
\* Sequences and the sets of their elements.

LEMMA ToSetEmpty == ToSet(<<>>) = {}
BY DEF ToSet

LEMMA ToSetOf ==
  ASSUME NEW S, NEW s \in Seq(S)
  PROVE  ToSet(s) = {s[i] : i \in 1 .. Len(s)} /\ ToSet(s) \subseteq S
BY DEF ToSet

LEMMA ToSetAppend ==
  ASSUME NEW S, NEW s \in Seq(S), NEW x \in S
  PROVE  ToSet(Append(s, x)) = ToSet(s) \cup {x}
<1>1. Append(s, x) \in Seq(S) /\ Len(Append(s, x)) = Len(s) + 1 /\ Len(s) \in Nat
  OBVIOUS
<1>2. \A i \in 1 .. Len(s) : Append(s, x)[i] = s[i]
  OBVIOUS
<1>3. Append(s, x)[Len(s) + 1] = x
  OBVIOUS
<1> DEFINE t == Append(s, x)
<1>4. ToSet(t) = {t[i] : i \in 1 .. Len(s) + 1} /\ ToSet(s) = {s[i] : i \in 1 .. Len(s)}
  BY <1>1, ToSetOf
<1> HIDE DEF t
<1>5. \A i \in 1 .. Len(s) + 1 : i \in 1 .. Len(s) \/ i = Len(s) + 1
  BY <1>1
<1>6. \A i \in 1 .. Len(s) : i \in 1 .. Len(s) + 1
  BY <1>1
<1>7. Len(s) + 1 \in 1 .. Len(s) + 1
  BY <1>1
<1>8. \A i \in 1 .. Len(s) : t[i] = s[i]
  BY <1>2 DEF t
<1>9. t[Len(s) + 1] = x
  BY <1>3 DEF t
<1>10. ToSet(t) = ToSet(s) \cup {x}
  BY <1>4, <1>5, <1>6, <1>7, <1>8, <1>9
<1> QED
  BY <1>10 DEF t

LEMMA ToSetHeadTail ==
  ASSUME NEW S, NEW s \in Seq(S), s # <<>>
  PROVE  ToSet(s) = {Head(s)} \cup ToSet(Tail(s)) /\ Head(s) \in S /\ Tail(s) \in Seq(S)
<1>1. Tail(s) \in Seq(S) /\ Len(Tail(s)) = Len(s) - 1 /\ Len(s) \in Nat \ {0} /\ Head(s) = s[1]
  OBVIOUS
<1>2. \A i \in 1 .. Len(s) - 1 : Tail(s)[i] = s[i + 1]
  OBVIOUS
<1>3. ToSet(s) = {s[i] : i \in 1 .. Len(s)} /\ ToSet(Tail(s)) = {Tail(s)[i] : i \in 1 .. Len(s) - 1}
  BY <1>1, ToSetOf
<1>4. \A i \in 2 .. Len(s) : i - 1 \in 1 .. Len(s) - 1 /\ s[i] = Tail(s)[i - 1]
  BY <1>1, <1>2
<1>5. \A i \in 1 .. Len(s) : i = 1 \/ i \in 2 .. Len(s)
  BY <1>1
<1>6. \A i \in 1 .. Len(s) - 1 : i + 1 \in 1 .. Len(s)
  BY <1>1
<1>7. 1 \in 1 .. Len(s) /\ Head(s) \in S
  BY <1>1
<1>8. ASSUME NEW x \in ToSet(s) PROVE x \in {Head(s)} \cup ToSet(Tail(s))
  <2>1. PICK i \in 1 .. Len(s) : x = s[i]
    BY <1>3
  <2> QED
    BY <1>1, <1>3, <1>4, <1>5, <2>1
<1>9. ASSUME NEW x \in {Head(s)} \cup ToSet(Tail(s)) PROVE x \in ToSet(s)
  BY <1>1, <1>2, <1>3, <1>6, <1>7
<1> QED
  BY <1>1, <1>7, <1>8, <1>9

\* A sequence has no more elements than positions.
LEMMA ToSetSize ==
  ASSUME NEW S, NEW s \in Seq(S)
  PROVE  IsFiniteSet(ToSet(s)) /\ Cardinality(ToSet(s)) <= Len(s)
<1> DEFINE f == [i \in 1 .. Len(s) |-> s[i]]
<1>1. f \in Surjection(1 .. Len(s), ToSet(s))
  BY ToSetOf DEF Surjection
<1>2. IsFiniteSet(1 .. Len(s)) /\ Cardinality(1 .. Len(s)) = Len(s)
  BY FS_Interval, Len(s) \in Nat
<1> HIDE DEF f
<1>3. /\ IsFiniteSet(ToSet(s))
      /\ Cardinality(ToSet(s)) <= Cardinality(1 .. Len(s))
  BY <1>1, <1>2, FS_Surjection
<1> QED
  BY <1>2, <1>3

\* Serve stops when nothing is left, even if the pool names a target twice.
LEMMA StopsAtTheEnd ==
  ASSUME NEW r \in Request, tried[r] \subseteq ToSet(Pool[r]), ~MayTry(r)
  PROVE  ToSet(Pool[r]) \subseteq tried[r]
<1>1. Pool[r] \in Seq(Target)
  BY UpstreamAssumption
<1>2. IsFiniteSet(ToSet(Pool[r])) /\ Cardinality(ToSet(Pool[r])) <= Len(Pool[r])
  BY <1>1, ToSetSize
<1>3. CASE Candidates(r) = {}
  BY <1>3 DEF Candidates
<1>4. CASE ~(Cardinality(tried[r]) < Len(Pool[r]))
  <2>1. /\ IsFiniteSet(tried[r])
        /\ Cardinality(tried[r]) <= Cardinality(ToSet(Pool[r]))
        /\ Cardinality(ToSet(Pool[r])) = Cardinality(tried[r]) => ToSet(Pool[r]) = tried[r]
    BY <1>2, FS_Subset
  <2>2. /\ Cardinality(tried[r]) \in Nat /\ Cardinality(ToSet(Pool[r])) \in Nat
        /\ Len(Pool[r]) \in Nat
    BY <1>1, <1>2, <2>1, FS_CardinalityType
  <2> QED
    BY <1>2, <1>4, <2>1, <2>2
<1> QED
  BY <1>3, <1>4 DEF MayTry
-----------------------------------------------------------------------------
\* The types of what Serve keeps.

LEMMA PoolType ==
  ASSUME NEW r \in Request
  PROVE  Pool[r] \in Seq(Target) /\ ToSet(Pool[r]) \subseteq Target /\ RouteOf[r] \in Route
BY UpstreamAssumption, ToSetOf

LEMMA ReceivedTyped ==
  ASSUME ServeTypeOK, NEW r \in Request, NEW code \in Status,
         NEW source \in Target \cup {"page"}, Received(r, code, source)
  PROVE  /\ status' \in [Request -> Status] /\ hinted' \in [Request -> BOOLEAN]
         /\ from' \in [Request -> SUBSET (Target \cup {"page"})]
BY DEF Received, ServeTypeOK, Status

\* Round robin stays inside the list it picks from.
LEMMA Chosen ==
  ASSUME ServeTypeOK, NEW r \in Request, found[r] # <<>>
  PROVE  found[r][(rr[RouteOf[r]] % Len(found[r])) + 1] \in ToSet(found[r])
<1>1. found[r] \in Seq(Target) /\ Len(found[r]) \in Nat \ {0} /\ rr[RouteOf[r]] \in Nat
  BY PoolType DEF ServeTypeOK
<1> DEFINE n == Len(found[r])
           k == rr[RouteOf[r]]
<1>2. n \in Nat \ {0} /\ k \in Nat
  BY <1>1
<1> HIDE DEF n, k
<1>3. (k % n) \in 0 .. n - 1
  BY <1>2
<1>4. (k % n) + 1 \in 1 .. n
  BY <1>2, <1>3
<1> QED
  BY <1>1, <1>4, ToSetOf DEF n, k

Untouched(q) ==
  /\ serve'[q] = serve[q] /\ tried'[q] = tried[q] /\ rest'[q] = rest[q]
  /\ found'[q] = found[q] /\ at'[q] = at[q] /\ said'[q] = said[q]
  /\ wrote'[q] = wrote[q] /\ retry'[q] = retry[q] /\ large'[q] = large[q]
  /\ hinted'[q] = hinted[q] /\ status'[q] = status[q] /\ from'[q] = from[q]
  /\ dead'[q] = dead[q]

\* What one request's step leaves alone: the other requests.
LEMMA OthersUntouched ==
  ASSUME ServeTypeOK, NEW r \in Request, Serve(r), NEW q \in Request, q # r
  PROVE  Untouched(q)
<1> USE DEF Untouched, ServeTypeOK, Goes, attemptVars, clientVars, pickVars
<1>1. CASE BeginPick(r)
  BY <1>1 DEF BeginPick
<1>2. CASE Exhausted(r)
  BY <1>2 DEF Exhausted, AnswerPage, Received
<1>3. CASE LookUp(r)
  BY <1>3 DEF LookUp
<1>4. CASE NoneHealthy(r)
  BY <1>4 DEF NoneHealthy, AnswerPage, Received
<1>5. CASE Choose(r)
  BY <1>5 DEF Choose
<1>6. CASE FailAttempt(r)
  BY <1>6 DEF FailAttempt, AnswerPage, Received
<1>7. CASE Hint(r)
  BY <1>7 DEF Hint
<1>8. ASSUME NEW code \in {"ok", "error"}, Respond(r, code)
      PROVE  Untouched(q)
  BY <1>8 DEF Respond, Received
<1>9. CASE Overflow(r)
  BY <1>9 DEF Overflow, Received
<1>10. CASE EndBody(r)
  BY <1>10 DEF EndBody, Received
<1>11. CASE BreakBody(r)
  BY <1>11 DEF BreakBody, Received
<1> QED
  BY <1>1, <1>2, <1>3, <1>4, <1>5, <1>6, <1>7, <1>8, <1>9, <1>10, <1>11 DEF Serve, Attempt
-----------------------------------------------------------------------------
\* Every step of a request keeps its types.

LEMMA TypesKept ==
  ASSUME Inv, NEW r \in Request, Serve(r)
  PROVE  ServeTypeOK'
<1>0. ServeTypeOK /\ (serve[r] = "trying" => at[r] \in Target)
  BY DEF Inv, RequestInv, InAttempt, ServeTypeOK
<1> USE DEF ServeTypeOK, Goes, attemptVars, clientVars, pickVars, Status
<1>1. CASE BeginPick(r)
  <2>1. Unhealthy \subseteq Target
    BY DEF Unhealthy
  <2> QED
    BY <1>0, <1>1, <2>1, PoolType DEF BeginPick
<1>2. CASE Exhausted(r)
  BY <1>0, <1>2, ReceivedTyped DEF Exhausted, AnswerPage
<1>3. CASE LookUp(r)
  BY <1>0, <1>3, ToSetHeadTail DEF LookUp
<1>4. CASE NoneHealthy(r)
  BY <1>0, <1>4, ReceivedTyped DEF NoneHealthy, AnswerPage
<1>5. CASE Choose(r)
  <2> DEFINE chosen == found[r][(rr[RouteOf[r]] % Len(found[r])) + 1]
  <2>1. chosen \in Target
    BY <1>0, <1>5, Chosen, ToSetOf DEF Choose
  <2>2. rr' \in [Route -> Nat]
    BY <1>0, <1>5, PoolType DEF Choose
  <2> HIDE DEF chosen
  <2>3. /\ at' = [at EXCEPT ![r] = chosen]
        /\ tried' = [tried EXCEPT ![r] = @ \cup {chosen}]
    BY <1>0, <1>5 DEF Choose, chosen
  <2>4. at' \in [Request -> Target \cup {"nobody"}] /\ tried' \in [Request -> SUBSET Target]
    BY <1>0, <2>1, <2>3
  <2>5. /\ serve' \in [Request -> {"new", "looking", "trying", "failed", "done"}]
        /\ rest' = rest /\ found' \in [Request -> Seq(Target)]
        /\ said' \in [Request -> Status] /\ large' = large
        /\ wrote' \in [Request -> BOOLEAN] /\ retry' \in [Request -> BOOLEAN]
        /\ hinted' = hinted /\ status' = status /\ from' = from /\ dead' = dead
    BY <1>0, <1>5 DEF Choose
  <2> QED
    BY <1>0, <2>2, <2>4, <2>5
<1>6. CASE FailAttempt(r)
  BY <1>0, <1>6, ReceivedTyped DEF FailAttempt, AnswerPage
<1>7. CASE Hint(r)
  BY <1>0, <1>7 DEF Hint
<1>8. ASSUME NEW code \in {"ok", "error"}, Respond(r, code)
      PROVE  ServeTypeOK'
  BY <1>0, <1>8, ReceivedTyped DEF Respond, HeldBack
<1>9. CASE Overflow(r)
  BY <1>0, <1>9, ReceivedTyped DEF Overflow
<1>10. CASE EndBody(r)
  BY <1>0, <1>10, ReceivedTyped DEF EndBody
<1>11. CASE BreakBody(r)
  BY <1>0, <1>11, ReceivedTyped DEF BreakBody
<1> QED
  BY <1>1, <1>2, <1>3, <1>4, <1>5, <1>6, <1>7, <1>8, <1>9, <1>10, <1>11 DEF Serve, Attempt
-----------------------------------------------------------------------------
\* Every step of a request keeps the invariant for that request.

LEMMA SameHealth ==
  ASSUME UNCHANGED healthVars
  PROVE  Unhealthy' = Unhealthy /\ \A u : IsHealthy(u)' = IsHealthy(u)
BY DEF healthVars, workerVars, Unhealthy, IsHealthy

LEMMA Facts ==
  ASSUME Inv, NEW r \in Request
  PROVE  /\ ServeTypeOK /\ RequestInv(r)
         /\ at[r] \in Target \cup {"nobody"} /\ at[r] # "page"
         /\ serve[r] = "trying" => at[r] \in Target
BY UpstreamAssumption DEF Inv, RequestInv, InAttempt, ServeTypeOK

\* The agent's own page: right if nothing was sent before, and nothing is left.
LEMMA AnswerPageKeeps ==
  ASSUME Inv, NEW r \in Request, AnswerPage(r), UNCHANGED <<tried, pickVars, attemptVars, dead>>,
         from[r] = {}, r \in Harmless => ToSet(Pool[r]) \subseteq tried[r] \cup dead[r]
  PROVE  RequestInv(r)'
<1>1. /\ serve'[r] = "done" /\ from'[r] = {"page"} /\ status'[r] # "none"
      /\ tried' = tried /\ at' = at /\ dead' = dead
  BY Facts DEF AnswerPage, Received, Goes, ServeTypeOK, attemptVars, Status, RequestInv, AtClient
<1>2. Lookups(r)'
  BY <1>1, Facts DEF Lookups, RequestInv
<1>3. AtClient(r)'
  BY <1>1, Facts DEF AtClient
<1> QED
  BY <1>1, <1>2, <1>3 DEF RequestInv, BetweenAttempts, InAttempt, Watched

LEMMA BeginPickKeeps ==
  ASSUME Inv, NEW r \in Request, BeginPick(r), UNCHANGED healthVars
  PROVE  RequestInv(r)'
<1>1. /\ serve'[r] = "looking" /\ rest'[r] = Pool[r] /\ found'[r] = <<>>
      /\ dead'[r] = IF serve[r] = "new" THEN Unhealthy ELSE dead[r]
      /\ serve[r] \in {"new", "failed"}
      /\ UNCHANGED <<tried, attemptVars, clientVars>>
  BY Facts DEF BeginPick, Goes, ServeTypeOK
<1> USE DEF RequestInv
<1>2. from[r] = {} /\ (tried[r] # {} => r \in Harmless)
  BY <1>1, Facts DEF BetweenAttempts
<1>3. Lookups(r)'
  BY <1>1, Facts, ToSetEmpty DEF Lookups
<1>4. AtClient(r)'
  BY <1>1, <1>2, Facts DEF AtClient, attemptVars, clientVars
<1>5. Watched(r)'
  BY <1>1, Facts, SameHealth DEF Watched
<1> QED
  BY <1>1, <1>2, <1>3, <1>4, <1>5 DEF BetweenAttempts, InAttempt, clientVars

LEMMA ExhaustedKeeps ==
  ASSUME Inv, NEW r \in Request, Exhausted(r)
  PROVE  RequestInv(r)'
<1>1. from[r] = {} /\ tried[r] \subseteq ToSet(Pool[r])
  BY Facts DEF Exhausted, RequestInv, BetweenAttempts, Lookups
<1>2. ToSet(Pool[r]) \subseteq tried[r]
  BY <1>1, StopsAtTheEnd DEF Exhausted
<1> QED
  BY <1>1, <1>2, AnswerPageKeeps DEF Exhausted

LEMMA LookUpKeeps ==
  ASSUME Inv, NEW r \in Request, LookUp(r), UNCHANGED healthVars
  PROVE  RequestInv(r)'
<1> DEFINE u == Head(rest[r])
<1>1. /\ serve[r] = "looking" /\ rest'[r] = Tail(rest[r])
      /\ found'[r] = IF u \in Candidates(r) /\ IsHealthy(u) THEN Append(found[r], u) ELSE found[r]
      /\ UNCHANGED <<serve, tried, attemptVars, clientVars, dead>>
  BY Facts DEF LookUp, ServeTypeOK
<1>2. /\ ToSet(rest[r]) = {u} \cup ToSet(rest'[r]) /\ u \in Target
      /\ ToSet(Append(found[r], u)) = ToSet(found[r]) \cup {u}
  BY <1>1, Facts, ToSetHeadTail, ToSetAppend DEF LookUp, ServeTypeOK
<1> HIDE DEF u
<1> USE DEF RequestInv
<1>3. ~IsHealthy(u) => u \in dead[r]
  BY <1>1, <1>2, Facts DEF Watched, Unhealthy
<1>4. Lookups(r)'
  <2>1. /\ tried[r] \subseteq ToSet(Pool[r]) /\ ToSet(found[r]) \subseteq Candidates(r)
        /\ ToSet(Pool[r]) \subseteq tried[r] \cup ToSet(found[r]) \cup ToSet(rest[r]) \cup dead[r]
    BY <1>1, Facts DEF Lookups
  <2>2. ToSet(found'[r]) = IF u \in Candidates(r) /\ IsHealthy(u)
                           THEN ToSet(found[r]) \cup {u} ELSE ToSet(found[r])
    BY <1>1, <1>2
  <2>3. u \in ToSet(Pool[r]) => u \in tried[r] \cup ToSet(found'[r]) \cup dead[r]
    BY <1>3, <2>2 DEF Candidates
  <2> QED
    BY <1>1, <1>2, <2>1, <2>2, <2>3 DEF Lookups, Candidates
<1>5. BetweenAttempts(r)' /\ InAttempt(r)' /\ AtClient(r)'
  BY <1>1, Facts DEF BetweenAttempts, InAttempt, AtClient, attemptVars, clientVars
<1>6. Watched(r)'
  BY <1>1, Facts, SameHealth DEF Watched
<1> QED
  BY <1>4, <1>5, <1>6

LEMMA NoneHealthyKeeps ==
  ASSUME Inv, NEW r \in Request, NoneHealthy(r)
  PROVE  RequestInv(r)'
<1>1. from[r] = {} /\ ToSet(Pool[r]) \subseteq tried[r] \cup dead[r]
  BY Facts, ToSetEmpty DEF NoneHealthy, RequestInv, BetweenAttempts, Lookups
<1> QED
  BY <1>1, AnswerPageKeeps DEF NoneHealthy

LEMMA ChooseKeeps ==
  ASSUME Inv, NEW r \in Request, Choose(r), UNCHANGED healthVars
  PROVE  RequestInv(r)'
<1> DEFINE chosen == found[r][(rr[RouteOf[r]] % Len(found[r])) + 1]
<1>1. chosen \in ToSet(found[r])
  BY Facts, Chosen DEF Choose
<1> HIDE DEF chosen
<1>2. /\ serve[r] = "looking" /\ serve'[r] = "trying" /\ at'[r] = chosen
      /\ tried'[r] = tried[r] \cup {chosen}
      /\ said'[r] = "none" /\ ~wrote'[r] /\ ~retry'[r]
      /\ UNCHANGED <<clientVars, dead>>
  BY Facts DEF Choose, Goes, ServeTypeOK, chosen
<1> USE DEF RequestInv
<1>3. from[r] = {} /\ chosen \in ToSet(Pool[r])
  BY <1>1, <1>2, Facts DEF BetweenAttempts, Lookups, Candidates
<1>4. Lookups(r)'
  BY <1>2, <1>3, Facts DEF Lookups
<1>5. InAttempt(r)' /\ AtClient(r)'
  BY <1>2, <1>3, Facts DEF InAttempt, AtClient, clientVars
<1>6. Watched(r)'
  BY <1>2, Facts, SameHealth DEF Watched
<1> QED
  BY <1>2, <1>4, <1>5, <1>6 DEF BetweenAttempts

LEMMA FailAttemptKeeps ==
  ASSUME Inv, NEW r \in Request, FailAttempt(r), UNCHANGED healthVars
  PROVE  RequestInv(r)'
<1> USE DEF RequestInv
<1>1. from[r] = {} /\ serve[r] = "trying"
  BY Facts DEF FailAttempt, InAttempt
<1>2. CASE Repeatable(r)
  <2>1. /\ serve'[r] = "failed" /\ r \in Harmless
        /\ UNCHANGED <<tried, attemptVars, clientVars, dead>>
    BY <1>2, Facts DEF FailAttempt, Goes, ServeTypeOK, Repeatable, Harmless
  <2> QED
    BY <1>1, <2>1, Facts, SameHealth
       DEF BetweenAttempts, Lookups, InAttempt, AtClient, Watched, attemptVars, clientVars
<1>3. CASE ~Repeatable(r)
  BY <1>1, <1>3, AnswerPageKeeps DEF FailAttempt, Repeatable, Harmless
<1> QED
  BY <1>2, <1>3

LEMMA HintKeeps ==
  ASSUME Inv, NEW r \in Request, Hint(r), UNCHANGED healthVars
  PROVE  RequestInv(r)'
<1> USE DEF RequestInv
<1>1. /\ serve[r] = "trying" /\ said[r] = "none" /\ hinted'[r]
      /\ UNCHANGED <<serve, tried, at, said, retry, large, status, from, dead>>
  BY Facts DEF Hint, ServeTypeOK
<1>2. InAttempt(r)' /\ AtClient(r)'
  BY <1>1, Facts DEF InAttempt, AtClient
<1> QED
  BY <1>1, <1>2, Facts, SameHealth DEF BetweenAttempts, Lookups, Watched

\* What is left to show of a step that adds at most this attempt's upstream to
\* what the client got, once the response began.
LEMMA AttemptKeeps ==
  ASSUME Inv, NEW r \in Request, serve[r] = "trying", serve'[r] \in {"trying", "done"},
         UNCHANGED <<tried, at, dead>>, UNCHANGED healthVars,
         InAttempt(r)', AtClient(r)'
  PROVE  RequestInv(r)'
BY Facts, SameHealth DEF RequestInv, BetweenAttempts, Lookups, Watched

\* What passing on a response's header does to the client's state.
LEMMA ReceivedHere ==
  ASSUME Inv, NEW r \in Request, serve[r] = "trying", NEW code \in {"ok", "error"},
         Received(r, code, at[r])
  PROVE  /\ from'[r] = {at[r]} /\ status'[r] # "none" /\ hinted' = hinted
         /\ status[r] # "none" => status'[r] = status[r]
         /\ status[r] = "none" /\ ~hinted[r] => status'[r] = code
         /\ "page" \notin from'[r]
<1>1. from[r] \in {{}, {at[r]}}
  BY Facts DEF RequestInv, InAttempt
<1>2. from'[r] = from[r] \cup {at[r]} /\ hinted' = hinted
  BY Facts DEF Received, ServeTypeOK
<1>3. status'[r] = IF status[r] # "none" THEN status[r]
                   ELSE IF Metered /\ hinted[r] THEN "ok" ELSE code
  BY Facts DEF Received, ServeTypeOK
<1> QED
  BY <1>1, <1>2, <1>3, Facts

LEMMA RespondKeeps ==
  ASSUME Inv, NEW r \in Request, NEW code \in {"ok", "error"}, Respond(r, code),
         UNCHANGED healthVars
  PROVE  RequestInv(r)'
<1> USE DEF RequestInv
<1>1. /\ serve[r] = "trying" /\ said[r] = "none" /\ said'[r] = code /\ wrote'[r]
      /\ retry'[r] = HeldBack(r, code)
      /\ UNCHANGED <<serve, tried, at, large, dead>>
  BY Facts DEF Respond, ServeTypeOK
<1>2. from[r] = {} /\ status[r] = "none" /\ (wrote[r] => hinted[r]) /\ at[r] \in tried[r]
  BY <1>1, Facts DEF InAttempt, AtClient
<1>3. CASE wrote[r] \/ HeldBack(r, code)
  <2>1. UNCHANGED clientVars
    BY <1>3 DEF Respond
  <2>2. InAttempt(r)' /\ AtClient(r)'
    BY <1>1, <1>2, <1>3, <2>1, Facts DEF InAttempt, AtClient, clientVars, HeldBack
  <2> QED
    BY <1>1, <2>2, AttemptKeeps
<1>4. CASE ~(wrote[r] \/ HeldBack(r, code))
  <2>1. Received(r, code, at[r]) /\ code = "ok"
    BY <1>4 DEF Respond, HeldBack
  <2>2. InAttempt(r)' /\ AtClient(r)'
    BY <1>1, <1>2, <1>4, <2>1, ReceivedHere DEF InAttempt, AtClient
  <2> QED
    BY <1>1, <2>2, AttemptKeeps
<1> QED
  BY <1>3, <1>4

LEMMA OverflowKeeps ==
  ASSUME Inv, NEW r \in Request, Overflow(r), UNCHANGED healthVars
  PROVE  RequestInv(r)'
<1> USE DEF RequestInv
<1>1. /\ serve[r] = "trying" /\ retry[r] /\ ~retry'[r] /\ large'[r]
      /\ Received(r, "error", at[r])
      /\ UNCHANGED <<serve, tried, at, said, wrote, dead>>
  BY Facts DEF Overflow, ServeTypeOK
<1>2. from[r] = {} /\ status[r] = "none" /\ said[r] = "error" /\ at[r] \in tried[r]
  BY <1>1, Facts DEF InAttempt, AtClient
<1>3. InAttempt(r)' /\ AtClient(r)'
  BY <1>1, <1>2, ReceivedHere DEF InAttempt, AtClient
<1> QED
  BY <1>1, <1>3, AttemptKeeps

LEMMA EndBodyKeeps ==
  ASSUME Inv, NEW r \in Request, EndBody(r), UNCHANGED healthVars
  PROVE  RequestInv(r)'
<1> USE DEF RequestInv
<1>1. /\ serve[r] = "trying" /\ said[r] # "none"
      /\ UNCHANGED <<tried, attemptVars, dead>>
  BY DEF EndBody
<1>2. CASE retry[r] /\ Repeatable(r)
  <2>1. serve'[r] = "failed" /\ r \in Harmless /\ UNCHANGED clientVars /\ from[r] = {}
    BY <1>1, <1>2, Facts DEF EndBody, Goes, ServeTypeOK, Repeatable, Harmless, InAttempt
  <2> QED
    BY <1>1, <2>1, Facts, SameHealth
       DEF BetweenAttempts, Lookups, InAttempt, AtClient, Watched, attemptVars, clientVars
<1>3. CASE retry[r] /\ ~Repeatable(r)
  <2>1. serve'[r] = "done" /\ r \notin Harmless /\ Received(r, "error", at[r])
    BY <1>1, <1>3, Facts DEF EndBody, Goes, ServeTypeOK, Repeatable, Harmless
  <2>2. from[r] = {} /\ status[r] = "none" /\ said[r] = "error"
    BY <1>1, <1>3, Facts DEF InAttempt, AtClient
  <2>3. InAttempt(r)' /\ AtClient(r)'
    BY <1>1, <2>1, <2>2, ReceivedHere DEF InAttempt, AtClient, attemptVars
  <2> QED
    BY <1>1, <2>1, <2>3, AttemptKeeps DEF attemptVars
<1>4. CASE ~retry[r]
  <2>1. serve'[r] = "done" /\ Received(r, "ok", at[r])
    BY <1>1, <1>4, Facts DEF EndBody, Goes, ServeTypeOK
  <2>2. /\ ~hinted[r] => from[r] = {at[r]} /\ status[r] # "none" /\ status[r] = said[r]
        /\ said[r] = "error" => large[r] \/ hinted[r]
    BY <1>1, <1>4, Facts DEF InAttempt, AtClient
  <2>3. InAttempt(r)' /\ AtClient(r)'
    BY <1>1, <2>1, <2>2, ReceivedHere DEF InAttempt, AtClient, attemptVars
  <2> QED
    BY <1>1, <2>1, <2>3, AttemptKeeps DEF attemptVars
<1> QED
  BY <1>2, <1>3, <1>4

LEMMA BreakBodyKeeps ==
  ASSUME Inv, NEW r \in Request, BreakBody(r), UNCHANGED healthVars
  PROVE  RequestInv(r)'
<1> USE DEF RequestInv
<1>1. /\ serve[r] = "trying" /\ said[r] # "none" /\ serve'[r] = "done"
      /\ UNCHANGED <<tried, attemptVars, dead>>
  BY Facts DEF BreakBody, Goes, ServeTypeOK
<1>2. CASE UNCHANGED clientVars
  <2>1. InAttempt(r)' /\ AtClient(r)'
    BY <1>1, <1>2, Facts DEF InAttempt, AtClient, attemptVars, clientVars
  <2> QED
    BY <1>1, <2>1, AttemptKeeps DEF attemptVars
<1>3. CASE ~retry[r] /\ Received(r, "ok", at[r])
  <2>1. /\ ~hinted[r] => from[r] = {at[r]} /\ status[r] # "none" /\ status[r] = said[r]
        /\ said[r] = "error" => large[r] \/ hinted[r]
    BY <1>1, <1>3, Facts DEF InAttempt, AtClient
  <2>2. InAttempt(r)' /\ AtClient(r)'
    BY <1>1, <1>3, <2>1, ReceivedHere DEF InAttempt, AtClient, attemptVars
  <2> QED
    BY <1>1, <2>2, AttemptKeeps DEF attemptVars
<1> QED
  BY <1>2, <1>3 DEF BreakBody

-----------------------------------------------------------------------------
\* The invariant.

LEMMA InvInit == Init => Inv
<1> SUFFICES ASSUME Init PROVE Inv
  OBVIOUS
<1>1. ServeTypeOK
  BY DEF Init, ServeTypeOK, Status
<1>2. ASSUME NEW r \in Request PROVE RequestInv(r)
  BY <1>2 DEF Init, RequestInv, BetweenAttempts, Lookups, InAttempt, AtClient, Watched
<1> QED
  BY <1>1, <1>2 DEF Inv

LEMMA ServeKeeps ==
  ASSUME Inv, NEW r \in Request, Serve(r), UNCHANGED healthVars
  PROVE  Inv'
<1>1. RequestInv(r)'
  BY BeginPickKeeps, ExhaustedKeeps, LookUpKeeps, NoneHealthyKeeps, ChooseKeeps, FailAttemptKeeps,
     HintKeeps, RespondKeeps, OverflowKeeps, EndBodyKeeps, BreakBodyKeeps DEF Serve, Attempt
<1>2. ASSUME NEW q \in Request, q # r PROVE RequestInv(q)'
  <2>1. Untouched(q)
    BY <1>2, OthersUntouched DEF Inv
  <2> QED
    BY <2>1, SameHealth
       DEF Inv, Untouched, RequestInv, BetweenAttempts, Lookups, Candidates, InAttempt, AtClient, Watched
<1> QED
  BY <1>1, <1>2, TypesKept DEF Inv

LEMMA SurroundingsKeep == ASSUME Inv, Surroundings PROVE Inv'
<1>1. UNCHANGED serveVars
  BY DEF Surroundings, Observed
<1>2. \A r \in Request :
        dead'[r] = IF serve[r] \in {"new", "done"} THEN dead[r] ELSE dead[r] \cup Unhealthy'
  BY DEF Surroundings, Observed
<1>3. dead' \in [Request -> SUBSET Target]
  <2>1. Unhealthy' \subseteq Target
    BY DEF Unhealthy
  <2> QED
    BY <2>1 DEF Surroundings, Observed, Inv, ServeTypeOK
<1> USE DEF serveVars, pickVars, attemptVars, clientVars
<1>4. ServeTypeOK'
  BY <1>1, <1>3 DEF Inv, ServeTypeOK
<1>5. ASSUME NEW r \in Request PROVE RequestInv(r)'
  <2>1. dead[r] \subseteq dead'[r]
    BY <1>2
  <2>2. BetweenAttempts(r)' /\ InAttempt(r)'
    BY <1>1 DEF Inv, RequestInv, BetweenAttempts, InAttempt
  <2>3. Lookups(r)'
    BY <1>1, <2>1 DEF Inv, RequestInv, Lookups, Candidates
  <2>4. AtClient(r)'
    BY <1>1, <2>1 DEF Inv, RequestInv, AtClient
  <2>5. Watched(r)'
    BY <1>1, <1>2 DEF Watched
  <2> QED
    BY <2>2, <2>3, <2>4, <2>5 DEF RequestInv
<1> QED
  BY <1>4, <1>5 DEF Inv

LEMMA InvStutter == ASSUME Inv, UNCHANGED vars PROVE Inv'
<1>1. Unhealthy' = Unhealthy
  BY SameHealth DEF vars
<1> QED
  BY <1>1 DEF vars, serveVars, pickVars, attemptVars, clientVars, Inv, ServeTypeOK, RequestInv,
              BetweenAttempts, Lookups, Candidates, InAttempt, AtClient, Watched

LEMMA InvHolds == Spec => []Inv
<1>1. Inv /\ [Next]_vars => Inv'
  BY ServeKeeps, SurroundingsKeep, InvStutter DEF Next
<1> QED
  BY InvInit, <1>1, PTL DEF Spec
-----------------------------------------------------------------------------
\* The status the client got is the one its answer's upstream sent.
THEOREM StatusIsTold == Spec => []StatusTold
<1>1. Inv => StatusTold
  BY DEF Inv, RequestInv, AtClient, StatusTold
<1> QED
  BY <1>1, InvHolds, PTL

\* The agent's own page comes only after every target was tried or dead.
THEOREM PageIsLast == Spec => []LastResort
<1>1. Inv => LastResort
  BY UpstreamAssumption DEF Inv, RequestInv, AtClient, LastResort, Harmless
<1> QED
  BY <1>1, InvHolds, PTL

\* Only an error too large to be held back, or one after an informational
\* response, ends a request that may be repeated.
THEOREM FailoverComplete == Spec => []FailsOverUnhinted
<1>1. Inv => FailsOverUnhinted
  BY UpstreamAssumption DEF Inv, RequestInv, AtClient, FailsOverUnhinted, Harmless
<1> QED
  BY <1>1, InvHolds, PTL

\* Proxying implements Exchange: one answer at most, from the upstream asked
\* last, and requests that change something are sent once.
THEOREM ExchangeImplemented == Spec => ExchangeSpec
<1> USE DEF Promise!exchangeVars
<1>1. Init => Promise!Init
  BY DEF Init, Promise!Init
<1>2. ASSUME Inv, NEW r \in Request, Serve(r)
      PROVE  Promise!Next \/ UNCHANGED <<tried, at, from>>
  <2> USE DEF attemptVars, clientVars, pickVars
  <2>1. ASSUME AnswerPage(r), UNCHANGED <<tried, at>>, from[r] = {} PROVE Promise!Page(r)
    BY <1>2, <2>1, Facts DEF AnswerPage, Received, Promise!Page, ServeTypeOK
  <2>2. ASSUME NEW code, Received(r, code, at[r]), serve[r] = "trying", UNCHANGED <<tried, at>>
        PROVE  Promise!Answer(r) \/ UNCHANGED <<tried, at, from>>
    <3>1. from[r] \in {{}, {at[r]}} /\ tried[r] # {}
      BY <1>2, <2>2, Facts DEF RequestInv, InAttempt
    <3>2. from' = [from EXCEPT ![r] = @ \cup {at[r]}] /\ from \in [Request -> SUBSET (Target \cup {"page"})]
      BY <1>2, <2>2, Facts DEF Received, ServeTypeOK
    <3> QED
      BY <1>2, <2>2, <3>1, <3>2 DEF Promise!Answer
  <2>3. CASE Choose(r)
    <3> DEFINE chosen == found[r][(rr[RouteOf[r]] % Len(found[r])) + 1]
    <3>1. chosen \in ToSet(found[r])
      BY <1>2, <2>3, Facts, Chosen DEF Choose
    <3> HIDE DEF chosen
    <3>2. /\ at' = [at EXCEPT ![r] = chosen] /\ tried' = [tried EXCEPT ![r] = @ \cup {chosen}]
          /\ from' = from /\ serve[r] = "looking"
      BY <1>2, <2>3 DEF Choose, chosen
    <3>3. /\ chosen \in Target \ tried[r] /\ from[r] = {}
          /\ tried[r] # {} => r \in Harmless
      BY <1>2, <3>1, <3>2, Facts, PoolType DEF RequestInv, BetweenAttempts, Lookups, Candidates
    <3> QED
      BY <3>2, <3>3 DEF Promise!Next, Promise!Send
  <2>4. CASE Exhausted(r)
    BY <1>2, <2>1, <2>4, Facts DEF Exhausted, RequestInv, BetweenAttempts, Promise!Next
  <2>5. CASE NoneHealthy(r)
    BY <1>2, <2>1, <2>5, Facts DEF NoneHealthy, RequestInv, BetweenAttempts, Promise!Next
  <2>6. CASE FailAttempt(r)
    BY <1>2, <2>1, <2>6, Facts DEF FailAttempt, RequestInv, InAttempt, Promise!Next
  <2>7. CASE BeginPick(r) \/ LookUp(r) \/ Hint(r)
    BY <1>2, <2>7 DEF BeginPick, LookUp, Hint
  <2>8. ASSUME NEW code \in {"ok", "error"}, Respond(r, code)
        PROVE  Promise!Next \/ UNCHANGED <<tried, at, from>>
    BY <1>2, <2>2, <2>8 DEF Respond, Promise!Next
  <2>9. CASE Overflow(r)
    BY <1>2, <2>2, <2>9 DEF Overflow, Promise!Next
  <2>10. CASE EndBody(r)
    BY <1>2, <2>2, <2>10 DEF EndBody, Promise!Next
  <2>11. CASE BreakBody(r)
    BY <1>2, <2>2, <2>11 DEF BreakBody, Promise!Next
  <2> QED
    BY <1>2, <2>3, <2>4, <2>5, <2>6, <2>7, <2>8, <2>9, <2>10, <2>11 DEF Serve, Attempt
<1>3. Inv /\ [Next]_vars => [Promise!Next]_(Promise!exchangeVars)
  <2> SUFFICES ASSUME Inv, [Next]_vars
               PROVE  Promise!Next \/ UNCHANGED <<tried, at, from>>
    OBVIOUS
  <2>1. CASE Surroundings \/ UNCHANGED vars
    BY <2>1 DEF Surroundings, Observed, vars, serveVars, attemptVars, clientVars
  <2> QED
    BY <1>2, <2>1 DEF Next
<1> QED
  BY <1>1, <1>3, InvHolds, PTL DEF Spec, ExchangeSpec, Promise!Spec
=============================================================================
