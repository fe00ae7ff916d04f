--------------------------- MODULE TrafficProofs ----------------------------
(***************************************************************************)
(* Proofs about the request queue and the bandwidth limiter, and about the *)
(* way the handler uses them. They hold for any number of requests, slots, *)
(* places, keys and buckets, and any timeout, rate and burst.              *)
(***************************************************************************)
EXTENDS Traffic, BucketProofs

\* The inductive invariant: the counters are right because they were right and
\* each step moves one request.
QueueInv == QueueTypeOK /\ SlotsAccounted /\ WaitersAccounted

LEMMA FiniteGroups == IsFiniteSet(Holders) /\ IsFiniteSet(Waiters)
BY QueueAssumption, FS_Subset DEF Holders, Waiters

\* Moving one request adds it to a group, removes it, or leaves the group alone.
LEMMA HoldersAfterMove ==
  ASSUME NEW r \in Request, NEW to \in Place, place \in [Request -> Place], Move(r, to)
  PROVE  Cardinality(Holders') =
           Cardinality(Holders)
             + (IF to \in {"granted", "inside"} /\ r \notin Holders THEN 1 ELSE 0)
             - (IF to \notin {"granted", "inside"} /\ r \in Holders THEN 1 ELSE 0)
<1>1. CASE to \in {"granted", "inside"}
  <2>1. Holders' = Holders \cup {r}
    BY <1>1 DEF Move, Holders
  <2> QED
    BY <1>1, <2>1, FiniteGroups, FS_AddElement, FS_CardinalityType
<1>2. CASE to \notin {"granted", "inside"}
  <2>1. Holders' = Holders \ {r}
    BY <1>2 DEF Move, Holders
  <2>2. CASE r \in Holders
    <3>1. Cardinality(Holders \ {r}) = Cardinality(Holders) - 1
      BY <2>2, FiniteGroups, FS_RemoveElement
    <3>2. Cardinality(Holders) \in Nat
      BY FiniteGroups, FS_CardinalityType
    <3> QED
      BY <1>2, <2>1, <2>2, <3>1, <3>2
  <2>3. CASE r \notin Holders
    <3>1. Holders' = Holders
      BY <2>1, <2>3
    <3> QED
      BY <1>2, <2>3, <3>1, FiniteGroups, FS_CardinalityType
  <2> QED
    BY <2>2, <2>3
<1> QED
  BY <1>1, <1>2

LEMMA WaitersAfterMove ==
  ASSUME NEW r \in Request, NEW to \in Place, place \in [Request -> Place], Move(r, to)
  PROVE  Cardinality(Waiters') =
           Cardinality(Waiters)
             + (IF to \in {"waiting", "granted", "leaving"} /\ r \notin Waiters THEN 1 ELSE 0)
             - (IF to \notin {"waiting", "granted", "leaving"} /\ r \in Waiters THEN 1 ELSE 0)
<1>1. CASE to \in {"waiting", "granted", "leaving"}
  <2>1. Waiters' = Waiters \cup {r}
    BY <1>1 DEF Move, Waiters
  <2> QED
    BY <1>1, <2>1, FiniteGroups, FS_AddElement, FS_CardinalityType
<1>2. CASE to \notin {"waiting", "granted", "leaving"}
  <2>1. Waiters' = Waiters \ {r}
    BY <1>2 DEF Move, Waiters
  <2>2. CASE r \in Waiters
    BY <1>2, <2>1, <2>2, FiniteGroups, FS_RemoveElement, FS_CardinalityType
  <2>3. CASE r \notin Waiters
    <3>1. Waiters' = Waiters
      BY <2>1, <2>3
    <3> QED
      BY <1>2, <2>3, <3>1, FiniteGroups, FS_CardinalityType
  <2> QED
    BY <2>2, <2>3
<1> QED
  BY <1>1, <1>2

\* A request in a group counts.
LEMMA SomeMember ==
  ASSUME NEW r \in Request
  PROVE  /\ Cardinality(Holders) \in Nat /\ Cardinality(Waiters) \in Nat
         /\ r \in Holders => Cardinality(Holders) > 0
         /\ r \in Waiters => Cardinality(Waiters) > 0
BY FiniteGroups, FS_CardinalityType, FS_EmptySet

\* Where nobody moves, nobody changes group.
LEMMA NobodyMoves == UNCHANGED place => UNCHANGED <<Holders, Waiters>>
BY DEF Holders, Waiters

LEMMA QueueStep == QueueInv /\ [QueueNext]_queueVars => QueueInv'
<1> SUFFICES ASSUME QueueInv, [QueueNext]_queueVars PROVE QueueInv'
  OBVIOUS
<1> USE QueueAssumption
<1>0. /\ slots \in Nat /\ waiting \in Nat /\ place \in [Request -> Place]
      /\ timer \in [Request -> 0 .. QueueTimeout] /\ cancelled \in [Request -> BOOLEAN]
      /\ slots = Cardinality(Holders) /\ slots <= MaxConcurrent
      /\ waiting = Cardinality(Waiters) /\ waiting <= MaxQueued
  BY DEF QueueInv, QueueTypeOK, SlotsAccounted, WaitersAccounted
<1>1. ASSUME NEW r \in Request, TakeFreeSlot(r) PROVE QueueInv'
  <2>1. /\ Move(r, "inside") /\ slots' = slots + 1 /\ slots < MaxConcurrent
        /\ UNCHANGED <<waiting, timer, cancelled>> /\ r \notin Holders /\ r \notin Waiters
    BY <1>1 DEF TakeFreeSlot, Holders, Waiters
  <2>2. Cardinality(Holders') = slots' /\ Cardinality(Waiters') = waiting'
    BY <1>0, <2>1, HoldersAfterMove, WaitersAfterMove DEF Place
  <2> QED
    BY <1>0, <2>1, <2>2 DEF Move, Place, QueueInv, QueueTypeOK, SlotsAccounted, WaitersAccounted
<1>2. ASSUME NEW r \in Request, FindNoSlot(r) \/ TurnAway(r) PROVE QueueInv'
  <2>1. PICK to \in {"busy", "rejected"} : Move(r, to)
    BY <1>2 DEF FindNoSlot, TurnAway
  <2>2. UNCHANGED <<slots, waiting, timer, cancelled>> /\ r \notin Holders /\ r \notin Waiters
    BY <1>2 DEF FindNoSlot, TurnAway, Holders, Waiters
  <2>3. Cardinality(Holders') = slots' /\ Cardinality(Waiters') = waiting'
    BY <1>0, <2>1, <2>2, HoldersAfterMove, WaitersAfterMove DEF Place
  <2> QED
    BY <1>0, <2>1, <2>2, <2>3 DEF Move, Place, QueueInv, QueueTypeOK, SlotsAccounted, WaitersAccounted
<1>3. ASSUME NEW r \in Request, Enlist(r) PROVE QueueInv'
  <2>1. /\ Move(r, "waiting") /\ waiting' = waiting + 1 /\ waiting < MaxQueued
        /\ timer' = [timer EXCEPT ![r] = QueueTimeout]
        /\ UNCHANGED <<slots, cancelled>> /\ r \notin Holders /\ r \notin Waiters
    BY <1>3 DEF Enlist, Holders, Waiters
  <2>2. Cardinality(Holders') = slots' /\ Cardinality(Waiters') = waiting'
    BY <1>0, <2>1, HoldersAfterMove, WaitersAfterMove DEF Place
  <2> QED
    BY <1>0, <2>1, <2>2 DEF Move, Place, QueueInv, QueueTypeOK, SlotsAccounted, WaitersAccounted
<1>4. ASSUME NEW r \in Request, TakeSlot(r) PROVE QueueInv'
  <2>1. /\ Move(r, "granted") /\ slots' = slots + 1 /\ slots < MaxConcurrent
        /\ timer' = [timer EXCEPT ![r] = 0]
        /\ UNCHANGED <<waiting, cancelled>> /\ r \notin Holders /\ r \in Waiters
    BY <1>4 DEF TakeSlot, Holders, Waiters
  <2>2. Cardinality(Holders') = slots' /\ Cardinality(Waiters') = waiting'
    BY <1>0, <2>1, HoldersAfterMove, WaitersAfterMove DEF Place
  <2> QED
    BY <1>0, <2>1, <2>2 DEF Move, Place, QueueInv, QueueTypeOK, SlotsAccounted, WaitersAccounted
<1>5. ASSUME NEW r \in Request, GiveUp(r) PROVE QueueInv'
  <2>1. /\ Move(r, "leaving") /\ timer' = [timer EXCEPT ![r] = 0]
        /\ UNCHANGED <<slots, waiting, cancelled>> /\ r \notin Holders /\ r \in Waiters
    BY <1>5 DEF GiveUp, Holders, Waiters
  <2>2. Cardinality(Holders') = slots' /\ Cardinality(Waiters') = waiting'
    BY <1>0, <2>1, HoldersAfterMove, WaitersAfterMove DEF Place
  <2> QED
    BY <1>0, <2>1, <2>2 DEF Move, Place, QueueInv, QueueTypeOK, SlotsAccounted, WaitersAccounted
<1>6. ASSUME NEW r \in Request, Unlist(r) PROVE QueueInv'
  <2>1. /\ waiting' = waiting - 1 /\ UNCHANGED <<slots, timer, cancelled>> /\ r \in Waiters
        /\ \/ Move(r, "inside") /\ r \in Holders
           \/ Move(r, "rejected") /\ r \notin Holders
    BY <1>6 DEF Unlist, Holders, Waiters
  <2>2. Cardinality(Holders') = slots' /\ Cardinality(Waiters') = waiting'
    BY <1>0, <2>1, HoldersAfterMove, WaitersAfterMove DEF Place
  <2>3. waiting > 0
    BY <1>0, <2>1, SomeMember
  <2> QED
    BY <1>0, <2>1, <2>2, <2>3 DEF Move, Place, QueueInv, QueueTypeOK, SlotsAccounted, WaitersAccounted
<1>7. ASSUME NEW r \in Request, Release(r) PROVE QueueInv'
  <2>1. /\ Move(r, "gone") /\ slots' = (IF slots > 0 THEN slots - 1 ELSE slots)
        /\ cancelled' = [cancelled EXCEPT ![r] = FALSE]
        /\ UNCHANGED <<waiting, timer>> /\ r \in Holders /\ r \notin Waiters
    BY <1>7 DEF Release, Holders, Waiters
  <2>2. slots > 0
    BY <1>0, <2>1, SomeMember
  <2>3. Cardinality(Holders') = slots' /\ Cardinality(Waiters') = waiting'
    BY <1>0, <2>1, <2>2, HoldersAfterMove, WaitersAfterMove DEF Place
  <2> QED
    BY <1>0, <2>1, <2>2, <2>3 DEF Move, Place, QueueInv, QueueTypeOK, SlotsAccounted, WaitersAccounted
<1>8. ASSUME NEW r \in Request, Cancel(r) PROVE QueueInv'
  BY <1>0, <1>8, NobodyMoves
     DEF Cancel, QueueInv, QueueTypeOK, SlotsAccounted, WaitersAccounted
<1>9. CASE QueueTick
  <2>1. timer' \in [Request -> 0 .. QueueTimeout]
    BY <1>0, <1>9 DEF QueueTick
  <2> QED
    BY <1>0, <1>9, <2>1, NobodyMoves
       DEF QueueTick, QueueInv, QueueTypeOK, SlotsAccounted, WaitersAccounted
<1>10. CASE UNCHANGED queueVars
  BY <1>0, <1>10, NobodyMoves
     DEF queueVars, QueueInv, QueueTypeOK, SlotsAccounted, WaitersAccounted
<1> QED
  BY <1>1, <1>2, <1>3, <1>4, <1>5, <1>6, <1>7, <1>8, <1>9, <1>10 DEF QueueNext, Acquire

LEMMA QueueStart == QueueInit => QueueInv
<1> SUFFICES ASSUME QueueInit PROVE QueueInv
  OBVIOUS
<1>1. Holders = {} /\ Waiters = {}
  BY DEF QueueInit, Holders, Waiters
<1> QED
  BY <1>1, FS_EmptySet, QueueAssumption
     DEF QueueInit, QueueInv, QueueTypeOK, SlotsAccounted, WaitersAccounted, Place

\* The queue keeps its counters right, whoever uses it as it is meant to be used.
THEOREM QueueSafe == QueueSpec => [](SlotsAccounted /\ WaitersAccounted)
<1>1. QueueInv => SlotsAccounted /\ WaitersAccounted
  BY DEF QueueInv
<1> QED
  BY <1>1, QueueStart, QueueStep, PTL DEF QueueSpec

\* The handler uses the queue as it is meant to be used: no step of a request
\* does anything to it that is not an operation of the queue.
THEOREM HandlerUsesQueue == Spec => QueueSpec
<1>1. Init => QueueInit
  BY DEF Init
<1>2. [Next]_vars => [QueueNext]_queueVars
  <2> SUFFICES ASSUME [Next]_vars PROVE QueueNext \/ UNCHANGED queueVars
    OBVIOUS
  <2>1. CASE Tick
    BY <2>1 DEF Tick, QueueNext
  <2>2. ASSUME NEW r \in Request, Step(r) PROVE QueueNext \/ UNCHANGED queueVars
    BY <2>2 DEF Step, CheckRate, Enter, Answer, Write, Finish, QueueNext
  <2>3. ASSUME NEW r \in Request, Disconnect(r) PROVE QueueNext
    BY <2>3 DEF Disconnect, QueueNext
  <2>4. CASE UNCHANGED vars
    BY <2>4 DEF vars
  <2> QED
    BY <2>1, <2>2, <2>3, <2>4 DEF Next
<1> QED
  BY <1>1, <1>2, PTL DEF Spec, QueueSpec

\* No slot leaks and none is freed twice, on any way through the handler.
THEOREM SlotsStayAccounted == Spec => []SlotsAccounted
BY QueueSafe, HandlerUsesQueue, PTL

\* The queue never holds more waiting requests than configured.
THEOREM WaitersStayAccounted == Spec => []WaitersAccounted
BY QueueSafe, HandlerUsesQueue, PTL

-----------------------------------------------------------------------------
(* The bandwidth limiter.                                                  *)

\* The inductive invariant.
BandwidthInv ==
  /\ BandwidthTypeOK
  /\ IsFiniteSet(DOMAIN pipes)
  /\ PruningFills => Backed(pipes, credit, ByteRate, BurstBytes)

LEMMA BandwidthConstants ==
  /\ ByteRate \in Nat \ {0} /\ BurstBytes \in Nat \ {0}
  /\ AgeBound * ByteRate >= BurstBytes + Lag * ByteRate
  /\ MaxBuckets \in Nat \ {0} /\ Lag \in Nat
BY BandwidthAssumption, BucketsAssumption

\* What one reserve takes is a chunk; what it waits for is a time.
LEMMA Chunks ==
  /\ \A w \in Writer : remaining[w] \in Nat =>
       Chunk(w) \in Nat /\ Chunk(w) <= remaining[w]
  /\ \A bytes \in Nat : TicksFor(bytes) \in Nat
<1>1. ASSUME NEW bytes \in Nat PROVE TicksFor(bytes) \in Nat
  BY BandwidthConstants DEF TicksFor
<1>2. ASSUME NEW w \in Writer, remaining[w] \in Nat PROVE Chunk(w) \in Nat /\ Chunk(w) <= remaining[w]
  BY <1>2, BandwidthConstants DEF Chunk, Least
<1> QED
  BY <1>1, <1>2

LEMMA BandwidthInvInit == BandwidthInit => BandwidthInv
<1> SUFFICES ASSUME BandwidthInit PROVE BandwidthInv
  OBVIOUS
<1>1. pipes = <<>> /\ DOMAIN pipes = {} /\ credit = [k \in Key |-> BurstBytes]
  BY DEF BandwidthInit
<1>2. IsFiniteSet(DOMAIN pipes) /\ Cardinality(DOMAIN pipes) <= MaxBuckets
  BY <1>1, FS_EmptySet, BandwidthConstants
<1>3. PruneAgeBound \in PruneAge
  BY BucketsAssumption DEF PruneAge, PruneAgeBound
<1>4. BandwidthTypeOK
  BY <1>1, <1>2, <1>3, BandwidthConstants DEF BandwidthInit, BandwidthTypeOK
<1>5. Backed(pipes, credit, ByteRate, BurstBytes)
  BY <1>1, BandwidthConstants DEF Backed
<1> QED
  BY <1>2, <1>4, <1>5 DEF BandwidthInv

\* What of the invariant only the writers' state may break.
LEMMA WritersKeepInv ==
  ASSUME BandwidthInv, UNCHANGED <<pipes, pipePruneAge, credit>>,
         remaining' \in [Writer -> Nat], nap' \in [Writer -> {Awake} \cup Nat]
  PROVE  BandwidthInv'
BY DEF BandwidthInv, BandwidthTypeOK, PruningFills

LEMMA BandwidthTickKeepsInv == ASSUME BandwidthInv, BandwidthTick PROVE BandwidthInv'
<1>1. /\ BucketsOK(pipes, BurstBytes) /\ Cardinality(DOMAIN pipes) <= MaxBuckets
      /\ pipePruneAge \in PruneAge /\ credit \in [Key -> Int]
      /\ remaining \in [Writer -> Nat] /\ nap \in [Writer -> {Awake} \cup Nat]
  BY DEF BandwidthInv, BandwidthTypeOK, BucketsOK
<1>2. /\ pipes' = Aged(pipes) /\ pipePruneAge' = OlderPrune(pipePruneAge)
      /\ credit' = [k \in Key |-> Least(BurstBytes, credit[k] + ByteRate)]
      /\ remaining' = remaining
      /\ nap' = [w \in Writer |-> IF nap[w] > 0 THEN nap[w] - 1 ELSE nap[w]]
  BY DEF BandwidthTick
<1>3. /\ BucketsOK(Aged(pipes), BurstBytes)
      /\ DOMAIN Aged(pipes) = DOMAIN pipes
      /\ Backed(pipes, credit, ByteRate, BurstBytes) =>
           Backed(Aged(pipes), [k \in Key |-> Least(BurstBytes, credit[k] + ByteRate)],
                  ByteRate, BurstBytes)
  <2>1. ByteRate \in Nat /\ BurstBytes \in Nat /\ AgeBound * ByteRate >= BurstBytes + Lag * ByteRate
    BY BandwidthConstants
  <2> QED
    BY <1>1, <2>1, AgedBacked
<1>4. nap' \in [Writer -> {Awake} \cup Nat]
  BY <1>1, <1>2 DEF Awake
<1>5. credit' \in [Key -> Int]
  BY <1>1, <1>2, BandwidthConstants DEF Least
<1>6. pipePruneAge' \in PruneAge
  BY <1>1, <1>2, PruneAges
<1>7. BandwidthTypeOK'
  BY <1>1, <1>2, <1>3, <1>4, <1>5, <1>6 DEF BandwidthTypeOK, BucketsOK
<1> QED
  BY <1>2, <1>3, <1>7 DEF BandwidthInv, PruningFills

LEMMA ReserveKeepsInv ==
  ASSUME BandwidthInv, NEW w \in Writer, NEW k \in Key, NEW lag \in 0 .. Lag, Reserve(w, k, lag)
  PROVE  BandwidthInv'
<1> DEFINE kept == Pruned(pipes, pipePruneAge, lag)
           full == k \notin DOMAIN kept /\ Cardinality(DOMAIN kept) >= MaxBuckets
           need == Chunk(w)
<1>1. /\ BucketsOK(pipes, BurstBytes) /\ IsFiniteSet(DOMAIN pipes)
      /\ Cardinality(DOMAIN pipes) <= MaxBuckets
      /\ pipePruneAge \in PruneAge /\ credit \in [Key -> Int]
      /\ remaining \in [Writer -> Nat] /\ nap \in [Writer -> {Awake} \cup Nat]
  BY DEF BandwidthInv, BandwidthTypeOK, BucketsOK
<1>2. PICK out \in IF full THEN {{o} : o \in Oldest(kept)} ELSE {{}} :
        LET open == Restrict(kept, DOMAIN kept \ out)
            bucket == IF k \in DOMAIN open
                      THEN Refilled(open[k], lag, ByteRate, BurstBytes)
                      ELSE [tokens |-> BurstBytes, age |-> lag]
            left == bucket.tokens - need
            forgiven == [x \in Key |-> IF x \in out THEN BurstBytes ELSE credit[x]]
        IN IF left >= 0
           THEN /\ pipes' = Holding(open, k, [bucket EXCEPT !.tokens = left])
                /\ remaining' = [remaining EXCEPT ![w] = @ - need]
                /\ nap' = [nap EXCEPT ![w] = Awake]
                /\ credit' = [forgiven EXCEPT ![k] = @ - need]
           ELSE /\ pipes' = Holding(open, k, bucket)
                /\ nap' = [nap EXCEPT ![w] = TicksFor(-left)]
                /\ credit' = forgiven
                /\ UNCHANGED remaining
  BY DEF Reserve
<1>3. pipePruneAge' = IF PruneDue(pipePruneAge, lag) \/ full THEN lag ELSE pipePruneAge
  BY DEF Reserve
<1> DEFINE open == Restrict(kept, DOMAIN kept \ out)
           bucket == IF k \in DOMAIN open
                     THEN Refilled(open[k], lag, ByteRate, BurstBytes)
                     ELSE [tokens |-> BurstBytes, age |-> lag]
           left == bucket.tokens - need
           forgiven == [x \in Key |-> IF x \in out THEN BurstBytes ELSE credit[x]]
           enough == left >= 0
           spent == IF enough THEN [bucket EXCEPT !.tokens = left] ELSE bucket
<1>4. BucketsOK(kept, BurstBytes) /\ DOMAIN kept \subseteq DOMAIN pipes
  BY <1>1, PrunedOK
<1>5. PruningFills => Backed(kept, credit, ByteRate, BurstBytes)
  BY <1>1, BandwidthConstants, PrunedBacked DEF BandwidthInv, PruningFills
<1> HIDE DEF kept
<1>6. /\ out \subseteq DOMAIN kept /\ k \notin out
      /\ full => \E x \in DOMAIN kept : out = {x}
  <2>1. CASE full
    BY <1>2, <2>1 DEF Oldest
  <2>2. CASE ~full
    BY <1>2, <2>2
  <2> QED
    BY <2>1, <2>2
<1>7. /\ pipes' = Holding(open, k, spent)
      /\ remaining' = IF enough THEN [remaining EXCEPT ![w] = @ - need] ELSE remaining
      /\ nap' = [nap EXCEPT ![w] = IF enough THEN Awake ELSE TicksFor(-left)]
      /\ credit' = IF enough THEN [forgiven EXCEPT ![k] = @ - need] ELSE forgiven
  BY <1>2
<1>8. /\ DOMAIN open = DOMAIN kept \ out /\ BucketsOK(open, BurstBytes)
      /\ \A x \in DOMAIN open : open[x] = kept[x]
  BY <1>4, PartOK
<1> HIDE DEF open
<1>9. need \in Nat /\ need <= remaining[w]
  BY <1>1, Chunks
<1>10. /\ bucket \in Bucket(BurstBytes)
       /\ k \in DOMAIN open =>
            bucket.tokens + (bucket.age - Lag) * ByteRate <= Worth(open[k], ByteRate, BurstBytes)
       /\ k \notin DOMAIN open => bucket.tokens = BurstBytes /\ bucket.age = lag
  <2>1. CASE k \in DOMAIN open
    <3>1. open[k] \in Bucket(BurstBytes)
      BY <1>8, <2>1 DEF BucketsOK
    <3> QED
      BY <2>1, <3>1, RefillBacked, BandwidthConstants
  <2>2. CASE k \notin DOMAIN open
    BY <2>2, BandwidthConstants, LagType DEF Bucket
  <2> QED
    BY <2>1, <2>2
<1> HIDE DEF bucket, need
<1>11. bucket.tokens \in 0 .. BurstBytes /\ bucket.age \in 0 .. AgeBound /\ left \in Int
  BY <1>9, <1>10, BandwidthConstants DEF Bucket
<1>12. /\ spent \in Bucket(BurstBytes) /\ spent.age = bucket.age
       /\ spent.tokens = IF enough THEN left ELSE bucket.tokens
  <2>1. CASE enough
    <3>1. left \in 0 .. BurstBytes
      BY <1>9, <1>11, <2>1, BandwidthConstants
    <3> QED
      BY <1>10, <2>1, <3>1 DEF Bucket
  <2>2. CASE ~enough
    BY <1>10, <2>2
  <2> QED
    BY <2>1, <2>2
<1>13. BucketsOK(pipes', BurstBytes) /\ DOMAIN pipes' = DOMAIN open \cup {k}
  <2> HIDE DEF spent
  <2> QED
    BY <1>7, <1>8, <1>12, HoldingOK DEF Holding
<1>14. IsFiniteSet(DOMAIN pipes') /\ Cardinality(DOMAIN pipes') <= MaxBuckets
  <2>1. IsFiniteSet(DOMAIN kept) /\ Cardinality(DOMAIN kept) <= Cardinality(DOMAIN pipes)
    BY <1>1, <1>4, FS_Subset
  <2>2. Cardinality(DOMAIN kept) \in Nat /\ Cardinality(DOMAIN pipes) \in Nat
    BY <1>1, <2>1, FS_CardinalityType
  <2>3. /\ IsFiniteSet(DOMAIN open) /\ Cardinality(DOMAIN open) \in Nat
        /\ Cardinality(DOMAIN open) <= Cardinality(DOMAIN kept)
    <3>1. DOMAIN open \in SUBSET DOMAIN kept
      BY <1>8
    <3> QED
      BY <2>1, <3>1, FS_Subset, FS_CardinalityType
  <2>4. /\ IsFiniteSet(DOMAIN open \cup {k})
        /\ Cardinality(DOMAIN open \cup {k}) =
             IF k \in DOMAIN open THEN Cardinality(DOMAIN open) ELSE Cardinality(DOMAIN open) + 1
    BY <2>3, FS_AddElement
  <2>5. CASE full
    <3>1. PICK x \in DOMAIN kept : out = {x}
      BY <1>6, <2>5
    <3>2. Cardinality(DOMAIN kept \ {x}) = Cardinality(DOMAIN kept) - 1
      BY <2>1, FS_RemoveElement
    <3>3. Cardinality(DOMAIN open) = Cardinality(DOMAIN kept) - 1
      BY <1>8, <3>1, <3>2
    <3> QED
      BY <1>1, <1>13, <2>1, <2>2, <2>3, <2>4, <3>3, BandwidthConstants
  <2>6. CASE ~full
    <3>1. CASE k \in DOMAIN kept
      <4>1. k \in DOMAIN open
        BY <1>6, <1>8, <3>1
      <4> QED
        BY <1>1, <1>13, <2>1, <2>2, <2>3, <2>4, <4>1, BandwidthConstants
    <3>2. CASE Cardinality(DOMAIN kept) < MaxBuckets
      BY <1>1, <1>13, <2>1, <2>2, <2>3, <2>4, <3>2, BandwidthConstants
    <3> QED
      BY <2>2, <2>6, <3>1, <3>2, BandwidthConstants
  <2> QED
    BY <2>5, <2>6
<1>15. forgiven \in [Key -> Int] /\ forgiven[k] = credit[k] /\ credit[k] \in Int
  BY <1>1, <1>6, BandwidthConstants
<1>16. /\ credit' \in [Key -> Int]
       /\ \A x \in Key \ {k} : credit'[x] = forgiven[x]
       /\ credit'[k] = IF enough THEN credit[k] - need ELSE credit[k]
  <2> HIDE DEF forgiven, left
  <2>1. CASE enough
    BY <1>7, <1>9, <1>15, <2>1
  <2>2. CASE ~enough
    BY <1>7, <1>15, <2>2
  <2> QED
    BY <2>1, <2>2
<1>17. remaining' \in [Writer -> Nat]
  <2> HIDE DEF left
  <2> QED
    BY <1>1, <1>7, <1>9
<1>18. nap' \in [Writer -> {Awake} \cup Nat]
  <2>1. (IF enough THEN Awake ELSE TicksFor(-left)) \in {Awake} \cup Nat
    BY <1>11, Chunks
  <2> QED
    BY <1>1, <1>7, <2>1
<1>19. pipePruneAge' \in PruneAge
  <2> HIDE DEF full
  <2> QED
    BY <1>1, <1>3, PruneAges
<1>20. BandwidthTypeOK'
  BY <1>13, <1>14, <1>16, <1>17, <1>18, <1>19 DEF BandwidthTypeOK, BucketsOK
<1>21. ASSUME PruningFills PROVE Backed(pipes', credit', ByteRate, BurstBytes)
  <2>1. Backed(kept, credit, ByteRate, BurstBytes)
    BY <1>5, <1>21
  <2>2. Backed(open, forgiven, ByteRate, BurstBytes)
    BY <1>4, <1>8, <2>1, BandwidthConstants DEF Backed, BucketsOK
  <2> DEFINE late == (bucket.age - Lag) * ByteRate
  <2>3. late \in Int
    BY <1>11, BandwidthConstants
  <2>4. Least(BurstBytes, bucket.tokens + late) <= credit[k] /\ credit[k] <= BurstBytes
        /\ (bucket.tokens + late <= credit[k])
    <3>1. CASE k \in DOMAIN open
      <4>1. Worth(open[k], ByteRate, BurstBytes) <= credit[k] /\ credit[k] <= BurstBytes
        BY <1>8, <2>1, <3>1 DEF Backed
      <4>2. Worth(open[k], ByteRate, BurstBytes) \in Int
        <5> DEFINE gain == (open[k].age - Lag) * ByteRate
        <5>1. open[k].tokens \in 0 .. BurstBytes /\ open[k].age \in 0 .. AgeBound
          BY <1>8, <3>1 DEF BucketsOK, Bucket
        <5>2. gain \in Int
          BY <5>1, BandwidthConstants
        <5>3. Worth(open[k], ByteRate, BurstBytes) = Least(BurstBytes, open[k].tokens + gain)
          BY DEF Worth
        <5> HIDE DEF gain
        <5> QED
          BY <5>1, <5>2, <5>3, BandwidthConstants DEF Least
      <4>3. bucket.tokens + late <= Worth(open[k], ByteRate, BurstBytes)
        BY <1>10, <3>1
      <4> HIDE DEF late
      <4>4. bucket.tokens + late <= credit[k]
        BY <1>11, <1>15, <2>3, <4>1, <4>2, <4>3
      <4> QED
        BY <1>11, <1>15, <2>3, <4>1, <4>4, BandwidthConstants DEF Least
    <3>2. CASE k \notin DOMAIN open
      <4>1. k \notin DOMAIN kept
        BY <1>6, <1>8, <3>2
      <4>2. credit[k] = BurstBytes /\ bucket.tokens = BurstBytes /\ bucket.age = lag
        BY <1>10, <2>1, <3>2, <4>1 DEF Backed
      <4>3. Lag - lag \in Nat /\ (Lag - lag) * ByteRate \in Nat
        BY BandwidthConstants
      <4>4. (lag - Lag) * ByteRate = -((Lag - lag) * ByteRate)
        BY BandwidthConstants
      <4>5. late <= 0
        BY <4>2, <4>3, <4>4
      <4> HIDE DEF late
      <4> QED
        BY <2>3, <4>2, <4>5, BandwidthConstants DEF Least
    <3> QED
      BY <3>1, <3>2
  <2>5. Worth(spent, ByteRate, BurstBytes) <= credit'[k] /\ credit'[k] <= BurstBytes
    <3>1. Worth(spent, ByteRate, BurstBytes) = Least(BurstBytes, spent.tokens + late)
      BY <1>12 DEF Worth
    <3> HIDE DEF late, spent
    <3>2. spent.tokens + late <= credit'[k] /\ credit'[k] <= BurstBytes /\ spent.tokens \in Int
      <4>1. CASE enough
        <5>1. spent.tokens = bucket.tokens - need /\ credit'[k] = credit[k] - need
          BY <1>12, <1>16, <4>1
        <5> HIDE DEF enough
        <5> QED
          BY <1>9, <1>11, <1>15, <2>3, <2>4, <5>1, BandwidthConstants
      <4>2. CASE ~enough
        <5>1. spent.tokens = bucket.tokens /\ credit'[k] = credit[k]
          BY <1>12, <1>16, <4>2
        <5> HIDE DEF enough
        <5> QED
          BY <1>11, <1>15, <2>3, <2>4, <5>1
      <4> QED
        BY <4>1, <4>2
    <3> QED
      BY <1>16, <2>3, <3>1, <3>2, BandwidthConstants DEF Least
  <2> HIDE DEF spent, forgiven
  <2> QED
    BY <1>7, <1>8, <1>12, <1>15, <1>16, <2>2, <2>5, HoldingBacked, BandwidthConstants
<1> QED
  BY <1>14, <1>20, <1>21 DEF BandwidthInv, PruningFills

LEMMA AbortKeepsInv == ASSUME BandwidthInv, NEW w \in Writer, Abort(w) PROVE BandwidthInv'
<1>1. remaining \in [Writer -> Nat] /\ nap \in [Writer -> {Awake} \cup Nat]
  BY DEF BandwidthInv, BandwidthTypeOK
<1>2. remaining' \in [Writer -> Nat] /\ nap' \in [Writer -> {Awake} \cup Nat]
  BY <1>1 DEF Abort
<1> QED
  BY <1>2, WritersKeepInv DEF Abort

LEMMA BandwidthInvStep == BandwidthInv /\ [Next]_vars => BandwidthInv'
<1> SUFFICES ASSUME BandwidthInv, [Next]_vars PROVE BandwidthInv'
  OBVIOUS
<1>0. /\ remaining \in [Writer -> Nat] /\ nap \in [Writer -> {Awake} \cup Nat]
      /\ Writer = Request /\ KeyOf \in [Request -> Key] /\ BodySize \in Nat /\ ErrorSize \in Nat
  BY TrafficAssumption DEF BandwidthInv, BandwidthTypeOK
<1>1. CASE Tick
  BY <1>1, BandwidthTickKeepsInv DEF Tick
<1>2. CASE UNCHANGED bandwidthVars
  BY <1>0, <1>2, WritersKeepInv DEF bandwidthVars
<1>3. ASSUME NEW r \in Request, Step(r) PROVE BandwidthInv'
  <2>1. CASE CheckRate(r) \/ Enter(r) \/ Finish(r)
    BY <1>2, <2>1 DEF CheckRate, Enter, Finish
  <2>2. CASE Answer(r)
    <3>1. remaining' \in [Writer -> Nat] /\ nap' = nap /\ UNCHANGED <<pipes, pipePruneAge, credit>>
      BY <1>0, <2>2 DEF Answer
    <3> QED
      BY <1>0, <3>1, WritersKeepInv
  <2>3. CASE Write(r)
    <3>1. CASE Throttled /\ \E lag \in 0 .. Lag : Reserve(r, KeyOf[r], lag)
      <4>1. KeyOf[r] \in Key /\ r \in Writer
        BY <1>0
      <4> QED
        BY <3>1, <4>1, ReserveKeepsInv
    <3>2. CASE Abort(r)
      BY <1>0, <3>2, AbortKeepsInv
    <3>3. CASE remaining' = [remaining EXCEPT ![r] = 0] /\ UNCHANGED <<pipes, pipePruneAge, nap, credit>>
      <4>1. remaining' \in [Writer -> Nat]
        BY <1>0, <3>3
      <4> QED
        BY <1>0, <3>3, <4>1, WritersKeepInv
    <3> QED
      BY <2>3, <3>1, <3>2, <3>3 DEF Write
  <2> QED
    BY <1>3, <2>1, <2>2, <2>3 DEF Step
<1>4. ASSUME NEW r \in Request, Disconnect(r) PROVE BandwidthInv'
  BY <1>2, <1>4 DEF Disconnect
<1>5. CASE UNCHANGED vars
  BY <1>2, <1>5 DEF vars
<1> QED
  BY <1>1, <1>3, <1>4, <1>5 DEF Next

LEMMA BandwidthInvHolds == Spec => []BandwidthInv
<1>1. Init => BandwidthInv
  BY BandwidthInvInit DEF Init
<1> QED
  BY <1>1, BandwidthInvStep, PTL DEF Spec

\* The buckets, the timers and the accounts of the bandwidth limiter are what
\* they look like, and there are never more buckets than MaxBuckets, although
\* room is only made for a key that has none.
THEOREM BandwidthTypes == Spec => []BandwidthTypeOK
<1>1. BandwidthInv => BandwidthTypeOK
  BY DEF BandwidthInv
<1> QED
  BY <1>1, BandwidthInvHolds, PTL

\* However many writers share a key, and whether its bucket was pruned and made
\* anew, no more bytes of the key get through than an ideal bucket would let, but
\* for what a late reading of the clock is worth.
THEOREM ThrottleIsRespected == Spec => []ThrottleRespected
<1>1. BandwidthInv => ThrottleRespected
  <2> SUFFICES ASSUME BandwidthInv, PruningFills, NEW k \in Key PROVE credit[k] >= -(ByteRate * Lag)
    BY DEF ThrottleRespected
  <2>1. BucketsOK(pipes, BurstBytes) /\ credit \in [Key -> Int]
    BY DEF BandwidthInv, BandwidthTypeOK, BucketsOK
  <2>2. Backed(pipes, credit, ByteRate, BurstBytes)
    BY DEF BandwidthInv
  <2> QED
    BY <2>1, <2>2, BackedDebt, BandwidthConstants
<1> QED
  BY <1>1, BandwidthInvHolds, PTL
=============================================================================
