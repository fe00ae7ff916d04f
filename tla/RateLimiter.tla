---------------------------- MODULE RateLimiter -----------------------------
(***************************************************************************)
(* traffic.RateLimiter: a token bucket per key, the least recently used    *)
(* one making room for a new key.                                          *)
(*                                                                         *)
(* Tokens are counted in units: the rate is RequestRate units per tick and *)
(* a request costs RequestCost, so that a tick may be worth a fraction of  *)
(* a request, as in the code.                                              *)
(***************************************************************************)
EXTENDS Buckets, Orders, SequencesExt

CONSTANTS
  RequestRate, RequestCost,
  Burst         \* in requests

FullBucket == Burst * RequestCost

ASSUME RateAssumption ==
  /\ RequestRate \in Nat \ {0} /\ RequestCost \in Nat \ {0} /\ Burst \in Nat \ {0}
  /\ AgeBound * RequestRate >= FullBucket + Lag * RequestRate

VARIABLES
  rateBuckets,   \* RateLimiter.buckets
  recency,       \* RateLimiter.recency, the most recently used key first
  ratePruneAge,  \* the age of lastPrune
  quota          \* history: the tokens an ideal bucket of each key would hold

rateVars == <<rateBuckets, recency, ratePruneAge, quota>>

RateTypeOK ==
  /\ DOMAIN rateBuckets \subseteq Key
  /\ \A k \in DOMAIN rateBuckets : rateBuckets[k] \in Bucket(FullBucket)
  /\ recency \in Seq(Key)
  /\ ratePruneAge \in PruneAge
  /\ quota \in [Key -> Int]

RateInit ==
  /\ rateBuckets = <<>>
  /\ recency = <<>>
  /\ ratePruneAge = PruneAgeBound
  /\ quota = [k \in Key |-> FullBucket]

\* removeBucketLocked takes a key off the list too.
KeptInOrder(keys) == Sublist(recency, keys)

\* ensureCapacityLocked: the key that makes room, if one has to.
Evicted(kept, order) ==
  IF Cardinality(DOMAIN kept) >= MaxBuckets /\ order # <<>> THEN {Last(order)} ELSE {}

\* A key without a bucket gets a full one and spends its first request.
AllowNew(k, lag) ==
  LET kept == Pruned(rateBuckets, ratePruneAge, lag)
      out == Evicted(kept, KeptInOrder(DOMAIN kept))
      left == Restrict(kept, DOMAIN kept \ out)
  IN /\ k \notin DOMAIN kept
     /\ rateBuckets' = Holding(left, k, [tokens |-> FullBucket - RequestCost, age |-> lag])
     /\ recency' = <<k>> \o KeptInOrder(DOMAIN left)
     /\ ratePruneAge' =
          IF PruneDue(ratePruneAge, lag) \/ Cardinality(DOMAIN kept) >= MaxBuckets
          THEN lag ELSE ratePruneAge
     /\ quota' = [x \in Key |->
          IF x \in out THEN FullBucket ELSE IF x = k THEN quota[x] - RequestCost ELSE quota[x]]

\* Mutant: a known key is not moved to the front.
AllowKnownInPlace(k, lag, allowed) ==
  LET kept == Pruned(rateBuckets, ratePruneAge, lag)
      bucket == Refilled(kept[k], lag, RequestRate, FullBucket)
  IN /\ k \in DOMAIN kept
     /\ allowed = (bucket.tokens >= RequestCost)
     /\ rateBuckets' = [kept EXCEPT ![k] =
          IF allowed THEN [bucket EXCEPT !.tokens = @ - RequestCost] ELSE bucket]
     /\ recency' = KeptInOrder(DOMAIN kept)
     /\ ratePruneAge' = IF PruneDue(ratePruneAge, lag) THEN lag ELSE ratePruneAge
     /\ quota' = IF allowed THEN [quota EXCEPT ![k] = @ - RequestCost] ELSE quota

\* A key with a bucket: allowed says whether it still has a token.
AllowKnown(k, lag, allowed) ==
  LET kept == Pruned(rateBuckets, ratePruneAge, lag)
      bucket == Refilled(kept[k], lag, RequestRate, FullBucket)
  IN /\ k \in DOMAIN kept
     /\ allowed = (bucket.tokens >= RequestCost)
     /\ rateBuckets' = [kept EXCEPT ![k] =
          IF allowed THEN [bucket EXCEPT !.tokens = @ - RequestCost] ELSE bucket]
     /\ recency' = <<k>> \o KeptInOrder(DOMAIN kept \ {k})
     /\ ratePruneAge' = IF PruneDue(ratePruneAge, lag) THEN lag ELSE ratePruneAge
     /\ quota' = IF allowed THEN [quota EXCEPT ![k] = @ - RequestCost] ELSE quota

\* allowAt, under the lock.
Allow(k, lag, allowed) == (allowed /\ AllowNew(k, lag)) \/ AllowKnown(k, lag, allowed)

RateTick ==
  /\ rateBuckets' = Aged(rateBuckets)
  /\ ratePruneAge' = OlderPrune(ratePruneAge)
  /\ quota' = [k \in Key |-> Least(FullBucket, quota[k] + RequestRate)]
  /\ UNCHANGED recency

RateNext ==
  \/ RateTick
  \/ \E k \in Key, lag \in 0 .. Lag, allowed \in BOOLEAN : Allow(k, lag, allowed)

RateSpec == RateInit /\ [][RateNext]_rateVars
-----------------------------------------------------------------------------
\* The list and the map hold the same keys, each once and never too many, or
\* eviction would stop finding buckets to remove; and the list is in the order
\* of last use, so that what eviction takes is idle longest, but for readings of
\* the clock that were overtaken.
RecencyKept ==
  /\ ToSet(recency) = DOMAIN rateBuckets
  /\ Len(recency) = Cardinality(DOMAIN rateBuckets)
  /\ Len(recency) <= MaxBuckets
  /\ \A i, j \in 1 .. Len(recency) :
       i < j => rateBuckets[recency[i]].age <= rateBuckets[recency[j]].age + Lag

\* No key is allowed more than an ideal bucket that is refilled all the time,
\* apart from what a late reading of the clock is worth: pruning an idle bucket
\* and creating it anew gains nothing. Eviction starts a key afresh, and so
\* would pruning a bucket before it has refilled.
PruningRefills == RequestRate * (BucketTTL - Lag) >= FullBucket
QuotaRespected == PruningRefills => \A k \in Key : quota[k] >= -(RequestRate * Lag)
=============================================================================
