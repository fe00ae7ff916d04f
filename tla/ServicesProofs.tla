--------------------------- MODULE ServicesProofs ---------------------------
(***************************************************************************)
(* Proofs about the services of the request handler that are not large     *)
(* enough for a module of their own, the rate limiter, the response cache, *)
(* the rules, the routes and the client's address, for any values of the   *)
(* constants; and that all services together, whose steps interleave, keep *)
(* what was proved of each.                                                *)
(***************************************************************************)
EXTENDS Services, AIWorkerProofs, AccessProofs, BucketProofs

-----------------------------------------------------------------------------
(* The rate limiter.                                                       *)

\* A key was used before another, but for readings of the clock that were overtaken.
Newer(buckets) ==
  {p \in (DOMAIN buckets) \X (DOMAIN buckets) :
     p[1] # p[2] /\ buckets[p[1]].age <= buckets[p[2]].age + Lag}

LEMMA NewerMeans ==
  ASSUME NEW buckets, NEW x, NEW y
  PROVE  <<x, y>> \in Newer(buckets) <=>
           /\ x \in DOMAIN buckets /\ y \in DOMAIN buckets
           /\ x # y /\ buckets[x].age <= buckets[y].age + Lag
<1> DEFINE p == <<x, y>>
<1>1. p[1] = x /\ p[2] = y
  OBVIOUS
<1>2. p \in (DOMAIN buckets) \X (DOMAIN buckets) <=> x \in DOMAIN buckets /\ y \in DOMAIN buckets
  OBVIOUS
<1> HIDE DEF p
<1>3. p \in Newer(buckets) <=>
        /\ p \in (DOMAIN buckets) \X (DOMAIN buckets)
        /\ p[1] # p[2] /\ buckets[p[1]].age <= buckets[p[2]].age + Lag
  BY DEF Newer
<1>4. p \in Newer(buckets) <=>
        /\ x \in DOMAIN buckets /\ y \in DOMAIN buckets
        /\ x # y /\ buckets[x].age <= buckets[y].age + Lag
  BY <1>1, <1>2, <1>3
<1> QED
  BY <1>4 DEF p

\* The inductive invariant. Backed bounds the debt of every key; that the list
\* has the keys of the map is what lets eviction find one.
RateInv ==
  /\ RateTypeOK
  /\ ToSet(recency) = DOMAIN rateBuckets
  /\ Follows(recency, Newer(rateBuckets))
  /\ Len(recency) <= MaxBuckets
  /\ PruningRefills => Backed(rateBuckets, quota, RequestRate, FullBucket)

LEMMA RateConstants ==
  /\ RequestRate \in Nat /\ RequestCost \in Nat /\ FullBucket \in Nat
  /\ RequestCost <= FullBucket
  /\ AgeBound * RequestRate >= FullBucket + Lag * RequestRate
  /\ MaxBuckets \in Nat \ {0} /\ Lag \in Nat /\ PruneAgeBound \in Nat /\ Lag <= PruneAgeBound
<1>1. RequestRate \in Nat /\ RequestCost \in Nat /\ Burst \in Nat /\ Burst >= 1
  BY RateAssumption
<1>2. FullBucket \in Nat
  BY <1>1 DEF FullBucket
<1>3. RequestCost <= FullBucket
  <2>1. (Burst - 1) * RequestCost \in Nat
    BY <1>1
  <2>2. (Burst - 1) * RequestCost = Burst * RequestCost - RequestCost
    BY <1>1
  <2> QED
    BY <1>1, <1>2, <2>1, <2>2 DEF FullBucket
<1>4. AgeBound * RequestRate >= FullBucket + Lag * RequestRate
  BY RateAssumption
<1>5. MaxBuckets \in Nat \ {0} /\ Lag \in Nat /\ PruneAgeBound \in Nat /\ Lag <= PruneAgeBound
  BY BucketsAssumption DEF PruneAgeBound
<1> QED
  BY <1>1, <1>2, <1>3, <1>4, <1>5

LEMMA RateTypesMean ==
  RateTypeOK <=>
    /\ BucketsOK(rateBuckets, FullBucket)
    /\ recency \in Seq(Key) /\ ratePruneAge \in PruneAge /\ quota \in [Key -> Int]
BY DEF RateTypeOK, BucketsOK

LEMMA RateTypesMeanLater ==
  RateTypeOK' <=>
    /\ BucketsOK(rateBuckets', FullBucket)
    /\ recency' \in Seq(Key) /\ ratePruneAge' \in PruneAge /\ quota' \in [Key -> Int]
BY DEF RateTypeOK, BucketsOK

\* A key that is used goes to the front of those that stay.
LEMMA UsedGoesFirst ==
  ASSUME RateInv, NEW keys, keys \subseteq DOMAIN rateBuckets, NEW k \in Key, k \notin keys,
         NEW next, BucketsOK(next, FullBucket), DOMAIN next = keys \cup {k},
         \A x \in keys : next[x] = rateBuckets[x], next[k].age <= Lag
  PROVE  LET list == <<k>> \o KeptInOrder(keys)
         IN /\ list \in Seq(Key) /\ ToSet(list) = DOMAIN next
            /\ Follows(list, Newer(next))
            /\ IsFiniteSet(DOMAIN next) /\ Len(list) = Cardinality(DOMAIN next)
<1> DEFINE part == KeptInOrder(keys)
           list == <<k>> \o part
<1>1. recency \in Seq(Key) /\ ToSet(recency) = DOMAIN rateBuckets /\ Follows(recency, Newer(rateBuckets))
  BY DEF RateInv, RateTypeOK
<1>2. part \in Seq(Key) /\ ToSet(part) = ToSet(recency) \cap keys /\ Follows(part, Newer(rateBuckets))
  BY <1>1, SublistFollows DEF KeptInOrder
<1> HIDE DEF part
<1>3. ToSet(part) = keys /\ \A i \in 1 .. Len(part) : part[i] \in keys
  <2>1. DOMAIN part = 1 .. Len(part)
    BY <1>2
  <2>2. ToSet(part) = keys
    BY <1>1, <1>2
  <2> QED
    BY <2>1, <2>2 DEF ToSet
<1>4. Follows(part, Newer(next))
  <2> SUFFICES ASSUME NEW i \in 1 .. Len(part), NEW j \in 1 .. Len(part), i < j
               PROVE  <<part[i], part[j]>> \in Newer(next)
    BY DEF Follows
  <2>1. <<part[i], part[j]>> \in Newer(rateBuckets)
    BY <1>2 DEF Follows
  <2>2. /\ part[i] \in keys /\ part[j] \in keys /\ part[i] # part[j]
        /\ rateBuckets[part[i]].age <= rateBuckets[part[j]].age + Lag
    BY <1>3, <2>1, NewerMeans
  <2> QED
    BY <2>2, NewerMeans
<1>5. \A x \in ToSet(part) : <<k, x>> \in Newer(next)
  <2> SUFFICES ASSUME NEW x \in keys PROVE <<k, x>> \in Newer(next)
    BY <1>3
  <2>1. next[k].age \in Nat /\ next[x].age \in Nat
    BY LagType DEF BucketsOK, Bucket
  <2>2. next[k].age <= next[x].age + Lag
    BY <2>1, LagType
  <2> QED
    BY <2>2, NewerMeans
<1>6. list \in Seq(Key) /\ ToSet(list) = {k} \cup ToSet(part) /\ Follows(list, Newer(next))
  BY <1>2, <1>4, <1>5, FrontFollows
<1> HIDE DEF list
<1>7. \A x \in Key : <<x, x>> \notin Newer(next)
  BY DEF Newer
<1>8. IsFiniteSet(ToSet(list)) /\ Cardinality(ToSet(list)) = Len(list)
  BY <1>6, <1>7, FollowsCount
<1> QED
  BY <1>3, <1>6, <1>8 DEF list, part

LEMMA KeysCounted ==
  ASSUME RateInv
  PROVE  IsFiniteSet(DOMAIN rateBuckets) /\ Cardinality(DOMAIN rateBuckets) = Len(recency)
<1>1. \A x \in Key : <<x, x>> \notin Newer(rateBuckets)
  BY DEF Newer
<1>2. recency \in Seq(Key) /\ Follows(recency, Newer(rateBuckets)) /\ ToSet(recency) = DOMAIN rateBuckets
  BY DEF RateInv, RateTypeOK
<1> QED
  BY <1>1, <1>2, FollowsCount

LEMMA RateInvInit == RateInit => RateInv
<1> SUFFICES ASSUME RateInit PROVE RateInv
  OBVIOUS
<1>1. rateBuckets = <<>> /\ recency = <<>> /\ quota = [k \in Key |-> FullBucket] /\ DOMAIN rateBuckets = {}
  BY DEF RateInit
<1>2. RateTypeOK
  BY <1>1, RateConstants DEF RateInit, RateTypeOK, PruneAge
<1>3. ToSet(recency) = {} /\ Len(recency) = 0
  BY <1>1 DEF ToSet
<1>4. Follows(recency, Newer(rateBuckets))
  BY <1>3 DEF Follows
<1>5. Backed(rateBuckets, quota, RequestRate, FullBucket)
  BY <1>1, RateConstants DEF Backed
<1> QED
  BY <1>1, <1>2, <1>3, <1>4, <1>5, RateConstants DEF RateInv

LEMMA RateTickKeepsInv == ASSUME RateInv, RateTick PROVE RateInv'
<1>1. BucketsOK(rateBuckets, FullBucket) /\ recency \in Seq(Key) /\ ratePruneAge \in PruneAge /\ quota \in [Key -> Int]
  BY RateTypesMean DEF RateInv
<1>2. /\ rateBuckets' = Aged(rateBuckets) /\ ratePruneAge' = OlderPrune(ratePruneAge)
      /\ quota' = [k \in Key |-> Least(FullBucket, quota[k] + RequestRate)] /\ recency' = recency
  BY DEF RateTick
<1>3. /\ BucketsOK(rateBuckets', FullBucket) /\ DOMAIN rateBuckets' = DOMAIN rateBuckets
      /\ \A k \in DOMAIN rateBuckets : rateBuckets'[k].age = Least(rateBuckets[k].age + 1, AgeBound)
      /\ Backed(rateBuckets, quota, RequestRate, FullBucket) =>
           Backed(rateBuckets', quota', RequestRate, FullBucket)
  <2>1. RequestRate \in Nat /\ FullBucket \in Nat /\ AgeBound * RequestRate >= FullBucket + Lag * RequestRate
    BY RateConstants
  <2>2. /\ BucketsOK(Aged(rateBuckets), FullBucket)
        /\ DOMAIN Aged(rateBuckets) = DOMAIN rateBuckets
        /\ \A k \in DOMAIN rateBuckets : Aged(rateBuckets)[k].age = Least(rateBuckets[k].age + 1, AgeBound)
        /\ Backed(rateBuckets, quota, RequestRate, FullBucket) =>
             Backed(Aged(rateBuckets), [k \in Key |-> Least(FullBucket, quota[k] + RequestRate)],
                    RequestRate, FullBucket)
    BY <1>1, <2>1, AgedBacked
  <2> QED
    BY <1>2, <2>2
<1>4. RateTypeOK'
  <2>1. quota' \in [Key -> Int]
    BY <1>1, <1>2, RateConstants DEF Least
  <2> QED
    BY <1>1, <1>2, <1>3, <2>1, PruneAges, RateTypesMeanLater
<1>5. \A x, y : <<x, y>> \in Newer(rateBuckets) => <<x, y>> \in Newer(rateBuckets')
  <2> SUFFICES ASSUME NEW x \in DOMAIN rateBuckets, NEW y \in DOMAIN rateBuckets, x # y,
                      rateBuckets[x].age <= rateBuckets[y].age + Lag
               PROVE  rateBuckets'[x].age <= rateBuckets'[y].age + Lag
    BY <1>3, NewerMeans
  <2>1. rateBuckets[x].age \in Nat /\ rateBuckets[y].age \in Nat
    BY <1>1, LagType DEF BucketsOK, Bucket
  <2> QED
    BY <1>3, <2>1, LagType DEF Least
<1>6. Follows(recency', Newer(rateBuckets'))
  BY <1>2, <1>5 DEF RateInv, Follows
<1>7. PruningRefills' <=> PruningRefills
  BY DEF PruningRefills
<1> QED
  BY <1>2, <1>3, <1>4, <1>6, <1>7 DEF RateInv

\* A key that has a bucket.
LEMMA AllowKnownKeepsInv ==
  ASSUME RateInv, NEW k \in Key, NEW lag \in 0 .. Lag, NEW allowed \in BOOLEAN,
         AllowKnown(k, lag, allowed)
  PROVE  RateInv'
<1> DEFINE kept == Pruned(rateBuckets, ratePruneAge, lag)
           used == Refilled(kept[k], lag, RequestRate, FullBucket)
           bucket == IF allowed THEN [used EXCEPT !.tokens = @ - RequestCost] ELSE used
           keys == DOMAIN kept \ {k}
<1>1. BucketsOK(rateBuckets, FullBucket) /\ recency \in Seq(Key) /\ ratePruneAge \in PruneAge /\ quota \in [Key -> Int]
  BY RateTypesMean DEF RateInv
<1>2. /\ k \in DOMAIN kept
      /\ allowed = (used.tokens >= RequestCost)
      /\ rateBuckets' = [kept EXCEPT ![k] = bucket]
      /\ recency' = <<k>> \o KeptInOrder(keys)
      /\ ratePruneAge' = IF PruneDue(ratePruneAge, lag) THEN lag ELSE ratePruneAge
      /\ quota' = IF allowed THEN [quota EXCEPT ![k] = @ - RequestCost] ELSE quota
  BY DEF AllowKnown
<1>3. /\ BucketsOK(kept, FullBucket) /\ DOMAIN kept \subseteq DOMAIN rateBuckets
      /\ \A x \in DOMAIN kept : kept[x] = rateBuckets[x]
  BY <1>1, PrunedOK
<1>4. PruningRefills => Backed(kept, quota, RequestRate, FullBucket)
  BY <1>1, RateConstants, PrunedBacked DEF RateInv, PruningRefills
<1> HIDE DEF kept
<1>5. kept[k] \in Bucket(FullBucket)
  BY <1>2, <1>3 DEF BucketsOK
<1>6. /\ used \in Bucket(FullBucket) /\ used.age <= lag
      /\ used.tokens + (used.age - Lag) * RequestRate <= Worth(kept[k], RequestRate, FullBucket)
  BY <1>5, RefillBacked, RateConstants
<1> HIDE DEF used
<1>7. /\ bucket \in Bucket(FullBucket) /\ bucket.age = used.age
      /\ bucket.tokens = IF allowed THEN used.tokens - RequestCost ELSE used.tokens
  <2>1. used \in [tokens : 0 .. FullBucket, age : 0 .. AgeBound] /\ used.tokens \in 0 .. FullBucket
    BY <1>6 DEF Bucket
  <2>2. CASE allowed
    <3>0. used.tokens >= RequestCost
      BY <1>2, <2>2, Zenon
    <3>1. used.tokens - RequestCost \in 0 .. FullBucket
      BY <2>1, <3>0, RateConstants
    <3>2. bucket = [used EXCEPT !.tokens = used.tokens - RequestCost]
      BY <2>2
    <3> HIDE DEF bucket
    <3> QED
      BY <2>1, <2>2, <3>1, <3>2 DEF Bucket
  <2>3. CASE ~allowed
    BY <1>6, <2>3
  <2> QED
    BY <2>2, <2>3
<1> HIDE DEF bucket
<1>8. rateBuckets' = Holding(kept, k, bucket)
  BY <1>2 DEF Holding
<1>9. BucketsOK(rateBuckets', FullBucket)
  BY <1>3, <1>7, <1>8, HoldingOK
<1>10. /\ DOMAIN rateBuckets' = keys \cup {k}
       /\ \A x \in keys : rateBuckets'[x] = rateBuckets[x]
       /\ rateBuckets'[k].age <= Lag
  <2>1. DOMAIN rateBuckets' = keys \cup {k} /\ rateBuckets'[k] = bucket
    BY <1>2
  <2>2. \A x \in keys : rateBuckets'[x] = rateBuckets[x]
    BY <1>2, <1>3
  <2>3. bucket.age <= Lag
    BY <1>6, <1>7, LagType DEF Bucket
  <2> QED
    BY <2>1, <2>2, <2>3
<1>11. keys \subseteq DOMAIN rateBuckets /\ k \notin keys
  BY <1>3
<1>12. /\ recency' \in Seq(Key) /\ ToSet(recency') = DOMAIN rateBuckets'
       /\ Follows(recency', Newer(rateBuckets'))
       /\ IsFiniteSet(DOMAIN rateBuckets') /\ Len(recency') = Cardinality(DOMAIN rateBuckets')
  <2> HIDE DEF keys
  <2>1. LET list == <<k>> \o KeptInOrder(keys)
        IN /\ list \in Seq(Key) /\ ToSet(list) = DOMAIN rateBuckets'
           /\ Follows(list, Newer(rateBuckets'))
           /\ IsFiniteSet(DOMAIN rateBuckets') /\ Len(list) = Cardinality(DOMAIN rateBuckets')
    BY <1>9, <1>10, <1>11, UsedGoesFirst
  <2> QED
    BY <1>2, <2>1
<1>13. Len(recency') <= MaxBuckets
  <2>1. DOMAIN rateBuckets' \subseteq DOMAIN rateBuckets
    BY <1>2, <1>3
  <2>2. IsFiniteSet(DOMAIN rateBuckets) /\ Cardinality(DOMAIN rateBuckets) <= MaxBuckets
    BY KeysCounted DEF RateInv
  <2>3. Cardinality(DOMAIN rateBuckets') <= Cardinality(DOMAIN rateBuckets)
    BY <2>1, <2>2, FS_Subset
  <2> QED
    BY <1>12, <2>2, <2>3, FS_CardinalityType, RateConstants
<1>14. quota' \in [Key -> Int] /\ \A x \in Key \ {k} : quota'[x] = quota[x]
  BY <1>1, <1>2, RateConstants
<1>15. quota'[k] = IF allowed THEN quota[k] - RequestCost ELSE quota[k]
  BY <1>1, <1>2
<1>16. ASSUME PruningRefills PROVE Backed(rateBuckets', quota', RequestRate, FullBucket)
  <2>1. Worth(kept[k], RequestRate, FullBucket) <= quota[k] /\ quota[k] <= FullBucket
    BY <1>2, <1>4, <1>16 DEF Backed
  <2> DEFINE late == (used.age - Lag) * RequestRate
  <2>2. late \in Int /\ used.tokens + late <= quota[k] /\ quota[k] \in Int /\ used.tokens \in Nat
    <3>1. used.age - Lag \in Int /\ used.tokens \in Nat /\ kept[k].tokens \in Nat /\ kept[k].age - Lag \in Int
      BY <1>5, <1>6, LagType, RateConstants DEF Bucket
    <3>2. late \in Int /\ (kept[k].age - Lag) * RequestRate \in Int
      BY <3>1, RateConstants
    <3>3. Worth(kept[k], RequestRate, FullBucket) \in Int
      <4> DEFINE gain == (kept[k].age - Lag) * RequestRate
      <4>1. Worth(kept[k], RequestRate, FullBucket) = Least(FullBucket, kept[k].tokens + gain) /\ gain \in Int
        BY <3>2 DEF Worth
      <4> HIDE DEF gain
      <4> QED
        BY <3>1, <4>1, RateConstants DEF Least
    <3> QED
      BY <1>1, <1>6, <2>1, <3>1, <3>2, <3>3
  <2>3. Worth(bucket, RequestRate, FullBucket) <= quota'[k] /\ quota'[k] <= FullBucket
    <3>1. Worth(bucket, RequestRate, FullBucket) = Least(FullBucket, bucket.tokens + late)
      BY <1>7 DEF Worth
    <3> HIDE DEF late
    <3>2. bucket.tokens + late <= quota'[k] /\ quota'[k] <= FullBucket /\ quota'[k] \in Int
      BY <1>7, <1>15, <2>1, <2>2, RateConstants
    <3>3. bucket.tokens \in Int
      BY <1>7, <2>2, RateConstants
    <3> QED
      BY <2>2, <3>1, <3>2, <3>3, RateConstants DEF Least
  <2> QED
    BY <1>1, <1>3, <1>4, <1>7, <1>8, <1>14, <1>16, <2>3, HoldingBacked, RateConstants
<1>17. RateTypeOK'
  <2>1. ratePruneAge' \in PruneAge
    BY <1>1, <1>2, PruneAges
  <2> QED
    BY <1>9, <1>12, <1>14, <2>1, RateTypesMeanLater
<1>18. PruningRefills' <=> PruningRefills
  BY DEF PruningRefills
<1> QED
  BY <1>12, <1>13, <1>16, <1>17, <1>18 DEF RateInv

\* A key that gets a bucket.
LEMMA AllowNewKeepsInv ==
  ASSUME RateInv, NEW k \in Key, NEW lag \in 0 .. Lag, AllowNew(k, lag)
  PROVE  RateInv'
<1> DEFINE kept == Pruned(rateBuckets, ratePruneAge, lag)
           order == KeptInOrder(DOMAIN kept)
           out == Evicted(kept, order)
           left == Restrict(kept, DOMAIN kept \ out)
           keys == DOMAIN left
           bucket == [tokens |-> FullBucket - RequestCost, age |-> lag]
           forgiven == [x \in Key |-> IF x \in out THEN FullBucket ELSE quota[x]]
<1>1. BucketsOK(rateBuckets, FullBucket) /\ recency \in Seq(Key) /\ ratePruneAge \in PruneAge /\ quota \in [Key -> Int]
  BY RateTypesMean DEF RateInv
<1>2. /\ k \notin DOMAIN kept
      /\ rateBuckets' = Holding(left, k, bucket)
      /\ recency' = <<k>> \o KeptInOrder(keys)
      /\ ratePruneAge' =
           IF PruneDue(ratePruneAge, lag) \/ Cardinality(DOMAIN kept) >= MaxBuckets
           THEN lag ELSE ratePruneAge
      /\ quota' = [x \in Key |->
           IF x \in out THEN FullBucket ELSE IF x = k THEN quota[x] - RequestCost ELSE quota[x]]
  BY DEF AllowNew
<1>3. /\ BucketsOK(kept, FullBucket) /\ DOMAIN kept \subseteq DOMAIN rateBuckets
      /\ \A x \in DOMAIN kept : kept[x] = rateBuckets[x]
  BY <1>1, PrunedOK
<1>4. PruningRefills => Backed(kept, quota, RequestRate, FullBucket)
  BY <1>1, RateConstants, PrunedBacked DEF RateInv, PruningRefills
<1>5. order \in Seq(Key) /\ ToSet(order) = DOMAIN kept
  <2>0. Follows(recency, Newer(rateBuckets))
    BY DEF RateInv
  <2>1. ToSet(order) = ToSet(recency) \cap DOMAIN kept /\ order \in Seq(Key)
    <3> HIDE DEF kept
    <3> QED
      BY <1>1, <2>0, SublistFollows DEF KeptInOrder
  <2> QED
    BY <1>3, <2>1 DEF RateInv
<1> HIDE DEF kept, order
<1>6. out \subseteq DOMAIN kept /\ (Cardinality(DOMAIN kept) >= MaxBuckets => \E x \in DOMAIN kept : out = {x})
  <2>1. order # <<>> => Last(order) \in DOMAIN kept
    <3> SUFFICES ASSUME order # <<>> PROVE Last(order) \in DOMAIN kept
      OBVIOUS
    <3>1. Len(order) \in DOMAIN order
      BY <1>5, EmptySeq
    <3> QED
      BY <1>5, <3>1 DEF Last, ToSet
  <2>2. Cardinality(DOMAIN kept) >= MaxBuckets => order # <<>>
    <3> SUFFICES ASSUME order = <<>> PROVE ~(Cardinality(DOMAIN kept) >= MaxBuckets)
      OBVIOUS
    <3>1. ToSet(order) = {}
      BY DEF ToSet
    <3>2. Cardinality(DOMAIN kept) = 0
      BY <1>5, <3>1, FS_EmptySet
    <3> QED
      BY <3>2, RateConstants
  <2> QED
    BY <2>1, <2>2 DEF Evicted
<1> HIDE DEF out
<1>7. /\ keys = DOMAIN kept \ out /\ BucketsOK(left, FullBucket)
      /\ \A x \in keys : left[x] = kept[x]
  BY <1>3, PartOK
<1> HIDE DEF left
<1>8. bucket \in Bucket(FullBucket)
  BY RateConstants, LagType DEF Bucket
<1>9. BucketsOK(rateBuckets', FullBucket)
  BY <1>2, <1>7, <1>8, HoldingOK
<1>10. /\ DOMAIN rateBuckets' = keys \cup {k}
       /\ \A x \in keys : rateBuckets'[x] = rateBuckets[x]
       /\ rateBuckets'[k].age <= Lag
  <2>1. DOMAIN rateBuckets' = keys \cup {k} /\ rateBuckets'[k] = bucket
    BY <1>2 DEF Holding
  <2>2. \A x \in keys : rateBuckets'[x] = rateBuckets[x]
    BY <1>2, <1>3, <1>7 DEF Holding
  <2>3. bucket.age <= Lag
    BY LagType
  <2> QED
    BY <2>1, <2>2, <2>3
<1>11. keys \subseteq DOMAIN rateBuckets /\ k \notin keys
  BY <1>2, <1>3, <1>7
<1>12. /\ recency' \in Seq(Key) /\ ToSet(recency') = DOMAIN rateBuckets'
       /\ Follows(recency', Newer(rateBuckets'))
       /\ IsFiniteSet(DOMAIN rateBuckets') /\ Len(recency') = Cardinality(DOMAIN rateBuckets')
  <2> HIDE DEF keys
  <2>1. LET list == <<k>> \o KeptInOrder(keys)
        IN /\ list \in Seq(Key) /\ ToSet(list) = DOMAIN rateBuckets'
           /\ Follows(list, Newer(rateBuckets'))
           /\ IsFiniteSet(DOMAIN rateBuckets') /\ Len(list) = Cardinality(DOMAIN rateBuckets')
    BY <1>9, <1>10, <1>11, UsedGoesFirst
  <2> QED
    BY <1>2, <2>1
<1>13. Len(recency') <= MaxBuckets
  <2>1. IsFiniteSet(DOMAIN rateBuckets) /\ Cardinality(DOMAIN rateBuckets) <= MaxBuckets
    BY KeysCounted DEF RateInv
  <2>2. IsFiniteSet(DOMAIN kept) /\ Cardinality(DOMAIN kept) <= Cardinality(DOMAIN rateBuckets)
    BY <1>3, <2>1, FS_Subset
  <2>3. Cardinality(DOMAIN kept) \in Nat /\ Cardinality(DOMAIN rateBuckets) \in Nat
    BY <2>1, <2>2, FS_CardinalityType
  <2>4. IsFiniteSet(keys) /\ Cardinality(keys) < MaxBuckets
    <3>1. CASE Cardinality(DOMAIN kept) >= MaxBuckets
      <4>1. PICK x \in DOMAIN kept : out = {x}
        BY <1>6, <3>1
      <4>2. IsFiniteSet(DOMAIN kept \ {x}) /\ Cardinality(DOMAIN kept \ {x}) = Cardinality(DOMAIN kept) - 1
        BY <2>2, FS_RemoveElement
      <4> QED
        BY <1>7, <2>1, <2>2, <2>3, <4>1, <4>2, RateConstants
    <3>2. CASE ~(Cardinality(DOMAIN kept) >= MaxBuckets)
      <4>1. keys \in SUBSET DOMAIN kept
        BY <1>7
      <4>2. IsFiniteSet(keys) /\ Cardinality(keys) <= Cardinality(DOMAIN kept)
        BY <2>2, <4>1, FS_Subset
      <4>3. Cardinality(keys) \in Nat
        BY <4>2, FS_CardinalityType
      <4> QED
        BY <2>3, <3>2, <4>2, <4>3, RateConstants
    <3> QED
      BY <3>1, <3>2
  <2>5. Cardinality(keys \cup {k}) = Cardinality(keys) + 1 /\ Cardinality(keys) \in Nat
    BY <1>11, <2>4, FS_AddElement, FS_CardinalityType
  <2> QED
    BY <1>10, <1>12, <2>4, <2>5, RateConstants
<1>14. /\ quota' \in [Key -> Int] /\ forgiven \in [Key -> Int]
       /\ \A x \in Key \ {k} : quota'[x] = forgiven[x]
       /\ quota'[k] = quota[k] - RequestCost
  BY <1>1, <1>2, <1>6, RateConstants
<1>15. ASSUME PruningRefills PROVE Backed(rateBuckets', quota', RequestRate, FullBucket)
  <2>1. Backed(kept, quota, RequestRate, FullBucket) /\ quota[k] = FullBucket
    BY <1>2, <1>4, <1>15 DEF Backed
  <2>2. Backed(left, forgiven, RequestRate, FullBucket)
    BY <1>3, <1>7, <2>1, RateConstants DEF Backed, BucketsOK
  <2>3. Worth(bucket, RequestRate, FullBucket) <= quota'[k] /\ quota'[k] <= FullBucket
    <3>1. Lag - lag \in Nat /\ (Lag - lag) * RequestRate \in Nat
      BY RateConstants
    <3>2. (lag - Lag) * RequestRate = -((Lag - lag) * RequestRate)
      BY RateConstants
    <3> DEFINE late == (lag - Lag) * RequestRate
    <3>3. late \in Int /\ late <= 0
      BY <3>1, <3>2
    <3>4. Worth(bucket, RequestRate, FullBucket) = Least(FullBucket, FullBucket - RequestCost + late)
      BY DEF Worth
    <3> HIDE DEF late
    <3> QED
      BY <1>14, <2>1, <3>3, <3>4, RateConstants DEF Least
  <2> HIDE DEF bucket, forgiven
  <2> QED
    BY <1>2, <1>7, <1>8, <1>14, <2>2, <2>3, HoldingBacked, RateConstants
<1>16. RateTypeOK'
  <2>1. ratePruneAge' \in PruneAge
    BY <1>1, <1>2, PruneAges
  <2> QED
    BY <1>9, <1>12, <1>14, <2>1, RateTypesMeanLater
<1>17. PruningRefills' <=> PruningRefills
  BY DEF PruningRefills
<1> QED
  BY <1>12, <1>13, <1>15, <1>16, <1>17 DEF RateInv

LEMMA RateInvStep == RateInv /\ [RateNext]_rateVars => RateInv'
<1> SUFFICES ASSUME RateInv, [RateNext]_rateVars PROVE RateInv'
  OBVIOUS
<1>1. CASE RateTick
  BY <1>1, RateTickKeepsInv
<1>2. CASE \E k \in Key, lag \in 0 .. Lag, allowed \in BOOLEAN : Allow(k, lag, allowed)
  BY <1>2, AllowNewKeepsInv, AllowKnownKeepsInv DEF Allow
<1>3. CASE UNCHANGED rateVars
  BY <1>3 DEF rateVars, RateInv, RateTypeOK, PruningRefills
<1> QED
  BY <1>1, <1>2, <1>3 DEF RateNext

LEMMA RateInvHolds == RateSpec => []RateInv
BY RateInvInit, RateInvStep, PTL DEF RateSpec

\* The buckets, the list of keys and the accounts are what they look like.
THEOREM RateTypes == RateSpec => []RateTypeOK
<1>1. RateInv => RateTypeOK
  BY DEF RateInv
<1> QED
  BY <1>1, RateInvHolds, PTL

\* Allow never gives a key more requests than an ideal bucket would, but for what
\* a late reading of the clock is worth, although buckets are pruned and made anew.
THEOREM QuotaIsRespected == RateSpec => []QuotaRespected
<1>1. RateInv => QuotaRespected
  <2> SUFFICES ASSUME RateInv, PruningRefills, NEW k \in Key PROVE quota[k] >= -(RequestRate * Lag)
    BY DEF QuotaRespected
  <2>1. BucketsOK(rateBuckets, FullBucket) /\ quota \in [Key -> Int]
    BY RateTypesMean DEF RateInv
  <2>2. Backed(rateBuckets, quota, RequestRate, FullBucket)
    BY DEF RateInv
  <2> QED
    BY <2>1, <2>2, BackedDebt, RateConstants
<1> QED
  BY <1>1, RateInvHolds, PTL

\* The list eviction takes its victim from holds the keys of the map, each once,
\* never too many and in the order of their last use.
THEOREM RecencyIsKept == RateSpec => []RecencyKept
<1>1. RateInv => RecencyKept
  <2> SUFFICES ASSUME RateInv PROVE RecencyKept
    OBVIOUS
  <2>1. ASSUME NEW i \in 1 .. Len(recency), NEW j \in 1 .. Len(recency), i < j
        PROVE  rateBuckets[recency[i]].age <= rateBuckets[recency[j]].age + Lag
    <3>1. <<recency[i], recency[j]>> \in Newer(rateBuckets)
      BY <2>1 DEF RateInv, Follows
    <3> QED
      BY <3>1, NewerMeans
  <2> QED
    BY <2>1, KeysCounted DEF RateInv, RecencyKept
<1> QED
  BY <1>1, RateInvHolds, PTL

-----------------------------------------------------------------------------
(* The response cache.                                                     *)

\* Each page is in a list once.
PagesDiffer(list) == \A i, j \in 1 .. Len(list) : list[i].url = list[j].url => i = j

\* An entry was stored in the past, for no longer than allowed.
InTime(e) ==
  /\ e.stored <= cacheClock
  /\ e.expires <= e.stored + StoreTTL
  /\ e.expires <= e.stored + e.declared * Second

Sound(list) ==
  /\ list \in Seq(Entry)
  /\ PagesDiffer(list)
  /\ \A i \in 1 .. Len(list) : InTime(list[i])

\* A handler has got no further than what has been open since its request came
\* in let it.
Permitted(f) ==
  /\ fetch[f].at # "idle" => open \subseteq chance[f]
  /\ fetch[f].at = "route" => "rules" \in chance[f]
  /\ fetch[f].at = "lookup" => chance[f] = Gates

\* The inductive invariant.
CacheInv ==
  /\ CacheTypeOK
  /\ Sound(lru)
  /\ Len(lru) <= MaxEntries
  /\ \A f \in Fetch : Permitted(f)
-----------------------------------------------------------------------------
\* Lemmas about lists and numbers.

LEMMA RemoveAtElements ==
  ASSUME NEW R, NEW s \in Seq(R), NEW i \in 1 .. Len(s)
  PROVE  /\ RemoveAt(s, i) \in Seq(R)
         /\ Len(RemoveAt(s, i)) = Len(s) - 1
         /\ \A j \in 1 .. Len(s) - 1 : RemoveAt(s, i)[j] = IF j < i THEN s[j] ELSE s[j + 1]
<1> DEFINE before == SubSeq(s, 1, i - 1)
           after == SubSeq(s, i + 1, Len(s))
<1>1. before \in Seq(R) /\ Len(before) = i - 1 /\ \A j \in 1 .. i - 1 : before[j] = s[j]
  OBVIOUS
<1>2. /\ after \in Seq(R) /\ Len(after) = Len(s) - i
      /\ \A j \in 1 .. Len(s) - i : after[j] = s[i + j]
  OBVIOUS
<1> HIDE DEF before, after
<1>3. /\ before \o after \in Seq(R) /\ Len(before \o after) = Len(s) - 1
      /\ \A j \in 1 .. Len(s) - 1 :
           (before \o after)[j] = IF j <= Len(before) THEN before[j] ELSE after[j - Len(before)]
  <2>1. Len(before) + Len(after) = Len(s) - 1
    BY <1>1, <1>2
  <2>2. before \in Seq(R) /\ after \in Seq(R)
    BY <1>1, <1>2
  <2>3. /\ before \o after \in Seq(R)
        /\ Len(before \o after) = Len(before) + Len(after)
        /\ \A j \in 1 .. Len(before) + Len(after) :
             (before \o after)[j] = IF j <= Len(before) THEN before[j] ELSE after[j - Len(before)]
    BY <2>2, ConcatProperties
  <2> QED
    BY <2>1, <2>3
<1>4. \A j \in 1 .. Len(s) - 1 : (before \o after)[j] = IF j < i THEN s[j] ELSE s[j + 1]
  <2> SUFFICES ASSUME NEW j \in 1 .. Len(s) - 1
               PROVE  (before \o after)[j] = IF j < i THEN s[j] ELSE s[j + 1]
    OBVIOUS
  <2>1. CASE j < i
    BY <1>1, <1>3, <2>1
  <2>2. CASE ~(j < i)
    <3>1. j - (i - 1) \in 1 .. Len(s) - i /\ i + (j - (i - 1)) = j + 1
      BY <2>2
    <3> QED
      BY <1>1, <1>2, <1>3, <2>2, <3>1
  <2> QED
    BY <2>1, <2>2
<1> QED
  BY <1>3, <1>4 DEF RemoveAt, before, after

\* What is left of a sound list without a page's entry.
LEMMA OthersSound ==
  ASSUME CacheInv, NEW url \in Url
  PROVE  /\ Sound(Others(url))
         /\ Len(Others(url)) <= Len(lru)
         /\ Found(url) # {} => Len(Others(url)) + 1 = Len(lru)
         /\ \A k \in 1 .. Len(Others(url)) : Others(url)[k].url # url
<1> DEFINE places == {i \in 1 .. Len(lru) : lru[i].url = url}
<1>1. lru \in Seq(Entry) /\ PagesDiffer(lru) /\ \A i \in 1 .. Len(lru) : InTime(lru[i])
  BY DEF CacheInv, Sound
<1>2. CASE places = {}
  <2>1. Others(url) = lru
    BY <1>2 DEF Others
  <2>2. Found(url) = {}
    BY <1>1, <1>2 DEF Found, ToSet
  <2> QED
    BY <1>1, <1>2, <2>1, <2>2 DEF Sound
<1>3. CASE places # {}
  <2> DEFINE i == CHOOSE k \in places : TRUE
  <2>1. i \in 1 .. Len(lru) /\ lru[i].url = url
    BY <1>3
  <2>2. Others(url) = RemoveAt(lru, i)
    BY <1>3 DEF Others
  <2> HIDE DEF i
  <2>3. /\ Others(url) \in Seq(Entry) /\ Len(Others(url)) = Len(lru) - 1
        /\ \A k \in 1 .. Len(lru) - 1 : Others(url)[k] = IF k < i THEN lru[k] ELSE lru[k + 1]
    BY <1>1, <2>1, <2>2, RemoveAtElements
  <2> DEFINE place(k) == IF k < i THEN k ELSE k + 1
  <2>4. ASSUME NEW k \in 1 .. Len(Others(url))
        PROVE  place(k) \in 1 .. Len(lru) /\ place(k) # i /\ Others(url)[k] = lru[place(k)]
    <3>1. k \in 1 .. Len(lru) - 1 /\ Len(lru) \in Nat
      BY <1>1, <2>1, <2>3
    <3>2. place(k) \in 1 .. Len(lru) /\ place(k) # i
      BY <2>1, <3>1
    <3> QED
      BY <2>3, <3>1, <3>2
  <2>5. \A k, l \in 1 .. Len(Others(url)) : place(k) = place(l) => k = l
    <3>1. Len(Others(url)) \in Nat
      BY <1>1, <2>1, <2>3
    <3> QED
      BY <2>1, <3>1
  <2> HIDE DEF place
  <2>6. PagesDiffer(Others(url))
    BY <1>1, <2>4, <2>5 DEF PagesDiffer
  <2>7. \A k \in 1 .. Len(Others(url)) : InTime(Others(url)[k])
    BY <1>1, <2>4
  <2>8. \A k \in 1 .. Len(Others(url)) : Others(url)[k].url # url
    BY <1>1, <2>1, <2>4 DEF PagesDiffer
  <2> QED
    BY <1>1, <2>3, <2>6, <2>7, <2>8 DEF Sound
<1> QED
  BY <1>2, <1>3

\* A page's entry goes to the front of the others.
LEMMA InFrontSound ==
  ASSUME NEW e \in Entry, InTime(e), NEW list, Sound(list),
         \A k \in 1 .. Len(list) : list[k].url # e.url
  PROVE  Sound(<<e>> \o list) /\ Len(<<e>> \o list) = Len(list) + 1
<1> DEFINE longer == <<e>> \o list
<1>1. list \in Seq(Entry)
  BY DEF Sound
<1>2. /\ longer \in Seq(Entry) /\ Len(longer) = Len(list) + 1 /\ longer[1] = e
      /\ \A k \in 2 .. Len(longer) : longer[k] = list[k - 1]
  BY <1>1
<1> HIDE DEF longer
<1>3. \A k \in 2 .. Len(longer) : k - 1 \in 1 .. Len(list)
  BY <1>1, <1>2
<1>4. PagesDiffer(longer)
  <2> SUFFICES ASSUME NEW i \in 1 .. Len(longer), NEW j \in 1 .. Len(longer), longer[i].url = longer[j].url
               PROVE  i = j
    BY DEF PagesDiffer
  <2>1. CASE i = 1 \/ j = 1
    <3>1. \A k \in 2 .. Len(longer) : longer[k].url # longer[1].url
      BY <1>2, <1>3
    <3>2. i = 1 \/ i \in 2 .. Len(longer)
      BY <1>1, <1>2
    <3>3. j = 1 \/ j \in 2 .. Len(longer)
      BY <1>1, <1>2
    <3> QED
      BY <2>1, <3>1, <3>2, <3>3
  <2>2. CASE i # 1 /\ j # 1
    <3>1. i \in 2 .. Len(longer) /\ j \in 2 .. Len(longer)
      BY <1>1, <1>2, <2>2
    <3>2. i - 1 = j - 1
      BY <1>2, <1>3, <3>1 DEF Sound, PagesDiffer
    <3> QED
      BY <3>1, <3>2
  <2> QED
    BY <2>1, <2>2
<1>5. \A k \in 1 .. Len(longer) : InTime(longer[k])
  <2> SUFFICES ASSUME NEW k \in 1 .. Len(longer) PROVE InTime(longer[k])
    OBVIOUS
  <2>1. k = 1 \/ k \in 2 .. Len(longer)
    BY <1>1, <1>2
  <2> QED
    BY <1>2, <1>3, <2>1 DEF Sound
<1> QED
  BY <1>2, <1>4, <1>5 DEF Sound, longer

LEMMA FrontSound ==
  ASSUME NEW list, Sound(list), list # << >>
  PROVE  Sound(Front(list)) /\ Len(Front(list)) = Len(list) - 1
<1>1. list \in Seq(Entry) /\ Len(list) \in Nat \ {0}
  BY DEF Sound
<1>2. /\ Front(list) \in Seq(Entry) /\ Len(Front(list)) = Len(list) - 1
      /\ \A k \in 1 .. Len(list) - 1 : Front(list)[k] = list[k]
  <2> DEFINE n == Len(list) - 1
  <2>1. n \in 0 .. Len(list) /\ Len(list) \in Nat
    BY <1>1
  <2> HIDE DEF n
  <2>2. /\ SubSeq(list, 1, n) \in Seq(Entry) /\ Len(SubSeq(list, 1, n)) = n
        /\ \A k \in 1 .. n : SubSeq(list, 1, n)[k] = list[k]
    BY <1>1, <2>1
  <2> QED
    BY <2>2 DEF Front, n
<1> QED
  BY <1>1, <1>2 DEF Sound, PagesDiffer

\* A machine's product is no larger than the product.
LEMMA MachineIsNoLarger ==
  ASSUME NEW n \in Nat
  PROVE  Machine(n) \in Int /\ Machine(n) <= n
<1> DEFINE half == Wrap \div 2
           m == n + half
<1>1. Wrap \in Nat /\ Wrap > 0 /\ half \in Nat
  BY CacheAssumption
<1> HIDE DEF half
<1>2. m \in Nat
  BY <1>1
<1> HIDE DEF m
<1>3. m % Wrap \in 0 .. Wrap - 1 /\ m % Wrap <= m
  BY <1>1, <1>2
<1> QED
  BY <1>1, <1>2, <1>3 DEF Machine, half, m

LEMMA SharedTTLBounds ==
  ASSUME NEW declared \in Lifetimes
  PROVE  /\ SharedTTL(declared) \in Int
         /\ SharedTTL(declared) <= StoreTTL
         /\ SharedTTL(declared) <= declared * Second
<1> DEFINE n == declared * Second
<1>1. n \in Nat /\ StoreTTL \in Nat
  BY CacheAssumption
<1> HIDE DEF n
<1>2. Machine(n) \in Int /\ Machine(n) <= n
  BY <1>1, MachineIsNoLarger
<1> QED
  BY <1>1, <1>2 DEF SharedTTL, n
-----------------------------------------------------------------------------
\* The invariant.

LEMMA InitCacheInv == CacheInit => CacheInv
BY CacheAssumption DEF CacheInit, CacheInv, CacheTypeOK, Sound, PagesDiffer, Permitted, At, Gates, Entry

LEMMA EntriesTyped ==
  ASSUME CacheInv, NEW e \in ToSet(lru)
  PROVE  /\ e \in Entry /\ InTime(e)
         /\ e.url \in Url /\ e.stored \in Nat /\ e.expires \in Nat /\ e.declared \in Lifetimes
<1>1. lru \in Seq(Entry) /\ \A i \in 1 .. Len(lru) : InTime(lru[i])
  BY DEF CacheInv, Sound
<1>2. PICK i \in 1 .. Len(lru) : e = lru[i]
  BY <1>1 DEF ToSet
<1>3. e \in Entry /\ InTime(e)
  BY <1>1, <1>2
<1> QED
  BY <1>3 DEF Entry

LEMMA CacheConstants ==
  /\ MaxEntries \in Nat \ {0} /\ StoreTTL \in Nat
  /\ \A declared \in Lifetimes : declared \in Nat /\ declared * Second \in Nat
<1>1. Second \in Nat /\ MaxEntries \in Nat \ {0} /\ StoreTTL \in Nat /\ Lifetimes \subseteq Nat
  BY CacheAssumption
<1> QED
  BY <1>1

\* Steps that leave the list and the clock alone.
LEMMA ListUntouched ==
  ASSUME CacheInv, UNCHANGED <<lru, cacheClock>>
  PROVE  Sound(lru)' /\ Len(lru') <= MaxEntries
BY DEF CacheInv, Sound, PagesDiffer, InTime

\* Steps of one handler that change neither what is open nor what had a chance.
LEMMA OneMoves ==
  ASSUME CacheInv, NEW f \in Fetch, NEW where, Goes(f, where), UNCHANGED <<open, chance>>,
         where.at = "route" => "rules" \in chance[f],
         where.at = "lookup" => chance[f] = Gates,
         fetch[f].at # "idle" \/ where.at = "idle"
  PROVE  \A g \in Fetch : Permitted(g)'
<1> SUFFICES ASSUME NEW g \in Fetch PROVE Permitted(g)'
  OBVIOUS
<1>1. fetch'[g] = IF g = f THEN where ELSE fetch[g]
  BY DEF Goes, CacheInv, CacheTypeOK
<1> QED
  BY <1>1 DEF CacheInv, Permitted

LEMMA RequestKeepsInv == ASSUME CacheInv, NEW f \in Fetch, Request(f) PROVE CacheInv'
<1>1. CacheTypeOK'
  BY DEF CacheInv, CacheTypeOK, Request, Goes, At
<1>2. \A g \in Fetch : Permitted(g)'
  <2> SUFFICES ASSUME NEW g \in Fetch PROVE Permitted(g)'
    OBVIOUS
  <2>1. CASE g = f
    BY <2>1 DEF CacheInv, CacheTypeOK, Request, Goes, At, Permitted
  <2>2. CASE g # f
    BY <2>2 DEF CacheInv, CacheTypeOK, Request, Goes, Permitted
  <2> QED
    BY <2>1, <2>2
<1> QED
  BY <1>1, <1>2, ListUntouched DEF CacheInv, Request

LEMMA AskRulesKeepsInv == ASSUME CacheInv, NEW f \in Fetch, AskRules(f) PROVE CacheInv'
<1> DEFINE where == IF "rules" \in open THEN At.route ELSE At.idle
<1>1. CacheTypeOK'
  BY DEF CacheInv, CacheTypeOK, AskRules, Goes, At
<1>2. "rules" \in open => "rules" \in chance[f]
  BY DEF CacheInv, Permitted, AskRules, At
<1>3. \A g \in Fetch : Permitted(g)'
  <2>1. Goes(f, where) /\ fetch[f].at # "idle"
    BY DEF AskRules, At
  <2>2. where.at = "route" => "rules" \in chance[f]
    BY <1>2 DEF At
  <2>3. where.at # "lookup"
    BY DEF At
  <2> HIDE DEF where
  <2> QED
    BY <2>1, <2>2, <2>3, OneMoves DEF AskRules
<1> QED
  BY <1>1, <1>3, ListUntouched DEF CacheInv, AskRules

LEMMA AskRouteKeepsInv == ASSUME CacheInv, NEW f \in Fetch, AskRoute(f) PROVE CacheInv'
<1> DEFINE where == IF "route" \in open THEN At.lookup ELSE At.idle
<1>1. CacheTypeOK'
  BY DEF CacheInv, CacheTypeOK, AskRoute, Goes, At
<1>2. "route" \in open => chance[f] = Gates
  BY DEF CacheInv, CacheTypeOK, Permitted, AskRoute, At, Gates
<1>3. \A g \in Fetch : Permitted(g)'
  <2>1. Goes(f, where) /\ fetch[f].at # "idle"
    BY DEF AskRoute, At
  <2>2. where.at = "lookup" => chance[f] = Gates
    BY <1>2 DEF At
  <2>3. where.at # "route"
    BY DEF At
  <2> HIDE DEF where
  <2> QED
    BY <2>1, <2>2, <2>3, OneMoves DEF AskRoute
<1> QED
  BY <1>1, <1>3, ListUntouched DEF CacheInv, AskRoute

LEMMA HitKeepsInv == ASSUME CacheInv, NEW f \in Fetch, NEW e \in ToSet(lru), Hit(f, e) PROVE CacheInv'
<1>1. e \in Entry /\ InTime(e) /\ e.url \in Url
  BY EntriesTyped
<1>2. /\ Sound(Others(e.url)) /\ Len(Others(e.url)) + 1 = Len(lru)
      /\ \A k \in 1 .. Len(Others(e.url)) : Others(e.url)[k].url # e.url
  BY <1>1, OthersSound DEF Hit
<1>3. Sound(<<e>> \o Others(e.url)) /\ Len(<<e>> \o Others(e.url)) = Len(lru)
  BY <1>1, <1>2, InFrontSound
<1>4. lru' = <<e>> \o Others(e.url) /\ cacheClock' = cacheClock
  BY DEF Hit
<1>5. Sound(lru)' /\ Len(lru') <= MaxEntries
  BY <1>3, <1>4 DEF Sound, InTime, PagesDiffer, CacheInv
<1>6. CacheTypeOK'
  BY <1>3, <1>4 DEF CacheInv, CacheTypeOK, Sound, Hit, Goes, At
<1>7. \A g \in Fetch : Permitted(g)'
  BY OneMoves DEF Hit, At
<1> QED
  BY <1>5, <1>6, <1>7 DEF CacheInv

LEMMA MissKeepsInv == ASSUME CacheInv, NEW f \in Fetch, NEW url \in Url, Miss(f, url) PROVE CacheInv'
<1>1. Sound(Others(url)) /\ Len(Others(url)) <= Len(lru)
  BY OthersSound
<1>2. lru' = Others(url) /\ cacheClock' = cacheClock
  BY DEF Miss
<1>3. Sound(lru)' /\ Len(lru') <= MaxEntries
  <2>1. Len(lru) \in Nat /\ Len(Others(url)) \in Nat /\ MaxEntries \in Nat
    BY <1>1, CacheAssumption DEF CacheInv, Sound
  <2> QED
    BY <1>1, <1>2, <2>1 DEF Sound, InTime, PagesDiffer, CacheInv
<1>4. CacheTypeOK'
  BY <1>1, <1>2 DEF CacheInv, CacheTypeOK, Sound, Miss, Goes, At
<1>5. \A g \in Fetch : Permitted(g)'
  BY OneMoves DEF Miss, At
<1> QED
  BY <1>3, <1>4, <1>5 DEF CacheInv

LEMMA RespondKeepsInv ==
  ASSUME CacheInv, NEW f \in Fetch, NEW declared \in Lifetimes \cup {0}, Respond(f, declared)
  PROVE  CacheInv'
<1> DEFINE where == IF declared = 0 THEN At.idle
                    ELSE [at |-> "streaming", url |-> fetch[f].url, declared |-> declared]
<1>1. fetch[f].url \in Url
  BY DEF CacheInv, CacheTypeOK, Respond
<1>2. where.at \in {"idle", "streaming"}
  BY DEF At
<1>3. CacheTypeOK'
  BY <1>1 DEF CacheInv, CacheTypeOK, Respond, Goes, At
<1>4. \A g \in Fetch : Permitted(g)'
  <2>1. Goes(f, where) /\ fetch[f].at # "idle" /\ UNCHANGED <<open, chance>>
    BY DEF Respond
  <2> HIDE DEF where
  <2> QED
    BY <1>2, <2>1, OneMoves
<1> QED
  BY <1>3, <1>4, ListUntouched DEF CacheInv, Respond

\* A response is stored within its lifetime and in the place of the last entry.
LEMMA StoredSound ==
  ASSUME CacheInv, NEW e \in Entry, InTime(e)
  PROVE  Sound(Stored(e)) /\ Len(Stored(e)) <= MaxEntries
<1> DEFINE list == <<e>> \o Others(e.url)
<1>1. e.url \in Url
  BY DEF Entry
<1>2. /\ Sound(Others(e.url)) /\ Len(Others(e.url)) <= Len(lru)
      /\ \A k \in 1 .. Len(Others(e.url)) : Others(e.url)[k].url # e.url
  BY <1>1, OthersSound
<1>3. Sound(list) /\ Len(list) = Len(Others(e.url)) + 1
  BY <1>2, InFrontSound
<1>4. /\ Len(list) \in Nat /\ Len(Others(e.url)) \in Nat /\ Len(lru) \in Nat /\ MaxEntries \in Nat
      /\ Len(lru) <= MaxEntries
  BY <1>2, <1>3, CacheAssumption DEF Sound, CacheInv
<1>5. Stored(e) = IF Len(list) > MaxEntries THEN Front(list) ELSE list
  BY DEF Stored
<1>6. list # << >>
  BY <1>3, <1>4
<1> HIDE DEF list
<1>7. Sound(Front(list)) /\ Len(Front(list)) = Len(list) - 1
  BY <1>3, <1>6, FrontSound
<1> QED
  BY <1>2, <1>3, <1>4, <1>5, <1>7

LEMMA CompleteKeepsInv == ASSUME CacheInv, NEW f \in Fetch, Complete(f) PROVE CacheInv'
<1> DEFINE declared == fetch[f].declared
           ttl == SharedTTL(declared)
           e == [url |-> fetch[f].url, expires |-> cacheClock + ttl,
                 stored |-> cacheClock, declared |-> declared]
<1>1. declared \in Lifetimes /\ fetch[f].url \in Url /\ cacheClock \in Nat
  BY DEF CacheInv, CacheTypeOK, Complete
<1>2. ttl \in Int /\ ttl <= StoreTTL /\ ttl <= declared * Second /\ StoreTTL \in Nat /\ declared * Second \in Nat
  BY <1>1, SharedTTLBounds, CacheConstants
<1>3. lru' = (IF ttl <= 0 THEN lru ELSE Stored(e)) /\ cacheClock' = cacheClock
  BY DEF Complete
<1> HIDE DEF declared, ttl
<1>4. Sound(lru') /\ Len(lru') <= MaxEntries
  <2>1. CASE ttl <= 0
    BY <1>3, <2>1 DEF CacheInv
  <2>2. CASE ~(ttl <= 0)
    <3>1. e \in Entry
      BY <1>1, <1>2, <2>2 DEF Entry
    <3>2. InTime(e)
      BY <1>1, <1>2 DEF InTime
    <3> QED
      BY <1>3, <2>2, <3>1, <3>2, StoredSound
  <2> QED
    BY <2>1, <2>2
<1>5. Sound(lru)'
  BY <1>3, <1>4 DEF Sound, InTime, PagesDiffer
<1>6. CacheTypeOK'
  BY <1>4 DEF CacheInv, CacheTypeOK, Sound, Complete, Goes, At
<1>7. \A g \in Fetch : Permitted(g)'
  BY OneMoves DEF Complete, At
<1> QED
  BY <1>4, <1>5, <1>6, <1>7 DEF CacheInv

LEMMA BreakOffKeepsInv == ASSUME CacheInv, NEW f \in Fetch, BreakOff(f) PROVE CacheInv'
<1>1. CacheTypeOK'
  BY DEF CacheInv, CacheTypeOK, BreakOff, Goes, At
<1>2. \A g \in Fetch : Permitted(g)'
  BY OneMoves DEF BreakOff, At
<1> QED
  BY <1>1, <1>2, ListUntouched DEF CacheInv, BreakOff

LEMMA ReconfigureKeepsInv == ASSUME CacheInv, NEW gate \in Gates, Reconfigure(gate) PROVE CacheInv'
<1>1. CacheTypeOK'
  BY DEF CacheInv, CacheTypeOK, Reconfigure, Gates
<1>2. \A g \in Fetch : Permitted(g)'
  BY DEF CacheInv, CacheTypeOK, Reconfigure, Permitted, Gates
<1> QED
  BY <1>1, <1>2, ListUntouched DEF CacheInv, Reconfigure

LEMMA CacheTickKeepsInv == ASSUME CacheInv, CacheTick PROVE CacheInv'
<1>1. CacheTypeOK' /\ cacheClock' = cacheClock + 1 /\ cacheClock \in Nat /\ lru' = lru
  BY DEF CacheInv, CacheTypeOK, CacheTick
<1>2. \A i \in 1 .. Len(lru) : lru[i].stored \in Nat
  <2>1. \A i \in 1 .. Len(lru) : lru[i] \in ToSet(lru)
    BY DEF CacheInv, Sound, ToSet
  <2> QED
    BY <2>1, EntriesTyped
<1>3. ASSUME NEW i \in 1 .. Len(lru) PROVE InTime(lru[i])'
  <2>1. InTime(lru[i]) /\ lru[i].stored \in Nat
    BY <1>2 DEF CacheInv, Sound
  <2> QED
    BY <1>1, <2>1 DEF InTime
<1>4. Sound(lru)'
  <2>1. lru \in Seq(Entry) /\ PagesDiffer(lru)
    BY DEF CacheInv, Sound
  <2>2. Entry' = Entry
    BY DEF Entry
  <2>3. lru' \in Seq(Entry') /\ PagesDiffer(lru)'
    BY <1>1, <2>1, <2>2 DEF PagesDiffer
  <2>4. \A i \in 1 .. Len(lru') : InTime(lru[i])'
    BY <1>1, <1>3
  <2> QED
    BY <2>3, <2>4 DEF Sound
<1>5. \A f \in Fetch : Permitted(f)'
  BY DEF CacheInv, CacheTick, Permitted
<1> QED
  BY <1>1, <1>4, <1>5 DEF CacheInv

LEMMA NextCacheInv == CacheInv /\ [CacheNext]_cacheVars => CacheInv'
<1> SUFFICES ASSUME CacheInv, [CacheNext]_cacheVars PROVE CacheInv'
  OBVIOUS
<1>1. CASE CacheNext
  BY <1>1, RequestKeepsInv, AskRulesKeepsInv, AskRouteKeepsInv, HitKeepsInv, MissKeepsInv, RespondKeepsInv,
     CompleteKeepsInv, BreakOffKeepsInv, ReconfigureKeepsInv, CacheTickKeepsInv DEF CacheNext
<1>2. CASE UNCHANGED cacheVars
  BY <1>2, ListUntouched DEF CacheInv, CacheTypeOK, Permitted, cacheVars
<1> QED
  BY <1>1, <1>2

LEMMA InvImpliesFresh == CacheInv => HitFresh
<1> SUFFICES ASSUME CacheInv PROVE HitFresh
  OBVIOUS
<1>1. \A e \in ToSet(lru) : e \in Entry /\ InTime(e)
  BY EntriesTyped
<1>2. ASSUME NEW e \in ToSet(lru), cacheClock <= e.expires
      PROVE  cacheClock - e.stored <= StoreTTL /\ cacheClock - e.stored <= e.declared * Second
  <2> DEFINE most == e.declared * Second
  <2>1. e.expires \in Nat /\ e.stored \in Nat /\ most \in Nat /\ StoreTTL \in Nat /\ cacheClock \in Nat
    BY EntriesTyped, CacheConstants DEF CacheInv, CacheTypeOK
  <2>2. e.expires <= e.stored + StoreTTL /\ e.expires <= e.stored + most
    BY <1>1 DEF InTime
  <2> HIDE DEF most
  <2>3. cacheClock - e.stored <= StoreTTL /\ cacheClock - e.stored <= most
    BY <1>2, <2>1, <2>2
  <2> QED
    BY <2>3 DEF most
<1> QED
  BY <1>2 DEF HitFresh, CacheInv, Sound, PagesDiffer

\* A handler goes from the cache to its end by a hit only.
LEMMA HitIsPermitted ==
  CacheInv /\ [CacheNext]_cacheVars =>
    [\A f \in Fetch : fetch[f] = At.lookup /\ fetch'[f] = At.idle => chance[f] = Gates]_cacheVars
BY DEF CacheInv, Permitted, At
-----------------------------------------------------------------------------
\* Type correctness.
THEOREM CacheTypes == CacheSpec => []CacheTypeOK
<1>1. CacheInv => CacheTypeOK
  BY DEF CacheInv
<1> QED
  BY <1>1, InitCacheInv, NextCacheInv, PTL DEF CacheSpec

\* cache.Store keeps a page once and never more pages than it may, and what it
\* answers with is neither older than sharedCacheTTL's limit nor than the response
\* declared: a product that overflows only makes a lifetime shorter.
THEOREM HitsAreFresh == CacheSpec => []HitFresh
BY InitCacheInv, NextCacheInv, InvImpliesFresh, PTL DEF CacheSpec

\* The handler asks rules and route before the cache, so that no page is served
\* from it to a request that came in after either had been withdrawn for good.
THEOREM WithdrawnIsNotServed == CacheSpec => WithdrawnNotServed
BY InitCacheInv, NextCacheInv, HitIsPermitted, PTL DEF CacheSpec, WithdrawnNotServed

-----------------------------------------------------------------------------
(* The client's address.                                                   *)

\* A header vouches for the origin: what follows it there are trusted proxies,
\* which were appended by each other.
Vouches(header) ==
  \E i \in 1 .. Len(header) :
    /\ header[i] = origin
    /\ \A j \in i + 1 .. Len(header) : header[j] \in Trusted

\* The inductive invariant: once a proxy has passed the request on, one of the
\* headers vouches for the origin, which one nobody knows.
AddressInv ==
  /\ AddressTypeOK
  /\ hops = 0 => peer = origin
  /\ hops > 0 => peer \in Trusted /\ (Vouches(forwarded) \/ Vouches(xff))

\* A trusted address does not spoil a header that vouches, and the origin's makes
\* one of any header.
LEMMA AppendVouches ==
  ASSUME NEW header \in Seq(Element), NEW a, a = origin \/ (a \in Trusted /\ Vouches(header))
  PROVE  Vouches(Append(header, a))
<1> DEFINE longer == Append(header, a)
<1>1. /\ Len(longer) = Len(header) + 1 /\ Len(header) \in Nat
      /\ \A j \in 1 .. Len(header) : longer[j] = header[j]
      /\ longer[Len(header) + 1] = a
  OBVIOUS
<1> HIDE DEF longer
<1>2. CASE a = origin
  BY <1>1, <1>2 DEF Vouches, longer
<1>3. CASE a \in Trusted /\ Vouches(header)
  <2>1. PICK i \in 1 .. Len(header) :
          header[i] = origin /\ \A j \in i + 1 .. Len(header) : header[j] \in Trusted
    BY <1>3 DEF Vouches
  <2>2. i \in 1 .. Len(longer) /\ longer[i] = origin
    BY <1>1, <2>1
  <2>3. \A j \in i + 1 .. Len(longer) : longer[j] \in Trusted
    <3> SUFFICES ASSUME NEW j \in i + 1 .. Len(longer) PROVE longer[j] \in Trusted
      OBVIOUS
    <3>1. CASE j = Len(header) + 1
      BY <1>1, <1>3, <3>1
    <3>2. CASE j # Len(header) + 1
      <4>1. j \in i + 1 .. Len(header)
        BY <1>1, <2>1, <3>2
      <4> QED
        BY <1>1, <2>1, <4>1
    <3> QED
      BY <3>1, <3>2
  <2> QED
    BY <2>2, <2>3 DEF Vouches, longer
<1> QED
  BY <1>2, <1>3

LEMMA InitAddressInv == AddressInit => AddressInv
<1> SUFFICES ASSUME AddressInit PROVE AddressInv
  OBVIOUS
<1>1. \A header \in Forged : header \in Seq(Element)
  BY DEF Forged
<1> QED
  BY <1>1, AddressAssumption DEF AddressInit, AddressInv, AddressTypeOK

\* What the invariant needs after a proxy passed the request on.
LEMMA Vouched ==
  ASSUME AddressTypeOK', hops' > 0, peer' \in Trusted, origin' = origin,
         NEW header, Vouches(header), header = forwarded' \/ header = xff'
  PROVE  AddressInv'
<1>1. (Vouches(forwarded) \/ Vouches(xff))'
  BY DEF Vouches
<1>2. hops' # 0
  BY DEF AddressTypeOK
<1> QED
  BY <1>1, <1>2 DEF AddressInv

LEMMA ForwardKeepsInv ==
  ASSUME AddressInv, NEW p \in Trusted, NEW inForwarded \in BOOLEAN, NEW inXff \in BOOLEAN,
         Forward(p, inForwarded, inXff)
  PROVE  AddressInv'
<1>1. peer \in Element
  BY DEF AddressInv, AddressTypeOK, Element
<1>2. AddressTypeOK'
  <2>1. forwarded' \in Seq(Element) /\ xff' \in Seq(Element)
    BY <1>1 DEF AddressInv, AddressTypeOK, Forward
  <2>2. forged' \in BOOLEAN
    BY DEF AddressInv, AddressTypeOK, Forward
  <2>3. extended' \subseteq SUBSET {"Forwarded", "XFF"}
    BY DEF AddressInv, AddressTypeOK, Forward
  <2>4. peer' \in Trusted \cup Untrusted /\ origin' \in Untrusted /\ hops' \in 0 .. MaxHops
    BY AddressAssumption DEF AddressInv, AddressTypeOK, Forward
  <2> QED
    BY <2>1, <2>2, <2>3, <2>4 DEF AddressTypeOK
<1>3. hops' > 0 /\ peer' \in Trusted /\ origin' = origin
  BY AddressAssumption DEF AddressInv, AddressTypeOK, Forward
<1>4. peer = origin \/ (peer \in Trusted /\ (Vouches(forwarded) \/ Vouches(xff)))
  BY AddressAssumption DEF AddressInv, AddressTypeOK
<1>5. forwarded \in Seq(Element) /\ xff \in Seq(Element)
  BY DEF AddressInv, AddressTypeOK
<1>6. CASE inForwarded /\ (peer = origin \/ Vouches(forwarded))
  <2>1. peer = origin \/ (peer \in Trusted /\ Vouches(forwarded))
    BY <1>4, <1>6
  <2>2. Vouches(Append(forwarded, peer))
    BY <1>5, <2>1, AppendVouches
  <2>3. forwarded' = Append(forwarded, peer)
    BY <1>6 DEF Forward
  <2> QED
    BY <1>2, <1>3, <2>2, <2>3, Vouched
<1>7. CASE inXff /\ (peer = origin \/ Vouches(xff))
  <2>1. peer = origin \/ (peer \in Trusted /\ Vouches(xff))
    BY <1>4, <1>7
  <2>2. Vouches(Append(xff, peer))
    BY <1>5, <2>1, AppendVouches
  <2>3. xff' = Append(xff, peer)
    BY <1>7 DEF Forward
  <2> QED
    BY <1>2, <1>3, <2>2, <2>3, Vouched
<1>8. CASE ~inForwarded /\ Vouches(forwarded)
  <2>1. forwarded' = forwarded
    BY <1>8 DEF Forward
  <2> QED
    BY <1>2, <1>3, <1>8, <2>1 DEF AddressInv, AddressTypeOK, Vouches
<1>9. CASE ~inXff /\ Vouches(xff)
  <2>1. xff' = xff
    BY <1>9 DEF Forward
  <2> QED
    BY <1>2, <1>3, <1>9, <2>1 DEF AddressInv, AddressTypeOK, Vouches
<1>10. inForwarded \/ inXff
  BY DEF Forward
<1> QED
  BY <1>4, <1>6, <1>7, <1>8, <1>9, <1>10

LEMMA NextAddressInv == AddressInv /\ [AddressNext]_addressVars => AddressInv'
<1> SUFFICES ASSUME AddressInv, [AddressNext]_addressVars PROVE AddressInv'
  OBVIOUS
<1>1. CASE AddressNext
  BY <1>1, ForwardKeepsInv DEF AddressNext
<1>2. CASE UNCHANGED addressVars
  BY <1>2 DEF AddressInv, AddressTypeOK, Vouches, addressVars
<1> QED
  BY <1>1, <1>2

\* If nothing was forged and all proxies extended the headers in e, these have an
\* element for every proxy and are the same, and there is no other.
Grown(e) ==
  /\ IF "Forwarded" \in e THEN Len(forwarded) = hops ELSE forwarded = << >>
  /\ IF "XFF" \in e THEN Len(xff) = hops ELSE xff = << >>
  /\ "Forwarded" \in e /\ "XFF" \in e => forwarded = xff

Plain ==
  /\ hops > 0 => extended # {}
  /\ \A e \in extended : "Forwarded" \in e \/ "XFF" \in e
  /\ ~forged => /\ hops = 0 => forwarded = << >> /\ xff = << >>
                /\ \A i \in DOMAIN forwarded : forwarded[i] # Malformed
                /\ \A i \in DOMAIN xff : xff[i] # Malformed
  /\ ~forged /\ (\A e, f \in extended : e = f) => \A e \in extended : Grown(e)

LEMMA InitPlain == AddressInit => Plain
<1> SUFFICES ASSUME AddressInit PROVE Plain
  OBVIOUS
<1>1. hops = 0 /\ extended = {}
  BY DEF AddressInit
<1>2. ~forged => forwarded = << >> /\ xff = << >>
  BY DEF AddressInit
<1>3. ~forged => /\ \A i \in DOMAIN forwarded : forwarded[i] # Malformed
                 /\ \A i \in DOMAIN xff : xff[i] # Malformed
  BY <1>2
<1> QED
  BY <1>1, <1>2, <1>3 DEF Plain

LEMMA AppendWellFormed ==
  ASSUME NEW header \in Seq(Element), NEW a \in Element, a # Malformed,
         \A i \in DOMAIN header : header[i] # Malformed
  PROVE  /\ Len(Append(header, a)) = Len(header) + 1
         /\ \A i \in DOMAIN Append(header, a) : Append(header, a)[i] # Malformed
OBVIOUS

LEMMA ForwardKeepsPlain ==
  ASSUME AddressInv, Plain, NEW p \in Trusted, NEW inForwarded \in BOOLEAN, NEW inXff \in BOOLEAN,
         Forward(p, inForwarded, inXff)
  PROVE  Plain'
<1> DEFINE e0 == {h \in {"Forwarded", "XFF"} : IF h = "XFF" THEN inXff ELSE inForwarded}
<1>1. ("Forwarded" \in e0 <=> inForwarded) /\ ("XFF" \in e0 <=> inXff) /\ (inForwarded \/ inXff)
  BY DEF Forward
<1>2. extended' = extended \cup {e0} /\ forged' = forged /\ hops' = hops + 1 /\ hops \in Nat
  BY AddressAssumption DEF Forward, AddressInv, AddressTypeOK
<1>3. /\ forwarded' = IF inForwarded THEN Append(forwarded, peer) ELSE forwarded
      /\ xff' = IF inXff THEN Append(xff, peer) ELSE xff
  BY DEF Forward
<1>4. /\ forwarded \in Seq(Element) /\ xff \in Seq(Element)
      /\ peer \in Element /\ peer # Malformed
  BY AddressAssumption DEF AddressInv, AddressTypeOK, Element
<1> HIDE DEF e0
<1>5. ~forged => /\ \A i \in DOMAIN forwarded' : forwarded'[i] # Malformed
                 /\ \A i \in DOMAIN xff' : xff'[i] # Malformed
  <2>1. ASSUME ~forged PROVE \A i \in DOMAIN forwarded' : forwarded'[i] # Malformed
    BY <1>3, <1>4, <2>1, AppendWellFormed DEF Plain
  <2>2. ASSUME ~forged PROVE \A i \in DOMAIN xff' : xff'[i] # Malformed
    BY <1>3, <1>4, <2>2, AppendWellFormed DEF Plain
  <2> QED
    BY <2>1, <2>2
<1>6. ASSUME ~forged, \A e, f \in extended' : e = f
      PROVE  Grown(e0)'
  <2>1. \A e \in extended : e = e0
    BY <1>2, <1>6
  <2>2. Grown(e0)
    <3>1. CASE hops = 0
      <4>1. forwarded = << >> /\ xff = << >>
        BY <1>6, <3>1 DEF Plain
      <4> QED
        BY <3>1, <4>1 DEF Grown
    <3>2. CASE hops > 0
      BY <1>6, <2>1, <3>2 DEF Plain
    <3> QED
      BY <1>2, <3>1, <3>2
  <2>3. Len(Append(forwarded, peer)) = Len(forwarded) + 1 /\ Len(Append(xff, peer)) = Len(xff) + 1
    BY <1>4
  <2>4. e0' = e0
    BY DEF e0
  <2> QED
    BY <1>1, <1>2, <1>3, <2>2, <2>3 DEF Grown
<1>7. \A e \in extended' : "Forwarded" \in e \/ "XFF" \in e
  BY <1>1, <1>2 DEF Plain
<1>8. ~forged' /\ (\A e, f \in extended' : e = f) => \A e \in extended' : Grown(e)'
  <2> SUFFICES ASSUME ~forged', \A e, f \in extended' : e = f, NEW e \in extended'
               PROVE  Grown(e)'
    OBVIOUS
  <2>1. e = e0
    BY <1>2
  <2> QED
    BY <1>2, <1>6, <2>1 DEF Grown
<1> QED
  BY <1>2, <1>5, <1>7, <1>8 DEF Plain

LEMMA NextPlain == AddressInv /\ Plain /\ [AddressNext]_addressVars => Plain'
<1> SUFFICES ASSUME AddressInv, Plain, [AddressNext]_addressVars PROVE Plain'
  OBVIOUS
<1>1. CASE AddressNext
  BY <1>1, ForwardKeepsPlain DEF AddressNext
<1>2. CASE UNCHANGED addressVars
  BY <1>2 DEF Plain, Grown, addressVars
<1> QED
  BY <1>1, <1>2

\* Read from its end, a chain that vouches names the origin.
LEMMA LastStranger ==
  ASSUME AddressInv, peer \in Trusted, Vouches(Chain), Chain \in Seq(Element)
  PROVE  ClientIP = origin
<1> DEFINE others == {i \in 1 .. Len(Chain) : Chain[i] \notin Trusted}
<1>1. PICK i \in 1 .. Len(Chain) :
        Chain[i] = origin /\ \A j \in i + 1 .. Len(Chain) : Chain[j] \in Trusted
  BY DEF Vouches
<1>2. origin \notin Trusted
  BY AddressAssumption DEF AddressInv, AddressTypeOK
<1>3. i \in others /\ \A j \in others : j <= i
  BY <1>1, <1>2
<1>4. \A k \in others : (\A j \in others : j <= k) => k = i
  BY <1>3
<1>5. (CHOOSE k \in others : \A j \in others : j <= k) = i
  BY <1>3, <1>4
<1> QED
  BY <1>1, <1>3, <1>5 DEF ClientIP

\* Headers that grew alike and are not too long are a chain.
LEMMA PlainIsChained ==
  ASSUME AddressInv, Plain, hops > 0, hops <= MaxForwarded, ~forged, \A e, f \in extended : e = f
  PROVE  Chain # << >>
<1>1. PICK e \in extended : Grown(e) /\ ("Forwarded" \in e \/ "XFF" \in e)
  BY DEF Plain
<1>2. hops \in Nat /\ MaxForwarded \in Nat /\ forwarded \in Seq(Element) /\ xff \in Seq(Element)
  BY AddressAssumption DEF AddressInv, AddressTypeOK
<1>3. Len(forwarded) <= MaxForwarded /\ Len(xff) <= MaxForwarded
  <2>1. forwarded = << >> => Len(forwarded) = 0
    OBVIOUS
  <2>2. xff = << >> => Len(xff) = 0
    OBVIOUS
  <2> QED
    BY <1>1, <1>2, <2>1, <2>2 DEF Grown
<1>4. Malformed \notin ToSet(forwarded) /\ Malformed \notin ToSet(xff)
  BY DEF Plain, ToSet
<1>5. Parses(forwarded) /\ Parses(xff)
  BY <1>3, <1>4 DEF Parses
<1>6. Len(forwarded) = hops => forwarded # << >>
  OBVIOUS
<1>7. Len(xff) = hops => xff # << >>
  OBVIOUS
<1> QED
  BY <1>1, <1>5, <1>6, <1>7 DEF Chain, Grown

LEMMA InvImpliesVouched == AddressInv /\ Plain => AddressVouched
<1> SUFFICES ASSUME AddressInv, Plain PROVE AddressVouched
  OBVIOUS
<1>1. CASE hops = 0
  BY <1>1, AddressAssumption DEF AddressInv, AddressTypeOK, AddressVouched, ClientIP
<1>2. CASE hops > 0 /\ Chain = << >>
  <2>1. {i \in 1 .. Len(Chain) : Chain[i] \notin Trusted} = {}
    BY <1>2
  <2>2. ~(hops <= MaxForwarded /\ ~forged /\ (\A e, f \in extended : e = f))
    BY <1>2, PlainIsChained
  <2> QED
    BY <1>2, <2>1, <2>2 DEF AddressVouched, ClientIP
<1>3. CASE hops > 0 /\ Chain # << >>
  <2>1. ~Vouches(<< >>)
    BY DEF Vouches
  <2>2. Chain \in Seq(Element) /\ Vouches(Chain)
    BY <1>3, <2>1 DEF Chain, AddressInv, AddressTypeOK
  <2> QED
    BY <1>3, <2>2, LastStranger DEF AddressVouched, AddressInv
<1>4. hops = 0 \/ hops > 0
  BY AddressAssumption DEF AddressInv, AddressTypeOK
<1> QED
  BY <1>1, <1>2, <1>3, <1>4

\* Type correctness.
THEOREM AddressTypes == AddressSpec => []AddressTypeOK
<1>1. AddressInv => AddressTypeOK
  BY DEF AddressInv
<1> QED
  BY <1>1, InitAddressInv, NextAddressInv, PTL DEF AddressSpec

\* A request is taken to come from where it did come from, or from the proxy that
\* delivered it, whatever headers a client sends and however many proxies append
\* to whichever header: Resolver.ClientIP believes no address that a client made up.
\* If the client sends none and all proxies extend the same, it is never the proxy.
THEOREM AddressIsVouched == AddressSpec => []AddressVouched
BY InitAddressInv, NextAddressInv, InitPlain, NextPlain, InvImpliesVouched, PTL DEF AddressSpec
-----------------------------------------------------------------------------
(* The rules.                                                              *)

LEMMA MinIsLeast ==
  ASSUME NEW T \in SUBSET Nat, IsFiniteSet(T), T # {}
  PROVE  Min(T) \in T /\ \A y \in T : Min(T) <= y
<1> DEFINE N == Cardinality(T)
           list == Ascending(T)
<1>1. /\ N \in Nat /\ list \in [1 .. N -> T]
      /\ \A x \in T : \E n \in 1 .. N : list[n] = x
      /\ \A m, n \in 1 .. N : m < n => list[m] < list[n]
  BY AscendingElements
<1> HIDE DEF N, list
<1>2. 1 \in 1 .. N
  <2>1. PICK x \in T : TRUE
    OBVIOUS
  <2>2. PICK n \in 1 .. N : list[n] = x
    BY <1>1
  <2> QED
    BY <1>1, <2>2
<1>3. ASSUME NEW y \in T PROVE list[1] <= y
  <2>1. PICK n \in 1 .. N : list[n] = y
    BY <1>1
  <2>2. n \in Nat /\ (n = 1 \/ 1 < n)
    BY <1>1
  <2>3. list[1] \in Nat /\ list[n] \in Nat
    BY <1>1, <1>2
  <2>4. 1 < n => list[1] < list[n]
    BY <1>1, <1>2
  <2> QED
    BY <2>1, <2>2, <2>3, <2>4
<1>4. \E z \in T : \A y \in T : z <= y
  BY <1>1, <1>2, <1>3
<1> QED
  BY <1>4 DEF Min

LEMMA RuleOrderIsStrict ==
  ASSUME ruleTable \in Seq(Verdicts)
  PROVE  StrictOrder(DOMAIN ruleTable, RuleOrder)
<1>1. ASSUME NEW i \in DOMAIN ruleTable PROVE i \in Nat /\ ruleTable[i].priority \in Nat
  <2>1. ruleTable[i] \in Verdicts /\ i \in Nat
    OBVIOUS
  <2> QED
    BY <2>1 DEF Verdicts
<1>2. \A x, y : <<x, y>> \in RuleOrder <=>
        /\ x \in DOMAIN ruleTable /\ y \in DOMAIN ruleTable
        /\ \/ ruleTable[x].priority > ruleTable[y].priority
           \/ ruleTable[x].priority = ruleTable[y].priority /\ x < y
  BY DEF RuleOrder
<1>3. \A x, y, z \in DOMAIN ruleTable :
        <<x, y>> \in RuleOrder /\ <<y, z>> \in RuleOrder => <<x, z>> \in RuleOrder
  <2> SUFFICES ASSUME NEW x \in DOMAIN ruleTable, NEW y \in DOMAIN ruleTable, NEW z \in DOMAIN ruleTable,
                      <<x, y>> \in RuleOrder, <<y, z>> \in RuleOrder
               PROVE  <<x, z>> \in RuleOrder
    OBVIOUS
  <2>1. /\ x \in Nat /\ y \in Nat /\ z \in Nat /\ ruleTable[x].priority \in Nat
        /\ ruleTable[y].priority \in Nat /\ ruleTable[z].priority \in Nat
    BY <1>1
  <2>2. \/ ruleTable[x].priority > ruleTable[z].priority
        \/ ruleTable[x].priority = ruleTable[z].priority /\ x < z
    BY <1>2, <2>1
  <2> QED
    BY <1>2, <2>2
<1>4. \A x, y \in DOMAIN ruleTable :
        <<x, x>> \notin RuleOrder /\ (x = y \/ <<x, y>> \in RuleOrder \/ <<y, x>> \in RuleOrder)
  <2> SUFFICES ASSUME NEW x \in DOMAIN ruleTable, NEW y \in DOMAIN ruleTable
               PROVE  <<x, x>> \notin RuleOrder /\ (x = y \/ <<x, y>> \in RuleOrder \/ <<y, x>> \in RuleOrder)
    OBVIOUS
  <2>1. x \in Nat /\ y \in Nat /\ ruleTable[x].priority \in Nat /\ ruleTable[y].priority \in Nat
    BY <1>1
  <2> QED
    BY <1>2, <2>1
<1> QED
  BY <1>3, <1>4 DEF StrictOrder

\* The verdict is that of a decisive rule of the highest priority, in whatever
\* order the rules came out of the map and into the table.
LEMMA VerdictOfFirst ==
  ASSUME ruleTable \in Seq(Verdicts)
  PROVE  FirstMatchDecides
<1> DEFINE S == DOMAIN ruleTable
           ids == Sorted(S, RuleOrder)
           N == Cardinality(S)
           decisive == {rule \in ToSet(ruleTable) : Decides(rule)}
           I == {i \in 1 .. Len(Evaluated) : Decides(Evaluated[i])}
           n == SelectInSeq(Evaluated, Decides)
<1>1. IsFiniteSet(S)
  <2>1. S = 1 .. Len(ruleTable) /\ Len(ruleTable) \in Nat
    OBVIOUS
  <2> QED
    BY <2>1, FS_Interval
<1>2. /\ N \in Nat /\ ids \in [1 .. N -> S]
      /\ \A x \in S : \E k \in 1 .. N : ids[k] = x
      /\ \A k, l \in 1 .. N : k < l => <<ids[k], ids[l]>> \in RuleOrder
  BY <1>1, RuleOrderIsStrict, SortedElements
<1>3. Evaluated = [k \in 1 .. N |-> ruleTable[ids[k]]]
  <2> HIDE DEF N
  <2>1. DOMAIN ids = 1 .. N
    BY <1>2
  <2> HIDE DEF ids
  <2> QED
    BY <2>1 DEF Evaluated, ids
<1> HIDE DEF ids, N
<1>4. Len(Evaluated) = N
  BY <1>2, <1>3
<1>5. I \in SUBSET Nat /\ I = {i \in 1 .. N : Decides(ruleTable[ids[i]])}
  BY <1>2, <1>3, <1>4
<1>6. IsFiniteSet(I)
  <2>1. I \subseteq 1 .. N
    BY <1>5
  <2>2. IsFiniteSet(1 .. N)
    BY <1>2, FS_Interval
  <2> HIDE DEF I
  <2> QED
    BY <2>1, <2>2, FS_Subset
<1>7. n = IF I # {} THEN Min(I) ELSE 0
  BY DEF SelectInSeq
<1>8. WafVerdict = IF n = 0 THEN "ALLOW" ELSE Evaluated[n].action
  BY DEF WafVerdict
<1> HIDE DEF n, I
<1>9. \A i \in S : ruleTable[i] \in ToSet(ruleTable)
  BY DEF ToSet
<1>10. CASE I = {}
  <2>1. decisive = {}
    <3> SUFFICES ASSUME NEW rule \in ToSet(ruleTable), Decides(rule) PROVE FALSE
      OBVIOUS
    <3>1. PICK i \in S : ruleTable[i] = rule
      BY DEF ToSet
    <3>2. PICK k \in 1 .. N : ids[k] = i
      BY <1>2
    <3> QED
      BY <1>5, <1>10, <3>1, <3>2
  <2>2. WafVerdict = "ALLOW"
    BY <1>7, <1>8, <1>10
  <2> QED
    BY <2>1, <2>2 DEF FirstMatchDecides
<1>11. CASE I # {}
  <2>1. n \in I /\ \A k \in I : n <= k
    BY <1>5, <1>7, <1>11, <1>6, MinIsLeast
  <2>2. n \in 1 .. N /\ Decides(ruleTable[ids[n]]) /\ ids[n] \in S
    BY <1>2, <1>5, <2>1
  <2> DEFINE rule == ruleTable[ids[n]]
  <2>3. rule \in decisive
    BY <1>9, <2>2
  <2>4. ASSUME NEW other \in decisive PROVE rule.priority >= other.priority
    <3>1. PICK i \in S : ruleTable[i] = other
      BY DEF ToSet
    <3>2. PICK k \in 1 .. N : ids[k] = i
      BY <1>2
    <3>3. k \in I
      BY <1>5, <3>1, <3>2
    <3>4. n <= k
      BY <2>1, <3>3
    <3>5. rule.priority \in Nat /\ other.priority \in Nat
      <4>1. rule \in Verdicts /\ other \in Verdicts
        BY <2>2, <3>1
      <4> QED
        BY <4>1 DEF Verdicts
    <3>6. CASE n = k
      BY <3>1, <3>2, <3>5, <3>6
    <3>7. CASE n < k
      <4>1. <<ids[n], ids[k]>> \in RuleOrder
        BY <1>2, <2>2, <3>2, <3>7
      <4> QED
        BY <3>1, <3>2, <3>5, <4>1 DEF RuleOrder
    <3> QED
      BY <1>2, <2>2, <3>2, <3>4, <3>6, <3>7
  <2>5. WafVerdict = rule.action
    <3>1. n # 0
      BY <1>2, <2>2
    <3> QED
      BY <1>3, <1>8, <2>2, <3>1
  <2> HIDE DEF rule, decisive
  <2>6. WafVerdict \in {r.action : r \in {r \in decisive : \A other \in decisive : r.priority >= other.priority}}
    BY <2>3, <2>4, <2>5
  <2> QED
    BY <2>6 DEF FirstMatchDecides, decisive
<1> QED
  BY <1>10, <1>11

\* Every key of a snapshot stands for one rule of the response: the k-th called n.
Named(n, k) == IF k > 1 THEN Append(n, k) ELSE n
Copies(used) == {p \in OwnName \X (Nat \ {0}) : p[2] <= used[p[1]]}

\* f says which rule each key stands for.
KeyedBy(f, names, used) ==
  /\ f \in Bijection(DOMAIN names, Copies(used))
  /\ \A key \in DOMAIN names : names[key] = Named(f[key][1], f[key][2])

RulesInv ==
  /\ RulesTypeOK
  /\ Len(records) <= MaxRules
  /\ IsFiniteSet(DOMAIN converted) /\ Cardinality(DOMAIN converted) = Len(records)
  /\ \A n \in OwnName : usedNames[n] # 0 <=> \E i \in DOMAIN records : records[i].name = n
  /\ \E f : KeyedBy(f, converted, usedNames)

LEMMA NumbersDiffer ==
  ASSUME NEW base \in Seq(Nat), NEW k \in Nat
  PROVE  NumberedKey(base, k)[Len(base) + 2] = k
<1> DEFINE suffix == <<0, k>>
<1>1. suffix \in Seq(Nat) /\ Len(suffix) = 2 /\ suffix[2] = k
  OBVIOUS
<1>2. Len(base) \in Nat
  OBVIOUS
<1> HIDE DEF suffix
<1>3. (base \o suffix)[Len(base) + 2] = suffix[2]
  <2>1. Len(base) + 2 \in 1 .. Len(base) + Len(suffix) /\ ~(Len(base) + 2 <= Len(base))
        /\ Len(base) + 2 - Len(base) = 2
    BY <1>1, <1>2
  <2>2. \A i \in 1 .. Len(base) + Len(suffix) :
          (base \o suffix)[i] = IF i <= Len(base) THEN base[i] ELSE suffix[i - Len(base)]
    BY <1>1, ConcatProperties
  <2> QED
    BY <2>1, <2>2
<1> QED
  BY <1>1, <1>3 DEF NumberedKey, suffix

\* A response has too few rules to take all the numbers a key may get.
LEMMA NewKeyIsNew ==
  ASSUME NEW base \in Seq(Nat), IsFiniteSet(DOMAIN converted), Cardinality(DOMAIN converted) < MaxRules
  PROVE  NewKey(base) \notin DOMAIN converted
<1> DEFINE K == 2 .. MaxRules + 1
           D == DOMAIN converted
           Free == {k \in K : NumberedKey(base, k) \notin D}
           numbered == [k \in K |-> NumberedKey(base, k)]
<1>1. MaxRules \in Nat /\ Cardinality(D) \in Nat
  BY RulesAssumption, FS_CardinalityType
<1>2. IsFiniteSet(K) /\ Cardinality(K) = MaxRules
  <2>1. /\ IsFiniteSet(K)
        /\ Cardinality(K) = IF 2 > MaxRules + 1 THEN 0 ELSE (MaxRules + 1) - 2 + 1
    BY <1>1, FS_Interval
  <2> HIDE DEF K
  <2> QED
    BY <1>1, <2>1
<1>3. \A k \in K : k \in Nat
  BY <1>1
<1> HIDE DEF K
<1>4. Free # {}
  <2> SUFFICES ASSUME Free = {} PROVE FALSE
    OBVIOUS
  <2>1. numbered \in [K -> D]
    OBVIOUS
  <2>2. \A j, k \in K : numbered[j] = numbered[k] => j = k
    <3> SUFFICES ASSUME NEW j \in K, NEW k \in K, NumberedKey(base, j) = NumberedKey(base, k) PROVE j = k
      OBVIOUS
    <3>1. NumberedKey(base, j)[Len(base) + 2] = j /\ NumberedKey(base, k)[Len(base) + 2] = k
      BY <1>3, NumbersDiffer
    <3> QED
      BY <3>1
  <2> HIDE DEF numbered, D
  <2>3. numbered \in Injection(K, D)
    BY <2>1, <2>2 DEF Injection, IsInjective
  <2>4. Cardinality(K) <= Cardinality(D)
    BY <1>2, <2>3, FS_Injection DEF D
  <2> QED
    BY <1>1, <1>2, <2>4 DEF D
<1>5. Free \in SUBSET Nat /\ IsFiniteSet(Free)
  BY <1>2, <1>3, FS_Subset
<1>6. Min(Free) \in Free /\ \A k \in Free : Min(Free) <= k
  BY <1>4, <1>5, MinIsLeast
<1>7. ASSUME NEW j \in 2 .. Min(Free) - 1 PROVE NumberedKey(base, j) \in D
  <2>1. Min(Free) \in 2 .. MaxRules + 1
    BY <1>6 DEF K
  <2>2. j \in K /\ ~(Min(Free) <= j)
    BY <1>1, <2>1 DEF K
  <2> QED
    BY <1>6, <2>2
<1> DEFINE Fits(k) == /\ NumberedKey(base, k) \notin D
                      /\ \A j \in 2 .. k - 1 : NumberedKey(base, j) \in D
<1>8. \E k \in K : Fits(k)
  BY <1>6, <1>7
<1>9. Fits(CHOOSE k \in K : Fits(k))
  <2> HIDE DEF Fits
  <2> QED
    BY <1>8
<1>10. NewKey(base) = IF base \notin D THEN base ELSE NumberedKey(base, CHOOSE k \in K : Fits(k))
  BY DEF NewKey, K
<1> QED
  BY <1>9, <1>10

LEMMA BijectionGrows ==
  ASSUME NEW S, NEW T, NEW f \in Bijection(S, T), NEW x, x \notin S, NEW y, y \notin T
  PROVE  [z \in S \cup {x} |-> IF z = x THEN y ELSE f[z]] \in Bijection(S \cup {x}, T \cup {y})
<1> DEFINE g == [z \in S \cup {x} |-> IF z = x THEN y ELSE f[z]]
<1>1. /\ f \in [S -> T] /\ \A a, b \in S : f[a] = f[b] => a = b
      /\ \A t \in T : \E a \in S : f[a] = t
  BY DEF Bijection, Injection, Surjection, IsInjective
<1>2. /\ g \in [S \cup {x} -> T \cup {y}] /\ g[x] = y /\ \A z \in S : g[z] = f[z]
  BY <1>1
<1> HIDE DEF g
<1>3. \A a, b \in S \cup {x} : g[a] = g[b] => a = b
  BY <1>1, <1>2
<1>4. \A t \in T \cup {y} : \E a \in S \cup {x} : g[a] = t
  BY <1>1, <1>2
<1>5. g \in Bijection(S \cup {x}, T \cup {y})
  BY <1>2, <1>3, <1>4 DEF Bijection, Injection, Surjection, IsInjective
<1> QED
  BY <1>5 DEF g

LEMMA ConvertKeepsInv ==
  ASSUME RulesInv, NEW record \in Record, Convert(record)
  PROVE  RulesInv'
<1> DEFINE n == record.name
           count == usedNames[n] + 1
           name == IF count > 1 THEN Append(n, count) ELSE n
           base == IF record.id # NoId THEN record.id ELSE name
           key == NewKey(base)
           D == DOMAIN converted
<1>1. /\ n \in OwnName /\ n \in Seq(Nat) /\ usedNames \in [OwnName -> Nat] /\ count \in Nat \ {0}
      /\ records \in Seq(Record) /\ Len(records) \in Nat /\ Len(records) < MaxRules /\ MaxRules \in Nat
  BY RulesAssumption DEF RulesInv, RulesTypeOK, Record, Convert
<1>2. base \in Seq(Nat)
  <2>1. name \in Seq(Nat)
    BY <1>1
  <2>2. record.id \in OwnName \/ record.id = NoId
    BY DEF Record
  <2> HIDE DEF name
  <2> QED
    BY <2>1, <2>2, RulesAssumption
<1>3. /\ records' = Append(records, record) /\ usedNames' = [usedNames EXCEPT ![n] = count]
      /\ converted' = [k \in D \cup {key} |-> IF k = key THEN name ELSE converted[k]]
      /\ ruleTable' = ruleTable
  BY DEF Convert
<1>4. name = Named(n, count)
  BY DEF Named
<1> HIDE DEF n, count, name, base
<1>5. key \notin D
  BY <1>1, <1>2, NewKeyIsNew DEF RulesInv
<1> HIDE DEF key
<1>6. DOMAIN converted' = D \cup {key} /\ converted'[key] = name /\ \A k \in D : converted'[k] = converted[k]
  BY <1>3, <1>5
<1>7. records' \in Seq(Record) /\ Len(records') = Len(records) + 1
  BY <1>1, <1>3
<1>8. IsFiniteSet(DOMAIN converted') /\ Cardinality(DOMAIN converted') = Len(records')
  <2>1. IsFiniteSet(D) /\ Cardinality(D) = Len(records)
    BY DEF RulesInv
  <2> QED
    BY <1>5, <1>6, <1>7, <2>1, FS_AddElement
<1>9. /\ usedNames' \in [OwnName -> Nat] /\ usedNames'[n] = count
      /\ \A m \in OwnName \ {n} : usedNames'[m] = usedNames[m]
  BY <1>1, <1>3
<1>10. ASSUME NEW m \in OwnName
       PROVE  usedNames'[m] # 0 <=> \E i \in DOMAIN records' : records'[i].name = m
  <2>1. /\ DOMAIN records' = 1 .. Len(records) + 1 /\ DOMAIN records = 1 .. Len(records)
        /\ records'[Len(records) + 1] = record
        /\ \A i \in 1 .. Len(records) : records'[i] = records[i]
    BY <1>1, <1>3
  <2>2. (\E i \in DOMAIN records' : records'[i].name = m)
          <=> (\E i \in DOMAIN records : records[i].name = m) \/ n = m
    BY <1>1, <2>1 DEF n
  <2>3. usedNames[m] # 0 <=> \E i \in DOMAIN records : records[i].name = m
    BY DEF RulesInv
  <2> QED
    BY <1>1, <1>9, <2>2, <2>3
<1>11. \E f : KeyedBy(f, converted', usedNames')
  <2> DEFINE p == <<n, count>>
             C == Copies(usedNames)
  <2>1. PICK f : KeyedBy(f, converted, usedNames)
    BY DEF RulesInv
  <2>2. p \notin C
    BY <1>1 DEF Copies, count
  <2>3. Copies(usedNames') = C \cup {p}
    <3>1. ASSUME NEW m \in OwnName, NEW k \in Nat \ {0}
          PROVE  <<m, k>> \in Copies(usedNames') <=> <<m, k>> \in C \/ <<m, k>> = p
      <4>1. k <= usedNames'[m] <=> k <= usedNames[m] \/ (m = n /\ k = count)
        BY <1>1, <1>9 DEF count
      <4>2. <<m, k>> \in Copies(usedNames') <=> k <= usedNames'[m]
        BY DEF Copies
      <4>3. <<m, k>> \in C <=> k <= usedNames[m]
        BY DEF Copies
      <4> QED
        BY <4>1, <4>2, <4>3
    <3>2. /\ Copies(usedNames') \subseteq OwnName \X (Nat \ {0}) /\ C \subseteq OwnName \X (Nat \ {0})
          /\ p \in OwnName \X (Nat \ {0})
      BY <1>1 DEF Copies
    <3> HIDE DEF C, p
    <3>3. \A q \in OwnName \X (Nat \ {0}) : q \in Copies(usedNames') <=> q \in C \/ q = p
      <4> SUFFICES ASSUME NEW q \in OwnName \X (Nat \ {0}) PROVE q \in Copies(usedNames') <=> q \in C \/ q = p
        OBVIOUS
      <4>1. PICK m \in OwnName, k \in Nat \ {0} : q = <<m, k>>
        OBVIOUS
      <4> QED
        BY <3>1, <4>1
    <3> QED
      BY <3>2, <3>3
  <2> DEFINE g == [z \in D \cup {key} |-> IF z = key THEN p ELSE f[z]]
  <2>4. g \in Bijection(D \cup {key}, C \cup {p})
    <3> HIDE DEF p, C, D
    <3>1. f \in Bijection(D, C)
      BY <2>1 DEF KeyedBy, C, D
    <3> QED
      BY <1>5, <2>2, <3>1, BijectionGrows
  <2>5. ASSUME NEW k \in DOMAIN converted' PROVE converted'[k] = Named(g[k][1], g[k][2])
    <3>1. CASE k = key
      BY <1>4, <1>6, <3>1
    <3>2. CASE k # key
      <4>1. k \in D /\ g[k] = f[k]
        BY <1>6, <3>2
      <4> QED
        BY <1>6, <2>1, <4>1 DEF KeyedBy
    <3> QED
      BY <3>1, <3>2
  <2> HIDE DEF g, p, C
  <2>6. KeyedBy(g, converted', usedNames')
    BY <1>6, <2>3, <2>4, <2>5 DEF KeyedBy
  <2> QED
    BY <2>6
<1>12. RulesTypeOK'
  BY <1>3, <1>7, <1>9 DEF RulesInv, RulesTypeOK
<1> QED
  BY <1>1, <1>7, <1>8, <1>10, <1>11, <1>12 DEF RulesInv

LEMMA AppendsAgree ==
  ASSUME NEW n \in Seq(Nat), NEW m \in Seq(Nat), NEW j \in Nat, NEW k \in Nat, Append(n, j) = Append(m, k)
  PROVE  n = m /\ j = k
<1>1. Len(n) + 1 = Len(m) + 1 /\ Len(n) \in Nat /\ Len(m) \in Nat
  <2>1. Len(Append(n, j)) = Len(n) + 1 /\ Len(Append(m, k)) = Len(m) + 1
    OBVIOUS
  <2> QED
    BY <2>1
<1>2. Append(n, j)[Len(n) + 1] = j /\ Append(m, k)[Len(m) + 1] = k
  OBVIOUS
<1>3. \A i \in 1 .. Len(n) : Append(n, j)[i] = n[i] /\ Append(m, k)[i] = m[i]
  <2>1. \A i \in 1 .. Len(n) : Append(n, j)[i] = n[i]
    BY AppendProperties
  <2>2. \A i \in 1 .. Len(m) : Append(m, k)[i] = m[i]
    BY AppendProperties
  <2>3. Len(n) = Len(m)
    BY <1>1
  <2> QED
    BY <2>1, <2>2, <2>3
<1>4. Len(n) = Len(m) /\ \A i \in 1 .. Len(n) : n[i] = m[i]
  BY <1>1, <1>3
<1>5. n = m
  BY <1>4, SeqEqual
<1> QED
  BY <1>1, <1>2, <1>5

LEMMA StoreRuleKeepsInv ==
  ASSUME RulesInv, NEW rule \in Verdicts, StoreRule(rule)
  PROVE  RulesInv'
<1>1. /\ UNCHANGED <<records, usedNames, converted>> /\ ruleTable' = Append(ruleTable, rule)
      /\ ruleTable \in Seq(Verdicts)
  BY DEF StoreRule, RulesInv, RulesTypeOK
<1>2. ruleTable' \in Seq(Verdicts)
  BY <1>1
<1>3. RulesTypeOK'
  BY <1>1, <1>2 DEF RulesInv, RulesTypeOK
<1> QED
  BY <1>1, <1>3 DEF RulesInv

LEMMA RulesInvInit == RulesInit => RulesInv
<1> SUFFICES ASSUME RulesInit PROVE RulesInv
  OBVIOUS
<1>1. /\ records = << >> /\ usedNames = [n \in OwnName |-> 0] /\ converted = << >> /\ ruleTable = << >>
      /\ MaxRules \in Nat
  BY RulesAssumption DEF RulesInit
<1>2. DOMAIN converted = {} /\ Len(records) = 0 /\ DOMAIN records = {}
  BY <1>1
<1>3. IsFiniteSet(DOMAIN converted) /\ Cardinality(DOMAIN converted) = 0
  BY <1>2, FS_EmptySet
<1>4. Copies(usedNames) = {}
  BY <1>1 DEF Copies
<1>5. << >> \in Bijection({}, {})
  <2>1. << >> \in [{} -> {}]
    BY <1>1, <1>2
  <2> QED
    BY <1>1, <1>2, <2>1 DEF Bijection, Injection, Surjection, IsInjective
<1>6. KeyedBy(<< >>, converted, usedNames)
  BY <1>2, <1>4, <1>5 DEF KeyedBy
<1>7. RulesTypeOK
  BY <1>1 DEF RulesTypeOK
<1> QED
  BY <1>1, <1>2, <1>3, <1>6, <1>7 DEF RulesInv

LEMMA RulesInvStep == RulesInv /\ [RulesNext]_ruleVars => RulesInv'
<1>1. ASSUME RulesInv, UNCHANGED ruleVars PROVE RulesInv'
  <2>1. UNCHANGED <<records, usedNames, converted, ruleTable>>
    BY <1>1 DEF ruleVars
  <2> QED
    BY <1>1, <2>1 DEF RulesInv, RulesTypeOK
<1> QED
  BY <1>1, ConvertKeepsInv, StoreRuleKeepsInv DEF RulesNext

LEMMA RulesInvHolds == RulesSpec => []RulesInv
BY RulesInvInit, RulesInvStep, PTL DEF RulesSpec

\* Two rules get one name exactly if one is called what another is renamed to.
LEMMA KeysMeanRules ==
  ASSUME RulesInv
  PROVE  RulesKept
<1> DEFINE own == {records[i].name : i \in DOMAIN records}
           renamed == UNION {{Append(n, k) : k \in 2 .. usedNames[n]} : n \in own}
           names == {converted[key] : key \in DOMAIN converted}
           C == Copies(usedNames)
<1>1. /\ usedNames \in [OwnName -> Nat] /\ OwnName \subseteq Seq(Nat)
      /\ Cardinality(DOMAIN converted) = Len(records)
  BY RulesAssumption DEF RulesInv, RulesTypeOK
<1>2. own = {n \in OwnName : usedNames[n] # 0}
  <2>1. \A i \in DOMAIN records : records[i].name \in OwnName
    <3> SUFFICES ASSUME NEW i \in DOMAIN records PROVE records[i].name \in OwnName
      OBVIOUS
    <3>1. records[i] \in Record
      BY DEF RulesInv, RulesTypeOK
    <3> QED
      BY <3>1 DEF Record
  <2> QED
    BY <2>1 DEF RulesInv
<1>3. PICK f : KeyedBy(f, converted, usedNames)
  BY DEF RulesInv
<1>4. /\ f \in [DOMAIN converted -> C] /\ \A a, b \in DOMAIN converted : f[a] = f[b] => a = b
      /\ \A p \in C : \E a \in DOMAIN converted : f[a] = p
      /\ \A key \in DOMAIN converted : converted[key] = Named(f[key][1], f[key][2])
  BY <1>3 DEF KeyedBy, Bijection, Injection, Surjection, IsInjective
<1> HIDE DEF own
<1>5. \A n, k : <<n, k>> \in C <=> n \in OwnName /\ k \in Nat \ {0} /\ k <= usedNames[n]
  BY DEF Copies
<1>6. \A p \in C : \E n \in OwnName, k \in Nat \ {0} : p = <<n, k>> /\ p[1] = n /\ p[2] = k
  BY DEF Copies
<1>7. \A x : x \in own <=> <<x, 1>> \in C
  BY <1>1, <1>2, <1>5
<1>8. \A x : x \in renamed <=> \E n \in OwnName, k \in Nat \ {0, 1} : <<n, k>> \in C /\ x = Append(n, k)
  <2>1. \A n \in own : n \in OwnName /\ usedNames[n] \in Nat
    BY <1>1, <1>2
  <2>2. ASSUME NEW x \in renamed PROVE \E n \in OwnName, k \in Nat \ {0, 1} : <<n, k>> \in C /\ x = Append(n, k)
    <3>1. PICK n \in own : x \in {Append(n, k) : k \in 2 .. usedNames[n]}
      OBVIOUS
    <3>2. PICK k \in 2 .. usedNames[n] : x = Append(n, k)
      BY <3>1
    <3>3. n \in OwnName /\ k \in Nat \ {0, 1} /\ k <= usedNames[n]
      BY <2>1, <3>1, <3>2
    <3> QED
      BY <1>5, <3>2, <3>3
  <2>3. ASSUME NEW n \in OwnName, NEW k \in Nat \ {0, 1}, <<n, k>> \in C PROVE Append(n, k) \in renamed
    <3>1. k <= usedNames[n] /\ usedNames[n] \in Nat
      BY <1>1, <1>5, <2>3
    <3>2. n \in own /\ k \in 2 .. usedNames[n]
      BY <1>2, <3>1
    <3> QED
      BY <3>2
  <2> HIDE DEF renamed, C
  <2> QED
    BY <2>2, <2>3
<1> HIDE DEF renamed, C
<1>9. \A x : x \in names <=> \E n \in OwnName, k \in Nat \ {0} : <<n, k>> \in C /\ x = Named(n, k)
  <2>1. ASSUME NEW key \in DOMAIN converted
        PROVE  \E n \in OwnName, k \in Nat \ {0} : <<n, k>> \in C /\ converted[key] = Named(n, k)
    <3>1. f[key] \in C
      BY <1>4
    <3>2. PICK n \in OwnName, k \in Nat \ {0} : f[key] = <<n, k>> /\ f[key][1] = n /\ f[key][2] = k
      BY <1>6, <3>1
    <3> QED
      BY <1>4, <3>1, <3>2
  <2>2. ASSUME NEW n \in OwnName, NEW k \in Nat \ {0}, <<n, k>> \in C
        PROVE  \E key \in DOMAIN converted : converted[key] = Named(n, k)
    <3>1. PICK key \in DOMAIN converted : f[key] = <<n, k>>
      BY <1>4, <2>2
    <3> QED
      BY <1>4, <3>1
  <2>3. \A x : x \in names <=> \E key \in DOMAIN converted : x = converted[key]
    OBVIOUS
  <2> HIDE DEF names
  <2>4. ASSUME NEW x \in names PROVE \E n \in OwnName, k \in Nat \ {0} : <<n, k>> \in C /\ x = Named(n, k)
    <3>1. PICK key \in DOMAIN converted : x = converted[key]
      BY <2>3
    <3> QED
      BY <2>1, <3>1
  <2>5. ASSUME NEW n \in OwnName, NEW k \in Nat \ {0}, <<n, k>> \in C PROVE Named(n, k) \in names
    BY <2>2, <2>3, <2>5
  <2> QED
    BY <2>4, <2>5
<1>10. own \cup renamed = names
  <2>1. ASSUME NEW x \in own PROVE x \in names
    <3>1. <<x, 1>> \in C /\ x \in OwnName /\ x = Named(x, 1)
      BY <1>5, <1>7 DEF Named
    <3> QED
      BY <1>9, <3>1
  <2>2. ASSUME NEW x \in renamed PROVE x \in names
    <3>1. PICK n \in OwnName, k \in Nat \ {0, 1} : <<n, k>> \in C /\ x = Append(n, k)
      BY <1>8
    <3>2. x = Named(n, k)
      BY <3>1 DEF Named
    <3> QED
      BY <1>9, <3>1, <3>2
  <2>3. ASSUME NEW x \in names PROVE x \in own \cup renamed
    <3>1. PICK n \in OwnName, k \in Nat \ {0} : <<n, k>> \in C /\ x = Named(n, k)
      BY <1>9
    <3>2. CASE k = 1
      BY <1>7, <3>1, <3>2 DEF Named
    <3>3. CASE k # 1
      <4>1. k \in Nat \ {0, 1} /\ x = Append(n, k)
        BY <3>1, <3>3 DEF Named
      <4> QED
        BY <1>8, <3>1, <4>1
    <3> QED
      BY <3>2, <3>3
  <2> HIDE DEF names
  <2> QED
    BY <2>1, <2>2, <2>3
<1>11. ASSUME own \cap renamed # {} PROVE ~IsInjective(converted)
  <2>1. PICK x \in own : x \in renamed
    BY <1>11
  <2>2. PICK n \in OwnName, k \in Nat \ {0, 1} : <<n, k>> \in C /\ x = Append(n, k)
    BY <1>8, <2>1
  <2>3. <<x, 1>> \in C /\ x = Named(x, 1) /\ x = Named(n, k)
    <3>1. <<x, 1>> \in C
      BY <1>7
    <3>2. k > 1
      OBVIOUS
    <3> QED
      BY <2>2, <3>1, <3>2 DEF Named
  <2>4. PICK a \in DOMAIN converted : f[a] = <<x, 1>>
    BY <1>4, <2>3
  <2>5. PICK b \in DOMAIN converted : f[b] = <<n, k>>
    BY <1>4, <2>2
  <2>6. converted[a] = converted[b]
    BY <1>4, <2>3, <2>4, <2>5
  <2>7. a # b
    BY <2>4, <2>5
  <2> QED
    BY <2>6, <2>7 DEF IsInjective
<1>12. ASSUME own \cap renamed = {} PROVE IsInjective(converted)
  <2>1. ASSUME NEW n \in OwnName, NEW j \in Nat \ {0}, NEW m \in OwnName, NEW k \in Nat \ {0},
               <<n, j>> \in C, <<m, k>> \in C, Named(n, j) = Named(m, k)
        PROVE  n = m /\ j = k
    <3>1. CASE j = 1 /\ k = 1
      BY <2>1, <3>1 DEF Named
    <3>2. CASE j = 1 /\ k # 1
      <4>1. n \in own /\ n = Append(m, k) /\ k \in Nat \ {0, 1}
        BY <1>7, <2>1, <3>2 DEF Named
      <4>2. n \in renamed
        BY <1>8, <2>1, <4>1
      <4> QED
        BY <1>12, <4>1, <4>2
    <3>3. CASE j # 1 /\ k = 1
      <4>1. m \in own /\ m = Append(n, j) /\ j \in Nat \ {0, 1}
        BY <1>7, <2>1, <3>3 DEF Named
      <4>2. m \in renamed
        BY <1>8, <2>1, <4>1
      <4> QED
        BY <1>12, <4>1, <4>2
    <3>4. CASE j # 1 /\ k # 1
      <4>1. j > 1 /\ k > 1
        BY <3>4
      <4>2. Append(n, j) = Append(m, k) /\ n \in Seq(Nat) /\ m \in Seq(Nat)
        BY <1>1, <2>1, <4>1 DEF Named
      <4> QED
        BY <4>2, AppendsAgree
    <3> QED
      BY <3>1, <3>2, <3>3, <3>4
  <2>2. ASSUME NEW a \in DOMAIN converted, NEW b \in DOMAIN converted, converted[a] = converted[b] PROVE a = b
    <3>1. f[a] \in C /\ f[b] \in C
      BY <1>4
    <3>2. PICK n \in OwnName, j \in Nat \ {0} : f[a] = <<n, j>> /\ f[a][1] = n /\ f[a][2] = j
      BY <1>6, <3>1
    <3>3. PICK m \in OwnName, k \in Nat \ {0} : f[b] = <<m, k>> /\ f[b][1] = m /\ f[b][2] = k
      BY <1>6, <3>1
    <3>4. Named(n, j) = Named(m, k)
      BY <1>4, <2>2, <3>2, <3>3
    <3>5. n = m /\ j = k
      BY <2>1, <3>1, <3>2, <3>3, <3>4
    <3> QED
      BY <1>4, <3>2, <3>3, <3>5
  <2> QED
    BY <2>2 DEF IsInjective
<1> HIDE DEF names
<1> QED
  BY <1>1, <1>10, <1>11, <1>12 DEF RulesKept, own, renamed, names

\* Rules, names and the table keep their types.
THEOREM RulesTypes == RulesSpec => []RulesTypeOK
<1>1. RulesInv => RulesTypeOK
  BY DEF RulesInv
<1> QED
  BY <1>1, RulesInvHolds, PTL

\* Whatever the rules of a response are called, each gets a key of its own, and
\* their names collide, so that the table refuses the snapshot, exactly if one is
\* called what another's duplicate is renamed to.
THEOREM RulesAreKept == RulesSpec => []RulesKept
<1>1. RulesInv => RulesKept
  BY KeysMeanRules
<1> QED
  BY <1>1, RulesInvHolds, PTL

\* For any table of rules, in any order of their ids, the engine's verdict is that
\* of a decisive rule of the highest priority.
THEOREM FirstMatchIsDecisive == RulesSpec => []FirstMatchDecides
<1>1. RulesInv => FirstMatchDecides
  BY VerdictOfFirst DEF RulesInv, RulesTypeOK
<1> QED
  BY <1>1, RulesInvHolds, PTL
-----------------------------------------------------------------------------
(* The routes.                                                             *)

LEMMA RowsHaveLengths ==
  ASSUME routes \in Seq(Rows), NEW i \in DOMAIN routes
  PROVE  i \in Nat \ {0} /\ routes[i].length \in Nat /\ routes[i].usable \in BOOLEAN
<1>1. i \in Nat \ {0} /\ routes[i] \in Rows
  OBVIOUS
<1> QED
  BY <1>1 DEF Rows

LEMMA FiniteTable ==
  ASSUME routes \in Seq(Rows), NEW ids, ids \subseteq DOMAIN routes
  PROVE  IsFiniteSet(ids) /\ ids \in SUBSET Nat
<1>1. DOMAIN routes = 1 .. Len(routes) /\ Len(routes) \in Nat
  OBVIOUS
<1>2. IsFiniteSet(1 .. Len(routes))
  BY <1>1, FS_Interval
<1> QED
  BY <1>1, <1>2, FS_Subset

\* An order of the positions in the table.
Sorts(list, N, ids) ==
  /\ N \in Nat /\ list \in [1 .. N -> ids]
  /\ \A x \in ids : \E k \in 1 .. N : list[k] = x

LEMMA LongestComeFirst ==
  ASSUME routes \in Seq(Rows), NEW ids, ids \subseteq DOMAIN routes
  PROVE  LET list == LongestFirst(ids)
             N == Cardinality(ids)
         IN /\ Sorts(list, N, ids)
            /\ \A k, l \in 1 .. N : k < l =>
                 \/ routes[list[k]].length > routes[list[l]].length
                 \/ routes[list[k]].length = routes[list[l]].length /\ list[k] < list[l]
<1> DEFINE Before(i, j) == \/ routes[i].length > routes[j].length
                           \/ routes[i].length = routes[j].length /\ i < j
           R == {p \in ids \X ids : Before(p[1], p[2])}
           N == Cardinality(ids)
           list == LongestFirst(ids)
<1>1. \A x, y : <<x, y>> \in R <=> x \in ids /\ y \in ids /\ Before(x, y)
  OBVIOUS
<1>2. list = Sorted(ids, R)
  BY DEF LongestFirst
<1>3. \A x, y, z \in ids : Before(x, y) /\ Before(y, z) => Before(x, z)
  <2> SUFFICES ASSUME NEW x \in ids, NEW y \in ids, NEW z \in ids, Before(x, y), Before(y, z)
               PROVE  Before(x, z)
    OBVIOUS
  <2>1. /\ x \in Nat /\ y \in Nat /\ z \in Nat /\ routes[x].length \in Nat
        /\ routes[y].length \in Nat /\ routes[z].length \in Nat
    BY RowsHaveLengths
  <2> QED
    BY <2>1
<1>4. \A x, y \in ids : ~Before(x, x) /\ (x = y \/ Before(x, y) \/ Before(y, x))
  <2> SUFFICES ASSUME NEW x \in ids, NEW y \in ids
               PROVE  ~Before(x, x) /\ (x = y \/ Before(x, y) \/ Before(y, x))
    OBVIOUS
  <2>1. /\ x \in Nat /\ y \in Nat /\ routes[x].length \in Nat /\ routes[y].length \in Nat
    BY RowsHaveLengths
  <2> QED
    BY <2>1
<1> HIDE DEF R, Before
<1>5. StrictOrder(ids, R)
  BY <1>1, <1>3, <1>4 DEF StrictOrder
<1>6. IsFiniteSet(ids)
  BY FiniteTable
<1>7. /\ N \in Nat /\ Sorted(ids, R) \in [1 .. N -> ids]
      /\ \A x \in ids : \E k \in 1 .. N : Sorted(ids, R)[k] = x
      /\ \A k, l \in 1 .. N : k < l => <<Sorted(ids, R)[k], Sorted(ids, R)[l]>> \in R
  <2>1. N \in Nat /\ Sorted(ids, R) \in [1 .. N -> ids]
    BY <1>5, <1>6, SortedElements
  <2>2. \A x \in ids : \E k \in 1 .. N : Sorted(ids, R)[k] = x
    BY <1>5, <1>6, SortedElements
  <2>3. \A k, l \in 1 .. N : k < l => <<Sorted(ids, R)[k], Sorted(ids, R)[l]>> \in R
    BY <1>5, <1>6, SortedElements
  <2> QED
    BY <2>1, <2>2, <2>3
<1> HIDE DEF N, list
<1>8. /\ Sorts(list, N, ids)
      /\ \A k, l \in 1 .. N : k < l => <<list[k], list[l]>> \in R
  BY <1>2, <1>7 DEF Sorts
<1>9. \A k, l \in 1 .. N : k < l => Before(list[k], list[l])
  BY <1>1, <1>8
<1> QED
  BY <1>8, <1>9 DEF N, list, Before

\* The row a list is searched for.
FirstOf(list, N, k) ==
  /\ k \in 1 .. N /\ Finds(list[k]) /\ \A j \in 1 .. N : Finds(list[j]) => k <= j
  /\ First(list) = IF routes[list[k]].usable THEN list[k] ELSE 0

LEMMA FirstIsFound ==
  ASSUME NEW list, NEW N, NEW ids, Sorts(list, N, ids)
  PROVE  \/ First(list) = 0 /\ \A x \in ids : ~Finds(x)
         \/ \E k \in 1 .. N : FirstOf(list, N, k)
<1> DEFINE I == {i \in 1 .. Len(list) : Finds(list[i])}
           n == SelectInSeq(list, Finds)
<1>1. N \in Nat /\ list \in [1 .. N -> ids] /\ \A x \in ids : \E k \in 1 .. N : list[k] = x
  BY DEF Sorts
<1>2. Len(list) = N
  BY <1>1
<1>3. I = {i \in 1 .. N : Finds(list[i])}
  BY <1>2
<1>4. n = IF I # {} THEN Min(I) ELSE 0
  BY DEF SelectInSeq
<1>5. First(list) = IF n # 0 /\ routes[list[n]].usable THEN list[n] ELSE 0
  BY DEF First
<1> HIDE DEF n, I
<1>6. I \in SUBSET Nat /\ IsFiniteSet(I)
  <2>1. I \subseteq 1 .. N /\ I \in SUBSET Nat
    BY <1>1, <1>3
  <2>2. IsFiniteSet(1 .. N)
    BY <1>1, FS_Interval
  <2> QED
    BY <2>1, <2>2, FS_Subset
<1>7. CASE I = {}
  <2>1. First(list) = 0
    BY <1>4, <1>5, <1>7
  <2>2. \A x \in ids : ~Finds(x)
    BY <1>1, <1>3, <1>7
  <2> QED
    BY <2>1, <2>2
<1>8. CASE I # {}
  <2>1. n \in I /\ \A k \in I : n <= k
    BY <1>4, <1>6, <1>8, MinIsLeast
  <2>2. n \in 1 .. N /\ Finds(list[n]) /\ n # 0
    BY <1>1, <1>3, <2>1
  <2>3. \A j \in 1 .. N : Finds(list[j]) => n <= j
    BY <1>3, <2>1
  <2>4. FirstOf(list, N, n)
    BY <1>5, <2>2, <2>3 DEF FirstOf
  <2> QED
    BY <2>2, <2>4
<1> QED
  BY <1>7, <1>8

\* What a search of one of the resolver's lists returns, and what the look-up it
\* stands for may return instead.
Answers(answer, best) ==
  \/ answer = 0 /\ best = {}
  \/ \E i \in best : answer = IF routes[i].usable THEN i ELSE 0

LEMMA LongestFound ==
  ASSUME routes \in Seq(Rows), NEW ids, ids \subseteq DOMAIN routes
  PROVE  Answers(First(LongestFirst(ids)), FirstId(Longest({i \in ids : Finds(i)})))
<1> DEFINE list == LongestFirst(ids)
           N == Cardinality(ids)
           found == {i \in ids : Finds(i)}
<1>1. /\ Sorts(list, N, ids)
      /\ \A k, l \in 1 .. N : k < l =>
           \/ routes[list[k]].length > routes[list[l]].length
           \/ routes[list[k]].length = routes[list[l]].length /\ list[k] < list[l]
  BY LongestComeFirst
<1>2. /\ N \in Nat /\ list \in [1 .. N -> ids] /\ \A x \in ids : \E k \in 1 .. N : list[k] = x
  BY <1>1 DEF Sorts
<1> HIDE DEF list, N
<1>3. CASE First(list) = 0 /\ \A x \in ids : ~Finds(x)
  <2>1. FirstId(Longest(found)) = {}
    BY <1>3 DEF FirstId, Longest
  <2> QED
    BY <1>3, <2>1 DEF Answers, list
<1>4. CASE \E k \in 1 .. N : FirstOf(list, N, k)
  <2>1. PICK k \in 1 .. N : FirstOf(list, N, k)
    BY <1>4
  <2> DEFINE i == list[k]
  <2>2. /\ i \in ids /\ Finds(i) /\ i \in Nat /\ routes[i].length \in Nat
        /\ First(list) = IF routes[i].usable THEN i ELSE 0
    BY <1>2, <2>1, RowsHaveLengths DEF FirstOf
  <2>3. ASSUME NEW j \in found
        PROVE  /\ routes[i].length >= routes[j].length
               /\ routes[i].length = routes[j].length => i <= j
    <3>1. PICK l \in 1 .. N : list[l] = j
      BY <1>2
    <3>2. k <= l
      BY <2>1, <3>1 DEF FirstOf
    <3>3. j \in Nat /\ routes[j].length \in Nat
      BY RowsHaveLengths
    <3>4. CASE k = l
      BY <2>2, <3>1, <3>3, <3>4
    <3>5. CASE k < l
      <4>1. \/ routes[i].length > routes[j].length
            \/ routes[i].length = routes[j].length /\ i < j
        BY <1>1, <3>1, <3>5
      <4> HIDE DEF i
      <4> QED
        BY <2>2, <3>3, <4>1
    <3> QED
      BY <1>2, <3>2, <3>4, <3>5
  <2> HIDE DEF i
  <2>4. i \in Longest(found)
    BY <2>2, <2>3 DEF Longest
  <2>5. \A j \in Longest(found) : i <= j
    <3> SUFFICES ASSUME NEW j \in Longest(found) PROVE i <= j
      OBVIOUS
    <3>1. j \in found /\ routes[j].length >= routes[i].length
      BY <2>2, <2>4 DEF Longest
    <3>2. routes[j].length \in Nat
      BY <3>1, RowsHaveLengths
    <3> QED
      BY <2>2, <2>3, <3>1, <3>2
  <2>6. i \in FirstId(Longest(found))
    BY <2>4, <2>5 DEF FirstId
  <2> QED
    BY <2>2, <2>6 DEF Answers, list
<1> QED
  BY <1>1, <1>3, <1>4, FirstIsFound

LEMMA SomeFound ==
  ASSUME routes \in Seq(Rows), NEW ids, ids \subseteq DOMAIN routes
  PROVE  Answers(First(Ascending(ids)), {i \in ids : Finds(i)})
<1> DEFINE list == Ascending(ids)
           N == Cardinality(ids)
<1>1. Sorts(list, N, ids)
  BY FiniteTable, AscendingElements DEF Sorts
<1> HIDE DEF list, N
<1>2. CASE First(list) = 0 /\ \A x \in ids : ~Finds(x)
  BY <1>2 DEF Answers, list
<1>3. CASE \E k \in 1 .. N : FirstOf(list, N, k)
  <2>1. PICK k \in 1 .. N : FirstOf(list, N, k)
    BY <1>3
  <2>2. list[k] \in ids
    BY <1>1 DEF Sorts
  <2> QED
    BY <2>1, <2>2 DEF Answers, FirstOf, list
<1> QED
  BY <1>1, <1>2, <1>3, FirstIsFound

\* The first of several searches that answers, next to the look-ups.
LEMMA ChosenInTurn ==
  ASSUME routes \in Seq(Rows), NEW answer, NEW best, best \subseteq DOMAIN routes, Answers(answer, best),
         NEW rest, NEW otherwise, rest \in otherwise
  PROVE  (IF answer # 0 THEN answer ELSE rest) \in Chosen(best, otherwise)
<1>1. CASE answer = 0 /\ best = {}
  BY <1>1 DEF Chosen
<1>2. CASE \E i \in best : answer = IF routes[i].usable THEN i ELSE 0
  <2>1. PICK i \in best : answer = IF routes[i].usable THEN i ELSE 0
    BY <1>2
  <2>2. i # 0
    BY RowsHaveLengths
  <2> QED
    BY <2>1, <2>2 DEF Chosen
<1> QED
  BY <1>1, <1>2 DEF Answers

LEMMA ResolverAgrees ==
  ASSUME routes \in Seq(Rows)
  PROVE  ResolvesLikeLegacy
<1> SUFFICES ASSUME \A i \in DOMAIN routes : routes[i].relation \notin {"untrimmed", "LIKE"}
             PROVE  Resolve \in LegacyRoutes
  BY DEF ResolvesLikeLegacy
<1> DEFINE FoundIn(type) == {i \in Of(type) : Finds(i)}
           exact == First(RouteSnapshot.exact)
           pattern == First(RouteSnapshot.patterns)
           path == First(RouteSnapshot.paths)
<1>1. ASSUME NEW type PROVE Of(type) \subseteq DOMAIN routes /\ Matching(type) = FoundIn(type)
  <2>1. Of(type) \subseteq DOMAIN routes
    BY DEF Of
  <2>2. \A i \in Of(type) : Finds(i) <=> routes[i].relation \in {"matches", "LIKE"}
    BY <2>1 DEF Finds
  <2> QED
    BY <2>1, <2>2 DEF Matching
<1>2. /\ RouteSnapshot.exact = Ascending(Of("domain"))
      /\ RouteSnapshot.patterns = LongestFirst(Of("pattern"))
      /\ RouteSnapshot.paths = LongestFirst(Of("path"))
  BY DEF RouteSnapshot
<1>3. Answers(exact, Matching("domain"))
  BY <1>1, <1>2, SomeFound
<1>4. Answers(pattern, FirstId(Longest(Matching("pattern"))))
  BY <1>1, <1>2, LongestFound
<1>5. Answers(path, Longest(Matching("path")))
  <2> DEFINE found == FoundIn("path")
  <2>1. Answers(path, FirstId(Longest(found)))
    BY <1>1, <1>2, LongestFound
  <2>2. Matching("path") = found
    BY <1>1
  <2> HIDE DEF path, found
  <2>3. CASE \E i \in FirstId(Longest(found)) : path = IF routes[i].usable THEN i ELSE 0
    <3>1. FirstId(Longest(found)) \subseteq Longest(found)
      BY DEF FirstId
    <3> QED
      BY <2>2, <2>3, <3>1 DEF Answers
  <2>4. CASE path = 0 /\ FirstId(Longest(found)) = {}
    <3>1. Longest(found) = {}
      <4>1. Longest(found) \subseteq DOMAIN routes
        BY <1>1 DEF Longest, found
      <4>2. IsFiniteSet(Longest(found)) /\ Longest(found) \in SUBSET Nat
        BY <4>1, FiniteTable
      <4>3. ASSUME Longest(found) # {} PROVE FALSE
        <5>1. Min(Longest(found)) \in FirstId(Longest(found))
          BY <4>2, <4>3, MinIsLeast DEF FirstId
        <5> QED
          BY <2>4, <5>1
      <4> QED
        BY <4>3
    <3> QED
      BY <2>2, <2>4, <3>1 DEF Answers
  <2> QED
    BY <2>1, <2>3, <2>4 DEF Answers
<1>6. /\ Matching("domain") \subseteq DOMAIN routes
      /\ FirstId(Longest(Matching("pattern"))) \subseteq DOMAIN routes
      /\ Longest(Matching("path")) \subseteq DOMAIN routes
  BY <1>1 DEF FirstId, Longest
<1>7. Resolve = IF exact # 0 THEN exact ELSE IF pattern # 0 THEN pattern ELSE IF path # 0 THEN path ELSE 0
  BY DEF Resolve
<1> HIDE DEF exact, pattern, path
<1>8. (IF path # 0 THEN path ELSE 0) \in Chosen(Longest(Matching("path")), {0})
  BY <1>5, <1>6, ChosenInTurn
<1>9. (IF pattern # 0 THEN pattern ELSE IF path # 0 THEN path ELSE 0) \in
        Chosen(FirstId(Longest(Matching("pattern"))), Chosen(Longest(Matching("path")), {0}))
  BY <1>4, <1>6, <1>8, ChosenInTurn
<1>10. (IF exact # 0 THEN exact ELSE IF pattern # 0 THEN pattern ELSE IF path # 0 THEN path ELSE 0) \in LegacyRoutes
  BY <1>3, <1>6, <1>9, ChosenInTurn DEF LegacyRoutes
<1> QED
  BY <1>7, <1>10

\* The table keeps its rows' types and its bound.
THEOREM RoutesTypes == RoutesSpec => []RoutesTypeOK
<1>1. RoutesInit => RoutesTypeOK
  BY RoutingAssumption DEF RoutesInit, RoutesTypeOK
<1>2. RoutesTypeOK /\ [RoutesNext]_routes => RoutesTypeOK'
  <2> SUFFICES ASSUME RoutesTypeOK, [RoutesNext]_routes PROVE RoutesTypeOK'
    OBVIOUS
  <2>1. CASE UNCHANGED routes
    BY <2>1 DEF RoutesTypeOK
  <2>2. ASSUME NEW row \in Rows, InsertRoute(row) PROVE RoutesTypeOK'
    <3>1. routes \in Seq(Rows) /\ Len(routes) < MaxRoutes /\ routes' = Append(routes, row) /\ MaxRoutes \in Nat
      BY <2>2, RoutingAssumption DEF RoutesTypeOK, InsertRoute
    <3>2. routes' \in Seq(Rows) /\ Len(routes') = Len(routes) + 1 /\ Len(routes) \in Nat
      BY <3>1
    <3> QED
      BY <3>1, <3>2 DEF RoutesTypeOK
  <2> QED
    BY <2>1, <2>2 DEF RoutesNext
<1> QED
  BY <1>1, <1>2, PTL DEF RoutesSpec

\* For a table of any size and any order of its ids, the resolver returns what the
\* look-ups it replaced may return, as long as both find the same rows.
THEOREM ResolverFollowsLookUps == RoutesSpec => []ResolvesLikeLegacy
<1>1. RoutesTypeOK => ResolvesLikeLegacy
  BY ResolverAgrees DEF RoutesTypeOK
<1> QED
  BY <1>1, RoutesTypes, PTL
-----------------------------------------------------------------------------
(* The services together.                                                  *)

\* A step of the composition is one of one service; the others stand still.
LEMMA OneServiceSteps ==
  [Next]_vars =>
    /\ [RateNext]_rateVars /\ [WorkerNext]_workerVars /\ [AccessNext]_accessVars /\ [CacheNext]_cacheVars
    /\ [RulesNext]_ruleVars /\ [RoutesNext]_routes /\ [AddressNext]_addressVars
<1> SUFFICES ASSUME [Next]_vars
             PROVE  /\ [RateNext]_rateVars /\ [WorkerNext]_workerVars /\ [AccessNext]_accessVars
                    /\ [CacheNext]_cacheVars /\ [RulesNext]_ruleVars /\ [RoutesNext]_routes
                    /\ [AddressNext]_addressVars
  OBVIOUS
<1>1. CASE Rate
  BY <1>1 DEF Rate
<1>2. CASE Classifier
  BY <1>2 DEF Classifier
<1>3. CASE Admission
  BY <1>3 DEF Admission
<1>4. CASE Cache
  BY <1>4 DEF Cache
<1>5. CASE Rules
  BY <1>5 DEF Rules
<1>6. CASE Routes
  BY <1>6 DEF Routes
<1>7. CASE Addresses
  BY <1>7 DEF Addresses
<1>8. CASE UNCHANGED vars
  BY <1>8 DEF vars
<1> QED
  BY <1>1, <1>2, <1>3, <1>4, <1>5, <1>6, <1>7, <1>8 DEF Next

\* However the steps of the services follow each other, for one request or for many
\* at a time, each service behaves as it does alone: none of them sees the others.
THEOREM ServicesAreApart ==
  Spec => /\ RateSpec /\ WorkerSpec /\ AccessSpec /\ CacheSpec
          /\ RulesSpec /\ RoutesSpec /\ AddressSpec
<1>1. Init => /\ RateInit /\ WorkerInit /\ AccessInit /\ CacheInit
              /\ RulesInit /\ RoutesInit /\ AddressInit
  BY DEF Init
<1> QED
  BY <1>1, OneServiceSteps, PTL
     DEF Spec, RateSpec, WorkerSpec, AccessSpec, CacheSpec, RulesSpec, RoutesSpec, AddressSpec

\* All services together keep their types.
THEOREM ServicesTypes == Spec => []ServicesTypeOK
<1>1. /\ RateTypeOK /\ WorkerTypeOK /\ AccessTypeOK /\ CacheTypeOK
      /\ RulesTypeOK /\ RoutesTypeOK /\ AddressTypeOK
      => ServicesTypeOK
  BY DEF ServicesTypeOK
<1> QED
  BY <1>1, ServicesAreApart, RateTypes, WorkerTypes, AccessTypes, CacheTypes, RulesTypes,
     RoutesTypes, AddressTypes, PTL

\* While the services work for any number of requests at once, their steps
\* interleaved in any order, each keeps its promise.
THEOREM ServicesKeepTheirPromises ==
  Spec => /\ GateEarned /\ WithdrawnNotServed
          /\ [](/\ RecencyKept /\ QuotaRespected /\ PipesOwned /\ ListsAgree /\ AnswersRationed
                /\ VerifiedEarned /\ HitFresh /\ RulesKept /\ FirstMatchDecides /\ ResolvesLikeLegacy
                /\ AddressVouched)
BY ServicesAreApart, RecencyIsKept, QuotaIsRespected, PipesStayOwned, ListsStayAgreed, AnswersAreRationed,
   VerifiedIsEarned, HitsAreFresh, RulesAreKept, FirstMatchIsDecisive, ResolverFollowsLookUps,
   AddressIsVouched, GatesAreEarned, WithdrawnIsNotServed, PTL
=============================================================================
