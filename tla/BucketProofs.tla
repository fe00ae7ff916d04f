---------------------------- MODULE BucketProofs -----------------------------
(***************************************************************************)
(* What the operators of Orders and Buckets compute, on which the proofs   *)
(* about the two token-bucket limiters and the rules rest: sorting, parts  *)
(* of lists, and buckets next to ideal ones, for any keys, rates, sizes    *)
(* and lifetimes and for readings of the clock as late as Lag.             *)
(***************************************************************************)
EXTENDS Buckets, Orders, SequencesExt, FiniteSetTheorems, SequenceTheorems, TLAPS

-----------------------------------------------------------------------------
(* Sorting.                                                                *)

\* A strict order of all elements of S.
StrictOrder(S, R) ==
  /\ \A x \in S : <<x, x>> \notin R
  /\ \A x, y, z \in S : <<x, y>> \in R /\ <<y, z>> \in R => <<x, z>> \in R
  /\ \A x, y \in S : x = y \/ <<x, y>> \in R \/ <<y, x>> \in R

\* Whatever comes earlier has a lower rank.
LEMMA RankGrows ==
  ASSUME NEW S, IsFiniteSet(S), NEW R, StrictOrder(S, R),
         NEW x \in S, NEW y \in S, <<x, y>> \in R
  PROVE  Rank(S, R, x) < Rank(S, R, y)
<1> DEFINE Upto(z) == {u \in S : u = z \/ <<u, z>> \in R}
<1>1. Upto(x) \subseteq Upto(y)
  BY DEF StrictOrder
<1>2. y \in Upto(y) /\ y \notin Upto(x)
  BY DEF StrictOrder
<1>3. IsFiniteSet(Upto(x)) /\ IsFiniteSet(Upto(y))
  BY FS_Subset
<1> HIDE DEF Upto
<1>4. Cardinality(Upto(x)) <= Cardinality(Upto(y)) /\ Cardinality(Upto(x)) # Cardinality(Upto(y))
  BY <1>1, <1>2, <1>3, FS_Subset
<1>5. Cardinality(Upto(x)) \in Nat /\ Cardinality(Upto(y)) \in Nat
  BY <1>3, FS_CardinalityType
<1> QED
  BY <1>4, <1>5 DEF Rank, Upto

\* Ranks are 1, 2 and so on up to the number of elements, one for each.
LEMMA RankCounts ==
  ASSUME NEW S, IsFiniteSet(S), NEW R, StrictOrder(S, R)
  PROVE  /\ \A x \in S : Rank(S, R, x) \in 1 .. Cardinality(S)
         /\ \A n \in 1 .. Cardinality(S) : \E x \in S : Rank(S, R, x) = n
<1> DEFINE N == Cardinality(S)
           f == [x \in S |-> Rank(S, R, x)]
<1>1. ASSUME NEW x \in S PROVE Rank(S, R, x) \in 1 .. N
  <2> DEFINE Upto == {u \in S : u = x \/ <<u, x>> \in R}
  <2>1. IsFiniteSet(Upto) /\ Cardinality(Upto) <= N
    BY FS_Subset
  <2>2. x \in Upto
    OBVIOUS
  <2> HIDE DEF Upto
  <2>3. Cardinality(Upto) \in Nat /\ Cardinality(Upto) # 0 /\ N \in Nat
    BY <2>1, <2>2, FS_CardinalityType, FS_EmptySet
  <2> QED
    BY <2>1, <2>3 DEF Rank, Upto
<1>2. N \in Nat
  BY FS_CardinalityType
<1>3. f \in Injection(S, 1 .. N)
  <2>1. f \in [S -> 1 .. N]
    BY <1>1
  <2>2. ASSUME NEW x \in S, NEW y \in S, f[x] = f[y] PROVE x = y
    <3>1. Rank(S, R, x) = Rank(S, R, y)
      BY <2>2
    <3>2. Rank(S, R, x) \in Nat /\ Rank(S, R, y) \in Nat
      BY <1>1
    <3>3. ~(<<x, y>> \in R) /\ ~(<<y, x>> \in R)
      BY <3>1, <3>2, RankGrows
    <3> QED
      BY <3>3 DEF StrictOrder
  <2> HIDE DEF f
  <2>3. IsInjective(f)
    BY <2>1, <2>2 DEF IsInjective
  <2> QED
    BY <2>1, <2>3 DEF Injection
<1>4. IsFiniteSet(1 .. N) /\ Cardinality(1 .. N) = N
  BY <1>2, FS_Interval
<1>5. f \in Surjection(S, 1 .. N)
  <2> HIDE DEF f, N
  <2> QED
    BY <1>3, <1>4, FS_Injection DEF N
<1>6. \A n \in 1 .. N : \E x \in S : f[x] = n
  <2> HIDE DEF f, N
  <2> QED
    BY <1>5 DEF Surjection
<1> QED
  BY <1>1, <1>6

\* Sorted lists every element once, the earlier ones first.
LEMMA SortedElements ==
  ASSUME NEW S, IsFiniteSet(S), NEW R, StrictOrder(S, R)
  PROVE  /\ Cardinality(S) \in Nat
         /\ Sorted(S, R) \in [1 .. Cardinality(S) -> S]
         /\ \A x \in S : \E n \in 1 .. Cardinality(S) : Sorted(S, R)[n] = x
         /\ \A m, n \in 1 .. Cardinality(S) :
              m < n => <<Sorted(S, R)[m], Sorted(S, R)[n]>> \in R
<1> DEFINE N == Cardinality(S)
           list == Sorted(S, R)
<1>0. N \in Nat
  BY FS_CardinalityType
<1>1. ASSUME NEW n \in 1 .. N PROVE list[n] \in S /\ Rank(S, R, list[n]) = n
  <2>1. \E x \in S : Rank(S, R, x) = n
    BY RankCounts
  <2>2. list[n] = CHOOSE x \in S : Rank(S, R, x) = n
    BY DEF Sorted
  <2> QED
    BY <2>1, <2>2
<1>2. list \in [1 .. N -> S]
  BY <1>1 DEF Sorted
<1>3. ASSUME NEW x \in S, NEW y \in S, Rank(S, R, x) < Rank(S, R, y) PROVE <<x, y>> \in R
  <2>1. Rank(S, R, x) \in Nat /\ Rank(S, R, y) \in Nat
    BY RankCounts, <1>0
  <2>2. x # y /\ ~(<<y, x>> \in R)
    BY <1>3, <2>1, RankGrows
  <2> QED
    BY <2>2 DEF StrictOrder
<1>4. ASSUME NEW x \in S PROVE \E n \in 1 .. N : list[n] = x
  <2> DEFINE n == Rank(S, R, x)
  <2>1. n \in 1 .. N
    BY RankCounts
  <2>2. list[n] \in S /\ Rank(S, R, list[n]) = n
    BY <1>1, <2>1
  <2>3. ~(<<x, list[n]>> \in R) /\ ~(<<list[n], x>> \in R)
    BY <2>1, <2>2, RankGrows, <1>0
  <2> QED
    BY <2>1, <2>2, <2>3 DEF StrictOrder
<1>5. ASSUME NEW m \in 1 .. N, NEW n \in 1 .. N, m < n PROVE <<list[m], list[n]>> \in R
  BY <1>1, <1>3, <1>5
<1> HIDE DEF list, N
<1> QED
  BY <1>0, <1>2, <1>4, <1>5 DEF list, N

\* The same for numbers.
LEMMA AscendingElements ==
  ASSUME NEW S \in SUBSET Nat, IsFiniteSet(S)
  PROVE  /\ Cardinality(S) \in Nat
         /\ Ascending(S) \in [1 .. Cardinality(S) -> S]
         /\ \A x \in S : \E n \in 1 .. Cardinality(S) : Ascending(S)[n] = x
         /\ \A m, n \in 1 .. Cardinality(S) : m < n => Ascending(S)[m] < Ascending(S)[n]
<1> DEFINE R == {p \in S \X S : p[1] < p[2]}
<1>1. \A x, y \in S : <<x, y>> \in R <=> x < y
  OBVIOUS
<1>2. StrictOrder(S, R)
  BY <1>1 DEF StrictOrder
<1> HIDE DEF R
<1>3. Ascending(S) = Sorted(S, R)
  BY DEF Ascending, R
<1>4. /\ Cardinality(S) \in Nat
      /\ Ascending(S) \in [1 .. Cardinality(S) -> S]
      /\ \A x \in S : \E n \in 1 .. Cardinality(S) : Ascending(S)[n] = x
      /\ \A m, n \in 1 .. Cardinality(S) : m < n => <<Ascending(S)[m], Ascending(S)[n]>> \in R
  BY <1>2, <1>3, SortedElements
<1>5. ASSUME NEW m \in 1 .. Cardinality(S), NEW n \in 1 .. Cardinality(S), m < n
      PROVE  Ascending(S)[m] < Ascending(S)[n]
  <2>1. <<Ascending(S)[m], Ascending(S)[n]>> \in R
    BY <1>4, <1>5
  <2>2. Ascending(S)[m] \in S /\ Ascending(S)[n] \in S
    BY <1>4
  <2> QED
    BY <1>1, <2>1, <2>2
<1> QED
  BY <1>4, <1>5

\* A part of a list has the elements asked for, in the order of the list.
LEMMA SublistElements ==
  ASSUME NEW T, NEW list \in Seq(T), NEW keys
  PROVE  LET part == Sublist(list, keys)
         IN /\ part \in Seq(T)
            /\ \A i \in 1 .. Len(list) : list[i] \in keys => \E n \in 1 .. Len(part) : part[n] = list[i]
            /\ \A n \in 1 .. Len(part) : part[n] \in keys
            /\ \E f \in [1 .. Len(part) -> 1 .. Len(list)] :
                 /\ \A n \in 1 .. Len(part) : part[n] = list[f[n]]
                 /\ \A m, n \in 1 .. Len(part) : m < n => f[m] < f[n]
<1> DEFINE places == {i \in 1 .. Len(list) : list[i] \in keys}
           f == Ascending(places)
           part == Sublist(list, keys)
<1>1. places \in SUBSET Nat /\ IsFiniteSet(places)
  BY FS_Interval, FS_Subset
<1>2. \A i \in places : i \in 1 .. Len(list) /\ list[i] \in keys /\ list[i] \in T
  OBVIOUS
<1>3. \A i \in 1 .. Len(list) : list[i] \in keys => i \in places
  OBVIOUS
<1>4. part = [n \in 1 .. Cardinality(places) |-> list[f[n]]]
  BY DEF Sublist
<1> HIDE DEF places, f, part
<1>5. /\ Cardinality(places) \in Nat
      /\ f \in [1 .. Cardinality(places) -> places]
      /\ \A x \in places : \E n \in 1 .. Cardinality(places) : f[n] = x
      /\ \A m, n \in 1 .. Cardinality(places) : m < n => f[m] < f[n]
  BY <1>1, AscendingElements DEF f
<1>6. part \in Seq(T) /\ Len(part) = Cardinality(places)
  <2>1. \A n \in 1 .. Cardinality(places) : list[f[n]] \in T
    BY <1>2, <1>5
  <2>2. part \in [1 .. Cardinality(places) -> T]
    BY <1>4, <2>1
  <2>3. part \in Seq(T)
    BY <1>5, <2>2, SeqDef
  <2> QED
    BY <1>5, <2>2, <2>3, LenProperties
<1>7. f \in [1 .. Len(part) -> 1 .. Len(list)]
  BY <1>2, <1>5, <1>6
<1>8. \A n \in 1 .. Len(part) : part[n] = list[f[n]] /\ part[n] \in keys
  BY <1>2, <1>4, <1>5, <1>6
<1>9. \A i \in 1 .. Len(list) : list[i] \in keys => \E n \in 1 .. Len(part) : part[n] = list[i]
  BY <1>3, <1>5, <1>6, <1>8
<1>10. \A m, n \in 1 .. Len(part) : m < n => f[m] < f[n]
  BY <1>5, <1>6
<1>11. \E g \in [1 .. Len(part) -> 1 .. Len(list)] :
         /\ \A n \in 1 .. Len(part) : part[n] = list[g[n]]
         /\ \A m, n \in 1 .. Len(part) : m < n => g[m] < g[n]
  BY <1>7, <1>8, <1>10
<1> QED
  BY <1>6, <1>8, <1>9, <1>11 DEF part

-----------------------------------------------------------------------------
(* Buckets next to the ideal ones.                                         *)

\* The buckets are of keys and hold what a bucket may hold.
BucketsOK(buckets, full) ==
  /\ DOMAIN buckets \subseteq Key
  /\ \A k \in DOMAIN buckets : buckets[k] \in Bucket(full)

\* What a bucket will hold, if it is used right away with the oldest time there is.
Worth(bucket, rate, full) == Least(full, bucket.tokens + (bucket.age - Lag) * rate)

\* The ideal bucket of a key holds that much, and is full if the key has none.
Backed(buckets, ideal, rate, full) ==
  /\ \A k \in Key : ideal[k] <= full
  /\ \A k \in DOMAIN buckets : Worth(buckets[k], rate, full) <= ideal[k]
  /\ \A k \in Key \ DOMAIN buckets : ideal[k] = full

LEMMA Times ==
  ASSUME NEW a \in Int, NEW b \in Int, a <= b, NEW r \in Nat
  PROVE  a * r \in Int /\ b * r \in Int /\ a * r <= b * r
<1>1. (b - a) * r >= 0
  OBVIOUS
<1>2. (b - a) * r = b * r - a * r
  OBVIOUS
<1>3. a * r \in Int /\ b * r \in Int
  OBVIOUS
<1> QED
  BY <1>1, <1>2, <1>3

LEMMA NextTimes ==
  ASSUME NEW a \in Int, NEW r \in Nat
  PROVE  (a + 1) * r = a * r + r
OBVIOUS

LEMMA LagType == Lag \in Nat /\ AgeBound \in Nat /\ Lag < AgeBound /\ BucketTTL \in Nat /\ MaxBuckets \in Nat
BY BucketsAssumption

LEMMA PruneAges ==
  ASSUME NEW age \in PruneAge
  PROVE  OlderPrune(age) \in PruneAge /\ \A lag \in 0 .. Lag : lag \in PruneAge
BY BucketsAssumption DEF PruneAge, PruneAgeBound, OlderPrune, Least

\* A used bucket is worth no more than before, without a limit.
LEMMA RefillBacked ==
  ASSUME NEW rate \in Nat, NEW full \in Nat, NEW bucket \in Bucket(full), NEW lag \in 0 .. Lag
  PROVE  LET used == Refilled(bucket, lag, rate, full)
         IN /\ used \in Bucket(full) /\ used.age <= lag
            /\ used.tokens + (used.age - Lag) * rate <= Worth(bucket, rate, full)
<1> DEFINE t == bucket.tokens
           a == bucket.age
           used == Refilled(bucket, lag, rate, full)
<1>1. t \in 0 .. full /\ a \in 0 .. AgeBound /\ lag \in 0 .. AgeBound /\ Lag \in Nat
  BY LagType DEF Bucket
<1>2. CASE a > lag
  <2>1. used = [tokens |-> Least(full, t + (a - lag) * rate), age |-> lag]
    BY <1>2 DEF Refilled
  <2>2. /\ (a - Lag) * rate = (a - lag) * rate + (lag - Lag) * rate
        /\ (a - lag) * rate \in Int /\ (lag - Lag) * rate \in Int
        /\ (a - lag) * rate >= 0 /\ (lag - Lag) * rate <= 0
    <3>1. a - lag \in Nat /\ Lag - lag \in Nat
      BY <1>1, <1>2
    <3>2. (a - lag) * rate \in Nat /\ (Lag - lag) * rate \in Nat
      BY <3>1
    <3>3. (a - Lag) * rate = (a - lag) * rate + (lag - Lag) * rate
      BY <1>1
    <3>4. (lag - Lag) * rate = 0 - (Lag - lag) * rate
      BY <1>1
    <3> QED
      BY <3>2, <3>3, <3>4
  <2> DEFINE gain == (a - lag) * rate
             late == (lag - Lag) * rate
  <2>3. gain \in Nat /\ late \in Int /\ late <= 0 /\ (a - Lag) * rate = gain + late
    BY <2>2
  <2> HIDE DEF gain, late
  <2>4. Least(full, t + gain) \in 0 .. full /\ Least(full, t + gain) + late <= Least(full, t + (gain + late))
    BY <1>1, <2>3 DEF Least
  <2>5. used.tokens = Least(full, t + gain) /\ used.age = lag /\ used \in Bucket(full)
    BY <1>1, <2>1, <2>4 DEF gain, Bucket
  <2>6. used.tokens + late <= Worth(bucket, rate, full)
    BY <2>3, <2>4, <2>5 DEF Worth
  <2> QED
    BY <1>1, <2>5, <2>6 DEF late
<1>3. CASE ~(a > lag)
  <2>1. used = bucket
    BY <1>3 DEF Refilled
  <2>2. (a - Lag) * rate \in Int /\ (a - Lag) * rate <= 0
    <3>1. Lag - a \in Nat
      BY <1>1, <1>3
    <3>2. (Lag - a) * rate \in Nat /\ (a - Lag) * rate = 0 - (Lag - a) * rate
      BY <1>1, <3>1
    <3> QED
      BY <3>2
  <2> DEFINE late == (a - Lag) * rate
  <2>3. late \in Int /\ late <= 0
    BY <2>2
  <2> HIDE DEF late
  <2>4. t + late <= Least(full, t + late)
    BY <1>1, <2>3 DEF Least
  <2>5. used.tokens + (used.age - Lag) * rate <= Worth(bucket, rate, full)
    BY <2>1, <2>4 DEF late, Worth
  <2> QED
    BY <1>1, <1>3, <2>1, <2>5
<1> QED
  BY <1>2, <1>3

\* What is left of a map has buckets as before.
LEMMA PartOK ==
  ASSUME NEW full, NEW buckets, BucketsOK(buckets, full), NEW keys, keys \subseteq DOMAIN buckets
  PROVE  /\ DOMAIN Restrict(buckets, keys) = keys
         /\ \A k \in keys : Restrict(buckets, keys)[k] = buckets[k]
         /\ BucketsOK(Restrict(buckets, keys), full)
BY DEF BucketsOK, Restrict

\* Pruning keeps what it does not drop, and drops what was not used for long.
LEMMA PrunedOK ==
  ASSUME NEW full, NEW buckets, BucketsOK(buckets, full), NEW pruneAge, NEW lag \in 0 .. Lag
  PROVE  LET kept == Pruned(buckets, pruneAge, lag)
         IN /\ BucketsOK(kept, full)
            /\ DOMAIN kept \subseteq DOMAIN buckets
            /\ \A k \in DOMAIN kept : kept[k] = buckets[k]
            /\ \A k \in DOMAIN buckets \ DOMAIN kept : buckets[k].age - lag > BucketTTL
<1>1. CASE PruneDue(pruneAge, lag)
  <2>1. Recent(buckets, lag) \subseteq DOMAIN buckets
    BY DEF Recent
  <2>2. Pruned(buckets, pruneAge, lag) = Restrict(buckets, Recent(buckets, lag))
    BY <1>1 DEF Pruned
  <2>3. \A k \in DOMAIN buckets \ Recent(buckets, lag) : buckets[k].age - lag > BucketTTL
    BY LagType DEF Recent, BucketsOK, Bucket
  <2> QED
    BY <2>1, <2>2, <2>3, PartOK
<1>2. CASE ~PruneDue(pruneAge, lag)
  BY <1>2 DEF Pruned
<1> QED
  BY <1>1, <1>2

\* A bucket that is not used for long has refilled: nothing is gained by its loss.
LEMMA PrunedBacked ==
  ASSUME NEW rate \in Nat, NEW full \in Nat, rate * (BucketTTL - Lag) >= full,
         NEW buckets, BucketsOK(buckets, full),
         NEW ideal \in [Key -> Int], Backed(buckets, ideal, rate, full),
         NEW pruneAge, NEW lag \in 0 .. Lag
  PROVE  Backed(Pruned(buckets, pruneAge, lag), ideal, rate, full)
<1> DEFINE kept == Pruned(buckets, pruneAge, lag)
<1>1. /\ DOMAIN kept \subseteq DOMAIN buckets
      /\ \A k \in DOMAIN kept : kept[k] = buckets[k]
      /\ \A k \in DOMAIN buckets \ DOMAIN kept : buckets[k].age - lag > BucketTTL
  BY PrunedOK
<1> HIDE DEF kept
<1>2. ASSUME NEW k \in DOMAIN buckets \ DOMAIN kept PROVE ideal[k] = full
  <2>1. /\ buckets[k].tokens \in 0 .. full /\ buckets[k].age \in Int /\ k \in Key
        /\ BucketTTL - Lag \in Int /\ buckets[k].age - Lag \in Int
        /\ BucketTTL - Lag <= buckets[k].age - Lag
    BY <1>1, LagType DEF BucketsOK, Bucket
  <2>2. (buckets[k].age - Lag) * rate \in Int /\ (BucketTTL - Lag) * rate <= (buckets[k].age - Lag) * rate
    BY <2>1, Times
  <2>3. (BucketTTL - Lag) * rate = rate * (BucketTTL - Lag)
    BY <2>1
  <2> DEFINE gain == (buckets[k].age - Lag) * rate
  <2>4. gain \in Int /\ gain >= full
    <3>1. (BucketTTL - Lag) * rate \in Int /\ rate * (BucketTTL - Lag) \in Int
      BY <2>1, Times
    <3> QED
      BY <2>2, <2>3, <3>1
  <2> HIDE DEF gain
  <2>5. Least(full, buckets[k].tokens + gain) = full
    BY <2>1, <2>4 DEF Least
  <2>6. Worth(buckets[k], rate, full) = full
    BY <2>5 DEF Worth, gain
  <2>7. full <= ideal[k] /\ ideal[k] <= full
    BY <2>1, <2>6 DEF Backed
  <2> QED
    BY <2>1, <2>7
<1>3. \A k \in Key \ DOMAIN kept : ideal[k] = full
  BY <1>2 DEF Backed
<1>4. Backed(kept, ideal, rate, full)
  BY <1>1, <1>3 DEF Backed
<1> QED
  BY <1>4 DEF kept

\* A tick is worth no more to a bucket than to the ideal one.
LEMMA AgedBacked ==
  ASSUME NEW rate \in Nat, NEW full \in Nat, AgeBound * rate >= full + Lag * rate,
         NEW buckets, BucketsOK(buckets, full), NEW ideal \in [Key -> Int]
  PROVE  /\ BucketsOK(Aged(buckets), full)
         /\ DOMAIN Aged(buckets) = DOMAIN buckets
         /\ \A k \in DOMAIN buckets : Aged(buckets)[k].age = Least(buckets[k].age + 1, AgeBound)
         /\ Backed(buckets, ideal, rate, full) =>
              Backed(Aged(buckets), [k \in Key |-> Least(full, ideal[k] + rate)], rate, full)
<1> DEFINE aged == Aged(buckets)
           later == [k \in Key |-> Least(full, ideal[k] + rate)]
<1>1. DOMAIN aged = DOMAIN buckets
  BY DEF Aged
<1>2. ASSUME NEW k \in DOMAIN buckets
      PROVE  /\ aged[k] \in Bucket(full)
             /\ aged[k].tokens = buckets[k].tokens
             /\ aged[k].age = Least(buckets[k].age + 1, AgeBound)
  BY LagType DEF Aged, BucketsOK, Bucket, Least
<1> HIDE DEF aged
<1>3. ASSUME NEW k \in DOMAIN buckets, Backed(buckets, ideal, rate, full)
      PROVE  Worth(aged[k], rate, full) <= later[k]
  <2> DEFINE t == buckets[k].tokens
             a == buckets[k].age
             gain == (a - Lag) * rate
  <2>1. k \in Key /\ t \in 0 .. full /\ a \in 0 .. AgeBound /\ ideal[k] \in Int
    BY DEF BucketsOK, Bucket
  <2>2. gain \in Int
    BY <2>1, LagType
  <2>3. later[k] = Least(full, ideal[k] + rate) /\ Least(full, t + gain) <= ideal[k]
    BY <1>3, <2>1 DEF Backed, Worth
  <2>4. CASE a < AgeBound
    <3>1. aged[k].age = a + 1
      BY <1>2, <2>1, <2>4, LagType DEF Least
    <3>2. a - Lag \in Int /\ aged[k].age - Lag = (a - Lag) + 1
      <4>1. a \in Int /\ Lag \in Int
        BY <2>1, LagType
      <4> HIDE DEF a
      <4> QED
        BY <3>1, <4>1
    <3>3. (a - Lag + 1) * rate = (a - Lag) * rate + rate
      BY <3>2, NextTimes
    <3>4. (aged[k].age - Lag) * rate = gain + rate
      BY <3>2, <3>3
    <3>5. Worth(aged[k], rate, full) = Least(full, aged[k].tokens + (aged[k].age - Lag) * rate)
      BY DEF Worth
    <3>6. Worth(aged[k], rate, full) = Least(full, t + (gain + rate))
      BY <1>2, <3>4, <3>5
    <3> HIDE DEF gain, later
    <3> QED
      BY <2>1, <2>2, <2>3, <3>6 DEF Least
  <2>5. CASE a = AgeBound
    <3>1. aged[k].age = AgeBound
      BY <1>2, <2>1, <2>5, LagType DEF Least
    <3>2. gain >= full
      <4>1. (AgeBound - Lag) * rate = AgeBound * rate - Lag * rate
        BY LagType
      <4>2. AgeBound * rate \in Int /\ Lag * rate \in Int
        BY LagType
      <4> QED
        BY <2>5, <4>1, <4>2
    <3>3. Worth(aged[k], rate, full) = Least(full, t + gain)
      BY <1>2, <2>5, <3>1 DEF Worth
    <3> HIDE DEF gain, later
    <3> QED
      BY <2>1, <2>2, <2>3, <3>2, <3>3 DEF Least
  <2>6. a < AgeBound \/ a = AgeBound
    <3> HIDE DEF a
    <3> QED
      BY <2>1, LagType
  <2> QED
    BY <2>4, <2>5, <2>6
<1>4. BucketsOK(aged, full)
  BY <1>1, <1>2 DEF BucketsOK
<1>5. ASSUME Backed(buckets, ideal, rate, full)
      PROVE  Backed(aged, later, rate, full)
  <2>1. \A k \in Key : later[k] <= full
    BY DEF Least
  <2>2. \A k \in Key \ DOMAIN aged : later[k] = full
    BY <1>1, <1>5 DEF Backed, Least
  <2> QED
    BY <1>1, <1>3, <1>5, <2>1, <2>2 DEF Backed
<1> QED
  BY <1>1, <1>2, <1>4, <1>5 DEF aged

\* A key's bucket is replaced: what is taken from it is taken from the ideal one.
LEMMA HoldingBacked ==
  ASSUME NEW rate \in Nat, NEW full \in Nat,
         NEW buckets, BucketsOK(buckets, full), NEW k \in Key,
         NEW bucket \in Bucket(full), NEW ideal \in [Key -> Int], NEW later \in [Key -> Int],
         Backed(buckets, ideal, rate, full),
         \A x \in Key \ {k} : later[x] = ideal[x], later[k] <= full,
         Worth(bucket, rate, full) <= later[k]
  PROVE  Backed(Holding(buckets, k, bucket), later, rate, full)
<1>1. /\ DOMAIN Holding(buckets, k, bucket) = DOMAIN buckets \cup {k}
      /\ \A x \in DOMAIN buckets \cup {k} :
           Holding(buckets, k, bucket)[x] = IF x = k THEN bucket ELSE buckets[x]
  BY DEF Holding
<1> QED
  BY <1>1 DEF Backed, BucketsOK

LEMMA HoldingOK ==
  ASSUME NEW full, NEW buckets, BucketsOK(buckets, full), NEW k \in Key, NEW bucket \in Bucket(full)
  PROVE  BucketsOK(Holding(buckets, k, bucket), full)
BY DEF BucketsOK, Holding

\* What a bucket that backs its key tells of the debt of the key.
LEMMA BackedDebt ==
  ASSUME NEW rate \in Nat, NEW full \in Nat, NEW buckets, BucketsOK(buckets, full),
         NEW ideal \in [Key -> Int], Backed(buckets, ideal, rate, full), NEW k \in Key
  PROVE  ideal[k] >= -(rate * Lag)
<1>1. rate * Lag \in Nat
  BY LagType
<1>2. CASE k \notin DOMAIN buckets
  BY <1>1, <1>2 DEF Backed
<1>3. CASE k \in DOMAIN buckets
  <2> DEFINE t == buckets[k].tokens
             a == buckets[k].age
  <2>1. t \in 0 .. full /\ a \in Nat
    BY <1>3 DEF BucketsOK, Bucket
  <2>2. (a - Lag) * rate = a * rate - rate * Lag /\ a * rate \in Nat
    BY <2>1, LagType
  <2> DEFINE gain == (a - Lag) * rate
  <2>3. gain \in Int /\ gain >= -(rate * Lag)
    BY <1>1, <2>2
  <2>4. Least(full, t + gain) <= ideal[k]
    BY <1>3 DEF Backed, Worth
  <2> HIDE DEF gain
  <2> QED
    BY <1>1, <2>1, <2>3, <2>4 DEF Least
<1> QED
  BY <1>2, <1>3

-----------------------------------------------------------------------------
(* Lists whose elements are in an order.                                   *)

\* Whatever comes later in the list follows in the order R.
Follows(list, R) == \A i, j \in 1 .. Len(list) : i < j => <<list[i], list[j]>> \in R

LEMMA SublistFollows ==
  ASSUME NEW T, NEW list \in Seq(T), NEW keys, NEW R, Follows(list, R)
  PROVE  LET part == Sublist(list, keys)
         IN part \in Seq(T) /\ ToSet(part) = ToSet(list) \cap keys /\ Follows(part, R)
<1> DEFINE part == Sublist(list, keys)
<1>1. /\ part \in Seq(T)
      /\ \A i \in 1 .. Len(list) : list[i] \in keys => \E n \in 1 .. Len(part) : part[n] = list[i]
      /\ \A n \in 1 .. Len(part) : part[n] \in keys
  BY SublistElements
<1>2. PICK f \in [1 .. Len(part) -> 1 .. Len(list)] :
        /\ \A n \in 1 .. Len(part) : part[n] = list[f[n]]
        /\ \A m, n \in 1 .. Len(part) : m < n => f[m] < f[n]
  BY SublistElements
<1> HIDE DEF part
<1>3. DOMAIN part = 1 .. Len(part) /\ DOMAIN list = 1 .. Len(list)
  BY <1>1
<1>4. Follows(part, R)
  BY <1>2 DEF Follows
<1>5. ToSet(part) = ToSet(list) \cap keys
  <2>1. \A n \in DOMAIN part : part[n] \in keys /\ f[n] \in DOMAIN list /\ part[n] = list[f[n]]
    BY <1>1, <1>2, <1>3
  <2>2. \A i \in DOMAIN list : list[i] \in keys => \E n \in DOMAIN part : part[n] = list[i]
    BY <1>1, <1>3
  <2>3. ToSet(part) \subseteq ToSet(list) \cap keys
    BY <2>1 DEF ToSet
  <2>4. ToSet(list) \cap keys \subseteq ToSet(part)
    BY <2>2 DEF ToSet
  <2> QED
    BY <2>3, <2>4
<1> QED
  BY <1>1, <1>4, <1>5 DEF part

LEMMA FrontFollows ==
  ASSUME NEW T, NEW part \in Seq(T), NEW k \in T, NEW R, Follows(part, R),
         \A x \in ToSet(part) : <<k, x>> \in R
  PROVE  LET list == <<k>> \o part
         IN list \in Seq(T) /\ ToSet(list) = {k} \cup ToSet(part) /\ Follows(list, R)
<1> DEFINE list == <<k>> \o part
<1>1. /\ list \in Seq(T) /\ Len(list) = Len(part) + 1 /\ Len(part) \in Nat
      /\ list[1] = k /\ \A i \in 2 .. Len(part) + 1 : list[i] = part[i - 1]
  BY ConcatProperties
<1> HIDE DEF list
<1>2. DOMAIN part = 1 .. Len(part) /\ DOMAIN list = 1 .. Len(part) + 1
  BY <1>1
<1>3. \A i \in 2 .. Len(part) + 1 : i - 1 \in 1 .. Len(part)
  BY <1>1
<1>4. \A n \in 1 .. Len(part) : n + 1 \in 2 .. Len(part) + 1 /\ list[n + 1] = part[n]
  BY <1>1
<1>5. \A i \in 1 .. Len(part) + 1 : i = 1 \/ i \in 2 .. Len(part) + 1
  BY <1>1
<1>6. ToSet(list) = {k} \cup ToSet(part)
  <2>1. \A i \in DOMAIN list : list[i] = k \/ \E n \in DOMAIN part : list[i] = part[n]
    BY <1>1, <1>2, <1>3, <1>5
  <2>2. 1 \in DOMAIN list /\ \A n \in DOMAIN part : n + 1 \in DOMAIN list
    BY <1>1, <1>2
  <2>3. \A n \in DOMAIN part : \E i \in DOMAIN list : list[i] = part[n]
    BY <1>2, <1>4, <2>2
  <2>4. ToSet(list) \subseteq {k} \cup ToSet(part)
    BY <2>1 DEF ToSet
  <2>5. {k} \cup ToSet(part) \subseteq ToSet(list)
    BY <1>1, <2>2, <2>3 DEF ToSet
  <2> QED
    BY <2>4, <2>5
<1>7. ASSUME NEW i \in 1 .. Len(list), NEW j \in 1 .. Len(list), i < j
      PROVE  <<list[i], list[j]>> \in R
  <2>1. j \in 2 .. Len(part) + 1
    BY <1>1, <1>7
  <2>2. list[j] = part[j - 1] /\ j - 1 \in 1 .. Len(part)
    BY <1>1, <1>3, <2>1
  <2>3. CASE i = 1
    BY <1>1, <1>2, <2>2, <2>3 DEF ToSet
  <2>4. CASE i # 1
    <3>1. i - 1 \in 1 .. Len(part) /\ i - 1 < j - 1 /\ list[i] = part[i - 1]
      BY <1>1, <1>7, <2>4
    <3> QED
      BY <2>2, <3>1 DEF Follows
  <2> QED
    BY <2>3, <2>4
<1>8. Follows(list, R)
  BY <1>7 DEF Follows
<1> QED
  BY <1>1, <1>6, <1>8 DEF list

LEMMA FollowsCount ==
  ASSUME NEW T, NEW list \in Seq(T), NEW R, Follows(list, R), \A x \in T : <<x, x>> \notin R
  PROVE  IsFiniteSet(ToSet(list)) /\ Cardinality(ToSet(list)) = Len(list)
<1>1. Len(list) \in Nat /\ DOMAIN list = 1 .. Len(list) /\ \A i \in 1 .. Len(list) : list[i] \in T
  OBVIOUS
<1>2. ASSUME NEW i \in 1 .. Len(list), NEW j \in 1 .. Len(list), list[i] = list[j]
      PROVE  i = j
  <2>1. ~(i < j) /\ ~(j < i)
    BY <1>1, <1>2 DEF Follows
  <2> QED
    BY <1>1, <2>1
<1>3. list \in Bijection(1 .. Len(list), ToSet(list))
  <2>1. list \in [1 .. Len(list) -> ToSet(list)]
    BY <1>1 DEF ToSet
  <2>2. \A y \in ToSet(list) : \E i \in 1 .. Len(list) : list[i] = y
    BY <1>1 DEF ToSet
  <2> QED
    BY <1>1, <1>2, <2>1, <2>2 DEF Bijection, Injection, Surjection, IsInjective
<1>4. ExistsBijection(1 .. Len(list), ToSet(list))
  BY <1>3 DEF ExistsBijection
<1> QED
  BY <1>1, <1>4, FS_NatBijection, FS_CountingElements
=============================================================================
