------------------------------- MODULE Buckets ------------------------------
(***************************************************************************)
(* The token buckets that traffic.RateLimiter and traffic.BandwidthLimiter *)
(* have in common: refill at use, pruning of idle ones, a bound on their   *)
(* number.                                                                 *)
(*                                                                         *)
(* A time stamp is represented by its age, so that behaviours can go on    *)
(* for ever in finitely many states; ages stop growing where no comparison *)
(* and no refill can tell them apart. Callers read the clock before they   *)
(* take the lock: an operation works with a time that is "lag" old.        *)
(***************************************************************************)
EXTENDS Integers, FiniteSets, Functions

CONSTANTS
  Key,          \* clients, hosts or routes, as the configuration says
  MaxBuckets,   \* 10000 in the code
  BucketTTL,    \* 10 minutes in the code
  PruneEvery,   \* one minute in the code
  Lag,          \* bound: how old a reading of the clock may be when it is used
  AgeBound      \* bound: ages above it are not told apart

ASSUME BucketsAssumption ==
  /\ MaxBuckets \in Nat \ {0} /\ BucketTTL \in Nat \ {0} /\ PruneEvery \in Nat \ {0}
  /\ Lag \in Nat
  /\ AgeBound \in Nat /\ AgeBound > BucketTTL + Lag

Bucket(full) == [tokens : 0 .. full, age : 0 .. AgeBound]

Least(a, b) == IF a <= b THEN a ELSE b

Aged(buckets) == [k \in DOMAIN buckets |-> [buckets[k] EXCEPT !.age = Least(@ + 1, AgeBound)]]

\* The map after it was given a bucket for k.
Holding(buckets, k, bucket) ==
  [x \in DOMAIN buckets \cup {k} |-> IF x = k THEN bucket ELSE buckets[x]]

\* The age of lastPrune, of which only "long ago" matters.
PruneAgeBound == PruneEvery + Lag
PruneAge == 0 .. PruneAgeBound
OlderPrune(age) == Least(age + 1, PruneAgeBound)

\* pruneLocked looks at the buckets when the last look was long ago ...
PruneDue(pruneAge, lag) == pruneAge - lag >= PruneEvery

\* ... and keeps those used recently.
Recent(buckets, lag) == {k \in DOMAIN buckets : buckets[k].age - lag <= BucketTTL}
Pruned(buckets, pruneAge, lag) ==
  IF PruneDue(pruneAge, lag) THEN Restrict(buckets, Recent(buckets, lag)) ELSE buckets

\* Mutant: the time of the last use is not moved.
RefilledAgain(bucket, lag, rate, full) ==
  [bucket EXCEPT !.tokens = Least(full, @ + (bucket.age - lag) * rate)]

\* A bucket gains what the time since its last use is worth, up to its size. A
\* time before the last use changes nothing.
Refilled(bucket, lag, rate, full) ==
  IF bucket.age > lag
  THEN [tokens |-> Least(full, bucket.tokens + (bucket.age - lag) * rate), age |-> lag]
  ELSE bucket
=============================================================================
