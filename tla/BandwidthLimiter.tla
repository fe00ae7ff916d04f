-------------------------- MODULE BandwidthLimiter --------------------------
(***************************************************************************)
(* traffic.BandwidthLimiter and the response writer around it: before it   *)
(* is passed on, a write waits until the bucket of its key holds enough    *)
(* bytes. Several writers may share a bucket; whoever reserves first       *)
(* wins, the others wait again.                                            *)
(***************************************************************************)
EXTENDS Buckets

CONSTANTS
  Writer,     \* goroutines that write
  ByteRate,   \* bytes per tick
  BurstBytes

ASSUME BandwidthAssumption ==
  /\ ByteRate \in Nat \ {0} /\ BurstBytes \in Nat \ {0}
  /\ AgeBound * ByteRate >= BurstBytes + Lag * ByteRate

Awake == -1

VARIABLES
  pipes,         \* BandwidthLimiter.buckets
  pipePruneAge,  \* the age of lastPrune
  remaining,     \* bytes each writer still has to write
  nap,           \* ticks left on the timer of waitChunk, or Awake
  credit         \* history: the bytes an ideal bucket of each key would hold

bandwidthVars == <<pipes, pipePruneAge, remaining, nap, credit>>

BandwidthTypeOK ==
  /\ DOMAIN pipes \subseteq Key /\ Cardinality(DOMAIN pipes) <= MaxBuckets
  /\ \A k \in DOMAIN pipes : pipes[k] \in Bucket(BurstBytes)
  /\ pipePruneAge \in PruneAge
  /\ remaining \in [Writer -> Nat]
  /\ nap \in [Writer -> {Awake} \cup Nat]
  /\ credit \in [Key -> Int]

BandwidthInit ==
  /\ pipes = <<>>
  /\ pipePruneAge = PruneAgeBound
  /\ remaining = [w \in Writer |-> 0]
  /\ nap = [w \in Writer |-> Awake]
  /\ credit = [k \in Key |-> BurstBytes]

\* Mutant: a write is not cut into pieces.
ChunkWhole(w) == remaining[w]

\* A write is cut into pieces no larger than a full bucket.
Chunk(w) == Least(remaining[w], BurstBytes)

\* Ticks until the missing bytes are there, rounded up.
TicksFor(bytes) == (bytes + ByteRate - 1) \div ByteRate

\* The keys one of which makes room: the scan of the map keeps the first of
\* those used longest ago.
Oldest(buckets) == {k \in DOMAIN buckets : \A x \in DOMAIN buckets : buckets[x].age <= buckets[k].age}

\* reserve, under the lock, for a writer that is not asleep or whose timer has
\* fired: it takes its bytes or goes to sleep. out is the key that made room.
Reserve(w, k, lag) ==
  LET kept == Pruned(pipes, pipePruneAge, lag)
      full == k \notin DOMAIN kept /\ Cardinality(DOMAIN kept) >= MaxBuckets
      need == Chunk(w)
  IN /\ remaining[w] > 0 /\ nap[w] <= 0
     /\ \E out \in IF full THEN {{o} : o \in Oldest(kept)} ELSE {{}} :
          LET open == Restrict(kept, DOMAIN kept \ out)
              bucket == IF k \in DOMAIN open
                        THEN Refilled(open[k], lag, ByteRate, BurstBytes)
                        ELSE [tokens |-> BurstBytes, age |-> lag]
              left == bucket.tokens - need
              forgiven == [x \in Key |-> IF x \in out THEN BurstBytes ELSE credit[x]]
          IN IF left >= 0
             THEN /\ pipes' = Holding(open, k, [bucket EXCEPT !.tokens = left])
                  /\ remaining' = [remaining EXCEPT ![w] = @ - need]
                  /\ nap' = [nap EXCEPT ![w] = Awake]
                  /\ credit' = [forgiven EXCEPT ![k] = @ - need]
             ELSE /\ pipes' = Holding(open, k, bucket)
                  /\ nap' = [nap EXCEPT ![w] = TicksFor(-left)]
                  /\ credit' = forgiven
                  /\ UNCHANGED remaining
     /\ pipePruneAge' = IF PruneDue(pipePruneAge, lag) \/ full THEN lag ELSE pipePruneAge

\* The context ends while the writer sleeps: the write returns its error.
Abort(w) ==
  /\ nap[w] >= 0
  /\ remaining' = [remaining EXCEPT ![w] = 0]
  /\ nap' = [nap EXCEPT ![w] = Awake]
  /\ UNCHANGED <<pipes, pipePruneAge, credit>>

BandwidthTick ==
  /\ pipes' = Aged(pipes)
  /\ pipePruneAge' = OlderPrune(pipePruneAge)
  /\ nap' = [w \in Writer |-> IF nap[w] > 0 THEN nap[w] - 1 ELSE nap[w]]
  /\ credit' = [k \in Key |-> Least(BurstBytes, credit[k] + ByteRate)]
  /\ UNCHANGED remaining
-----------------------------------------------------------------------------
\* No key gets more bytes through than an ideal bucket would let it, apart from
\* what a late reading of the clock is worth.
PruningFills == ByteRate * (BucketTTL - Lag) >= BurstBytes
ThrottleRespected == PruningFills => \A k \in Key : credit[k] >= -(ByteRate * Lag)
=============================================================================
