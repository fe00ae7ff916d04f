---------------------------- MODULE RequestQueue ----------------------------
(***************************************************************************)
(* traffic.Queue: a bounded number of requests is inside at a time, a      *)
(* bounded number waits for a slot, a waiting request leaves by slot,      *)
(* cancellation or timeout, whichever the runtime's select picks, and      *)
(* every other one is turned away.                                         *)
(*                                                                         *)
(* Each action is what a goroutine does in one atomic piece: one channel   *)
(* operation, or one critical section of Queue.mu. A waiter that gets a    *)
(* slot is counted as waiting until its deferred function ran.             *)
(***************************************************************************)
EXTENDS Integers, FiniteSets

CONSTANTS
  Request,
  MaxConcurrent,  \* capacity of the channel sem
  MaxQueued,
  QueueTimeout    \* in ticks of the clock

\* NewQueue raises maxConcurrent and timeout to a positive default and maxQueued to 0.
ASSUME QueueAssumption ==
  /\ IsFiniteSet(Request)
  /\ MaxConcurrent \in Nat \ {0} /\ MaxQueued \in Nat /\ QueueTimeout \in Nat \ {0}

VARIABLES
  slots,     \* len(sem)
  waiting,   \* Queue.waiting
  place,     \* where each request is
  timer,     \* ticks left on its timer
  cancelled  \* is its context done

queueVars == <<slots, waiting, place, timer, cancelled>>

Place == {"outside", "busy", "waiting", "granted", "leaving", "inside", "rejected", "gone"}

QueueTypeOK ==
  /\ slots \in Nat /\ waiting \in Nat
  /\ place \in [Request -> Place]
  /\ timer \in [Request -> 0 .. QueueTimeout]
  /\ cancelled \in [Request -> BOOLEAN]

QueueInit ==
  /\ slots = 0 /\ waiting = 0
  /\ place = [r \in Request |-> "outside"]
  /\ timer = [r \in Request |-> 0]
  /\ cancelled = [r \in Request |-> FALSE]

Move(r, to) == place' = [place EXCEPT ![r] = to]

\* Acquire's first select: a free slot is taken ...
TakeFreeSlot(r) ==
  /\ place[r] = "outside"
  /\ slots < MaxConcurrent
  /\ slots' = slots + 1
  /\ Move(r, "inside")
  /\ UNCHANGED <<waiting, timer, cancelled>>

\* ... or there is none at this moment.
FindNoSlot(r) ==
  /\ place[r] = "outside"
  /\ slots >= MaxConcurrent
  /\ Move(r, "busy")
  /\ UNCHANGED <<slots, waiting, timer, cancelled>>

\* Mutant: a request that is turned away was counted first.
TurnAwayCounted(r) ==
  /\ place[r] = "busy"
  /\ waiting >= MaxQueued
  /\ waiting' = waiting + 1
  /\ Move(r, "rejected")
  /\ UNCHANGED <<slots, timer, cancelled>>

\* ErrQueueFull, whether or not a slot has become free meanwhile.
TurnAway(r) ==
  /\ place[r] = "busy"
  /\ waiting >= MaxQueued
  /\ Move(r, "rejected")
  /\ UNCHANGED <<slots, waiting, timer, cancelled>>

Enlist(r) ==
  /\ place[r] = "busy"
  /\ waiting < MaxQueued
  /\ waiting' = waiting + 1
  /\ Move(r, "waiting")
  /\ timer' = [timer EXCEPT ![r] = QueueTimeout]
  /\ UNCHANGED <<slots, cancelled>>

\* The second select: a slot, ...
TakeSlot(r) ==
  /\ place[r] = "waiting"
  /\ slots < MaxConcurrent
  /\ slots' = slots + 1
  /\ Move(r, "granted")
  /\ timer' = [timer EXCEPT ![r] = 0]
  /\ UNCHANGED <<waiting, cancelled>>

\* Mutant: a waiter that gives up frees a slot.
GiveUpReleasing(r) ==
  /\ place[r] = "waiting"
  /\ cancelled[r] \/ timer[r] = 0
  /\ slots' = slots - 1
  /\ Move(r, "leaving")
  /\ UNCHANGED <<waiting, timer, cancelled>>

\* ... the end of the request's context, or the timer. Any that is ready may
\* be picked.
GiveUp(r) ==
  /\ place[r] = "waiting"
  /\ cancelled[r] \/ timer[r] = 0
  /\ Move(r, "leaving")
  /\ timer' = [timer EXCEPT ![r] = 0]
  /\ UNCHANGED <<slots, waiting, cancelled>>

\* The deferred function, run on every way out of the wait.
Unlist(r) ==
  /\ place[r] \in {"granted", "leaving"}
  /\ waiting' = waiting - 1
  /\ Move(r, IF place[r] = "granted" THEN "inside" ELSE "rejected")
  /\ UNCHANGED <<slots, timer, cancelled>>

\* Queue.release: receives from sem unless it is empty. The request is over and
\* with it its context.
Release(r) ==
  /\ place[r] = "inside"
  /\ slots' = IF slots > 0 THEN slots - 1 ELSE slots
  /\ Move(r, "gone")
  /\ cancelled' = [cancelled EXCEPT ![r] = FALSE]
  /\ UNCHANGED <<waiting, timer>>

\* The client disconnects.
Cancel(r) ==
  /\ ~cancelled[r] /\ place[r] # "gone"
  /\ cancelled' = [cancelled EXCEPT ![r] = TRUE]
  /\ UNCHANGED <<slots, waiting, place, timer>>

QueueTick ==
  /\ timer' = [r \in Request |-> IF timer[r] > 0 THEN timer[r] - 1 ELSE 0]
  /\ UNCHANGED <<slots, waiting, place, cancelled>>

\* What a request does on its way in.
Acquire(r) ==
  \/ TakeFreeSlot(r) \/ FindNoSlot(r) \/ TurnAway(r) \/ Enlist(r)
  \/ TakeSlot(r) \/ GiveUp(r) \/ Unlist(r)

QueueNext ==
  \/ QueueTick
  \/ \E r \in Request : Acquire(r) \/ Release(r) \/ Cancel(r)

QueueSpec == QueueInit /\ [][QueueNext]_queueVars
-----------------------------------------------------------------------------
Holders == {r \in Request : place[r] \in {"granted", "inside"}}
Waiters == {r \in Request : place[r] \in {"waiting", "granted", "leaving"}}

\* A slot is taken exactly for each request that was let in and has not left:
\* none leaks on any way out, and none is freed twice.
SlotsAccounted == slots = Cardinality(Holders) /\ slots <= MaxConcurrent

\* The counter of waiting requests is right on every way in and out, and it
\* never exceeds its bound.
WaitersAccounted == waiting = Cardinality(Waiters) /\ waiting <= MaxQueued
=============================================================================
