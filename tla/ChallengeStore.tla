--------------------------- MODULE ChallengeStore ---------------------------
(***************************************************************************)
(* challenge.Store: challenges that wait for an answer and clients that    *)
(* gave one. Both are bounded and expire; there is no background work, so  *)
(* every operation under the write lock first drops what has expired, from *)
(* the fronts of two lists that are meant to be in order of expiry.        *)
(*                                                                         *)
(* A critical section is an operator from a store to a store; "now" is the *)
(* time it works with, which IsVerified read before it took the lock. What *)
(* a challenge looks like and how an answer is compared is left out: an    *)
(* answer is right or it is not.                                           *)
(***************************************************************************)
EXTENDS Naturals, Sequences, SequencesExt, FiniteSets, Functions

CONSTANTS
  Binding,          \* a client's address, or its address and its user
  MaxChallenges,    \* 4096 in the code
  MaxVerified,      \* 4096
  MaxFailed,        \* 5
  ChallengeTTL,     \* 5 minutes
  VerificationTTL,  \* an hour
  MaxIds            \* bound: challenges ever created

\* newStore replaces what is not positive by a default.
ASSUME StoreAssumption ==
  /\ IsFiniteSet(Binding)
  /\ {MaxChallenges, MaxVerified, MaxFailed, ChallengeTTL, VerificationTTL} \subseteq Nat \ {0}
  /\ MaxIds \in Nat

VARIABLES
  store,     \* the maps and the lists of challenge.Store
  lastId,    \* the identifiers given so far; GenerateID never repeats one
  clock,
  judged,    \* history: wrong answers that were judged, per challenge
  solved,    \* history: right ones
  earned     \* history: when each binding last solved a challenge, or 0

storeVars == <<store, lastId, clock, judged, solved, earned>>

Id == 1 .. MaxIds

StoreTypeOK ==
  /\ DOMAIN store.challenges \subseteq 1 .. lastId
  /\ store.challenges \in
       [DOMAIN store.challenges -> [binding : Binding, expires : Nat, failed : 0 .. MaxFailed]]
  /\ store.challengeOrder \in Seq(Id)
  /\ DOMAIN store.verified \subseteq Binding
  /\ store.verified \in [DOMAIN store.verified -> Nat]
  /\ store.verifiedOrder \in Seq(Binding)
  /\ lastId \in 0 .. MaxIds /\ clock \in Nat
  /\ judged \in [Id -> Nat] /\ solved \in [Id -> Nat]
  /\ earned \in [Binding -> Nat]

EmptyStore ==
  [challenges |-> << >>, challengeOrder |-> << >>, verified |-> << >>, verifiedOrder |-> << >>]

StoreInit ==
  /\ store = EmptyStore
  /\ lastId = 0 /\ clock = 1
  /\ judged = [i \in Id |-> 0] /\ solved = [i \in Id |-> 0]
  /\ earned = [b \in Binding |-> 0]

Without(f, x) == Restrict(f, DOMAIN f \ {x})

\* An element is taken off its list wherever it is.
Off(list, x) ==
  LET places == {i \in 1 .. Len(list) : list[i] = x}
  IN IF places = {} THEN list ELSE RemoveAt(list, CHOOSE i \in places : TRUE)

\* What is left of a list when its front is dropped up to the first element
\* that has not expired.
LiveTail(list, expires, now) ==
  LET expired == {i \in 1 .. Len(list) : \A j \in 1 .. i : expires[list[j]] <= now}
  IN SubSeq(list, Cardinality(expired) + 1, Len(list))

Kept(f, list) == Restrict(f, {list[i] : i \in 1 .. Len(list)})

\* cleanupExpiredLocked
Cleaned(s, now) ==
  LET expiry == [i \in DOMAIN s.challenges |-> s.challenges[i].expires]
      waiting == LiveTail(s.challengeOrder, expiry, now)
      trusted == LiveTail(s.verifiedOrder, s.verified, now)
  IN [challenges |-> Kept(s.challenges, waiting), challengeOrder |-> waiting,
      verified |-> Kept(s.verified, trusted), verifiedOrder |-> trusted]

\* removeChallengeLocked
WithoutChallenge(s, id) ==
  [s EXCEPT !.challenges = Without(@, id), !.challengeOrder = Off(@, id)]

\* Mutant: the newest makes room.
RoomyAtBack(list, max) == IF Len(list) >= max THEN SubSeq(list, 1, max - 1) ELSE list

\* What is left of a list whose oldest elements make room for one more.
Roomy(list, max) == IF Len(list) >= max THEN SubSeq(list, Len(list) - max + 2, Len(list)) ELSE list

\* Create, in its critical section.
Created(s, id, b, now) ==
  LET c == Cleaned(s, now)
      order == Roomy(c.challengeOrder, MaxChallenges)
      entry == [binding |-> b, expires |-> now + ChallengeTTL, failed |-> 0]
  IN [c EXCEPT !.challenges = [i \in {order[j] : j \in 1 .. Len(order)} \cup {id} |->
                                 IF i = id THEN entry ELSE c.challenges[i]],
               !.challengeOrder = Append(order, id)]

\* Mutant: a verification that is renewed keeps its place in the list.
MarkedInPlace(s, b, now) ==
  IF b \in DOMAIN s.verified THEN [s EXCEPT !.verified[b] = now + VerificationTTL]
  ELSE LET order == Roomy(s.verifiedOrder, MaxVerified)
       IN [s EXCEPT !.verified = [x \in {order[j] : j \in 1 .. Len(order)} \cup {b} |->
                                    IF x = b THEN now + VerificationTTL ELSE s.verified[x]],
                    !.verifiedOrder = Append(order, b)]

\* markVerifiedLocked
Marked(s, b, now) ==
  IF b \in DOMAIN s.verified
  THEN [s EXCEPT !.verified[b] = now + VerificationTTL,
                 !.verifiedOrder = Append(Off(@, b), b)]
  ELSE LET order == Roomy(s.verifiedOrder, MaxVerified)
       IN [s EXCEPT !.verified = [x \in {order[j] : j \in 1 .. Len(order)} \cup {b} |->
                                    IF x = b THEN now + VerificationTTL ELSE s.verified[x]],
                    !.verifiedOrder = Append(order, b)]

\* Mutant: one wrong answer more than allowed.
FailedLate(s, id) ==
  IF s.challenges[id].failed >= MaxFailed THEN WithoutChallenge(s, id)
  ELSE [s EXCEPT !.challenges[id].failed = @ + 1]

\* recordFailureLocked
Failed(s, id) ==
  IF s.challenges[id].failed + 1 >= MaxFailed THEN WithoutChallenge(s, id)
  ELSE [s EXCEPT !.challenges[id].failed = @ + 1]
-----------------------------------------------------------------------------
(* The operations.                                                         *)

\* Create, with the current time.
Create(b) ==
  /\ lastId < MaxIds
  /\ lastId' = lastId + 1
  /\ store' = Created(store, lastId + 1, b, clock)
  /\ UNCHANGED <<clock, judged, solved, earned>>

\* A challenge is answered for a binding it was created for.
Judges(id, b) == LET s == Cleaned(store, clock) IN id \in DOMAIN s.challenges /\ s.challenges[id].binding = b

\* Verify, in its critical section; it returns whether Judges(id, b) /\ right.
Verify(id, right, b) ==
  LET s == Cleaned(store, clock)
  IN /\ IF ~Judges(id, b)
        THEN store' = s /\ UNCHANGED <<judged, solved, earned>>
        ELSE IF right
        THEN /\ store' = Marked(WithoutChallenge(s, id), b, clock)
             /\ solved' = [solved EXCEPT ![id] = @ + 1]
             /\ earned' = [earned EXCEPT ![b] = clock]
             /\ UNCHANGED judged
        ELSE /\ store' = Failed(s, id)
             /\ judged' = [judged EXCEPT ![id] = @ + 1]
             /\ UNCHANGED <<solved, earned>>
     /\ UNCHANGED <<lastId, clock>>

\* What a look at the verified clients finds at a time.
HeldVerified(s, b, now) == b \in DOMAIN s.verified /\ now < s.verified[b]

\* IsVerified's second look, under the write lock, with the time of the first.
CleanUp(now) == store' = Cleaned(store, now) /\ UNCHANGED <<lastId, clock, judged, solved, earned>>
-----------------------------------------------------------------------------
(* Properties.                                                             *)

InOrder(list, f, expires(_), max) ==
  /\ Len(list) <= max
  /\ {list[i] : i \in 1 .. Len(list)} = DOMAIN f
  /\ \A i, j \in 1 .. Len(list) : i < j => list[i] # list[j] /\ expires(list[i]) <= expires(list[j])

\* Each list has the keys of its map, once, no more than allowed and in order
\* of expiry, on which dropping from the front relies.
ListsAgree ==
  /\ InOrder(store.challengeOrder, store.challenges,
             LAMBDA i : store.challenges[i].expires, MaxChallenges)
  /\ InOrder(store.verifiedOrder, store.verified, LAMBDA b : store.verified[b], MaxVerified)

\* A challenge is solved at most once, and MaxFailed wrong answers are the end
\* of it, whoever sends them and whatever is created, evicted or expires meanwhile.
AnswersRationed ==
  \A i \in Id :
    /\ solved[i] <= 1 /\ judged[i] <= MaxFailed
    /\ solved[i] = 1 \/ judged[i] = MaxFailed => i \notin DOMAIN store.challenges
    /\ i \in DOMAIN store.challenges => store.challenges[i].failed = judged[i]

\* Who is held to be verified has solved a challenge, and is so until an hour
\* after the last one; it is forgotten earlier only for the sake of MaxVerified
\* others that solved theirs later.
VerifiedEarned ==
  \A b \in Binding :
    /\ b \in DOMAIN store.verified => earned[b] # 0 /\ store.verified[b] = earned[b] + VerificationTTL
    /\ earned[b] # 0 /\ clock < earned[b] + VerificationTTL /\ b \notin DOMAIN store.verified =>
         Cardinality({c \in Binding \ {b} : earned[c] # 0 /\ earned[c] >= earned[b]}) >= MaxVerified
=============================================================================
