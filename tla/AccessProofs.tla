---------------------------- MODULE AccessProofs ----------------------------
(***************************************************************************)
(* Proofs about the challenge store and those who use it, for any number   *)
(* of clients, challenges and verified bindings and any lifetimes.         *)
(***************************************************************************)
EXTENDS Access, SequenceTheorems, FiniteSetTheorems, TLAPS

Elements(list) == {list[i] : i \in 1 .. Len(list)}

\* A list of the keys of a map of expiry times, each once and in their order.
Queue(list, expiry) ==
  /\ list \in Seq(DOMAIN expiry)
  /\ Elements(list) = DOMAIN expiry
  /\ \A i, j \in 1 .. Len(list) : i < j => list[i] # list[j] /\ expiry[list[i]] <= expiry[list[j]]

\* How a part of a list is taken from it.
Places(part, list, place) ==
  /\ place \in [1 .. Len(part) -> 1 .. Len(list)]
  /\ \A k \in 1 .. Len(part) : part[k] = list[place[k]]
  /\ \A k, l \in 1 .. Len(part) : k < l => place[k] < place[l]

LEMMA ThinnedQueue ==
  ASSUME NEW list, NEW expiry, Queue(list, expiry), NEW part \in Seq(DOMAIN expiry),
         NEW place, Places(part, list, place)
  PROVE  Queue(part, Restrict(expiry, Elements(part)))
<1> DEFINE e == Restrict(expiry, Elements(part))
<1>1. /\ DOMAIN e = Elements(part) /\ \A x \in Elements(part) : e[x] = expiry[x]
  BY DEF Restrict
<1> HIDE DEF e
<1>2. part \in Seq(Elements(part)) /\ \A k \in 1 .. Len(part) : part[k] \in Elements(part)
  BY DEF Elements
<1>3. \A k, l \in 1 .. Len(part) : k < l => part[k] # part[l] /\ expiry[part[k]] <= expiry[part[l]]
  BY DEF Queue, Places
<1> QED
  BY <1>1, <1>2, <1>3 DEF Queue, e

\* A list without one of its elements.
LEMMA OffQueue ==
  ASSUME NEW list, NEW expiry, Queue(list, expiry), NEW x
  PROVE  /\ Queue(Off(list, x), Without(expiry, x))
         /\ Len(Off(list, x)) <= Len(list)
         /\ x \in DOMAIN expiry => Len(Off(list, x)) + 1 = Len(list)
<1> DEFINE places == {i \in 1 .. Len(list) : list[i] = x}
           S == DOMAIN expiry
<1>1. list \in Seq(S) /\ Elements(list) = S
  BY DEF Queue
<1>2. CASE places = {}
  <2>1. x \notin S
    BY <1>1, <1>2 DEF Elements
  <2>2. Off(list, x) = list
    BY <1>2 DEF Off
  <2>3. Queue(list, Without(expiry, x))
    <3>1. DOMAIN Without(expiry, x) = S /\ \A y \in S : Without(expiry, x)[y] = expiry[y]
      BY <2>1 DEF Without, Restrict
    <3>2. \A k \in 1 .. Len(list) : list[k] \in S
      BY <1>1
    <3> QED
      BY <1>1, <3>1, <3>2 DEF Queue
  <2> QED
    BY <1>1, <2>1, <2>2, <2>3
<1>3. CASE places # {}
  <2> DEFINE i == CHOOSE k \in places : TRUE
             part == RemoveAt(list, i)
             place == [k \in 1 .. Len(list) - 1 |-> IF k < i THEN k ELSE k + 1]
  <2>1. i \in 1 .. Len(list) /\ list[i] = x
    BY <1>3
  <2>2. Off(list, x) = part
    BY <1>3 DEF Off
  <2> HIDE DEF i
  <2>3. /\ part \in Seq(S) /\ Len(part) = Len(list) - 1
        /\ \A k \in 1 .. Len(list) - 1 : part[k] = list[IF k < i THEN k ELSE k + 1]
    <3> DEFINE before == SubSeq(list, 1, i - 1)
               after == SubSeq(list, i + 1, Len(list))
    <3>1. before \in Seq(S) /\ Len(before) = i - 1 /\ \A k \in 1 .. i - 1 : before[k] = list[k]
      BY <1>1, <2>1
    <3>2. /\ after \in Seq(S) /\ Len(after) = Len(list) - i
          /\ \A k \in 1 .. Len(list) - i : after[k] = list[i + k]
      BY <1>1, <2>1
    <3>3. part = before \o after
      BY DEF RemoveAt
    <3> HIDE DEF before, after, part
    <3>4. Len(before) + Len(after) = Len(list) - 1
      BY <1>1, <2>1, <3>1, <3>2
    <3>5. before \in Seq(S) /\ after \in Seq(S)
      BY <3>1, <3>2
    <3>6. /\ part \in Seq(S)
          /\ Len(part) = Len(before) + Len(after)
          /\ \A k \in 1 .. Len(before) + Len(after) :
               part[k] = IF k <= Len(before) THEN before[k] ELSE after[k - Len(before)]
      BY <3>3, <3>5, ConcatProperties
    <3>7. ASSUME NEW k \in 1 .. Len(list) - 1 PROVE part[k] = list[IF k < i THEN k ELSE k + 1]
      <4>1. CASE k < i
        BY <1>1, <2>1, <3>1, <3>4, <3>6, <4>1
      <4>2. CASE ~(k < i)
        <5>1. k - (i - 1) \in 1 .. Len(list) - i /\ i + (k - (i - 1)) = k + 1
          BY <1>1, <2>1, <4>2
        <5>2. k \in 1 .. Len(before) + Len(after) /\ ~(k <= Len(before)) /\ k - Len(before) = k - (i - 1)
          BY <1>1, <2>1, <3>1, <3>4, <4>2
        <5>3. part[k] = after[k - (i - 1)]
          BY <3>6, <5>2
        <5>4. after[k - (i - 1)] = list[i + (k - (i - 1))]
          BY <3>2, <5>1
        <5> QED
          BY <4>2, <5>1, <5>3, <5>4
      <4> QED
        BY <4>1, <4>2
    <3> QED
      BY <3>4, <3>6, <3>7
  <2>4. Places(part, list, place)
    <3>1. Len(list) \in Nat /\ i \in Nat
      BY <1>1, <2>1
    <3>2. place \in [1 .. Len(part) -> 1 .. Len(list)]
      BY <2>1, <2>3, <3>1
    <3>3. \A k, l \in 1 .. Len(part) : k < l => place[k] < place[l]
      BY <2>1, <2>3, <3>1
    <3>4. \A k \in 1 .. Len(part) : part[k] = list[place[k]]
      BY <2>3
    <3> QED
      BY <3>2, <3>3, <3>4 DEF Places
  <2> HIDE DEF part, place
  <2>5. Queue(part, Restrict(expiry, Elements(part)))
    BY <2>3, <2>4, ThinnedQueue
  <2>6. Elements(part) = S \ {x}
    <3>1. \A k \in 1 .. Len(part) : part[k] \in S \ {x}
      <4> SUFFICES ASSUME NEW k \in 1 .. Len(part) PROVE part[k] \in S \ {x}
        OBVIOUS
      <4>1. (IF k < i THEN k ELSE k + 1) \in 1 .. Len(list) /\ (IF k < i THEN k ELSE k + 1) # i
        BY <1>1, <2>1, <2>3
      <4> QED
        BY <1>1, <2>1, <2>3, <4>1 DEF Queue
    <3>2. \A y \in S \ {x} : \E k \in 1 .. Len(part) : part[k] = y
      <4> SUFFICES ASSUME NEW y \in S \ {x} PROVE \E k \in 1 .. Len(part) : part[k] = y
        OBVIOUS
      <4>1. PICK l \in 1 .. Len(list) : list[l] = y
        BY <1>1 DEF Elements
      <4>2. l # i
        BY <2>1, <4>1
      <4>3. CASE l < i
        BY <1>1, <2>1, <2>3, <4>1, <4>3
      <4>4. CASE l > i
        <5>1. l - 1 \in 1 .. Len(part) /\ ~(l - 1 < i) /\ (l - 1) + 1 = l
          BY <1>1, <2>1, <2>3, <4>1, <4>4
        <5> QED
          BY <2>3, <4>1, <5>1
      <4> QED
        BY <1>1, <2>1, <4>1, <4>2, <4>3, <4>4
    <3> QED
      BY <3>1, <3>2 DEF Elements
  <2> QED
    BY <1>1, <2>1, <2>2, <2>3, <2>5, <2>6 DEF Without
<1> QED
  BY <1>2, <1>3

LEMMA TailQueue ==
  ASSUME NEW list, NEW expiry, Queue(list, expiry), NEW n \in 1 .. Len(list) + 1
  PROVE  LET part == SubSeq(list, n, Len(list))
         IN /\ Queue(part, Restrict(expiry, Elements(part)))
            /\ Elements(part) \subseteq DOMAIN expiry
            /\ Len(part) = Len(list) - n + 1
<1> DEFINE S == DOMAIN expiry
           part == SubSeq(list, n, Len(list))
           place == [k \in 1 .. Len(list) - n + 1 |-> n + k - 1]
<1>1. list \in Seq(S) /\ Len(list) \in Nat
  BY DEF Queue
<1>2. /\ part \in Seq(S) /\ Len(part) = Len(list) - n + 1
      /\ \A k \in 1 .. Len(list) - n + 1 : part[k] = list[n + k - 1]
  BY <1>1
<1> HIDE DEF part
<1>3. Places(part, list, place)
  <2>1. place \in [1 .. Len(part) -> 1 .. Len(list)]
    BY <1>1, <1>2
  <2>2. \A k, l \in 1 .. Len(part) : k < l => place[k] < place[l]
    BY <1>1, <1>2
  <2>3. \A k \in 1 .. Len(part) : part[k] = list[place[k]]
    BY <1>2
  <2> QED
    BY <2>1, <2>2, <2>3 DEF Places
<1> HIDE DEF place
<1>4. Queue(part, Restrict(expiry, Elements(part)))
  BY <1>2, <1>3, ThinnedQueue
<1>5. Elements(part) \subseteq S
  BY <1>2 DEF Elements
<1> QED
  BY <1>2, <1>4, <1>5 DEF part

\* A new key whose time comes last goes to the end.
LEMMA AppendQueue ==
  ASSUME NEW list, NEW expiry, Queue(list, expiry), NEW x, x \notin DOMAIN expiry,
         NEW longer, DOMAIN longer = DOMAIN expiry \cup {x},
         \A y \in DOMAIN expiry : longer[y] = expiry[y] /\ expiry[y] <= longer[x]
  PROVE  Queue(Append(list, x), longer) /\ Len(Append(list, x)) = Len(list) + 1
<1> DEFINE new == Append(list, x)
           S == DOMAIN expiry
<1>1. list \in Seq(S) /\ Len(list) \in Nat /\ list \in Seq(S \cup {x})
  BY DEF Queue
<1>2. /\ new \in Seq(S \cup {x}) /\ Len(new) = Len(list) + 1 /\ new[Len(list) + 1] = x
      /\ \A k \in 1 .. Len(list) : new[k] = list[k] /\ list[k] \in S
  BY <1>1
<1> HIDE DEF new
<1>3. \A k \in 1 .. Len(new) : k = Len(list) + 1 \/ k \in 1 .. Len(list)
  BY <1>1, <1>2
<1>4. Elements(new) = S \cup {x}
  <2>1. \A k \in 1 .. Len(new) : new[k] \in S \cup {x}
    BY <1>2, <1>3
  <2>2. Len(list) + 1 \in 1 .. Len(new) /\ \A k \in 1 .. Len(list) : k \in 1 .. Len(new)
    BY <1>1, <1>2
  <2>3. \A y \in S : \E k \in 1 .. Len(new) : new[k] = y
    BY <1>2, <2>2 DEF Queue, Elements
  <2> QED
    BY <1>2, <2>1, <2>2, <2>3 DEF Elements
<1>5. ASSUME NEW i \in 1 .. Len(new), NEW j \in 1 .. Len(new), i < j
      PROVE  new[i] # new[j] /\ longer[new[i]] <= longer[new[j]]
  <2>1. i \in 1 .. Len(list)
    BY <1>1, <1>2, <1>5
  <2>2. CASE j = Len(list) + 1
    BY <1>2, <2>1, <2>2
  <2>3. CASE j \in 1 .. Len(list)
    <3>1. new[i] = list[i] /\ new[j] = list[j] /\ list[i] \in S /\ list[j] \in S
      BY <1>2, <2>1, <2>3
    <3>2. list[i] # list[j] /\ expiry[list[i]] <= expiry[list[j]]
      BY <1>5, <2>1, <2>3 DEF Queue
    <3> QED
      BY <3>1, <3>2
  <2> QED
    BY <1>3, <2>2, <2>3
<1> QED
  BY <1>2, <1>4, <1>5 DEF Queue, new
-----------------------------------------------------------------------------
(* Stores.                                                                 *)

Partial(T, R) == UNION {[D -> R] : D \in SUBSET T}
Waiting == [binding : Binding, expires : Nat, failed : 0 .. MaxFailed]
Stores ==
  [challenges : Partial(Id, Waiting), challengeOrder : Seq(Id),
   verified : Partial(Binding, Nat), verifiedOrder : Seq(Binding)]

Expiry(s) == [i \in DOMAIN s.challenges |-> s.challenges[i].expires]

\* The lists and the maps of a store agree.
Listed(s) ==
  /\ Queue(s.challengeOrder, Expiry(s)) /\ Len(s.challengeOrder) <= MaxChallenges
  /\ Queue(s.verifiedOrder, s.verified) /\ Len(s.verifiedOrder) <= MaxVerified

\* A store has nothing that another one has not.
PartOf(s, t) ==
  /\ DOMAIN s.challenges \subseteq DOMAIN t.challenges
  /\ \A i \in DOMAIN s.challenges : s.challenges[i] = t.challenges[i]
  /\ DOMAIN s.verified \subseteq DOMAIN t.verified
  /\ \A b \in DOMAIN s.verified : s.verified[b] = t.verified[b]

LEMMA PartialMaps ==
  ASSUME NEW T, NEW R, NEW f
  PROVE  f \in Partial(T, R) <=> DOMAIN f \subseteq T /\ f \in [DOMAIN f -> R]
BY DEF Partial

LEMMA RestrictedMaps ==
  ASSUME NEW T, NEW R, NEW f \in Partial(T, R), NEW S, S \subseteq DOMAIN f
  PROVE  /\ Restrict(f, S) \in Partial(T, R)
         /\ DOMAIN Restrict(f, S) = S /\ \A x \in S : Restrict(f, S)[x] = f[x]
<1>1. f \in [DOMAIN f -> R] /\ DOMAIN f \subseteq T
  BY PartialMaps
<1>2. Restrict(f, S) \in [S -> R] /\ S \in SUBSET T
  BY <1>1 DEF Restrict
<1> QED
  BY <1>2 DEF Partial, Restrict

LEMMA LiveTailQueue ==
  ASSUME NEW list, NEW expiry, Queue(list, expiry), NEW now
  PROVE  LET part == LiveTail(list, expiry, now)
         IN /\ Queue(part, Restrict(expiry, Elements(part)))
            /\ Elements(part) \subseteq DOMAIN expiry
            /\ Len(part) <= Len(list)
<1> DEFINE expired == {i \in 1 .. Len(list) : \A j \in 1 .. i : expiry[list[j]] <= now}
           n == Cardinality(expired) + 1
<1>1. Len(list) \in Nat
  BY DEF Queue
<1>2. IsFiniteSet(1 .. Len(list)) /\ Cardinality(1 .. Len(list)) = Len(list)
  BY <1>1, FS_Interval
<1>3. IsFiniteSet(expired) /\ Cardinality(expired) <= Len(list) /\ Cardinality(expired) \in Nat
  <2>1. expired \subseteq 1 .. Len(list)
    OBVIOUS
  <2> HIDE DEF expired
  <2> QED
    BY <1>2, <2>1, FS_Subset, FS_CardinalityType
<1>4. n \in 1 .. Len(list) + 1
  BY <1>1, <1>3
<1>5. LiveTail(list, expiry, now) = SubSeq(list, n, Len(list))
  BY DEF LiveTail
<1> HIDE DEF expired, n
<1> QED
  BY <1>1, <1>4, <1>5, TailQueue

LEMMA CleanedStore ==
  ASSUME NEW s \in Stores, Listed(s), NEW now
  PROVE  Cleaned(s, now) \in Stores /\ Listed(Cleaned(s, now)) /\ PartOf(Cleaned(s, now), s)
<1> DEFINE waiting == LiveTail(s.challengeOrder, Expiry(s), now)
           trusted == LiveTail(s.verifiedOrder, s.verified, now)
           c == Cleaned(s, now)
<1>1. /\ s.challenges \in Partial(Id, Waiting) /\ s.verified \in Partial(Binding, Nat)
      /\ DOMAIN s.challenges \subseteq Id /\ DOMAIN s.verified \subseteq Binding
      /\ DOMAIN Expiry(s) = DOMAIN s.challenges
  BY PartialMaps DEF Stores, Expiry
<1>2. /\ Queue(waiting, Restrict(Expiry(s), Elements(waiting)))
      /\ Elements(waiting) \subseteq DOMAIN s.challenges
      /\ Len(waiting) <= Len(s.challengeOrder)
  BY <1>1, LiveTailQueue DEF Listed
<1>3. /\ Queue(trusted, Restrict(s.verified, Elements(trusted)))
      /\ Elements(trusted) \subseteq DOMAIN s.verified
      /\ Len(trusted) <= Len(s.verifiedOrder)
  BY LiveTailQueue DEF Listed
<1>4. c = [challenges |-> Restrict(s.challenges, Elements(waiting)), challengeOrder |-> waiting,
           verified |-> Restrict(s.verified, Elements(trusted)), verifiedOrder |-> trusted]
  BY DEF Cleaned, Kept, Elements, Expiry
<1> HIDE DEF waiting, trusted, c
<1>5. waiting \in Seq(Id) /\ trusted \in Seq(Binding)
  <2>1. waiting \in Seq(Elements(waiting)) /\ trusted \in Seq(Elements(trusted))
    BY <1>2, <1>3 DEF Queue, Restrict
  <2>2. Elements(waiting) \subseteq Id /\ Elements(trusted) \subseteq Binding
    BY <1>1, <1>2, <1>3
  <2> QED
    BY <2>1, <2>2
<1>6. /\ c.challenges \in Partial(Id, Waiting) /\ DOMAIN c.challenges = Elements(waiting)
      /\ \A i \in Elements(waiting) : c.challenges[i] = s.challenges[i]
      /\ c.verified \in Partial(Binding, Nat) /\ DOMAIN c.verified = Elements(trusted)
      /\ \A b \in Elements(trusted) : c.verified[b] = s.verified[b]
  BY <1>1, <1>2, <1>3, <1>4, RestrictedMaps
<1>7. c \in Stores
  BY <1>4, <1>5, <1>6 DEF Stores
<1>8. Expiry(c) = Restrict(Expiry(s), Elements(waiting))
  BY <1>1, <1>2, <1>6 DEF Expiry, Restrict
<1>9. Len(waiting) <= MaxChallenges /\ Len(trusted) <= MaxVerified
  <2>1. /\ Len(waiting) \in Nat /\ Len(trusted) \in Nat /\ Len(s.challengeOrder) \in Nat
        /\ Len(s.verifiedOrder) \in Nat /\ MaxChallenges \in Nat /\ MaxVerified \in Nat
    BY <1>5, StoreAssumption DEF Stores
  <2> QED
    BY <1>2, <1>3, <2>1 DEF Listed
<1>10. Listed(c)
  BY <1>2, <1>3, <1>4, <1>8, <1>9 DEF Listed
<1>11. PartOf(c, s)
  BY <1>2, <1>3, <1>6 DEF PartOf
<1> QED
  BY <1>7, <1>10, <1>11 DEF c

LEMMA WithoutChallengeStore ==
  ASSUME NEW s \in Stores, Listed(s), NEW id \in DOMAIN s.challenges
  PROVE  LET c == WithoutChallenge(s, id)
         IN /\ c \in Stores /\ Listed(c) /\ PartOf(c, s)
            /\ DOMAIN c.challenges = DOMAIN s.challenges \ {id} /\ c.verified = s.verified
<1> DEFINE c == WithoutChallenge(s, id)
           order == Off(s.challengeOrder, id)
           rest == DOMAIN s.challenges \ {id}
<1>1. /\ s.challenges \in Partial(Id, Waiting) /\ rest \subseteq Id /\ rest \subseteq DOMAIN s.challenges
      /\ DOMAIN Expiry(s) = DOMAIN s.challenges
  BY PartialMaps DEF Stores, Expiry
<1>2. Queue(order, Without(Expiry(s), id)) /\ Len(order) <= Len(s.challengeOrder)
  BY OffQueue DEF Listed
<1>3. /\ c.challenges = Restrict(s.challenges, rest) /\ c.challengeOrder = order
      /\ c.verified = s.verified /\ c.verifiedOrder = s.verifiedOrder
      /\ c = [s EXCEPT !.challenges = Restrict(s.challenges, rest), !.challengeOrder = order]
  BY DEF WithoutChallenge, Without, Stores
<1> HIDE DEF c, order, rest
<1>4. /\ c.challenges \in Partial(Id, Waiting) /\ DOMAIN c.challenges = rest
      /\ \A i \in rest : c.challenges[i] = s.challenges[i]
  BY <1>1, <1>3, RestrictedMaps
<1>5. Expiry(c) = Without(Expiry(s), id)
  BY <1>1, <1>4 DEF Expiry, Without, Restrict, rest
<1>6. order \in Seq(Id)
  <2>1. order \in Seq(rest)
    BY <1>1, <1>2 DEF Queue, Without, Restrict, rest
  <2> QED
    BY <1>1, <2>1
<1>7. c \in Stores
  BY <1>3, <1>4, <1>6 DEF Stores
<1>8. Len(order) <= MaxChallenges
  <2>1. Len(order) \in Nat /\ Len(s.challengeOrder) \in Nat /\ MaxChallenges \in Nat
    BY <1>6, StoreAssumption DEF Stores
  <2> QED
    BY <1>2, <2>1 DEF Listed
<1>9. Listed(c)
  BY <1>2, <1>3, <1>5, <1>8 DEF Listed
<1>10. PartOf(c, s)
  BY <1>1, <1>3, <1>4 DEF PartOf
<1> QED
  BY <1>3, <1>4, <1>7, <1>9, <1>10 DEF c, rest

LEMMA RoomyQueue ==
  ASSUME NEW list, NEW expiry, Queue(list, expiry), NEW max \in Nat \ {0}, Len(list) <= max
  PROVE  LET part == Roomy(list, max)
         IN /\ Queue(part, Restrict(expiry, Elements(part)))
            /\ Elements(part) \subseteq DOMAIN expiry
            /\ Len(part) + 1 <= max
<1>1. Len(list) \in Nat /\ list \in Seq(DOMAIN expiry) /\ Elements(list) = DOMAIN expiry
  BY DEF Queue
<1>2. CASE Len(list) >= max
  <2> DEFINE n == Len(list) - max + 2
  <2>1. n \in 1 .. Len(list) + 1 /\ Len(list) - n + 1 = max - 1
    BY <1>1, <1>2
  <2>2. Roomy(list, max) = SubSeq(list, n, Len(list))
    BY <1>2 DEF Roomy
  <2> HIDE DEF n
  <2> QED
    BY <2>1, <2>2, TailQueue
<1>3. CASE ~(Len(list) >= max)
  <2>1. Roomy(list, max) = list
    BY <1>3 DEF Roomy
  <2>2. /\ DOMAIN Restrict(expiry, Elements(list)) = DOMAIN expiry
        /\ \A x \in DOMAIN expiry : Restrict(expiry, Elements(list))[x] = expiry[x]
    BY <1>1 DEF Restrict
  <2>3. \A k \in 1 .. Len(list) : list[k] \in DOMAIN expiry
    BY <1>1
  <2>4. Queue(list, Restrict(expiry, Elements(list)))
    BY <1>1, <2>2, <2>3 DEF Queue
  <2> QED
    BY <1>1, <1>3, <2>1, <2>4
<1> QED
  BY <1>2, <1>3

LEMMA CreatedStore ==
  ASSUME NEW s \in Stores, Listed(s), NEW id \in Id, id \notin DOMAIN s.challenges,
         NEW b \in Binding, NEW now \in Nat,
         \A i \in DOMAIN s.challenges : s.challenges[i].expires <= now + ChallengeTTL
  PROVE  LET n == Created(s, id, b, now)
         IN /\ n \in Stores /\ Listed(n)
            /\ DOMAIN n.challenges \subseteq DOMAIN s.challenges \cup {id}
            /\ n.challenges[id] = [binding |-> b, expires |-> now + ChallengeTTL, failed |-> 0]
            /\ \A i \in DOMAIN n.challenges \ {id} : n.challenges[i] = s.challenges[i]
            /\ DOMAIN n.verified \subseteq DOMAIN s.verified
            /\ \A x \in DOMAIN n.verified : n.verified[x] = s.verified[x]
<1> DEFINE c == Cleaned(s, now)
           order == Roomy(c.challengeOrder, MaxChallenges)
           entry == [binding |-> b, expires |-> now + ChallengeTTL, failed |-> 0]
           keys == Elements(order) \cup {id}
           map == [i \in keys |-> IF i = id THEN entry ELSE c.challenges[i]]
           n == Created(s, id, b, now)
<1>1. c \in Stores /\ Listed(c) /\ PartOf(c, s)
  BY CleanedStore
<1>2. /\ MaxChallenges \in Nat \ {0} /\ ChallengeTTL \in Nat /\ MaxFailed \in Nat
      /\ entry.expires = now + ChallengeTTL
  BY StoreAssumption
<1>3. n = [c EXCEPT !.challenges = map, !.challengeOrder = Append(order, id)]
  BY DEF Created, Elements
<1> HIDE DEF c
<1>4. /\ Queue(order, Restrict(Expiry(c), Elements(order)))
      /\ Elements(order) \subseteq DOMAIN c.challenges
      /\ Len(order) + 1 <= MaxChallenges
  BY <1>1, <1>2, RoomyQueue DEF Listed, Expiry
<1> HIDE DEF order
<1>5. /\ c.challenges \in [DOMAIN c.challenges -> Waiting] /\ DOMAIN c.challenges \subseteq Id
      /\ DOMAIN c.challenges \subseteq DOMAIN s.challenges
      /\ \A i \in DOMAIN c.challenges : c.challenges[i] = s.challenges[i]
  BY <1>1, PartialMaps DEF Stores, PartOf
<1>6. entry \in Waiting
  BY <1>2 DEF Waiting
<1> HIDE DEF entry
<1>7. map \in [keys -> Waiting] /\ keys \in SUBSET Id
  BY <1>4, <1>5, <1>6
<1>8. map \in Partial(Id, Waiting) /\ DOMAIN map = keys /\ map[id] = entry
      /\ \A i \in Elements(order) : i # id /\ map[i] = c.challenges[i]
  BY <1>4, <1>5, <1>7 DEF Partial
<1> HIDE DEF map
<1>9. /\ n.challenges = map /\ n.challengeOrder = Append(order, id)
      /\ n.verified = c.verified /\ n.verifiedOrder = c.verifiedOrder
  BY <1>1, <1>3 DEF Stores
<1>10. Queue(n.challengeOrder, Expiry(n)) /\ Len(n.challengeOrder) = Len(order) + 1
  <2> DEFINE old == Restrict(Expiry(c), Elements(order))
  <2>1. DOMAIN old = Elements(order) /\ \A i \in Elements(order) : old[i] = c.challenges[i].expires
    BY <1>4 DEF Restrict, Expiry
  <2>2. /\ DOMAIN Expiry(n) = Elements(order) \cup {id}
        /\ \A i \in Elements(order) : Expiry(n)[i] = c.challenges[i].expires
        /\ Expiry(n)[id] = now + ChallengeTTL
    BY <1>2, <1>8, <1>9 DEF Expiry
  <2>3. \A i \in Elements(order) : c.challenges[i].expires <= now + ChallengeTTL
    BY <1>4, <1>5
  <2> HIDE DEF old
  <2>4. id \notin DOMAIN old
    BY <1>8, <2>1
  <2>5. Queue(order, old)
    BY <1>4 DEF old
  <2> DEFINE longer == Expiry(n)
  <2>6. DOMAIN longer = DOMAIN old \cup {id}
    BY <2>1, <2>2
  <2>7. \A y \in DOMAIN old : longer[y] = old[y] /\ old[y] <= longer[id]
    BY <2>1, <2>2, <2>3
  <2>8. n.challengeOrder = Append(order, id)
    BY <1>9
  <2> HIDE DEF longer, n
  <2>9. Queue(Append(order, id), longer) /\ Len(Append(order, id)) = Len(order) + 1
    BY <2>4, <2>5, <2>6, <2>7, AppendQueue
  <2> QED
    BY <2>8, <2>9 DEF longer
<1>11. Append(order, id) \in Seq(Id)
  <2>1. order \in Seq(Elements(order))
    BY <1>4 DEF Queue, Restrict
  <2>2. order \in Seq(Id)
    BY <1>4, <1>5, <2>1
  <2> QED
    BY <2>2
<1>12. n \in Stores
  BY <1>1, <1>3, <1>8, <1>11 DEF Stores
<1>13. Listed(n)
  BY <1>1, <1>4, <1>9, <1>10 DEF Listed
<1>14. DOMAIN n.challenges \subseteq DOMAIN s.challenges \cup {id}
       /\ \A i \in DOMAIN n.challenges \ {id} : n.challenges[i] = s.challenges[i]
  BY <1>4, <1>5, <1>8, <1>9
<1>15. n.challenges[id] = entry
  BY <1>8, <1>9
<1>16. /\ DOMAIN n.verified \subseteq DOMAIN s.verified
       /\ \A x \in DOMAIN n.verified : n.verified[x] = s.verified[x]
  BY <1>1, <1>9 DEF PartOf
<1> HIDE DEF n
<1> QED
  BY <1>12, <1>13, <1>14, <1>15, <1>16 DEF n, entry

\* A store's verified bindings without b and what must make room for it, with b
\* at the end of the list.
Trusting(n, s, b, t, order, old, map) ==
  /\ s \in Stores /\ Listed(s) /\ b \in Binding /\ \A x \in DOMAIN s.verified : s.verified[x] <= t
  /\ Queue(order, old) /\ b \notin DOMAIN old /\ Len(order) + 1 <= MaxVerified
  /\ DOMAIN old \subseteq DOMAIN s.verified
  /\ map \in [DOMAIN old \cup {b} -> Nat] /\ map[b] = t
  /\ \A x \in DOMAIN old : old[x] = s.verified[x] /\ map[x] = s.verified[x]
  /\ n = [s EXCEPT !.verified = map, !.verifiedOrder = Append(order, b)]

LEMMA TrustingStore ==
  ASSUME NEW n, NEW s, NEW b, NEW t, NEW order, NEW old, NEW map, Trusting(n, s, b, t, order, old, map)
  PROVE  /\ n \in Stores /\ Listed(n) /\ n.challenges = s.challenges
         /\ DOMAIN n.verified \subseteq DOMAIN s.verified \cup {b}
         /\ b \in DOMAIN n.verified /\ n.verified[b] = t
         /\ \A x \in DOMAIN n.verified \ {b} : n.verified[x] = s.verified[x]
<1>1. /\ n.challenges = s.challenges /\ n.challengeOrder = s.challengeOrder
      /\ n.verified = map /\ n.verifiedOrder = Append(order, b)
      /\ DOMAIN map = DOMAIN old \cup {b} /\ map \in [DOMAIN map -> Nat]
      /\ Queue(order, old) /\ b \notin DOMAIN old /\ DOMAIN old \subseteq DOMAIN s.verified
      /\ map[b] = t /\ \A x \in DOMAIN old : old[x] = s.verified[x] /\ map[x] = s.verified[x]
      /\ Len(order) + 1 <= MaxVerified
      /\ n = [s EXCEPT !.verified = map, !.verifiedOrder = Append(order, b)]
      /\ s \in Stores /\ Listed(s) /\ b \in Binding /\ \A x \in DOMAIN s.verified : s.verified[x] <= t
  BY DEF Stores, Trusting
<1>2. \A x \in DOMAIN old : map[x] = old[x] /\ old[x] <= map[b]
  BY <1>1
<1>3. Queue(Append(order, b), map) /\ Len(Append(order, b)) = Len(order) + 1
  BY <1>1, <1>2, AppendQueue
<1>4. DOMAIN old \cup {b} \subseteq Binding
  BY <1>1, PartialMaps DEF Stores
<1>5. map \in Partial(Binding, Nat)
  BY <1>1, <1>4, PartialMaps
<1>6. Append(order, b) \in Seq(Binding)
  <2>1. order \in Seq(DOMAIN old)
    BY <1>1 DEF Queue
  <2>2. order \in Seq(Binding)
    BY <1>1, <1>4, <2>1
  <2> QED
    BY <1>1, <2>2
<1>7. n \in Stores
  BY <1>1, <1>5, <1>6 DEF Stores
<1>8. Listed(n)
  <2>1. Expiry(n) = Expiry(s)
    BY <1>1 DEF Expiry
  <2> QED
    BY <1>1, <1>3, <2>1 DEF Listed
<1> QED
  BY <1>1, <1>7, <1>8

LEMMA MarkedStore ==
  ASSUME NEW s \in Stores, Listed(s), NEW b \in Binding, NEW now \in Nat,
         \A x \in DOMAIN s.verified : s.verified[x] <= now + VerificationTTL
  PROVE  LET n == Marked(s, b, now)
         IN /\ n \in Stores /\ Listed(n) /\ n.challenges = s.challenges
            /\ DOMAIN n.verified \subseteq DOMAIN s.verified \cup {b}
            /\ b \in DOMAIN n.verified /\ n.verified[b] = now + VerificationTTL
            /\ \A x \in DOMAIN n.verified \ {b} : n.verified[x] = s.verified[x]
<1> DEFINE t == now + VerificationTTL
           n == Marked(s, b, now)
<1>1. /\ MaxVerified \in Nat \ {0} /\ VerificationTTL \in Nat /\ t \in Nat
      /\ \A x \in DOMAIN s.verified : s.verified[x] <= t
  BY StoreAssumption
<1>2. s.verified \in [DOMAIN s.verified -> Nat] /\ DOMAIN s.verified \subseteq Binding
  BY PartialMaps DEF Stores
<1> HIDE DEF t
<1>4. CASE b \in DOMAIN s.verified
  <2> DEFINE order == Off(s.verifiedOrder, b)
             old == Without(s.verified, b)
             map == [s.verified EXCEPT ![b] = t]
  <2>1. n = [s EXCEPT !.verified = map, !.verifiedOrder = Append(order, b)]
    BY <1>4 DEF Marked, t, Stores
  <2>2. Queue(order, old) /\ Len(order) + 1 = Len(s.verifiedOrder)
    BY <1>4, OffQueue DEF Listed
  <2>3. /\ DOMAIN old = DOMAIN s.verified \ {b}
        /\ \A x \in DOMAIN old : old[x] = s.verified[x] /\ map[x] = s.verified[x]
    BY <1>2 DEF Without, Restrict
  <2>4. map[b] = t /\ map \in [DOMAIN old \cup {b} -> Nat]
    BY <1>1, <1>2, <1>4, <2>3
  <2>5. Len(order) + 1 <= MaxVerified
    BY <2>2 DEF Listed
  <2>6. b \notin DOMAIN old /\ DOMAIN old \subseteq DOMAIN s.verified
    BY <2>3
  <2>7. Trusting(n, s, b, t, order, old, map)
    <3> HIDE DEF order, old, map, n
    <3> QED
      BY <1>1, <2>1, <2>2, <2>3, <2>4, <2>5, <2>6 DEF Trusting
  <2> HIDE DEF order, old, map, n
  <2>8. /\ n \in Stores /\ Listed(n) /\ n.challenges = s.challenges
        /\ DOMAIN n.verified \subseteq DOMAIN s.verified \cup {b}
        /\ b \in DOMAIN n.verified /\ n.verified[b] = t
        /\ \A x \in DOMAIN n.verified \ {b} : n.verified[x] = s.verified[x]
    BY <2>7, TrustingStore
  <2> QED
    BY <2>8 DEF n, t
<1>5. CASE b \notin DOMAIN s.verified
  <2> DEFINE order == Roomy(s.verifiedOrder, MaxVerified)
             old == Restrict(s.verified, Elements(order))
             map == [x \in Elements(order) \cup {b} |-> IF x = b THEN t ELSE s.verified[x]]
  <2>1. n = [s EXCEPT !.verified = map, !.verifiedOrder = Append(order, b)]
    BY <1>5 DEF Marked, Elements, t
  <2>2. /\ Queue(order, old) /\ Elements(order) \subseteq DOMAIN s.verified
        /\ Len(order) + 1 <= MaxVerified
    BY <1>1, RoomyQueue DEF Listed
  <2>3. DOMAIN old = Elements(order) /\ b \notin Elements(order)
        /\ \A x \in DOMAIN old : old[x] = s.verified[x] /\ map[x] = s.verified[x]
    BY <1>5, <2>2 DEF Restrict
  <2>4. map[b] = t /\ map \in [DOMAIN old \cup {b} -> Nat]
    BY <1>1, <1>2, <2>2, <2>3
  <2>5. b \notin DOMAIN old /\ DOMAIN old \subseteq DOMAIN s.verified
    BY <2>2, <2>3
  <2>6. Trusting(n, s, b, t, order, old, map)
    <3> HIDE DEF order, old, map, n
    <3> QED
      BY <1>1, <2>1, <2>2, <2>3, <2>4, <2>5 DEF Trusting
  <2> HIDE DEF order, old, map, n
  <2>7. /\ n \in Stores /\ Listed(n) /\ n.challenges = s.challenges
        /\ DOMAIN n.verified \subseteq DOMAIN s.verified \cup {b}
        /\ b \in DOMAIN n.verified /\ n.verified[b] = t
        /\ \A x \in DOMAIN n.verified \ {b} : n.verified[x] = s.verified[x]
    BY <2>6, TrustingStore
  <2> QED
    BY <2>7 DEF n, t
<1> QED
  BY <1>4, <1>5

LEMMA FailedStore ==
  ASSUME NEW s \in Stores, Listed(s), NEW id \in DOMAIN s.challenges
  PROVE  LET n == Failed(s, id)
         IN /\ n \in Stores /\ Listed(n) /\ n.verified = s.verified
            /\ DOMAIN n.challenges \subseteq DOMAIN s.challenges
            /\ \A i \in DOMAIN n.challenges \ {id} : n.challenges[i] = s.challenges[i]
            /\ id \in DOMAIN n.challenges =>
                 /\ n.challenges[id] = [s.challenges[id] EXCEPT !.failed = @ + 1]
                 /\ s.challenges[id].failed + 1 < MaxFailed
<1> DEFINE n == Failed(s, id)
<1>1. /\ s.challenges \in [DOMAIN s.challenges -> Waiting] /\ DOMAIN s.challenges \subseteq Id
      /\ s.challenges[id] \in Waiting /\ MaxFailed \in Nat
  BY PartialMaps, StoreAssumption DEF Stores
<1>2. CASE s.challenges[id].failed + 1 >= MaxFailed
  BY <1>2, WithoutChallengeStore DEF Failed, PartOf
<1>3. CASE ~(s.challenges[id].failed + 1 >= MaxFailed)
  <2> DEFINE entry == [s.challenges[id] EXCEPT !.failed = @ + 1]
             map == [s.challenges EXCEPT ![id] = entry]
  <2>1. n = [s EXCEPT !.challenges = map]
    BY <1>3 DEF Failed, Stores
  <2>2. entry \in Waiting /\ entry.expires = s.challenges[id].expires
        /\ s.challenges[id].failed + 1 < MaxFailed
    BY <1>1, <1>3 DEF Waiting
  <2> HIDE DEF entry
  <2>3. map \in [DOMAIN s.challenges -> Waiting] /\ DOMAIN map = DOMAIN s.challenges /\ map[id] = entry
        /\ \A i \in DOMAIN s.challenges \ {id} : map[i] = s.challenges[i]
    BY <1>1, <2>2
  <2> HIDE DEF map
  <2>4. map \in Partial(Id, Waiting)
    BY <1>1, <2>3, PartialMaps
  <2>5. n \in Stores
    BY <2>1, <2>4 DEF Stores
  <2>6. /\ n.challenges = map /\ n.challengeOrder = s.challengeOrder
        /\ n.verified = s.verified /\ n.verifiedOrder = s.verifiedOrder
    BY <2>1 DEF Stores
  <2>7. Expiry(n) = Expiry(s)
    BY <2>2, <2>3, <2>6 DEF Expiry
  <2>8. Listed(n)
    BY <2>6, <2>7 DEF Listed
  <2> HIDE DEF n
  <2> QED
    BY <2>2, <2>3, <2>5, <2>6, <2>8 DEF n, entry
<1> QED
  BY <1>2, <1>3
-----------------------------------------------------------------------------
(* The invariant of the store: its lists and its maps agree, a challenge   *)
(* that waits has neither been solved nor used up, and a binding is        *)
(* verified for exactly as long as its last right answer earned it.        *)

StoreInv ==
  /\ store \in Stores /\ Listed(store)
  /\ lastId \in 0 .. MaxIds /\ clock \in Nat \ {0}
  /\ judged \in [Id -> Nat] /\ solved \in [Id -> Nat] /\ earned \in [Binding -> Nat]
  /\ \A i \in Id : /\ solved[i] <= 1 /\ judged[i] <= MaxFailed
                   /\ i > lastId => judged[i] = 0 /\ solved[i] = 0
  /\ \A i \in DOMAIN store.challenges :
       /\ i <= lastId /\ store.challenges[i].expires <= clock + ChallengeTTL
       /\ store.challenges[i].failed = judged[i] /\ judged[i] < MaxFailed /\ solved[i] = 0
  /\ \A b \in Binding : earned[b] <= clock
  /\ \A b \in DOMAIN store.verified : earned[b] # 0 /\ store.verified[b] = earned[b] + VerificationTTL

\* A store that is part of one that satisfies the invariant satisfies it too.
LEMMA PartKeepsInv ==
  ASSUME StoreInv, store' \in Stores, Listed(store)', PartOf(store', store),
         UNCHANGED <<lastId, clock, judged, solved, earned>>
  PROVE  StoreInv'
BY DEF StoreInv, PartOf, Stores, Listed, Queue, Expiry, Elements

LEMMA CleanUpKeepsInv ==
  ASSUME StoreInv, NEW now, CleanUp(now)
  PROVE  StoreInv'
<1>1. store' \in Stores /\ Listed(store') /\ PartOf(store', store)
  BY CleanedStore DEF StoreInv, CleanUp
<1>2. Listed(store)'
  BY <1>1 DEF Listed, Queue, Expiry, Elements
<1> QED
  BY <1>1, <1>2, PartKeepsInv DEF CleanUp

LEMMA CreateKeepsInv ==
  ASSUME StoreInv, NEW b \in Binding, Create(b)
  PROVE  StoreInv'
<1> DEFINE id == lastId + 1
<1>1. /\ id \in Id /\ lastId' = id /\ store' = Created(store, id, b, clock)
      /\ UNCHANGED <<clock, judged, solved, earned>>
      /\ lastId' \in 0 .. MaxIds /\ clock \in Nat /\ id > lastId /\ lastId \in Nat
  BY StoreAssumption DEF StoreInv, Create, Id
<1>2. DOMAIN store.challenges \subseteq Id
  BY PartialMaps DEF StoreInv, Stores
<1>3. id \notin DOMAIN store.challenges
  BY <1>1, <1>2 DEF StoreInv, Id
<1>4. \A i \in DOMAIN store.challenges : store.challenges[i].expires <= clock + ChallengeTTL
  BY DEF StoreInv
<1> HIDE DEF id
<1>5. /\ store' \in Stores /\ Listed(store')
      /\ DOMAIN store'.challenges \subseteq DOMAIN store.challenges \cup {id}
      /\ store'.challenges[id] = [binding |-> b, expires |-> clock + ChallengeTTL, failed |-> 0]
      /\ \A i \in DOMAIN store'.challenges \ {id} : store'.challenges[i] = store.challenges[i]
      /\ DOMAIN store'.verified \subseteq DOMAIN store.verified
      /\ \A x \in DOMAIN store'.verified : store'.verified[x] = store.verified[x]
  BY <1>1, <1>3, <1>4, CreatedStore DEF StoreInv
<1>6. ASSUME NEW i \in DOMAIN store'.challenges
      PROVE  /\ i <= lastId' /\ store'.challenges[i].expires <= clock + ChallengeTTL
             /\ store'.challenges[i].failed = judged[i] /\ judged[i] < MaxFailed /\ solved[i] = 0
  <2>1. CASE i = id
    <3>1. /\ store'.challenges[i].expires = clock + ChallengeTTL /\ store'.challenges[i].failed = 0
      BY <1>5, <2>1
    <3>2. judged[i] = 0 /\ solved[i] = 0 /\ MaxFailed > 0 /\ i <= lastId' /\ ChallengeTTL \in Nat
      BY <1>1, <2>1, StoreAssumption DEF StoreInv
    <3> QED
      BY <1>1, <3>1, <3>2
  <2>2. CASE i # id
    <3>1. i \in DOMAIN store.challenges /\ store'.challenges[i] = store.challenges[i] /\ i \in Id
      BY <1>2, <1>5, <2>2
    <3>2. i <= lastId /\ i \in Nat
      BY <3>1 DEF StoreInv, Id
    <3>3. i <= lastId'
      BY <1>1, <3>2 DEF id
    <3> QED
      BY <3>1, <3>3 DEF StoreInv
  <2> QED
    BY <2>1, <2>2
<1>7. \A i \in Id : solved[i] <= 1 /\ judged[i] <= MaxFailed /\ (i > lastId' => judged[i] = 0 /\ solved[i] = 0)
  <2>1. \A i \in Id : i > lastId' => i > lastId
    BY <1>1 DEF id, Id
  <2> QED
    BY <2>1 DEF StoreInv
<1>8. \A x \in DOMAIN store'.verified : earned[x] # 0 /\ store'.verified[x] = earned[x] + VerificationTTL
  BY <1>5 DEF StoreInv
<1>9. Listed(store)'
  BY <1>5 DEF Listed, Queue, Expiry, Elements
<1> QED
  BY <1>1, <1>5, <1>6, <1>7, <1>8, <1>9 DEF StoreInv

LEMMA VerifyKeepsInv ==
  ASSUME StoreInv, NEW id, NEW right \in BOOLEAN, NEW b \in Binding, Verify(id, right, b)
  PROVE  StoreInv'
<1> DEFINE s == Cleaned(store, clock)
<1>1. s \in Stores /\ Listed(s) /\ PartOf(s, store)
  BY CleanedStore DEF StoreInv
<1>2. UNCHANGED <<lastId, clock>> /\ clock \in Nat \ {0} /\ lastId \in 0 .. MaxIds
  BY DEF Verify, StoreInv
<1>3. /\ DOMAIN s.challenges \subseteq Id
      /\ \A i \in DOMAIN s.challenges :
           /\ i <= lastId /\ s.challenges[i].expires <= clock + ChallengeTTL
           /\ s.challenges[i].failed = judged[i] /\ judged[i] < MaxFailed /\ solved[i] = 0
      /\ \A x \in DOMAIN s.verified : earned[x] # 0 /\ s.verified[x] = earned[x] + VerificationTTL
  BY <1>1, PartialMaps DEF StoreInv, PartOf, Stores
<1>4. Judges(id, b) => id \in DOMAIN s.challenges
  BY DEF Judges
<1>5. CASE ~Judges(id, b)
  <2>1. store' = s /\ UNCHANGED <<judged, solved, earned>>
    BY <1>5 DEF Verify
  <2>2. Listed(store)'
    BY <1>1, <2>1 DEF Listed, Queue, Expiry, Elements
  <2> QED
    BY <1>1, <1>2, <2>1, <2>2, PartKeepsInv
<1>6. CASE Judges(id, b) /\ right
  <2> DEFINE w == WithoutChallenge(s, id)
  <2>1. /\ store' = Marked(w, b, clock) /\ solved' = [solved EXCEPT ![id] = @ + 1]
        /\ earned' = [earned EXCEPT ![b] = clock] /\ judged' = judged
    BY <1>6 DEF Verify
  <2>2. id \in DOMAIN s.challenges
    BY <1>4, <1>6
  <2> HIDE DEF s
  <2>3. /\ w \in Stores /\ Listed(w) /\ PartOf(w, s)
        /\ DOMAIN w.challenges = DOMAIN s.challenges \ {id} /\ w.verified = s.verified
    BY <1>1, <2>2, WithoutChallengeStore
  <2>4. \A x \in DOMAIN w.verified : w.verified[x] <= clock + VerificationTTL
    <3>1. \A x \in DOMAIN s.verified : x \in Binding
      BY <1>1, PartialMaps DEF Stores
    <3>2. \A x \in Binding : earned[x] \in Nat /\ earned[x] <= clock
      BY DEF StoreInv
    <3>3. VerificationTTL \in Nat
      BY StoreAssumption
    <3> QED
      BY <1>2, <1>3, <2>3, <3>1, <3>2, <3>3
  <2> HIDE DEF w
  <2>5. /\ store' \in Stores /\ Listed(store') /\ store'.challenges = w.challenges
        /\ DOMAIN store'.verified \subseteq DOMAIN w.verified \cup {b}
        /\ store'.verified[b] = clock + VerificationTTL
        /\ \A x \in DOMAIN store'.verified \ {b} : store'.verified[x] = w.verified[x]
    BY <1>2, <2>1, <2>3, <2>4, MarkedStore
  <2>6. Listed(store)'
    BY <2>5 DEF Listed, Queue, Expiry, Elements
  <2>7. /\ judged' \in [Id -> Nat] /\ solved' \in [Id -> Nat] /\ earned' \in [Binding -> Nat]
        /\ solved'[id] = 1 /\ \A i \in Id \ {id} : solved'[i] = solved[i]
        /\ earned'[b] = clock /\ \A x \in Binding \ {b} : earned'[x] = earned[x]
    BY <1>2, <1>3, <2>1, <2>2 DEF StoreInv
  <2>8. \A i \in Id : solved'[i] <= 1 /\ judged'[i] <= MaxFailed /\ (i > lastId => judged'[i] = 0 /\ solved'[i] = 0)
    <3>1. ~(id > lastId)
      BY <1>2, <1>3, <2>2 DEF Id
    <3> QED
      BY <2>1, <2>7, <3>1 DEF StoreInv
  <2>9. \A i \in DOMAIN store'.challenges :
          /\ i <= lastId /\ store'.challenges[i].expires <= clock + ChallengeTTL
          /\ store'.challenges[i].failed = judged'[i] /\ judged'[i] < MaxFailed /\ solved'[i] = 0
    BY <1>3, <2>1, <2>3, <2>5, <2>7 DEF PartOf
  <2>10. \A x \in Binding : earned'[x] <= clock
    BY <1>2, <2>7 DEF StoreInv
  <2>11. \A x \in DOMAIN store'.verified : earned'[x] # 0 /\ store'.verified[x] = earned'[x] + VerificationTTL
    <3> SUFFICES ASSUME NEW x \in DOMAIN store'.verified
                 PROVE  earned'[x] # 0 /\ store'.verified[x] = earned'[x] + VerificationTTL
      OBVIOUS
    <3>1. CASE x = b
      BY <1>2, <2>5, <2>7, <3>1
    <3>2. CASE x # b
      <4>1. x \in DOMAIN s.verified /\ store'.verified[x] = s.verified[x]
        BY <2>3, <2>5, <3>2
      <4>2. x \in Binding
        BY <1>1, <4>1, PartialMaps DEF Stores
      <4> QED
        BY <1>3, <2>7, <3>2, <4>1, <4>2
    <3> QED
      BY <3>1, <3>2
  <2> QED
    BY <1>2, <2>5, <2>6, <2>7, <2>8, <2>9, <2>10, <2>11 DEF StoreInv
<1>7. CASE Judges(id, b) /\ ~right
  <2>1. /\ store' = Failed(s, id) /\ judged' = [judged EXCEPT ![id] = @ + 1]
        /\ solved' = solved /\ earned' = earned
    BY <1>7 DEF Verify
  <2>2. id \in DOMAIN s.challenges
    BY <1>4, <1>7
  <2> HIDE DEF s
  <2>3. /\ store' \in Stores /\ Listed(store') /\ store'.verified = s.verified
        /\ DOMAIN store'.challenges \subseteq DOMAIN s.challenges
        /\ \A i \in DOMAIN store'.challenges \ {id} : store'.challenges[i] = s.challenges[i]
        /\ id \in DOMAIN store'.challenges =>
             /\ store'.challenges[id] = [s.challenges[id] EXCEPT !.failed = @ + 1]
             /\ s.challenges[id].failed + 1 < MaxFailed
    BY <1>1, <2>1, <2>2, FailedStore
  <2>4. Listed(store)'
    BY <2>3 DEF Listed, Queue, Expiry, Elements
  <2>5. /\ judged' \in [Id -> Nat] /\ judged'[id] = judged[id] + 1 /\ judged[id] \in Nat
        /\ \A i \in Id \ {id} : judged'[i] = judged[i]
    BY <1>3, <2>1, <2>2 DEF StoreInv
  <2>6. \A i \in Id : solved[i] <= 1 /\ judged'[i] <= MaxFailed /\ (i > lastId => judged'[i] = 0 /\ solved[i] = 0)
    <3>1. ~(id > lastId) /\ judged[id] + 1 <= MaxFailed
      BY <1>2, <1>3, <2>2, <2>5, StoreAssumption DEF Id
    <3> QED
      BY <2>5, <3>1 DEF StoreInv
  <2>7. ASSUME NEW i \in DOMAIN store'.challenges
        PROVE  /\ i <= lastId /\ store'.challenges[i].expires <= clock + ChallengeTTL
               /\ store'.challenges[i].failed = judged'[i] /\ judged'[i] < MaxFailed /\ solved[i] = 0
    <3>1. i \in DOMAIN s.challenges /\ i \in Id
      BY <1>3, <2>3
    <3>2. CASE i = id
      <4>1. s.challenges[id] \in Waiting
        BY <1>1, <2>2, PartialMaps DEF Stores
      <4>2. /\ store'.challenges[id].expires = s.challenges[id].expires
            /\ store'.challenges[id].failed = s.challenges[id].failed + 1
        BY <2>3, <3>2, <4>1 DEF Waiting
      <4>3. s.challenges[id].failed = judged[id] /\ judged[id] + 1 < MaxFailed
        BY <1>3, <2>2, <2>3, <3>2
      <4> QED
        BY <1>3, <2>2, <2>5, <3>2, <4>2, <4>3
    <3>3. CASE i # id
      BY <1>3, <2>3, <2>5, <3>1, <3>3
    <3> QED
      BY <3>2, <3>3
  <2> QED
    BY <1>2, <1>3, <2>1, <2>3, <2>4, <2>5, <2>6, <2>7 DEF StoreInv
<1> QED
  BY <1>5, <1>6, <1>7
-----------------------------------------------------------------------------
(* The clients.                                                            *)

AccessInv == StoreInv /\ visit \in [Client -> Visits]

LEMMA Bindings ==
  ASSUME NEW c \in Client
  PROVE  GateBinding(c) \in Binding /\ Place(c) \in Binding
BY AccessAssumption DEF GateBinding, Place

LEMMA AccessInvInit ==
  ASSUME AccessInit
  PROVE  AccessInv
<1>1. /\ store = EmptyStore /\ lastId = 0 /\ clock = 1 /\ visit = [c \in Client |-> Idle]
      /\ judged = [i \in Id |-> 0] /\ solved = [i \in Id |-> 0] /\ earned = [b \in Binding |-> 0]
  BY DEF AccessInit, StoreInit
<1>2. /\ MaxIds \in Nat /\ MaxChallenges \in Nat /\ MaxVerified \in Nat /\ MaxFailed \in Nat
  BY StoreAssumption
<1>3. /\ DOMAIN store.challenges = {} /\ store.challengeOrder = << >>
      /\ DOMAIN store.verified = {} /\ store.verifiedOrder = << >>
      /\ DOMAIN Expiry(store) = {}
  BY <1>1 DEF EmptyStore, Expiry
<1>4. store \in Stores
  <2>1. \A R : << >> \in [1 .. 0 -> R]
    BY EmptySeq, ElementOfSeq
  <2>2. 1 .. 0 = {}
    OBVIOUS
  <2>3. ASSUME NEW T, NEW R PROVE << >> \in Partial(T, R)
    <3>1. << >> \in [{} -> R]
      BY <2>1, <2>2
    <3>2. {} \in SUBSET T
      OBVIOUS
    <3> QED
      BY <3>1, <3>2, Zenon DEF Partial
  <2> QED
    BY <1>1, <2>3 DEF Stores, EmptyStore
<1>5. Listed(store)
  <2>1. \A f : DOMAIN f = {} => Queue(<< >>, f)
    BY DEF Queue, Elements
  <2> QED
    BY <1>2, <1>3, <2>1 DEF Listed
<1>6. visit \in [Client -> Visits]
  BY <1>1 DEF Idle, Visits
<1>7. lastId \in 0 .. MaxIds /\ clock \in Nat \ {0}
  BY <1>1, <1>2
<1>8. judged \in [Id -> Nat] /\ solved \in [Id -> Nat] /\ earned \in [Binding -> Nat]
  BY <1>1
<1>9. /\ \A i \in Id : solved[i] = 0 /\ judged[i] = 0 /\ 0 <= MaxFailed
      /\ \A b \in Binding : earned[b] <= clock
  BY <1>1, <1>2
<1> QED
  BY <1>3, <1>4, <1>5, <1>6, <1>7, <1>8, <1>9 DEF AccessInv, StoreInv

\* What a decision leads to.
LEMMA DecisionsAreVisits ==
  ASSUME visit \in [Client -> Visits], NEW c \in Client, NEW verified \in BOOLEAN, Decided(c, verified)
  PROVE  visit' \in [Client -> Visits]
<1>1. LookedUp(c) \in Binding
  BY Bindings DEF LookedUp
<1>2. Idle \in Visits /\ [at |-> "challenge", binding |-> LookedUp(c)] \in Visits
  BY <1>1 DEF Idle, Visits
<1> QED
  BY <1>2 DEF Decided, NowAt

LEMMA SameStore ==
  ASSUME store' = store, Listed(store)
  PROVE  Listed(store)'
<1>1. Listed(store')
  OBVIOUS
<1> QED
  BY <1>1 DEF Listed, Queue, Expiry, Elements

LEMMA AccessInvStep ==
  ASSUME AccessInv, [AccessNext]_accessVars
  PROVE  AccessInv'
<1>1. visit \in [Client -> Visits] /\ StoreInv
  BY DEF AccessInv
<1>2. ASSUME UNCHANGED storeVars PROVE StoreInv'
  <2>1. UNCHANGED <<store, lastId, clock, judged, solved, earned>>
    BY <1>2 DEF storeVars
  <2>2. store' \in Stores /\ Listed(store)'
    BY <1>1, <2>1, SameStore DEF StoreInv
  <2>3. PartOf(store', store)
    BY <2>1 DEF PartOf
  <2> QED
    BY <1>1, <2>1, <2>2, <2>3, PartKeepsInv
<1>3. ASSUME NEW c \in Client, NEW v \in Visits, NowAt(c, v) PROVE visit' \in [Client -> Visits]
  BY <1>1, <1>3 DEF NowAt
<1>4. Idle \in Visits
  BY DEF Idle, Visits
<1>5. CASE AccessTick
  <2>1. /\ clock' = clock + 1 /\ UNCHANGED <<store, lastId, judged, solved, earned, visit>>
        /\ clock' \in Nat \ {0} /\ clock \in Nat
    BY <1>1, <1>5 DEF AccessTick, StoreInv
  <2>2. store' \in Stores /\ Listed(store)'
    BY <1>1, <2>1, SameStore DEF StoreInv
  <2>3. \A b \in Binding : earned[b] <= clock'
    BY <1>1, <2>1 DEF StoreInv
  <2>4. \A i \in DOMAIN store.challenges : store.challenges[i].expires <= clock' + ChallengeTTL
    <3>1. store.challenges \in Partial(Id, Waiting)
      BY <1>1 DEF StoreInv, Stores
    <3>2. store.challenges \in [DOMAIN store.challenges -> Waiting]
      BY <3>1, PartialMaps
    <3>3. \A i \in DOMAIN store.challenges : store.challenges[i].expires \in Nat
      BY <3>2 DEF Waiting
    <3> QED
      BY <1>1, <2>1, <3>3, StoreAssumption DEF StoreInv
  <2> QED
    BY <1>1, <2>1, <2>2, <2>3, <2>4 DEF AccessInv, StoreInv
<1>6. ASSUME NEW c \in Client, Arrive(c) PROVE AccessInv'
  <2>1. PICK page \in Page : NowAt(c, [at |-> "look", page |-> page])
    BY <1>6 DEF Arrive
  <2>2. [at |-> "look", page |-> page] \in Visits
    BY DEF Visits
  <2> QED
    BY <1>2, <1>3, <1>6, <2>1, <2>2 DEF Arrive, AccessInv
<1>7. ASSUME NEW c \in Client, Look(c) PROVE AccessInv'
  <2>1. visit[c].page \in Page
    BY <1>1, <1>7 DEF Look, Visits
  <2>2. clock \in Nat
    BY <1>1 DEF StoreInv
  <2>3. [at |-> "look again", page |-> visit[c].page, now |-> clock] \in Visits
    BY <2>1, <2>2 DEF Visits
  <2>4. HeldVerified(store, LookedUp(c), clock) \in BOOLEAN
    BY DEF HeldVerified
  <2>5. visit' \in [Client -> Visits]
    BY <1>1, <1>3, <1>7, <2>3, <2>4, DecisionsAreVisits DEF Look
  <2> QED
    BY <1>2, <1>7, <2>5 DEF Look, AccessInv
<1>8. ASSUME NEW c \in Client, LookAgain(c) PROVE AccessInv'
  <2>1. /\ CleanUp(visit[c].now)
        /\ Decided(c, HeldVerified(Cleaned(store, visit[c].now), LookedUp(c), visit[c].now))
    BY <1>8 DEF LookAgain
  <2>2. HeldVerified(Cleaned(store, visit[c].now), LookedUp(c), visit[c].now) \in BOOLEAN
    BY DEF HeldVerified
  <2>3. visit' \in [Client -> Visits]
    BY <1>1, <2>1, <2>2, DecisionsAreVisits
  <2>4. StoreInv'
    BY <1>1, <2>1, CleanUpKeepsInv
  <2> QED
    BY <2>3, <2>4 DEF AccessInv
<1>9. ASSUME NEW c \in Client, Challenge(c) PROVE AccessInv'
  <2>1. visit[c].binding \in Binding
    BY <1>1, <1>9 DEF Challenge, Visits
  <2>2. StoreInv'
    BY <1>1, <1>9, <2>1, CreateKeepsInv DEF Challenge
  <2> QED
    BY <1>3, <1>4, <1>9, <2>2 DEF Challenge, AccessInv
<1>10. ASSUME NEW c \in Client, PostAgain(c) PROVE AccessInv'
  <2>1. visit[c].right \in BOOLEAN
    BY <1>1, <1>10 DEF PostAgain, Visits
  <2>2. StoreInv'
    BY <1>1, <1>10, <2>1, Bindings, VerifyKeepsInv DEF PostAgain
  <2> QED
    BY <1>3, <1>4, <1>10, <2>2 DEF PostAgain, AccessInv
<1>11. ASSUME NEW c \in Client, NEW id \in DOMAIN store.challenges, NEW right \in BOOLEAN, Post(c, id, right)
       PROVE  AccessInv'
  <2>1. PICK b \in {GateBinding(c), Place(c)} :
          /\ Verify(id, right, b)
          /\ NowAt(c, IF b # Place(c) /\ ~(Judges(id, b) /\ right)
                      THEN [at |-> "post", id |-> id, right |-> right] ELSE Idle)
    BY <1>11 DEF Post
  <2>2. StoreInv'
    BY <1>1, <2>1, Bindings, VerifyKeepsInv
  <2>3. id \in Id
    BY <1>1, PartialMaps DEF StoreInv, Stores
  <2>4. [at |-> "post", id |-> id, right |-> right] \in Visits
    BY <2>3 DEF Visits
  <2> QED
    BY <1>3, <1>4, <2>1, <2>2, <2>4 DEF AccessInv
<1>12. CASE UNCHANGED accessVars
  BY <1>1, <1>2, <1>12 DEF accessVars, AccessInv
<1> QED
  BY <1>5, <1>6, <1>7, <1>8, <1>9, <1>10, <1>11, <1>12 DEF AccessNext

LEMMA AccessInvHolds == AccessSpec => []AccessInv
<1>1. AccessInit => AccessInv
  BY AccessInvInit
<1>2. AccessInv /\ [AccessNext]_accessVars => AccessInv'
  BY AccessInvStep
<1> QED
  BY <1>1, <1>2, PTL DEF AccessSpec

\* The store and every request in it have their types: what the code keeps in
\* its maps and lists, for any number of clients.
THEOREM AccessTypes == AccessSpec => []AccessTypeOK
<1>1. AccessInv => AccessTypeOK
  <2> SUFFICES ASSUME AccessInv PROVE AccessTypeOK
    OBVIOUS
  <2>1. /\ store.challenges \in [DOMAIN store.challenges -> Waiting] /\ DOMAIN store.challenges \subseteq Id
        /\ store.verified \in [DOMAIN store.verified -> Nat] /\ DOMAIN store.verified \subseteq Binding
        /\ store.challengeOrder \in Seq(Id) /\ store.verifiedOrder \in Seq(Binding)
    BY PartialMaps DEF AccessInv, StoreInv, Stores
  <2>2. DOMAIN store.challenges \subseteq 1 .. lastId
    BY <2>1 DEF AccessInv, StoreInv, Id
  <2> QED
    BY <2>1, <2>2 DEF AccessInv, StoreInv, AccessTypeOK, StoreTypeOK, Waiting
<1> QED
  BY <1>1, AccessInvHolds, PTL

\* The lists of the store have the keys of its maps, once, in order of expiry and
\* no more than allowed, after any sequence of its operations.
THEOREM ListsStayAgreed == AccessSpec => []ListsAgree
<1>1. AccessInv => ListsAgree
  <2> SUFFICES ASSUME AccessInv PROVE ListsAgree
    OBVIOUS
  <2>1. Listed(store)
    BY DEF AccessInv, StoreInv
  <2>2. /\ DOMAIN Expiry(store) = DOMAIN store.challenges
        /\ \A i \in DOMAIN store.challenges : Expiry(store)[i] = store.challenges[i].expires
    BY DEF Expiry
  <2>3. \A k \in 1 .. Len(store.challengeOrder) : store.challengeOrder[k] \in DOMAIN store.challenges
    BY <2>1, <2>2 DEF Listed, Queue
  <2> QED
    BY <2>1, <2>2, <2>3 DEF ListsAgree, InOrder, Listed, Queue, Elements
<1> QED
  BY <1>1, AccessInvHolds, PTL

\* However Create, Verify and IsVerified interleave, a challenge is solved once at
\* most and is gone once it is solved or has had MaxFailed wrong answers.
THEOREM AnswersAreRationed == AccessSpec => []AnswersRationed
<1>1. AccessInv => AnswersRationed
  <2> SUFFICES ASSUME AccessInv, NEW i \in Id
               PROVE  /\ solved[i] <= 1 /\ judged[i] <= MaxFailed
                      /\ solved[i] = 1 \/ judged[i] = MaxFailed => i \notin DOMAIN store.challenges
                      /\ i \in DOMAIN store.challenges => store.challenges[i].failed = judged[i]
    BY DEF AnswersRationed
  <2>1. judged[i] \in Nat /\ MaxFailed \in Nat
    BY StoreAssumption DEF AccessInv, StoreInv
  <2> QED
    BY <2>1 DEF AccessInv, StoreInv
<1> QED
  BY <1>1, AccessInvHolds, PTL

LEMMA DecidedIdle ==
  ASSUME visit \in [Client -> Visits], NEW c \in Client, NEW verified \in BOOLEAN, Decided(c, verified),
         visit[c].page = "gate", visit'[c] = Idle
  PROVE  verified
<1>1. visit'[c] = [at |-> "challenge", binding |-> LookedUp(c)] => visit'[c].at = "challenge"
  OBVIOUS
<1>2. Idle.at # "challenge"
  BY DEF Idle
<1> QED
  BY <1>1, <1>2 DEF Decided, NowAt

\* Nobody passes the gate without having solved a challenge as this user and from
\* this address that still counts, even when the look at the store is split in two
\* and others create, solve and evict in between.
THEOREM GatesAreEarned == AccessSpec => GateEarned
<1> DEFINE Passes(c) == visit[c].at \in {"look", "look again"} /\ visit[c].page = "gate" /\ visit'[c] = Idle
           Earned(c) ==
             LET solvedAt == earned[<<AddressOf[c], UserOf[c]>>]
                 since == IF visit[c].at = "look" THEN clock ELSE visit[c].now
             IN solvedAt # 0 /\ since < solvedAt + VerificationTTL
<1>1. ASSUME AccessInv, [AccessNext]_accessVars, NEW c \in Client, Passes(c) PROVE Earned(c)
  <2>1. visit \in [Client -> Visits] /\ StoreInv
    BY <1>1 DEF AccessInv
  <2>2. visit'[c].at = "idle" /\ visit[c].at # "idle"
    <3>1. visit'[c] = Idle /\ visit[c].at \in {"look", "look again"}
      BY <1>1
    <3>2. Idle.at = "idle"
      BY DEF Idle
    <3> QED
      BY <3>1, <3>2
  <2>3. ASSUME NEW d \in Client, NEW v, NowAt(d, v) PROVE d = c
    BY <2>1, <2>2, <2>3 DEF NowAt
  <2>4. LookedUp(c) = <<AddressOf[c], UserOf[c]>>
    BY <1>1 DEF LookedUp, GateBinding
  <2>5. Look(c) \/ LookAgain(c)
    <3>1. \A d \in Client : ~(d = c /\ (Arrive(d) \/ Challenge(d) \/ PostAgain(d)))
      BY <1>1 DEF Arrive, Challenge, PostAgain
    <3>2. \A d \in Client, id \in DOMAIN store.challenges, right \in BOOLEAN : ~(d = c /\ Post(d, id, right))
      BY <1>1 DEF Post
    <3>3. ~AccessTick /\ ~(UNCHANGED accessVars)
      BY <2>2 DEF AccessTick, accessVars
    <3>4. \A d \in Client : Arrive(d) \/ Challenge(d) \/ PostAgain(d) => d = c
      BY <2>3 DEF Arrive, Challenge, PostAgain
    <3>5. \A d \in Client : Look(d) \/ LookAgain(d) => d = c
      BY <2>3 DEF Look, LookAgain, Decided
    <3>6. \A d \in Client, id \in DOMAIN store.challenges, right \in BOOLEAN : Post(d, id, right) => d = c
      BY <2>3 DEF Post
    <3> QED
      BY <1>1, <3>1, <3>2, <3>3, <3>4, <3>5, <3>6 DEF AccessNext
  <2>6. CASE Look(c)
    <3>1. visit[c].at = "look"
      BY <2>6 DEF Look
    <3>2. HeldVerified(store, LookedUp(c), clock)
      <4>1. HeldVerified(store, LookedUp(c), clock) \in BOOLEAN
        BY DEF HeldVerified
      <4>2. ~NowAt(c, [at |-> "look again", page |-> visit[c].page, now |-> clock])
        <5> DEFINE v == [at |-> "look again", page |-> visit[c].page, now |-> clock]
        <5>1. v.at = "look again"
          OBVIOUS
        <5> HIDE DEF v
        <5>2. NowAt(c, v) => visit'[c] = v
          BY <2>1 DEF NowAt
        <5>3. ~NowAt(c, v)
          BY <2>2, <5>1, <5>2
        <5> QED
          BY <5>3 DEF v
      <4> QED
        BY <1>1, <2>1, <2>6, <4>1, <4>2, DecidedIdle DEF Look
    <3> QED
      BY <2>1, <2>4, <3>1, <3>2 DEF HeldVerified, StoreInv
  <2>7. CASE LookAgain(c)
    <3> DEFINE now == visit[c].now
               held == Cleaned(store, now)
    <3>1. visit[c].at = "look again" /\ Decided(c, HeldVerified(held, LookedUp(c), now))
      BY <2>7 DEF LookAgain
    <3>2. HeldVerified(held, LookedUp(c), now) \in BOOLEAN
      BY DEF HeldVerified
    <3>3. HeldVerified(held, LookedUp(c), now)
      BY <1>1, <2>1, <3>1, <3>2, DecidedIdle
    <3>4. PartOf(held, store)
      BY <2>1, CleanedStore DEF StoreInv
    <3>5. LookedUp(c) \in DOMAIN store.verified /\ now < store.verified[LookedUp(c)]
      BY <3>3, <3>4 DEF HeldVerified, PartOf
    <3> QED
      BY <2>1, <2>4, <3>1, <3>5 DEF StoreInv
  <2> QED
    BY <2>5, <2>6, <2>7
<1>2. AccessInv /\ [AccessNext]_accessVars => [\A c \in Client : Passes(c) => Earned(c)]_accessVars
  BY <1>1
<1>3. [\A c \in Client : Passes(c) => Earned(c)]_accessVars =>
        [\A c \in Client :
           visit[c].at \in {"look", "look again"} /\ visit[c].page = "gate" /\ visit'[c] = Idle =>
             LET solvedAt == earned[<<AddressOf[c], UserOf[c]>>]
                 since == IF visit[c].at = "look" THEN clock ELSE visit[c].now
             IN solvedAt # 0 /\ since < solvedAt + VerificationTTL]_accessVars
  OBVIOUS
<1> QED
  BY <1>2, <1>3, AccessInvHolds, PTL DEF AccessSpec, GateEarned
-----------------------------------------------------------------------------
(* Who is forgotten. An entry is dropped when it has expired or when the   *)
(* table is full and all that stay were earned later. Those stay "later"   *)
(* however often they are renewed, evicted or expire themselves.           *)

\* Bindings that have solved a challenge since b last did, or with it.
Later(b) == {c \in Binding \ {b} : earned[c] # 0 /\ earned[c] >= earned[b]}

Remembered ==
  \A b \in Binding :
    earned[b] # 0 /\ clock < earned[b] + VerificationTTL /\ b \notin DOMAIN store.verified =>
      Cardinality(Later(b)) >= MaxVerified

\* A look at the store does not go on with a time to come.
NowPast == \A c \in Client : visit[c].at = "look again" => visit[c].now <= clock

LEMMA QueueCount ==
  ASSUME NEW list, NEW expiry, Queue(list, expiry)
  PROVE  IsFiniteSet(DOMAIN expiry) /\ Cardinality(DOMAIN expiry) = Len(list)
<1> DEFINE T == DOMAIN expiry
           n == Len(list)
<1>1. n \in Nat /\ list \in [1 .. n -> T]
  BY DEF Queue
<1>2. \A i, j \in 1 .. n : i # j => list[i] # list[j]
  <2> SUFFICES ASSUME NEW i \in 1 .. n, NEW j \in 1 .. n, i # j PROVE list[i] # list[j]
    OBVIOUS
  <2>1. i < j \/ j < i
    BY <1>1
  <2> QED
    BY <2>1 DEF Queue
<1>3. \A x \in T : \E i \in 1 .. n : list[i] = x
  BY DEF Queue, Elements
<1>4. IsFiniteSet(1 .. n) /\ Cardinality(1 .. n) = n
  BY <1>1, FS_Interval
<1> HIDE DEF T, n
<1>5. list \in Bijection(1 .. n, T)
  BY <1>1, <1>2, <1>3 DEF Bijection, Injection, Surjection, IsInjective
<1>6. IsFiniteSet(T) /\ Cardinality(T) = n
  BY <1>4, <1>5, FS_Bijection DEF ExistsBijection
<1> QED
  BY <1>6 DEF T, n

LEMMA TailElements ==
  ASSUME NEW list, NEW expiry, Queue(list, expiry), NEW n \in 1 .. Len(list) + 1,
         NEW i \in n .. Len(list)
  PROVE  list[i] \in Elements(SubSeq(list, n, Len(list)))
<1> DEFINE part == SubSeq(list, n, Len(list))
<1>1. list \in Seq(DOMAIN expiry) /\ Len(list) \in Nat
  BY DEF Queue
<1>2. i - n + 1 \in 1 .. Len(list) - n + 1 /\ n + (i - n + 1) - 1 = i
  BY <1>1
<1>3. Len(part) = Len(list) - n + 1 /\ \A k \in 1 .. Len(list) - n + 1 : part[k] = list[n + k - 1]
  BY <1>1
<1> HIDE DEF part
<1>4. part[i - n + 1] = list[i] /\ i - n + 1 \in 1 .. Len(part)
  BY <1>2, <1>3
<1> QED
  BY <1>4 DEF Elements, part

\* What has not expired is not cleaned away.
LEMMA CleanedKeepsLive ==
  ASSUME NEW s \in Stores, Listed(s), NEW now \in Nat, NEW x \in DOMAIN s.verified, s.verified[x] > now
  PROVE  x \in DOMAIN Cleaned(s, now).verified
<1> DEFINE list == s.verifiedOrder
           expired == {i \in 1 .. Len(list) : \A j \in 1 .. i : s.verified[list[j]] <= now}
           tail == LiveTail(list, s.verified, now)
<1>1. Queue(list, s.verified) /\ Len(list) \in Nat
  BY DEF Listed, Queue
<1>2. PICK i \in 1 .. Len(list) : list[i] = x
  BY <1>1 DEF Queue, Elements
<1>3. s.verified[x] \in Nat
  BY PartialMaps DEF Stores
<1>4. expired \subseteq 1 .. i - 1
  <2> SUFFICES ASSUME NEW k \in expired, ~(k < i) PROVE FALSE
    BY <1>1, <1>2
  <2>1. i \in 1 .. k
    BY <1>1, <1>2
  <2>2. s.verified[list[i]] <= now
    BY <2>1
  <2> QED
    BY <1>2, <1>3, <2>2
<1> HIDE DEF expired
<1>5. IsFiniteSet(1 .. i - 1) /\ Cardinality(1 .. i - 1) = i - 1
  <2>1. i - 1 \in Nat
    BY <1>1, <1>2
  <2>2. Cardinality(1 .. i - 1) = IF 1 > i - 1 THEN 0 ELSE (i - 1) - 1 + 1
    BY <2>1, FS_Interval
  <2> QED
    BY <2>1, <2>2, FS_Interval
<1>6. Cardinality(expired) \in Nat /\ Cardinality(expired) <= i - 1
  BY <1>4, <1>5, FS_Subset, FS_CardinalityType
<1> DEFINE n == Cardinality(expired) + 1
<1>7. n \in 1 .. Len(list) + 1 /\ i \in n .. Len(list)
  BY <1>1, <1>2, <1>6
<1>8. tail = SubSeq(list, n, Len(list))
  BY DEF LiveTail, expired
<1> HIDE DEF list, tail, n
<1>9. x \in Elements(tail)
  BY <1>1, <1>2, <1>7, <1>8, TailElements
<1>10. Cleaned(s, now).verified = Restrict(s.verified, Elements(tail))
  BY DEF Cleaned, Kept, Elements, tail, list
<1> QED
  BY <1>9, <1>10 DEF Restrict

\* What one more makes the store forget expires before all that stay, and they are
\* as many as it holds.
LEMMA MarkedDrops ==
  ASSUME NEW s \in Stores, Listed(s), NEW b \in Binding, NEW now \in Nat,
         \A y \in DOMAIN s.verified : s.verified[y] <= now + VerificationTTL,
         NEW x \in DOMAIN s.verified, x \notin DOMAIN Marked(s, b, now).verified
  PROVE  LET n == Marked(s, b, now)
         IN /\ IsFiniteSet(DOMAIN n.verified) /\ Cardinality(DOMAIN n.verified) = MaxVerified
            /\ \A y \in DOMAIN n.verified : n.verified[y] >= s.verified[x]
<1> DEFINE n == Marked(s, b, now)
           list == s.verifiedOrder
           order == Roomy(list, MaxVerified)
<1>1. /\ MaxVerified \in Nat \ {0} /\ Queue(list, s.verified) /\ Len(list) \in Nat
      /\ Len(list) <= MaxVerified /\ list \in Seq(DOMAIN s.verified)
  BY StoreAssumption DEF Listed, Queue
<1>2. /\ Listed(n) /\ DOMAIN n.verified \subseteq DOMAIN s.verified \cup {b}
      /\ b \in DOMAIN n.verified /\ n.verified[b] = now + VerificationTTL
      /\ \A y \in DOMAIN n.verified \ {b} : n.verified[y] = s.verified[y]
  BY MarkedStore
<1>3. b \notin DOMAIN s.verified
  <2> SUFFICES ASSUME b \in DOMAIN s.verified PROVE x \in DOMAIN n.verified
    OBVIOUS
  <2>1. n = [s EXCEPT !.verified = [s.verified EXCEPT ![b] = now + VerificationTTL],
                      !.verifiedOrder = Append(Off(@, b), b)]
    BY DEF Marked, Stores
  <2>2. n.verified = [s.verified EXCEPT ![b] = now + VerificationTTL]
    BY <2>1 DEF Stores
  <2> QED
    BY <2>2
<1>4. n.verifiedOrder = Append(order, b) /\ DOMAIN n.verified = Elements(order) \cup {b}
  <2>1. n = [s EXCEPT !.verified = [y \in Elements(order) \cup {b} |->
                                      IF y = b THEN now + VerificationTTL ELSE s.verified[y]],
                      !.verifiedOrder = Append(order, b)]
    BY <1>3 DEF Marked, Elements
  <2> HIDE DEF n, order
  <2> QED
    BY <2>1 DEF Stores
<1> HIDE DEF n
<1>5. PICK k \in 1 .. Len(list) : list[k] = x
  BY <1>1 DEF Queue, Elements
<1>6. x \notin Elements(order)
  BY <1>4 DEF n
<1>7. Len(list) = MaxVerified
  <2> SUFFICES ASSUME ~(Len(list) >= MaxVerified) PROVE FALSE
    BY <1>1
  <2>1. order = list
    BY DEF Roomy
  <2> QED
    BY <1>5, <1>6, <2>1 DEF Elements
<1>8. order = SubSeq(list, 2, Len(list))
  <2>1. Len(list) - MaxVerified + 2 = 2 /\ Len(list) >= MaxVerified
    BY <1>1, <1>7
  <2> HIDE DEF list
  <2> QED
    BY <2>1 DEF Roomy
<1>9. k = 1
  <2> SUFFICES ASSUME k # 1 PROVE FALSE
    OBVIOUS
  <2>1. 2 \in 1 .. Len(list) + 1 /\ k \in 2 .. Len(list)
    BY <1>1, <1>5
  <2> HIDE DEF list, order
  <2>2. list[k] \in Elements(order)
    BY <1>1, <1>8, <2>1, TailElements
  <2> QED
    BY <1>5, <1>6, <2>2
<1>10. order \in Seq(DOMAIN s.verified) /\ Len(order) = Len(list) - 1
  <2>1. 2 \in 1 .. Len(list) + 1
    BY <1>1, <1>7
  <2> HIDE DEF list, order
  <2>2. /\ Queue(order, Restrict(s.verified, Elements(order)))
        /\ Elements(order) \subseteq DOMAIN s.verified /\ Len(order) = Len(list) - 2 + 1
    BY <1>1, <1>8, <2>1, TailQueue
  <2>3. order \in Seq(Elements(order))
    BY <2>2 DEF Queue, Restrict
  <2>4. order \in Seq(DOMAIN s.verified)
    BY <2>2, <2>3
  <2> QED
    BY <1>1, <2>2, <2>4
<1>11. Len(n.verifiedOrder) = MaxVerified
  <2> HIDE DEF order, list
  <2>1. Len(Append(order, b)) = Len(order) + 1
    BY <1>10
  <2> QED
    BY <1>1, <1>4, <1>7, <1>10, <2>1
<1>12. IsFiniteSet(DOMAIN n.verified) /\ Cardinality(DOMAIN n.verified) = MaxVerified
  BY <1>2, <1>11, QueueCount DEF Listed
<1>13. ASSUME NEW y \in DOMAIN n.verified PROVE n.verified[y] >= s.verified[x]
  <2>1. \A z \in DOMAIN s.verified : s.verified[z] \in Nat
    BY PartialMaps DEF Stores
  <2>2. CASE y = b
    <3>1. now + VerificationTTL \in Nat
      BY StoreAssumption
    <3> QED
      BY <1>2, <2>1, <2>2, <3>1
  <2>3. CASE y # b
    <3>1. y \in DOMAIN s.verified /\ n.verified[y] = s.verified[y]
      BY <1>2, <2>3
    <3>2. PICK i \in 1 .. Len(list) : list[i] = y
      BY <1>1, <3>1 DEF Queue, Elements
    <3>3. i = 1 \/ 1 < i
      BY <1>1, <3>2
    <3>4. s.verified[x] <= s.verified[y]
      BY <1>1, <1>5, <1>9, <2>1, <3>1, <3>2, <3>3 DEF Queue
    <3> QED
      BY <2>1, <3>1, <3>4
  <2> QED
    BY <2>2, <2>3
<1> QED
  BY <1>12, <1>13 DEF n

\* As long as nobody solves anything and only expired entries go.
LEMMA KeepsRemembered ==
  ASSUME StoreInv, Remembered, earned' = earned, clock' \in Nat, clock <= clock',
         \A x \in DOMAIN store.verified : store.verified[x] > clock => x \in DOMAIN store'.verified
  PROVE  Remembered'
<1> SUFFICES ASSUME NEW b \in Binding, earned[b] # 0, clock' < earned[b] + VerificationTTL,
                    b \notin DOMAIN store'.verified
             PROVE  Cardinality(Later(b)') >= MaxVerified
  BY DEF Remembered
<1>1. earned[b] \in Nat /\ clock \in Nat /\ VerificationTTL \in Nat
  BY StoreAssumption DEF StoreInv
<1>2. clock < earned[b] + VerificationTTL
  BY <1>1
<1>3. b \notin DOMAIN store.verified
  BY <1>2 DEF StoreInv
<1>4. Later(b)' = Later(b)
  BY DEF Later
<1> QED
  BY <1>2, <1>3, <1>4 DEF Remembered

\* A right answer, for which an entry of the table may be given up.
LEMMA SolvedKeepsRemembered ==
  ASSUME StoreInv, Remembered, NEW id, NEW b \in Binding, Verify(id, TRUE, b), Judges(id, b)
  PROVE  Remembered'
<1> DEFINE s == Cleaned(store, clock)
           w == WithoutChallenge(s, id)
<1>1. s \in Stores /\ Listed(s) /\ PartOf(s, store)
  BY CleanedStore DEF StoreInv
<1>2. /\ clock' = clock /\ clock \in Nat /\ VerificationTTL \in Nat /\ MaxVerified \in Nat \ {0}
      /\ earned \in [Binding -> Nat] /\ \A x \in Binding : earned[x] <= clock
      /\ \A x \in DOMAIN store.verified : earned[x] # 0 /\ store.verified[x] = earned[x] + VerificationTTL
      /\ store \in Stores /\ Listed(store)
  BY StoreAssumption DEF Verify, StoreInv
<1>3. store' = Marked(w, b, clock) /\ earned' = [earned EXCEPT ![b] = clock]
  BY DEF Verify
<1>4. id \in DOMAIN s.challenges
  BY DEF Judges
<1>5. \A x \in DOMAIN store.verified : store.verified[x] > clock => x \in DOMAIN s.verified
  BY <1>2, CleanedKeepsLive
<1> HIDE DEF s
<1>6. w \in Stores /\ Listed(w) /\ w.verified = s.verified
  BY <1>1, <1>4, WithoutChallengeStore
<1>7. /\ DOMAIN s.verified \subseteq Binding
      /\ \A x \in DOMAIN s.verified : /\ x \in DOMAIN store.verified /\ s.verified[x] = store.verified[x]
                                      /\ earned[x] # 0 /\ s.verified[x] = earned[x] + VerificationTTL
  BY <1>1, <1>2, PartialMaps DEF PartOf, Stores
<1>8. \A x \in DOMAIN w.verified : w.verified[x] <= clock + VerificationTTL
  BY <1>2, <1>6, <1>7
<1> DEFINE n == Marked(w, b, clock)
<1> HIDE DEF w
<1>9. /\ DOMAIN n.verified \subseteq DOMAIN w.verified \cup {b}
      /\ b \in DOMAIN n.verified /\ n.verified[b] = clock + VerificationTTL
      /\ \A x \in DOMAIN n.verified \ {b} : n.verified[x] = w.verified[x]
  BY <1>2, <1>6, <1>8, MarkedStore
<1>10. ASSUME NEW x \in DOMAIN w.verified, x \notin DOMAIN n.verified
       PROVE  /\ IsFiniteSet(DOMAIN n.verified) /\ Cardinality(DOMAIN n.verified) = MaxVerified
              /\ \A y \in DOMAIN n.verified : n.verified[y] >= w.verified[x]
  BY <1>2, <1>6, <1>8, <1>10, MarkedDrops
<1>11. /\ earned'[b] = clock /\ \A x \in Binding \ {b} : earned'[x] = earned[x]
       /\ clock # 0
  BY <1>2, <1>3 DEF StoreInv
<1>12. store' = n
  BY <1>3
<1> HIDE DEF n
<1> SUFFICES ASSUME NEW x \in Binding, earned'[x] # 0, clock < earned'[x] + VerificationTTL,
                    x \notin DOMAIN n.verified
             PROVE  Cardinality(Later(x)') >= MaxVerified
  BY <1>2, <1>12 DEF Remembered
<1>13. x # b /\ earned'[x] = earned[x]
  BY <1>9, <1>11
<1>14. Later(x)' = {c \in Binding \ {x} : earned'[c] # 0 /\ earned'[c] >= earned[x]}
  BY <1>13 DEF Later
<1>15. IsFiniteSet(Later(x)')
  BY <1>14, StoreAssumption, FS_Subset
<1>16. CASE x \in DOMAIN store.verified
  <2>1. x \in DOMAIN w.verified /\ w.verified[x] = earned[x] + VerificationTTL
    BY <1>2, <1>5, <1>6, <1>7, <1>13, <1>16
  <2>2. /\ IsFiniteSet(DOMAIN n.verified) /\ Cardinality(DOMAIN n.verified) = MaxVerified
        /\ \A y \in DOMAIN n.verified : n.verified[y] >= w.verified[x]
    BY <1>10, <2>1
  <2>3. ASSUME NEW y \in DOMAIN n.verified
        PROVE  y \in Binding \ {x} /\ earned'[y] # 0 /\ earned'[y] >= earned[x]
    <3>1. earned[x] \in Nat /\ earned[x] <= clock
      BY <1>2
    <3>2. CASE y = b
      BY <1>2, <1>11, <1>13, <3>1, <3>2
    <3>3. CASE y # b
      <4>1. y \in DOMAIN w.verified /\ y \in Binding /\ n.verified[y] = w.verified[y]
        BY <1>6, <1>7, <1>9, <3>3
      <4>2. earned'[y] = earned[y] /\ earned[y] # 0 /\ n.verified[y] = earned[y] + VerificationTTL
        BY <1>6, <1>7, <1>11, <3>3, <4>1
      <4>3. n.verified[y] >= earned[x] + VerificationTTL
        BY <2>1, <2>2
      <4>4. earned[y] \in Nat
        BY <1>2, <4>1
      <4> QED
        BY <1>2, <3>1, <4>1, <4>2, <4>3, <4>4
    <3> QED
      BY <3>2, <3>3
  <2>4. DOMAIN n.verified \subseteq Later(x)'
    BY <1>14, <2>3
  <2>5. Cardinality(DOMAIN n.verified) <= Cardinality(Later(x)')
    BY <1>15, <2>4, FS_Subset
  <2> QED
    BY <1>2, <1>15, <2>2, <2>5, FS_CardinalityType
<1>17. CASE x \notin DOMAIN store.verified
  <2>1. Cardinality(Later(x)) >= MaxVerified
    BY <1>13, <1>17 DEF Remembered
  <2>2. Later(x) \subseteq Later(x)'
    <3> SUFFICES ASSUME NEW c \in Later(x) PROVE earned'[c] # 0 /\ earned'[c] >= earned[x]
      BY <1>14 DEF Later
    <3>1. c \in Binding /\ earned[c] # 0 /\ earned[c] >= earned[x]
      BY DEF Later
    <3>2. earned[x] \in Nat /\ earned[c] \in Nat /\ earned[x] <= clock
      BY <1>2, <3>1
    <3> QED
      BY <1>2, <1>11, <3>1, <3>2
  <2>3. IsFiniteSet(Later(x)) /\ Cardinality(Later(x)) <= Cardinality(Later(x)')
    BY <1>15, <2>2, FS_Subset
  <2> QED
    BY <1>2, <1>15, <2>1, <2>3, FS_CardinalityType
<1> QED
  BY <1>16, <1>17

\* Every operation of the store.
LEMMA VerifyKeepsRemembered ==
  ASSUME StoreInv, Remembered, NEW id, NEW right \in BOOLEAN, NEW b \in Binding, Verify(id, right, b)
  PROVE  Remembered'
<1> DEFINE s == Cleaned(store, clock)
<1>1. s \in Stores /\ Listed(s)
  BY CleanedStore DEF StoreInv
<1>2. clock' = clock /\ clock \in Nat
  BY DEF Verify, StoreInv
<1>3. \A x \in DOMAIN store.verified : store.verified[x] > clock => x \in DOMAIN s.verified
  BY <1>2, CleanedKeepsLive DEF StoreInv
<1>4. CASE ~Judges(id, b)
  <2>1. store' = s /\ earned' = earned
    BY <1>4 DEF Verify
  <2> QED
    BY <1>2, <1>3, <2>1, KeepsRemembered
<1>5. CASE Judges(id, b) /\ ~right
  <2>1. store' = Failed(s, id) /\ earned' = earned /\ id \in DOMAIN s.challenges
    BY <1>5 DEF Verify, Judges
  <2> HIDE DEF s
  <2>2. store'.verified = s.verified
    BY <1>1, <2>1, FailedStore
  <2> QED
    BY <1>2, <1>3, <2>1, <2>2, KeepsRemembered
<1>6. CASE Judges(id, b) /\ right
  BY <1>6, SolvedKeepsRemembered
<1> QED
  BY <1>4, <1>5, <1>6

LEMMA CreateKeepsRemembered ==
  ASSUME StoreInv, Remembered, NEW b \in Binding, Create(b)
  PROVE  Remembered'
<1> DEFINE s == Cleaned(store, clock)
<1>1. s \in Stores /\ clock \in Nat /\ clock' = clock /\ earned' = earned
  BY CleanedStore DEF StoreInv, Create
<1>2. \A x \in DOMAIN store.verified : store.verified[x] > clock => x \in DOMAIN s.verified
  BY CleanedKeepsLive DEF StoreInv
<1>3. store'.verified = s.verified
  BY <1>1 DEF Create, Created, Stores
<1> QED
  BY <1>1, <1>2, <1>3, KeepsRemembered

LEMMA CleanUpKeepsRemembered ==
  ASSUME StoreInv, Remembered, NEW now \in Nat, now <= clock, CleanUp(now)
  PROVE  Remembered'
<1>1. ASSUME NEW x \in DOMAIN store.verified, store.verified[x] > clock PROVE x \in DOMAIN store'.verified
  <2>1. store.verified[x] \in Nat /\ clock \in Nat
    BY PartialMaps DEF StoreInv, Stores
  <2>2. store.verified[x] > now
    BY <1>1, <2>1
  <2> QED
    BY <2>2, CleanedKeepsLive DEF StoreInv, CleanUp
<1> QED
  BY <1>1, KeepsRemembered DEF CleanUp, StoreInv

EarnedInv == Remembered /\ NowPast

LEMMA EarnedInvStep ==
  ASSUME AccessInv, EarnedInv, [AccessNext]_accessVars
  PROVE  EarnedInv'
<1>1. /\ visit \in [Client -> Visits] /\ StoreInv /\ Remembered /\ NowPast
      /\ clock \in Nat
  BY DEF AccessInv, EarnedInv, StoreInv
<1>2. ASSUME clock' = clock, NEW c \in Client, NEW v, NowAt(c, v), v.at # "look again" \/ v.now = clock
      PROVE  NowPast'
  <2>1. visit'[c] = v /\ \A d \in Client \ {c} : visit'[d] = visit[d]
    BY <1>1, <1>2 DEF NowAt
  <2>2. clock <= clock
    BY <1>1
  <2> SUFFICES ASSUME NEW d \in Client, visit'[d].at = "look again" PROVE visit'[d].now <= clock
    BY <1>2 DEF NowPast
  <2>3. CASE d = c
    <3>1. visit'[d] = v
      BY <2>1, <2>3
    <3>2. v.now = clock
      BY <1>2, <3>1, Zenon
    <3>3. visit'[d].now = clock
      BY <3>1, <3>2
    <3> QED
      BY <2>2, <3>3, Zenon
  <2>4. CASE d # c
    BY <1>1, <2>1, <2>4 DEF NowPast
  <2> QED
    BY <2>3, <2>4
<1>3. Idle.at # "look again"
  BY DEF Idle
<1>4. ASSUME UNCHANGED storeVars PROVE Remembered'
  BY <1>1, <1>4, KeepsRemembered DEF storeVars
<1>5. ASSUME clock' = clock, NEW c \in Client, NEW held \in BOOLEAN, Decided(c, held) PROVE NowPast'
  <2>1. [at |-> "challenge", binding |-> LookedUp(c)].at # "look again"
    OBVIOUS
  <2> QED
    BY <1>2, <1>3, <1>5, <2>1 DEF Decided
<1>6. CASE AccessTick
  <2>1. clock' = clock + 1 /\ UNCHANGED <<store, earned, visit>>
    BY <1>6 DEF AccessTick
  <2>2. \A c \in Client : visit[c].at = "look again" => visit[c].now \in Nat
    BY <1>1 DEF Visits
  <2>3. Remembered'
    BY <1>1, <2>1, KeepsRemembered
  <2>4. NowPast'
    <3>1. \A n \in Nat : n <= clock => n <= clock'
      BY <1>1, <2>1
    <3> SUFFICES ASSUME NEW c \in Client, visit[c].at = "look again" PROVE visit[c].now <= clock'
      BY <2>1 DEF NowPast
    <3>2. visit[c].now \in Nat /\ visit[c].now <= clock
      BY <1>1, <2>2 DEF NowPast
    <3> QED
      BY <3>1, <3>2, Zenon
  <2> QED
    BY <2>3, <2>4 DEF EarnedInv
<1>7. ASSUME NEW c \in Client, Arrive(c) PROVE EarnedInv'
  <2>1. PICK page \in Page : NowAt(c, [at |-> "look", page |-> page])
    BY <1>7 DEF Arrive
  <2>2. [at |-> "look", page |-> page].at # "look again"
    OBVIOUS
  <2>3. clock' = clock /\ Remembered'
    BY <1>4, <1>7 DEF Arrive, storeVars
  <2> QED
    BY <1>2, <2>1, <2>2, <2>3 DEF EarnedInv
<1>8. ASSUME NEW c \in Client, Look(c) PROVE EarnedInv'
  <2> DEFINE v == [at |-> "look again", page |-> visit[c].page, now |-> clock]
  <2>1. v.now = clock
    OBVIOUS
  <2>2. HeldVerified(store, LookedUp(c), clock) \in BOOLEAN
    BY DEF HeldVerified
  <2>3. clock' = clock /\ Remembered'
    BY <1>4, <1>8 DEF Look, storeVars
  <2>4. NowAt(c, v) \/ Decided(c, HeldVerified(store, LookedUp(c), clock))
    BY <1>8 DEF Look
  <2> HIDE DEF v
  <2> QED
    BY <1>2, <1>5, <2>1, <2>2, <2>3, <2>4 DEF EarnedInv
<1>9. ASSUME NEW c \in Client, LookAgain(c) PROVE EarnedInv'
  <2>1. /\ CleanUp(visit[c].now) /\ visit[c].at = "look again"
        /\ Decided(c, HeldVerified(Cleaned(store, visit[c].now), LookedUp(c), visit[c].now))
    BY <1>9 DEF LookAgain
  <2>2. visit[c].now \in Nat /\ visit[c].now <= clock
    BY <1>1, <2>1 DEF NowPast, Visits
  <2>3. Remembered' /\ clock' = clock
    BY <1>1, <2>1, <2>2, CleanUpKeepsRemembered DEF CleanUp
  <2>4. HeldVerified(Cleaned(store, visit[c].now), LookedUp(c), visit[c].now) \in BOOLEAN
    BY DEF HeldVerified
  <2> QED
    BY <1>5, <2>1, <2>3, <2>4 DEF EarnedInv
<1>10. ASSUME NEW c \in Client, Challenge(c) PROVE EarnedInv'
  <2>1. visit[c].binding \in Binding
    BY <1>1, <1>10 DEF Challenge, Visits
  <2>2. Create(visit[c].binding) /\ NowAt(c, Idle) /\ clock' = clock
    BY <1>10 DEF Challenge, Create
  <2> QED
    BY <1>1, <1>2, <1>3, <2>1, <2>2, CreateKeepsRemembered DEF EarnedInv
<1>11. ASSUME NEW c \in Client, PostAgain(c) PROVE EarnedInv'
  <2>1. visit[c].right \in BOOLEAN
    BY <1>1, <1>11 DEF PostAgain, Visits
  <2>2. Verify(visit[c].id, visit[c].right, Place(c)) /\ NowAt(c, Idle) /\ clock' = clock
    BY <1>11 DEF PostAgain, Verify
  <2> QED
    BY <1>1, <1>2, <1>3, <2>1, <2>2, Bindings, VerifyKeepsRemembered DEF EarnedInv
<1>12. ASSUME NEW c \in Client, NEW id \in DOMAIN store.challenges, NEW right \in BOOLEAN, Post(c, id, right)
       PROVE  EarnedInv'
  <2> DEFINE v == [at |-> "post", id |-> id, right |-> right]
  <2>1. PICK b \in {GateBinding(c), Place(c)} :
          Verify(id, right, b) /\ NowAt(c, IF b # Place(c) /\ ~(Judges(id, b) /\ right) THEN v ELSE Idle)
    BY <1>12 DEF Post
  <2>2. v.at # "look again"
    OBVIOUS
  <2>3. clock' = clock /\ Remembered'
    BY <1>1, <2>1, Bindings, VerifyKeepsRemembered DEF Verify
  <2> HIDE DEF v
  <2>4. NowAt(c, v) \/ NowAt(c, Idle)
    BY <2>1
  <2> QED
    BY <1>2, <1>3, <2>2, <2>3, <2>4 DEF EarnedInv
<1>13. CASE UNCHANGED accessVars
  <2>1. UNCHANGED storeVars /\ UNCHANGED <<clock, visit>>
    BY <1>13 DEF accessVars, storeVars
  <2> QED
    BY <1>1, <1>4, <2>1 DEF EarnedInv, NowPast
<1> QED
  BY <1>6, <1>7, <1>8, <1>9, <1>10, <1>11, <1>12, <1>13 DEF AccessNext

\* A binding is held to be verified for an hour after its last right answer and
\* forgotten earlier only for MaxVerified others that solved theirs since, in
\* whatever order requests look, clean up, create, answer and evict.
THEOREM VerifiedIsEarned == AccessSpec => []VerifiedEarned
<1>1. AccessInit => EarnedInv
  <2> SUFFICES ASSUME AccessInit PROVE EarnedInv
    OBVIOUS
  <2>1. (\A b \in Binding : earned[b] = 0) /\ (\A c \in Client : visit[c].at = "idle")
    BY DEF AccessInit, StoreInit, Idle
  <2> QED
    BY <2>1 DEF EarnedInv, Remembered, NowPast
<1>2. AccessInv /\ EarnedInv /\ [AccessNext]_accessVars => EarnedInv'
  BY EarnedInvStep
<1>3. AccessInv /\ EarnedInv => VerifiedEarned
  BY DEF AccessInv, StoreInv, EarnedInv, Remembered, Later, VerifiedEarned
<1> QED
  BY <1>1, <1>2, <1>3, AccessInvHolds, PTL DEF AccessSpec
=============================================================================
