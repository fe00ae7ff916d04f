------------------------------- MODULE Access -------------------------------
(***************************************************************************)
(* Who is let through to the upstreams: sessions (auth), the zero-trust    *)
(* gate of the request handler, its error pages and the verify endpoint,   *)
(* all of which use the challenge store. A client is a browser with one    *)
(* request on its way at a time; clients share addresses and users.        *)
(*                                                                         *)
(* The handler takes the store's lock for one look or one operation at a   *)
(* time; everything else happens between them.                             *)
(***************************************************************************)
EXTENDS ChallengeStore

CONSTANTS
  Client, Address, User, NoUser,
  AddressOf, UserOf,   \* where a client connects from, and as whom
  MaxTime              \* bound: the clock

ASSUME AccessAssumption ==
  /\ AddressOf \in [Client -> Address] /\ UserOf \in [Client -> User]
  /\ NoUser \notin User /\ Binding = Address \X (User \cup {NoUser})
  /\ MaxTime \in Nat

VARIABLE visit  \* where each client's request is

accessVars == <<storeVars, visit>>

\* Why the handler looks at the store: to open the gate to a user of whom a
\* challenge is demanded, or for an error page. It looks for other users too and
\* opens the gate whatever it finds, which is left out.
Page == {"gate", "error"}

Idle == [at |-> "idle"]
Visits ==
  [at : {"idle"}] \cup [at : {"post"}, id : Id, right : BOOLEAN]
  \cup [at : {"look"}, page : Page] \cup [at : {"look again"}, page : Page, now : Nat]
  \cup [at : {"challenge"}, binding : Binding]

AccessTypeOK ==
  /\ StoreTypeOK
  /\ visit \in [Client -> Visits]

AccessInit ==
  /\ StoreInit
  /\ visit = [c \in Client |-> Idle]

NowAt(c, v) == visit' = [visit EXCEPT ![c] = v]

Place(c) == <<AddressOf[c], NoUser>>

\* Mutant: everybody behind one address has one binding.
GateBindingOfAddress(c) == Place(c)

\* zeroTrustChallengeBinding of an authenticated request.
GateBinding(c) == <<AddressOf[c], UserOf[c]>>

\* The handler up to its look at the store. auth.Check finds a user or nobody:
\* then the client is sent to the login page or, if it wants JSON, gets an error
\* page. Later errors get one too.
Arrive(c) ==
  /\ visit[c].at = "idle"
  /\ \E page \in Page : NowAt(c, [at |-> "look", page |-> page])
  /\ UNCHANGED storeVars

LookedUp(c) == IF visit[c].page = "error" THEN Place(c) ELSE GateBinding(c)

\* RequireZeroTrustChallenge, and writeError, which challenges a client only if
\* it is suspicious.
Decided(c, verified) ==
  \/ /\ verified \/ visit[c].page = "error"
     /\ NowAt(c, Idle)
  \/ /\ ~verified
     /\ NowAt(c, [at |-> "challenge", binding |-> LookedUp(c)])

\* IsVerified under the read lock.
Look(c) ==
  /\ visit[c].at = "look"
  /\ IF LookedUp(c) \in DOMAIN store.verified /\ ~HeldVerified(store, LookedUp(c), clock)
     THEN NowAt(c, [at |-> "look again", page |-> visit[c].page, now |-> clock])
     ELSE Decided(c, HeldVerified(store, LookedUp(c), clock))
  /\ UNCHANGED storeVars

\* IsVerified under the write lock, with the time of its first look.
LookAgain(c) ==
  /\ visit[c].at = "look again"
  /\ LET now == visit[c].now IN
       /\ CleanUp(now)
       /\ Decided(c, HeldVerified(Cleaned(store, now), LookedUp(c), now))

\* writeZeroTrustChallenge, or the challenge of an error page.
Challenge(c) ==
  /\ visit[c].at = "challenge"
  /\ Create(visit[c].binding)
  /\ NowAt(c, Idle)

\* The verify endpoint: an answer to any challenge there is, for the client's
\* binding ...
Post(c, id, right) ==
  /\ visit[c].at = "idle"
  /\ \E b \in {GateBinding(c), Place(c)} :
       /\ Verify(id, right, b)
       /\ NowAt(c, IF b # Place(c) /\ ~(Judges(id, b) /\ right)
                THEN [at |-> "post", id |-> id, right |-> right] ELSE Idle)

\* ... and, if that fails, for its address.
PostAgain(c) ==
  /\ visit[c].at = "post"
  /\ Verify(visit[c].id, visit[c].right, Place(c))
  /\ NowAt(c, Idle)

AccessTick ==
  /\ clock < MaxTime
  /\ clock' = clock + 1
  /\ UNCHANGED <<store, lastId, judged, solved, earned, visit>>

AccessNext ==
  \/ AccessTick
  \/ \E c \in Client :
       \/ Arrive(c) \/ Look(c) \/ LookAgain(c) \/ Challenge(c) \/ PostAgain(c)
       \/ \E id \in DOMAIN store.challenges, right \in BOOLEAN : Post(c, id, right)

AccessSpec == AccessInit /\ [][AccessNext]_accessVars
-----------------------------------------------------------------------------
\* Whoever passes the gate under zero trust has solved, as this user and from
\* this address, a challenge that still counted when its request came to the
\* gate, however many others share the address or the user.
GateEarned ==
  [][\A c \in Client :
       visit[c].at \in {"look", "look again"} /\ visit[c].page = "gate" /\ visit'[c] = Idle =>
         LET solvedAt == earned[<<AddressOf[c], UserOf[c]>>]
             since == IF visit[c].at = "look" THEN clock ELSE visit[c].now
         IN solvedAt # 0 /\ since < solvedAt + VerificationTTL]_accessVars
=============================================================================
