----------------------------- MODULE ServicesMC -----------------------------
(***************************************************************************)
(* A small instance of Services for TLC. The services share no variable,   *)
(* so a behaviour of all of them is an interleaving of one of each         *)
(* (ServicesProofs, ServicesAreApart), and a property of one of them sees  *)
(* its own steps only: TLC looks at one at a time.                         *)
(***************************************************************************)
EXTENDS Services

VARIABLE service  \* the one that is looked at

\* A request there need not be another of when its address is not looked at.
AnyRequest ==
  peer = (CHOOSE a \in Untrusted : TRUE) /\ forwarded = << >> /\ xff = << >>

OneInit ==
  /\ Init
  /\ service \in {"rate", "worker", "access", "cache", "rules", "routes", "address"}
  /\ service = "address" \/ AnyRequest

OneNext ==
  /\ \/ service = "rate" /\ Rate
     \/ service = "worker" /\ Classifier
     \/ service = "access" /\ Admission
     \/ service = "cache" /\ Cache
     \/ service = "rules" /\ Rules
     \/ service = "routes" /\ Routes
     \/ service = "address" /\ Addresses
  /\ UNCHANGED service

OneService == OneInit /\ [][OneNext]_<<vars, service>> /\ WorkerFairness

\* Two clients behind one address are two users.
OneAddress == [c \in Client |-> "a"]
TwoUsers == [c \in Client |-> IF c = "c1" THEN "u" ELSE "v"]
Bindings == Address \X (User \cup {NoUser})

\* A rule may be called what the second of its name is renamed to.
Names == {<<1>>, <<1, 2>>}
=============================================================================
