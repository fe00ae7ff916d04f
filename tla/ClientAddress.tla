--------------------------- MODULE ClientAddress ----------------------------
(***************************************************************************)
(* clientip.Resolver, and the way of a request to it: a client or a proxy  *)
(* nobody trusts connects and sends any forwarding headers it likes;       *)
(* trusted proxies pass the request on and append the address they were    *)
(* connected from to one of the headers or to both.                        *)
(*                                                                         *)
(* A header is the sequence of its elements, of which only the address     *)
(* counts; one that does not parse is Malformed. No elements: no header.   *)
(* Headers stay below the 8 KiB at which they are refused too.             *)
(***************************************************************************)
EXTENDS Naturals, Sequences, SequencesExt

CONSTANTS
  Trusted,         \* trusted proxies' addresses
  Untrusted,       \* other addresses
  Malformed,       \* what is no address
  MaxForwarded,    \* maxForwardedAddresses: 64
  MaxForged,       \* bound: elements of a header a client sends
  MaxHops          \* bound: trusted proxies on the way

ASSUME AddressAssumption ==
  /\ Trusted \cap Untrusted = {} /\ Malformed \notin Trusted \cup Untrusted
  /\ MaxForwarded \in Nat \ {0} /\ MaxForged \in Nat /\ MaxHops \in Nat

VARIABLES
  peer,        \* whose connection the request arrives on: RemoteAddr
  forwarded,   \* Forwarded
  xff,         \* X-Forwarded-For
  hops,
  origin,      \* history: the last who connected without being trusted
  forged,      \* history: did it send forwarding headers
  extended     \* history: which headers the trusted proxies extended

addressVars == <<peer, forwarded, xff, hops, origin, forged, extended>>

Element == Trusted \cup Untrusted \cup {Malformed}
Forged == UNION {[1 .. n -> Element] : n \in 0 .. MaxForged}

AddressTypeOK ==
  /\ peer \in Trusted \cup Untrusted /\ origin \in Untrusted
  /\ forwarded \in Seq(Element) /\ xff \in Seq(Element)
  /\ hops \in 0 .. MaxHops
  /\ forged \in BOOLEAN /\ extended \subseteq SUBSET {"Forwarded", "XFF"}

\* The request comes from an address nobody vouches for, with what it sends.
AddressInit ==
  /\ origin \in Untrusted
  /\ peer = origin
  /\ forwarded \in Forged /\ xff \in Forged
  /\ hops = 0
  /\ forged = (forwarded # << >> \/ xff # << >>)
  /\ extended = {}

\* A trusted proxy passes it on.
Forward(p, inForwarded, inXff) ==
  /\ hops < MaxHops
  /\ inForwarded \/ inXff
  /\ peer' = p
  /\ forwarded' = IF inForwarded THEN Append(forwarded, peer) ELSE forwarded
  /\ xff' = IF inXff THEN Append(xff, peer) ELSE xff
  /\ hops' = hops + 1
  /\ extended' = extended \cup
       {{h \in {"Forwarded", "XFF"} : IF h = "XFF" THEN inXff ELSE inForwarded}}
  /\ UNCHANGED <<origin, forged>>

AddressNext ==
  \E p \in Trusted, inForwarded, inXff \in BOOLEAN : Forward(p, inForwarded, inXff)

AddressSpec == AddressInit /\ [][AddressNext]_addressVars
-----------------------------------------------------------------------------
\* parseForwarded and parseXForwardedFor refuse a header as a whole.
Parses(header) == Len(header) <= MaxForwarded /\ Malformed \notin ToSet(header)

\* Mutant: the header that parses is believed when the other one does not agree.
ChainOfEither ==
  IF forwarded # << >> /\ Parses(forwarded) THEN forwarded
  ELSE IF Parses(xff) THEN xff ELSE << >>

\* The chain of addresses both headers agree on, or none.
Chain ==
  IF ~Parses(forwarded) \/ ~Parses(xff) THEN << >>
  ELSE IF forwarded = << >> \/ forwarded = xff THEN xff
  ELSE IF xff = << >> THEN forwarded
  ELSE << >>

\* ClientIP: the last address of the chain that is not trusted, if the peer is.
ClientIP ==
  LET others == {i \in 1 .. Len(Chain) : Chain[i] \notin Trusted}
  IN IF peer \notin Trusted \/ others = {} THEN peer
     ELSE Chain[CHOOSE i \in others : \A j \in others : j <= i]
-----------------------------------------------------------------------------
\* Whatever a client sends, its request is taken to come from where it did come
\* from or, when the headers contradict each other or do not parse, from the
\* proxy that delivered it. It is never the proxy if the client sent no headers
\* and all proxies extended the same ones. (Proxies that extend different headers
\* make them contradict each other without anybody's forging.)
AddressVouched ==
  /\ ClientIP \in {origin, peer}
  /\ hops > 0 /\ Chain # << >> => ClientIP = origin
  /\ hops > 0 /\ hops <= MaxForwarded /\ ~forged /\ (\A e, f \in extended : e = f) =>
       ClientIP = origin
=============================================================================
