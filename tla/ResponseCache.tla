--------------------------- MODULE ResponseCache ----------------------------
(***************************************************************************)
(* cache.Store, and the request handler around it: the rules, the route,   *)
(* the cache and the upstream are asked in this order, one step each, and  *)
(* a response is stored when its body has ended. Nobody flushes the cache  *)
(* when the configuration changes.                                         *)
(*                                                                         *)
(* The requests are for pages of one domain and such as may be answered    *)
(* from a shared cache (isRequestCacheableForSharedStore); of a response   *)
(* only its lifetime is told, 0 standing for one that may not be shared.   *)
(***************************************************************************)
EXTENDS Integers, Sequences, FiniteSets, SequencesExt

CONSTANTS
  Fetch,         \* handlers at work at a time
  Url,           \* values of CacheKey
  MaxEntries,    \* 1024 in the code
  StoreTTL,      \* 60 seconds, in units
  Second,        \* units in a second; a unit is a nanosecond in the code
  Wrap,          \* a duration is an integer modulo Wrap; 2^64 in the code
  Lifetimes,     \* the seconds responses declare
  CacheHorizon   \* bound: the clock

\* NewStore replaces what is not positive by a default.
ASSUME CacheAssumption ==
  /\ {MaxEntries, StoreTTL, Second, Wrap} \subseteq Nat \ {0}
  /\ StoreTTL < Wrap \div 2
  /\ Lifetimes \subseteq Nat /\ CacheHorizon \in Nat

VARIABLES
  lru,         \* Store.ll, the most recently used entry first; items is its index
  fetch,       \* where each handler is
  open,        \* what lets requests through now, of {"rules", "route"}
  chance,      \* history: what has let requests through since each one's arrival
  cacheClock

cacheVars == <<lru, fetch, open, chance, cacheClock>>

Gates == {"rules", "route"}
At == [idle |-> [at |-> "idle"], rules |-> [at |-> "rules"], route |-> [at |-> "route"],
       lookup |-> [at |-> "lookup"]]

Entry == [url : Url, expires : Nat, stored : Nat, declared : Lifetimes]

CacheTypeOK ==
  /\ lru \in Seq(Entry)
  /\ fetch \in [Fetch -> [at : {"idle", "rules", "route", "lookup"}] \cup [at : {"proxying"}, url : Url]
                         \cup [at : {"streaming"}, url : Url, declared : Lifetimes]]
  /\ open \subseteq Gates
  /\ chance \in [Fetch -> SUBSET Gates]
  /\ cacheClock \in Nat

CacheInit ==
  /\ lru = << >>
  /\ fetch = [f \in Fetch |-> At.idle]
  /\ open = Gates
  /\ chance = [f \in Fetch |-> {}]
  /\ cacheClock = 0
-----------------------------------------------------------------------------
\* A product of two durations, as a machine computes it.
Machine(n) == ((n + Wrap \div 2) % Wrap) - Wrap \div 2

\* Mutant: what exceeds the store's lifetime is not cut.
SharedTTLWhole(declared) == Machine(declared * Second)

\* sharedCacheTTL of a max-age; SetWithTTL refuses what is not positive.
SharedTTL(declared) ==
  LET ttl == Machine(declared * Second) IN IF ttl < StoreTTL THEN ttl ELSE StoreTTL

\* The list without a page's entry.
Others(url) ==
  LET places == {i \in 1 .. Len(lru) : lru[i].url = url}
  IN IF places = {} THEN lru ELSE RemoveAt(lru, CHOOSE i \in places : TRUE)

Found(url) == {e \in ToSet(lru) : e.url = url}

\* SetWithTTL: the entry comes first, and the last one makes room for a new one.
Stored(e) ==
  LET list == <<e>> \o Others(e.url)
  IN IF Len(list) > MaxEntries THEN Front(list) ELSE list

Goes(f, where) == fetch' = [fetch EXCEPT ![f] = where]

\* A request comes in.
Request(f) ==
  /\ fetch[f] = At.idle
  /\ Goes(f, At.rules)
  /\ chance' = [chance EXCEPT ![f] = open]
  /\ UNCHANGED <<lru, open, cacheClock>>

\* The rules: a request they block is answered with an error.
AskRules(f) ==
  /\ fetch[f] = At.rules
  /\ Goes(f, IF "rules" \in open THEN At.route ELSE At.idle)
  /\ UNCHANGED <<lru, open, chance, cacheClock>>

\* Mutant: the route is not asked for.
AskNoRoute(f) ==
  /\ fetch[f] = At.route
  /\ Goes(f, At.lookup)
  /\ UNCHANGED <<lru, open, chance, cacheClock>>

\* The route: without one the request is answered with an error.
AskRoute(f) ==
  /\ fetch[f] = At.route
  /\ Goes(f, IF "route" \in open THEN At.lookup ELSE At.idle)
  /\ UNCHANGED <<lru, open, chance, cacheClock>>

\* Get: a hit moves to the front and is the response; an entry that has
\* expired is removed.
Hit(f, e) ==
  /\ fetch[f] = At.lookup
  /\ e \in Found(e.url) /\ cacheClock <= e.expires
  /\ lru' = <<e>> \o Others(e.url)
  /\ Goes(f, At.idle)
  /\ UNCHANGED <<open, chance, cacheClock>>

Miss(f, url) ==
  /\ fetch[f] = At.lookup
  /\ \A e \in Found(url) : cacheClock > e.expires
  /\ lru' = Others(url)
  /\ Goes(f, [at |-> "proxying", url |-> url])
  /\ UNCHANGED <<open, chance, cacheClock>>

\* The upstream's header: the body is captured if the response may be shared.
Respond(f, declared) ==
  /\ fetch[f].at = "proxying"
  /\ Goes(f, IF declared = 0 THEN At.idle
             ELSE [at |-> "streaming", url |-> fetch[f].url, declared |-> declared])
  /\ UNCHANGED <<lru, open, chance, cacheClock>>

\* The body ends: CaptureOnEOF's callback ...
Complete(f) ==
  /\ fetch[f].at = "streaming"
  /\ LET ttl == SharedTTL(fetch[f].declared)
     IN lru' = IF ttl <= 0 THEN lru
               ELSE Stored([url |-> fetch[f].url, expires |-> cacheClock + ttl,
                            stored |-> cacheClock, declared |-> fetch[f].declared])
  /\ Goes(f, At.idle)
  /\ UNCHANGED <<open, chance, cacheClock>>

\* ... which is not called for one that breaks off or is too long.
BreakOff(f) ==
  /\ fetch[f].at = "streaming"
  /\ Goes(f, At.idle)
  /\ UNCHANGED <<lru, open, chance, cacheClock>>

\* The applier publishes other rules or other routes.
Reconfigure(gate) ==
  /\ open' = IF gate \in open THEN open \ {gate} ELSE open \cup {gate}
  /\ chance' = [f \in Fetch |-> chance[f] \cup open']
  /\ UNCHANGED <<lru, fetch, cacheClock>>

CacheTick ==
  /\ cacheClock < CacheHorizon
  /\ cacheClock' = cacheClock + 1
  /\ UNCHANGED <<lru, fetch, open, chance>>

CacheNext ==
  \/ CacheTick
  \/ \E gate \in Gates : Reconfigure(gate)
  \/ \E f \in Fetch :
       \/ Request(f) \/ AskRules(f) \/ AskRoute(f) \/ Complete(f) \/ BreakOff(f)
       \/ \E e \in ToSet(lru) : Hit(f, e)
       \/ \E url \in Url : Miss(f, url)
       \/ \E declared \in Lifetimes \cup {0} : Respond(f, declared)

CacheSpec == CacheInit /\ [][CacheNext]_cacheVars
-----------------------------------------------------------------------------
\* Properties.

\* A page is in the cache once, and never more pages than allowed, and no hit
\* is older than what the response declared and than the store's limit, also
\* for lifetimes that overflow a duration. Routes and rules may have changed
\* meanwhile: what was stored is served until then.
HitFresh ==
  /\ Len(lru) <= MaxEntries
  /\ \A i, j \in 1 .. Len(lru) : lru[i].url = lru[j].url => i = j
  /\ \A e \in ToSet(lru) :
       cacheClock <= e.expires =>
         cacheClock - e.stored <= StoreTTL /\ cacheClock - e.stored <= e.declared * Second

\* No page is served from the cache to a request that came in after the rules
\* or the route had been withdrawn for good.
WithdrawnNotServed ==
  [][\A f \in Fetch : fetch[f] = At.lookup /\ fetch'[f] = At.idle => chance[f] = Gates]_cacheVars
=============================================================================
