------------------------------ MODULE Routing -------------------------------
(***************************************************************************)
(* database.RouteResolver's precedence, next to the look-ups it replaced:  *)
(* GetRouteTargets asks the tables for each request, the resolver keeps    *)
(* maps and sorted lists of what Reload found in them.                     *)
(*                                                                         *)
(* The table is seen from one request, with a host and a path. A row is    *)
(* told by its type, by how it relates to them, by the length of what it   *)
(* matches with and by whether it has a target; which strings a wildcard   *)
(* or a regular expression matches is left out. Both sides see active rows *)
(* only.                                                                   *)
(***************************************************************************)
EXTENDS Orders, SequencesExt

CONSTANT MaxRoutes  \* bound: rows of the table

ASSUME RoutingAssumption == MaxRoutes \in Nat

VARIABLE routes  \* the rows of the table in the order of their ids

\* A domain that is the request's host in any case of letters, that is so only
\* without its port or its final dot, or is not; a wildcard or regular expression
\* that matches it or does not, or is spelled like it; a prefix of the request's
\* path, what SQL's LIKE takes for one (it ignores case and has wildcards), or
\* neither. A length is told where it is compared.
Rows ==
  [type : {"domain"}, relation : {"matches", "untrimmed", "differs"}, length : {1}, usable : BOOLEAN]
  \cup [type : {"pattern", "path"}, relation : {"matches"}, length : 1 .. 2, usable : BOOLEAN]
  \cup [type : {"pattern", "path"}, relation : {"differs"}, length : {1}, usable : BOOLEAN]
  \cup [type : {"pattern"}, relation : {"alike"}, length : 1 .. 2, usable : BOOLEAN]
  \cup [type : {"path"}, relation : {"LIKE"}, length : 1 .. 2, usable : BOOLEAN]

RoutesTypeOK == routes \in Seq(Rows) /\ Len(routes) <= MaxRoutes

RoutesInit == routes = << >>

\* Two prefixes of one path that are equally long are one row.
SameRow(r, s) == r.type = "path" /\ r.relation = "matches" /\ [r EXCEPT !.usable = s.usable] = s

\* applySnapshotToDB inserts routes in the order of a map, that is, in any.
InsertRoute(row) ==
  /\ Len(routes) < MaxRoutes
  /\ \A i \in DOMAIN routes : ~SameRow(row, routes[i])
  /\ routes' = Append(routes, row)

RoutesNext == \E row \in Rows : InsertRoute(row)

RoutesSpec == RoutesInit /\ [][RoutesNext]_routes
-----------------------------------------------------------------------------
(* Either way of resolving returns the position of a row, or 0 for         *)
(* ErrNoRows.                                                              *)

Of(type) == {i \in DOMAIN routes : routes[i].type = type}

\* Mutant: the order of the ids alone.
OldestFirst(ids) == Ascending(ids)

\* The order of patterns and paths: by length, then by id.
LongestFirst(ids) ==
  Sorted(ids, {p \in ids \X ids :
    \/ routes[p[1]].length > routes[p[2]].length
    \/ routes[p[1]].length = routes[p[2]].length /\ p[1] < p[2]})

\* What the resolver finds: it normalizes stored domains and compares prefixes.
Finds(i) == routes[i].relation \in {"matches", "untrimmed"}

\* loadRouteSnapshot: of domains that are the same when normalized the first counts.
RouteSnapshot ==
  [exact |-> Ascending(Of("domain")),
   patterns |-> LongestFirst(Of("pattern")),
   paths |-> LongestFirst(Of("path"))]

\* The first row of a list that matches, if it is usable: a list is not
\* searched any further.
First(list) ==
  LET found == SelectInSeq(list, Finds)
  IN IF found # 0 /\ routes[list[found]].usable THEN list[found] ELSE 0

\* RouteResolver.Resolve
Resolve ==
  LET exact == First(RouteSnapshot.exact)
      pattern == First(RouteSnapshot.patterns)
  IN IF exact # 0 THEN exact ELSE IF pattern # 0 THEN pattern ELSE First(RouteSnapshot.paths)

\* GetRouteTargets takes the row one query finds, or goes on to the next query.
\* findRouteByDomain does not say which of several rows it wants, findRouteByPath
\* not which of equally long ones.
Chosen(best, otherwise) ==
  {i \in best : routes[i].usable} \cup
    (IF best = {} \/ \E i \in best : ~routes[i].usable THEN otherwise ELSE {})

\* What a query finds: it compares domains as they are stored, and paths by LIKE.
Matching(type) == {i \in Of(type) : routes[i].relation \in {"matches", "LIKE"}}

Longest(ids) == {i \in ids : \A j \in ids : routes[i].length >= routes[j].length}
FirstId(ids) == {i \in ids : \A j \in ids : i <= j}

LegacyRoutes ==
  Chosen(Matching("domain"),
    Chosen(FirstId(Longest(Matching("pattern"))),
      Chosen(Longest(Matching("path")), {0})))
-----------------------------------------------------------------------------
\* The resolver chooses what the look-ups would have chosen, for every table
\* without rows that one of the two finds and the other does not, and whatever
\* has no target, which is what TestRouteResolverMatchesDatabaseResolution tries
\* for one table.
ResolvesLikeLegacy ==
  (\A i \in DOMAIN routes : routes[i].relation \notin {"untrimmed", "LIKE"}) =>
    Resolve \in LegacyRoutes
=============================================================================
