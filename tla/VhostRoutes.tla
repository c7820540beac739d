----------------------------- MODULE VhostRoutes -----------------------------
(***************************************************************************)
(* The table of virtual host routes (pkg/util/vhost/router.go): for every  *)
(* domain and HTTP user a list of locations, searched for the first one    *)
(* that is a prefix of the path.  A domain is a sequence of labels, of     *)
(* which the first may be a wildcard; a location is a sequence of numbers, *)
(* the codes of its characters.                                            *)
(***************************************************************************)
EXTENDS Integers, Sequences, FiniteSets, SequencesExt, TLC

CONSTANTS Domains, Locations, Users,    \* of the routes
          Hosts, Paths,                 \* of the requests
          AllUsers,                     \* the empty routeByHTTPUser
          Star,                         \* the wildcard label
          MaxRoutes                     \* bound: routes at a time

VARIABLE routers    \* indexByDomain: domain -> user -> sequence of locations

RoutesTypeOK == routers \in [Domains -> [Users -> Seq(Locations)]]

RoutesInit == routers = [d \in Domains |-> [u \in Users |-> <<>>]]

\* cmp.Compare of strings.
Less(a, b) ==
    \/ IsStrictPrefix(a, b)
    \/ \E i \in DOMAIN a \cap DOMAIN b : a[i] < b[i] /\ \A j \in 1..i - 1 : a[j] = b[j]

Greater(a, b) == Less(b, a)

Registered == {r \in [domain : Domains, location : Locations, user : Users] :
                 Contains(routers[r.domain][r.user], r.location)}

NewRoute(d, l, u) == ~Contains(routers[d][u], l) /\ Cardinality(Registered) < MaxRoutes

\* Add; a route that is there already is refused.
Add(d, l, u) ==
    /\ NewRoute(d, l, u)
    /\ routers' = [routers EXCEPT ![d][u] = SortSeq(Append(@, l), Greater)]

Del(d, l, u) ==
    /\ routers' = [routers EXCEPT ![d][u] = SelectSeq(@, LAMBDA x : x # l)]
    /\ Contains(routers[d][u], l)

RoutesNext == \E d \in Domains, l \in Locations, u \in Users : Add(d, l, u) \/ Del(d, l, u)

RoutesSpec == RoutesInit /\ [][RoutesNext]_routers

-----------------------------------------------------------------------------
(* Lookups.                                                                *)

Route(d, l, u) == [domain |-> d, location |-> l, user |-> u]
NoRoute == Route(<<>>, <<>>, AllUsers)

\* getLocked
GetLocked(d, path, u) ==
    LET vrs   == IF d \in Domains /\ u \in Users THEN routers[d][u] ELSE <<>>
        found == {i \in DOMAIN vrs : IsPrefix(vrs[i], path)}
    IN IF found = {} THEN NoRoute
         ELSE Route(d, vrs[CHOOSE i \in found : \A j \in found : i <= j], u)

\* getExactOrAllUsersLocked
GetExactOrAllUsers(d, path, u) ==
    LET exact == GetLocked(d, path, u) IN
    IF exact # NoRoute THEN exact ELSE GetLocked(d, path, AllUsers)

\* The domains getByRoute tries: the host, the host with its first labels
\* replaced by the wildcard as long as two labels are left, any host.
Tried(host) ==
    <<host>> \o [i \in 1..(IF Len(host) > 2 THEN Len(host) - 2 ELSE 0) |->
                   <<Star>> \o SubSeq(host, i + 1, Len(host))] \o << <<Star>> >>

GetByRoute(host, path, u) ==
    LET hits == SelectSeq([i \in 1..Len(Tried(host)) |-> GetExactOrAllUsers(Tried(host)[i], path, u)],
                          LAMBDA r : r # NoRoute)
    IN IF hits = <<>> THEN NoRoute ELSE hits[1]

-----------------------------------------------------------------------------
(* Properties.                                                             *)

Covers(domain, host) ==
    \/ domain = host \/ domain = <<Star>>
    \/ /\ Len(domain) >= 3 /\ domain[1] = Star
       /\ Len(host) >= Len(domain) /\ IsSuffix(Tail(domain), host)

Matches(r, host, path, u) ==
    Covers(r.domain, host) /\ IsPrefix(r.location, path) /\ r.user \in {u, AllUsers}

\* Exact domains before wildcards, longer wildcards before shorter ones; then the
\* user's own routes before everybody's; then the longest location.
Better(r, s, host) ==
    LET domainRank(t) == IF t.domain = host THEN 1000 ELSE Len(t.domain)
    IN \/ domainRank(r) > domainRank(s)
       \/ /\ r.domain = s.domain
          /\ \/ r.user # AllUsers /\ s.user = AllUsers
             \/ r.user = s.user /\ Len(r.location) > Len(s.location)

\* A request gets the most specific of all the registered routes that match it,
\* and a route whenever one matches, in whatever order routes were added and
\* removed (router.go:116-156; the lists are sorted by location, not by length).
BestRoute ==
    \A host \in Hosts, path \in Paths, u \in Users :
       LET got     == GetByRoute(host, path, u)
           matches == {r \in Registered : Matches(r, host, path, u)}
       IN IF matches = {} THEN got = NoRoute
            ELSE got \in matches /\ \A r \in matches : r = got \/ Better(got, r, host)
=============================================================================
