----------------------------- MODULE VhostGroups -----------------------------
(***************************************************************************)
(* A load-balancing group of proxies that share one virtual host route     *)
(* (server/group: registry, base, listener, https, tcpmux, http), and the  *)
(* user connections that reach it: through the muxer's listener and the    *)
(* group's worker (https, tcpmux; pkg/util/vhost/vhost.go), or by the      *)
(* reverse proxy's choice of an endpoint (http; pkg/util/vhost/http.go).   *)
(* The group object is made by the first proxy and dropped with the last   *)
(* one, so that a proxy may hold an object that has left the registry.     *)
(***************************************************************************)
EXTENDS Integers, FiniteSets

CONSTANTS Proxies, Conns,
          MaxGroups,    \* bound: group objects
          Nobody        \* no proxy, no connection

Groups == 1..MaxGroups

VARIABLES kind,         \* "mux" or "http"
          current,      \* the group object in the registry, 0 for none
          made,         \* group objects made
          route,        \* the object the route leads to, 0 for none
          members,      \* object -> proxies
          mu,           \* object -> the proxy that is closing under its mutex
          ch, ln,       \* object -> acceptCh, accept channel of its muxer listener
          worker,       \* object -> "off", "accept", "ended" or the connection it holds
          pxy,          \* proxy -> [step, ref]
          accepting,    \* proxies whose accept loop runs
          conn,         \* connection -> [step, at, by]
          refused       \* a proxy found the route of its own group taken

gvars == <<kind, current, made, route, members, mu, ch, ln, worker, pxy, accepting, conn, refused>>

Chan == {"none", "open", "closed"}

GroupsTypeOK ==
    /\ kind \in {"mux", "http"} /\ current \in 0..MaxGroups /\ made \in 0..MaxGroups
    /\ route \in 0..MaxGroups
    /\ members \in [Groups -> SUBSET Proxies] /\ mu \in [Groups -> Proxies \cup {Nobody}]
    /\ ch \in [Groups -> Chan] /\ ln \in [Groups -> Chan]
    /\ worker \in [Groups -> {"off", "accept", "ended"} \cup Conns]
    /\ pxy \in [Proxies -> [step : {"off", "listen", "on", "closing", "last", "route", "cleanup"},
                            ref : 0..MaxGroups]]
    /\ accepting \subseteq Proxies
    /\ conn \in [Conns -> [step : {"none", "routed", "send", "worker", "chosen", "served",
                                   "closed", "dropped"},
                           at : 0..MaxGroups, by : Proxies \cup {Nobody}]]
    /\ refused \in BOOLEAN

GroupsInit ==
    /\ kind \in {"mux", "http"} /\ current = 0 /\ made = 0 /\ route = 0
    /\ members = [g \in Groups |-> {}] /\ mu = [g \in Groups |-> Nobody]
    /\ ch = [g \in Groups |-> "none"] /\ ln = [g \in Groups |-> "none"]
    /\ worker = [g \in Groups |-> "off"]
    /\ pxy = [p \in Proxies |-> [step |-> "off", ref |-> 0]] /\ accepting = {}
    /\ conn = [c \in Conns |-> [step |-> "none", at |-> 0, by |-> Nobody]]
    /\ refused = FALSE

-----------------------------------------------------------------------------
(* Joining.                                                                *)

listenVars == <<route, members, ch, ln, worker, accepting>>

\* getOrCreate
GetOrCreate(p) ==
    /\ pxy[p].step = "off"
    /\ IF current = 0
         THEN made < MaxGroups /\ made' = made + 1 /\ current' = made'
         ELSE UNCHANGED <<made, current>>
    /\ pxy' = [pxy EXCEPT ![p] = [step |-> "listen", ref |-> current']]
    /\ UNCHANGED <<kind, listenVars, mu, conn, refused>>

\* The first proxy takes the route and starts the worker.
ListensFirst(p, g) ==
    /\ route' = g /\ members' = [members EXCEPT ![g] = {p}]
    /\ IF kind = "mux"
         THEN /\ ch' = [ch EXCEPT ![g] = "open"] /\ ln' = [ln EXCEPT ![g] = "open"]
              /\ worker' = [worker EXCEPT ![g] = "accept"] /\ accepting' = accepting \cup {p}
         ELSE UNCHANGED <<ch, ln, worker, accepting>>

Joins(p, g) ==
    /\ members' = [members EXCEPT ![g] = @ \cup {p}]
    /\ accepting' = IF kind = "mux" THEN accepting \cup {p} ELSE accepting
    /\ UNCHANGED <<route, ch, ln, worker>>

\* A Listen that does not look whether its object has left the registry.
ListenUnchecked(p) ==
    LET g == pxy[p].ref IN
    /\ pxy[p].step = "listen" /\ mu[g] = Nobody
    /\ IF members[g] = {} /\ route # 0
         THEN /\ pxy' = [pxy EXCEPT ![p].step = "off"] /\ refused' = TRUE /\ UNCHANGED listenVars
         ELSE /\ IF members[g] = {} THEN ListensFirst(p, g) ELSE Joins(p, g)
              /\ pxy' = [pxy EXCEPT ![p].step = "on"] /\ UNCHANGED refused
    /\ UNCHANGED <<kind, current, made, mu, conn>>

\* Listen (https, tcpmux) or Register (http), all of it under the object's
\* mutex.  An object that has left the registry sends the proxy back to
\* getOrCreate; a key or route that differs from the group's is an error.
Listen(p) ==
    LET g == pxy[p].ref IN
    /\ pxy[p].step = "listen" /\ mu[g] = Nobody
    /\ \/ /\ current # g \/ members[g] # {}
          /\ pxy' = [pxy EXCEPT ![p].step = "off"] /\ UNCHANGED <<listenVars, refused>>
       \/ /\ current = g /\ members[g] = {} /\ route # 0
          /\ pxy' = [pxy EXCEPT ![p].step = "off"] /\ refused' = TRUE /\ UNCHANGED listenVars
       \/ /\ current = g
          /\ \/ members[g] = {} /\ route = 0 /\ ListensFirst(p, g)
             \/ members[g] # {} /\ Joins(p, g)
          /\ pxy' = [pxy EXCEPT ![p].step = "on"] /\ UNCHANGED refused
    /\ UNCHANGED <<kind, current, made, mu, conn>>

-----------------------------------------------------------------------------
(* Leaving.                                                                *)

\* Listener.Close closes closeCh; HTTPProxy.Close calls UnRegister, which asks
\* the registry for the object again.
CloseStarts(p) ==
    /\ pxy[p].step = "on"
    /\ pxy' = [pxy EXCEPT ![p] = IF kind = "mux" THEN [@ EXCEPT !.step = "closing"]
                                   ELSE [step |-> IF current = 0 THEN "off" ELSE "closing",
                                         ref  |-> current]]
    /\ UNCHANGED <<kind, current, made, listenVars, mu, conn, refused>>

\* closeListener, UnRegister: the proxy is removed; the last one goes on under
\* the mutex.
Leaves(p) ==
    LET g == pxy[p].ref  left == members[g] \ {p} IN
    /\ pxy[p].step = "closing" /\ mu[g] = Nobody
    /\ members' = [members EXCEPT ![g] = left]
    /\ IF left = {}
         THEN mu' = [mu EXCEPT ![g] = p] /\ pxy' = [pxy EXCEPT ![p].step = "last"]
         ELSE pxy' = [pxy EXCEPT ![p].step = "off"] /\ UNCHANGED mu
    /\ UNCHANGED <<kind, current, made, route, ch, ln, worker, accepting, conn, refused>>

\* close(acceptCh), ...
ClosesChannel(p) ==
    /\ pxy[p].step = "last" /\ pxy' = [pxy EXCEPT ![p].step = "route"]
    /\ ch' = [ch EXCEPT ![pxy[p].ref] = IF kind = "mux" THEN "closed" ELSE @]
    /\ UNCHANGED <<kind, current, made, route, members, mu, ln, worker, accepting, conn, refused>>

\* ... the muxer listener, of which the route goes first, ...
DeletesRoute(p) ==
    /\ pxy[p].step = "route" /\ pxy' = [pxy EXCEPT ![p].step = "cleanup"]
    /\ route' = 0
    /\ UNCHANGED <<kind, current, made, members, mu, ch, ln, worker, accepting, conn, refused>>

\* ... and cleanupFn: removeIf.  (close(accept) and removeIf are one step.)
Cleans(p) ==
    LET g == pxy[p].ref IN
    /\ pxy[p].step = "cleanup" /\ pxy' = [pxy EXCEPT ![p].step = "off"]
    /\ ln' = [ln EXCEPT ![g] = IF kind = "mux" THEN "closed" ELSE @]
    /\ current' = IF current = g THEN 0 ELSE current
    /\ mu' = [mu EXCEPT ![g] = Nobody]
    /\ UNCHANGED <<kind, made, route, members, ch, worker, accepting, conn, refused>>

\* The accept loop of a proxy that has closed its listener ends.
AcceptLoopEnds(p) ==
    /\ p \in accepting /\ pxy[p].step # "on" /\ accepting' = accepting \ {p}
    /\ UNCHANGED <<kind, current, made, route, members, mu, ch, ln, worker, pxy, conn, refused>>

-----------------------------------------------------------------------------
(* User connections.                                                       *)

connRest == <<kind, current, made, route, members, mu, ch, ln, pxy, accepting, refused>>

Goes(c, s) == conn' = [conn EXCEPT ![c].step = s]

\* Muxer.handle looks the route up; without one the connection is answered and
\* closed.
LooksUp(c) ==
    /\ conn[c].step = "none" /\ kind = "mux"
    /\ conn' = [conn EXCEPT ![c] = [step |-> IF route = 0 THEN "closed" ELSE "routed",
                                    at |-> route, by |-> Nobody]]
    /\ UNCHANGED <<connRest, worker>>

\* ServeHTTP looks the route up; its authentication may refuse the request, and
\* without a route the request goes on without one.
ServeHTTP(c) ==
    /\ conn[c].step = "none" /\ kind = "http"
    /\ \/ route # 0 /\ Goes(c, "closed")
       \/ conn' = [conn EXCEPT ![c] = [step |-> "routed", at |-> route, by |-> Nobody]]
    /\ UNCHANGED <<connRest, worker>>

\* The hooks and the authentication of the route may close it.
Checked(c) ==
    /\ conn[c].step = "routed" /\ kind = "mux"
    /\ Goes(c, "send") \/ Goes(c, "closed")
    /\ UNCHANGED <<connRest, worker>>

\* The handler hands it to the listener, which the worker accepts from; on a
\* listener that has been closed the request is ignored, and not closed.
WorkerAccepts(c) ==
    LET g == conn[c].at IN
    /\ conn[c].step = "send" /\ ln[g] = "open" /\ worker[g] = "accept"
    /\ worker' = [worker EXCEPT ![g] = c] /\ Goes(c, "worker")
    /\ UNCHANGED connRest

SendPanics(c) ==
    /\ conn[c].step = "send" /\ ln[conn[c].at] = "closed" /\ Goes(c, "dropped")
    /\ UNCHANGED <<connRest, worker>>

\* A member's Accept receives from acceptCh; one that is closing may as well.
WorkerHands(g, p) ==
    /\ worker[g] \in Conns /\ ch[g] = "open" /\ p \in accepting /\ pxy[p].ref = g
    /\ conn' = [conn EXCEPT ![worker[g]] = [@ EXCEPT !.step = "served", !.by = p]]
    /\ worker' = [worker EXCEPT ![g] = "accept"]
    /\ UNCHANGED connRest

\* acceptCh is closed: the worker closes the connection it holds.
WorkerPanics(g) ==
    /\ worker[g] \in Conns /\ ch[g] = "closed"
    /\ Goes(worker[g], "closed") /\ worker' = [worker EXCEPT ![g] = "ended"]
    /\ UNCHANGED connRest

WorkerEnds(g) ==
    /\ worker[g] = "accept" /\ ln[g] = "closed" /\ worker' = [worker EXCEPT ![g] = "ended"]
    /\ UNCHANGED <<connRest, conn>>

\* pxyNames of a group.
EndpointsOf(g) == IF g = 0 THEN {} ELSE members[g]

\* Rewrite: chooseEndpoint of the route found before, "" if nobody is left.
Chooses(c) ==
    /\ conn[c].step = "routed" /\ kind = "http"
    /\ \/ \E p \in EndpointsOf(conn[c].at) :
            conn' = [conn EXCEPT ![c] = [@ EXCEPT !.step = "chosen", !.by = p]]
       \/ EndpointsOf(conn[c].at) = {} /\ Goes(c, "chosen")
    /\ UNCHANGED <<connRest, worker>>

\* DialContext: CreateConnection looks the route up again and asks its group for
\* the endpoint by name.
Dials(c) ==
    /\ conn[c].step = "chosen"
    /\ conn' = [conn EXCEPT ![c].step =
                  IF conn[c].by \in EndpointsOf(route) THEN "served" ELSE "closed"]
    /\ UNCHANGED <<connRest, worker>>

\* A CONNECT request: createConn of the group the route leads to now.
Connects(c) ==
    /\ conn[c].step = "routed" /\ kind = "http"
    /\ \/ \E p \in EndpointsOf(route) :
            conn' = [conn EXCEPT ![c] = [@ EXCEPT !.step = "served", !.by = p]]
       \/ EndpointsOf(route) = {} /\ Goes(c, "closed")
    /\ UNCHANGED <<connRest, worker>>

Leaving(p)  == \/ Leaves(p) \/ ClosesChannel(p) \/ DeletesRoute(p) \/ Cleans(p)
               \/ AcceptLoopEnds(p)
Serving(c)  == \/ Checked(c) \/ WorkerAccepts(c) \/ SendPanics(c) \/ Chooses(c) \/ Dials(c)
               \/ Connects(c)
Working(g)  == WorkerPanics(g) \/ WorkerEnds(g) \/ \E p \in Proxies : WorkerHands(g, p)

GroupsNext == \/ \E p \in Proxies : GetOrCreate(p) \/ Listen(p) \/ CloseStarts(p) \/ Leaving(p)
              \/ \E c \in Conns : LooksUp(c) \/ ServeHTTP(c) \/ Serving(c)
              \/ \E g \in Groups : Working(g)

GroupsSpec == GroupsInit /\ [][GroupsNext]_gvars
-----------------------------------------------------------------------------
(* Properties.                                                             *)

\* A proxy that has joined can be reached: its object is the registry's and the
\* route's, with a worker that runs, whatever other proxies left the group while
\* it joined; and no proxy is refused because of the route of the group's own
\* predecessor (server/group/registry.go isCurrent and removeIf, base.go
\* closeListener, http.go Register and UnRegister).
MembersReachable ==
    /\ ~refused
    /\ \A p \in Proxies :
         pxy[p].step = "on" =>
           LET g == pxy[p].ref IN
           /\ current = g /\ route = g /\ p \in members[g]
           /\ kind = "mux" => ch[g] = "open" /\ ln[g] = "open" /\ worker[g] \notin {"off", "ended"}

\* A connection that reached the route is served or closed, unless its listener
\* was closed while the muxer's handler was about to hand it over
\* (pkg/util/vhost/vhost.go:218-224): it does not wait for a worker that has ended.
Pending == \E c \in Conns : conn[c].step \notin {"none", "served", "closed", "dropped"}
Settled == ~Pending
=============================================================================
