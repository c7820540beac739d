--------------------------- MODULE VisitorManager ---------------------------
(***************************************************************************)
(* The visitor manager of an frpc control (client/visitor/                 *)
(* visitor_manager.go, visitor.go, stcp.go, pkg/util/net/listener.go): it  *)
(* starts, replaces and closes visitors as the configuration changes, and  *)
(* hands a user connection from one visitor (xtcp with fallbackTo) to      *)
(* another one by name.  A visitor that could not be started is tried      *)
(* again by keepVisitorsRunning.  What opening a tunnel does is XTCPTunnel.*)
(***************************************************************************)
EXTENDS Integers, FiniteSets, Sequences

CONSTANTS Names,        \* visitor names
          Main, Fallback,  \* the xtcp visitor and the one it falls back to
          Users,        \* user connections
          Versions,     \* configurations of a visitor
          Backlog,      \* capacity of an InternalListener (128)
          MaxVisitors,  \* bound: visitor objects
          MaxUpdates    \* bound: calls of UpdateAll

Objects == 1..MaxVisitors

VARIABLES cfgs,         \* name -> version, 0 for none
          visitors,     \* name -> visitor object, 0 for none
          object,       \* object -> [name, version, step]
          made,         \* objects made
          queue,        \* object -> connections in its internal listener
          keeper,       \* keepVisitorsRunning: "off", "select", "lock", "ended"
          stopped,      \* stopCh is closed
          updates,
          conn          \* user connection -> [step, at]: where it is, and with which object

mvars == <<cfgs, visitors, object, made, queue, keeper, stopped, updates, conn>>

ManagerTypeOK ==
    /\ cfgs \in [Names -> Versions \cup {0}] /\ visitors \in [Names -> 0..MaxVisitors]
    /\ object \in [Objects -> [name : Names, version : Versions \cup {0},
                               step : {"none", "run", "closed"}]]
    /\ made \in 0..MaxVisitors /\ queue \in [Objects -> Seq(Users)]
    /\ keeper \in {"off", "select", "lock", "ended"} /\ stopped \in BOOLEAN
    /\ updates \in 0..MaxUpdates
    /\ conn \in [Users -> [step : {"none", "open", "transfer", "queued", "dial", "join", "closed"},
                           at : 0..MaxVisitors]]

ManagerInit ==
    /\ cfgs = [n \in Names |-> 0] /\ visitors = [n \in Names |-> 0] /\ made = 0
    /\ object = [o \in Objects |-> [name |-> Main, version |-> 0, step |-> "none"]]
    /\ queue = [o \in Objects |-> <<>>] /\ keeper = "off" /\ stopped = FALSE /\ updates = 0
    /\ conn = [u \in Users |-> [step |-> "none", at |-> 0]]

-----------------------------------------------------------------------------
(* The manager's operations hold its mutex throughout.                     *)

\* startVisitor succeeds for the names in ok; the others are not recorded.
StartVisitors(ok, objs, map, cs) ==
    LET id == CHOOSE f \in [ok -> made + 1..made + Cardinality(ok)] :
                 \A a, b \in ok : a # b => f[a] # f[b]
    IN  /\ made + Cardinality(ok) <= MaxVisitors /\ made' = made + Cardinality(ok)
        /\ object' = [o \in Objects |->
                        IF \E n \in ok : id[n] = o
                          THEN LET n == CHOOSE n \in ok : id[n] = o
                               IN  [name |-> n, version |-> cs[n], step |-> "run"]
                          ELSE objs[o]]
        /\ visitors' = [n \in Names |-> IF n \in ok THEN id[n] ELSE map[n]]

CloseVisitors(ns) ==
    [o \in Objects |-> IF \E n \in ns : visitors[n] = o THEN [object[o] EXCEPT !.step = "closed"]
                         ELSE object[o]]

\* UpdateAll.
UpdateAll(new, ok) ==
    LET deleted == {n \in Names : cfgs[n] # 0 /\ cfgs[n] # new[n]}
        added   == {n \in Names : new[n] # 0 /\ (n \in deleted \/ cfgs[n] = 0)}
    IN  /\ updates < MaxUpdates /\ updates' = updates + 1 /\ ok \subseteq added
        /\ keeper' = IF keeper = "off" /\ new # [n \in Names |-> 0] THEN "select" ELSE keeper
        /\ cfgs' = new
        /\ StartVisitors(ok, CloseVisitors(deleted),
                         [n \in Names |-> IF n \in deleted THEN 0 ELSE visitors[n]], new)
        /\ UNCHANGED <<queue, stopped, conn>>

\* The ticker, ...
KeeperTicks ==
    /\ keeper = "select" /\ keeper' = "lock"
    /\ UNCHANGED <<cfgs, visitors, object, made, queue, stopped, updates, conn>>

\* ... after which the visitors that are missing are tried, ...
KeepVisitorsRunning(ok) ==
    LET missing == {n \in Names : cfgs[n] # 0 /\ visitors[n] = 0} IN
    /\ keeper = "lock" /\ keeper' = "select" /\ ok \subseteq missing
    /\ StartVisitors(ok, object, visitors, cfgs)
    /\ UNCHANGED <<cfgs, queue, stopped, updates, conn>>

\* ... or stopCh.
KeeperEnds ==
    /\ keeper = "select" /\ stopped /\ keeper' = "ended"
    /\ UNCHANGED <<cfgs, visitors, object, made, queue, stopped, updates, conn>>

\* Close keeps the entries of the visitors it closes.
ManagerClose ==
    /\ ~stopped /\ stopped' = TRUE /\ object' = CloseVisitors(Names)
    /\ UNCHANGED <<cfgs, visitors, made, queue, keeper, updates, conn>>

-----------------------------------------------------------------------------
(* User connections.                                                       *)

connRest == <<cfgs, visitors, object, made, keeper, stopped, updates>>

Conn(u, s) == conn' = [conn EXCEPT ![u].step = s]

\* acceptLoop of a visitor's bind port.
UserConnects(u, o) ==
    /\ conn[u].step = "none" /\ object[o].step = "run"
    /\ conn' = [conn EXCEPT ![u] = [step |-> IF object[o].name = Main THEN "open" ELSE "dial",
                                    at   |-> o]]
    /\ UNCHANGED <<connRest, queue>>

\* openTunnel and wrapVisitorConn: a stream to join, or an error.
OpenTunnel(u) ==
    /\ conn[u].step = "open" /\ (Conn(u, "join") \/ Conn(u, "transfer") \/ Conn(u, "closed"))
    /\ UNCHANGED <<connRest, queue>>

\* TransferConn: the visitor is looked up and the connection put into its
\* internal listener, or closed there if that is full.  Without the visitor, or
\* with one that is closed, handleConn closes it.
TransferConn(u) ==
    LET o == visitors[Fallback] IN
    /\ conn[u].step = "transfer"
    /\ IF o = 0 \/ object[o].step = "closed" \/ Len(queue[o]) = Backlog
         THEN Conn(u, "closed") /\ UNCHANGED queue
         ELSE /\ conn' = [conn EXCEPT ![u] = [step |-> "queued", at |-> o]]
              /\ queue' = [queue EXCEPT ![o] = Append(@, u)]
    /\ UNCHANGED connRest

\* The accept loop of the internal listener: a closed channel gives what it holds
\* before it ends the loop.
AcceptInternal(o) ==
    /\ queue[o] # <<>> /\ queue' = [queue EXCEPT ![o] = Tail(@)]
    /\ conn' = [conn EXCEPT ![Head(queue[o])].step = "dial"]
    /\ UNCHANGED connRest

\* STCPVisitor.handleConn: dialRawVisitorConn, wrapVisitorConn.
DialVisitorConn(u) ==
    /\ conn[u].step = "dial" /\ (Conn(u, "join") \/ Conn(u, "closed"))
    /\ UNCHANGED <<connRest, queue>>

\* Join returns; the deferred calls close both sides.
JoinReturns(u) ==
    /\ conn[u].step = "join" /\ Conn(u, "closed") /\ UNCHANGED <<connRest, queue>>

Handling(u) == OpenTunnel(u) \/ TransferConn(u) \/ DialVisitorConn(u)

ManagerNext ==
    \/ \E new \in [Names -> Versions \cup {0}], ok \in SUBSET Names : UpdateAll(new, ok)
    \/ \E ok \in SUBSET Names : KeepVisitorsRunning(ok)
    \/ KeeperTicks \/ KeeperEnds \/ ManagerClose
    \/ \E u \in Users : Handling(u) \/ JoinReturns(u) \/ \E o \in Objects : UserConnects(u, o)
    \/ \E o \in Objects : AcceptInternal(o)

ManagerSpec == ManagerInit /\ [][ManagerNext]_mvars
-----------------------------------------------------------------------------
(* Properties.                                                             *)

\* A visitor that runs is the one recorded under its name, with the configuration
\* the manager has for it: no replaced visitor keeps its port, and the retry of
\* keepVisitorsRunning never starts a second one
\* (client/visitor/visitor_manager.go UpdateAll, keepVisitorsRunning).
VisitorsRecorded ==
    \A o \in Objects : object[o].step = "run" =>
        visitors[object[o].name] = o /\ cfgs[object[o].name] = object[o].version

\* A user connection does not hang between two visitors, even if the one it is
\* handed to is closed or replaced at that moment: it is joined or closed
\* (client/visitor/xtcp.go handleConn, pkg/util/net/listener.go PutConn, Accept).
Pending == \E u \in Users : conn[u].step \in {"open", "transfer", "queued", "dial"}
Settled == ~Pending
=============================================================================
