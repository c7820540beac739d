-------------------------- MODULE ProxyRegistration --------------------------
(***************************************************************************)
(* How the controls of frps register and close proxies                      *)
(* (server/control.go: RegisterProxy, CloseProxy, worker) and what a proxy  *)
(* takes from the tables the controls share: a TCP port (server/ports), a   *)
(* seat in a TCP load-balancing group (server/group), a visitor listener    *)
(* (server/visitor), a NAT hole client (pkg/nathole) and virtual host       *)
(* routes (pkg/util/vhost).  Each table has its own mutex, so the steps of  *)
(* two registrations interleave between any two of them.  One control       *)
(* handles one message at a time: its dispatcher calls the handlers         *)
(* synchronously, and ends before the worker closes the proxies.            *)
(***************************************************************************)
EXTENDS PortManager, Sequences, FiniteSets

CONSTANTS
    Controls,           \* controls, one for each connected frpc
    Routes,             \* virtual host routes: a domain, a location and a user
    Requests,           \* the NewProxy messages the clients send
    MaxPortsPerClient,  \* the server's setting; 0 means no limit
    NoProxy,            \* no proxy
    Nobody,             \* no owner
    Group,              \* the listener of the group, as the owner of a port
    Leaked              \* the owner of a listener no proxy will ever close

VARIABLES
    ctl,    \* the controls
    pxys,   \* PxyManager: which control's proxy has a name
    pm,     \* the TCP port manager
    bound,  \* the operating system: who listens on a port
    group,  \* the TCP group and its entry in the group registry
    taken,  \* who has a visitor listener, a NAT hole client or a route
    stolen  \* history: ports handed out while they were not free

vars == <<ctl, pxys, pm, bound, group, taken, stolen>>

Kinds == {"tcp", "tcpGroup", "stcp", "xtcp", "xudp", "http"}
Request ==
    [kind : Kinds, name : Names, port : AllowPorts \cup {NoPort}, routes : Seq(Routes)]

ASSUME RegistrationAssumption ==
    /\ Requests \subseteq Request
    /\ MaxPortsPerClient \in Nat
    /\ Nobody \notin Controls
    /\ Nobody # Group /\ Nobody # Leaked /\ Group # Leaked
    /\ \A x \in {Nobody, Group, Leaked} : x \notin Controls \X Names
    /\ NoProxy \notin [req : Requests, port : AllowPorts \cup {NoPort}]

Visitor(name)   == <<"visitor", name>>
NatClient(name) == <<"nat", name>>
Route(r)        == <<"route", r>>
Resources ==
    {Visitor(n) : n \in Names} \cup {NatClient(n) : n \in Names} \cup {Route(r) : r \in Routes}

Owner == Controls \X Names     \* a proxy of a control

\* What Run takes from the tables, in order.
Claims(req) ==
    CASE req.kind = "stcp" -> <<Visitor(req.name)>>
      [] req.kind = "xtcp" -> <<NatClient(req.name)>>
      [] req.kind = "xudp" -> <<Visitor(req.name), NatClient(req.name)>>
      [] req.kind = "http" -> [i \in 1 .. Len(req.routes) |-> Route(req.routes[i])]
      [] OTHER             -> <<>>

\* What Close gives back, in order: XUDP leaves the NAT hole controller first.
Releases(req) ==
    IF req.kind = "xudp" THEN <<NatClient(req.name), Visitor(req.name)>> ELSE Claims(req)

GetUsedPortsNum(req) == IF req.kind \in {"tcp", "tcpGroup"} THEN 1 ELSE 0
Counted(req) == IF MaxPortsPerClient > 0 THEN GetUsedPortsNum(req) ELSE 0

Proxy == [req : Requests, port : AllowPorts \cup {NoPort}]

Steps ==
    {"idle", "run", "join", "bind", "bindGroup", "add", "close", "release", "cleanup", "done"}

NewControl ==
    [step |-> "idle", proxy |-> NoProxy, todo |-> <<>>, ref |-> "none", failing |-> FALSE,
     exiting |-> FALSE, proxies |-> [n \in Names |-> NoProxy], portsUsedNum |-> 0]

NewGroup == [listed |-> FALSE, lns |-> {}, port |-> NoPort, realPort |-> NoPort, mu |-> Nobody]

Init ==
    /\ ctl = [c \in Controls |-> NewControl]
    /\ pxys = [n \in Names |-> Nobody]
    /\ pm = NewManager
    /\ bound = [p \in AllowPorts |-> Nobody]
    /\ group = NewGroup
    /\ taken = [r \in Resources |-> Nobody]
    /\ stolen = {}

-----------------------------------------------------------------------------
Req(c) == ctl[c].proxy.req
Me(c)  == <<c, Req(c).name>>

\* The proxy's Run succeeded.
Ran(c, port) ==
    [ctl EXCEPT ![c].step = "add", ![c].proxy.port = port, ![c].ref = "none", ![c].todo = <<>>]

\* An error path that forgets the quota.
RefusedKeepsQuota(c) ==
    [ctl EXCEPT ![c].step = "idle", ![c].proxy = NoProxy, ![c].todo = <<>>, ![c].ref = "none",
                ![c].failing = FALSE]

\* RegisterProxy returns an error: its deferred function gives the quota back.
Refused(c) ==
    [ctl EXCEPT ![c].step = "idle", ![c].proxy = NoProxy, ![c].todo = <<>>, ![c].ref = "none",
                ![c].failing = FALSE, ![c].portsUsedNum = @ - Counted(Req(c))]

\* A NewProxy message passes the quota and finds its name unused.
RegisterProxy(c, req) ==
    /\ ctl[c].step = "idle" /\ ~ctl[c].exiting
    /\ MaxPortsPerClient > 0 =>
          ctl[c].portsUsedNum + GetUsedPortsNum(req) <= MaxPortsPerClient
    /\ pxys[req.name] = Nobody
    /\ ctl' = [ctl EXCEPT ![c].step = "run", ![c].proxy = [req |-> req, port |-> NoPort],
                          ![c].todo = Claims(req),
                          ![c].portsUsedNum = @ + Counted(req)]
    /\ UNCHANGED <<pxys, pm, bound, group, taken, stolen>>

-----------------------------------------------------------------------------
(* A TCP proxy with a port of its own.                                      *)

\* The ports the system lets frps bind now: none that frps itself has bound, and any
\* port may be held by another process.
Available == SUBSET {p \in AllowPorts : bound[p] = Nobody}

Took(c, p) ==
    /\ pm' = markPortAcquired(pm, Req(c).name, p)
    /\ stolen' = IF p \in pm.freePorts THEN stolen ELSE stolen \cup {p}

Acquire(c) ==
    /\ ctl[c].step = "run" /\ Req(c).kind = "tcp"
    /\ \E available \in Available :
         \/ \E p \in Acquirable(pm, Req(c).name, Req(c).port, available) :
              /\ Took(c, p)
              /\ ctl' = [ctl EXCEPT ![c].step = "bind", ![c].proxy.port = p]
         \/ /\ Acquirable(pm, Req(c).name, Req(c).port, available) = {}
            /\ ctl' = Refused(c)
            /\ UNCHANGED <<pm, stolen>>
    /\ UNCHANGED <<pxys, bound, group, taken>>

\* The listen fails if the port was bound since Acquire tried it.
Bind(c) ==
    LET p == ctl[c].proxy.port IN
    /\ ctl[c].step = "bind"
    /\ \/ /\ bound[p] = Nobody
          /\ bound' = [bound EXCEPT ![p] = Me(c)]
          /\ ctl' = Ran(c, p)
          /\ UNCHANGED pm
       \/ /\ pm' = Release(pm, p)
          /\ ctl' = Refused(c)
          /\ UNCHANGED bound
    /\ UNCHANGED <<pxys, group, taken, stolen>>

-----------------------------------------------------------------------------
(* A TCP proxy in a group.  The group's mutex is held over all of Listen    *)
(* and closeListener, and those are the steps in which mu is a control.     *)

GetOrCreateGroup(c) ==
    /\ ctl[c].step = "run" /\ Req(c).kind = "tcpGroup"
    /\ group' = IF group.listed THEN group ELSE [NewGroup EXCEPT !.listed = TRUE]
    /\ ctl' = [ctl EXCEPT ![c].step = "join", ![c].ref = "current"]
    /\ UNCHANGED <<pxys, pm, bound, taken, stolen>>

\* The group left the registry meanwhile: start over.
GroupStale(c) ==
    /\ ctl[c].step = "join" /\ ctl[c].ref = "stale"
    /\ ctl' = [ctl EXCEPT ![c].step = "run", ![c].ref = "none"]
    /\ UNCHANGED <<pxys, pm, bound, group, taken, stolen>>

JoinFirst(c) ==
    /\ ctl[c].step = "join" /\ ctl[c].ref = "current"
    /\ group.mu = Nobody /\ group.lns = {}
    /\ \E available \in Available :
         \/ \E p \in Acquirable(pm, Req(c).name, Req(c).port, available) :
              /\ Took(c, p)
              /\ group' = [group EXCEPT !.mu = c]
              /\ ctl' = [ctl EXCEPT ![c].step = "bindGroup", ![c].proxy.port = p]
         \/ /\ Acquirable(pm, Req(c).name, Req(c).port, available) = {}
            /\ ctl' = Refused(c)
            /\ UNCHANGED <<pm, stolen, group>>
    /\ UNCHANGED <<pxys, bound, taken>>

BindGroup(c) ==
    LET p == ctl[c].proxy.port IN
    /\ ctl[c].step = "bindGroup"
    /\ \/ /\ bound[p] = Nobody
          /\ bound' = [bound EXCEPT ![p] = Group]
          /\ group' = [group EXCEPT !.mu = Nobody, !.lns = {Me(c)},
                                    !.port = Req(c).port, !.realPort = p]
          /\ ctl' = Ran(c, p)
          /\ UNCHANGED pm
       \/ /\ pm' = Release(pm, p)
          /\ group' = [group EXCEPT !.mu = Nobody]
          /\ ctl' = Refused(c)
          /\ UNCHANGED bound
    /\ UNCHANGED <<pxys, taken, stolen>>

\* The group has members: the proxy must ask for the same port.
JoinNext(c) ==
    /\ ctl[c].step = "join" /\ ctl[c].ref = "current"
    /\ group.mu = Nobody /\ group.lns # {}
    /\ IF group.port = Req(c).port
         THEN /\ group' = [group EXCEPT !.lns = @ \cup {Me(c)}]
              /\ ctl' = Ran(c, group.realPort)
         ELSE /\ ctl' = Refused(c)
              /\ UNCHANGED group
    /\ UNCHANGED <<pxys, pm, bound, taken, stolen>>

-----------------------------------------------------------------------------
(* Visitor listeners, NAT hole clients and routes: Listen, ListenClient and *)
(* Routers.Add refuse a key that is taken; CloseListener, CloseClient and   *)
(* Routers.Del delete the key, whoever has it.                              *)

Done(c) == SubSeq(Claims(Req(c)), 1, Len(Claims(Req(c))) - Len(ctl[c].todo))

Claim(c) ==
    /\ ctl[c].step = "run" /\ ctl[c].todo # <<>>
    /\ taken[Head(ctl[c].todo)] = Nobody
    /\ taken' = [taken EXCEPT ![Head(ctl[c].todo)] = Me(c)]
    /\ ctl' = IF Len(ctl[c].todo) = 1 THEN Ran(c, NoPort)
              ELSE [ctl EXCEPT ![c].todo = Tail(@)]
    /\ UNCHANGED <<pxys, pm, bound, group, stolen>>

\* Run fails.  An HTTP proxy closes itself.  The others have nothing to close, but for
\* an XUDP proxy that has its visitor listener and is refused by the NAT hole
\* controller: nobody closes the listener.
ClaimRefused(c) ==
    /\ ctl[c].step = "run" /\ ctl[c].todo # <<>>
    /\ taken[Head(ctl[c].todo)] # Nobody
    /\ IF Req(c).kind = "http"
         THEN /\ ctl' = [ctl EXCEPT ![c].step = "close", ![c].failing = TRUE, ![c].todo = Done(c)]
              /\ UNCHANGED taken
         ELSE /\ ctl' = Refused(c)
              /\ taken' = [r \in Resources |->
                             IF \E i \in 1 .. Len(Done(c)) : Done(c)[i] = r
                               THEN Leaked ELSE taken[r]]
    /\ UNCHANGED <<pxys, pm, bound, group, stolen>>

-----------------------------------------------------------------------------
(* PxyManager.Add, and closing.                                             *)

\* An Add whose failure does not close the proxy.
AddNotClosed(c) ==
    /\ ctl[c].step = "add"
    /\ IF pxys[Req(c).name] = Nobody
         THEN /\ pxys' = [pxys EXCEPT ![Req(c).name] = c]
              /\ ctl' = [ctl EXCEPT ![c].step = "idle", ![c].proxy = NoProxy,
                                    ![c].proxies[Req(c).name] = ctl[c].proxy]
         ELSE /\ ctl' = Refused(c)
              /\ UNCHANGED pxys
    /\ UNCHANGED <<pm, bound, group, taken, stolen>>

Add(c) ==
    /\ ctl[c].step = "add"
    /\ IF pxys[Req(c).name] = Nobody
         THEN /\ pxys' = [pxys EXCEPT ![Req(c).name] = c]
              /\ ctl' = [ctl EXCEPT ![c].step = "idle", ![c].proxy = NoProxy,
                                    ![c].proxies[Req(c).name] = ctl[c].proxy]
         ELSE /\ ctl' = [ctl EXCEPT ![c].step = "close", ![c].failing = TRUE,
                                    ![c].todo = Releases(Req(c))]
              /\ UNCHANGED pxys
    /\ UNCHANGED <<pm, bound, group, taken, stolen>>

\* A CloseProxy message, or the worker closing what is left.  The worker does not count.
CloseProxy(c, n) ==
    LET pxy == ctl[c].proxies[n] IN
    /\ ctl[c].step = "idle" /\ pxy # NoProxy
    /\ ctl' = [ctl EXCEPT ![c].step = "close", ![c].proxy = pxy, ![c].todo = Releases(pxy.req),
                          ![c].proxies[n] = NoProxy,
                          ![c].portsUsedNum = IF ctl[c].exiting THEN @ ELSE @ - Counted(pxy.req)]
    /\ UNCHANGED <<pxys, pm, bound, group, taken, stolen>>

\* One table entry of the proxy is deleted.
CloseClaim(c) ==
    /\ ctl[c].step = "close" /\ ctl[c].todo # <<>>
    /\ taken' = [taken EXCEPT ![Head(ctl[c].todo)] = Nobody]
    /\ ctl' = [ctl EXCEPT ![c].todo = Tail(@)]
    /\ UNCHANGED <<pxys, pm, bound, group, stolen>>

\* BaseProxy.Close closes the proxy's own listener.
Unbind(c) ==
    /\ ctl[c].step = "close" /\ Req(c).kind = "tcp"
    /\ bound' = [bound EXCEPT ![ctl[c].proxy.port] = Nobody]
    /\ ctl' = [ctl EXCEPT ![c].step = "release"]
    /\ UNCHANGED <<pxys, pm, group, taken, stolen>>

\* A Close that keeps the port.
ReleaseNothing(c) ==
    /\ ctl[c].step = "release"
    /\ ctl' = [ctl EXCEPT ![c].step = "done"]
    /\ UNCHANGED <<pxys, pm, bound, group, taken, stolen>>

ReleasePort(c) ==
    /\ ctl[c].step = "release"
    /\ pm' = Release(pm, ctl[c].proxy.port)
    /\ ctl' = [ctl EXCEPT ![c].step = "done"]
    /\ UNCHANGED <<pxys, bound, group, taken, stolen>>

\* closeListener: the last member closes the real listener.
LeaveGroup(c) ==
    LET left == group.lns \ {Me(c)} IN
    /\ ctl[c].step = "close" /\ Req(c).kind = "tcpGroup" /\ group.mu = Nobody
    /\ IF left = {}
         THEN /\ group' = [group EXCEPT !.lns = left, !.mu = c]
              /\ bound' = [bound EXCEPT ![group.realPort] = Nobody]
              /\ ctl' = [ctl EXCEPT ![c].step = "cleanup"]
         ELSE /\ group' = [group EXCEPT !.lns = left]
              /\ ctl' = [ctl EXCEPT ![c].step = "done"]
              /\ UNCHANGED bound
    /\ UNCHANGED <<pxys, pm, taken, stolen>>

\* A group that does not notice that it has left the registry.
CleanupGroupUnnoticed(c) ==
    /\ ctl[c].step = "cleanup"
    /\ pm' = Release(pm, group.realPort)
    /\ group' = NewGroup
    /\ ctl' = [ctl EXCEPT ![c].step = "done"]
    /\ UNCHANGED <<pxys, bound, taken, stolen>>

\* The group's cleanupFn; whoever waits for the mutex has a stale group now.
CleanupGroup(c) ==
    /\ ctl[c].step = "cleanup"
    /\ pm' = Release(pm, group.realPort)
    /\ group' = NewGroup
    /\ ctl' = [d \in Controls |->
                 IF d = c THEN [ctl[d] EXCEPT !.step = "done"]
                 ELSE IF ctl[d].ref = "current" THEN [ctl[d] EXCEPT !.ref = "stale"]
                 ELSE ctl[d]]
    /\ UNCHANGED <<pxys, bound, taken, stolen>>

\* All is released: RegisterProxy returns its error, or closeProxy deletes the name.
Closed(c) ==
    /\ \/ ctl[c].step = "done"
       \/ /\ ctl[c].step = "close" /\ ctl[c].todo = <<>>
          /\ Req(c).kind \notin {"tcp", "tcpGroup"}
    /\ IF ctl[c].failing
         THEN /\ ctl' = Refused(c)
              /\ UNCHANGED pxys
         ELSE /\ pxys' = [pxys EXCEPT ![Req(c).name] = Nobody]
              /\ ctl' = [ctl EXCEPT ![c].step = "idle", ![c].proxy = NoProxy]
    /\ UNCHANGED <<pm, bound, group, taken, stolen>>

\* The dispatcher ends; the worker closes the proxies, and a new control may come.
Disconnect(c) ==
    /\ ctl[c].step = "idle" /\ ~ctl[c].exiting
    /\ ctl' = [ctl EXCEPT ![c].exiting = TRUE]
    /\ UNCHANGED <<pxys, pm, bound, group, taken, stolen>>

Connect(c) ==
    /\ ctl[c].step = "idle" /\ ctl[c].exiting
    /\ \A n \in Names : ctl[c].proxies[n] = NoProxy
    /\ ctl' = [ctl EXCEPT ![c] = NewControl]
    /\ UNCHANGED <<pxys, pm, bound, group, taken, stolen>>

\* cleanReservedPortsWorker, a day after the port was released.
CleanReservedPorts(n) ==
    /\ pm.reservedPorts[n].closed
    /\ pm' = CleanReserved(pm, n)
    /\ UNCHANGED <<ctl, pxys, bound, group, taken, stolen>>

Step(c) ==
    \/ \E req \in Requests : RegisterProxy(c, req)
    \/ Acquire(c) \/ Bind(c)
    \/ GetOrCreateGroup(c) \/ GroupStale(c) \/ JoinFirst(c) \/ BindGroup(c) \/ JoinNext(c)
    \/ Claim(c) \/ ClaimRefused(c) \/ Add(c)
    \/ \E n \in Names : CloseProxy(c, n)
    \/ CloseClaim(c) \/ Unbind(c) \/ ReleasePort(c) \/ LeaveGroup(c) \/ CleanupGroup(c) \/ Closed(c)
    \/ Disconnect(c) \/ Connect(c)

Next ==
    \/ \E c \in Controls : Step(c)
    \/ \E n \in Names : CleanReservedPorts(n)

Spec == Init /\ [][Next]_vars

-----------------------------------------------------------------------------
Control ==
    [step : Steps, proxy : Proxy \cup {NoProxy}, todo : Seq(Resources),
     ref : {"none", "current", "stale"}, failing : BOOLEAN, exiting : BOOLEAN,
     proxies : [Names -> Proxy \cup {NoProxy}], portsUsedNum : Nat]

\* Every variable has the type the code gives it, and a port is free or used, not both.
TypeOK ==
    /\ ctl \in [Controls -> Control]
    /\ pxys \in [Names -> Controls \cup {Nobody}]
    /\ pm \in Manager
    /\ pm.freePorts = {p \in AllowPorts : pm.usedPorts[p] = NoName}
    /\ bound \in [AllowPorts -> Owner \cup {Group, Nobody}]
    /\ group \in [listed : BOOLEAN, lns : SUBSET Owner, port : AllowPorts \cup {NoPort},
                  realPort : AllowPorts \cup {NoPort}, mu : Controls \cup {Nobody}]
    /\ taken \in [Resources -> Owner \cup {Leaked, Nobody}]
    /\ stolen \subseteq AllowPorts

\* A control's map of proxies and the proxies of other controls agree with the server's:
\* a registered proxy has its name, and everything its Run took is still its own.  No
\* registration that fails half way, no close and no exit of another control takes
\* the name, a listener, a route or the port away from it, although the tables delete
\* by key without asking who owns the entry.
RegisteredOwns ==
    \A c \in Controls, n \in Names :
      LET pxy == ctl[c].proxies[n] IN
      pxy # NoProxy =>
        /\ pxys[n] = c
        /\ \A i \in 1 .. Len(Claims(pxy.req)) : taken[Claims(pxy.req)[i]] = <<c, n>>
        /\ pxy.req.kind = "tcp" => bound[pxy.port] = <<c, n>>
        /\ pxy.req.kind = "tcpGroup" =>
             /\ <<c, n>> \in group.lns /\ pxy.port = group.realPort
             /\ group.listed /\ bound[pxy.port] = Group

\* The proxies of a control that are running, or that it is starting or closing.
Alive(c, n) == ctl[c].proxies[n] # NoProxy \/ (ctl[c].proxy # NoProxy /\ Req(c).name = n)

\* Nothing is left behind: a name, a listener, a route, a bound port and a seat in the
\* group belong to a proxy that runs, or to one whose registration or close is still
\* under way.  The one exception of the code is the visitor listener of an XUDP proxy
\* that the NAT hole controller refused.
NothingAbandoned ==
    /\ \A n \in Names : pxys[n] # Nobody => Alive(pxys[n], n)
    /\ \A r \in Resources : taken[r] \in Owner => Alive(taken[r][1], taken[r][2])
    /\ \A p \in AllowPorts : bound[p] \in Owner => Alive(bound[p][1], bound[p][2])
    /\ \A o \in group.lns : Alive(o[1], o[2])
    /\ \A r \in Resources : taken[r] = Leaked => r \in {Visitor(n) : n \in Names}

\* The ports a control is charged for are those of its proxies and of the registration
\* under way, and they never exceed MaxPortsPerClient: no error path keeps a charge and
\* none gives one back twice.
QuotaExact ==
    \A c \in Controls :
      LET running  == {n \in Names : /\ ctl[c].proxies[n] # NoProxy
                                     /\ Counted(ctl[c].proxies[n].req) = 1}
          starting == IF /\ ctl[c].proxy # NoProxy
                         /\ ctl[c].failing \/ ctl[c].step \in {"run", "join", "bind", "bindGroup", "add"}
                        THEN Counted(Req(c)) ELSE 0 IN
      ~ctl[c].exiting =>
        /\ ctl[c].portsUsedNum = Cardinality(running) + starting
        /\ ctl[c].portsUsedNum <= MaxPortsPerClient

\* The controls that hold a port by themselves, or through the group's listener.
Holds(c, p) ==
    /\ ctl[c].proxy # NoProxy /\ ctl[c].proxy.port = p
    /\ ctl[c].step \in {"bind", "bindGroup", "add", "close", "release", "cleanup"}

\* The port manager tells the truth about every port it never handed out twice: a port a
\* proxy or the group listens on is used, and a used port has a proxy or the group
\* behind it, so that no port is lost and none is promised to two.
PortsAccounted ==
    \A p \in AllowPorts \ stolen :
      /\ bound[p] # Nobody => pm.usedPorts[p] # NoName
      /\ pm.usedPorts[p] # NoName => bound[p] # Nobody \/ \E c \in Controls : Holds(c, p)
      /\ \A c, d \in Controls :
           Holds(c, p) /\ Holds(d, p) /\ c # d => Req(c).kind = "tcpGroup" /\ Req(d).kind = "tcpGroup"
=============================================================================
