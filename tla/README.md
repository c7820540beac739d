# frp-xudp verification

frp is a reverse proxy: frpc, the client, keeps a control connection to frps, the server,
registers proxies over it, and frps asks for work connections whenever a user connects. This
fork adds XUDP, a UDP proxy whose visitor prefers a direct QUIC path and falls back to a relay
through frps. The modules here are TLA+ specifications of the program, with the TLC
configurations that check them and TLAPS proofs about three of its parts. Paths below are relative
to `src/`.

`PROJECT.json` holds what is tabular: the status of every part ("components"), the source lines of
every definition ("map"), the runs with their properties, a mutant for each property, the places
where the code is hard to test with the property that watches over them ("hazards"), and the
theorems.

## 1. The system and its modules

### frps

| Part | Code | Modules |
|---|---|---|
| Control sessions: login, replacement by a new generation, shutdown, work connection pool | `server/control.go`, `server/service.go` | `ControlManager`; proofs in `ControlManagerTypes`, `ControlManagerSteps`, `ControlManagerProofs`, `ControlManagerRegistry`, `ControlManagerOnline`; instances in `MCControlManager`, `MCControlEnds` |
| Client registry | `server/registry` | `ClientRegistry`, which `ControlManager` extends |
| Proxy registration, quota, visitor listeners, TCP groups | `server/control.go`, `server/proxy`, `server/visitor`, `server/group` | `ProxyRegistration`, `MCProxyRegistration` |
| Port manager | `server/ports` | `PortManager`, which `ProxyRegistration` extends |
| Groups over a route, muxer listeners | `server/group`, `pkg/util/vhost` | `VhostGroups` |
| Virtual host routes | `pkg/util/vhost/router.go` | `VhostRoutes` |
| UDP proxy | `server/proxy/udp.go` | `UDPWorkConn`, proofs in `UDPQueueProofs` |
| User connections and statistics | `server/proxy/proxy.go`, `pkg/metrics/mem`, `pkg/util/metric` | `ProxyTraffic` |
| Bridge between two packet encodings | `server/proxy/proxy.go`, `pkg/msg/udp_binary.go` | `SUDPBridge`, `UDPPacketCodec` |
| Dashboard lists | `server/http/controller_v2.go` | `DashboardLists` |
| NAT hole controller | `pkg/nathole` | `NatAnalysis`, `NatHole`, proofs in `NatHoleProofs`; instances in `MCNatHole` |
| SSH gateway | `pkg/ssh`, `pkg/virtual` | `SSHTunnel` |

### frpc

| Part | Code | Modules |
|---|---|---|
| Service, login loop, control, proxy manager | `client/service.go`, `client/control*.go`, `client/connector.go`, `client/proxy/proxy_manager.go` | `ClientSession` |
| Proxy wrapper, health monitor | `client/proxy/proxy_wrapper.go`, `client/health` | `ProxyWrapper`, which `ClientSession` extends; `HealthMonitor`, `MCHealthMonitor` |
| Configuration store | `pkg/config/source`, `client/config_manager.go` | `ConfigStore` |
| Work connections of TCP, UDP, SUDP proxies | `client/proxy` | `ClientWorkConns` |
| XUDP proxy | `client/proxy/xudp.go` | `XUDPProxy` |
| UDP forwarder | `pkg/proto/udp` | `UDPForwarder` |
| Visitor manager, STCP visitor | `client/visitor` | `VisitorManager` |
| SUDP visitor | `client/visitor/sudp.go` | `SUDPVisitor` |
| XTCP visitor | `client/visitor/xtcp.go`, `pkg/nathole/nathole.go` | `XTCPTunnel` |
| XUDP visitor | `client/visitor/xudp.go`, `pkg/xudp/state`, `pkg/nathole/nathole.go` | `OneShotRequest`, `XUDPVisitor` |
| Virtual network | `pkg/vnet`, `pkg/plugin/visitor`, `pkg/plugin/client` | `VirtualNet` |
| Backoff | `pkg/util/wait` | `FastBackoff` |

### Between the two

| Part | Code | Modules |
|---|---|---|
| Handshake of the wire protocol | `pkg/proto/wire`, `client/connector.go`, `server/service.go` | `WireHandshake` |
| Dispatchers and back pressure on the control connection | `pkg/msg/handler.go`, both controls | `ControlChannel` |
| Requests with an answer | `pkg/transport/message.go` | `MessageTransport` |
| What a relayed UDP port promises | abstract | `DatagramQueue` |

The parts meet as follows. `ClientSession` treats frps as an environment that answers in order,
`ControlManager` treats frpc as one that logs in, breaks off and asks; `WireHandshake` and
`ControlChannel` have both ends. A registered proxy of `ProxyRegistration` becomes a running one in
`UDPWorkConn`, `ProxyTraffic` or `VhostGroups`; its work connections arrive at `ClientWorkConns` and
`XUDPProxy`. `NatHole` has the controller with both peers' exchanges, and `XTCPTunnel`, `XUDPVisitor`
and `XUDPProxy` take the outcome of such an exchange as a choice; they have the sockets that MakeHole
opens, returns and leaves to the goroutines that read them.

`MCParts` and `MCLifecycles` put the parts that share no state into one run each: a variable `part`,
chosen initially, says whose behaviour it is, and the variables `s1`, `s2`, ... hold the state of that
part, in the order of its module's VARIABLES. The first checks safety, the second liveness and
refinement.

## 2. How the models correspond to the code

A goroutine is a program counter, and a step is what the code does between two points where another
goroutine can intervene: a section under a mutex is one action, a look-up without the lock and the use of
what it found are two. An unbuffered channel is a rendezvous, a buffered one a sequence with its
capacity as a constant. Every call of the network, the operating system or a library may fail or
not return where the code has no deadline for it. Data is kept as far as a property can tell it
apart: a datagram is its number in order of arrival, a NAT its class, a host its labels, a binary
packet its bytes (with shorter IP addresses).

### ControlManager

Every login makes one element of `Controls`; those with one `run` are generations of a client.
The threads are the login handler (`login`), the worker (`worker`), a handler per work connection
(`work`), and the manager's shutdown (`closer`). The unlocked look-up before a run gate is an action
of its own (`seen`, `wseen`, `cseen`, `workSeen` hold what it read), so every interleaving with a
replacement is explored. `completeLogin` holds its gate while LoginResp is written, and that is the
step "writing" (`GateHeld`). Authentication and plugins are a login that may be rejected, heartbeats a
time-out that may happen whenever a control runs.

| Code | Action |
|---|---|
| NewControl, admit, Add | `NewControl`, `RejectLogin`, `AddLookup`, `AddFails`, `Add`, `Replaced` |
| WaitForHandoff, Activate, completeLogin | `WaitForHandoff`, `LoginLookup`, `Activate`, `CompleteLogin`, `LoginRespWritten` |
| a failed login | `LoginRemove`, `LoginClose` |
| worker | `WorkerStops`, `WorkerDrains`, `WorkerReleases`, `WorkerLookup`, `WorkerRemove`, `WorkerFinishes` |
| cm.Close | `CloseManager`, `CloserLookup`, `CloserRemove`, `CloserCloses` |
| GetByID, RegisterWorkConn, GetWorkConn | `WorkArrives`, `WorkLookup`, `GetByID`, `RegisterWorkConn`, `GetWorkConn` |

### ProxyRegistration

A control handles one message at a time: the dispatcher calls the handlers synchronously, and the
worker starts to close proxies only after the dispatcher ended. Its `step` therefore is one program
counter. Every table has a mutex of its own, so each access is one action: `RegisterProxy` (quota
and name), then what Run takes — `Acquire` and `Bind`, or the group's `GetOrCreateGroup`, `JoinFirst`,
`BindGroup`, `JoinNext`, `GroupStale`, or one `Claim` for each visitor listener, NAT hole client or
route — then `Add`. `CloseProxy` and the exit of a control (`Disconnect`, `Connect`) give it back step
by step. Kind "stcp" stands for STCP and SUDP, "http" for HTTP, HTTPS and tcpmux without a group.

Two places where the code keeps less than one might expect are part of the model, and the
properties are stated around them:

* `XUDPProxy.Run` registers a visitor listener and then a NAT hole client. If the second is refused
  (an XTCP proxy of the same name is being registered), nobody closes the first, because RegisterProxy
  closes a proxy only once Run succeeded. The model names the owner `Leaked`; `NothingAbandoned` says
  that nothing else is ever left behind.
* `Acquire` for port 0 returns the port reserved for the name when it can be bound, without looking
  whether the port is free. A port promised to another proxy but not yet bound can so be handed out
  twice, and the Release of whoever loses the bind marks it free. The history variable `stolen` holds
  such ports; `PortsAccounted` speaks of the others, `RegisteredOwns` of all.

### NatHole

One proxy name, registered up to `MaxGenerations` times; each registration has its own `sidCh` and its
own loop. `session[v]` is a visitor's handler with its Session, `client[v]` is frpc's side of it. The
look-up of a session and the use of what it found are two actions (`HandleClient`, `StoreClient`;
`ReportSucceeds`, `HandleReport`), and so are the analyzer's look-up and the record's own lock
(`FindRecord`, `Recommand`), with `Clean` in between. A record keeps its identity when it leaves the
map. `EarlierAttempt` makes earlier attempts of a pair that failed, one `recommand` each, up to
`PriorAttempts`. Scores have a cap and no floor, as in the code.

`HandleVisitor` offers its session id on an unbuffered channel that nobody reads once the proxy's loop
has ended, and that is never closed. A handler caught there waits for ever and its session stays in
the map; `Settled` says that this is the only way not to return.

### XUDPVisitor and XUDPProxy

The threads of the visitor are the dispatcher with everything it calls (`disp`), the goroutine of a NAT
preparation (`prep`), ForwardUserConn (`forward`), Close (`closer`), and for each transport the body
of runActiveTransport, its reader, its sender and the goroutine that watches for cancellation
(`tr[t]`). A send on a broken or closed connection may have been accepted or not; which error the code
sees is a choice. When frps tells MakeHole to listen on random ports as well, a goroutine reads each socket
and closes it when its read times out or its message finds nobody waiting; `strays` counts the sockets left
to such goroutines when MakeHole has returned. The proxy's side is a goroutine per work connection, which
moves it from `pendingConns` to `activeConns`, and a table of what each plane has opened (`resource`).

### ClientSession

The login loop with the steps of a dial, Run waiting for its context and then stopping, one worker per
control, a monitor and a check worker per wrapper, one reload at a time. `up` and `down` are the
messages on their way; frps answers them in order. `history` records the two events after which frpc and
frps may disagree in the code: a proxy was refused (a late refusal is given to whichever wrapper has the
name now), and a start was retried before its first answer came. `Agreement` says what holds otherwise.

### The others

The header comment of each module names its goroutines and its abstractions. Worth knowing:

* `ConfigStore` can be killed between any two steps of an edit, in the middle of writing the temporary
  file too (`Torn`); `promised` holds what callers have been answered.
* `VhostRoutes` and `UDPPacketCodec` are algorithms, checked against a definition by what they should
  compute: the best route by quantifying over all routes, the codec by decoding what it encodes and
  by refusing every truncated or extended body.
* `VirtualNet` represents a duration as the set of the bits of its 64-bit number, so the product in
  the reconnection delay overflows as it does in Go without leaving TLC's integers.
* `FastBackoff` keeps time relative to the present, which makes its state space finite without a bound.
* `ProxyTraffic` has days of given length and a proxy that is closed and comes back with another type
  while connections of the earlier one still run. Registering a name and counting it are two steps, and so
  are releasing the name and discounting it, as in handleNewProxy and closeProxy: another control may have
  the name before its predecessor's close is counted.
* `WireHandshake` lets frps refuse what is well formed (authentication, plugins, an unknown run id, a full
  pool), and gives a work connection that it accepts no answer until a user comes (`PoolConnTaken`).
* Writes without a deadline may block: `MessageTransport` has the queue and the send loop of the dispatcher,
  `ClientWorkConns` a work connection whose peer has stopped reading ("stalled"), `VirtualNet` a tun reader
  that writes into a pipe nobody reads.
* `ClientWorkConns` lets a plugin keep a connection after Handle returned, and has every interleaving of
  InWorkConn calls of one UDP proxy with each other and with Close (`raced` notes the two that leak).

## 3. Runs

| Run | Instance | Shows |
|---|---|---|
| `control_generations` | 3 controls, 3 run ids, 2 client ids, one of them also a run id, shutdown | `TypeOK`; `HandoffExclusive`: workers of two generations never overlap; `NoGhostOnline`: nobody is shown online whom no bookkeeping can take offline; `CurrentIsOnline`; `RegistryIndexed`; `UniqueClientID` |
| `control_ends` | 2 controls with a work connection and shutdown, or a chain of 3 | `PoolSound`: no work connection is lost in a closed pool; `LoginEnds`: every login that reached the manager is answered or fails; `ShutdownDrains`: after cm.Close nothing remains |
| `proxy_registration` | 2 controls, 2 names, 2 ports, 2 routes, 1 group, at most 1 port per client | `TypeOK`; `RegisteredOwns`: a running proxy keeps everything it took; `NothingAbandoned`: nothing stays taken without a proxy; `QuotaExact`; `PortsAccounted` |
| `nat_hole` | 2 attempts, 4 pairs of NATs, 3 earlier attempts of one pair | `TypeOK`; `RolesFit`: the role of each peer fits its NAT; `WindowsMeet`: the receiver still reads when the sender starts; `Rotates`: no behaviour is repeated before its equals were tried; `ScoresHonest`: scores are their history |
| `xudp_switch` | 2 datagrams, 3 transports, queues of 1, no random ports | `TypeOK`, `AcceptedInOrder`, `NothingLost`, `LiveIsCurrent`, `InboundCurrent`, `PhaseTellsProbe` |
| `xudp_close` | 1 datagram, 2 transports, 1 random port, 2 sockets left behind | `ClosedReleases`: Close leaves no connection or worker, and no socket but those that nathole.Prepare and MakeHole still read; `CloseEnds`: Close returns, and those sockets are closed |
| `parts` | 23 instances, see below | `PartsTypeOK`; `RecordsTrue`, `ConfigKept`, `ConnectionsReleased`, `DatagramPathsReleased`, `NoPanicNoStorm`, `DashboardExact`, `RequestsRouted`, `PeersUnderstand` |
| `lifecycles` | 17 instances, see below | `LifecyclesEnd`; `UDPQueueKept`, `SUDPQueueKept`: refinement of `DatagramQueue` |
| `nat_public`, `nat_scores`, `health_continuous`, `vnet_backoff` | | violated, see section 6 |

The properties of `parts` are conjunctions over parts, each conjunct defined and explained in its
module:

| Property | Conjuncts |
|---|---|
| `RecordsTrue` | `ClientSession!Agreement`, `VisitorManager!VisitorsRecorded`, `VirtualNet!RoutesLive`, `RunningRouted` |
| `ConfigKept` | `ConfigStore!StoreDurable`, `AppliedCurrent` |
| `ConnectionsReleased` | `ClientSession!SessionsClosed`, `XTCPTunnel!SocketsAccounted`, `ClientWorkConns!WorkConnsReleased`, `ProxyTraffic!HandlersRelease` |
| `DatagramPathsReleased` | `UDPWorkConn!PortReleasedLast`, `SUDPVisitor!SUDPClosedReleases`, `XUDPProxy!PlanesRelease`, `XUDPClosedReleases`, `UDPForwarder!NoOrphan`, `ForwarderReleases` |
| `NoPanicNoStorm` | `ClientSession!NoNilControl`, `ClientWorkConns!ClosedOnce`, `FastBackoff!RetriesPaced` |
| `DashboardExact` | `ProxyTraffic!CountsExact`, `TrafficByDay`, `DashboardLists!ListsExact` |
| `RequestsRouted` | `VhostRoutes!BestRoute`, `VhostGroups!MembersReachable` |
| `PeersUnderstand` | `WireHandshake!HandshakeAgrees`, `RefusedIncompatible`, `SUDPBridge!PacketsCarried`, `EncodingsBridged`, `CodecExact` |

`LifecyclesEnd` is `Pending ~> Settled`, where each of sixteen modules says what has begun and
what it must come to: Close returns (UDP proxy, SUDP visitor, XUDP proxy, virtual network, XTCP), the
goroutines and connections of a closed SUDP proxy end (work conns), a stopped service stops, a reload
returns, a request returns, a handshake ends on both sides, a user connection is served or closed
(visitors, groups), a visitor's NAT hole handler returns, a bridge does not outlive one of its sides, a
cancelled forwarder returns, a tunnel of the SSH gateway leaves nothing behind.

Every property of a passing run has a mutant in `PROJECT.json`: a plausible bug in the mapped
definition with which TLC finds the property violated. The mutated forms stand before the
definition they replace, with a comment that says what they get wrong, and no specification uses them.

### Bounds

Three generations are the least with which a pending login is replaced while its predecessor's worker
still runs, the case the inherited barrier exists for, and three controls let two clients claim one
client id while a third takes the key as its run id. Two controls are enough for every race of a
registration, since each compares one proxy with one other; while members of a group exist, the only other
proxies of that instance are TCP proxies, with which they share the ports. Three transports make one relay, a P2P
connection that recovers from it, and one after that fails; two datagrams with queues of one make a full
queue, a datagram in the sender's hand and an order to violate. Two transports suffice for Close
during a probe: the relay and the candidate. One random port beside the prepared socket is the least with
which MakeHole may return a socket it opened itself, or leave one or both behind (`RandomPorts`); two sockets
left behind (`MaxStrays`) are the prepared one and that of the port.

For hole punching, three earlier attempts bring the pair with a public peer to the behaviours with the
long delays, and the pair HardNAT and EasyNAT from mode 2 to mode 1. The instance reaches the modes 0, 1, 2
and 4. Mode 3 (both peers change ports regularly) is not reached, nor is the cap of a score at 10; the
proofs cover both. `nat_scores` makes 31 earlier attempts, one more than ten for each of the three behaviours of
its pair.

In `parts`, two controls and one reload let a relogin overtake a reload; two starts of one proxy let
a late answer meet a newer wrapper. Two edits of the store are one that was answered and one during
which frpc dies. Three visitors of two names are one that is replaced and one to fall back to. Three
datagrams over two connections leave one in the queue, one in hand and one to be dropped, once before
and once after a reconnection. Three sockets of two users let an address come back after its socket has
gone. Two work connections of a proxy are one that replaces the other; those of `ClientWorkConns`, `XUDPProxy`
and `ProxyTraffic` are interchangeable (`ConnSymmetry`), for no invariant tells them apart. `ProxyTraffic` is
instantiated twice, with two types on one day and with one type on three days. Two pipes of a virtual-network
plugin are one being cleaned up while the next is registered. Four routes over three domains, three
locations and two users reach every tie the search has to break. Three group objects are one that is
current, one that a proxy still holds after it left the registry, and one after that. The smallest
payload sizes are chosen so that each limit (payload, frame, JSON message, zone) is met exactly and
exceeded by one. `lifecycles` uses the same instances where TLC's liveness check allows it; where it
does not, one datagram, one connection or one user less, with two connections for every part whose
property is about replacement.

### Deadlock

Checked for `proxy_registration`. In the other runs the system may stop: logins are used up, visitors
have made their attempts, or what is modelled has been closed.

## 4. Fairness

Weak fairness of every goroutine: one that can run does. What users, operators and networks do (new
logins, datagrams, breaks, shutdown) is never obliged to happen. Beyond the Go scheduler the liveness
properties rest on the following, and nothing else.

* Control sessions: no step of a login handler, worker or closer waits for the network; a broken
  connection is what makes the worker stop, and the code closes the connection itself.
* NAT hole sessions: a handler's waits and a loop's wait for a work connection have timeouts.
* XUDP visitor: a send or receive is fair only once its connection is closed, because a closed connection
  returns errors at once while an open one may block for ever. Strong fairness of leaving the relay loop
  stands for Go's select: the probe timer needs at least 0.8 s to become ready, and the cancellation
  stays ready in between, so the timer cannot win for ever.
* `lifecycles`: a request of a work connection, a write of a response and the opening of a stream return
  by their deadline or by the session's keepalive; a request over the control connection by its
  timeout; a handshake by the deadlines of acceptConnection and exchangeLogin; a join of the SSH
  gateway with the end of the SSH connection; a control connection whose peer is silent or does not read, by
  the heartbeat or the keepalive of the multiplexer. Strong fairness where a step is not enabled all the
  time but the runtime serves waiters in turn: senders on a full channel, waiters for a mutex,
  and a select that has a timer beside a
  channel that is always ready.

Where the code sets no deadline, no fairness is assumed, and the properties except what waits there: a
nathole.Prepare under way; a pooled work connection that no user has come for; a write on an open connection
whose peer does not read, of the SUDP proxy and of the virtual network; the offer of a session id to a
proxy that has been closed.

The heartbeat is a real condition: a reload that sends CloseProxy under `pm.mu` and a reader that waits for
`pm.mu` can wait for each other when the queues are full, and with heartbeats off, which is the default
over tcpMux, nothing in the code ends that.

## 5. Proofs

Nothing is assumed in a proof but the named ASSUMEs on constants and the hypotheses a theorem states.

### Control sessions

For any sets of controls, run ids, client ids, logins and work connections, any pool capacity, with and
without shutdown (`ControlAssumption`, `RegistryAssumption`), `ControlManagerProofs` proves the first three of
these and `ControlManagerOnline` the others:

* `TypeCorrect`: `Spec => []TypeOK`;
* `Exclusive`: `Spec => []HandoffExclusive`;
* `PoolIsSound`: `Spec => []PoolSound`;
* `NoGhosts`: `Spec => []NoGhostOnline`;
* `StaysOnline`: `Spec => []CurrentIsOnline`;
* `MapsAgree`: `Spec => []RegistryIndexed`;
* `ClientIDsUnique`: `Spec => []UniqueClientID`.

The first three follow from one inductive invariant, `HandoffInv` (`ControlManagerTypes`).
`HandoffExclusive` alone is not inductive: whether a control may start depends on the barrier it waits
for. The strengthening says, one conjunct each,

* `Linked`: how the login handler, the worker and the control's state go together;
* `Current`: the control of a current entry is pending or has a live worker;
* `OwnEntrySeen`, `Closer`: a look-up that found the control's own entry cannot be outdated by a
  later entry of the same control, for the login, the worker and the manager's shutdown;
* `WritingIsCurrent`: whoever holds a gate to write LoginResp is current;
* `BarrierCovers`, the heart: a control with a live worker is the current one of its run id; or the
  current one is still pending, waits for exactly that worker and has not passed the wait; or the
  manager is closed and the run id has no current control any more;
* `WorkLinked`, `PoolInv`: what a work connection's handler holds; a channel is closed only by the
  worker's drain step and holds only pooled connections.

`ControlManagerTypes` defines it and proves types, step by step; `ControlManagerSteps` has the steps that make,
install, start, remove or close a control; `ControlManagerProofs` those that move one thread, the pool and the
theorems.

The last four are about the client registry, which is written under locks of its own after the manager's
decision, and follow from a second invariant on top of the first, `RegistryInv` (`ControlManagerRegistry`). None
of the four is inductive: whether the run that Activate registers leaves another one behind depends on what
the maps say of both, and whether Remove may mark an entry offline on who registered it. `RegistryInv` is

* `Indexed`: the two maps describe the same ownership, and an entry names a run exactly while it is online;
* `Booked`, `Keyed`: what a control carries before it is admitted; an online entry is stored under the key of
  a control of its run;
* `NoGhostOnline` and `CurrentIsOnline` themselves;
* `IDHeld`, `CommittedCurrent`, `IDUnique`: a control that has passed the uniqueness check of its client id
  holds the entry of that id while it is current, stops being current without being closed only at shutdown,
  and shares its id with no other such control.

`ControlManagerRegistry` proves what each operation of the registry does to it, and that every step but
Activate and Remove leaves it alone; `ControlManagerOnline` has these two and the theorems. The proofs are in
five modules because each stays small enough for the proof manager.

### NAT hole punching

For any sets of visitors and peers and any number of registrations and earlier attempts, `NatHoleProofs` proves

* `TypesHold`: `Spec => []TypeOK`;
* `RolesFollowNATs`: `Spec => []RolesFit`;
* `WindowsAlwaysMeet`: `Spec => []WindowsMeet`;
* `BehavioursRotate`: `Spec => []Rotates`;
* `ScoresAreHistory`: `Spec => []ScoresHonest`.

The difficulty is that sessions share the records of the analyzer through a key, and use them after they
have left the map: what a session may tell its peers depends on which NATs a record was made for. The
inductive invariant `NatInv` says

* `RecordsInv`: each behaviour occurs once in a record, so that a recommendation charges one and a report
  credits one; scores are at most 10, so that there is a best; a behaviour's score is its history, and the
  numbers of times that behaviours that started equal were tried differ by at most one until a report;
* `MapInv`: the record under the key of two peers was made for NATs of their types;
* `HandlersInv`: frpc's message is stored once, and before the analysis reads it; the record a session uses
  was made for NATs of the types of its peers; modes 3 and 4 are given to two HardNATs only;
* `LoopInv`: a session id that a loop holds has not reached frpc, and no other loop holds it;
* `Unmade`, `EarlierInv`: a record exists only once its session, or an earlier attempt, has made it.

The lemmas before it are about the operators: `BestIsBest`, what `recommand` picks; `TableFresh` and
`NewRecordsFresh`, what a new record holds; `ChargedRecord` and `CreditedRecord`, that a charge and a credit keep
`RecordInv`.

### Relayed datagrams

`DatagramQueue` is what a user of a relayed UDP port is promised: datagrams wait in a bounded queue and
are handed over in order to one connection at a time; only a full queue drops one before it was
tried; a failed write leaves open whether the datagram was sent, and it is tried again (`MayRepeat`, the
UDP proxy) or given up (the SUDP visitor).

* `QueueInOrder` (`DatagramQueue`): `QueueSpec => []InOrder` for every capacity: what connections are
  given is in the order of arrival, each datagram once unless it may be repeated. `InOrder` is about what
  has been sent; what is sent next comes from the backlog, so the invariant `QueueInv` adds that the
  backlog is increasing (`Sorted`), lies behind all that was sent (`Behind`), and that both consist of
  datagrams that were read (`Read`).
* `UDPImplementsQueue` (`UDPQueueProofs`): `UDPSpec => Queue!QueueSpec`, for every capacity of the channel
  that is a natural number and every number of datagrams and connections. The mapping: the backlog is
  the datagram the sender keeps (`pending`), then `sendCh`, and nothing once the dispatcher has ended; the
  link is up while a sender runs. Two invariants are needed: `SenderInv`, that a sender runs only within
  a round of the dispatcher and holds a datagram exactly from taking it to writing it, and `StartInv`,
  that the dispatcher has not started before Run. Each of the proxy's goroutines has its lemma: the
  user's datagram is an Accept or a Refuse, the sender's write a Hand or a FailedHand, the dispatcher's
  steps a Connect, a Disconnect, the End or nothing, and the rest is not seen.
* `UDPInOrder`: therefore the UDP proxy writes datagrams in the order of their arrival, through any number
  of work connections.

### Only model-checked

Everything in section 3 that this section does not name; in particular liveness, which depends on fairness
and ENABLED, the refinement of `DatagramQueue` by `SUDPVisitor`, and the algorithms with recursion over
data (routes, codec, lists).

## 6. Where code and comments disagree

* `nat_public`: `pkg/nathole/analysis.go:28` says of mode 0 "PublicNetwork is always receiver". The
  behaviours in which it receives only start one point ahead, so after five attempts without success it is
  told to send.
* `nat_scores`: `pkg/nathole/analysis.go:261` says of a score "between -10 and 10". Only reportSuccess bounds
  it, from above; recommand (`pkg/nathole/analysis.go:253`) takes a point however few are left, so the 31st attempt
  without success takes one of three behaviours to -11.
* `health_continuous`: `conf/frpc_full_example.toml:209` says a proxy is removed "If continuous failed in 3
  times". A success does not reset the counter (`client/health/health.go:129`), so failures that
  successes separate add up.
* `vnet_backoff`: `pkg/plugin/visitor/virtual_net.go:154` says "60s, 120s, 240s, 300s (capped)". The
  product overflows before the minimum is taken: the 29th consecutive error gives a negative delay, and
  from the 54th on it is 0.

## 7. What the properties are stated around

The models follow the code also where it gives less than one might expect; the properties then say what
holds all the same. Besides the two places named under `ProxyRegistration` and the one under `NatHole`:

* a login reads the configuration before it builds its control (`client/service.go:334`), so a reload
  that comes in between is lost on the new control until the next one; `Agreement` compares frps with
  what the control was given;
* a late refusal of frps is given to whichever wrapper has the name now (`client/control.go:170`), and the
  wrapper may then show an error although its own request succeeds; `Agreement` excepts what follows a
  refusal, and the instances of `ClientSession` let frps refuse only names that are taken;
* during shutdown the login loop may find `svr.ctl` nil (`client/service.go:278-288`); `NoNilControl`
  speaks of the time before;
* a virtual-host muxer that finds its listener closed drops the connection without closing it
  (`pkg/util/vhost/vhost.go:218-224`); the lifecycle of a group excepts that connection;
* a socket of hole punching whose result came before MakeHole waited for it is closed and the attempt times
  out (`pkg/nathole/nathole.go:272-275`);
* keepTunnelOpen's first event may start a second tunnel while a user's is live, whose session is then
  overwritten (`client/visitor/xtcp.go:118`); `SocketsAccounted` allows for that one;
* statistics of a day of 23 hours are added to the day before (`pkg/util/metric/date_counter.go:118`);
  `TrafficByDay` is checked for days of 24 hours;
* an XTCP session that was made while the visitor closed is installed after Close has looked for one;
  `SocketsAccounted` allows for that one too. In the same way a control that frpc's login installs after stop
  has looked for one stays open (`client/service.go`); `SessionsClosed` excepts it;
* two InWorkConn calls of one UDP proxy, or one and Close, may leave the connection that lost without a closer
  (`client/proxy/udp.go`); `WorkConnsReleased` excepts those that `raced` notes, and what a plugin has
  kept;
* the sockets of random ports that MakeHole leaves behind outlive Close until their reads end; `ClosedReleases`
  and `XUDPClosedReleases` allow for them, and `CloseEnds` says that they end;
* the name of a closed proxy is free before its close is counted, so that the late count marks the proxy that
  has the name by then offline (`server/control.go`); `CountsExact` says what holds of the counts all the same;
* statistics that are cleared while a connection of the proxy is still joined start again at 0, and the end
  of that connection makes them negative (`pkg/metrics/mem/server.go:177`); `CountsExact` excepts that entry
  (`outlived`);
* the configuration file, unlike the store, is written in place (`client/config_manager.go:73`);
  `StoreDurable` is about the store;
* a reload that frpc refuses does not undo the edit of the store that asked for it; `AppliedCurrent` excepts
  what follows a refused edit;
* the v2 lists know no proxies of type XUDP; `ListsExact` speaks of the types they know.

## 8. Not modelled

* Configuration types, loading and validation: conversions and checks of data without state.
* Authentication and server plugins: outcomes (accepted, refused) in the models that call them.
* Client plugins (HTTP, SOCKS5, static files, TLS offload): translation of byte streams by library servers;
  the hand-over of a connection to a plugin is in `ClientWorkConns`.
* Web API, dashboards and command line beyond the store's edits and the v2 lists: reads of state other
  parts own, and start-up of the process.
* The XUDP session table (`pkg/xudp/session`): no code uses it outside its own tests.
* Utilities (limits, logging, feature gates).
* In the parts that are modelled: encryption, compression and bandwidth limits around a byte stream,
  parsing of TLS and HTTP heads, candidate ports and TTLs of hole punching, free-text search and detail
  pages of the dashboard, Prometheus export. STUN, QUIC, the SSH library and the tun device are outcomes
  of the calls made to them.
