---------------------------- MODULE MCLifecycles -----------------------------
(***************************************************************************)
(* What must eventually happen in the parts of frpc and frps, checked in one *)
(* run under the fairness that the Go scheduler and the timeouts of the code *)
(* justify.  As in MCParts the variable part, chosen at the start,           *)
(* says which part the behaviour is about, and s1, s2, ... hold its state in *)
(* the order of the VARIABLES of its module.  Each part has a predicate      *)
(* Pending, something that has begun, and one, Settled, that says it is over. *)
(***************************************************************************)
EXTENDS Integers, Sequences

CONSTANTS None, Nobody, Keeper, NoChannel, p1, p2, k1, k2, u1, u2, c1, c2, w1, h1, a1, a2

VARIABLES part, s1, s2, s3, s4, s5, s6, s7, s8, s9, s10, s11, s12, s13, s14, s15, s16, s17, s18,
          s19, s20

\* A packet that both encodings carry and one that only the binary one does.
NoAddr  == [ip |-> <<>>, port |-> -1, zone |-> <<>>]
Addr6   == [ip |-> <<0, 0, 7>>, port |-> 255, zone |-> <<1, 2>>]
Packets == {[local |-> NoAddr, remote |-> Addr6, content |-> c] : c \in {<<0, 1, 3>>, <<0, 1, 3, 4>>}}

\* Two hosts behind NATs that change their ports, who have not met before.
Peer(ip, port, next) == [mapped |-> <<[ip |-> ip, port |-> port], [ip |-> ip, port |-> next]>>,
                         assisted |-> {}]
Unmet == {[visitor |-> Peer(1, 40, 60), client |-> Peer(2, 40, 42), times |-> 0]}

-----------------------------------------------------------------------------
above18 == <<s19, s20>>
above16 == <<s17, s18, above18>>
above15 == <<s16, above16>>
above14 == <<s15, above15>>
above13 == <<s14, above14>>
above11 == <<s12, s13, above13>>
above10 == <<s11, above11>>
above9 == <<s10, above10>>
above8 == <<s9, above9>>
vars == <<part, s1, s2, s3, s4, s5, s6, s7, s8, s9, s10, s11, s12, s13, s14, s15, s16, s17, s18,
          s19, s20>>

Unused18 == s19 = 0 /\ s20 = 0
Unused16 == s17 = 0 /\ s18 = 0 /\ Unused18
Unused15 == s16 = 0 /\ Unused16
Unused14 == s15 = 0 /\ Unused15
Unused13 == s14 = 0 /\ Unused14
Unused11 == s12 = 0 /\ s13 = 0 /\ Unused13
Unused10 == s11 = 0 /\ Unused11
Unused9 == s10 = 0 /\ Unused10
Unused8 == s9 = 0 /\ Unused9

Channel == INSTANCE ControlChannel WITH
    Proxies <- {p1}, SendCap <- 1, PipeCap <- 1, MaxReloads <- 1, sendCh <- s1, pipe <- s2,
    readLoop <- s3, isOpen <- s4, done <- s5, phase <- s6, muPxy <- s7, update <- s8, reloads <- s9,
    ping <- s10, registered <- s11

Hole == INSTANCE NatHole WITH
    Visitors <- {u1, u2}, MaxGenerations <- 1, VisitorPeers <- {Peer(1, 40, 60)},
    ClientPeers <- {Peer(2, 40, 42)}, PriorAttempts <- Unmet, clientCfg <- s1, last <- s2, loop <- s3,
    closed <- s4, closing <- s5, session <- s6, client <- s7, records <- s8, scores <- s9, born <- s10,
    tried <- s11, credited <- s12, old <- s13, earlier <- s14

HoleAgain == INSTANCE NatHole WITH
    Visitors <- {u1}, MaxGenerations <- 2, VisitorPeers <- {Peer(1, 40, 60)},
    ClientPeers <- {Peer(2, 40, 42)}, PriorAttempts <- Unmet, clientCfg <- s1, last <- s2, loop <- s3,
    closed <- s4, closing <- s5, session <- s6, client <- s7, records <- s8, scores <- s9, born <- s10,
    tried <- s11, credited <- s12, old <- s13, earlier <- s14

XTCP == INSTANCE XTCPTunnel WITH
    Users <- {u1}, MaxSocks <- 2, MaxTries <- 1, keepOpen <- s1, cancelled <- s2, closer <- s3,
    caller <- s4, starter <- s5, sock <- s6, waiter <- s7, hole <- s8, session <- s9, up <- s10,
    orphans <- s11

XUDPP == INSTANCE XUDPProxy WITH
    Conns <- {c1}, closed <- s1, pendingConns <- s2, activeConns <- s3, closer <- s4,
    toClose <- s5, step <- s6, role <- s7, resource <- s8, stopped <- s9, closers <- s10, workers <- s11

UDP == INSTANCE UDPWorkConn WITH
    SendCap <- 1, ReadCap <- 1, MaxDatagrams <- 2, MaxConns <- 2, run <- s1, portHeld <- s2,
    udpConn <- s3, doneCh <- s4, sendCh <- s5, readCh <- s6, reconnectCh <- s7, pending <- s8,
    dispatcher <- s9, request <- s10, reader <- s11, sender <- s12, forwarder <- s13, writer <- s14,
    conn <- s15, workConn <- s16, conns <- s17, closer <- s18, arrived <- s19, sent <- s20

Session == INSTANCE ClientSession WITH
    MaxControls <- 2, MaxReloads <- 1, MaxStarts <- 1, LoginFailExit <- TRUE, MayRefuse <- FALSE,
    InitialCfgs <- [n \in {p1} |-> 1], ReloadCfgs <- {[n \in {p1} |-> v] : v \in {0, 2}},
    Names <- {p1}, Versions <- {1, 2}, HealthChecked <- {}, MaxFailed <- 1, ctxDone <- s1, run <- s2,
    sources <- s3, cfgs <- s4, ctl <- s5, login <- s6, reload <- s7, reloads <- s8, session <- s9,
    pm <- s10, up <- s11, down <- s12, reg <- s13, starts <- s14, panicked <- s15, history <- s16

Wire == INSTANCE WireHandshake WITH
    Algorithms <- {a1}, AlgorithmLists <- {<<a1>>}, client <- s1, server <- s2, c2s <- s3, s2c <- s4,
    cstep <- s5, sstep <- s6, cview <- s7, sview <- s8, hello <- s9, broken <- s10

Visitors == INSTANCE VisitorManager WITH
    Names <- {k1, k2}, Main <- k1, Fallback <- k2, Users <- {u1}, Versions <- {1, 2}, Backlog <- 1,
    MaxVisitors <- 3, MaxUpdates <- 2, cfgs <- s1, visitors <- s2, object <- s3, made <- s4,
    queue <- s5, keeper <- s6, stopped <- s7, updates <- s8, conn <- s9

VNet == INSTANCE VirtualNet WITH
    Plugins <- {1}, Pipes <- {c1, c2}, WorkConns <- {}, SrcIPs <- {a1, a2}, MaxErrors <- 1, run <- s1,
    closing <- s2, controllerConn <- s3, pipe <- s4, route <- s5, server <- s6, conns <- s7,
    srcIPConns <- s8, tun <- s9

Groups == INSTANCE VhostGroups WITH
    Proxies <- {p1, p2}, Conns <- {c1}, MaxGroups <- 2, kind <- s1, current <- s2, made <- s3,
    route <- s4, members <- s5, mu <- s6, ch <- s7, ln <- s8, worker <- s9, pxy <- s10, accepting <- s11,
    conn <- s12, refused <- s13

SUDP == INSTANCE SUDPVisitor WITH
    SendCap <- 1, ReadCap <- 1, MaxDatagrams <- 2, MaxConns <- 2, Closers <- {1, 2}, lifecycle <- s1,
    runner <- s2, listening <- s3, udpConn <- s4, sendCh <- s5, readCh <- s6, pending <- s7,
    dispatcher <- s8, request <- s9, conn <- s10, obtained <- s11, workerCloseCh <- s12,
    watcher <- s13, reader <- s14, sender <- s15, forwarder <- s16, writer <- s17, closer <- s18,
    arrived <- s19, sent <- s20

Bridge == INSTANCE SUDPBridge WITH
    V1Limit <- 12, MaxSent <- 1, MaxUDPPayloadSize <- 7, DefaultMaxFramePayloadSize <- 17,
    MaxZone <- 2, enc <- s1, written <- s2, toBridge <- s3, toSide <- s4, got <- s5, conn <- s6,
    copier <- s7, why <- s8

Forwarder == INSTANCE UDPForwarder WITH
    Keys <- {k1}, MaxSockets <- 2, managed <- s1, readChOpen <- s2, ctxDone <- s3, stopped <- s4,
    udpConnMap <- s5, key <- s6, socket <- s7, dialled <- s8, reader <- s9, dispatcher <- s10,
    user <- s11, entry <- s12, closing <- s13, closeAll <- s14, watcher <- s15

Transport == INSTANCE MessageTransport WITH
    Callers <- {u1, u2}, SendCap <- 1, MaxAnswers <- 2, caller <- s1, registry <- s2, channel <- s3,
    closed <- s4, result <- s5, answers <- s6, reader <- s7, found <- s8, done <- s9, sendCh <- s10,
    sendLoop <- s11

Work == INSTANCE ClientWorkConns WITH
    WorkConns <- {c1}, SendCap <- 1, kind <- s1, stopped <- s2, handler <- s3, workConn <- s4,
    localConn <- s5, chans <- s6, queued <- s7, sender <- s8, reader <- s9, beat <- s10,
    forwarder <- s11, current <- s12, closed <- s13, raced <- s14

SSH == INSTANCE SSHTunnel WITH
    Channels <- {h1}, WorkConns <- {w1}, Pipes <- {c1}, sshConn <- s1, run <- s2, forward <- s3,
    exec <- s4, channel <- s5, keepAlive <- s6, firstChannel <- s7, muFirst <- s8, vcRun <- s9,
    cancelled <- s10, control <- s11, proxy <- s12, vcListener <- s13, transfer <- s14, pipe <- s15,
    frpsListener <- s16, doneCh <- s17, workConn <- s18

PartsInit ==
    \/ part = "channel" /\ Channel!ChannelInit /\ Unused11
    \/ part = "nat hole" /\ Hole!Init /\ Unused14
    \/ part = "nat hole again" /\ HoleAgain!Init /\ Unused14
    \/ part = "xtcp" /\ XTCP!TunnelInit /\ Unused11
    \/ part = "xudp proxy" /\ XUDPP!XUDPProxyInit /\ Unused11
    \/ part = "udp proxy" /\ UDP!UDPInit
    \/ part = "session" /\ Session!Init /\ Unused16
    \/ part = "handshake" /\ Wire!HandshakeInit /\ Unused10
    \/ part = "visitors" /\ Visitors!ManagerInit /\ Unused9
    \/ part = "vnet" /\ VNet!VNetInit /\ Unused9
    \/ part = "groups" /\ Groups!GroupsInit /\ Unused13
    \/ part = "sudp visitor" /\ SUDP!SUDPInit
    \/ part = "sudp bridge" /\ Bridge!BridgeInit /\ Unused8
    \/ part = "forwarder" /\ Forwarder!ForwarderInit /\ Unused15
    \/ part = "transport" /\ Transport!TransportInit /\ Unused11
    \/ part = "work conns" /\ Work!WorkConnsInit /\ Unused14
    \/ part = "ssh" /\ SSH!SSHInit /\ Unused18

PartsNext ==
    /\ UNCHANGED part
    /\ \/ part = "channel" /\ Channel!ChannelNext /\ UNCHANGED above11
       \/ part = "nat hole" /\ Hole!Next /\ UNCHANGED above14
       \/ part = "nat hole again" /\ HoleAgain!Next /\ UNCHANGED above14
       \/ part = "xtcp" /\ XTCP!TunnelNext /\ UNCHANGED above11
       \/ part = "xudp proxy" /\ XUDPP!XUDPProxyNext /\ UNCHANGED above11
       \/ part = "udp proxy" /\ UDP!UDPNext
       \/ part = "session" /\ Session!Next /\ UNCHANGED above16
       \/ part = "handshake" /\ Wire!HandshakeNext /\ UNCHANGED above10
       \/ part = "visitors" /\ Visitors!ManagerNext /\ UNCHANGED above9
       \/ part = "vnet" /\ VNet!VNetNext /\ UNCHANGED above9
       \/ part = "groups" /\ Groups!GroupsNext /\ UNCHANGED above13
       \/ part = "sudp visitor" /\ SUDP!SUDPNext
       \/ part = "sudp bridge" /\ Bridge!BridgeNext /\ UNCHANGED above8
       \/ part = "forwarder" /\ Forwarder!ForwarderNext /\ UNCHANGED above15
       \/ part = "transport" /\ Transport!TransportNext /\ UNCHANGED above11
       \/ part = "work conns" /\ Work!WorkConnsNext /\ UNCHANGED above14
       \/ part = "ssh" /\ SSH!SSHNext /\ UNCHANGED above18

-----------------------------------------------------------------------------
(***************************************************************************)
(* Fairness.  In every part a goroutine that can run does run: k numbers the *)
(* goroutines of a part, and what is not listed (what users, networks and    *)
(* operators do) is never obliged to happen.  Beyond the scheduler:          *)
(*   - calls on a network return: a request of a work connection, the write  *)
(*     of a response and the open of a stream by their deadline or by the    *)
(*     keepalive of the session, the wait of an RPC for its answer by its    *)
(*     timeout, a handshake by the deadlines of acceptConnection and         *)
(*     exchangeLogin, a join of SSH by the end of the SSH connection, a      *)
(*     control connection that is silent or takes no more by the heartbeat   *)
(*     or the keepalive, a read or a write of a connection that has been     *)
(*     closed at once;                                                       *)
(*   - these may last for ever: the preparation of a hole, the wait of a     *)
(*     pooled work connection for a user, a write without a deadline on an   *)
(*     open connection of the SUDP proxy or of the virtual network whose     *)
(*     peer does not read, and the offer of a session id to a closed proxy;  *)
(*   - a channel and a mutex serve those that wait for them in turn, and a   *)
(*     select does not choose its timer for ever over a channel that is      *)
(*     always ready: strong fairness, where the step is not enabled all the  *)
(*     time.                                                                 *)
(***************************************************************************)
Parts == {"channel", "nat hole", "nat hole again", "xtcp", "xudp proxy", "udp proxy", "session", "handshake",
          "visitors", "vnet", "groups", "sudp visitor", "sudp bridge", "forwarder",
          "transport", "work conns", "ssh"}

\* How many goroutines of a part are treated fairly, and how many strongly so.
Goroutines == [p \in Parts |->
    CASE p \in {"channel", "vnet", "sudp visitor"} -> 7
      [] p \in {"xtcp", "udp proxy", "ssh"} -> 6
      [] p = "session" -> 5
      [] p \in {"visitors", "work conns", "transport"} -> 4
      [] p \in {"nat hole", "nat hole again", "xudp proxy", "groups", "forwarder"} -> 3
      [] p \in {"handshake", "sudp bridge"} -> 2]

Waiters == [p \in Parts |->
    CASE p = "ssh" -> 3
      [] p \in {"channel", "xtcp", "groups", "work conns"} -> 2
      [] OTHER -> 0]

ChannelRuns(k) ==
    CASE k = 1 -> Channel!SendLoop("frpc")
      [] k = 2 -> Channel!SendLoop("frps")
      [] k = 3 -> Channel!Reading("frpc")
      [] k = 4 -> Channel!Reading("frps")
      [] k = 5 -> Channel!PingDue
      [] k = 6 -> Channel!SendHeartBeat
      [] k = 7 -> (\E s \in Channel!Sides : Channel!HeartbeatTimesOut(s))

HoleRuns(k) ==
    CASE k = 1 -> Hole!Proceeds(u1)
      [] k = 2 -> Hole!Proceeds(u2)
      [] k = 3 -> Hole!Loop(1)

HoleAgainRuns(k) ==
    CASE k = 1 -> HoleAgain!Proceeds(u1)
      [] k = 2 -> HoleAgain!Loop(1)
      [] k = 3 -> HoleAgain!Loop(2)

XTCPRuns(k) ==
    CASE k = 1 -> XTCP!Caller(u1)
      [] k = 2 -> XTCP!Caller(Keeper)
      [] k = 3 -> XTCP!Starting
      [] k = 4 -> XTCP!Waiting(1)
      [] k = 5 -> XTCP!Waiting(2)
      [] k = 6 -> XTCP!CloseSession

XUDPPRuns(k) ==
    CASE k = 1 -> XUDPP!Closing
      [] k = 2 -> (XUDPP!SettingUp(c1) \/ XUDPP!Stopping(c1))
      [] k = 3 -> XUDPP!ReaderCloses(c1)

UDPRuns(k) ==
    CASE k = 1 -> UDP!Dispatcher
      [] k = 2 -> UDP!RequestReturns
      [] k = 3 -> UDP!Reader
      [] k = 4 -> UDP!Sender
      [] k = 5 -> UDP!ForwardingEnds
      [] k = 6 -> UDP!CloseStep

SessionRuns(k) ==
    CASE k = 1 -> Session!Login
      [] k = 2 -> Session!Stop
      [] k = 3 -> Session!ReloadGoesOn
      [] k = 4 -> Session!WorkerEnds(1)
      [] k = 5 -> Session!WorkerEnds(2)

WireRuns(k) ==
    CASE k = 1 -> Wire!ClientSteps
      [] k = 2 -> Wire!ServerSteps

VisitorsRuns(k) ==
    CASE k = 1 -> Visitors!Handling(u1)
      [] k = 2 -> Visitors!AcceptInternal(1)
      [] k = 3 -> Visitors!AcceptInternal(2)
      [] k = 4 -> Visitors!AcceptInternal(3)

VNetRuns(k) ==
    CASE k = 1 -> VNet!Run(1)
      [] k = 2 -> VNet!Closing(1)
      [] k = 3 -> VNet!LoopEnds(c1)
      [] k = 4 -> VNet!LoopEnds(c2)
      [] k = 5 -> VNet!Visiting(c1)
      [] k = 6 -> VNet!Visiting(c2)
      [] k = 7 -> VNet!WriteEnds

GroupsRuns(k) ==
    CASE k = 1 -> Groups!Leaving(p1)
      [] k = 2 -> Groups!Leaving(p2)
      [] k = 3 -> Groups!Serving(c1)

SUDPRuns(k) ==
    CASE k = 1 -> SUDP!Dispatcher
      [] k = 2 -> SUDP!RequestReturns
      [] k = 3 -> SUDP!Reader
      [] k = 4 -> SUDP!Sender
      [] k = 5 -> SUDP!Forwarding
      [] k = 6 -> SUDP!CloseStep
      [] k = 7 -> SUDP!WatcherCloses

BridgeRuns(k) ==
    CASE k = 1 -> Bridge!Copies("in")
      [] k = 2 -> Bridge!Copies("out")

ForwarderRuns(k) ==
    CASE k = 1 -> Forwarder!Dispatching
      [] k = 2 -> Forwarder!Watching
      [] k = 3 -> Forwarder!Reading

TransportRuns(k) ==
    CASE k = 1 -> Transport!Do(u1)
      [] k = 2 -> Transport!Do(u2)
      [] k = 3 -> Transport!Dispatch
      [] k = 4 -> (Transport!SendLoopTakes \/ Transport!StalledEnds)

WorkRuns(k) ==
    CASE k = 1 -> Work!Handling(c1)
      [] k = 2 -> Work!Receiving(c1)
      [] k = 3 -> Work!Sending(c1)
      [] k = 4 -> Work!ForwarderEnds(c1)

SSHRuns(k) ==
    CASE k = 1 -> (SSH!ServiceStops \/ SSH!ClientEnds)
      [] k = 2 -> SSH!WriteReturns
      [] k = 3 -> SSH!FailureWritten
      [] k = 4 -> SSH!Moving
      [] k = 5 -> SSH!KeepAliveEnds(h1)
      [] k = 6 -> SSH!WorkConnEnds(w1)

Fair(k) ==
    /\ k <= Goroutines[part] /\ UNCHANGED part
    /\ CASE part = "channel" -> ChannelRuns(k) /\ UNCHANGED above11
         [] part = "nat hole" -> HoleRuns(k) /\ UNCHANGED above14
         [] part = "nat hole again" -> HoleAgainRuns(k) /\ UNCHANGED above14
         [] part = "xtcp" -> XTCPRuns(k) /\ UNCHANGED above11
         [] part = "xudp proxy" -> XUDPPRuns(k) /\ UNCHANGED above11
         [] part = "udp proxy" -> UDPRuns(k)
         [] part = "session" -> SessionRuns(k) /\ UNCHANGED above16
         [] part = "handshake" -> WireRuns(k) /\ UNCHANGED above10
         [] part = "visitors" -> VisitorsRuns(k) /\ UNCHANGED above9
         [] part = "vnet" -> VNetRuns(k) /\ UNCHANGED above9
         [] part = "groups" -> GroupsRuns(k) /\ UNCHANGED above13
         [] part = "sudp visitor" -> SUDPRuns(k)
         [] part = "sudp bridge" -> BridgeRuns(k) /\ UNCHANGED above8
         [] part = "forwarder" -> ForwarderRuns(k) /\ UNCHANGED above15
         [] part = "transport" -> TransportRuns(k) /\ UNCHANGED above11
         [] part = "work conns" -> WorkRuns(k) /\ UNCHANGED above14
         [] part = "ssh" -> SSHRuns(k) /\ UNCHANGED above18

ChannelIsServed(k) ==
    CASE k = 1 -> Channel!WorkerSends(p1)
      [] k = 2 -> Channel!Updating

XTCPIsServed(k) ==
    CASE k = 1 -> XTCP!OpenConn(u1)
      [] k = 2 -> XTCP!OpenConn(Keeper)

GroupsIsServed(k) ==
    CASE k = 1 -> Groups!Working(1)
      [] k = 2 -> Groups!Working(2)

WorkIsServed(k) ==
    CASE k = 1 -> Work!BeatSends(c1)
      [] k = 2 -> Work!BeatStops(c1)

SSHIsServed(k) ==
    CASE k = 1 -> SSH!Running
      [] k = 2 -> SSH!ReportsFailure
      [] k = 3 -> SSH!Session(h1)

StronglyFair(k) ==
    /\ k <= Waiters[part] /\ UNCHANGED part
    /\ CASE part = "channel" -> ChannelIsServed(k) /\ UNCHANGED above11
         [] part = "xtcp" -> XTCPIsServed(k) /\ UNCHANGED above11
         [] part = "groups" -> GroupsIsServed(k) /\ UNCHANGED above13
         [] part = "work conns" -> WorkIsServed(k) /\ UNCHANGED above14
         [] part = "ssh" -> SSHIsServed(k) /\ UNCHANGED above18

PartsSpec ==
    /\ PartsInit /\ [][PartsNext]_vars
    /\ \A k \in 1..7 : WF_vars(Fair(k))
    /\ \A k \in 1..3 : SF_vars(StronglyFair(k))

-----------------------------------------------------------------------------
\* What has begun in the part, and what it is to come to.
Pending ==
    CASE part = "channel" -> Channel!Pending
      [] part = "nat hole" -> Hole!Pending
      [] part = "nat hole again" -> HoleAgain!Pending
      [] part = "xtcp" -> XTCP!Pending
      [] part = "xudp proxy" -> XUDPP!Pending
      [] part = "udp proxy" -> UDP!Pending
      [] part = "session" -> Session!Pending
      [] part = "handshake" -> Wire!Pending
      [] part = "visitors" -> Visitors!Pending
      [] part = "vnet" -> VNet!Pending
      [] part = "groups" -> Groups!Pending
      [] part = "sudp visitor" -> SUDP!Pending
      [] part = "sudp bridge" -> Bridge!Pending
      [] part = "forwarder" -> Forwarder!Pending
      [] part = "transport" -> Transport!Pending
      [] part = "work conns" -> Work!Pending
      [] part = "ssh" -> SSH!Pending

Settled ==
    CASE part = "channel" -> Channel!Settled
      [] part = "nat hole" -> Hole!Settled
      [] part = "nat hole again" -> HoleAgain!Settled
      [] part = "xtcp" -> XTCP!Settled
      [] part = "xudp proxy" -> XUDPP!Settled
      [] part = "udp proxy" -> UDP!Settled
      [] part = "session" -> Session!Settled
      [] part = "handshake" -> Wire!Settled
      [] part = "visitors" -> Visitors!Settled
      [] part = "vnet" -> VNet!Settled
      [] part = "groups" -> Groups!Settled
      [] part = "sudp visitor" -> SUDP!Settled
      [] part = "sudp bridge" -> Bridge!Settled
      [] part = "forwarder" -> Forwarder!Settled
      [] part = "transport" -> Transport!Settled
      [] part = "work conns" -> Work!Settled
      [] part = "ssh" -> SSH!Settled

\* Whatever has begun comes to an end: every Close returns and its goroutines end
\* (client/visitor/sudp.go, client/proxy/xudp.go, sudp.go, server/proxy/udp.go,
\* pkg/proto/udp/udp.go, pkg/plugin/visitor/virtual_net.go, pkg/ssh/server.go), the bridge
\* of two SUDP encodings does not outlive a side (server/proxy/proxy.go), a service that is
\* told to stop stops (client/service.go), a reload returns though both ends of the control
\* connection may wait for each other (pkg/msg/handler.go), a request with an answer channel
\* returns and never blocks the reader (pkg/transport/message.go), a handshake ends on both
\* sides (pkg/proto/wire), a visitor's session of hole punching leaves the controller's map
\* (pkg/nathole/controller.go), a user connection is served or closed and not left between two
\* visitors or two members of a group (client/visitor, server/group), and opening a tunnel
\* returns (client/visitor/xtcp.go).  What may last for ever is excepted in Settled of the
\* part it belongs to.
LifecyclesEnd == Pending ~> Settled

\* The other parts show a queue that never sees a datagram.
UDPQueue == INSTANCE DatagramQueue WITH
    Capacity <- 1, MayRepeat <- TRUE,
    next    <- IF part = "udp proxy" THEN s19 ELSE 0,
    backlog <- IF part = "udp proxy" THEN UDP!Backlog ELSE <<>>,
    sent    <- IF part = "udp proxy" THEN s20 ELSE <<>>,
    link    <- IF part = "udp proxy" THEN UDP!Link ELSE "down",
    open    <- IF part = "udp proxy" THEN UDP!Serving ELSE TRUE

SUDPQueue == INSTANCE DatagramQueue WITH
    Capacity <- 1, MayRepeat <- FALSE,
    next    <- IF part = "sudp visitor" THEN s19 ELSE 0,
    backlog <- IF part = "sudp visitor" THEN SUDP!Backlog ELSE <<>>,
    sent    <- IF part = "sudp visitor" THEN s20 ELSE <<>>,
    link    <- IF part = "sudp visitor" THEN SUDP!Link ELSE "down",
    open    <- IF part = "sudp visitor" THEN SUDP!Serving ELSE TRUE

\* The UDP proxy implements the promise of DatagramQueue: datagrams go out in order, none is
\* lost when a work connection is replaced, and only one whose write failed is repeated
\* (server/proxy/udp.go Run, "preserves single-consumer ownership of sendCh across
\* reconnects").
UDPQueueKept == UDPQueue!QueueSpec

\* The SUDP visitor implements the promise of DatagramQueue: through any number of
\* reconnections datagrams go out in order, none is lost while it waits for a connection,
\* and none is given to two connections (client/visitor/sudp.go dispatcher, worker).
SUDPQueueKept == SUDPQueue!QueueSpec
==============================================================================
