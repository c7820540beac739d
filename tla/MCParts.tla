------------------------------- MODULE MCParts -------------------------------
(***************************************************************************)
(* The parts of frpc and frps that do not share state, checked in one run:   *)
(* the variable part is chosen at the start and says which of them the       *)
(* behaviour is about.  The variables s1, s2, ... hold the state of that     *)
(* part, in the order of the VARIABLES of its module; those it does not need *)
(* stay 0.                                                                   *)
(***************************************************************************)
EXTENDS Integers, Sequences, TLC

CONSTANTS None, Nobody, Keeper, Torn, NoChannel,
          p1, k1, k2, plain, off, vnet, u1, h1, c1, c2, x1, x2, w1

VARIABLES part, s1, s2, s3, s4, s5, s6, s7, s8, s9, s10, s11, s12, s13, s14, s15, s16, s17, s18,
          s19, s20

\* In every part x1 and x2 stand for things that no definition of its module tells
\* apart: connections, readers, users, callers, addresses, members, algorithms.
Interchangeable == Permutations({x1, x2})

\* The options of the three loops that use the backoff (client/service.go, client/control.go),
\* in half seconds.
Login == [duration |-> 2, factor |-> 2, jitter |-> <<1, 10>>, max |-> 20, initIfFail |-> 0,
          second |-> 2, fastCount |-> 0, fastDelay |-> 0, fastJitter |-> <<1, 1>>, ends |-> TRUE]
Keep  == [Login EXCEPT !.fastCount = 3, !.fastDelay = 1, !.fastJitter = <<1, 2>>, !.ends = FALSE]
Beat  == [Login EXCEPT !.duration = 15, !.max = 15, !.initIfFail = 2, !.ends = FALSE]

\* A domain, a wildcard for it and the catch-all; locations and paths by character.
Domains   == {<<"a", "b", "c">>, <<"*", "b", "c">>, <<"*">>}
Locations == {<<>>, <<1>>, <<1, 2>>}
Hosts     == {<<"a", "b", "c">>, <<"d", "b", "c">>, <<"b", "c">>, <<"d", "a", "b", "c">>}
Paths     == {<<>>, <<2>>, <<1, 2, 1>>}

\* Datagrams at the limits: the largest payload, an IPv4-mapped address, an empty
\* payload with both addresses, and two that differ in whether a JSON message can carry them.
NoAddr == [ip |-> <<>>, port |-> -1, zone |-> <<>>]
Addr4  == [ip |-> <<7>>, port |-> 256, zone |-> <<>>]
Mapped == [ip |-> <<255, 255, 7>>, port |-> 65535, zone |-> <<>>]
Addr6  == [ip |-> <<0, 0, 7>>, port |-> 255, zone |-> <<1, 2>>]
Packet(local, remote, content) == [local |-> local, remote |-> remote, content |-> content]
Packets == {Packet(NoAddr, Addr4, <<1, 2, 3, 4, 5, 6, 7>>), Packet(NoAddr, Mapped, <<1, 1>>),
            Packet(Addr4, Addr6, <<>>), Packet(NoAddr, Addr6, <<0, 1, 3, 4>>)}

\* Two users' clients, one of them without a client id, and proxies of three types, one
\* of which the v2 lists do not know.
Clients   == {<<1, 1>>, <<1, 2>>, <<2, 1>>}
Anonymous == {<<2, 1>>}
Proxy(type, name, user, client) == [type |-> type, name |-> name, user |-> user, client |-> client]
Proxies   == {Proxy(1, 5, 1, 1), Proxy(1, 2, 1, 2), Proxy(2, 3, 2, 1), Proxy(3, 1, 2, 1),
              Proxy(2, 4, 1, 1)}

-----------------------------------------------------------------------------
above18 == <<s19, s20>>
above16 == <<s17, s18, above18>>
above15 == <<s16, above16>>
above14 == <<s15, above15>>
above13 == <<s14, above14>>
above11 == <<s12, s13, above13>>
above10 == <<s11, above11>>
above9 == <<s10, above10>>
above8 == <<s9, above9>>
above7 == <<s8, above8>>
above3 == <<s4, s5, s6, s7, above7>>
above1 == <<s2, s3, above3>>
vars == <<part, s1, above1>>

Unused18 == s19 = 0 /\ s20 = 0
Unused16 == s17 = 0 /\ s18 = 0 /\ Unused18
Unused15 == s16 = 0 /\ Unused16
Unused14 == s15 = 0 /\ Unused15
Unused13 == s14 = 0 /\ Unused14
Unused11 == s12 = 0 /\ s13 = 0 /\ Unused13
Unused10 == s11 = 0 /\ Unused11
Unused9 == s10 = 0 /\ Unused10
Unused8 == s9 = 0 /\ Unused9
Unused7 == s8 = 0 /\ Unused8
Unused3 == s4 = 0 /\ s5 = 0 /\ s6 = 0 /\ s7 = 0 /\ Unused7
Unused1 == s2 = 0 /\ s3 = 0 /\ Unused3

Session == INSTANCE ClientSession WITH
    MaxControls <- 2, MaxReloads <- 1, MaxStarts <- 2, LoginFailExit <- TRUE, MayRefuse <- FALSE,
    InitialCfgs <- [n \in {p1} |-> 1], ReloadCfgs <- {[n \in {p1} |-> v] : v \in {0, 2}},
    Names <- {p1}, Versions <- {1, 2}, HealthChecked <- {}, MaxFailed <- 1, ctxDone <- s1, run <- s2,
    sources <- s3, cfgs <- s4, ctl <- s5, login <- s6, reload <- s7, reloads <- s8, session <- s9,
    pm <- s10, up <- s11, down <- s12, reg <- s13, starts <- s14, panicked <- s15, history <- s16

Checked == INSTANCE ClientSession WITH
    MaxControls <- 1, MaxReloads <- 1, MaxStarts <- 1, LoginFailExit <- TRUE, MayRefuse <- FALSE,
    InitialCfgs <- [n \in {p1} |-> 1], ReloadCfgs <- {[n \in {p1} |-> v] : v \in {0, 2}},
    Names <- {p1}, Versions <- {1, 2}, HealthChecked <- {p1}, MaxFailed <- 1, ctxDone <- s1,
    run <- s2, sources <- s3, cfgs <- s4, ctl <- s5, login <- s6, reload <- s7, reloads <- s8,
    session <- s9, pm <- s10, up <- s11, down <- s12, reg <- s13, starts <- s14, panicked <- s15,
    history <- s16

Config == INSTANCE ConfigStore WITH
    Keys <- {x1, x2}, Values <- {plain, off, vnet}, Disabled <- {off}, Unrunnable <- {vnet},
    Readers <- {c1, c2}, MaxOps <- 2, running <- s1, configFile <- s2, storeFile <- s3, tmpFile <- s4,
    base <- s5, store <- s6, applied <- s7, inSync <- s8, read <- s9, writing <- s10, op <- s11,
    answer <- s12, promised <- s13, ops <- s14

Visitors == INSTANCE VisitorManager WITH
    Names <- {k1, k2}, Main <- k1, Fallback <- k2, Users <- {u1}, Versions <- {1, 2}, Backlog <- 1,
    MaxVisitors <- 3, MaxUpdates <- 2, cfgs <- s1, visitors <- s2, object <- s3, made <- s4,
    queue <- s5, keeper <- s6, stopped <- s7, updates <- s8, conn <- s9

XTCP == INSTANCE XTCPTunnel WITH
    Users <- {u1}, MaxSocks <- 3, MaxTries <- 1, keepOpen <- s1, cancelled <- s2, closer <- s3,
    caller <- s4, starter <- s5, sock <- s6, waiter <- s7, hole <- s8, session <- s9, up <- s10,
    orphans <- s11

Work == INSTANCE ClientWorkConns WITH
    WorkConns <- {x1, x2}, SendCap <- 1, kind <- s1, stopped <- s2, handler <- s3, workConn <- s4,
    localConn <- s5, chans <- s6, queued <- s7, sender <- s8, reader <- s9, beat <- s10,
    forwarder <- s11, current <- s12, closed <- s13, raced <- s14

Retry == INSTANCE FastBackoff WITH
    Uses <- {Login, Keep, Beat}, RunTimes <- {0, 20}, Window <- 16, opt <- s1, step <- s2, errs <- s3,
    cutoffIn <- s4, counts <- s5, delay <- s6, recent <- s7

VNet == INSTANCE VirtualNet WITH
    Plugins <- {1}, Pipes <- {c1, c2}, WorkConns <- {}, SrcIPs <- {x1, x2}, MaxErrors <- 1, run <- s1,
    closing <- s2, controllerConn <- s3, pipe <- s4, route <- s5, server <- s6, conns <- s7,
    srcIPConns <- s8, tun <- s9

VNetBoth == INSTANCE VirtualNet WITH
    Plugins <- {1}, Pipes <- {c1}, WorkConns <- {w1}, SrcIPs <- {x1, x2}, MaxErrors <- 1, run <- s1,
    closing <- s2, controllerConn <- s3, pipe <- s4, route <- s5, server <- s6, conns <- s7,
    srcIPConns <- s8, tun <- s9

UDP == INSTANCE UDPWorkConn WITH
    SendCap <- 1, ReadCap <- 1, MaxDatagrams <- 3, MaxConns <- 2, run <- s1, portHeld <- s2,
    udpConn <- s3, doneCh <- s4, sendCh <- s5, readCh <- s6, reconnectCh <- s7, pending <- s8,
    dispatcher <- s9, request <- s10, reader <- s11, sender <- s12, forwarder <- s13, writer <- s14,
    conn <- s15, workConn <- s16, conns <- s17, closer <- s18, arrived <- s19, sent <- s20

SUDP == INSTANCE SUDPVisitor WITH
    SendCap <- 1, ReadCap <- 1, MaxDatagrams <- 3, MaxConns <- 2, Closers <- {x1, x2}, lifecycle <- s1,
    runner <- s2, listening <- s3, udpConn <- s4, sendCh <- s5, readCh <- s6, pending <- s7,
    dispatcher <- s8, request <- s9, conn <- s10, obtained <- s11, workerCloseCh <- s12,
    watcher <- s13, reader <- s14, sender <- s15, forwarder <- s16, writer <- s17, closer <- s18,
    arrived <- s19, sent <- s20

Bridge == INSTANCE SUDPBridge WITH
    V1Limit <- 12, MaxSent <- 2, MaxUDPPayloadSize <- 7, DefaultMaxFramePayloadSize <- 17,
    MaxZone <- 2, enc <- s1, written <- s2, toBridge <- s3, toSide <- s4, got <- s5, conn <- s6,
    copier <- s7, why <- s8

XUDP == INSTANCE XUDPProxy WITH
    Conns <- {x1, x2}, closed <- s1, pendingConns <- s2, activeConns <- s3, closer <- s4,
    toClose <- s5, step <- s6, role <- s7, resource <- s8, stopped <- s9, closers <- s10, workers <- s11

Forwarder == INSTANCE UDPForwarder WITH
    Keys <- {x1, x2}, MaxSockets <- 3, managed <- s1, readChOpen <- s2, ctxDone <- s3, stopped <- s4,
    udpConnMap <- s5, key <- s6, socket <- s7, dialled <- s8, reader <- s9, dispatcher <- s10,
    user <- s11, entry <- s12, closing <- s13, closeAll <- s14, watcher <- s15

Traffic == INSTANCE ProxyTraffic WITH
    Conns <- {x1, x2}, Types <- {"tcp", "http"}, PoolCount <- 1, ReserveDays <- 2, DayHours <- <<24>>,
    OfflineDays <- 1, MaxRuns <- 2, today <- s1, pxy <- s2, step <- s3, tries <- s4, userConn <- s5,
    work <- s6, copying <- s7, moved <- s8, stats <- s9, typeCounts <- s10, curConns <- s11,
    counter <- s12, byDay <- s13, outlived <- s14

TrafficDays == INSTANCE ProxyTraffic WITH
    Conns <- {c1}, Types <- {"tcp"}, PoolCount <- 0, ReserveDays <- 2, DayHours <- <<24, 24, 24>>,
    OfflineDays <- 1, MaxRuns <- 2, today <- s1, pxy <- s2, step <- s3, tries <- s4,
    userConn <- s5, work <- s6, copying <- s7, moved <- s8, stats <- s9, typeCounts <- s10,
    curConns <- s11, counter <- s12, byDay <- s13, outlived <- s14

Lists == INSTANCE DashboardLists WITH
    APIV2ProxyTypes <- {1, 2}, MaxPageSize <- 3, MaxInt <- 15, online <- s1, stats <- s2,
    running <- s3

Routes == INSTANCE VhostRoutes WITH
    Users <- {"", "u"}, AllUsers <- "", Star <- "*", MaxRoutes <- 4, routers <- s1

Groups == INSTANCE VhostGroups WITH
    Proxies <- {x1, x2}, Conns <- {c1}, MaxGroups <- 3, kind <- s1, current <- s2, made <- s3,
    route <- s4, members <- s5, mu <- s6, ch <- s7, ln <- s8, worker <- s9, pxy <- s10, accepting <- s11,
    conn <- s12, refused <- s13

Channel == INSTANCE ControlChannel WITH
    Proxies <- {p1}, SendCap <- 1, PipeCap <- 1, MaxReloads <- 1, sendCh <- s1, pipe <- s2,
    readLoop <- s3, isOpen <- s4, done <- s5, phase <- s6, muPxy <- s7, update <- s8, reloads <- s9,
    ping <- s10, registered <- s11

Transport == INSTANCE MessageTransport WITH
    Callers <- {x1, x2}, SendCap <- 1, MaxAnswers <- 2, caller <- s1, registry <- s2, channel <- s3,
    closed <- s4, result <- s5, answers <- s6, reader <- s7, found <- s8, done <- s9, sendCh <- s10,
    sendLoop <- s11

SSH == INSTANCE SSHTunnel WITH
    Channels <- {h1}, WorkConns <- {w1}, Pipes <- {c1}, sshConn <- s1, run <- s2, forward <- s3,
    exec <- s4, channel <- s5, keepAlive <- s6, firstChannel <- s7, muFirst <- s8, vcRun <- s9,
    cancelled <- s10, control <- s11, proxy <- s12, vcListener <- s13, transfer <- s14, pipe <- s15,
    frpsListener <- s16, doneCh <- s17, workConn <- s18

Wire == INSTANCE WireHandshake WITH
    Algorithms <- {x1, x2}, AlgorithmLists <- {<<x1, x2>>, <<x2, x1>>, <<x1>>, <<x2>>},
    client <- s1, server <- s2, c2s <- s3, s2c <- s4, cstep <- s5, sstep <- s6, cview <- s7,
    sview <- s8, hello <- s9, broken <- s10

PartsInit ==
    \/ part = "session" /\ Session!Init /\ Unused16
    \/ part = "checked" /\ Checked!Init /\ Unused16
    \/ part = "config" /\ Config!ConfigInit /\ Unused14
    \/ part = "visitors" /\ Visitors!ManagerInit /\ Unused9
    \/ part = "xtcp" /\ XTCP!TunnelInit /\ Unused11
    \/ part = "work conns" /\ Work!WorkConnsInit /\ Unused14
    \/ part = "retry" /\ Retry!BackoffInit /\ Unused7
    \/ part = "vnet" /\ VNet!VNetInit /\ Unused9
    \/ part = "vnet both" /\ VNetBoth!VNetInit /\ Unused9
    \/ part = "udp proxy" /\ UDP!UDPInit
    \/ part = "sudp visitor" /\ SUDP!SUDPInit
    \/ part = "sudp bridge" /\ Bridge!BridgeInit /\ Unused8
    \/ part = "xudp proxy" /\ XUDP!XUDPProxyInit /\ Unused11
    \/ part = "forwarder" /\ Forwarder!ForwarderInit /\ Unused15
    \/ part = "traffic" /\ Traffic!TrafficInit /\ Unused14
    \/ part = "traffic days" /\ TrafficDays!TrafficInit /\ Unused14
    \/ part = "lists" /\ Lists!ListsInit /\ Unused3
    \/ part = "routes" /\ Routes!RoutesInit /\ Unused1
    \/ part = "groups" /\ Groups!GroupsInit /\ Unused13
    \/ part = "channel" /\ Channel!ChannelInit /\ Unused11
    \/ part = "transport" /\ Transport!TransportInit /\ Unused11
    \/ part = "ssh" /\ SSH!SSHInit /\ Unused18
    \/ part = "handshake" /\ Wire!HandshakeInit /\ Unused10

PartsNext ==
    /\ UNCHANGED part
    /\ \/ part = "session" /\ Session!Next /\ UNCHANGED above16
       \/ part = "checked" /\ Checked!Next /\ UNCHANGED above16
       \/ part = "config" /\ Config!ConfigNext /\ UNCHANGED above14
       \/ part = "visitors" /\ Visitors!ManagerNext /\ UNCHANGED above9
       \/ part = "xtcp" /\ XTCP!TunnelNext /\ UNCHANGED above11
       \/ part = "work conns" /\ Work!WorkConnsNext /\ UNCHANGED above14
       \/ part = "retry" /\ Retry!BackoffNext /\ UNCHANGED above7
       \/ part = "vnet" /\ VNet!VNetNext /\ UNCHANGED above9
       \/ part = "vnet both" /\ VNetBoth!VNetNext /\ UNCHANGED above9
       \/ part = "udp proxy" /\ UDP!UDPNext
       \/ part = "sudp visitor" /\ SUDP!SUDPNext
       \/ part = "sudp bridge" /\ Bridge!BridgeNext /\ UNCHANGED above8
       \/ part = "xudp proxy" /\ XUDP!XUDPProxyNext /\ UNCHANGED above11
       \/ part = "forwarder" /\ Forwarder!ForwarderNext /\ UNCHANGED above15
       \/ part = "traffic" /\ Traffic!TrafficNext /\ UNCHANGED above14
       \/ part = "traffic days" /\ TrafficDays!TrafficNext /\ UNCHANGED above14
       \/ part = "lists" /\ Lists!ListsNext /\ UNCHANGED above3
       \/ part = "routes" /\ Routes!RoutesNext /\ UNCHANGED above1
       \/ part = "groups" /\ Groups!GroupsNext /\ UNCHANGED above13
       \/ part = "channel" /\ Channel!ChannelNext /\ UNCHANGED above11
       \/ part = "transport" /\ Transport!TransportNext /\ UNCHANGED above11
       \/ part = "ssh" /\ SSH!SSHNext /\ UNCHANGED above18
       \/ part = "handshake" /\ Wire!HandshakeNext /\ UNCHANGED above10

PartsSpec == PartsInit /\ [][PartsNext]_vars

-----------------------------------------------------------------------------
\* The types of every part.
PartsTypeOK ==
    CASE part = "session"     -> Session!SessionTypeOK
      [] part = "checked"     -> Checked!SessionTypeOK
      [] part = "config"      -> Config!ConfigTypeOK
      [] part = "visitors"    -> Visitors!ManagerTypeOK
      [] part = "xtcp"        -> XTCP!TunnelTypeOK
      [] part = "work conns"  -> Work!WorkConnsTypeOK
      [] part = "retry"       -> Retry!BackoffTypeOK
      [] part = "vnet"        -> VNet!VNetTypeOK
      [] part = "vnet both"   -> VNetBoth!VNetTypeOK
      [] part = "udp proxy"   -> UDP!UDPTypeOK
      [] part = "sudp visitor"-> SUDP!SUDPTypeOK
      [] part = "sudp bridge" -> Bridge!BridgeTypeOK
      [] part = "xudp proxy"  -> XUDP!XUDPProxyTypeOK
      [] part = "forwarder"   -> Forwarder!ForwarderTypeOK
      [] part = "traffic"     -> Traffic!TrafficTypeOK
      [] part = "traffic days"-> TrafficDays!TrafficTypeOK
      [] part = "lists"       -> Lists!ListsTypeOK
      [] part = "routes"      -> Routes!RoutesTypeOK
      [] part = "groups"      -> Groups!GroupsTypeOK
      [] part = "channel"     -> Channel!ChannelTypeOK
      [] part = "transport"   -> Transport!TransportTypeOK
      [] part = "ssh"         -> SSH!SSHTypeOK
      [] part = "handshake"   -> Wire!HandshakeTypeOK

\* What frpc records is what there is.  A proxy it takes for running is registered at frps
\* as it is configured, and the reverse (Agreement: proxy_wrapper.go, proxy_manager.go);
\* every visitor that runs is one the visitor manager can still find and close
\* (VisitorsRecorded: visitor_manager.go); the routes of the virtual network lead to
\* connections that are served, and a running plugin has its route (RoutesLive,
\* RunningRouted: pkg/vnet/controller.go, pkg/plugin/visitor/virtual_net.go).
RecordsTrue ==
    CASE part = "session"  -> Session!Agreement
      [] part = "checked"  -> Checked!Agreement
      [] part = "visitors" -> Visitors!VisitorsRecorded
      [] part = "vnet"     -> VNet!RoutesLive /\ VNet!RunningRouted
      [] part = "vnet both"-> VNetBoth!RoutesLive /\ VNetBoth!RunningRouted
      [] OTHER             -> TRUE

\* An answered edit of the store survives a crash at any point of its write, and what
\* runs is what the sources say unless an edit has been refused (StoreDurable,
\* AppliedCurrent: pkg/config/source/store.go, client/config_manager.go).
ConfigKept == part = "config" => Config!StoreDurable /\ Config!AppliedCurrent

\* Every open connection has somebody who will close it, whichever failure, replacement or
\* Close races the others: control connections (SessionsClosed: control_session.go,
\* service.go), the sockets and sessions of hole punching (SocketsAccounted:
\* client/visitor/xtcp.go), work and local connections of frpc (WorkConnsReleased:
\* client/proxy/), user and work connections of frps (HandlersRelease:
\* server/proxy/proxy.go).  The first three name the races of the code that do leave one
\* open: what a login or a hole installs after stop() or Close has finished, the session
\* that the keeper's first start replaces, and a UDP InWorkConn that publishes over another
\* one or after Close.
ConnectionsReleased ==
    CASE part = "session"   -> Session!SessionsClosed
      [] part = "checked"   -> Checked!SessionsClosed
      [] part = "xtcp"      -> XTCP!SocketsAccounted
      [] part = "work conns"-> Work!WorkConnsReleased
      [] part = "traffic"   -> Traffic!HandlersRelease
      [] part = "traffic days" -> TrafficDays!HandlersRelease
      [] OTHER              -> TRUE

\* The same for the datagram paths: the port of a UDP proxy goes back only after everything
\* that uses it has ended (PortReleasedLast: server/proxy/udp.go); a closed SUDP visitor has
\* no socket, connection or goroutine left (SUDPClosedReleases: client/visitor/sudp.go), nor
\* has an XUDP proxy or one of its planes (PlanesRelease, XUDPClosedReleases:
\* client/proxy/xudp.go), but for the sockets MakeHole opened on random ports, whose reads
\* still have to end; the forwarder has no socket nobody will close (NoOrphan,
\* ForwarderReleases: pkg/proto/udp/udp.go).
DatagramPathsReleased ==
    CASE part = "udp proxy"   -> UDP!PortReleasedLast
      [] part = "sudp visitor"-> SUDP!SUDPClosedReleases
      [] part = "xudp proxy"  -> XUDP!PlanesRelease /\ XUDP!XUDPClosedReleases
      [] part = "forwarder"   -> Forwarder!NoOrphan /\ Forwarder!ForwarderReleases
      [] OTHER                -> TRUE

\* No interleaving makes a goroutine panic or spin: svr.ctl is never dereferenced when nil
\* while frpc serves (NoNilControl: service.go), no channel is closed twice (ClosedOnce:
\* client/proxy/udp.go, sudp.go), and reconnections stay paced however the attempts end
\* (RetriesPaced: pkg/util/wait/backoff.go).
NoPanicNoStorm ==
    CASE part = "session"   -> Session!NoNilControl
      [] part = "checked"   -> Checked!NoNilControl
      [] part = "work conns"-> Work!ClosedOnce
      [] part = "retry"     -> Retry!RetriesPaced
      [] OTHER              -> TRUE

\* What the dashboard shows is what happened: connections and traffic are counted once and
\* on their day, through restarts of a proxy and the clearing of old entries (CountsExact,
\* TrafficByDay: pkg/metrics/mem/server.go, pkg/util/metric/date_counter.go), and the pages
\* of a v2 list hold every entry once (ListsExact: server/http/controller_v2.go).
DashboardExact ==
    CASE part = "traffic" -> Traffic!CountsExact /\ Traffic!TrafficByDay
      [] part = "traffic days" -> TrafficDays!CountsExact /\ TrafficDays!TrafficByDay
      [] part = "lists"   -> Lists!ListsExact
      [] OTHER            -> TRUE

\* A request reaches the right proxy: the most specific route that covers its host, path
\* and user, whatever was added and removed before (BestRoute: pkg/util/vhost/router.go),
\* and, in a group, a member as long as the group has one (MembersReachable:
\* server/group/).
RequestsRouted ==
    CASE part = "routes" -> Routes!BestRoute
      [] part = "groups" -> Groups!MembersReachable
      [] OTHER           -> TRUE

\* Peers that finish the wire handshake agree on everything they derive, and incompatible
\* ones are refused (HandshakeAgrees, RefusedIncompatible: pkg/proto/wire/); what an SUDP
\* bridge between two encodings delivers is what was sent, it translates exactly when they
\* differ, and the binary codec accepts exactly what it encodes (PacketsCarried,
\* EncodingsBridged, CodecExact: pkg/msg/udp_binary.go, server/proxy/proxy.go).
PeersUnderstand ==
    CASE part = "handshake"   -> Wire!HandshakeAgrees /\ Wire!RefusedIncompatible
      [] part = "sudp bridge" -> Bridge!PacketsCarried /\ Bridge!EncodingsBridged /\ Bridge!CodecExact
      [] OTHER                -> TRUE
==============================================================================
