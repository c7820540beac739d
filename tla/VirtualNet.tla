----------------------------- MODULE VirtualNet -----------------------------
(* The virtual network of frpc: the controller that moves IP packets between *)
(* the tun device and framed connections (pkg/vnet), the visitor plugin that *)
(* keeps one pipe registered with it under the visitor's name                *)
(* (pkg/plugin/visitor/virtual_net.go), and the client plugin that hands it  *)
(* the work connections of a proxy (pkg/plugin/client/virtual_net.go).       *)
(*                                                                           *)
(* A packet is abstracted to its destination.  The plugins 1, 2, ... are the *)
(* successive plugins of one visitor name: a reload closes one and creates   *)
(* the next.  The identifiers of pipes and work connections are used again   *)
(* once nothing refers to them.  A duration is the set of the bits of its    *)
(* 64-bit number of nanoseconds, so that the shift below overflows as in Go. *)
EXTENDS Integers, FiniteSetsExt

CONSTANTS Plugins,      \* 1..n: successive plugins of the same visitor
          Pipes,        \* net.Pipe pairs
          WorkConns,    \* connections given to the client plugin
          SrcIPs,       \* source addresses seen on work connections
          MaxErrors,    \* bound on consecutiveErrors
          None

VARIABLES run,            \* the run loop of each visitor plugin
          closing,        \* how far Close of the visitor and plugin has come
          controllerConn, \* p.controllerConn
          pipe,           \* both ends of a pipe and who works on them
          route,          \* clientRouter.routes of the visitor's name
          server,         \* readLoopServer of each work connection
          conns,          \* p.conns of the client plugin
          srcIPConns,     \* serverRouter.srcIPConns
          tun             \* the connection Run is writing a packet to

ivars == <<run, closing, controllerConn, pipe, route, server, conns, srcIPConns, tun>>

-----------------------------------------------------------------------------
(* Durations *)

\* The bits of 10, 60 and 300 seconds in nanoseconds.
Seconds10 == {10, 13, 14, 15, 16, 17, 19, 26, 28, 30, 33}
Seconds60 == {11, 12, 14, 16, 17, 18, 22, 27, 28, 29, 30, 31, 32, 34, 35}
Seconds300 == {11, 12, 13, 15, 18, 21, 22, 24, 27, 28, 30, 31, 32, 34, 38}

\* d * 2^k in 64-bit two's complement: bits shifted past the top are lost.
Shifted(d, k) == {b + k : b \in d} \cap 0..63

Negative(d) == 63 \in d

Less(d, e) ==
    \/ Negative(d) /\ ~Negative(e)
    \/ /\ Negative(d) = Negative(e)
       /\ d # e
       /\ Max((d \ e) \cup (e \ d)) \in e

Shorter(d, e) == IF Less(d, e) THEN d ELSE e

\* min(baseDelay*time.Duration(1<<uint(p.consecutiveErrors-1)), 300*time.Second)
Backoff(errors) == Shorter(Shifted(Seconds60, errors - 1), Seconds300)

-----------------------------------------------------------------------------
(* The client router: one visitor name *)

\* removeConnRoute: deletes the route only if it is still the connection's.
RemoveConnRoute(r, c) == IF r = c THEN None ELSE r

\* cleanupConnIPs: deletes every address mapped to the connection.
CleanupConnIPs(ips, c) == [ip \in SrcIPs |-> IF ips[ip] = c THEN None ELSE ips[ip]]

-----------------------------------------------------------------------------
(* Initial state *)

FreshPipe == [controller |-> TRUE, visitor |-> "none", signal |-> "open", loop |-> "none"]

VNetInit ==
    /\ run = [g \in Plugins |-> [step |-> "none", pipe |-> None, errors |-> 0, delay |-> {}]]
    /\ closing = [g \in Plugins |-> "no"]
    /\ controllerConn = [g \in Plugins |-> None]
    /\ pipe = [c \in Pipes |-> FreshPipe]
    /\ route = None
    /\ server = [w \in WorkConns |-> [step |-> "none", open |-> FALSE, ip |-> None]]
    /\ conns = {}
    /\ srcIPConns = [ip \in SrcIPs |-> None]
    /\ tun = None

-----------------------------------------------------------------------------
(* The visitor plugin *)

Cancelled(g) == closing[g] \in {"cancelled", "unregistered", "done"}

\* Nothing refers to the pipe any more, so that its identifier can be reused.
Free(c) ==
    /\ pipe[c].loop \in {"none", "ended"}
    /\ pipe[c].visitor \in {"none", "closed", "dropped"}
    /\ route # c
    /\ tun # c
    /\ \A g \in Plugins : controllerConn[g] # c /\ run[g].pipe # c

\* cleanupControllerConn: closes the controller's end and forgets it.
CleanupControllerConn(g) ==
    /\ pipe' = IF controllerConn[g] = None THEN pipe
               ELSE [pipe EXCEPT ![controllerConn[g]].controller = FALSE]
    /\ controllerConn' = [controllerConn EXCEPT ![g] = None]

\* Start: the previous plugin of the name has been closed by the reload.
Start(g) ==
    /\ run[g].step = "none"
    /\ closing[g] = "no"
    /\ \A h \in Plugins : h < g => closing[h] = "done"
    /\ run' = [run EXCEPT ![g].step = "top"]
    /\ UNCHANGED <<closing, controllerConn, pipe, route, server, conns, srcIPConns, tun>>

\* The first select of run: stop, or go on to create a pipe.
RunChecks(g) ==
    /\ run[g].step = "top"
    /\ \/ /\ Cancelled(g)
          /\ CleanupControllerConn(g)
          /\ run' = [run EXCEPT ![g].step = "ended"]
       \/ /\ ~Cancelled(g)
          /\ run' = [run EXCEPT ![g].step = "create"]
          /\ UNCHANGED <<pipe, controllerConn>>
    /\ UNCHANGED <<closing, route, server, conns, srcIPConns, tun>>

RunCreates(g) ==
    /\ run[g].step = "create"
    /\ \E c \in Pipes :
          /\ Free(c)
          /\ pipe' = [pipe EXCEPT ![c] = FreshPipe]
          /\ controllerConn' = [controllerConn EXCEPT ![g] = c]
          /\ run' = [run EXCEPT ![g].step = "register", ![g].pipe = c]
    /\ UNCHANGED <<closing, route, server, conns, srcIPConns, tun>>

\* RegisterClientRoute: replaces the name's route and starts the read loop.
RegisterClientRoute(g) ==
    /\ run[g].step = "register"
    /\ route' = run[g].pipe
    /\ pipe' = [pipe EXCEPT ![run[g].pipe].loop = "reading"]
    /\ run' = [run EXCEPT ![g].step = "send"]
    /\ UNCHANGED <<closing, controllerConn, server, conns, srcIPConns, tun>>

\* SendConnToVisitor: the visitor's internal listener takes the plugin's end;
\* once the listener is closed PutConn fails and the end stays as it is.
RunSends(g) ==
    /\ run[g].step = "send"
    /\ pipe' = [pipe EXCEPT ![run[g].pipe].visitor =
                              IF closing[g] = "no" THEN "queued" ELSE "dropped"]
    /\ run' = [run EXCEPT ![g].step = "wait"]
    /\ UNCHANGED <<closing, controllerConn, route, server, conns, srcIPConns, tun>>

\* The second select: cancelled, or the visitor closed its end.
RunWakes(g) ==
    /\ run[g].step = "wait"
    /\ \/ /\ Cancelled(g)
          /\ run' = [run EXCEPT ![g].step = "ended", ![g].pipe = None]
       \/ /\ pipe[run[g].pipe].signal = "failed"
          /\ run[g].errors < MaxErrors
          /\ run' = [run EXCEPT ![g] = [step |-> "delay", pipe |-> None, errors |-> @.errors + 1,
                                        delay |-> Backoff(@.errors + 1)]]
       \/ /\ pipe[run[g].pipe].signal = "closed"
          /\ run' = [run EXCEPT ![g] = [step |-> "delay", pipe |-> None, errors |-> 0,
                                        delay |-> Seconds10]]
    /\ CleanupControllerConn(g)
    /\ UNCHANGED <<closing, route, server, conns, srcIPConns, tun>>

\* The third select: the delay is over, or the plugin is cancelled.
RunReconnects(g) ==
    /\ run[g].step = "delay"
    /\ \/ run' = [run EXCEPT ![g].step = "top", ![g].delay = {}]
       \/ Cancelled(g) /\ run' = [run EXCEPT ![g].step = "ended", ![g].delay = {}]
    /\ UNCHANGED <<closing, controllerConn, pipe, route, server, conns, srcIPConns, tun>>

\* BaseVisitor.Close: the internal listener first, then the plugin.
CloseBegins(g) ==
    /\ run[g].step # "none"
    /\ closing[g] = "no"
    /\ closing' = [closing EXCEPT ![g] = "listener"]
    /\ UNCHANGED <<run, controllerConn, pipe, route, server, conns, srcIPConns, tun>>

\* Close of the plugin: cancel, unregister the name, close the pipe.
CloseCancels(g) ==
    /\ closing[g] = "listener"
    /\ closing' = [closing EXCEPT ![g] = "cancelled"]
    /\ UNCHANGED <<run, controllerConn, pipe, route, server, conns, srcIPConns, tun>>

CloseUnregisters(g) ==
    /\ closing[g] = "cancelled"
    /\ closing' = [closing EXCEPT ![g] = "unregistered"]
    /\ route' = None
    /\ UNCHANGED <<run, controllerConn, pipe, server, conns, srcIPConns, tun>>

CloseCleansUp(g) ==
    /\ closing[g] = "unregistered"
    /\ closing' = [closing EXCEPT ![g] = "done"]
    /\ CleanupControllerConn(g)
    /\ UNCHANGED <<run, route, server, conns, srcIPConns, tun>>

-----------------------------------------------------------------------------
(* The two ends of a pipe *)

\* readLoopClient: a read fails when an end is closed, or when the peer's frame
\* has length 0 or is over maxMessageSize; the route goes, then the connection.
ReadLoopClientFails(c) ==
    /\ pipe[c].loop = "reading"
    /\ ~pipe[c].controller \/ pipe[c].visitor \in {"joined", "closed"}
    /\ route' = RemoveConnRoute(route, c)
    /\ pipe' = [pipe EXCEPT ![c].loop = "leaving"]
    /\ UNCHANGED <<run, closing, controllerConn, server, conns, srcIPConns, tun>>

ReadLoopClientCloses(c) ==
    /\ pipe[c].loop = "leaving"
    /\ pipe' = [pipe EXCEPT ![c].loop = "ended", ![c].controller = FALSE]
    /\ UNCHANGED <<run, closing, controllerConn, route, server, conns, srcIPConns, tun>>

\* The visitor's accept loop takes the plugin's end and dials frps for it.
VisitorAccepts(c) ==
    /\ pipe[c].visitor = "queued"
    /\ pipe' = [pipe EXCEPT ![c].visitor = "dialing"]
    /\ UNCHANGED <<run, closing, controllerConn, route, server, conns, srcIPConns, tun>>

\* handleConn: CloseWithError when the dial fails, else libio.Join.
VisitorDials(c) ==
    /\ pipe[c].visitor = "dialing"
    /\ \/ pipe' = [pipe EXCEPT ![c].visitor = "closed", ![c].signal = "failed"]
       \/ pipe' = [pipe EXCEPT ![c].visitor = "joined"]
    /\ UNCHANGED <<run, closing, controllerConn, route, server, conns, srcIPConns, tun>>

\* Join ends when either side ends, and closes the plugin's end without error.
VisitorCloses(c) ==
    /\ pipe[c].visitor = "joined"
    /\ pipe' = [pipe EXCEPT ![c].visitor = "closed", ![c].signal = "closed"]
    /\ UNCHANGED <<run, closing, controllerConn, route, server, conns, srcIPConns, tun>>

-----------------------------------------------------------------------------
(* The client plugin and the work connections *)

\* Handle: recorded in conns before its read loop starts.
Handle(w) ==
    /\ server[w].step = "none"
    /\ conns' = conns \cup {w}
    /\ server' = [server EXCEPT ![w] = [step |-> "reading", open |-> TRUE, ip |-> None]]
    /\ UNCHANGED <<run, closing, controllerConn, pipe, route, srcIPConns, tun>>

\* ReadMessage returns a packet of some source address.
ReadLoopServerReads(w) ==
    /\ server[w].step = "reading"
    /\ server[w].open
    /\ \E ip \in SrcIPs : server' = [server EXCEPT ![w].step = "registering", ![w].ip = ip]
    /\ UNCHANGED <<run, closing, controllerConn, pipe, route, conns, srcIPConns, tun>>

\* registerSrcIP: the address now belongs to this connection.
RegisterSrcIP(w) ==
    /\ server[w].step = "registering"
    /\ srcIPConns' = [srcIPConns EXCEPT ![server[w].ip] = w]
    /\ server' = [server EXCEPT ![w].step = "reading", ![w].ip = None]
    /\ UNCHANGED <<run, closing, controllerConn, pipe, route, conns, tun>>

\* The peer closes the work connection.
PeerCloses(w) ==
    /\ server[w].open
    /\ server' = [server EXCEPT ![w].open = FALSE]
    /\ UNCHANGED <<run, closing, controllerConn, pipe, route, conns, srcIPConns, tun>>

\* The deferred function of readLoopServer, in its order: addresses, RemoveConn, Close.
ReadLoopServerFails(w) ==
    /\ server[w].step = "reading"
    /\ srcIPConns' = CleanupConnIPs(srcIPConns, w)
    /\ server' = [server EXCEPT ![w].step = "leaving"]
    /\ UNCHANGED <<run, closing, controllerConn, pipe, route, conns, tun>>

RemoveConn(w) ==
    /\ server[w].step = "leaving"
    /\ conns' = conns \ {w}
    /\ server' = [server EXCEPT ![w].step = "removed"]
    /\ UNCHANGED <<run, closing, controllerConn, pipe, route, srcIPConns, tun>>

ReadLoopServerCloses(w) ==
    /\ server[w].step = "removed"
    /\ tun # w
    /\ server' = [server EXCEPT ![w] = [step |-> "none", open |-> FALSE, ip |-> None]]
    /\ UNCHANGED <<run, closing, controllerConn, pipe, route, conns, srcIPConns, tun>>

\* Close of the client plugin: closes what is recorded, forgets the map.
ClientPluginCloses ==
    /\ conns # {}
    /\ server' = [w \in WorkConns |-> IF w \in conns THEN [server[w] EXCEPT !.open = FALSE] ELSE server[w]]
    /\ conns' = {}
    /\ UNCHANGED <<run, closing, controllerConn, pipe, route, srcIPConns, tun>>

-----------------------------------------------------------------------------
(* The tun reader *)

\* handlePacket: the visitor's route for its destination, else the work
\* connection that last sent from the address.  Others are dropped.
HandlePacket ==
    /\ tun = None
    /\ \/ route # None /\ tun' = route
       \/ \E ip \in SrcIPs : srcIPConns[ip] # None /\ tun' = srcIPConns[ip]
    /\ UNCHANGED <<run, closing, controllerConn, pipe, route, server, conns, srcIPConns>>

\* WriteMessage returns: a pipe has no buffer, so its peer must read or an end
\* be closed; a work connection takes the packet or fails.
WriteReturns ==
    /\ tun # None
    /\ tun \in Pipes => \/ ~pipe[tun].controller
                        \/ pipe[tun].visitor \in {"joined", "closed"}
    /\ tun' = None
    /\ UNCHANGED <<run, closing, controllerConn, pipe, route, server, conns, srcIPConns>>

-----------------------------------------------------------------------------
(* Specification *)

Run(g) ==
    \/ RunChecks(g)
    \/ RunCreates(g)
    \/ RegisterClientRoute(g)
    \/ RunSends(g)
    \/ RunWakes(g)
    \/ RunReconnects(g)

Closing(g) == CloseCancels(g) \/ CloseUnregisters(g) \/ CloseCleansUp(g)

ReadLoopClient(c) == ReadLoopClientFails(c) \/ ReadLoopClientCloses(c)

Visiting(c) == VisitorAccepts(c) \/ VisitorDials(c)

Leaving(w) == RemoveConn(w) \/ ReadLoopServerCloses(w)

VNetNext ==
    \/ \E g \in Plugins : Start(g) \/ Run(g) \/ CloseBegins(g) \/ Closing(g)
    \/ \E c \in Pipes : ReadLoopClient(c) \/ Visiting(c) \/ VisitorCloses(c)
    \/ \E w \in WorkConns :
          \/ Handle(w)
          \/ ReadLoopServerReads(w)
          \/ RegisterSrcIP(w)
          \/ PeerCloses(w)
          \/ ReadLoopServerFails(w)
          \/ Leaving(w)
    \/ ClientPluginCloses
    \/ HandlePacket
    \/ WriteReturns

VNetSpec == VNetInit /\ [][VNetNext]_ivars

\* A loop whose pipe has a closed end, or that has been told to leave, goes on.
LoopEnds(c) ==
    /\ ~pipe[c].controller \/ pipe[c].visitor = "closed" \/ pipe[c].loop = "leaving"
    /\ ReadLoopClient(c)

\* A write into a pipe that has a closed end returns.
WriteEnds ==
    /\ tun \in Pipes => ~pipe[tun].controller \/ pipe[tun].visitor = "closed"
    /\ WriteReturns

-----------------------------------------------------------------------------
(* Properties *)

VNetTypeOK ==
    /\ \A g \in Plugins :
          /\ run[g].step \in {"none", "top", "create", "register", "send", "wait", "delay", "ended"}
          /\ run[g].pipe \in Pipes \cup {None}
          /\ run[g].errors \in 0..MaxErrors
          /\ run[g].delay \subseteq 0..63
          /\ closing[g] \in {"no", "listener", "cancelled", "unregistered", "done"}
          /\ controllerConn[g] \in Pipes \cup {None}
    /\ \A c \in Pipes :
          /\ pipe[c].controller \in BOOLEAN
          /\ pipe[c].visitor \in {"none", "queued", "dialing", "joined", "closed", "dropped"}
          /\ pipe[c].signal \in {"open", "failed", "closed"}
          /\ pipe[c].loop \in {"none", "reading", "leaving", "ended"}
    /\ route \in Pipes \cup {None}
    /\ \A w \in WorkConns : server[w].step \in {"none", "reading", "registering", "leaving", "removed"}
    /\ conns \subseteq WorkConns
    /\ \A ip \in SrcIPs : srcIPConns[ip] \in WorkConns \cup {None}
    /\ tun \in Pipes \cup WorkConns \cup {None}

\* Neither router sends packets to a connection whose read loop has begun to
\* end: the deferred functions of readLoopClient and readLoopServer remove every
\* entry of the connection before it is closed, and nothing adds one later
\* (controller.go removeConnRoute, cleanupConnIPs, registerSrcIP).
RoutesLive ==
    /\ route # None => pipe[route].loop = "reading"
    /\ \A ip \in SrcIPs :
          srcIPConns[ip] # None => server[srcIPConns[ip]].step \in {"reading", "registering"}

\* While a plugin waits on a pipe that is being read, the visitor's name is
\* routed to that pipe, also when the read loop of the pipe before it ends late
\* (virtual_net.go run; controller.go removeConnRoute compares the connection).
\* Stated of the first plugin of a name: a later one can lose its route to the
\* late registration of the one before it.
RunningRouted ==
    \A g \in Plugins :
        /\ g = 1
        /\ closing[g] \in {"no", "listener", "cancelled"}
        /\ run[g].step \in {"send", "wait"}
        /\ pipe[run[g].pipe].loop = "reading"
        => route = run[g].pipe

\* The delay before a reconnection after errors is one of those the comment of
\* run names: 60 s, 120 s, 240 s, then 300 s however many errors follow
\* (virtual_net.go:154).
BackoffCapped ==
    \A g \in Plugins :
        run[g].step = "delay" /\ run[g].errors > 0
            => run[g].delay \in {Seconds60, Shifted(Seconds60, 1), Shifted(Seconds60, 2), Seconds300}

PluginGone(g) ==
    /\ run[g].step = "ended"
    /\ \A c \in Pipes : pipe[c].loop \in {"none", "ended"}

\* The only write of the tun reader without an end in sight goes to a pipe that is
\* joined with frps: it has no deadline, and the peer may not read.
TunWaits == tun \in Pipes => pipe[tun].controller /\ pipe[tun].visitor = "joined"

\* A closed plugin's run loop and read loops end and their pipe is closed, in
\* whatever step of run Close finds it; and the tun reader, which serves every route,
\* is not kept by a visitor that still dials, by a dial that fails or by a pipe that is
\* closed while it writes (virtual_net.go Close and run; controller.go handlePacket).
Pending == tun # None \/ \E g \in Plugins : closing[g] # "no"
Settled == TunWaits /\ \A g \in Plugins : closing[g] # "no" => PluginGone(g)
=============================================================================
