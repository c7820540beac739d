----------------------------- MODULE XUDPProxy -----------------------------
(***************************************************************************)
(* The XUDP proxy of frpc (client/proxy/xudp.go).  Every work connection   *)
(* frps sends is handled by a goroutine that registers it as pending,      *)
(* finds out its role, and promotes it into an active data plane with a    *)
(* lifecycle (xudpConnLifecycle) that owns what is opened along the way: a *)
(* relay owns its work connection; a P2P plane also owns the socket of     *)
(* nathole.Prepare, the one MakeHole returns if it is another, the QUIC    *)
(* listener and the QUIC connection (pkg/xudp/transport/quic.go).  Sockets *)
(* that MakeHole opens on random ports and does not return belong to the   *)
(* goroutines that read them; one stands for them.  A plane runs until the *)
(* first of its workers ends.  Close may come at any time.                 *)
(* Reports, identities and the messages exchanged are left out.            *)
(***************************************************************************)
EXTENDS Integers, FiniteSets

CONSTANTS Conns         \* work connections frps sends

\* What a data plane owns, in the order in which it is obtained.
Owned == {"work", "listen", "hole", "listener", "quic"}

\* What it opens: a socket on a random port is nobody's but its reader's.
Opens == Owned \cup {"port"}

Workers == {"in", "out", "local"}

VARIABLES closed,       \* set, with lifecycleCtx cancelled, by Close
          pendingConns, activeConns,
          closer,       \* the caller of Close
          toClose,      \* Close's snapshot: what it has still to close or stop
          step,         \* where each InWorkConn is
          role,
          resource,     \* state of everything each connection opens
          stopped,      \* of the lifecycle
          closers,      \* what the lifecycle will close
          workers       \* running workers of each plane

xvars == <<closed, pendingConns, activeConns, closer, toClose, step, role, resource, stopped,
           closers, workers>>

Steps == {"none", "arrived", "classify", "sid", "prepare", "promote", "own work", "own listen",
          "exchange", "own hole", "listen", "own listener", "accept", "own quic", "run",
          "working", "finish", "give up", "ended"}

XUDPProxyTypeOK ==
    /\ closed \in BOOLEAN /\ pendingConns \subseteq Conns /\ activeConns \subseteq Conns
    /\ closer \in {"idle", "closing", "waiting", "returned"}
    /\ toClose \subseteq Conns
    /\ step \in [Conns -> Steps] /\ role \in [Conns -> {"p2p", "relay"}]
    /\ resource \in [Conns -> [Opens -> {"none", "open", "closed"}]]
    /\ stopped \in [Conns -> BOOLEAN]
    /\ closers \in [Conns -> SUBSET Owned]
    /\ workers \in [Conns -> SUBSET Workers]

XUDPProxyInit ==
    /\ closed = FALSE /\ pendingConns = {} /\ activeConns = {} /\ closer = "idle" /\ toClose = {}
    /\ step = [c \in Conns |-> "none"] /\ role \in [Conns -> {"p2p", "relay"}]
    /\ resource = [c \in Conns |-> [o \in Opens |-> IF o = "port" THEN "closed" ELSE "none"]]
    /\ stopped = [c \in Conns |-> FALSE] /\ closers = [c \in Conns |-> {}]
    /\ workers = [c \in Conns |-> {}]

Opened(c, o) == [resource EXCEPT ![c][o] = "open"]

\* Closing a QUIC listener closes the socket it was given, which is the one of
\* the hole.
WithSocket(c, os) ==
    IF "listener" \in os /\ resource[c]["listener"] = "open"
      THEN os \cup (IF resource[c]["hole"] = "none" THEN {"listen"} ELSE {"hole"})
      ELSE os

Released(c, os) ==
    [resource EXCEPT ![c] =
        [o \in Opens |-> IF o \in WithSocket(c, os) /\ @[o] = "open" THEN "closed" ELSE @[o]]]

Goes(c, s) == step' = [step EXCEPT ![c] = s]

lifeVars  == <<stopped, closers>>
proxyVars == <<closed, pendingConns, activeConns, closer, toClose>>
-----------------------------------------------------------------------------
(* Setting up.                                                             *)

\* A work connection arrives.
Arrives(c) ==
    /\ step[c] = "none" /\ Goes(c, "arrived") /\ resource' = Opened(c, "work")
    /\ UNCHANGED <<proxyVars, lifeVars, role, workers>>

\* registerPending
Registers(c) ==
    /\ step[c] = "arrived"
    /\ IF closed
         THEN /\ Goes(c, "ended") /\ resource' = Released(c, {"work"})
              /\ UNCHANGED pendingConns
         ELSE /\ Goes(c, "classify") /\ pendingConns' = pendingConns \cup {c}
              /\ UNCHANGED resource
    /\ UNCHANGED <<closed, activeConns, closer, toClose, lifeVars, role, workers>>

\* classifyXUDPWorkConn: an unknown role is refused; without a role the first
\* message decides, for which at most five seconds are spent.
Classifies(c) ==
    /\ step[c] = "classify"
    /\ \/ Goes(c, "give up")
       \/ Goes(c, IF role[c] = "p2p" THEN "sid" ELSE "promote")
    /\ UNCHANGED <<proxyVars, lifeVars, role, resource, workers>>

\* The NatHoleSid is read from the work connection.
ReadsSid(c) ==
    /\ step[c] = "sid"
    /\ \/ resource[c]["work"] = "open" /\ Goes(c, "prepare")
       \/ Goes(c, "give up")
    /\ UNCHANGED <<proxyVars, lifeVars, role, resource, workers>>

\* nathole.Prepare, which cannot be cancelled.
Prepares(c) ==
    /\ step[c] = "prepare"
    /\ \/ Goes(c, "promote") /\ resource' = Opened(c, "listen")
       \/ Goes(c, "give up") /\ UNCHANGED resource
    /\ UNCHANGED <<proxyVars, lifeVars, role, workers>>

\* A promotion that does not look at closed.
PromotesAlways(c) ==
    /\ step[c] = "promote"
    /\ pendingConns' = pendingConns \ {c}
    /\ Goes(c, "own work") /\ activeConns' = activeConns \cup {c}
    /\ UNCHANGED <<closed, closer, toClose, lifeVars, role, resource, workers>>

\* promotePending; on refusal the socket of Prepare is closed by the caller.
Promotes(c) ==
    /\ step[c] = "promote"
    /\ pendingConns' = pendingConns \ {c}
    /\ IF c \in pendingConns /\ ~closed
         THEN Goes(c, "own work") /\ activeConns' = activeConns \cup {c} /\ UNCHANGED resource
         ELSE Goes(c, "give up") /\ resource' = Released(c, {"listen"}) /\ UNCHANGED activeConns
    /\ UNCHANGED <<closed, closer, toClose, lifeVars, role, workers>>

\* finishPending
GivesUp(c) ==
    /\ step[c] = "give up" /\ Goes(c, "ended")
    /\ pendingConns' = pendingConns \ {c} /\ resource' = Released(c, {"work"})
    /\ UNCHANGED <<closed, activeConns, closer, toClose, lifeVars, role, workers>>

\* addCloser: after stop the resource is closed at once.
Adds(c, o, then) ==
    /\ Goes(c, then)
    /\ IF stopped[c]
         THEN resource' = Released(c, {o}) /\ UNCHANGED closers
         ELSE closers' = [closers EXCEPT ![c] = @ \cup {o}] /\ UNCHANGED resource
    /\ UNCHANGED <<proxyVars, stopped, role, workers>>

OwnsWork(c) ==
    /\ step[c] = "own work"
    /\ Adds(c, "work", IF role[c] = "p2p" THEN "own listen" ELSE "run")
OwnsListen(c)   == step[c] = "own listen"   /\ Adds(c, "listen", "exchange")
OwnsHole(c)     == step[c] = "own hole"     /\ Adds(c, "hole", "listen")
OwnsListener(c) == step[c] = "own listener" /\ Adds(c, "listener", "accept")
OwnsQUIC(c)     == step[c] = "own quic"     /\ Adds(c, "quic", "run")

\* ExchangeInfo and MakeHole, which end early when the lifecycle is stopped.
\* MakeHole may return another socket than it was given, and leave one behind.
MakesHole(c) ==
    /\ step[c] = "exchange"
    /\ \E hole \in {"none", "open"}, port \in {"closed", "open"} :
          resource' = [resource EXCEPT ![c]["hole"] = hole, ![c]["port"] = port]
    /\ \/ resource'[c]["hole"] = "open" /\ Goes(c, "own hole")
       \/ resource'[c]["hole"] = "none" /\ (Goes(c, "listen") \/ Goes(c, "finish"))
    /\ UNCHANGED <<proxyVars, lifeVars, role, workers>>

\* The reader of a socket that MakeHole did not return closes it: the read times
\* out, or a message has come that nobody takes.
ReaderCloses(c) ==
    /\ \/ resource[c]["port"] = "open"
          /\ resource' = [resource EXCEPT ![c]["port"] = "closed"]
       \/ resource[c]["listen"] = "open" /\ resource[c]["hole"] # "none"
          /\ resource' = [resource EXCEPT ![c]["listen"] = "closed"]
    /\ UNCHANGED <<proxyVars, lifeVars, step, role, workers>>

\* transport.Listen; without a listener the deferred Close releases the socket.
Listens(c) ==
    /\ step[c] = "listen"
    /\ \/ Goes(c, "own listener") /\ resource' = Opened(c, "listener")
       \/ /\ Goes(c, "finish")
          /\ resource' = Released(c, IF resource[c]["hole"] = "none" THEN {"listen"} ELSE {"hole"})
    /\ UNCHANGED <<proxyVars, lifeVars, role, workers>>

\* listener.Accept, bounded by ten seconds and by the lifecycle, and the check of
\* the peer's fingerprint.
Accepts(c) ==
    /\ step[c] = "accept"
    /\ \/ ~stopped[c] /\ Goes(c, "own quic") /\ resource' = Opened(c, "quic")
       \/ Goes(c, "finish") /\ resource' = Released(c, {"listener"})
    /\ UNCHANGED <<proxyVars, lifeVars, role, workers>>

-----------------------------------------------------------------------------
(* Running and stopping.                                                   *)

\* xudpConnLifecycle.stop
Stop(c) ==
    /\ stopped' = [stopped EXCEPT ![c] = TRUE]
    /\ resource' = IF stopped[c] THEN resource ELSE Released(c, closers[c])
    /\ closers' = [closers EXCEPT ![c] = {}]

\* A relay that cannot be wrapped ends here; otherwise the workers start.
Starts(c) ==
    /\ step[c] = "run"
    /\ \/ Goes(c, "working") /\ workers' = [workers EXCEPT ![c] = Workers] /\ UNCHANGED resource
       \/ /\ role[c] = "relay" /\ Goes(c, "finish") /\ resource' = Released(c, {"work"})
          /\ UNCHANGED workers
    /\ UNCHANGED <<proxyVars, lifeVars, role>>

\* A worker ends, by itself or because the lifecycle was stopped, and stops it.
WorkerEnds(c, w) ==
    /\ step[c] = "working" /\ w \in workers[c]
    /\ workers' = [workers EXCEPT ![c] = @ \ {w}]
    /\ Stop(c)
    /\ UNCHANGED <<proxyVars, step, role>>

\* All workers are joined; listenByQUICDatagram closes its listener.
Joins(c) ==
    /\ step[c] = "working" /\ workers[c] = {}
    /\ Goes(c, "finish") /\ resource' = Released(c, {"listener"})
    /\ UNCHANGED <<proxyVars, lifeVars, role, workers>>

\* finishActive
Finishes(c) ==
    /\ step[c] = "finish" /\ Goes(c, "ended")
    /\ Stop(c)
    /\ activeConns' = activeConns \ {c}
    /\ UNCHANGED <<closed, pendingConns, closer, toClose, role, workers>>

-----------------------------------------------------------------------------
(* Close.                                                                  *)

CloseStarts ==
    /\ closer = "idle" /\ closer' = "closing"
    /\ closed' = TRUE /\ toClose' = pendingConns \cup activeConns
    /\ UNCHANGED <<pendingConns, activeConns, step, role, resource, lifeVars, workers>>

\* One pending work connection is closed, or one active lifecycle stopped; which
\* of the two was settled by the snapshot.
CloseOne(c) ==
    /\ closer = "closing" /\ c \in toClose
    /\ toClose' = toClose \ {c}
    /\ IF c \in activeConns \/ step[c] = "ended"
         THEN Stop(c)
         ELSE resource' = Released(c, {"work"}) /\ UNCHANGED lifeVars
    /\ UNCHANGED <<closed, pendingConns, activeConns, closer, step, role, workers>>

CloseWaits ==
    /\ closer = "closing" /\ toClose = {} /\ closer' = "waiting"
    /\ UNCHANGED <<closed, pendingConns, activeConns, toClose, step, role, resource, lifeVars, workers>>

\* activeWG.Wait
CloseReturns ==
    /\ closer = "waiting" /\ activeConns = {} /\ closer' = "returned"
    /\ UNCHANGED <<closed, pendingConns, activeConns, toClose, step, role, resource, lifeVars, workers>>

Closing == (\E c \in Conns : CloseOne(c)) \/ CloseWaits \/ CloseReturns

SettingUp(c) == Registers(c) \/ Classifies(c) \/ ReadsSid(c) \/ Promotes(c) \/ GivesUp(c)
                \/ OwnsWork(c) \/ OwnsListen(c) \/ MakesHole(c) \/ OwnsHole(c) \/ Listens(c)
                \/ OwnsListener(c) \/ Accepts(c) \/ OwnsQUIC(c) \/ Starts(c)

\* The workers of a stopped plane end: its context is done and its connections
\* are closed.
Stopping(c) == (stopped[c] /\ \E w \in Workers : WorkerEnds(c, w)) \/ Joins(c) \/ Finishes(c)

XUDPProxyNext ==
    \/ \E c \in Conns :
          \/ Arrives(c) \/ SettingUp(c) \/ Prepares(c) \/ ReaderCloses(c) \/ Stopping(c)
          \/ \E w \in Workers : WorkerEnds(c, w)
    \/ CloseStarts \/ Closing

XUDPProxySpec == XUDPProxyInit /\ [][XUDPProxyNext]_xvars
-----------------------------------------------------------------------------
(* Properties.                                                             *)

\* A handler that has ended owns nothing any more: whatever it was given or opened,
\* in whichever order stop, addCloser and the deferred closes came, is closed
\* (client/proxy/xudp.go addCloser, stop; pkg/xudp/transport/quic.go).  A socket that
\* MakeHole left on a random port may still be read (pkg/nathole/nathole.go).
PlanesRelease ==
    \A c \in Conns : step[c] = "ended" => \A o \in Owned : resource[c][o] # "open"

\* When Close has returned no data plane is running, no work connection that was
\* handed to the proxy before is open, and the only sockets left are those of a
\* Prepare that was under way and of random ports that are still read
\* (client/proxy/xudp.go Close, handleP2PWorkConn: "a late Prepare result is
\* rejected by promotePending and its socket is released").
XUDPClosedReleases ==
    closer = "returned" =>
        \A c \in Conns :
           /\ step[c] \in {"none", "arrived", "classify", "sid", "prepare", "promote", "give up", "ended"}
           /\ step[c] \notin {"none", "arrived"} => resource[c]["work"] # "open"
           /\ resource[c]["listen"] = "open" => step[c] = "promote"

\* Close returns without waiting for nathole.Prepare, and whatever the planes are
\* doing (client/proxy/xudp.go Close, activeWG.Wait), and the sockets of random ports
\* are closed by their readers.
Pending == closer = "closing"
Settled == closer = "returned" /\ \A c \in Conns : resource[c]["port"] # "open"
=============================================================================
