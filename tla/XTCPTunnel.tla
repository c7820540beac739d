----------------------------- MODULE XTCPTunnel -----------------------------
(***************************************************************************)
(* The tunnel of one xtcp visitor of frpc (client/visitor/xtcp.go,         *)
(* pkg/nathole/nathole.go).  User connections and, with keepTunnelOpen, a  *)
(* worker open streams on one session; a caller that cannot closes the     *)
(* session and asks the starter for a new one, which makes a NAT hole on a *)
(* UDP socket.  The session's RWMutex is held for reading while a stream   *)
(* is being opened.  A caller that has closed the session sends its start  *)
(* event at once: the starter sleeps up to 10 s between two holes, so that *)
(* no hole is made between these two steps.                                *)
(***************************************************************************)
EXTENDS Integers, FiniteSets

CONSTANTS Users,        \* user connections
          Keeper,       \* keepTunnelOpenWorker, a caller too
          MaxSocks,     \* bound: UDP sockets
          MaxTries      \* bound: attempts before the deadline of openTunnel

Socks   == 1..MaxSocks
Callers == Users \cup {Keeper}

VARIABLES keepOpen,     \* cfg.KeepTunnelOpen
          cancelled,    \* the visitor's context
          closer,       \* Close
          caller,       \* caller -> [step, tries]
          starter,      \* processTunnelStartEvents: [step, sock]
          sock,         \* socket -> "none", "open", "closed"
          waiter,       \* socket -> goroutine of MakeHole that reads from it
          hole,         \* socket -> the first socket of the MakeHole it belongs to
          session,      \* the socket of the session, 0 for none
          up,           \* sockets of sessions in use whose peer answers
          orphans       \* sessions that were replaced while open

xvars == <<keepOpen, cancelled, closer, caller, starter, sock, waiter, hole, session, up,
           orphans>>

TunnelTypeOK ==
    /\ keepOpen \in BOOLEAN /\ cancelled \in BOOLEAN /\ closer \in {"no", "session", "done"}
    /\ caller \in [Callers -> [step : {"none", "start", "wait", "try", "opening", "failed",
                                       "tunnel", "error"},
                               tries : 0..MaxTries]]
    /\ starter \in [step : {"idle", "precheck", "prepare", "exchange", "hole", "select", "init",
                            "install", "sleep", "ended"},
                    sock : 0..MaxSocks]
    /\ sock \in [Socks -> {"none", "open", "closed"}]
    /\ waiter \in [Socks -> {"none", "read", "found"}] /\ hole \in [Socks -> 0..MaxSocks]
    /\ session \in 0..MaxSocks /\ up \subseteq Socks /\ orphans \subseteq Socks

TunnelInit ==
    /\ keepOpen \in BOOLEAN /\ cancelled = FALSE /\ closer = "no"
    /\ caller = [c \in Callers |-> [step  |-> IF c = Keeper /\ keepOpen THEN "start" ELSE "none",
                                    tries |-> 0]]
    /\ starter = [step |-> "idle", sock |-> 0]
    /\ sock = [s \in Socks |-> "none"] /\ waiter = [s \in Socks |-> "none"]
    /\ hole = [s \in Socks |-> 0]
    /\ session = 0 /\ up = {} /\ orphans = {}

-----------------------------------------------------------------------------
(* Callers.                                                                *)

callRest == <<keepOpen, cancelled, closer, waiter, hole, orphans>>

Call(c, s) == caller' = [caller EXCEPT ![c].step = s]

Reading == {c \in Callers : caller[c].step = "opening"}

\* A pending Lock keeps new readers out.
Locking == \/ closer = "session" \/ starter.step = "install"
           \/ \E c \in Callers : caller[c].step = "failed"

\* acceptLoop hands a connection to handleConn.
UserArrives(c) ==
    /\ c \in Users /\ caller[c].step = "none" /\ ~cancelled /\ Call(c, "try")
    /\ UNCHANGED <<callRest, starter, sock, session, up>>

\* keepTunnelOpenWorker's first event waits for the starter to take it.
KeeperStarts ==
    /\ caller[Keeper].step = "start" /\ starter.step = "idle"
    /\ Call(Keeper, "wait") /\ starter' = [starter EXCEPT !.step = "precheck"]
    /\ UNCHANGED <<callRest, sock, session, up>>

\* session.OpenConn.
OpenConn(c) ==
    /\ caller[c].step = "try" /\ ~Locking
    /\ Call(c, IF session = 0 THEN "failed" ELSE "opening")
    /\ UNCHANGED <<callRest, starter, sock, session, up>>

\* It returns a stream, which the keeper closes, ...
Opens(c) ==
    /\ caller[c].step = "opening" /\ session \in up
    /\ Call(c, IF c = Keeper THEN "wait" ELSE "tunnel")
    /\ UNCHANGED <<callRest, starter, sock, session, up>>

\* ... or the session has died, or the context ended first.
OpenFails(c) ==
    /\ caller[c].step = "opening" /\ Call(c, "failed")
    /\ UNCHANGED <<callRest, starter, sock, session, up>>

\* TunnelSession.Close.
Closed == IF session = 0 THEN sock ELSE [sock EXCEPT ![session] = "closed"]

\* getTunnelConn after an error: the session is closed, and a starter that is
\* waiting for an event gets one.
GetTunnelConnFails(c) ==
    /\ caller[c].step = "failed" /\ Reading = {} /\ Call(c, "wait")
    /\ sock' = Closed /\ up' = up \ {session} /\ session' = 0
    /\ starter' = IF starter.step = "idle" THEN [starter EXCEPT !.step = "precheck"] ELSE starter
    /\ UNCHANGED callRest

\* openTunnel's timer, or the keeper's ticker.
TriesAgain(c) ==
    /\ caller[c].step = "wait" /\ caller[c].tries < MaxTries
    /\ caller' = [caller EXCEPT ![c] = [step  |-> "try",
                                        tries |-> IF c = Keeper THEN 0 ELSE @.tries + 1]]
    /\ UNCHANGED <<callRest, starter, sock, session, up>>

\* The deadline of openTunnel, or the end of the visitor.
GivesUp(c) ==
    /\ caller[c].step = "wait" /\ (c = Keeper => cancelled) /\ Call(c, "error")
    /\ UNCHANGED <<callRest, starter, sock, session, up>>

-----------------------------------------------------------------------------
(* makeNatHole.                                                            *)

startRest == <<keepOpen, cancelled, closer, caller, orphans>>

\* The next socket, if the bound allows one.
Fresh == {s \in Socks : sock[s] = "none" /\ \A k \in 1..s - 1 : sock[k] # "none"}

Start(s, k) == starter' = [step |-> s, sock |-> k]

StarterEnds == /\ starter.step = "idle" /\ cancelled /\ Start("ended", 0)
               /\ UNCHANGED <<startRest, hole, sock, waiter, session, up>>

\* PreCheck.
PreCheck ==
    /\ starter.step = "precheck" /\ (Start("prepare", 0) \/ Start("sleep", 0))
    /\ UNCHANGED <<startRest, hole, sock, waiter, session, up>>

\* Prepare finds the NAT's addresses with a socket it closes, and listens.
Prepare ==
    /\ starter.step = "prepare"
    /\ \/ Start("sleep", 0) /\ UNCHANGED sock
       \/ \E s \in Fresh : Start("exchange", s) /\ sock' = [sock EXCEPT ![s] = "open"]
    /\ UNCHANGED <<startRest, hole, waiter, session, up>>

\* ExchangeInfo.
ExchangeInfo ==
    /\ starter.step = "exchange"
    /\ \/ Start("hole", starter.sock) /\ UNCHANGED sock
       \/ Start("sleep", 0) /\ sock' = [sock EXCEPT ![starter.sock] = "closed"]
    /\ UNCHANGED <<startRest, hole, waiter, session, up>>

\* MakeHole with one socket: the peer's message arrives in time or the caller
\* closes the socket.
MakeHole ==
    /\ starter.step = "hole"
    /\ \/ Start("init", starter.sock) /\ UNCHANGED sock
       \/ Start("sleep", 0) /\ sock' = [sock EXCEPT ![starter.sock] = "closed"]
    /\ UNCHANGED <<startRest, hole, waiter, session, up>>

\* MakeHole with random ports: more sockets, each read by a goroutine.
MakeHoleRandom ==
    /\ starter.step = "hole" /\ Start("select", starter.sock)
    /\ \E s \in Fresh :
          /\ sock' = [sock EXCEPT ![s] = "open"]
          /\ waiter' = [waiter EXCEPT ![s] = "read", ![starter.sock] = "read"]
          /\ hole' = [hole EXCEPT ![s] = starter.sock, ![starter.sock] = starter.sock]
    /\ UNCHANGED <<keepOpen, cancelled, closer, caller, orphans, session, up>>

\* waitDetectMessage.
WaiterFinds(s) ==
    /\ waiter[s] = "read" /\ sock[s] = "open" /\ waiter' = [waiter EXCEPT ![s] = "found"]
    /\ UNCHANGED <<startRest, hole, starter, sock, session, up>>

WaiterEnds(s) == waiter' = [waiter EXCEPT ![s] = "none"] /\ hole' = [hole EXCEPT ![s] = 0]

\* MakeHole takes the result; if it does not wait for one yet, or no longer,
\* the goroutine closes its socket.
WaiterReports(s) ==
    /\ waiter[s] = "found" /\ WaiterEnds(s)
    /\ \/ /\ starter.step = "select" /\ starter.sock = hole[s] /\ Start("init", s)
          /\ UNCHANGED sock
       \/ sock' = [sock EXCEPT ![s] = "closed"] /\ UNCHANGED starter
    /\ UNCHANGED <<startRest, session, up>>

WaiterFails(s) ==
    /\ waiter[s] = "read" /\ WaiterEnds(s)
    /\ sock' = [sock EXCEPT ![s] = "closed"]
    /\ UNCHANGED <<startRest, starter, session, up>>

\* No result in time, or the visitor was closed: makeNatHole closes the first
\* socket, the goroutines the others.
HoleTimesOut ==
    /\ starter.step = "select" /\ Start("sleep", 0)
    /\ sock' = [sock EXCEPT ![starter.sock] = "closed"]
    /\ UNCHANGED <<startRest, hole, waiter, session, up>>

\* session.Init: the dial, ...
InitDials ==
    /\ starter.step = "init"
    /\ \/ Start("install", starter.sock) /\ up' = up \cup {starter.sock} /\ UNCHANGED sock
       \/ Start("sleep", 0) /\ sock' = [sock EXCEPT ![starter.sock] = "closed"] /\ UNCHANGED up
    /\ UNCHANGED <<startRest, hole, waiter, session>>

\* ... and the session that replaces the one there was, if any.
InitInstalls ==
    /\ starter.step = "install" /\ Reading = {} /\ Start("sleep", 0)
    /\ orphans' = IF session = 0 THEN orphans ELSE orphans \cup {session}
    /\ session' = starter.sock /\ up' = up \ {session}
    /\ UNCHANGED <<keepOpen, cancelled, closer, caller, sock, waiter, hole>>

\* The rest of the 10 seconds.
Sleeps == /\ starter.step = "sleep" /\ Start("idle", 0)
          /\ UNCHANGED <<startRest, hole, sock, waiter, session, up>>

PeerDies(s) == /\ s \in up /\ up' = up \ {s}
               /\ UNCHANGED <<startRest, hole, starter, sock, waiter, session>>

-----------------------------------------------------------------------------
(* XTCPVisitor.Close.                                                      *)

CloseCancels ==
    /\ closer = "no" /\ closer' = "session" /\ cancelled' = TRUE
    /\ UNCHANGED <<keepOpen, caller, starter, sock, waiter, hole, session, up, orphans>>

CloseSession ==
    /\ closer = "session" /\ Reading = {} /\ closer' = "done"
    /\ sock' = Closed /\ up' = up \ {session} /\ session' = 0
    /\ UNCHANGED <<keepOpen, cancelled, caller, starter, waiter, hole, orphans>>

Caller(c)  == \/ OpenConn(c) \/ Opens(c) \/ OpenFails(c) \/ GetTunnelConnFails(c)
              \/ TriesAgain(c) \/ GivesUp(c)
Starting   == \/ StarterEnds \/ PreCheck \/ Prepare \/ ExchangeInfo \/ MakeHole \/ MakeHoleRandom
              \/ HoleTimesOut \/ InitDials \/ InitInstalls \/ Sleeps
Waiting(s) == WaiterFinds(s) \/ WaiterReports(s) \/ WaiterFails(s)

TunnelNext == \/ \E c \in Callers : UserArrives(c) \/ Caller(c)
              \/ KeeperStarts \/ Starting
              \/ \E s \in Socks : Waiting(s) \/ PeerDies(s)
              \/ CloseCancels \/ CloseSession

TunnelSpec == TunnelInit /\ [][TunnelNext]_xvars
-----------------------------------------------------------------------------
(* Properties.                                                             *)

\* Open sockets that nothing is sure to close: sessions that were replaced, and the
\* session that a hole has installed after Close.
Abandoned ==
    {s \in Socks : sock[s] = "open" /\ (s \in orphans \/ (s = session /\ closer = "done"))}

\* No UDP socket is lost on any path of makeNatHole and MakeHole: an open one
\* belongs to the hole being made, to a goroutine that will close it or to the
\* session of a visitor that Close will find.  There are two exceptions, each of
\* them one socket at most.  keepTunnelOpenWorker's first start event, which no caller
\* precedes with a Close, may replace an open session; and a hole that was being made
\* when the visitor was closed installs its session all the same
\* (client/visitor/xtcp.go makeNatHole, getTunnelConn, keepTunnelOpenWorker, Close).
SocketsAccounted ==
    /\ \A s \in Socks : sock[s] = "open" =>
          \/ s = starter.sock \/ waiter[s] \in {"read", "found"}
          \/ s = session /\ closer # "done"
          \/ s \in Abandoned
    /\ Cardinality(Abandoned) <= (IF keepOpen THEN 1 ELSE 0) + (IF closer = "done" THEN 1 ELSE 0)

\* openTunnel returns, the goroutines of MakeHole end and so does Close, which
\* needs the lock that callers hold while they open a stream.
Pending ==
    \/ \E c \in Users : caller[c].step \notin {"none", "tunnel", "error"}
    \/ \E s \in Socks : waiter[s] \in {"read", "found"}
    \/ closer = "session"
Settled == ~Pending
=============================================================================
