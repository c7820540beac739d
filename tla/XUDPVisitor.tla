----------------------------- MODULE XUDPVisitor -----------------------------
(***************************************************************************)
(* The XUDP visitor of frpc (client/visitor/xudp.go).  Datagrams of local  *)
(* users enter sendCh; one dispatcher runs a session that forwards them     *)
(* over a P2P (QUIC) transport or, when that fails, over a relay through    *)
(* frps, and probes for P2P again while the relay carries the traffic.     *)
(*                                                                         *)
(* Threads: the dispatcher (dispatcher, runSession, dialP2P,               *)
(* runRelayWithP2PRecovery), the goroutine of a NAT preparation, for every *)
(* transport the body of runActiveTransport with its reader, its sender    *)
(* and the goroutine that watches for cancellation, ForwardUserConn, and   *)
(* Close.  A datagram is its number in the order in which users sent them. *)
(***************************************************************************)
EXTENDS Naturals, OneShotRequest, Sequences

CONSTANTS
    MaxPackets,     \* bound: datagrams users send
    MaxTransports,  \* bound: connections that are ever established
    SendCap,        \* capacity of sendCh
    ReadCap,        \* capacity of readCh
    RandomPorts,    \* bound: random ports frps may tell MakeHole to listen on
    MaxStrays       \* bound: sockets that calls of MakeHole have left behind

ASSUME VisitorAssumption ==
    /\ MaxPackets \in Nat /\ MaxTransports \in Nat
    /\ SendCap \in Nat \ {0} /\ ReadCap \in Nat \ {0}
    /\ RandomPorts \in Nat /\ MaxStrays \in Nat

VARIABLES
    run,       \* Run: not called, running, or failed to listen
    machine,   \* sv.state
    ctxDone,   \* sv.ctx is done
    closer,    \* where Close is
    closers,   \* sv.activeClosers, as the transports they close
    toClose,   \* the closers Close has taken and not called yet
    next,      \* number of the next datagram
    sendCh,    \* sv.sendCh
    readCh,    \* sv.readCh, as the session and epoch of the transport a packet came from
    accepted,  \* datagrams for which SendPacket returned nil, in that order
    dropped,   \* datagrams dropped: sendCh was full, or too large for P2P
    forward,   \* where ForwardUserConn is
    disp,      \* the dispatcher
    prep,      \* the last xudpPrepareRequest
    strays,    \* open sockets of calls of MakeHole that have returned, each with a
               \* goroutine that reads it
    tr         \* the transports

visitorVars == <<run, ctxDone, closer, closers, toClose>>
packetVars  == <<next, sendCh, readCh, accepted, dropped>>
natVars     == <<prep, strays>>
vars == <<visitorVars, packetVars, natVars, machine, forward, disp, tr>>

-----------------------------------------------------------------------------
(* The state machine of a session (pkg/xudp/state): a phase, the generation *)
(* of the session and the epoch of the transport that is its data plane.    *)
(* Every method holds the machine's mutex, so each is one function from a   *)
(* machine to a machine; IsCurrent reads the two counters.                  *)

Phases ==
    {"INIT", "NAT_HOLE_PREPARE", "PUNCHING", "QUIC_HANDSHAKE", "P2P_READY",
     "RELAY_CONNECT", "RELAY_READY", "RECOVERING", "CLOSED"}
Machine == [phase : Phases, generation : Nat, transportEpoch : Nat]

NewMachine == [phase |-> "INIT", generation |-> 0, transportEpoch |-> 0]

BeginSession(m) ==
    [phase |-> "INIT", generation |-> m.generation + 1, transportEpoch |-> 0]

\* A transport of an older session must not become the current one.
BeginTransport(m, generation, phase) ==
    IF generation = m.generation
      THEN [m EXCEPT !.phase = phase, !.transportEpoch = @ + 1]
      ELSE m

SetPhaseForGeneration(m, generation, phase) ==
    IF generation = m.generation THEN [m EXCEPT !.phase = phase] ELSE m

SetPhaseForTransport(m, generation, epoch, phase) ==
    IF generation = m.generation /\ epoch = m.transportEpoch
      THEN [m EXCEPT !.phase = phase]
      ELSE m

IsCurrent(m, generation, epoch) ==
    generation = m.generation /\ epoch = m.transportEpoch

-----------------------------------------------------------------------------
Transports == 1..MaxTransports
Packets    == 1..MaxPackets
NoPacket   == 0
NoTransport == 0

DispatcherSteps ==
    {"none", "wait", "top", "dial", "precheck", "prepare", "exchange", "holes",
     "handshake", "p2p", "fallback", "relayDial", "relay", "joinRelay", "joinClosing", "backoff", "gone"}
BodySteps   == {"none", "register", "first", "sendFirst", "run", "join", "unregister", "done"}
ReaderSteps == {"none", "check", "receive", "got", "push", "done"}
SenderSteps == {"none", "select", "recheck", "send", "done"}
CloserSteps == {"idle", "locked", "closers", "waiting", "done"}

NewTransport ==
    [kind |-> "none", conn |-> "none", ctx |-> FALSE, cancel |-> FALSE, gen |-> 0, epoch |-> 0,
     body |-> "none", pending |-> NoPacket, reader |-> "none", sender |-> "none",
     pkt |-> NoPacket, handoff |-> NoPacket]

TypeOK ==
    /\ run \in {"new", "running", "failed"}
    /\ machine \in Machine
    /\ ctxDone \in BOOLEAN
    /\ closer \in CloserSteps
    /\ closers \subseteq Transports /\ toClose \subseteq Transports
    /\ next \in 1..(MaxPackets + 1)
    /\ sendCh \in Seq(Packets) /\ Len(sendCh) <= SendCap
    /\ readCh \in Seq(Nat \X Nat) /\ Len(readCh) <= ReadCap
    /\ accepted \in Seq(Packets)
    /\ dropped \subseteq Packets
    /\ forward \in {"none", "running", "done"}
    /\ disp \in [pc : DispatcherSteps, gen : Nat, phase : Phases, pending : Packets \cup {NoPacket},
                 sock : Resources, ports : 0..RandomPorts, active : Transports \cup {NoTransport},
                 cand : Transports \cup {NoTransport}, probing : BOOLEAN]
    /\ prep \in Request /\ strays \in 0..MaxStrays
    /\ tr \in [Transports ->
                [kind : {"none", "p2p", "relay"}, conn : Resources, ctx : BOOLEAN, cancel : BOOLEAN,
                 gen : Nat, epoch : Nat, body : BodySteps, pending : Packets \cup {NoPacket},
                 reader : ReaderSteps, sender : SenderSteps, pkt : Packets \cup {NoPacket},
                 handoff : Packets \cup {NoPacket}]]

Init ==
    /\ run = "new"
    /\ machine = NewMachine
    /\ ctxDone = FALSE
    /\ closer = "idle" /\ closers = {} /\ toClose = {}
    /\ next = 1 /\ sendCh = <<>> /\ readCh = <<>> /\ accepted = <<>> /\ dropped = {}
    /\ forward = "none"
    /\ disp = [pc |-> "none", gen |-> 0, phase |-> "INIT", pending |-> NoPacket, sock |-> "none",
               ports |-> 0, active |-> NoTransport, cand |-> NoTransport, probing |-> FALSE]
    /\ prep = NoRequest /\ strays = 0
    /\ tr = [t \in Transports |-> NewTransport]

\* sv.closed, and whether sv.mu is free: Close holds it until closeCh is closed.
closed  == closer # "idle"
MuFree  == closer # "locked"
closeCh == run = "running" /\ closer \in {"closers", "waiting", "done"}

-----------------------------------------------------------------------------
(* Run, the users' side and Close *)

\* Run holds sv.mu throughout.  It succeeds, or the UDP port cannot be bound.
Run ==
    /\ run = "new" /\ MuFree /\ ~closed
    /\ \/ /\ run' = "running" /\ forward' = "running"
          /\ disp' = [disp EXCEPT !.pc = "wait"]
       \/ run' = "failed" /\ UNCHANGED <<forward, disp>>
    /\ UNCHANGED <<machine, ctxDone, closer, closers, toClose, packetVars, natVars, tr>>

\* The context the visitor was made with is cancelled before anybody calls Close.
ParentDone ==
    /\ run = "running" /\ ~ctxDone
    /\ ctxDone' = TRUE
    /\ UNCHANGED <<run, closer, closers, toClose, packetVars, machine, forward, disp, natVars, tr>>

\* ForwardUserConn reads a datagram; it never waits for room in sendCh.
UserDatagram ==
    /\ forward = "running" /\ ~closeCh /\ next <= MaxPackets
    /\ next' = next + 1
    /\ \/ /\ Len(sendCh) < SendCap
          /\ sendCh' = Append(sendCh, next) /\ UNCHANGED dropped
       \/ /\ Len(sendCh) = SendCap
          /\ dropped' = dropped \cup {next} /\ UNCHANGED sendCh
    /\ UNCHANGED <<visitorVars, readCh, accepted, machine, forward, disp, natVars, tr>>

\* ForwardUserConn's writer sends a packet of the peer back to a user.
WriteToUser ==
    /\ forward = "running" /\ readCh # <<>>
    /\ readCh' = Tail(readCh)
    /\ UNCHANGED <<visitorVars, next, sendCh, accepted, dropped, machine, forward, disp, natVars, tr>>

\* The UDP socket is closed: both directions stop.
ForwardEnds ==
    /\ forward = "running" /\ closeCh
    /\ forward' = "done"
    /\ UNCHANGED <<visitorVars, packetVars, machine, disp, natVars, tr>>

\* Close marks the visitor closed, takes the closers and cancels the context.
CloseStart ==
    /\ closer = "idle"
    /\ closer' = "locked"
    /\ toClose' = closers /\ closers' = {}
    /\ ctxDone' = (ctxDone \/ run # "new")
    /\ UNCHANGED <<run, packetVars, machine, forward, disp, natVars, tr>>

\* It closes the UDP socket and closeCh, and gives up sv.mu.
CloseChannels ==
    /\ closer = "locked"
    /\ closer' = "closers"
    /\ UNCHANGED <<run, ctxDone, closers, toClose, packetVars, machine, forward, disp, natVars, tr>>

\* A closer that cancels the context and leaves the connection open.
ShutContext(t) == [t EXCEPT !.ctx = TRUE]

\* closeTransport
Shut(t) == [t EXCEPT !.ctx = TRUE, !.conn = Recycled(@)]

\* It calls the closers it has taken.
CloseTransport ==
    /\ closer = "closers"
    /\ \/ \E t \in toClose :
            /\ tr' = [tr EXCEPT ![t] = Shut(@)]
            /\ toClose' = toClose \ {t} /\ UNCHANGED closer
       \/ toClose = {} /\ closer' = "waiting" /\ UNCHANGED <<tr, toClose>>
    /\ UNCHANGED <<run, ctxDone, closers, packetVars, machine, forward, disp, natVars>>

\* workers.Wait, then close(closeDone).
CloseDone ==
    /\ closer = "waiting"
    /\ run = "running" => disp.pc = "gone" /\ forward = "done"
    /\ closer' = "done"
    /\ UNCHANGED <<run, ctxDone, closers, toClose, packetVars, machine, forward, disp, natVars, tr>>

-----------------------------------------------------------------------------
(* The dispatcher *)

Unused == {t \in Transports : tr[t].conn = "none"}
Fresh  == CHOOSE t \in Unused : \A u \in Unused : t <= u

\* runActiveTransport is called on an open connection, in the epoch of m.
Activated(t, kind, m, first) ==
    [t EXCEPT !.kind = kind, !.conn = "open", !.gen = m.generation, !.epoch = m.transportEpoch,
              !.body = "register", !.pending = first]

\* Once the caller has the result and no worker runs, nothing of a transport is used
\* any more.
Retired(t) ==
    IF {t.reader, t.sender} \subseteq {"none", "done"}
      THEN [NewTransport EXCEPT !.kind = t.kind, !.conn = t.conn]
      ELSE t

\* The first datagram starts a session.
Dequeue ==
    /\ disp.pc = "wait" /\ sendCh # <<>>
    /\ machine' = BeginSession(machine)
    /\ disp' = [disp EXCEPT !.pc = "top", !.gen = machine'.generation, !.pending = Head(sendCh)]
    /\ sendCh' = Tail(sendCh)
    /\ UNCHANGED <<visitorVars, next, readCh, accepted, dropped, forward, natVars, tr>>

DispatcherStops ==
    /\ disp.pc = "wait" /\ closeCh
    /\ disp' = [disp EXCEPT !.pc = "gone"]
    /\ UNCHANGED <<visitorVars, packetVars, machine, forward, natVars, tr>>

\* runSession returns to the dispatcher.
SessionOver(d) == [d EXCEPT !.pc = "wait", !.pending = NoPacket, !.active = NoTransport]

SessionTop ==
    /\ disp.pc = "top"
    /\ disp' = IF closeCh THEN SessionOver(disp) ELSE [disp EXCEPT !.pc = "dial"]
    /\ UNCHANGED <<visitorVars, packetVars, machine, forward, natVars, tr>>

\* A failed probe that leaves the phase as it is.
DialFailedQuietly(d, m) ==
    /\ disp' = IF d.probing THEN [d EXCEPT !.pc = "relay", !.probing = FALSE, !.sock = "none"]
                ELSE [d EXCEPT !.pc = "fallback", !.sock = "none"]
    /\ machine' = m

\* dialP2P returns no connection: to the relay loop, which restores the phase of
\* the relay, or to runSession, which falls back to a relay.
DialFailed(d, m) ==
    IF d.probing
      THEN /\ disp' = [d EXCEPT !.pc = "relay", !.probing = FALSE, !.sock = "none"]
           /\ machine' = SetPhaseForTransport(m, d.gen, tr[d.active].epoch, "RELAY_READY")
      ELSE /\ disp' = [d EXCEPT !.pc = "fallback", !.sock = "none"]
           /\ machine' = m

\* setPhase of dialP2P: a probe leaves the phase RECOVERING.
DialPhase(phase) ==
    SetPhaseForGeneration(machine, disp.gen, IF disp.phase = "RECOVERING" THEN "RECOVERING" ELSE phase)

DialStart ==
    /\ disp.pc = "dial"
    /\ disp' = [disp EXCEPT !.pc = "precheck", !.phase = machine.phase]
    /\ machine' = SetPhaseForGeneration(machine, disp.gen,
                     IF machine.phase = "RECOVERING" THEN "RECOVERING" ELSE "NAT_HOLE_PREPARE")
    /\ UNCHANGED <<visitorVars, packetVars, forward, natVars, tr>>

\* nathole.PreCheck asks frps; it fails when the context is done.
PreCheck ==
    /\ disp.pc = "precheck"
    /\ \/ /\ ~ctxDone
          /\ machine' = DialPhase("PUNCHING")
          /\ disp' = [disp EXCEPT !.pc = "prepare"]
          /\ prep' = NewRequest
       \/ DialFailed(disp, machine) /\ UNCHANGED prep
    /\ UNCHANGED <<visitorVars, packetVars, strays, forward, tr>>

\* nathole.Prepare returns, with a socket or with an error, however late.
PrepareReturns ==
    /\ prep.step = "running"
    /\ \E conn \in {"open", "none"} : prep' = Delivered(prep, conn)
    /\ UNCHANGED <<visitorVars, packetVars, strays, machine, forward, disp, tr>>

\* xudpPrepareRequest.wait: a result is there ...
PrepareTaken ==
    /\ disp.pc = "prepare" /\ prep.step = "ready"
    /\ \/ /\ closeCh
          /\ DialFailed(disp, machine) /\ prep' = Canceled(prep)
       \/ /\ ~closeCh /\ prep.conn # "open"
          /\ DialFailed(disp, machine) /\ prep' = Received(prep)
       \/ /\ ~closeCh /\ prep.conn = "open"
          /\ disp' = [disp EXCEPT !.pc = "exchange", !.sock = "open"]
          /\ prep' = Received(prep) /\ UNCHANGED machine
    /\ UNCHANGED <<visitorVars, packetVars, strays, forward, tr>>

\* ... or the visitor is closed first.
PrepareAbandoned ==
    /\ disp.pc = "prepare" /\ closeCh
    /\ DialFailed(disp, machine)
    /\ prep' = Canceled(prep)
    /\ UNCHANGED <<visitorVars, packetVars, strays, forward, tr>>

\* The NAT information is exchanged through frps and a hole is made; each failure
\* closes the socket.  MakeHole reads its only socket until a message comes or the read
\* times out, without looking at the context.  When the answer of frps tells it to
\* listen on random ports as well, a goroutine reads each of the sockets.
Exchange ==
    /\ disp.pc = "exchange"
    /\ \/ disp' = [disp EXCEPT !.pc = "handshake"] /\ machine' = DialPhase("QUIC_HANDSHAKE")
       \/ \E n \in 1..RandomPorts :
            /\ strays + n + 1 <= MaxStrays
            /\ disp' = [disp EXCEPT !.pc = "holes", !.ports = n] /\ UNCHANGED machine
       \/ DialFailed([disp EXCEPT !.sock = Recycled(@)], machine)
    /\ UNCHANGED <<visitorVars, packetVars, forward, natVars, tr>>

\* n sockets are left to the goroutines that read them.
LeavesStrays(n) == strays' = strays + n

\* MakeHole takes the socket of the first goroutine that gets a message, the prepared
\* one or that of a random port, or gives up at its timeout or when the context is
\* done; dialP2P then closes the prepared socket.  The others stay with their goroutines.
MakeHoles ==
    LET prepared == IF disp.sock = "open" THEN 1 ELSE 0 IN
    /\ disp.pc = "holes"
    /\ \/ /\ disp.sock = "open" /\ LeavesStrays(disp.ports)
          /\ disp' = [disp EXCEPT !.pc = "handshake", !.ports = 0]
          /\ machine' = DialPhase("QUIC_HANDSHAKE")
       \/ /\ disp.ports > 0 /\ LeavesStrays(disp.ports - 1 + prepared)
          /\ disp' = [disp EXCEPT !.pc = "handshake", !.sock = "open", !.ports = 0]
          /\ machine' = DialPhase("QUIC_HANDSHAKE")
       \/ /\ DialFailed([disp EXCEPT !.sock = Recycled(@), !.ports = 0], machine)
          /\ LeavesStrays(disp.ports)
    /\ UNCHANGED <<visitorVars, packetVars, forward, prep, tr>>

\* A goroutine of the call that is under way closes its socket: the read timed out, or
\* its message came when MakeHole was not waiting for one.
ReadEnds ==
    /\ disp.pc = "holes"
    /\ \/ disp.sock = "open" /\ disp' = [disp EXCEPT !.sock = "closed"]
       \/ disp.ports > 0 /\ disp' = [disp EXCEPT !.ports = @ - 1]
    /\ UNCHANGED <<visitorVars, packetVars, machine, forward, natVars, tr>>

\* One of an earlier call does so when its read times out, or when a message has come
\* that nobody takes any more.
StrayCloses ==
    /\ strays > 0 /\ strays' = strays - 1
    /\ UNCHANGED <<visitorVars, packetVars, machine, forward, disp, prep, tr>>

\* The QUIC handshake and the check of the peer's fingerprint.  A connection made
\* by a probe stops the relay; one made by runSession is activated at once.
Handshake ==
    /\ disp.pc = "handshake"
    /\ \/ /\ Unused # {} /\ disp.probing
          /\ disp' = [disp EXCEPT !.pc = "joinRelay", !.sock = "none", !.cand = Fresh]
          /\ tr' = [tr EXCEPT ![Fresh].kind = "p2p", ![Fresh].conn = "open",
                              ![disp.active].cancel = TRUE]
          /\ UNCHANGED machine
       \/ /\ Unused # {} /\ ~disp.probing
          /\ machine' = BeginTransport(machine, disp.gen, "P2P_READY")
          /\ disp' = [disp EXCEPT !.pc = "p2p", !.sock = "none", !.active = Fresh,
                                  !.pending = NoPacket]
          /\ tr' = [tr EXCEPT ![Fresh] = Activated(@, "p2p", machine', disp.pending)]
       \/ DialFailed([disp EXCEPT !.sock = Recycled(@)], machine) /\ UNCHANGED tr
    /\ UNCHANGED <<visitorVars, packetVars, forward, natVars>>

\* runActiveTransport of a P2P transport returns the datagram it did not send.  A
\* recovered one goes back to the top of the session, another to the relay.
P2PEnded ==
    LET t == disp.active IN
    /\ disp.pc = "p2p" /\ tr[t].body = "done"
    /\ disp' = [disp EXCEPT !.pc = IF disp.probing THEN "top" ELSE "fallback",
                            !.pending = tr[t].pending, !.active = NoTransport, !.probing = FALSE]
    /\ tr' = [tr EXCEPT ![t] = Retired(@)]
    /\ UNCHANGED <<visitorVars, packetVars, machine, forward, natVars>>

\* P2P failed or ended: dialRelay.
Fallback ==
    /\ disp.pc = "fallback"
    /\ \/ closeCh /\ disp' = SessionOver(disp) /\ UNCHANGED machine
       \/ /\ ~closeCh
          /\ disp' = [disp EXCEPT !.pc = "relayDial"]
          /\ machine' = SetPhaseForGeneration(machine, disp.gen, "RELAY_CONNECT")
    /\ UNCHANGED <<visitorVars, packetVars, forward, natVars, tr>>

\* dialRawVisitorConn does not look at the context; its deadlines bound it.
RelayDial ==
    /\ disp.pc = "relayDial"
    /\ \/ /\ Unused # {}
          /\ machine' = BeginTransport(machine, disp.gen, "RELAY_READY")
          /\ disp' = [disp EXCEPT !.pc = "relay", !.active = Fresh, !.pending = NoPacket]
          /\ tr' = [tr EXCEPT ![Fresh] = Activated(@, "relay", machine', disp.pending)]
       \/ disp' = [disp EXCEPT !.pc = "backoff"] /\ UNCHANGED <<machine, tr>>
    /\ UNCHANGED <<visitorVars, packetVars, forward, natVars>>

\* The relay loop receives the result of the relay; what it leaves unsent is
\* pending again.
RelayLeft(t, pc) ==
    disp' = [disp EXCEPT !.pc = pc, !.pending = tr[t].pending, !.active = NoTransport,
                         !.cand = NoTransport, !.probing = FALSE]

RelayEnded ==
    LET t == disp.active IN
    /\ disp.pc = "relay" /\ tr[t].body = "done"
    /\ machine' = SetPhaseForTransport(machine, disp.gen, tr[t].epoch, "CLOSED")
    /\ RelayLeft(t, "backoff")
    /\ tr' = [tr EXCEPT ![t] = Retired(@)]
    /\ UNCHANGED <<visitorVars, packetVars, forward, natVars>>

\* The visitor is closed while the relay runs: it is cancelled, then joined.
RelayStopped ==
    /\ disp.pc = "relay" /\ closeCh
    /\ tr' = [tr EXCEPT ![disp.active].cancel = TRUE]
    /\ disp' = [disp EXCEPT !.pc = "joinClosing"]
    /\ UNCHANGED <<visitorVars, packetVars, machine, forward, natVars>>

RelayJoinedClosing ==
    LET t == disp.active IN
    /\ disp.pc = "joinClosing" /\ tr[t].body = "done"
    /\ RelayLeft(t, "backoff")
    /\ tr' = [tr EXCEPT ![t] = Retired(@)]
    /\ UNCHANGED <<visitorVars, packetVars, machine, forward, natVars>>

\* The probe timer fires: dial P2P while the relay keeps carrying the traffic.
Probe ==
    /\ disp.pc = "relay"
    /\ machine' = SetPhaseForGeneration(machine, disp.gen, "RECOVERING")
    /\ disp' = [disp EXCEPT !.pc = "dial", !.probing = TRUE]
    /\ UNCHANGED <<visitorVars, packetVars, forward, natVars, tr>>

\* A P2P connection that is activated while the relay is still stopping.
RelayNotJoined ==
    LET c == disp.cand IN
    /\ disp.pc = "joinRelay" /\ ~closeCh
    /\ machine' = BeginTransport(machine, disp.gen, "P2P_READY")
    /\ disp' = [disp EXCEPT !.pc = "p2p", !.active = c, !.cand = NoTransport]
    /\ tr' = [tr EXCEPT ![c] = Activated(@, "p2p", machine', tr[disp.active].pending)]
    /\ UNCHANGED <<visitorVars, packetVars, forward, natVars>>

\* A candidate that is forgotten when the visitor was closed meanwhile.
RelayJoinedLeaks ==
    LET t == disp.active
        c == disp.cand
    IN
    /\ disp.pc = "joinRelay" /\ tr[t].body = "done"
    /\ \/ closeCh /\ RelayLeft(t, "backoff") /\ tr' = [tr EXCEPT ![t] = Retired(@)]
          /\ UNCHANGED machine
       \/ /\ ~closeCh
          /\ machine' = BeginTransport(machine, disp.gen, "P2P_READY")
          /\ disp' = [disp EXCEPT !.pc = "p2p", !.active = c, !.cand = NoTransport]
          /\ tr' = [tr EXCEPT ![t] = Retired(@),
                              ![c] = Activated(@, "p2p", machine', tr[t].pending)]
    /\ UNCHANGED <<visitorVars, packetVars, forward, natVars>>

\* The relay has stopped for the new P2P connection: only now does the epoch
\* advance, and the datagram the relay left unsent goes first.
RelayJoined ==
    LET t == disp.active
        c == disp.cand
    IN
    /\ disp.pc = "joinRelay" /\ tr[t].body = "done"
    /\ \/ /\ closeCh
          /\ RelayLeft(t, "backoff")
          /\ tr' = [tr EXCEPT ![t] = Retired(@), ![c].conn = "closed"]
          /\ UNCHANGED machine
       \/ /\ ~closeCh
          /\ machine' = BeginTransport(machine, disp.gen, "P2P_READY")
          /\ disp' = [disp EXCEPT !.pc = "p2p", !.active = c, !.cand = NoTransport]
          /\ tr' = [tr EXCEPT ![t] = Retired(@),
                              ![c] = Activated(@, "p2p", machine', tr[t].pending)]
    /\ UNCHANGED <<visitorVars, packetVars, forward, natVars>>

Backoff ==
    /\ disp.pc = "backoff"
    /\ \/ closeCh /\ disp' = SessionOver(disp)
       \/ disp' = [disp EXCEPT !.pc = "top"]
    /\ UNCHANGED <<visitorVars, packetVars, machine, forward, natVars, tr>>

-----------------------------------------------------------------------------
(* runActiveTransport of transport t *)

transportFrame == <<run, ctxDone, closer, toClose, next, machine, forward, disp, natVars>>

\* transportCtx is done, and t is the transport of the current epoch.
CtxDone(t) == ctxDone \/ tr[t].ctx
Current(t) == IsCurrent(machine, tr[t].gen, tr[t].epoch)

\* The reader and the sender are started.
Working(t) == [t EXCEPT !.body = "run", !.reader = "check", !.sender = "select"]
Leaving(t) == [Shut(t) EXCEPT !.body = "unregister"]

\* A transport that sends its first datagram without asking whether there is one.
RegisterSendsNothing(t) ==
    /\ tr[t].body = "register" /\ MuFree /\ ~closed
    /\ closers' = closers \cup {t}
    /\ tr' = [tr EXCEPT ![t].body = "first"]
    /\ UNCHANGED <<transportFrame, sendCh, readCh, accepted, dropped>>

\* registerActiveCloser: after Close has begun the transport is closed instead.
Register(t) ==
    /\ tr[t].body = "register" /\ MuFree
    /\ \/ /\ closed
          /\ tr' = [tr EXCEPT ![t] = [Shut(@) EXCEPT !.body = "done"]]
          /\ UNCHANGED closers
       \/ /\ ~closed
          /\ closers' = closers \cup {t}
          /\ tr' = [tr EXCEPT ![t] = IF @.pending = NoPacket THEN Working(@)
                                     ELSE [@ EXCEPT !.body = "first"]]
    /\ UNCHANGED <<transportFrame, sendCh, readCh, accepted, dropped>>

\* The goroutine that watches cancel and transportCtx.
Watch(t) ==
    /\ tr[t].body \in {"first", "sendFirst", "run", "join"}
    /\ tr[t].cancel \/ CtxDone(t)
    /\ tr[t].conn = "open" \/ ~tr[t].ctx
    /\ tr' = [tr EXCEPT ![t] = Shut(@)]
    /\ UNCHANGED <<transportFrame, closers, sendCh, readCh, accepted, dropped>>

\* The datagram left over from the previous transport is sent before any other.
CheckFirst(t) ==
    /\ tr[t].body = "first"
    /\ tr' = [tr EXCEPT ![t] = IF Current(t) THEN [@ EXCEPT !.body = "sendFirst"] ELSE Leaving(@)]
    /\ UNCHANGED <<transportFrame, closers, sendCh, readCh, accepted, dropped>>

\* What SendPacket may return: nil only on an open connection, ErrDatagramTooLarge
\* only on P2P, an error at any time.
SendOutcomes(t) ==
    {"error"} \cup {o \in {"accepted"} : tr[t].conn = "open"}
              \cup {o \in {"tooLarge"} : tr[t].conn = "open" /\ tr[t].kind = "p2p"}

Sent(pkt, outcome) ==
    /\ accepted' = IF outcome = "accepted" THEN Append(accepted, pkt) ELSE accepted
    /\ dropped' = IF outcome = "tooLarge" THEN dropped \cup {pkt} ELSE dropped

SendFirst(t) ==
    /\ tr[t].body = "sendFirst"
    /\ \E o \in SendOutcomes(t) :
        /\ Sent(tr[t].pending, o)
        /\ tr' = [tr EXCEPT ![t] =
                    IF o = "error" THEN Leaving(@)
                    ELSE IF o = "accepted" /\ ~Current(t)
                      THEN [Leaving(@) EXCEPT !.pending = NoPacket]
                      ELSE [Working(@) EXCEPT !.pending = NoPacket]]
    /\ UNCHANGED <<transportFrame, closers, sendCh, readCh>>

readerFrame == <<transportFrame, closers, sendCh, accepted, dropped>>

ReaderChecks(t) ==
    /\ tr[t].reader = "check"
    /\ tr' = [tr EXCEPT ![t].reader = IF Current(t) THEN "receive" ELSE "done"]
    /\ UNCHANGED <<readerFrame, readCh>>

\* ReceivePacket returns a packet, or an error: the connection is closed or broken,
\* or, for P2P, its context is done.
Receive(t) ==
    /\ tr[t].reader = "receive"
    /\ \/ tr[t].conn = "open" /\ tr' = [tr EXCEPT ![t].reader = "got"]
       \/ tr' = [tr EXCEPT ![t].reader = "done"]
    /\ UNCHANGED <<readerFrame, readCh>>

ReaderRechecks(t) ==
    /\ tr[t].reader = "got"
    /\ tr' = [tr EXCEPT ![t].reader = IF Current(t) THEN "push" ELSE "done"]
    /\ UNCHANGED <<readerFrame, readCh>>

\* The packet enters readCh, or is given up when the transport stops.
Push(t) ==
    /\ tr[t].reader = "push"
    /\ \/ Len(readCh) < ReadCap /\ readCh' = Append(readCh, <<tr[t].gen, tr[t].epoch>>)
       \/ CtxDone(t) /\ UNCHANGED readCh
    /\ tr' = [tr EXCEPT ![t].reader = "check"]
    /\ UNCHANGED readerFrame

\* What makes the sender of t stop.
Stopping(t) == tr[t].cancel \/ tr[t].reader = "done" \/ closeCh \/ CtxDone(t)

\* The sender's select, which may choose a datagram although it has to stop.
SenderTakes(t) ==
    /\ tr[t].sender = "select" /\ sendCh # <<>>
    /\ tr' = [tr EXCEPT ![t].sender = "recheck", ![t].pkt = Head(sendCh)]
    /\ sendCh' = Tail(sendCh)
    /\ UNCHANGED <<transportFrame, closers, readCh, accepted, dropped>>

SenderStops(t) ==
    /\ tr[t].sender = "select" /\ Stopping(t)
    /\ tr' = [tr EXCEPT ![t].sender = "done"]
    /\ UNCHANGED <<transportFrame, closers, sendCh, readCh, accepted, dropped>>

HandedOff(t) == [t EXCEPT !.sender = "done", !.handoff = t.pkt, !.pkt = NoPacket]

\* A sender that returns with the datagram it has taken.
SenderForgets(t) ==
    /\ tr[t].sender = "recheck"
    /\ tr' = [tr EXCEPT ![t] = IF Stopping(t) THEN [@ EXCEPT !.sender = "done", !.pkt = NoPacket]
                               ELSE [@ EXCEPT !.sender = "send"]]
    /\ UNCHANGED <<transportFrame, closers, sendCh, readCh, accepted, dropped>>

\* A datagram taken by a transport that has to stop is kept for the next one.
SenderRechecks(t) ==
    /\ tr[t].sender = "recheck"
    /\ tr' = [tr EXCEPT ![t] = IF Stopping(t) \/ ~Current(t) THEN HandedOff(@)
                               ELSE [@ EXCEPT !.sender = "send"]]
    /\ UNCHANGED <<transportFrame, closers, sendCh, readCh, accepted, dropped>>

\* A sender that hands off what was accepted when it was cancelled meanwhile.
SenderSendsTwice(t) ==
    /\ tr[t].sender = "send"
    /\ \E o \in SendOutcomes(t) :
        /\ Sent(tr[t].pkt, o)
        /\ tr' = [tr EXCEPT ![t] = IF o = "error" \/ Stopping(t) THEN HandedOff(@)
                                   ELSE [@ EXCEPT !.pkt = NoPacket, !.sender = "select"]]
    /\ UNCHANGED <<transportFrame, closers, sendCh, readCh>>

SenderSends(t) ==
    /\ tr[t].sender = "send"
    /\ \E o \in SendOutcomes(t) :
        /\ Sent(tr[t].pkt, o)
        /\ tr' = [tr EXCEPT ![t] =
                    IF o = "error" THEN HandedOff(@)
                    ELSE [@ EXCEPT !.pkt = NoPacket,
                            !.sender = IF o = "tooLarge" \/ Current(t) THEN "select" ELSE "done"]]
    /\ UNCHANGED <<transportFrame, closers, sendCh, readCh>>

\* The body waits for a reason to stop and closes the transport.
Stop(t) ==
    /\ tr[t].body = "run"
    /\ Stopping(t) \/ tr[t].sender = "done"
    /\ tr' = [tr EXCEPT ![t] = [Shut(@) EXCEPT !.body = "join"]]
    /\ UNCHANGED <<transportFrame, closers, sendCh, readCh, accepted, dropped>>

\* Mutant: waits for the sender only, so that a reader with a packet in hand outlives
\* its epoch.
JoinSender(t) ==
    /\ tr[t].body = "join" /\ tr[t].sender = "done"
    /\ tr' = [tr EXCEPT ![t].body = "unregister", ![t].pending = tr[t].handoff,
                        ![t].handoff = NoPacket]
    /\ UNCHANGED <<transportFrame, closers, sendCh, readCh, accepted, dropped>>

\* It waits for both workers; what the sender left is the result.
Join(t) ==
    /\ tr[t].body = "join" /\ tr[t].reader = "done" /\ tr[t].sender = "done"
    /\ tr' = [tr EXCEPT ![t].body = "unregister", ![t].pending = tr[t].handoff,
                        ![t].handoff = NoPacket]
    /\ UNCHANGED <<transportFrame, closers, sendCh, readCh, accepted, dropped>>

Unregister(t) ==
    /\ tr[t].body = "unregister" /\ MuFree
    /\ closers' = closers \ {t}
    /\ tr' = [tr EXCEPT ![t].body = "done"]
    /\ UNCHANGED <<transportFrame, sendCh, readCh, accepted, dropped>>

-----------------------------------------------------------------------------

Dispatcher ==
    \/ Dequeue \/ DispatcherStops \/ SessionTop \/ DialStart \/ PreCheck \/ PrepareTaken
    \/ PrepareAbandoned \/ Exchange \/ MakeHoles \/ Handshake \/ P2PEnded \/ Fallback \/ RelayDial
    \/ RelayEnded \/ RelayStopped \/ RelayJoinedClosing \/ RelayJoined \/ Backoff

Body(t)   == Register(t) \/ CheckFirst(t) \/ Stop(t) \/ Join(t) \/ Unregister(t)
Reader(t) == ReaderChecks(t) \/ ReaderRechecks(t) \/ Push(t)
Sender(t) == SenderTakes(t) \/ SenderStops(t) \/ SenderRechecks(t)
Blocking(t) == SendFirst(t) \/ Receive(t) \/ SenderSends(t)
Closer    == CloseChannels \/ CloseTransport \/ CloseDone

Next ==
    \/ Run \/ ParentDone \/ UserDatagram \/ WriteToUser \/ ForwardEnds
    \/ CloseStart \/ Closer
    \/ Dispatcher \/ Probe \/ PrepareReturns \/ ReadEnds \/ StrayCloses
    \/ \E t \in Transports : Body(t) \/ Watch(t) \/ Reader(t) \/ Sender(t) \/ Blocking(t)

Spec == Init /\ [][Next]_vars

\* The Go scheduler runs every goroutine that can run.  A send or a receive is only
\* sure to return once its connection is closed; nothing makes users send, makes the
\* context end or makes anybody call Close, and the preparation may take for ever.  The
\* read of a stray socket has a deadline.
\* The select of the relay loop does not choose its timer for ever, which takes most
\* of a second to fire, over a channel that is ready all the time.
Fairness ==
    /\ SF_vars(RelayStopped \/ RelayEnded)
    /\ WF_vars(ForwardEnds) /\ WF_vars(Closer) /\ WF_vars(Dispatcher) /\ WF_vars(StrayCloses)
    /\ \A t \in Transports :
        /\ WF_vars(Body(t) \/ (tr[t].conn = "closed" /\ SendFirst(t)))
        /\ WF_vars(Reader(t) \/ (tr[t].conn = "closed" /\ Receive(t)))
        /\ WF_vars(Sender(t) \/ (tr[t].conn = "closed" /\ SenderSends(t)))
        /\ WF_vars(Watch(t))

FairSpec == Spec /\ Fairness

-----------------------------------------------------------------------------
(* Properties *)

\* Datagrams are accepted by transports in the order in which users sent them and
\* each at most once, across every switch between relay and P2P.
AcceptedInOrder ==
    \A i, j \in DOMAIN accepted : i < j => accepted[i] < accepted[j]

Held ==
    {disp.pending} \cup UNION {{tr[t].pending, tr[t].pkt, tr[t].handoff} : t \in Transports}

\* Until the visitor is closed, a datagram that entered sendCh and was not too large
\* is still queued, in somebody's hand, or accepted: no switch of transport loses the
\* one that was being sent.
NothingLost ==
    closer = "idle" =>
        \A p \in 1..(next - 1) :
            \/ p \in dropped \/ p \in Held
            \/ \E i \in DOMAIN sendCh : sendCh[i] = p
            \/ \E i \in DOMAIN accepted : accepted[i] = p

\* A transport that has not been joined belongs to the current session and epoch:
\* no two transports take datagrams from sendCh at the same time, and the epoch
\* does not advance before the old data plane has stopped.
LiveIsCurrent ==
    \A t \in Transports : tr[t].body \notin {"none", "unregister", "done"} => Current(t)

\* A packet of an old transport never enters readCh after its epoch, or its session,
\* has ended (runActiveTransport: "Do not let a packet from the old transport enter the
\* new session's read path").
InboundCurrent ==
    [][Len(readCh') > Len(readCh) =>
          readCh'[Len(readCh')] = <<machine.generation, machine.transportEpoch>>]_vars

\* dialP2P tells a probe from a first dial by the phase it reads: it is RECOVERING
\* exactly while a relay is still the data plane, and a relay that is not being
\* probed has its phase back.
PhaseTellsProbe ==
    /\ disp.pc = "dial" => (machine.phase = "RECOVERING" <=> disp.probing)
    /\ disp.pc = "relay" => machine.phase = "RELAY_READY"
    /\ disp.pc = "p2p" => machine.phase = "P2P_READY"

\* When Close returns, no worker is left, no connection is open, and the visitor holds no
\* socket: those that are still open belong to goroutines that nobody waits for, a
\* preparation, which will close its socket itself, and the readers of stray ones.
ClosedReleases ==
    closer = "done" =>
        /\ \A t \in Transports : tr[t].conn # "open" /\ tr[t].body = "none"
        /\ disp.sock # "open" /\ disp.ports = 0 /\ prep.conn # "open"
        /\ prep.step = "running" => prep.canceled

\* Close returns, whatever the workers are blocked in, and the sockets that calls of
\* MakeHole have left behind are closed in the end.
CloseEnds == closed ~> (closer = "done" /\ strays = 0)
=============================================================================
