---------------------------- MODULE UDPWorkConn ----------------------------
(***************************************************************************)
(* The UDP proxy of frps (server/proxy/udp.go).  One goroutine forwards    *)
(* between the users' socket and two channels (ForwardUserConn, with a     *)
(* writer goroutine of its own); a dispatcher obtains work connections one *)
(* after the other and runs a reader and a sender on each; Close may come  *)
(* from the control or from the forwarding goroutine.  Datagrams are their *)
(* arrival numbers; of the reverse direction only the fill of readCh is    *)
(* kept.                                                                   *)
(***************************************************************************)
EXTENDS OneShotRequest, Integers, Sequences, FiniteSets

CONSTANTS SendCap, ReadCap,      \* capacities of sendCh and readCh
          MaxDatagrams,          \* bound: datagrams the users send
          MaxConns               \* bound: work connections obtained

Conns   == 1..MaxConns
Closers == {"control", "forwarder"}

VARIABLES run,          \* progress of Run: "new", "failed" or "running"
          portHeld,     \* the port is taken in UDPPortManager
          udpConn,      \* the users' socket
          doneCh,       \* TRUE once closed (set together with isClosed)
          sendCh, readCh, reconnectCh,
          pending,      \* the datagram in the hands of the sender or dispatcher, 0 if none
          dispatcher, request, reader, sender, forwarder, writer,
          conn,         \* the work connection of the dispatcher's current round
          workConn,     \* the published one, 0 if none
          conns,        \* state of every work connection
          closer,       \* where each caller of Close is
          arrived, sent \* history: datagrams read, datagrams written to connections

uvars == <<run, portHeld, udpConn, doneCh, sendCh, readCh, reconnectCh, pending,
           dispatcher, request, reader, sender, forwarder, writer, conn, workConn,
           conns, closer, arrived, sent>>

UDPTypeOK ==
    /\ run \in {"new", "failed", "running"} /\ portHeld \in BOOLEAN
    /\ udpConn \in Resources /\ doneCh \in BOOLEAN
    /\ Len(sendCh) <= SendCap /\ readCh \in 0..ReadCap /\ reconnectCh \in 0..1
    /\ pending \in 0..MaxDatagrams
    /\ dispatcher \in {"off", "sleep", "top", "wait", "retry", "wrap", "serve",
                       "join", "joinLast", "ended"}
    /\ request \in Request
    /\ reader \in {"off", "reading", "delivering", "notifying"}
    /\ sender \in {"off", "idle", "check", "write"}
    /\ forwarder \in {"off", "reading", "stopping", "ended"} /\ writer \in {"off", "idle"}
    /\ conn \in 0..MaxConns /\ workConn \in 0..MaxConns
    /\ conns \in [Conns -> Resources]
    /\ closer \in [Closers -> {"idle", "waiting", "returned"}]
    /\ arrived \in 0..MaxDatagrams

UDPInit ==
    /\ run = "new" /\ portHeld = FALSE /\ udpConn = "none" /\ doneCh = FALSE
    /\ sendCh = <<>> /\ readCh = 0 /\ reconnectCh = 0 /\ pending = 0
    /\ dispatcher = "off" /\ request = NoRequest /\ reader = "off" /\ sender = "off"
    /\ forwarder = "off" /\ writer = "off"
    /\ conn = 0 /\ workConn = 0 /\ conns = [c \in Conns |-> "none"]
    /\ closer = [c \in Closers |-> "idle"] /\ arrived = 0 /\ sent = <<>>

connVars == <<conn, workConn, conns>>
workers  == <<reader, sender>>

\* Run: the port is acquired; if the socket cannot be opened it is released
\* again, otherwise the dispatcher and the forwarder start.
RunFails ==
    /\ run = "new" /\ run' = "failed"
    /\ UNCHANGED <<portHeld, udpConn, doneCh, sendCh, readCh, reconnectCh, pending, dispatcher,
                   request, reader, sender, forwarder, writer, connVars, closer, arrived, sent>>

Run ==
    /\ run = "new" /\ run' = "running" /\ portHeld' = TRUE /\ udpConn' = "open"
    /\ dispatcher' = "sleep" /\ forwarder' = "reading" /\ writer' = "idle"
    /\ UNCHANGED <<doneCh, sendCh, readCh, reconnectCh, pending, request, reader, sender,
                   connVars, closer, arrived, sent>>

-----------------------------------------------------------------------------
(* ForwardUserConn and its writer.                                         *)

userVars == <<run, portHeld, doneCh, reconnectCh, pending, dispatcher, request, reader,
              sender, connVars, sent>>

\* A datagram of a user is queued, or dropped if sendCh is full.
UserSends ==
    /\ forwarder = "reading" /\ udpConn = "open" /\ arrived < MaxDatagrams
    /\ arrived' = arrived + 1
    /\ sendCh' = IF Len(sendCh) < SendCap THEN Append(sendCh, arrived + 1) ELSE sendCh
    /\ UNCHANGED <<userVars, udpConn, readCh, forwarder, writer, closer>>

\* ReadFromUDP fails: because the socket was closed, or for a reason of its own.
ForwarderStops ==
    /\ forwarder = "reading"
    /\ forwarder' = "stopping" /\ udpConn' = "closed"
    /\ UNCHANGED <<userVars, sendCh, readCh, writer, closer, arrived>>

ForwarderEnds ==
    /\ forwarder = "stopping" /\ writer = "off"
    /\ forwarder' = "ended"
    /\ UNCHANGED <<userVars, udpConn, sendCh, readCh, writer, closer, arrived>>

WriterSteps ==
    /\ writer = "idle"
    /\ \/ forwarder = "stopping" /\ writer' = "off" /\ readCh' \in {readCh, IF readCh > 0 THEN readCh - 1 ELSE readCh}
       \/ forwarder # "stopping" /\ readCh > 0 /\ readCh' = readCh - 1 /\ UNCHANGED writer
    /\ UNCHANGED <<userVars, udpConn, sendCh, forwarder, closer, arrived>>

-----------------------------------------------------------------------------
(* The dispatcher.                                                         *)

dispatchVars == <<run, portHeld, udpConn, sendCh, readCh, forwarder, writer,
                  closer, arrived, sent, doneCh>>

DispatcherAsks ==
    /\ dispatcher \in {"sleep", "top"}
    /\ \/ doneCh /\ dispatcher' = "ended" /\ UNCHANGED request
       \/ ~doneCh /\ dispatcher = "sleep" /\ dispatcher' = "top" /\ UNCHANGED request
       \/ ~doneCh /\ dispatcher = "top" /\ dispatcher' = "wait" /\ request' = NewRequest
    /\ UNCHANGED <<dispatchVars, reconnectCh, pending, workers, connVars>>

\* GetWorkConnFromPool returns a connection or an error, in the request's goroutine.
RequestReturns ==
    /\ request.step = "running"
    /\ \E c \in {"open", "none"} :
          /\ c = "open" => conn < MaxConns
          /\ request' = Delivered(request, c)
    /\ UNCHANGED <<dispatchVars, reconnectCh, pending, dispatcher, workers, connVars>>

\* request.wait: shutdown is preferred to a result that is there as well.
DispatcherGets ==
    /\ dispatcher = "wait" /\ request.step = "ready" /\ ~doneCh
    /\ request' = Received(request)
    /\ IF request.conn = "open"
         THEN /\ dispatcher' = "wrap" /\ conn' = conn + 1
              /\ conns' = [conns EXCEPT ![conn + 1] = "open"]
         ELSE dispatcher' = "retry" /\ UNCHANGED <<conn, conns>>
    /\ UNCHANGED <<dispatchVars, reconnectCh, pending, workers, workConn>>

DispatcherGivesUp ==
    /\ dispatcher = "wait" /\ doneCh
    /\ request' = Canceled(request) /\ dispatcher' = "ended"
    /\ UNCHANGED <<dispatchVars, reconnectCh, pending, workers, connVars>>

DispatcherRetries ==
    /\ dispatcher = "retry"
    /\ \/ dispatcher' = "top"
       \/ doneCh /\ dispatcher' = "ended"
    /\ UNCHANGED <<dispatchVars, request, reconnectCh, pending, workers, connVars>>

\* The connection cannot be wrapped (encryption, packet codec) and is closed.
DispatcherDiscards ==
    /\ dispatcher = "wrap"
    /\ dispatcher' = "top" /\ conns' = [conns EXCEPT ![conn] = "closed"]
    /\ UNCHANGED <<dispatchVars, request, reconnectCh, pending, workers, conn, workConn>>

Closed(cs, c) == [x \in Conns |-> IF x = c /\ cs[x] = "open" THEN "closed" ELSE cs[x]]

\* replaceWorkConn and the start of the two workers.
DispatcherServes ==
    /\ dispatcher = "wrap"
    /\ IF doneCh
         THEN /\ dispatcher' = "ended" /\ conns' = Closed(conns, conn)
              /\ UNCHANGED <<workers, workConn>>
         ELSE /\ dispatcher' = "serve" /\ workConn' = conn
              /\ conns' = Closed(conns, workConn)
              /\ reader' = "reading" /\ sender' = IF pending = 0 THEN "idle" ELSE "check"
    /\ UNCHANGED <<dispatchVars, request, reconnectCh, pending, conn>>

DispatcherStopsServing ==
    /\ dispatcher = "serve"
    /\ \/ reconnectCh = 1 /\ reconnectCh' = 0 /\ dispatcher' = "join"
       \/ doneCh /\ dispatcher' = "joinLast" /\ UNCHANGED reconnectCh
    /\ conns' = Closed(conns, conn)
    /\ UNCHANGED <<dispatchVars, request, pending, workers, conn, workConn>>

DispatcherJoins ==
    /\ dispatcher \in {"join", "joinLast"} /\ reader = "off" /\ sender = "off"
    /\ dispatcher' = IF dispatcher = "join" THEN "top" ELSE "ended"
    /\ UNCHANGED <<dispatchVars, request, reconnectCh, pending, workers, connVars>>

Dispatcher == DispatcherAsks \/ DispatcherGets \/ DispatcherGivesUp \/ DispatcherRetries
              \/ DispatcherDiscards \/ DispatcherServes \/ DispatcherStopsServing \/ DispatcherJoins
-----------------------------------------------------------------------------
(* The reader and the sender of the current work connection.               *)

workerVars == <<run, portHeld, udpConn, doneCh, dispatcher, request, forwarder, writer,
                conn, workConn, closer, arrived>>

ReaderReads ==
    /\ reader = "reading" /\ conns[conn] = "open" /\ reader' = "delivering"
    /\ UNCHANGED <<workerVars, conns, sendCh, readCh, reconnectCh, pending, sender, sent>>

\* deliverWorkConnPacket
ReaderDelivers ==
    /\ reader = "delivering"
    /\ \/ readCh < ReadCap /\ readCh' = readCh + 1 /\ reader' = "reading" /\ UNCHANGED conns
       \/ doneCh /\ reader' = "off" /\ conns' = Closed(conns, conn) /\ UNCHANGED readCh
    /\ UNCHANGED <<workerVars, sendCh, reconnectCh, pending, sender, sent>>

\* A read error or the read deadline.
ReaderFails ==
    /\ reader = "reading" /\ reader' = "notifying" /\ conns' = Closed(conns, conn)
    /\ UNCHANGED <<workerVars, sendCh, readCh, reconnectCh, pending, sender, sent>>

ReaderNotifies ==
    /\ reader = "notifying" /\ reader' = "off"
    /\ \/ reconnectCh = 0 /\ reconnectCh' = 1
       \/ doneCh /\ UNCHANGED reconnectCh
    /\ UNCHANGED <<workerVars, conns, sendCh, readCh, pending, sender, sent>>

Reader == ReaderReads \/ ReaderDelivers \/ ReaderFails \/ ReaderNotifies

\* ctx of the round is cancelled, or the proxy is closed.
Canceling == doneCh \/ dispatcher \in {"join", "joinLast"}

SenderTakes ==
    /\ sender = "idle"
    /\ \/ sendCh # <<>> /\ pending' = Head(sendCh) /\ sendCh' = Tail(sendCh) /\ sender' = "check"
       \/ Canceling /\ sender' = "off" /\ UNCHANGED <<pending, sendCh>>
    /\ UNCHANGED <<workerVars, conns, readCh, reconnectCh, reader, sent>>

\* A datagram that was taken while the round ends is kept.
SenderChecks ==
    /\ sender = "check"
    /\ sender' = IF Canceling THEN "off" ELSE "write"
    /\ UNCHANGED <<workerVars, conns, sendCh, readCh, reconnectCh, reader, pending, sent>>

\* A sender that gives up the datagram whose write failed.
SenderWritesOnce ==
    /\ sender = "write"
    /\ pending' = 0
    /\ \/ /\ conns[conn] = "open" /\ sent' = Append(sent, pending)
          /\ sender' = "idle" /\ UNCHANGED conns
       \/ /\ UNCHANGED sent
          /\ sender' = "off" /\ conns' = Closed(conns, conn)
    /\ UNCHANGED <<workerVars, sendCh, readCh, reconnectCh, reader>>

SenderWrites ==
    /\ sender = "write"
    /\ \/ /\ conns[conn] = "open" /\ sent' = Append(sent, pending)
          /\ pending' = 0 /\ sender' = "idle" /\ UNCHANGED conns
       \/ /\ sent' \in IF conns[conn] = "open" THEN {sent, Append(sent, pending)} ELSE {sent}
          /\ Len(sent') <= MaxDatagrams + MaxConns
          /\ sender' = "off" /\ conns' = Closed(conns, conn) /\ UNCHANGED pending
    /\ UNCHANGED <<workerVars, sendCh, readCh, reconnectCh, reader>>

Sender == SenderTakes \/ SenderChecks \/ SenderWrites
-----------------------------------------------------------------------------
(* Close.                                                                  *)

closeVars == <<run, sendCh, readCh, reconnectCh, pending, dispatcher, request, workers,
               forwarder, writer, conn, arrived, sent>>

\* initiateShutdown, of which only the first call does anything.
CloseStarts(c) ==
    /\ run = "running" /\ closer[c] = "idle"
    /\ c = "forwarder" => forwarder = "ended"
    /\ closer' = [closer EXCEPT ![c] = "waiting"]
    /\ doneCh' = TRUE /\ workConn' = 0
    /\ conns' = IF doneCh THEN conns ELSE Closed(conns, workConn)
    /\ udpConn' = IF doneCh THEN udpConn ELSE "closed"
    /\ UNCHANGED <<closeVars, portHeld>>

\* The WaitGroup counts the dispatcher, the forwarder and the two workers of a round.
WorkersDone ==
    /\ dispatcher = "ended" /\ forwarder = "ended"
    /\ reader = "off" /\ sender = "off"

\* workers.Wait, then releasePort (once).
CloseReturns(c) ==
    /\ closer[c] = "waiting" /\ WorkersDone
    /\ closer' = [closer EXCEPT ![c] = "returned"]
    /\ portHeld' = FALSE
    /\ UNCHANGED <<closeVars, doneCh, workConn, conns, udpConn>>

CloseStep == \E c \in Closers : CloseReturns(c) \/ (c = "forwarder" /\ CloseStarts(c))
Forwarding == ForwarderStops \/ ForwarderEnds \/ WriterSteps

\* The socket's reader is only sure to return once the socket is closed.
ForwardingEnds == (udpConn = "closed" /\ ForwarderStops) \/ ForwarderEnds \/ WriterSteps

UDPNext ==
    \/ RunFails \/ Run \/ UserSends \/ Forwarding
    \/ RequestReturns \/ Dispatcher \/ Reader \/ Sender
    \/ CloseStarts("control") \/ CloseStep

UDPSpec == UDPInit /\ [][UDPNext]_uvars
-----------------------------------------------------------------------------
(* Properties.                                                             *)

\* The refinement mapping to DatagramQueue: the datagrams still to be written
\* are the one the sender kept from the last work connection and those in sendCh.
Backlog == IF dispatcher = "ended" THEN <<>>
             ELSE (IF pending = 0 THEN <<>> ELSE <<pending>>) \o sendCh
Link    == IF sender = "off" THEN "down" ELSE "up"
Serving == dispatcher # "ended"

\* The port is given back to UDPPortManager only when nothing of the proxy can
\* use it any more: the socket is closed, every worker has ended, and no work
\* connection is left open, a late result of GetWorkConnFromPool excepted, which
\* its own goroutine closes (server/proxy/udp.go Close, releasePort).
PortReleasedLast ==
    run = "running" /\ ~portHeld =>
        /\ udpConn = "closed" /\ WorkersDone /\ writer = "off"
        /\ \A c \in Conns : conns[c] # "open"
        /\ request.step = "running" => request.canceled
        /\ request.conn # "open"

\* Close returns, whichever work connection or channel the goroutines are
\* blocked on when it is called, and so does the Close of the other caller
\* (server/proxy/udp.go Close, workers.Wait).
Pending == \E c \in Closers : closer[c] = "waiting"
Settled == ~Pending
=============================================================================
