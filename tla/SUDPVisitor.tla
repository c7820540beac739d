---------------------------- MODULE SUDPVisitor ----------------------------
(***************************************************************************)
(* The SUDP visitor of frpc (client/visitor/sudp.go): Run opens a UDP      *)
(* socket and starts a dispatcher and a forwarder; the dispatcher waits    *)
(* for a first datagram, asks for a visitor connection in a goroutine that *)
(* cannot be cancelled, and runs a worker on it, which is a reader, a      *)
(* sender and a goroutine that closes the connection when either stops or  *)
(* the visitor is closed.  Close may come before, during or after Run.     *)
(* checkCloseCh is closed exactly when lifecycle becomes "closed".         *)
(***************************************************************************)
EXTENDS OneShotRequest, Integers, Sequences, FiniteSets

CONSTANTS SendCap, ReadCap,      \* capacities of sendCh and readCh
          MaxDatagrams,          \* bound: datagrams the users send
          MaxConns,              \* bound: visitor connections obtained
          Closers                \* goroutines that call Close

VARIABLES lifecycle, runner,
          listening,    \* the socket Run has opened and not yet published
          udpConn,      \* the published socket
          sendCh, readCh,
          pending,      \* the datagram taken from sendCh and not yet written, 0 if none
          dispatcher, request, conn, obtained,
          workerCloseCh, watcher, reader, sender, forwarder, writer,
          closer, arrived, sent

svars == <<lifecycle, runner, listening, udpConn, sendCh, readCh, pending, dispatcher, request,
           conn, obtained, workerCloseCh, watcher, reader, sender, forwarder, writer, closer,
           arrived, sent>>

SUDPTypeOK ==
    /\ lifecycle \in {"notStarted", "starting", "running", "closed"}
    /\ runner \in {"idle", "listen", "commit", "returned"}
    /\ listening \in Resources /\ udpConn \in Resources /\ conn \in Resources
    /\ Len(sendCh) <= SendCap /\ readCh \in 0..ReadCap
    /\ pending \in 0..MaxDatagrams /\ arrived \in 0..MaxDatagrams
    /\ dispatcher \in {"off", "idle", "wait", "retry", "got", "worker", "after", "ended"}
    /\ request \in Request /\ obtained \in 0..MaxConns
    /\ workerCloseCh \in BOOLEAN /\ watcher \in {"off", "watching"}
    /\ reader \in {"off", "reading", "delivering"}
    /\ sender \in {"off", "idle", "write"}
    /\ forwarder \in {"off", "reading", "stopping", "ended"} /\ writer \in {"off", "idle"}
    /\ closer \in [Closers -> {"idle", "waiting", "returned"}]

SUDPInit ==
    /\ lifecycle = "notStarted" /\ runner = "idle" /\ listening = "none" /\ udpConn = "none"
    /\ sendCh = <<>> /\ readCh = 0 /\ pending = 0
    /\ dispatcher = "off" /\ request = NoRequest /\ conn = "none" /\ obtained = 0
    /\ workerCloseCh = FALSE /\ watcher = "off" /\ reader = "off" /\ sender = "off"
    /\ forwarder = "off" /\ writer = "off" /\ closer = [c \in Closers |-> "idle"]
    /\ arrived = 0 /\ sent = <<>>

closed == lifecycle = "closed"

workVars == <<sendCh, readCh, pending, request, conn, obtained, workerCloseCh, watcher, reader,
              sender, arrived, sent>>
-----------------------------------------------------------------------------
(* Run and Close.                                                          *)

RunStarts ==
    /\ runner = "idle"
    /\ IF lifecycle = "notStarted"
         THEN lifecycle' = "starting" /\ runner' = "listen"
         ELSE runner' = "returned" /\ UNCHANGED lifecycle
    /\ UNCHANGED <<listening, udpConn, dispatcher, forwarder, writer, closer, workVars>>

\* The address does not resolve or the port cannot be bound: failStartup.
RunFails ==
    /\ runner = "listen" /\ runner' = "returned"
    /\ lifecycle' = "closed"
    /\ UNCHANGED <<listening, udpConn, dispatcher, forwarder, writer, closer, workVars>>

RunListens ==
    /\ runner = "listen" /\ runner' = "commit" /\ listening' = "open"
    /\ UNCHANGED <<lifecycle, udpConn, dispatcher, forwarder, writer, closer, workVars>>

\* The socket is published and the workers are started, unless Close came first.
RunCommits ==
    /\ runner = "commit" /\ runner' = "returned"
    /\ IF lifecycle = "starting"
         THEN /\ lifecycle' = "running" /\ udpConn' = "open" /\ listening' = "none"
              /\ dispatcher' = "idle" /\ forwarder' = "reading" /\ writer' = "idle"
         ELSE /\ listening' = "closed"
              /\ UNCHANGED <<lifecycle, udpConn, dispatcher, forwarder, writer>>
    /\ UNCHANGED <<closer, workVars>>

CloseStarts(c) ==
    /\ closer[c] = "idle" /\ closer' = [closer EXCEPT ![c] = "waiting"]
    /\ lifecycle' = "closed"
    /\ udpConn' = IF closed THEN udpConn ELSE Recycled(udpConn)
    /\ UNCHANGED <<runner, listening, dispatcher, forwarder, writer, workVars>>

CloseReturns(c) ==
    /\ closer[c] = "waiting"
    /\ dispatcher \in {"off", "ended"} /\ forwarder \in {"off", "ended"}
    /\ closer' = [closer EXCEPT ![c] = "returned"]
    /\ UNCHANGED <<lifecycle, runner, listening, udpConn, dispatcher, forwarder, writer, workVars>>
-----------------------------------------------------------------------------
(* ForwardUserConn and its writer.                                         *)

userVars == <<lifecycle, runner, listening, pending, dispatcher, request, conn, obtained,
              workerCloseCh, watcher, reader, sender, closer, sent>>

UserSends ==
    /\ forwarder = "reading" /\ udpConn = "open" /\ arrived < MaxDatagrams
    /\ arrived' = arrived + 1
    /\ sendCh' = IF Len(sendCh) < SendCap THEN Append(sendCh, arrived + 1) ELSE sendCh
    /\ UNCHANGED <<userVars, udpConn, readCh, forwarder, writer>>

ForwarderStops ==
    /\ forwarder = "reading" /\ forwarder' = "stopping" /\ udpConn' = "closed"
    /\ UNCHANGED <<userVars, sendCh, readCh, writer, arrived>>

ForwarderEnds ==
    /\ forwarder = "stopping" /\ writer = "off" /\ forwarder' = "ended"
    /\ UNCHANGED <<userVars, udpConn, sendCh, readCh, writer, arrived>>

WriterSteps ==
    /\ writer = "idle"
    /\ \/ forwarder = "stopping" /\ writer' = "off" /\ UNCHANGED readCh
       \/ readCh > 0 /\ readCh' = readCh - 1
          /\ writer' = IF forwarder = "stopping" THEN "off" ELSE "idle"
    /\ UNCHANGED <<userVars, udpConn, sendCh, forwarder, arrived>>

Forwarding == (udpConn = "closed" /\ ForwarderStops) \/ ForwarderEnds \/ WriterSteps
-----------------------------------------------------------------------------
(* The dispatcher.                                                         *)

dispatchVars == <<lifecycle, runner, listening, udpConn, readCh, forwarder, writer, closer,
                  arrived>>

DispatcherTakes ==
    /\ dispatcher = "idle" /\ sendCh # <<>>
    /\ pending' = Head(sendCh) /\ sendCh' = Tail(sendCh)
    /\ request' = NewRequest /\ dispatcher' = "wait"
    /\ UNCHANGED <<dispatchVars, conn, obtained, workerCloseCh, watcher, reader, sender, sent>>

\* Where the dispatcher sees checkCloseCh: waiting for a datagram, for a
\* connection, for the retry timer, and after a worker.
DispatcherEnds ==
    /\ closed /\ dispatcher \in {"idle", "wait", "retry", "after"} /\ dispatcher' = "ended"
    /\ request' = IF dispatcher = "wait" THEN Canceled(request) ELSE request
    /\ UNCHANGED <<dispatchVars, sendCh, pending, conn, obtained, workerCloseCh, watcher, reader,
                   sender, sent>>

RequestReturns ==
    /\ request.step = "running"
    /\ \E c \in {"open", "none"} :
          /\ c = "open" => obtained < MaxConns
          /\ request' = Delivered(request, c)
    /\ UNCHANGED <<dispatchVars, sendCh, pending, dispatcher, conn, obtained, workerCloseCh,
                   watcher, reader, sender, sent>>

DispatcherGets ==
    /\ dispatcher = "wait" /\ request.step = "ready" /\ ~closed
    /\ request' = Received(request)
    /\ IF request.conn = "open"
         THEN dispatcher' = "got" /\ conn' = "open" /\ obtained' = obtained + 1
         ELSE dispatcher' = "retry" /\ UNCHANGED <<conn, obtained>>
    /\ UNCHANGED <<dispatchVars, sendCh, pending, workerCloseCh, watcher, reader, sender, sent>>

\* A dispatcher that takes the next datagram after a failed attempt.
DispatcherRetriesNext ==
    /\ dispatcher = "retry" /\ dispatcher' = "idle" /\ pending' = 0
    /\ UNCHANGED <<dispatchVars, sendCh, request, conn, obtained, workerCloseCh, watcher, reader,
                   sender, sent>>

DispatcherRetries ==
    /\ dispatcher = "retry" /\ request' = NewRequest /\ dispatcher' = "wait"
    /\ UNCHANGED <<dispatchVars, sendCh, pending, conn, obtained, workerCloseCh, watcher, reader,
                   sender, sent>>

\* The worker starts; without a packet codec it returns at once, and the first
\* datagram is gone.
WorkerStarts ==
    /\ dispatcher = "got"
    /\ \/ /\ dispatcher' = "worker" /\ workerCloseCh' = FALSE
          /\ watcher' = "watching" /\ reader' = "reading" /\ sender' = "write"
          /\ UNCHANGED <<pending, conn>>
       \/ /\ dispatcher' = "after" /\ conn' = "closed" /\ pending' = 0
          /\ UNCHANGED <<workerCloseCh, watcher, reader, sender>>
    /\ UNCHANGED <<dispatchVars, sendCh, request, obtained, sent>>

WorkerEnds ==
    /\ dispatcher = "worker" /\ watcher = "off" /\ reader = "off" /\ sender = "off"
    /\ dispatcher' = "after"
    /\ UNCHANGED <<dispatchVars, sendCh, pending, request, conn, obtained, workerCloseCh, watcher,
                   reader, sender, sent>>

DispatcherAgain ==
    /\ dispatcher = "after" /\ ~closed /\ dispatcher' = "idle"
    /\ UNCHANGED <<dispatchVars, sendCh, pending, request, conn, obtained, workerCloseCh, watcher,
                   reader, sender, sent>>

Dispatcher == DispatcherTakes \/ DispatcherEnds \/ DispatcherGets \/ DispatcherRetries
              \/ WorkerStarts \/ WorkerEnds \/ DispatcherAgain
-----------------------------------------------------------------------------
(* The worker.                                                             *)

workerVars == <<lifecycle, runner, listening, udpConn, dispatcher, request, obtained, forwarder,
                writer, closer, arrived>>

WatcherCloses ==
    /\ watcher = "watching" /\ (closed \/ workerCloseCh)
    /\ watcher' = "off" /\ conn' = "closed"
    /\ UNCHANGED <<workerVars, sendCh, readCh, pending, workerCloseCh, reader, sender, sent>>

ReaderReads ==
    /\ reader = "reading" /\ conn = "open" /\ reader' = "delivering"
    /\ UNCHANGED <<workerVars, conn, sendCh, readCh, pending, workerCloseCh, watcher, sender, sent>>

ReaderDelivers ==
    /\ reader = "delivering" /\ readCh < ReadCap
    /\ readCh' = readCh + 1 /\ reader' = "reading"
    /\ UNCHANGED <<workerVars, conn, sendCh, pending, workerCloseCh, watcher, sender, sent>>

\* A read error, the read deadline, or one of the close channels while blocked.
ReaderStops ==
    /\ \/ reader = "reading"
       \/ reader = "delivering" /\ (closed \/ workerCloseCh)
    /\ reader' = "off" /\ workerCloseCh' = TRUE /\ conn' = "closed"
    /\ UNCHANGED <<workerVars, sendCh, readCh, pending, watcher, sender, sent>>

Reader == ReaderReads \/ ReaderDelivers \/ ReaderStops

SenderTakes ==
    /\ sender = "idle" /\ sendCh # <<>>
    /\ pending' = Head(sendCh) /\ sendCh' = Tail(sendCh) /\ sender' = "write"
    /\ UNCHANGED <<workerVars, conn, readCh, workerCloseCh, watcher, reader, sent>>

SenderWrites ==
    /\ sender = "write" /\ conn = "open"
    /\ sent' = Append(sent, pending) /\ pending' = 0 /\ sender' = "idle"
    /\ UNCHANGED <<workerVars, conn, sendCh, readCh, workerCloseCh, watcher, reader>>

\* WriteMsg fails: whether the datagram was sent is not known, and it is not kept.
SenderFails ==
    /\ sender = "write"
    /\ sent' \in IF conn = "open" THEN {sent, Append(sent, pending)} ELSE {sent}
    /\ pending' = 0
    /\ sender' = "off" /\ workerCloseCh' = TRUE /\ conn' = "closed"
    /\ UNCHANGED <<workerVars, sendCh, readCh, watcher, reader>>

SenderStops ==
    /\ sender = "idle" /\ (closed \/ workerCloseCh)
    /\ sender' = "off" /\ workerCloseCh' = TRUE /\ conn' = "closed"
    /\ UNCHANGED <<workerVars, sendCh, readCh, pending, watcher, reader, sent>>

Sender == SenderTakes \/ SenderWrites \/ SenderFails \/ SenderStops

CloseStep == \E c \in Closers : CloseReturns(c)

SUDPNext ==
    \/ RunStarts \/ RunFails \/ RunListens \/ RunCommits
    \/ \E c \in Closers : CloseStarts(c)
    \/ CloseStep
    \/ UserSends \/ ForwarderStops \/ ForwarderEnds \/ WriterSteps
    \/ RequestReturns \/ Dispatcher \/ WatcherCloses \/ Reader \/ Sender

SUDPSpec == SUDPInit /\ [][SUDPNext]_svars
-----------------------------------------------------------------------------
(* Properties.                                                             *)

\* The refinement mapping to DatagramQueue: the datagrams still to be written
\* are the one the dispatcher dials for and those in sendCh.
Backlog == IF dispatcher = "ended" THEN <<>>
             ELSE (IF pending = 0 THEN <<>> ELSE <<pending>>) \o sendCh
Link    == IF dispatcher = "got" \/ sender # "off" THEN "up" ELSE "down"
Serving == dispatcher # "ended"

\* When Close has returned, the visitor has no socket, no connection and no
\* goroutine, whatever Run was doing at the time; a socket Run is about to
\* publish and a connection that is still being dialled are released by those
\* who open them (client/visitor/sudp.go Run, Close).
SUDPClosedReleases ==
    (\E c \in Closers : closer[c] = "returned") =>
        /\ udpConn # "open" /\ conn # "open" /\ request.conn # "open"
        /\ request.step = "running" => request.canceled
        /\ \A g \in {watcher, reader, sender, writer} : g = "off"
        /\ runner \in {"idle", "returned"} => listening # "open"

\* Close returns, whatever the goroutines are blocked on (client/visitor/sudp.go
\* Close, workers.Wait).
Pending == \E c \in Closers : closer[c] = "waiting"
Settled == ~Pending
=============================================================================
