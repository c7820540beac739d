----------------------------- MODULE SSHTunnel -----------------------------
(***************************************************************************)
(* One tunnel of the SSH gateway of frps (pkg/ssh, pkg/virtual): the SSH   *)
(* connection of the user, a virtual frpc inside frps whose connections are*)
(* pipes handed to frps' own listener, and the goroutines between the two. *)
(* Run, the virtual client's goroutine and the keepalives of the channels  *)
(* end each other through sshConn, doneCh and the virtual client.          *)
(***************************************************************************)
EXTENDS Integers

CONSTANTS Channels,     \* session channels the SSH client opens
          WorkConns,    \* work connections of the proxy
          Pipes,        \* bound: pipes the virtual client opens
          NoChannel

VARIABLES sshConn,      \* the SSH connection
          run,          \* step of TunnelServer.Run
          forward, exec,        \* addrCh and extraPayloadCh have delivered
          channel, keepAlive,   \* channel -> step of its handler, of its keepAlive
          firstChannel, muFirst,
          vcRun,        \* step of the goroutine of vc.Run
          cancelled,    \* vc.Close was called
          control,      \* control of the virtual client
          proxy,        \* phase of its proxy
          vcListener,   \* PeerListener of the virtual client is open
          transfer,     \* the goroutine that moves pipes to frps
          pipe,         \* pipe -> where its server end is
          frpsListener, \* sshTunnelListener of frps is open
          doneCh, workConn

svars == <<sshConn, run, forward, exec, channel, keepAlive, firstChannel, muFirst, vcRun, cancelled,
           control, proxy, vcListener, transfer, pipe, frpsListener, doneCh, workConn>>

SSHTypeOK ==
    /\ sshConn \in {"handshake", "open", "closed"}
    /\ run \in {"handshake", "payload", "parse", "update", "ready", "success", "wait", "report",
                "close", "returned"}
    /\ forward \in BOOLEAN /\ exec \in BOOLEAN
    /\ channel \in [Channels -> {"none", "lock", "requests", "ended"}]
    /\ keepAlive \in [Channels -> {"none", "run", "ended"}]
    /\ firstChannel \in Channels \cup {NoChannel} /\ muFirst \in {"free", "run", "vc"}
    /\ vcRun \in {"none", "run", "failed", "done", "ended"} /\ cancelled \in BOOLEAN
    /\ control \in {"none", "up", "down"} /\ proxy \in {"none", "running", "start error"}
    /\ vcListener \in BOOLEAN /\ transfer \in {"none", "run", "ended"}
    /\ pipe \in [Pipes -> {"none", "queued", "frps", "refused"}]
    /\ frpsListener \in BOOLEAN /\ doneCh \in BOOLEAN
    /\ workConn \in [WorkConns -> {"none", "open", "join", "closed"}]

SSHInit ==
    /\ sshConn = "handshake" /\ run = "handshake" /\ forward = FALSE /\ exec = FALSE
    /\ channel = [h \in Channels |-> "none"] /\ keepAlive = [h \in Channels |-> "none"]
    /\ firstChannel = NoChannel /\ muFirst = "free" /\ vcRun = "none" /\ cancelled = FALSE
    /\ control = "none" /\ proxy = "none" /\ vcListener = TRUE /\ transfer = "none"
    /\ pipe = [p \in Pipes |-> "none"] /\ frpsListener = TRUE /\ doneCh = FALSE
    /\ workConn = [w \in WorkConns |-> "none"]

vcState      == <<vcRun, cancelled, control, proxy, vcListener, transfer, pipe, frpsListener>>
channelState == <<channel, keepAlive, firstChannel>>

\* Returning from Run: handleConn closes the connection.
Returns == run' = "returned" /\ sshConn' = "closed"

-----------------------------------------------------------------------------
(* The SSH client.                                                         *)

\* NewServerConn: the key is authorized, or no key is asked for.
Handshake ==
    /\ run = "handshake"
    /\ \/ run' = "payload" /\ sshConn' = IF sshConn = "handshake" THEN "open" ELSE sshConn
       \/ Returns
    /\ UNCHANGED <<forward, exec, channelState, muFirst, vcState, doneCh, workConn>>

ClientLeaves ==
    /\ sshConn # "closed" /\ sshConn' = "closed"
    /\ UNCHANGED <<run, forward, exec, channelState, muFirst, vcState, doneCh, workConn>>

\* The first tcpip-forward request.
RequestForward ==
    /\ sshConn = "open" /\ ~forward /\ forward' = TRUE
    /\ UNCHANGED <<sshConn, run, exec, channelState, muFirst, vcState, doneCh, workConn>>

\* handleNewChannel takes firstChannelMu, ...
OpensChannel(h) ==
    /\ sshConn = "open" /\ channel[h] = "none" /\ channel' = [channel EXCEPT ![h] = "lock"]
    /\ UNCHANGED <<sshConn, run, forward, exec, keepAlive, firstChannel, muFirst, vcState, doneCh,
                   workConn>>

\* ... starts keepAlive and reads the channel's requests.
HandleNewChannel(h) ==
    /\ channel[h] = "lock" /\ muFirst = "free" /\ channel' = [channel EXCEPT ![h] = "requests"]
    /\ firstChannel' = IF firstChannel = NoChannel THEN h ELSE firstChannel
    /\ keepAlive' = [keepAlive EXCEPT ![h] = "run"]
    /\ UNCHANGED <<sshConn, run, forward, exec, muFirst, vcState, doneCh, workConn>>

\* An exec request.
RequestExec(h) ==
    /\ channel[h] = "requests" /\ sshConn = "open" /\ ~exec /\ exec' = TRUE
    /\ UNCHANGED <<sshConn, run, forward, channelState, muFirst, vcState, doneCh, workConn>>

ChannelEnds(h) ==
    /\ channel[h] = "requests" /\ sshConn = "closed" /\ channel' = [channel EXCEPT ![h] = "ended"]
    /\ UNCHANGED <<sshConn, run, forward, exec, keepAlive, firstChannel, muFirst, vcState, doneCh,
                   workConn>>

\* keepAlive ends with doneCh, or when a heartbeat cannot be sent.
KeepAliveEnds(h) ==
    /\ keepAlive[h] = "run" /\ (doneCh \/ sshConn = "closed")
    /\ keepAlive' = [keepAlive EXCEPT ![h] = "ended"]
    /\ UNCHANGED <<sshConn, run, forward, exec, channel, firstChannel, muFirst, vcState, doneCh,
                   workConn>>

-----------------------------------------------------------------------------
(* Run.                                                                    *)

\* waitForwardAddrAndExtraPayload: both have come, or 3 seconds are over.
WaitPayload ==
    /\ run = "payload"
    /\ \/ forward /\ exec /\ run' = "parse" /\ UNCHANGED sshConn
       \/ Returns
    /\ UNCHANGED <<forward, exec, channelState, muFirst, vcState, doneCh, workConn>>

\* The flags are wrong, or ask for help: the client is told.
ParseFails ==
    /\ run = "parse" /\ muFirst = "free" /\ muFirst' = "run"
    /\ UNCHANGED <<sshConn, run, forward, exec, channelState, vcState, doneCh, workConn>>

\* NewClient, and the two goroutines.
StartsClient ==
    /\ run = "parse" /\ muFirst = "free" /\ run' = "update"
    /\ vcRun' = "run" /\ transfer' = "run"
    /\ UNCHANGED <<sshConn, forward, exec, channelState, muFirst, cancelled, control, proxy,
                   vcListener, pipe, frpsListener, doneCh, workConn>>

\* UpdateProxyConfigurer: the proxy starts now, or with the control.
UpdateProxy ==
    /\ run = "update" /\ run' = "ready"
    /\ UNCHANGED <<sshConn, forward, exec, channelState, muFirst, vcState, doneCh, workConn>>

\* waitProxyStatusReady: the proxy runs, or failed, or a second is over, or doneCh.
StatusReady ==
    /\ run = "ready" /\ proxy # "none" /\ muFirst = "free" /\ muFirst' = "run"
    /\ run' = IF proxy = "running" THEN "success" ELSE "report"
    /\ UNCHANGED <<sshConn, forward, exec, channelState, vcState, doneCh, workConn>>

StatusTimesOut ==
    /\ run = "ready" /\ muFirst = "free" /\ muFirst' = "run" /\ run' = "report"
    /\ UNCHANGED <<sshConn, forward, exec, channelState, vcState, doneCh, workConn>>

\* writeToClient returns once the client has read, or is gone.
WriteReturns ==
    /\ muFirst = "run" /\ muFirst' = "free"
    /\ IF run = "parse" THEN Returns
       ELSE run' = (IF run = "success" THEN "wait" ELSE "close") /\ UNCHANGED sshConn
    /\ UNCHANGED <<forward, exec, channelState, vcState, doneCh, workConn>>

\* sshConn.Wait.
WaitReturns ==
    /\ run = "wait" /\ sshConn = "closed" /\ run' = "close"
    /\ UNCHANGED <<sshConn, forward, exec, channelState, muFirst, vcState, doneCh, workConn>>

\* vc.Close closes the service and the listener; closeDoneChOnce.
CloseClient ==
    /\ run = "close" /\ Returns /\ cancelled' = TRUE /\ vcListener' = FALSE /\ doneCh' = TRUE
    /\ UNCHANGED <<forward, exec, channelState, muFirst, vcRun, control, proxy, transfer, pipe,
                   frpsListener, workConn>>

-----------------------------------------------------------------------------
(* The virtual client.                                                     *)

vcRest == <<run, forward, exec, channelState>>

\* pipeConnector.Connect: a pipe, one end of which goes to PeerListener.
Connect(p) ==
    /\ vcRun = "run" /\ pipe[p] = "none" /\ ~cancelled
    /\ pipe' = [pipe EXCEPT ![p] = IF vcListener THEN "queued" ELSE "refused"]
    /\ UNCHANGED <<sshConn, vcRest, muFirst, vcRun, cancelled, control, proxy, vcListener, transfer,
                   frpsListener, doneCh, workConn>>

\* The goroutine between the two listeners: PutConn into one that is closed fails.
Transfer(p) ==
    /\ transfer = "run" /\ pipe[p] = "queued"
    /\ pipe' = [pipe EXCEPT ![p] = IF frpsListener THEN "frps" ELSE "refused"]
    /\ UNCHANGED <<sshConn, vcRest, muFirst, vcRun, cancelled, control, proxy, vcListener, transfer,
                   frpsListener, doneCh, workConn>>

\* A closed listener gives what it holds first.
TransferEnds ==
    /\ transfer = "run" /\ ~vcListener /\ \A p \in Pipes : pipe[p] # "queued"
    /\ transfer' = "ended"
    /\ UNCHANGED <<sshConn, vcRest, muFirst, vcRun, cancelled, control, proxy, vcListener, pipe,
                   frpsListener, doneCh, workConn>>

LoginSucceeds ==
    /\ vcRun = "run" /\ control = "none" /\ ~cancelled /\ \E p \in Pipes : pipe[p] = "frps"
    /\ control' = "up"
    /\ UNCHANGED <<sshConn, vcRest, muFirst, vcRun, cancelled, proxy, vcListener, transfer, pipe,
                   frpsListener, doneCh, workConn>>

\* The first login fails: the connector is closed, and its listener with it;
\* Run returns the error.
LoginFails ==
    /\ vcRun = "run" /\ control = "none" /\ vcRun' = "failed" /\ vcListener' = FALSE
    /\ UNCHANGED <<sshConn, vcRest, muFirst, cancelled, control, proxy, transfer, pipe, frpsListener,
                   doneCh, workConn>>

ProxyStarts ==
    /\ vcRun = "run" /\ control = "up" /\ proxy = "none" /\ run \notin {"parse", "update"}
    /\ proxy' \in {"running", "start error"}
    /\ UNCHANGED <<sshConn, vcRest, muFirst, vcRun, cancelled, control, vcListener, transfer, pipe,
                   frpsListener, doneCh, workConn>>

\* The control's connection breaks; its connector closes the listener, after
\* which no new login can succeed.
ControlEnds ==
    /\ control = "up" /\ vcRun = "run" /\ control' = "down" /\ proxy' = "none" /\ vcListener' = FALSE
    /\ UNCHANGED <<sshConn, vcRest, muFirst, vcRun, cancelled, transfer, pipe, frpsListener, doneCh,
                   workConn>>

\* vc.Run returns after vc.Close.
ServiceStops ==
    /\ vcRun = "run" /\ cancelled /\ vcRun' = "done" /\ control' = "down" /\ proxy' = "none"
    /\ UNCHANGED <<sshConn, vcRest, muFirst, cancelled, vcListener, transfer, pipe, frpsListener,
                   doneCh, workConn>>

\* The error of vc.Run is written to the client.
ReportsFailure ==
    /\ vcRun = "failed" /\ muFirst = "free" /\ muFirst' = "vc"
    /\ UNCHANGED <<sshConn, vcRest, vcState, doneCh, workConn>>

FailureWritten ==
    /\ muFirst = "vc" /\ muFirst' = "free" /\ vcRun' = "done"
    /\ UNCHANGED <<sshConn, vcRest, cancelled, control, proxy, vcListener, transfer, pipe,
                   frpsListener, doneCh, workConn>>

\* closeDoneChOnce.
ClientEnds ==
    /\ vcRun = "done" /\ vcRun' = "ended" /\ sshConn' = "closed" /\ doneCh' = TRUE
    /\ UNCHANGED <<vcRest, muFirst, cancelled, control, proxy, vcListener, transfer, pipe,
                   frpsListener, workConn>>

\* A work connection for the running proxy.
WorkConnComes(w) ==
    /\ proxy = "running" /\ workConn[w] = "none" /\ workConn' = [workConn EXCEPT ![w] = "open"]
    /\ UNCHANGED <<sshConn, vcRest, muFirst, vcState, doneCh>>

\* HandleWorkConnCb: openConn opens a channel to the SSH client, or fails.
HandleWorkConn(w) ==
    /\ workConn[w] = "open"
    /\ \/ sshConn = "open" /\ workConn' = [workConn EXCEPT ![w] = "join"]
       \/ workConn' = [workConn EXCEPT ![w] = "closed"]
    /\ UNCHANGED <<sshConn, vcRest, muFirst, vcState, doneCh>>

JoinEnds(w) ==
    /\ workConn[w] = "join" /\ workConn' = [workConn EXCEPT ![w] = "closed"]
    /\ UNCHANGED <<sshConn, vcRest, muFirst, vcState, doneCh>>

\* frps closes; Gateway.Close leaves the tunnels there are.
ServerCloses ==
    /\ frpsListener /\ frpsListener' = FALSE
    /\ UNCHANGED <<sshConn, vcRest, muFirst, vcRun, cancelled, control, proxy, vcListener, transfer,
                   pipe, doneCh, workConn>>

-----------------------------------------------------------------------------
Running  == \/ Handshake \/ WaitPayload \/ ParseFails \/ StartsClient \/ UpdateProxy \/ StatusReady
            \/ StatusTimesOut \/ WaitReturns \/ CloseClient
Client   == LoginFails \/ ServiceStops \/ ReportsFailure \/ ClientEnds
Moving   == TransferEnds \/ \E p \in Pipes : Transfer(p)
Session(h) == HandleNewChannel(h) \/ ChannelEnds(h)

SSHNext ==
    \/ Running \/ Client \/ Moving \/ WriteReturns \/ FailureWritten \/ ClientLeaves \/ RequestForward
    \/ LoginSucceeds \/ ProxyStarts \/ ControlEnds \/ ServerCloses
    \/ \E h \in Channels : OpensChannel(h) \/ Session(h) \/ RequestExec(h) \/ KeepAliveEnds(h)
    \/ \E p \in Pipes : Connect(p)
    \/ \E w \in WorkConns : WorkConnComes(w) \/ HandleWorkConn(w) \/ JoinEnds(w)

SSHSpec == SSHInit /\ [][SSHNext]_svars

\* A join ends with the SSH connection under it.
WorkConnEnds(w) == HandleWorkConn(w) \/ (sshConn = "closed" /\ JoinEnds(w))
-----------------------------------------------------------------------------
(* Properties.                                                             *)

\* When the SSH client has left or the virtual client has ended, everything the
\* tunnel started ends: Run, the goroutine of the virtual client, the one that
\* moves pipes, the keepalives and the joins, on the paths where Run returns
\* before doneCh exists for anyone too (pkg/ssh/server.go Run, keepAlive).
Pending == sshConn = "closed" \/ vcRun \in {"failed", "done", "ended"}
Settled ==
    /\ sshConn = "closed" /\ run = "returned"
    /\ vcRun \in {"none", "ended"} /\ transfer \in {"none", "ended"}
    /\ \A h \in Channels : keepAlive[h] # "run"
    /\ \A w \in WorkConns : workConn[w] \in {"none", "closed"}
=============================================================================
