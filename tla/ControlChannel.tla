--------------------------- MODULE ControlChannel ---------------------------
(***************************************************************************)
(* Back pressure on the control connection (pkg/msg/handler.go, with       *)
(* client/control.go, client/proxy and server/control.go).  Each side has  *)
(* a Dispatcher: Send puts a message into a bounded queue, sendLoop writes *)
(* it, readLoop calls the handler of a message before it reads the next.   *)
(* frps' handler of NewProxy sends the answer; frpc's handler of that      *)
(* answer needs the manager's lock and the proxy's, and a reload holds     *)
(* both while it sends CloseProxy.  Everyone may therefore wait for        *)
(* everyone, until the heartbeat fails.                                    *)
(***************************************************************************)
EXTENDS Integers, Sequences

CONSTANTS Proxies,      \* names of the proxies that a reload replaces
          SendCap,      \* capacity of sendCh (100)
          PipeCap,      \* messages under way in one direction, the one sendLoop writes included
          MaxReloads    \* bound: reloads

Sides == {"frpc", "frps"}
Peer  == [s \in Sides |-> IF s = "frpc" THEN "frps" ELSE "frpc"]

VARIABLES sendCh,       \* side -> messages
          pipe,         \* side -> messages it wrote that the peer has not read
          readLoop,     \* side -> message being handled, <<>> for none
          isOpen,       \* side -> its end of the connection
          done,         \* side -> doneCh is closed
          phase,        \* proxy -> phase of its wrapper, "closed" when it has none
          muPxy,        \* proxy -> who holds the wrapper's mutex
          update,       \* whoever holds the manager's mutex, and the wrappers to stop
          reloads, ping,
          registered    \* proxies of the control on frps

hvars == <<sendCh, pipe, readLoop, isOpen, done, phase, muPxy, update, reloads, ping, registered>>

Nothing == <<>>
Message == {Nothing, <<"ping">>, <<"pong">>} \cup ({"new", "close", "ok", "error"} \X Proxies)

ChannelTypeOK ==
    /\ sendCh \in [Sides -> Seq(Message)] /\ pipe \in [Sides -> Seq(Message)]
    /\ \A s \in Sides : Len(sendCh[s]) <= SendCap /\ Len(pipe[s]) <= PipeCap
    /\ readLoop \in [Sides -> Message]
    /\ isOpen \in [Sides -> BOOLEAN] /\ done \in [Sides -> BOOLEAN]
    /\ phase \in [Proxies -> {"new", "wait start", "start error", "running", "closed"}]
    /\ muPxy \in [Proxies -> {"free", "worker", "stop"}]
    /\ update \in [by : {"nobody", "reload", "end", "ended"}, left : SUBSET Proxies]
    /\ reloads \in 0..MaxReloads
    /\ ping \in {"due", "sent", "received"} /\ registered \subseteq Proxies

\* The control has logged in and has started its proxies.
ChannelInit ==
    /\ sendCh = [s \in Sides |-> <<>>] /\ pipe = [s \in Sides |-> <<>>]
    /\ readLoop = [s \in Sides |-> Nothing]
    /\ isOpen = [s \in Sides |-> TRUE] /\ done = [s \in Sides |-> FALSE]
    /\ phase = [p \in Proxies |-> "new"] /\ muPxy = [p \in Proxies |-> "free"]
    /\ update = [by |-> "nobody", left |-> {}] /\ reloads = 0 /\ ping = "received"
    /\ registered = {}

-----------------------------------------------------------------------------
(* Dispatcher.                                                             *)

frpcState == <<phase, muPxy, update, reloads>>

\* Send: into sendCh if there is room.  Once doneCh is closed it may fail instead, and
\* nothing that is in sendCh then is written.
Send(s, m) == \/ /\ ~done[s] /\ Len(sendCh[s]) < SendCap
                 /\ sendCh' = [sendCh EXCEPT ![s] = Append(@, m)]
              \/ done[s] /\ UNCHANGED sendCh

\* sendLoop: WriteMsg waits for room in the connection; its error is ignored.
SendLoop(s) ==
    /\ ~done[s] /\ sendCh[s] # <<>> /\ sendCh' = [sendCh EXCEPT ![s] = Tail(@)]
    /\ \/ isOpen[s] /\ isOpen[Peer[s]] /\ Len(pipe[s]) < PipeCap
          /\ pipe' = [pipe EXCEPT ![s] = Append(@, Head(sendCh[s]))]
       \/ ~(isOpen[s] /\ isOpen[Peer[s]]) /\ UNCHANGED pipe
    /\ UNCHANGED <<readLoop, isOpen, done, frpcState, ping, registered>>

ReadMsg(s) ==
    /\ readLoop[s] = Nothing /\ ~done[s] /\ isOpen[s] /\ pipe[Peer[s]] # <<>>
    /\ readLoop' = [readLoop EXCEPT ![s] = Head(pipe[Peer[s]])]
    /\ pipe' = [pipe EXCEPT ![Peer[s]] = Tail(@)]
    /\ UNCHANGED <<sendCh, isOpen, done, frpcState, ping, registered>>

\* An end is closed: what it has not read is lost.
Closes(s) == /\ isOpen' = [isOpen EXCEPT ![s] = FALSE]
             /\ pipe' = [pipe EXCEPT ![Peer[s]] = <<>>]

\* readLoop ends with an error of ReadMsg: doneCh is closed, and the worker of
\* the control closes its end; frps closes the proxies.
ReadMsgFails(s) ==
    /\ readLoop[s] = Nothing /\ ~done[s]
    /\ ~isOpen[s] \/ (~isOpen[Peer[s]] /\ pipe[Peer[s]] = <<>>)
    /\ done' = [done EXCEPT ![s] = TRUE] /\ Closes(s)
    /\ sendCh' = [sendCh EXCEPT ![s] = <<>>]
    /\ registered' = IF s = "frps" THEN {} ELSE registered
    /\ UNCHANGED <<readLoop, frpcState, ping>>

Handled(s) == readLoop[s] # Nothing /\ readLoop' = [readLoop EXCEPT ![s] = Nothing]

-----------------------------------------------------------------------------
(* frps.                                                                   *)

\* handleNewProxy: a name that is taken is refused.
HandleNewProxy(p) ==
    /\ readLoop["frps"] = <<"new", p>> /\ Handled("frps")
    /\ Send("frps", <<IF p \in registered THEN "error" ELSE "ok", p>>)
    /\ registered' = registered \cup {p}
    /\ UNCHANGED <<pipe, isOpen, done, frpcState, ping>>

HandleCloseProxy(p) ==
    /\ readLoop["frps"] = <<"close", p>> /\ Handled("frps")
    /\ registered' = registered \ {p}
    /\ UNCHANGED <<sendCh, pipe, isOpen, done, frpcState, ping>>

HandlePing ==
    /\ readLoop["frps"] = <<"ping">> /\ Handled("frps")
    /\ Send("frps", <<"pong">>) /\ ping' = "received"
    /\ UNCHANGED <<pipe, isOpen, done, frpcState, registered>>

\* heartbeatWorker of either side: nothing heard for too long, though a Ping is due.
HeartbeatTimesOut(s) ==
    /\ ping # "received" /\ isOpen[s] /\ Closes(s)
    /\ UNCHANGED <<sendCh, readLoop, done, frpcState, ping, registered>>

-----------------------------------------------------------------------------
(* frpc.                                                                   *)

netState == <<pipe, isOpen, done, registered>>

\* handleNewProxyResp: Manager.StartProxy takes the manager's mutex, and
\* Wrapper.SetRunningStatus the wrapper's.
HandleNewProxyResp(p) ==
    /\ readLoop["frpc"] \in {"ok", "error"} \X {p} /\ Handled("frpc")
    /\ update.by \in {"nobody", "ended"} /\ muPxy[p] = "free"
    /\ phase' = IF phase[p] # "wait start" THEN phase
                ELSE [phase EXCEPT ![p] =
                        IF readLoop["frpc"][1] = "ok" THEN "running" ELSE "start error"]
    /\ UNCHANGED <<sendCh, netState, muPxy, update, reloads, ping>>

HandlePong == /\ readLoop["frpc"] = <<"pong">> /\ Handled("frpc")
              /\ UNCHANGED <<sendCh, netState, frpcState, ping>>

\* checkWorker locks the wrapper: it is new, or the answer is late, or it is
\* time to try again after an error.
CheckWorker(p) ==
    /\ phase[p] \in {"new", "wait start", "start error"} /\ muPxy[p] = "free"
    /\ muPxy' = [muPxy EXCEPT ![p] = "worker"] /\ phase' = [phase EXCEPT ![p] = "wait start"]
    /\ UNCHANGED <<sendCh, readLoop, netState, update, reloads, ping>>

WorkerSends(p) ==
    /\ muPxy[p] = "worker" /\ Send("frpc", <<"new", p>>)
    /\ muPxy' = [muPxy EXCEPT ![p] = "free"]
    /\ UNCHANGED <<readLoop, netState, phase, update, reloads, ping>>

Wrappers == {p \in Proxies : phase[p] # "closed"}

\* UpdateAll with a configuration in which every proxy has changed.
UpdateAll ==
    /\ update.by = "nobody" /\ reloads < MaxReloads /\ reloads' = reloads + 1
    /\ update' = [by |-> "reload", left |-> Wrappers]
    /\ UNCHANGED <<sendCh, readLoop, netState, phase, muPxy, ping>>

\* Control.worker after the dispatcher has ended: Manager.Close.
ManagerClose ==
    /\ done["frpc"] /\ update.by = "nobody" /\ update' = [by |-> "end", left |-> Wrappers]
    /\ UNCHANGED <<sendCh, readLoop, netState, phase, muPxy, reloads, ping>>

\* Wrapper.Stop takes the wrapper's mutex and sends CloseProxy, both mutexes held.
StopLocks(p) ==
    /\ p \in update.left /\ muPxy[p] = "free"
    /\ muPxy' = [muPxy EXCEPT ![p] = "stop"] /\ phase' = [phase EXCEPT ![p] = "closed"]
    /\ UNCHANGED <<sendCh, readLoop, netState, update, reloads, ping>>

StopSends(p) ==
    /\ muPxy[p] = "stop" /\ Send("frpc", <<"close", p>>)
    /\ muPxy' = [muPxy EXCEPT ![p] = "free"] /\ update' = [update EXCEPT !.left = @ \ {p}]
    /\ UNCHANGED <<readLoop, netState, phase, reloads, ping>>

\* The new wrappers of a reload start, and the mutex is released.
UpdateReturns ==
    /\ update.by \in {"reload", "end"} /\ update.left = {}
    /\ update' = [update EXCEPT !.by = IF @ = "end" THEN "ended" ELSE "nobody"]
    /\ phase' = IF update.by = "end" THEN phase ELSE [p \in Proxies |-> "new"]
    /\ UNCHANGED <<sendCh, readLoop, netState, muPxy, reloads, ping>>

\* sendHeartBeat.
PingDue == /\ ping = "received" /\ ~done["frpc"] /\ ping' = "due"
           /\ UNCHANGED <<sendCh, readLoop, netState, frpcState>>

SendHeartBeat == /\ ping = "due" /\ Send("frpc", <<"ping">>) /\ ping' = "sent"
                 /\ UNCHANGED <<readLoop, netState, frpcState>>

-----------------------------------------------------------------------------
Reading(s) == \/ ReadMsg(s) \/ ReadMsgFails(s)
              \/ /\ s = "frps"
                 /\ HandlePing \/ \E p \in Proxies : HandleNewProxy(p) \/ HandleCloseProxy(p)
              \/ s = "frpc" /\ (HandlePong \/ \E p \in Proxies : HandleNewProxyResp(p))
Updating   == UpdateReturns \/ \E p \in Proxies : StopLocks(p) \/ StopSends(p)

ChannelNext == \/ \E s \in Sides : SendLoop(s) \/ Reading(s) \/ HeartbeatTimesOut(s)
               \/ \E p \in Proxies : CheckWorker(p) \/ WorkerSends(p)
               \/ UpdateAll \/ ManagerClose \/ Updating \/ PingDue \/ SendHeartBeat

ChannelSpec == ChannelInit /\ [][ChannelNext]_hvars
-----------------------------------------------------------------------------
(* Properties.                                                             *)

\* A reload of more proxies than the queues hold returns: when both sides wait
\* for each other the heartbeat ends the connection, and the sends that are
\* blocked then fail or are thrown away (pkg/msg/handler.go: sendLoop ignores
\* the error of WriteMsg, Send gives up when doneCh is closed).
Pending == update.by = "reload"
Settled == ~Pending
=============================================================================
