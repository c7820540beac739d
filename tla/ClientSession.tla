--------------------------- MODULE ClientSession ---------------------------
(***************************************************************************)
(* frpc from its service down to its proxies (client/service.go,           *)
(* client/control_session.go, client/connector.go, client/control.go,      *)
(* client/proxy/proxy_manager.go): the login loop, the control of each     *)
(* session with its message queues to and from frps, reloads of the        *)
(* configuration, and the shutdown.  frps is an environment that answers   *)
(* the messages of a control connection in order.                          *)
(*                                                                         *)
(* The goroutines are: the login loop (loopLoginUntilSuccess called by Run *)
(* and then by keepControllerWorking), Run itself once it waits for the    *)
(* context, one worker per control, one check worker and one monitor per   *)
(* wrapper, and one reload at a time (reloadMu).                           *)
(***************************************************************************)
EXTENDS ProxyWrapper, FiniteSets

CONSTANTS MaxControls,    \* successful logins
          MaxReloads,     \* reloads
          MaxStarts,      \* NewProxy messages
          LoginFailExit,  \* loginFailExit of the configuration
          MayRefuse,      \* frps may refuse a proxy whose name is free
          InitialCfgs,    \* configuration at start: name -> version, 0 for none
          ReloadCfgs      \* the configurations a reload may bring

VARIABLES
    ctxDone,    \* svr.ctx is cancelled
    run,        \* Run and stop(): where the main goroutine is
    sources,    \* the aggregator and the config sources are still there
    cfgs,       \* svr.proxyCfgs
    ctl,        \* svr.ctl, 0 for nil
    login,      \* the login loop: [pc, ctl, cfgs]
    reload,     \* the reload in progress: [pc, cfgs, target]
    reloads,    \* how many reloads there have been
    session,    \* control -> [conn, connector, done]
    pm,         \* control -> name -> wrapper or NoWrapper
    up, down,   \* control -> messages to frps, answers of frps
    reg,        \* frps: name -> [ctl, cfg], ctl = 0 for none
    starts,     \* NewProxy messages sent
    panicked,   \* goroutines that dereferenced a nil control
    history     \* what happened that an agreement has to except

svcVars == <<ctxDone, run, sources, ctl, panicked>>
cfgVars == <<cfgs, reload, reloads>>
netVars == <<up, down, reg, starts, history>>
vars == <<svcVars, cfgVars, login, session, pm, netVars>>

Controls == 1..MaxControls
Cfgs     == [Names -> Versions \cup {0}]

Ends    == {"none", "open", "closed"}
Session == [conn : Ends, connector : Ends, done : BOOLEAN]

LoginPcs  == {"open", "connect", "exchange", "logged in", "built",
              "ran", "check", "eval", "wait", "exit"}
ReloadPcs == {"idle", "loaded", "stored", "has control", "apply"}

Message == [type : {"NewProxy"}, name : Names, cfg : Versions]
           \cup [type : {"CloseProxy"}, name : Names, cfg : {0}]
Answer  == [name : Names, ok : BOOLEAN]

\* Types of every field.
SessionTypeOK ==
    /\ ctxDone \in BOOLEAN /\ sources \in BOOLEAN
    /\ run \in {"first login", "serving", "stopping", "closing", "stopped"}
    /\ cfgs \in Cfgs /\ ctl \in 0..MaxControls
    /\ login \in [pc : LoginPcs, ctl : 0..MaxControls, cfgs : Cfgs]
    /\ reload \in [pc : ReloadPcs, cfgs : Cfgs, target : 0..MaxControls]
    /\ reloads \in 0..MaxReloads
    /\ session \in [Controls -> Session]
    /\ pm \in [Controls -> [Names -> Wrapper \cup {NoWrapper}]]
    /\ up \in [Controls -> Seq(Message)] /\ down \in [Controls -> Seq(Answer)]
    /\ reg \in [Names -> [ctl : 0..MaxControls, cfg : Versions \cup {0}]]
    /\ starts \in 0..MaxStarts
    /\ panicked \subseteq {"login", "reload"}
    /\ history \subseteq {"refused", "retried early"}

Unregistered == [ctl |-> 0, cfg |-> 0]

Init ==
    /\ ctxDone = FALSE /\ run = "first login" /\ sources = TRUE
    /\ cfgs = InitialCfgs /\ ctl = 0
    /\ login = [pc |-> "open", ctl |-> 0, cfgs |-> InitialCfgs]
    /\ reload = [pc |-> "idle", cfgs |-> InitialCfgs, target |-> 0]
    /\ reloads = 0
    /\ session = [c \in Controls |->
                    [conn |-> "none", connector |-> "none", done |-> FALSE]]
    /\ pm = [c \in Controls |-> [n \in Names |-> NoWrapper]]
    /\ up = [c \in Controls |-> << >>] /\ down = [c \in Controls |-> << >>]
    /\ reg = [n \in Names |-> Unregistered]
    /\ starts = 0
    /\ panicked = {} /\ history = {}

Connected(c) == session[c].conn = "open"

\* closeSession: the control connection and the connector.
Closed(s) == [s EXCEPT !.conn = "closed", !.connector = "closed"]

(***************************************************************************)
(* Messages to frps.  Send fails once the dispatcher is done; what is sent *)
(* on a closed connection is lost.                                         *)
(***************************************************************************)
Sent(c, q, msgs) == IF Connected(c) THEN q \o msgs ELSE q

\* The CloseProxy messages of the wrappers Stop is called on, in some order: the
\* manager's map is iterated, and one name has one wrapper.
CloseOrders(names) ==
    { s \in [1..Cardinality(names) -> names] :
        \A i, j \in DOMAIN s : s[i] = s[j] => i = j }

Closes(order) == [i \in DOMAIN order |-> CloseProxyMsg(order[i])]

Managed(c) == { n \in Names : pm[c][n] # NoWrapper }

\* Manager.Close: stops every wrapper, which withdraws each of them.  It may be
\* called again (by the worker, by a replacement, by stop): then nothing is left.
ManagerClose(c) ==
    /\ pm' = [pm EXCEPT ![c] = [n \in Names |-> NoWrapper]]
    /\ \E order \in CloseOrders(Managed(c)) :
         up' = [up EXCEPT ![c] = Sent(c, @, Closes(order))]

\* An update that forgets to stop the wrapper it replaces.
ManagerUpdateSilently(c, new) ==
    /\ pm' = [pm EXCEPT ![c] = [n \in Names |->
                IF new[n] = 0 THEN NoWrapper
                  ELSE IF pm[c][n].cfg = new[n] THEN pm[c][n]
                  ELSE NewWrapper(n, new[n])]]
    /\ up' = up

\* Manager.UpdateAll: wrappers without or with another configuration are stopped,
\* configurations without a wrapper get one.
ManagerUpdateAll(c, new) ==
    /\ pm' = [pm EXCEPT ![c] = [n \in Names |->
                IF new[n] = 0 THEN NoWrapper
                  ELSE IF pm[c][n].cfg = new[n] THEN pm[c][n]
                  ELSE NewWrapper(n, new[n])]]
    /\ \E order \in CloseOrders({n \in Managed(c) : pm[c][n].cfg # new[n]}) :
         up' = [up EXCEPT ![c] = Sent(c, @, Closes(order))]

-----------------------------------------------------------------------------
(***************************************************************************)
(* The login loop.  A dial is four steps, each of which may fail; a failed *)
(* one closes what the earlier steps opened.                               *)
(***************************************************************************)
NextControl == login.ctl + 1

LoginTo(pc) == login' = [login EXCEPT !.pc = pc]

\* Dial returns an error; loginFailExit cancels the service on the first login.
DialFails ==
    /\ LoginTo("open")
    /\ ctxDone' = (ctxDone \/ (run = "first login" /\ LoginFailExit))
    /\ UNCHANGED <<run, sources, ctl, panicked, cfgVars, pm, netVars>>

DialStep(pc, field, to) ==
    /\ login.pc = pc
    /\ \/ /\ session' = [session EXCEPT ![NextControl][field] = "open"]
          /\ LoginTo(to)
          /\ UNCHANGED <<svcVars, cfgVars, pm, netVars>>
       \/ /\ session' = [session EXCEPT ![NextControl] =
               [conn      |-> IF @.conn = "open" THEN "closed" ELSE @.conn,
                connector |-> IF @.connector = "open" THEN "closed" ELSE @.connector,
                done      |-> FALSE]]
          /\ DialFails

\* connector.Open, unless the loop has been told to stop.
DialOpen ==
    /\ ~ctxDone /\ login.ctl < MaxControls
    /\ DialStep("open", "connector", "connect")

DialConnect == DialStep("connect", "conn", "exchange")

\* A dial whose error path forgets the connector.
DialExchangeLeaks ==
    /\ login.pc = "exchange"
    /\ \/ /\ login' = [login EXCEPT !.pc = "logged in", !.ctl = NextControl]
          /\ UNCHANGED <<svcVars, cfgVars, session, pm, netVars>>
       \/ /\ session' = [session EXCEPT ![NextControl].conn = "closed"]
          /\ DialFails

\* buildLoginMsg, exchangeLogin and the session's crypto.  The run id that comes
\* back is the one sent, or a new one on the first login.
DialExchange ==
    /\ login.pc = "exchange"
    /\ \/ /\ login' = [login EXCEPT !.pc = "logged in", !.ctl = NextControl]
          /\ UNCHANGED <<svcVars, cfgVars, session, pm, netVars>>
       \/ /\ session' = [session EXCEPT ![NextControl] = Closed(@)]
          /\ DialFails

\* The configurations are copied under cfgMu, before the control exists.
LoginReadsCfgs ==
    /\ login.pc = "logged in"
    /\ login' = [login EXCEPT !.pc = "built", !.cfgs = cfgs]
    /\ UNCHANGED <<svcVars, cfgVars, session, pm, netVars>>

\* NewControl and Run: the worker starts, and UpdateAll makes the wrappers.
LoginRuns ==
    /\ login.pc = "built"
    /\ ManagerUpdateAll(login.ctl, login.cfgs)
    /\ LoginTo("ran")
    /\ UNCHANGED <<svcVars, cfgVars, session, down, reg, starts, history>>

\* Under ctlMu the previous control is closed and replaced.  stop() holds ctlMu
\* while it closes gracefully.
LoginReplaces ==
    /\ login.pc = "ran" /\ run # "closing"
    /\ ctl' = login.ctl
    /\ LoginTo("check")
    /\ IF ctl = 0
         THEN UNCHANGED <<pm, up, session>>
         ELSE /\ ManagerClose(ctl)
              /\ session' = [session EXCEPT ![ctl] = Closed(@)]
    /\ UNCHANGED <<ctxDone, run, sources, panicked, cfgVars, down, reg, starts,
                   history>>

\* After the loop: Run and keepControllerWorking look at svr.ctl without ctlMu.
LoginChecks ==
    /\ login.pc = "check"
    /\ LoginTo(IF ctl = 0 THEN "open" ELSE "eval")
    /\ run' = IF run = "first login" THEN "serving" ELSE run
    /\ UNCHANGED <<ctxDone, sources, ctl, panicked, cfgVars, session, pm, netVars>>

\* svr.ctl.Done() is evaluated on a second read.
LoginWaits ==
    /\ login.pc = "eval"
    /\ IF ctl = 0
         THEN panicked' = panicked \cup {"login"} /\ LoginTo("exit")
         ELSE /\ login' = [login EXCEPT !.pc = "wait", !.ctl = ctl]
              /\ UNCHANGED panicked
    /\ UNCHANGED <<ctxDone, run, sources, ctl, cfgVars, session, pm, netVars>>

\* The control is done: dial again.
LoginAgain ==
    /\ login.pc = "wait" /\ session[login.ctl].done
    /\ LoginTo("open")
    /\ UNCHANGED <<svcVars, cfgVars, session, pm, netVars>>

\* The backoff loops end once the context is cancelled.
LoginEnds ==
    /\ login.pc = "open" /\ ctxDone
    /\ LoginTo("exit")
    /\ UNCHANGED <<svcVars, cfgVars, session, pm, netVars>>

Login == \/ DialOpen \/ DialConnect \/ DialExchange \/ LoginReadsCfgs
         \/ LoginRuns \/ LoginReplaces \/ LoginChecks \/ LoginWaits
         \/ LoginAgain \/ LoginEnds
-----------------------------------------------------------------------------
(***************************************************************************)
(* Shutdown: GracefulClose cancels the context, Run calls stop().          *)
(***************************************************************************)
GracefulClose ==
    /\ ~ctxDone
    /\ ctxDone' = TRUE
    /\ UNCHANGED <<run, sources, ctl, panicked, cfgVars, login, session, pm, netVars>>

\* stop() takes reloadMu: it waits for the reload in progress, and later reloads
\* find no sources.  Run gets here when the context is done, or after a first
\* login loop that gave up.
StopSources ==
    /\ ctxDone
    /\ \/ run = "serving"
       \/ run = "first login" /\ login.pc = "exit"
    /\ reload.pc = "idle"
    /\ sources' = FALSE /\ run' = "stopping"
    /\ UNCHANGED <<ctxDone, ctl, panicked, cfgVars, login, session, pm, netVars>>

\* Control.GracefulClose under ctlMu: proxies and visitors first, ...
StopManagers ==
    /\ run = "stopping"
    /\ run' = "closing"
    /\ IF ctl = 0 THEN UNCHANGED <<pm, up>> ELSE ManagerClose(ctl)
    /\ UNCHANGED <<ctxDone, sources, ctl, panicked, cfgVars, login, session, down,
                   reg, starts, history>>

\* ... and the session after the graceful shutdown duration.
StopSession ==
    /\ run = "closing"
    /\ run' = "stopped" /\ ctl' = 0
    /\ session' = IF ctl = 0 THEN session ELSE [session EXCEPT ![ctl] = Closed(@)]
    /\ UNCHANGED <<ctxDone, sources, panicked, cfgVars, login, pm, netVars>>

Stop == StopSources \/ StopManagers \/ StopSession
-----------------------------------------------------------------------------
(***************************************************************************)
(* A reload (UpdateConfigSource or reloadConfigFromSources), all of it     *)
(* under reloadMu.                                                         *)
(***************************************************************************)
\* The sources are read, filtered, completed and validated; an error, or a
\* service that has been stopped, ends the reload here.
ReloadLoads ==
    /\ reload.pc = "idle" /\ reloads < MaxReloads /\ sources
    /\ \E new \in ReloadCfgs : reload' = [reload EXCEPT !.pc = "loaded", !.cfgs = new]
    /\ reloads' = reloads + 1
    /\ UNCHANGED <<svcVars, cfgs, login, session, pm, netVars>>

\* UpdateAllConfigurer replaces svr.proxyCfgs under cfgMu ...
ReloadStores ==
    /\ reload.pc = "loaded"
    /\ cfgs' = reload.cfgs
    /\ reload' = [reload EXCEPT !.pc = "stored"]
    /\ UNCHANGED <<svcVars, reloads, login, session, pm, netVars>>

\* ... reads svr.ctl under ctlMu ...
ReloadReadsControl ==
    /\ reload.pc = "stored" /\ run # "closing"
    /\ reload' = [reload EXCEPT !.pc = IF ctl = 0 THEN "idle" ELSE "has control"]
    /\ UNCHANGED <<svcVars, cfgs, reloads, login, session, pm, netVars>>

\* ... and calls the method of svr.ctl, read again without it.
ReloadCalls ==
    /\ reload.pc = "has control"
    /\ reload' = [reload EXCEPT !.pc = IF ctl = 0 THEN "idle" ELSE "apply",
                                !.target = ctl]
    /\ panicked' = IF ctl = 0 THEN panicked \cup {"reload"} ELSE panicked
    /\ UNCHANGED <<ctxDone, run, sources, ctl, cfgs, reloads, login, session, pm,
                   netVars>>

\* Control.UpdateAllConfigurer: the visitors, then the proxies.
ReloadApplies ==
    /\ reload.pc = "apply"
    /\ ManagerUpdateAll(reload.target, reload.cfgs)
    /\ reload' = [reload EXCEPT !.pc = "idle", !.target = 0]
    /\ UNCHANGED <<svcVars, cfgs, reloads, login, session, down, reg, starts,
                   history>>

Reload == ReloadLoads \/ ReloadStores \/ ReloadReadsControl \/ ReloadCalls
          \/ ReloadApplies
-----------------------------------------------------------------------------
(***************************************************************************)
(* A control.  It runs from ctl.Run until its worker has closed doneCh.    *)
(***************************************************************************)
Running(c) == /\ ~session[c].done
              /\ \/ login.ctl > c
                 \/ login.ctl = c /\ login.pc \notin {"logged in", "built"}

\* The connection ends: the peer or the network closes it, the heartbeat times
\* out, or a Pong carries an error.
ConnectionEnds(c) ==
    /\ Running(c) /\ Connected(c)
    /\ session' = [session EXCEPT ![c] = Closed(@)]
    /\ UNCHANGED <<svcVars, cfgVars, login, pm, netVars>>

\* worker: the dispatcher is done, everything is closed, then doneCh.
WorkerEnds(c) ==
    /\ Running(c) /\ session[c].conn = "closed"
    /\ session' = [session EXCEPT ![c] = [Closed(@) EXCEPT !.done = TRUE]]
    /\ ManagerClose(c)
    /\ UNCHANGED <<svcVars, cfgVars, login, down, reg, starts, history>>

\* checkWorker of a wrapper sends NewProxy.  A retry while the answer is still on
\* its way is an early one.
WrapperStarts(c, n) ==
    LET w == pm[c][n] IN
    /\ w # NoWrapper /\ MayStart(w) /\ Connected(c) /\ starts < MaxStarts
    /\ pm' = [pm EXCEPT ![c][n] = Started(w)]
    /\ up' = [up EXCEPT ![c] = Sent(c, @, <<NewProxyMsg(n, w.cfg)>>)]
    /\ starts' = starts + 1
    /\ history' = IF w.phase = "wait start" THEN history \cup {"retried early"}
                                            ELSE history
    /\ UNCHANGED <<svcVars, cfgVars, login, session, down, reg>>

\* checkWorker withdraws an unhealthy proxy.
WrapperWithdraws(c, n) ==
    LET w == pm[c][n] IN
    /\ w # NoWrapper /\ MustWithdraw(w)
    /\ pm' = [pm EXCEPT ![c][n] = Withdrawn(w)]
    /\ up' = [up EXCEPT ![c] = Sent(c, @, <<CloseProxyMsg(n)>>)]
    /\ UNCHANGED <<svcVars, cfgVars, login, session, down, reg, starts, history>>

\* The monitor of a wrapper; its Stop cancels the monitor with the wrapper.
MonitorChecks(c, n) ==
    /\ pm[c][n] # NoWrapper /\ n \in HealthChecked
    /\ \E ok \in BOOLEAN : pm' = [pm EXCEPT ![c][n] = Checked(@, ok)]
    /\ UNCHANGED <<svcVars, cfgVars, login, session, netVars>>

\* handleNewProxyResp and Manager.StartProxy: the answer goes to the wrapper that
\* has the name now.
HandleNewProxyResp(c) ==
    /\ Running(c) /\ Connected(c) /\ down[c] # << >>
    /\ LET a == Head(down[c])
           w == pm[c][a.name]
       IN \E runs \in BOOLEAN :
            /\ pm' = IF w = NoWrapper THEN pm
                       ELSE [pm EXCEPT ![c][a.name] = SetRunningStatus(w, a.ok, runs)]
            /\ up' = [up EXCEPT ![c] = @ \o SetRunningSends(a.name, w, a.ok, runs)]
    /\ down' = [down EXCEPT ![c] = Tail(@)]
    /\ UNCHANGED <<svcVars, cfgVars, login, session, reg, starts, history>>

ControlStep(c) ==
    \/ ConnectionEnds(c) \/ WorkerEnds(c) \/ HandleNewProxyResp(c)
    \/ \E n \in Names : \/ WrapperStarts(c, n) \/ WrapperWithdraws(c, n)
                        \/ MonitorChecks(c, n)
-----------------------------------------------------------------------------
(***************************************************************************)
(* frps, as frpc uses it: messages are handled in the order they were      *)
(* sent, each NewProxy is answered, and a name has one owner.              *)
(***************************************************************************)
FrpsRegisters(c) ==
    /\ Connected(c) /\ up[c] # << >> /\ Head(up[c]).type = "NewProxy"
    /\ LET m == Head(up[c])
           free == reg[m.name].ctl = 0
       IN \E ok \in BOOLEAN :
            /\ ok => free
            /\ ~ok => (~free \/ MayRefuse)
            /\ reg' = IF ok THEN [reg EXCEPT ![m.name] = [ctl |-> c, cfg |-> m.cfg]]
                            ELSE reg
            /\ down' = [down EXCEPT ![c] = Append(@, [name |-> m.name, ok |-> ok])]
            /\ history' = IF ok \/ reg[m.name].ctl = c THEN history
                                                       ELSE history \cup {"refused"}
    /\ up' = [up EXCEPT ![c] = Tail(@)]
    /\ UNCHANGED <<svcVars, cfgVars, login, session, pm, starts>>

FrpsCloses(c) ==
    /\ Connected(c) /\ up[c] # << >> /\ Head(up[c]).type = "CloseProxy"
    /\ LET n == Head(up[c]).name IN
         reg' = IF reg[n].ctl = c THEN [reg EXCEPT ![n] = Unregistered] ELSE reg
    /\ up' = [up EXCEPT ![c] = Tail(@)]
    /\ UNCHANGED <<svcVars, cfgVars, login, session, pm, down, starts, history>>

\* frps notices that a control is gone and drops what it had registered.
FrpsDrops(c) ==
    /\ session[c].conn = "closed"
    /\ up[c] # << >> \/ down[c] # << >> \/ \E n \in Names : reg[n].ctl = c
    /\ reg' = [n \in Names |-> IF reg[n].ctl = c THEN Unregistered ELSE reg[n]]
    /\ up' = [up EXCEPT ![c] = << >>] /\ down' = [down EXCEPT ![c] = << >>]
    /\ UNCHANGED <<svcVars, cfgVars, login, session, pm, starts, history>>

Frps(c) == FrpsRegisters(c) \/ FrpsCloses(c) \/ FrpsDrops(c)

Next == \/ Login \/ GracefulClose \/ Stop \/ Reload
        \/ \E c \in Controls : ControlStep(c) \/ Frps(c)

Spec == Init /\ [][Next]_vars

\* A reload that has been started.
ReloadGoesOn == ReloadStores \/ ReloadReadsControl \/ ReloadCalls \/ ReloadApplies
-----------------------------------------------------------------------------
(***************************************************************************)
(* Properties.                                                             *)
(***************************************************************************)
Quiet(c) == /\ Running(c) /\ Connected(c)
            /\ up[c] = << >> /\ down[c] = << >>

Registered(c, n) == reg[n].ctl = c

\* When nothing is under way between a control and frps, a proxy that frpc takes
\* for running is registered at frps with the configuration frpc has for it,
\* however reloads, health checks and late answers (which SetRunningStatus gives
\* to whichever wrapper has the name, proxy_wrapper.go:139-165) interleaved; and what
\* frps has registered is running, withdrawn or stopped proxies included, unless
\* frpc asked twice because the answer was late.  Excepted is what happens after
\* frps has refused a proxy.
Agreement ==
    \A c \in Controls, n \in Names :
      (Quiet(c) /\ "refused" \notin history) =>
        /\ pm[c][n].phase = "running" => reg[n] = [ctl |-> c, cfg |-> pm[c][n].cfg]
        /\ (Registered(c, n) /\ "retried early" \notin history)
             => pm[c][n].phase = "running"

\* The connections of the login loop and of the control it maintains are the only
\* open ones: a dial that fails half way, a control that is replaced and the one
\* that stop() finds have closed theirs (control_session.go:55-70, service.go:346-355,
\* 433-439).  The one exception is a login that was past its dial when stop() ran: it
\* makes its control svr.ctl after stop() has finished, and nobody closes that one.
SessionsClosed ==
    \A c \in Controls :
      (session[c].conn = "open" \/ session[c].connector = "open") =>
        \/ c = ctl /\ run # "stopped"
        \/ c = NextControl /\ login.pc \in {"connect", "exchange"}
        \/ c = login.ctl /\ login.pc \in {"logged in", "built", "ran"}
        \/ c = ctl /\ c = login.ctl /\ login.pc \in {"check", "eval", "wait"}

\* UpdateAllConfigurer and the login loop read svr.ctl a second time without
\* ctlMu (service.go:380, 288).  A reload never finds it nil: stop() waits for
\* reloadMu.  The login loop can, and only in a service that is shutting down.
NoNilControl == panicked \subseteq (IF ctxDone THEN {"login"} ELSE {})

\* Once the context is cancelled, by GracefulClose or by a failed first login,
\* stop() gets its two mutexes and finishes, whatever reload or login is under way.
Pending == ctxDone
Settled == run = "stopped"
=============================================================================
