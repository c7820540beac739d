--------------------------- MODULE ControlManager ---------------------------
(***************************************************************************)
(* Control sessions of frps (server/control.go and the login path of       *)
(* server/service.go).  Every login makes one Control.  Controls that share *)
(* a run id are generations of the same client: a new one replaces the     *)
(* old one, waits until the worker of the old one has released what it     *)
(* held (the handoff barrier), is put in the client registry, answers the  *)
(* login and runs.                                                         *)
(*                                                                         *)
(* The threads are the login handler and the worker of every control, one  *)
(* handler per incoming work connection, user threads that take work       *)
(* connections from the pool, and the shutdown of the manager.  Sections   *)
(* of code that hold cm.mu, or a run gate and ctl.lifecycleMu, are one     *)
(* action; the unlocked look-up that precedes each of them is an action of *)
(* its own, so what it read may be stale when the gate is taken.           *)
(***************************************************************************)
EXTENDS ClientRegistry, FiniteSets

CONSTANTS
    Controls,      \* control objects, one per login
    Logins,        \* pairs of run id and client id that Login messages carry
    WorkConns,     \* incoming work connections
    PoolCapacity,  \* capacity of workConnCh
    MayShutDown,   \* whether the operator may close the server
    None           \* nil

ASSUME ControlAssumption ==
    /\ None \notin Controls
    /\ Logins \subseteq RunIDs \X (ClientIDs \cup {NoID})
    /\ PoolCapacity \in Nat
    /\ MayShutDown \in BOOLEAN

VARIABLES
    closed,             \* cm.closed
    ctlsByRunID,        \* cm.ctlsByRunID: the control of the current entry
    runMu,              \* entry.runMu, named after the control that made it
    registryOnline,     \* entry.registryOnline
    registryControlID,  \* entry.registryControlID
    nextControlID,      \* the process-wide counter
    run, raw,           \* run id and client id in ctl.sessionCtx.LoginMsg
    state,              \* ctl.state; "none" before NewControl
    controlID,          \* ctl.controlID
    activated,          \* ctl.activated
    handoffBarrier,     \* the control whose doneCh ctl.handoffBarrier is
    connOpen,           \* the control connection still works
    login,              \* where the login handler of a control is
    worker,             \* where the worker of a control is
    seen,               \* entry read by the look-up of the login handler
    wseen,              \* entry read by the look-up of the worker
    registry,           \* cm.registry
    closer,             \* where cm.Close is
    toClose,            \* controls cm.Close still has to remove and close
    closing, cseen,     \* the one it is at, and the entry its look-up read
    pool,               \* work connections buffered in ctl.workConnCh
    poolClosed,         \* close(ctl.workConnCh) has happened
    work,               \* where the handler of a work connection is
    workRun,            \* the run id in its NewWorkConn message
    workSeen,           \* entry read by the look-up of its handler
    workCtl             \* the control its handler got from GetByID

mgrVars   == <<closed, ctlsByRunID, runMu, registryOnline, registryControlID, nextControlID>>
ctlVars   == <<run, raw, state, controlID, activated, handoffBarrier, connOpen>>
loginVars == <<login, seen>>
wkVars    == <<worker, wseen>>
closeVars == <<closer, toClose, closing, cseen>>
poolVars  == <<pool, poolClosed, work, workRun, workSeen, workCtl>>
vars == <<mgrVars, ctlVars, loginVars, wkVars, registry, closeVars, poolVars>>

LoginSteps ==
    {"idle", "add", "addLock", "replaced", "handoff", "activate", "activateLock", "complete",
     "completeLock", "writing", "remove", "removeLock", "close", "done"}
WorkerSteps == {"none", "run", "drain", "release", "remove", "removeLock", "finish", "exit"}
WorkSteps   == {"idle", "lookup", "lookupLock", "admit", "admitLock", "pooled", "used", "closed"}
CloserSteps == {"idle", "next", "removeLock", "close"}
States      == {"none", "Created", "Pending", "Running", "Closing", "Closed"}
CtlOrNone   == Controls \cup {None}

TypeOK ==
    /\ closed \in BOOLEAN
    /\ ctlsByRunID \in [RunIDs -> CtlOrNone]
    /\ runMu \in [Controls -> CtlOrNone]
    /\ registryOnline \in [Controls -> BOOLEAN]
    /\ registryControlID \in [Controls -> Nat]
    /\ nextControlID \in Nat
    /\ run \in [Controls -> RunIDs \cup {NoID}]
    /\ raw \in [Controls -> ClientIDs \cup {NoID}]
    /\ state \in [Controls -> States]
    /\ controlID \in [Controls -> Nat]
    /\ activated \in [Controls -> BOOLEAN]
    /\ handoffBarrier \in [Controls -> CtlOrNone]
    /\ connOpen \in [Controls -> BOOLEAN]
    /\ login \in [Controls -> LoginSteps]
    /\ worker \in [Controls -> WorkerSteps]
    /\ seen \in [Controls -> CtlOrNone]
    /\ wseen \in [Controls -> CtlOrNone]
    /\ registry \in Registry
    /\ closer \in CloserSteps
    /\ toClose \in SUBSET Controls
    /\ closing \in CtlOrNone
    /\ cseen \in CtlOrNone
    /\ pool \in [Controls -> SUBSET WorkConns]
    /\ poolClosed \in [Controls -> BOOLEAN]
    /\ work \in [WorkConns -> WorkSteps]
    /\ workRun \in [WorkConns -> RunIDs \cup {NoID}]
    /\ workSeen \in [WorkConns -> CtlOrNone]
    /\ workCtl \in [WorkConns -> CtlOrNone]

Init ==
    /\ closed = FALSE
    /\ ctlsByRunID = [r \in RunIDs |-> None]
    /\ runMu = [c \in Controls |-> None]
    /\ registryOnline = [c \in Controls |-> FALSE]
    /\ registryControlID = [c \in Controls |-> 0]
    /\ nextControlID = 0
    /\ run = [c \in Controls |-> NoID]
    /\ raw = [c \in Controls |-> NoID]
    /\ state = [c \in Controls |-> "none"]
    /\ controlID = [c \in Controls |-> 0]
    /\ activated = [c \in Controls |-> FALSE]
    /\ handoffBarrier = [c \in Controls |-> None]
    /\ connOpen = [c \in Controls |-> FALSE]
    /\ login = [c \in Controls |-> "idle"]
    /\ worker = [c \in Controls |-> "none"]
    /\ seen = [c \in Controls |-> None]
    /\ wseen = [c \in Controls |-> None]
    /\ registry = NewClientRegistry
    /\ closer = "idle"
    /\ toClose = {}
    /\ closing = None
    /\ cseen = None
    /\ pool = [c \in Controls |-> {}]
    /\ poolClosed = [c \in Controls |-> FALSE]
    /\ work = [w \in WorkConns |-> "idle"]
    /\ workRun = [w \in WorkConns |-> NoID]
    /\ workSeen = [w \in WorkConns |-> None]
    /\ workCtl = [w \in WorkConns |-> None]
-----------------------------------------------------------------------------
(* The run gate. *)

\* completeLogin is the only operation that holds a gate across a blocking
\* call (the write of LoginResp); it holds ctl.lifecycleMu as well.
GateHeld(gate) == \E c \in Controls : login[c] = "writing" /\ runMu[c] = gate

\* Mutant: a closed manager finds no entry, whoever asks.
FoundWhileOpen(r, allowClosed) == ctlsByRunID[r] # None /\ ~closed

\* First half of lockCurrentRun: there is an entry for the run.
Found(r, allowClosed) == ctlsByRunID[r] # None /\ (allowClosed \/ ~closed)

\* Second half, once the gate of the entry read has been taken: the entry that
\* is current now exists and still uses that gate.
Revalidated(r, entry, allowClosed) ==
    /\ Found(r, allowClosed)
    /\ runMu[ctlsByRunID[r]] = runMu[entry]

\* The entry that is current now is c's own.
Owns(c, entry, allowClosed) ==
    /\ Revalidated(run[c], entry, allowClosed)
    /\ ctlsByRunID[run[c]] = c

-----------------------------------------------------------------------------
(* Operations of a control. *)

\* finishLocked closes doneCh and sets the state in one critical section.
Done(c) == state[c] = "Closed"

\* Close, and markReplaced, end a control that has no worker at once; a running
\* control is ended by its worker.
StateAfterClose(s) ==
    CASE s \in {"Created", "Pending"} -> "Closed"
      [] s = "Running" -> "Closing"
      [] OTHER -> s

\* Mutant: a pending control gives its own doneCh, not the barrier it inherited.
BarrierOfPredecessor(c) == IF state[c] = "Created" THEN None ELSE c

\* The channel markReplaced returns: a pending control passes on the barrier it
\* inherited, a control with a worker gives its own doneCh.
BarrierOf(c) ==
    CASE state[c] = "Created" -> None
      [] state[c] = "Pending" -> handoffBarrier[c]
      [] OTHER -> c

CloseControl(c) ==
    /\ state' = [state EXCEPT ![c] = StateAfterClose(@)]
    /\ connOpen' = [connOpen EXCEPT ![c] = FALSE]
    /\ UNCHANGED <<run, raw, controlID, activated, handoffBarrier>>

\* Mutant: Remove asks whether this control was activated, not whether its entry
\* is online.
RemoveEntryOfActivated(c) ==
    /\ ctlsByRunID' = [ctlsByRunID EXCEPT ![run[c]] = None]
    /\ registry' = IF activated[c]
                   THEN MarkedOffline(registry, run[c], registryControlID[c])
                   ELSE registry
    /\ UNCHANGED <<closed, runMu, registryOnline, registryControlID, nextControlID>>

\* The part of Remove done under the gate and cm.mu.
RemoveEntry(c) ==
    /\ ctlsByRunID' = [ctlsByRunID EXCEPT ![run[c]] = None]
    /\ registry' = IF registryOnline[c]
                   THEN MarkedOffline(registry, run[c], registryControlID[c])
                   ELSE registry
    /\ UNCHANGED <<closed, runMu, registryOnline, registryControlID, nextControlID>>

-----------------------------------------------------------------------------
(* The login handler: handleConnection, RegisterControl, completeControlLogin. *)

\* A Login message passes the plugin, the wire protocol checks and
\* authentication, and NewControl makes a control for it.
NewControl(c, r, id) ==
    /\ login[c] = "idle"
    /\ login' = [login EXCEPT ![c] = "add"]
    /\ run' = [run EXCEPT ![c] = r]
    /\ raw' = [raw EXCEPT ![c] = id]
    /\ state' = [state EXCEPT ![c] = "Created"]
    /\ connOpen' = [connOpen EXCEPT ![c] = TRUE]
    /\ UNCHANGED <<mgrVars, controlID, activated, handoffBarrier, seen, wkVars,
                   registry, closeVars, poolVars>>

\* One of those checks fails: there is no control, the connection is closed.
RejectLogin(c) ==
    /\ login[c] = "idle"
    /\ login' = [login EXCEPT ![c] = "done"]
    /\ UNCHANGED <<mgrVars, ctlVars, seen, wkVars, registry, closeVars, poolVars>>

AddLookup(c) ==
    /\ login[c] = "add"
    /\ login' = [login EXCEPT ![c] = "addLock"]
    /\ seen' = [seen EXCEPT ![c] = ctlsByRunID[run[c]]]
    /\ UNCHANGED <<mgrVars, ctlVars, wkVars, registry, closeVars, poolVars>>

\* Add with the gate of the old entry and cm.mu held: the manager is closed, or
\* the entry changed since the look-up.
AddFails(c) ==
    /\ login[c] = "addLock"
    /\ seen[c] # None => ~GateHeld(runMu[seen[c]])
    /\ \/ /\ closed
          /\ login' = [login EXCEPT ![c] = "remove"]
       \/ /\ ~closed
          /\ ctlsByRunID[run[c]] # seen[c]
          /\ login' = [login EXCEPT ![c] = "add"]
    /\ seen' = [seen EXCEPT ![c] = None]
    /\ UNCHANGED <<mgrVars, ctlVars, wkVars, registry, closeVars, poolVars>>

\* Add installs c, ends or marks its predecessor and inherits from it the gate,
\* the barrier and the registry bookkeeping.
Add(c) ==
    LET old == seen[c] IN
    /\ login[c] = "addLock"
    /\ ~closed
    /\ ctlsByRunID[run[c]] = old
    /\ nextControlID' = nextControlID + 1
    /\ controlID' = [controlID EXCEPT ![c] = nextControlID + 1]
    /\ ctlsByRunID' = [ctlsByRunID EXCEPT ![run[c]] = c]
    /\ \/ /\ old = None
          /\ runMu' = [runMu EXCEPT ![c] = c]
          /\ state' = [state EXCEPT ![c] = "Pending"]
          /\ login' = [login EXCEPT ![c] = "handoff"]
          /\ UNCHANGED <<handoffBarrier, registryOnline, registryControlID>>
       \/ /\ old # None
          /\ ~GateHeld(runMu[old])
          /\ runMu' = [runMu EXCEPT ![c] = runMu[old]]
          /\ state' = [state EXCEPT ![c] = "Pending", ![old] = StateAfterClose(@)]
          /\ handoffBarrier' = [handoffBarrier EXCEPT ![c] = BarrierOf(old)]
          /\ registryOnline' = [registryOnline EXCEPT ![c] = registryOnline[old]]
          /\ registryControlID' = [registryControlID EXCEPT ![c] = registryControlID[old]]
          /\ login' = [login EXCEPT ![c] = "replaced"]
    /\ UNCHANGED <<closed, run, raw, activated, connOpen, seen, wkVars, registry,
                   closeVars, poolVars>>

\* Mutant: the connection of the predecessor is left open.
ReplacedQuietly(c) ==
    /\ login[c] = "replaced"
    /\ login' = [login EXCEPT ![c] = "handoff"]
    /\ UNCHANGED <<mgrVars, ctlVars, seen, wkVars, registry, closeVars, poolVars>>

\* oldCtl.Replaced(ctl), after the locks are released: the connection of the
\* predecessor is interrupted.
Replaced(c) ==
    /\ login[c] = "replaced"
    /\ connOpen' = [connOpen EXCEPT ![seen[c]] = FALSE]
    /\ login' = [login EXCEPT ![c] = "handoff"]
    /\ UNCHANGED <<mgrVars, run, raw, state, controlID, activated, handoffBarrier, seen,
                   wkVars, registry, closeVars, poolVars>>

WaitForHandoff(c) ==
    /\ login[c] = "handoff"
    /\ handoffBarrier[c] # None => Done(handoffBarrier[c])
    /\ login' = [login EXCEPT ![c] = "activate"]
    /\ seen' = [seen EXCEPT ![c] = None]
    /\ UNCHANGED <<mgrVars, ctlVars, wkVars, registry, closeVars, poolVars>>

\* The look-up of Activate, completeLogin and Remove.
LoginLookup(c) ==
    /\ \/ /\ login[c] = "activate"
          /\ login' = [login EXCEPT ![c] =
                         IF Found(run[c], FALSE) THEN "activateLock" ELSE "remove"]
       \/ /\ login[c] = "complete"
          /\ login' = [login EXCEPT ![c] =
                         IF Found(run[c], FALSE) THEN "completeLock" ELSE "remove"]
       \/ /\ login[c] = "remove"
          /\ login' = [login EXCEPT ![c] =
                         IF Found(run[c], TRUE) THEN "removeLock" ELSE "close"]
    /\ seen' = [seen EXCEPT ![c] = ctlsByRunID[run[c]]]
    /\ UNCHANGED <<mgrVars, ctlVars, wkVars, registry, closeVars, poolVars>>

Activate(c) ==
    /\ login[c] = "activateLock"
    /\ ~GateHeld(runMu[seen[c]])
    /\ seen' = [seen EXCEPT ![c] = None]
    /\ IF /\ Owns(c, seen[c], FALSE)
          /\ state[c] = "Pending"
          /\ ~Conflict(registry, raw[c], run[c])
       THEN /\ registry' = Registered(registry, raw[c], run[c], controlID[c])
            /\ registryOnline' = [registryOnline EXCEPT ![c] = TRUE]
            /\ registryControlID' = [registryControlID EXCEPT ![c] = controlID[c]]
            /\ activated' = [activated EXCEPT ![c] = TRUE]
            /\ login' = [login EXCEPT ![c] = "complete"]
       ELSE /\ login' = [login EXCEPT ![c] = "remove"]
            /\ UNCHANGED <<registry, registryOnline, registryControlID, activated>>
    /\ UNCHANGED <<closed, ctlsByRunID, runMu, nextControlID, run, raw, state, controlID,
                   handoffBarrier, connOpen, wkVars, closeVars, poolVars>>

\* completeLogin takes the gate and starts to write the successful LoginResp.
CompleteLogin(c) ==
    /\ login[c] = "completeLock"
    /\ ~GateHeld(runMu[seen[c]])
    /\ seen' = [seen EXCEPT ![c] = None]
    /\ login' = [login EXCEPT ![c] =
                   IF Owns(c, seen[c], FALSE) /\ state[c] = "Pending" /\ activated[c]
                   THEN "writing" ELSE "remove"]
    /\ UNCHANGED <<mgrVars, ctlVars, wkVars, registry, closeVars, poolVars>>

\* The write returns.  On success startLocked starts the worker; either way the
\* gate is released.
LoginRespWritten(c) ==
    /\ login[c] = "writing"
    /\ \/ /\ state' = [state EXCEPT ![c] = "Running"]
          /\ worker' = [worker EXCEPT ![c] = "run"]
          /\ login' = [login EXCEPT ![c] = "done"]
       \/ /\ login' = [login EXCEPT ![c] = "remove"]
          /\ UNCHANGED <<state, worker>>
    /\ UNCHANGED <<mgrVars, run, raw, controlID, activated, handoffBarrier, connOpen, seen,
                   wseen, registry, closeVars, poolVars>>

\* The error path of handleConnection: Remove, then Close.
LoginRemove(c) ==
    /\ login[c] = "removeLock"
    /\ ~GateHeld(runMu[seen[c]])
    /\ IF Owns(c, seen[c], TRUE) THEN RemoveEntry(c) ELSE UNCHANGED <<mgrVars, registry>>
    /\ login' = [login EXCEPT ![c] = "close"]
    /\ seen' = [seen EXCEPT ![c] = None]
    /\ UNCHANGED <<ctlVars, wkVars, closeVars, poolVars>>

LoginClose(c) ==
    /\ login[c] = "close"
    /\ CloseControl(c)
    /\ login' = [login EXCEPT ![c] = "done"]
    /\ UNCHANGED <<mgrVars, seen, wkVars, registry, closeVars, poolVars>>
-----------------------------------------------------------------------------
(* The control connection and the worker of a control. *)

\* The peer goes away or the network fails.  Nothing reads a control connection
\* before the dispatcher runs, and the outcome of the one write before that is
\* open in LoginRespWritten, so an earlier failure shows no sooner than this.
ConnBreaks(c) ==
    /\ connOpen[c]
    /\ worker[c] = "run"
    /\ connOpen' = [connOpen EXCEPT ![c] = FALSE]
    /\ UNCHANGED <<mgrVars, run, raw, state, controlID, activated, handoffBarrier,
                   loginVars, wkVars, registry, closeVars, poolVars>>

\* heartbeatWorker closes the control when pings stop; it runs until doneCh is
\* closed.
HeartbeatTimeout(c) ==
    /\ worker[c] \notin {"none", "exit"}
    /\ state[c] = "Running" \/ connOpen[c]
    /\ CloseControl(c)
    /\ UNCHANGED <<mgrVars, loginVars, wkVars, registry, closeVars, poolVars>>

\* The dispatcher is done: its read loop met the end of the connection.
WorkerStops(c) ==
    /\ worker[c] = "run"
    /\ ~connOpen[c]
    /\ worker' = [worker EXCEPT ![c] = "drain"]
    /\ state' = [state EXCEPT ![c] = IF @ = "Running" THEN "Closing" ELSE @]
    /\ UNCHANGED <<mgrVars, run, raw, controlID, activated, handoffBarrier, connOpen,
                   loginVars, wseen, registry, closeVars, poolVars>>

\* Mutant: the buffered connections are forgotten instead of closed.
WorkerDropsPool(c) ==
    /\ worker[c] = "drain"
    /\ worker' = [worker EXCEPT ![c] = "release"]
    /\ poolClosed' = [poolClosed EXCEPT ![c] = TRUE]
    /\ pool' = [pool EXCEPT ![c] = {}]
    /\ UNCHANGED <<mgrVars, ctlVars, loginVars, wseen, registry, closeVars, work, workRun,
                   workSeen, workCtl>>

\* Under ctl.mu: close workConnCh, close what was buffered in it.
WorkerDrains(c) ==
    /\ worker[c] = "drain"
    /\ worker' = [worker EXCEPT ![c] = "release"]
    /\ poolClosed' = [poolClosed EXCEPT ![c] = TRUE]
    /\ pool' = [pool EXCEPT ![c] = {}]
    /\ work' = [w \in WorkConns |-> IF w \in pool[c] THEN "closed" ELSE work[w]]
    /\ UNCHANGED <<mgrVars, ctlVars, loginVars, wseen, registry, closeVars, workRun,
                   workSeen, workCtl>>

\* closeProxy for every proxy of the control: ports, listeners and names are
\* free again.
WorkerReleases(c) ==
    /\ worker[c] = "release"
    /\ worker' = [worker EXCEPT ![c] = "remove"]
    /\ UNCHANGED <<mgrVars, ctlVars, loginVars, wseen, registry, closeVars, poolVars>>

WorkerLookup(c) ==
    /\ worker[c] = "remove"
    /\ worker' = [worker EXCEPT ![c] = IF Found(run[c], TRUE) THEN "removeLock" ELSE "finish"]
    /\ wseen' = [wseen EXCEPT ![c] = ctlsByRunID[run[c]]]
    /\ UNCHANGED <<mgrVars, ctlVars, loginVars, registry, closeVars, poolVars>>

WorkerRemove(c) ==
    /\ worker[c] = "removeLock"
    /\ ~GateHeld(runMu[wseen[c]])
    /\ IF Owns(c, wseen[c], TRUE) THEN RemoveEntry(c) ELSE UNCHANGED <<mgrVars, registry>>
    /\ worker' = [worker EXCEPT ![c] = "finish"]
    /\ wseen' = [wseen EXCEPT ![c] = None]
    /\ UNCHANGED <<ctlVars, loginVars, closeVars, poolVars>>

WorkerFinishes(c) ==
    /\ worker[c] = "finish"
    /\ worker' = [worker EXCEPT ![c] = "exit"]
    /\ state' = [state EXCEPT ![c] = "Closed"]
    /\ UNCHANGED <<mgrVars, run, raw, controlID, activated, handoffBarrier, connOpen,
                   loginVars, wseen, registry, closeVars, poolVars>>

-----------------------------------------------------------------------------
(* cm.Close. *)

\* Mutant: empty entries are collected too.
CloseManagerCollectsNil ==
    /\ MayShutDown
    /\ closer = "idle"
    /\ closer' = "next"
    /\ closed' = TRUE
    /\ toClose' = {ctlsByRunID[r] : r \in RunIDs}
    /\ UNCHANGED <<ctlsByRunID, runMu, registryOnline, registryControlID, nextControlID,
                   ctlVars, loginVars, wkVars, registry, closing, cseen, poolVars>>

\* cm.Close marks the manager closed and collects the controls that are current.
CloseManager ==
    /\ MayShutDown
    /\ closer = "idle"
    /\ closer' = "next"
    /\ closed' = TRUE
    /\ toClose' = {ctlsByRunID[r] : r \in RunIDs} \ {None}
    /\ UNCHANGED <<ctlsByRunID, runMu, registryOnline, registryControlID, nextControlID,
                   ctlVars, loginVars, wkVars, registry, closing, cseen, poolVars>>

CloserLookup(c) ==
    /\ closer = "next"
    /\ c \in toClose
    /\ toClose' = toClose \ {c}
    /\ closing' = c
    /\ cseen' = ctlsByRunID[run[c]]
    /\ closer' = IF Found(run[c], TRUE) THEN "removeLock" ELSE "close"
    /\ UNCHANGED <<mgrVars, ctlVars, loginVars, wkVars, registry, poolVars>>

CloserRemove ==
    /\ closer = "removeLock"
    /\ ~GateHeld(runMu[cseen])
    /\ IF Owns(closing, cseen, TRUE) THEN RemoveEntry(closing)
                                     ELSE UNCHANGED <<mgrVars, registry>>
    /\ closer' = "close"
    /\ cseen' = None
    /\ UNCHANGED <<ctlVars, loginVars, wkVars, toClose, closing, poolVars>>

\* ctl.Close waits for ctl.lifecycleMu, which a login that is writing holds.
CloserCloses ==
    /\ closer = "close"
    /\ login[closing] # "writing"
    /\ CloseControl(closing)
    /\ closer' = "next"
    /\ closing' = None
    /\ cseen' = None
    /\ UNCHANGED <<mgrVars, loginVars, wkVars, registry, toClose, poolVars>>

-----------------------------------------------------------------------------
(* Work connections: RegisterWorkConn of the service and of the manager, and   *)
(* GetWorkConn on the side of the proxies.                                     *)

WorkArrives(w, r) ==
    /\ work[w] = "idle"
    /\ work' = [work EXCEPT ![w] = "lookup"]
    /\ workRun' = [workRun EXCEPT ![w] = r]
    /\ UNCHANGED <<mgrVars, ctlVars, loginVars, wkVars, registry, closeVars, pool,
                   poolClosed, workSeen, workCtl>>

\* The look-up of GetByID ("lookup") and of RegisterWorkConn ("admit").
WorkLookup(w) ==
    /\ work[w] \in {"lookup", "admit"}
    /\ LET held == IF work[w] = "lookup" THEN "lookupLock" ELSE "admitLock"
       IN  work' = [work EXCEPT ![w] = IF Found(workRun[w], FALSE) THEN held ELSE "closed"]
    /\ workSeen' = [workSeen EXCEPT ![w] = ctlsByRunID[workRun[w]]]
    /\ UNCHANGED <<mgrVars, ctlVars, loginVars, wkVars, registry, closeVars, pool,
                   poolClosed, workRun, workCtl>>

\* GetByID returns the current control if it runs.  The wire protocol check, the
\* plugin and the authentication that follow may also refuse the connection.
GetByID(w) ==
    /\ work[w] = "lookupLock"
    /\ ~GateHeld(runMu[workSeen[w]])
    /\ workSeen' = [workSeen EXCEPT ![w] = None]
    /\ \/ /\ Revalidated(workRun[w], workSeen[w], FALSE)
          /\ state[ctlsByRunID[workRun[w]]] = "Running"
          /\ workCtl' = [workCtl EXCEPT ![w] = ctlsByRunID[workRun[w]]]
          /\ work' = [work EXCEPT ![w] = "admit"]
       \/ /\ work' = [work EXCEPT ![w] = "closed"]
          /\ UNCHANGED workCtl
    /\ UNCHANGED <<mgrVars, ctlVars, loginVars, wkVars, registry, closeVars, pool,
                   poolClosed, workRun>>

\* The connection goes into the pool only if the control GetByID returned is
\* still current and running, and the pool is not full.
RegisterWorkConn(w) ==
    LET c == workCtl[w] IN
    /\ work[w] = "admitLock"
    /\ ~GateHeld(runMu[workSeen[w]])
    /\ workSeen' = [workSeen EXCEPT ![w] = None]
    /\ IF /\ Owns(c, workSeen[w], FALSE)
          /\ state[c] = "Running"
          /\ Cardinality(pool[c]) < PoolCapacity
       THEN /\ pool' = [pool EXCEPT ![c] = @ \cup {w}]
            /\ work' = [work EXCEPT ![w] = "pooled"]
       ELSE /\ work' = [work EXCEPT ![w] = "closed"]
            /\ UNCHANGED pool
    /\ UNCHANGED <<mgrVars, ctlVars, loginVars, wkVars, registry, closeVars, poolClosed,
                   workRun, workCtl>>

\* GetWorkConn receives from workConnCh on behalf of a user connection.
GetWorkConn(c, w) ==
    /\ w \in pool[c]
    /\ pool' = [pool EXCEPT ![c] = @ \ {w}]
    /\ work' = [work EXCEPT ![w] = "used"]
    /\ UNCHANGED <<mgrVars, ctlVars, loginVars, wkVars, registry, closeVars, poolClosed,
                   workRun, workSeen, workCtl>>

-----------------------------------------------------------------------------
LoginNext(c) ==
    \/ AddLookup(c) \/ AddFails(c) \/ Add(c) \/ Replaced(c) \/ WaitForHandoff(c)
    \/ LoginLookup(c) \/ Activate(c) \/ CompleteLogin(c) \/ LoginRespWritten(c)
    \/ LoginRemove(c) \/ LoginClose(c)

WorkerNext(c) ==
    \/ WorkerStops(c) \/ WorkerDrains(c) \/ WorkerReleases(c) \/ WorkerLookup(c)
    \/ WorkerRemove(c) \/ WorkerFinishes(c)

CloserNext == (\E c \in Controls : CloserLookup(c)) \/ CloserRemove \/ CloserCloses

WorkNext(w) == WorkLookup(w) \/ GetByID(w) \/ RegisterWorkConn(w)

Environment ==
    \/ \E c \in Controls : \/ \E m \in Logins : NewControl(c, m[1], m[2])
                           \/ RejectLogin(c)
                           \/ ConnBreaks(c)
                           \/ HeartbeatTimeout(c)
    \/ \E w \in WorkConns : \/ \E r \in RunIDs : WorkArrives(w, r)
                            \/ \E c \in Controls : GetWorkConn(c, w)
    \/ CloseManager

Next ==
    \/ \E c \in Controls : LoginNext(c) \/ WorkerNext(c)
    \/ CloserNext
    \/ \E w \in WorkConns : WorkNext(w)
    \/ Environment

Spec == Init /\ [][Next]_vars

\* The goroutines of the server keep running; clients, the network and the
\* operator owe nothing.
Fairness ==
    /\ \A c \in Controls : WF_vars(LoginNext(c)) /\ WF_vars(WorkerNext(c))
    /\ WF_vars(CloserNext)
    /\ \A w \in WorkConns : WF_vars(WorkNext(w))

FairSpec == Spec /\ Fairness

-----------------------------------------------------------------------------
(* Properties. *)

\* The worker of d still holds what d's session acquired: proxies, ports, its
\* registry entry.
Live(d) == worker[d] \in {"run", "drain", "release", "remove", "removeLock"}

\* Two generations of one client never hold resources at the same time: a
\* successor starts its worker only after the worker of every predecessor has
\* closed its proxies and left the manager (Add, markReplaced, WaitForHandoff,
\* worker).
HandoffExclusive ==
    \A c, d \in Controls : Live(c) /\ Live(d) /\ run[c] = run[d] => c = d

\* A client the registry shows as online has a current control whose
\* bookkeeping can take it offline again: an entry is never left online by a
\* control that was replaced, failed its login or was removed at shutdown.
NoGhostOnline ==
    \A k \in Keys :
        LET info == registry.clients[k] IN
        info.online =>
            LET c == ctlsByRunID[info.runID] IN
            /\ c # None
            /\ registryOnline[c]
            /\ registryControlID[c] = info.controlID

\* A current control that was put online is still shown online, under the
\* generation its bookkeeping names.  The exception is a key that is the run id of
\* one client and the client id of another: a client without a client id takes its
\* key over from whoever has it.
CurrentIsOnline ==
    \A r \in RunIDs :
        LET c == ctlsByRunID[r] IN
        /\ c # None
        /\ registryOnline[c]
        /\ \A d \in Controls : run[d] = r => ClientKey(raw[d], r) \notin RunIDs \cap ClientIDs
        => \E k \in Keys : /\ registry.clients[k].online
                           /\ registry.clients[k].runID = r
                           /\ registry.clients[k].controlID = registryControlID[c]

\* runIndex and clients always describe the same ownership.
RegistryIndexed ==
    /\ \A r \in RunIDs : LET k == registry.runIndex[r] IN
           k # NoID => registry.clients[k].online /\ registry.clients[k].runID = r
    /\ \A k \in Keys : LET info == registry.clients[k] IN
           info.online => info.runID \in RunIDs /\ registry.runIndex[info.runID] = k

\* Two clients never run under one explicit client id, unless it is also the run
\* id of a client.
UniqueClientID ==
    \A c, d \in Controls :
        /\ state[c] = "Running" /\ state[d] = "Running"
        /\ raw[c] = raw[d] /\ raw[c] \notin RunIDs \cup {NoID}
        => c = d

\* A work connection given to the pool is never lost: until a proxy takes it, it
\* is in the channel of exactly one control, whose worker has still to drain that
\* channel, and nothing is sent on a channel the worker has closed
\* (RegisterWorkConn sees Running under lifecycleMu; the worker leaves Running
\* before it closes the channel).
PoolSound ==
    /\ \A w \in WorkConns : work[w] = "pooled" => \E c \in Controls : w \in pool[c]
    /\ \A c, d \in Controls : c # d => pool[c] \cap pool[d] = {}
    /\ \A c \in Controls :
           /\ pool[c] # {} => worker[c] \in {"run", "drain"}
           /\ state[c] = "Running" => ~poolClosed[c]

\* A login handler that reached the manager comes to an end: no chain of
\* replaced generations leaves one waiting for a barrier forever.
LoginEnds == \A c \in Controls : (login[c] = "add") ~> (login[c] = "done")

\* After cm.Close every control ends, no entry and no online client remain.
ShutdownDrains ==
    (closer = "next") ~> [](/\ \A r \in RunIDs : ctlsByRunID[r] = None
                            /\ \A k \in Keys : ~registry.clients[k].online)
=============================================================================
