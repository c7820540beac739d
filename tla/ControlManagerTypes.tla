------------------------ MODULE ControlManagerTypes ------------------------
(***************************************************************************)
(* The invariant of ControlManager, the proof that its variables keep      *)
(* their types, and what the other proofs use of the types.                *)
(***************************************************************************)
EXTENDS ControlManager, TLAPS

(* The inductive invariant, one conjunct per idea. *)

\* How the thread of the login, the thread of the worker and ctl.state go
\* together.
LinkedAt(c) ==
    /\ login[c] = "idle" => state[c] = "none"
    /\ login[c] \in {"add", "addLock"} => state[c] = "Created"
    /\ login[c] \notin {"idle", "done"} => run[c] \in RunIDs
    /\ login[c] # "done" => worker[c] = "none"
    /\ state[c] \in {"Pending", "Created"} => worker[c] = "none" /\ login[c] # "done"
    /\ state[c] = "Created" =>
           login[c] \in {"add", "addLock", "remove", "removeLock", "close"}
    /\ worker[c] \notin {"none", "exit"} =>
           /\ state[c] \in {"Running", "Closing"}
           /\ login[c] = "done"
           /\ run[c] \in RunIDs
    /\ state[c] = "Running" => worker[c] = "run"
    /\ login[c] \in {"replaced", "activateLock", "completeLock", "removeLock"} =>
           seen[c] # None
    /\ worker[c] = "removeLock" => wseen[c] # None

Linked == \A c \in Controls : LinkedAt(c)

\* The control of a current entry was admitted under that run id, has not been
\* ended, and has a login handler that will still remove it, or a worker that will.
Current ==
    \A r \in RunIDs :
        LET c == ctlsByRunID[r] IN
        c # None => /\ run[c] = r
                    /\ login[c] \notin {"idle", "add", "addLock", "close"}
                    /\ state[c] = "Pending" \/ Live(c)

\* A control never becomes current twice, so an entry that a look-up read for a
\* control that is still current is the control's own.
OwnEntrySeen ==
    /\ \A c \in Controls :
           run[c] \in RunIDs /\ ctlsByRunID[run[c]] = c =>
               /\ login[c] \in {"activateLock", "completeLock", "removeLock"} => seen[c] = c
               /\ worker[c] = "removeLock" => wseen[c] = c
    /\ closer = "removeLock" /\ ctlsByRunID[run[closing]] = closing => cseen = closing

\* cm.Close visits controls that were admitted, and removes before it closes.
Closer ==
    /\ closer # "idle" => closed
    /\ \A c \in toClose : login[c] \notin {"idle", "add", "addLock"} /\ run[c] \in RunIDs
    /\ closer \in {"removeLock", "close"} =>
           /\ closing \in Controls
           /\ login[closing] \notin {"idle", "add", "addLock"}
           /\ run[closing] \in RunIDs
    /\ closer = "removeLock" => cseen # None
    /\ closer = "close" => ctlsByRunID[run[closing]] # closing

\* While LoginResp is written the control stays pending and current.
WritingIsCurrent ==
    \A c \in Controls : login[c] = "writing" => /\ ctlsByRunID[run[c]] = c
                                                /\ state[c] = "Pending"

\* While a worker is live, its run is in the hands of its own control, of a
\* successor that waits for exactly this worker, or of nobody after cm.Close.
BarrierCovers ==
    \A d \in Controls :
        Live(d) =>
            LET c == ctlsByRunID[run[d]] IN
            \/ c = d
            \/ c = None /\ closed
            \/ /\ c # None
               /\ state[c] = "Pending"
               /\ handoffBarrier[c] = d
               /\ login[c] \in {"replaced", "handoff"}

\* What the handler of a work connection holds at each of its steps.
WorkLinked ==
    \A w \in WorkConns :
        /\ work[w] # "idle" => workRun[w] \in RunIDs
        /\ work[w] \in {"admit", "admitLock"} => workCtl[w] # None

\* The channel of a control holds pooled connections only, and is closed by the
\* worker's drain step.
PoolInv ==
    /\ \A c \in Controls : \A w \in pool[c] : work[w] = "pooled"
    /\ \A c \in Controls : poolClosed[c] => worker[c] \notin {"none", "run", "drain"}
    /\ PoolSound

\* The part of the invariant that speaks of controls.
ControlInv ==
    /\ Linked
    /\ Current
    /\ OwnEntrySeen
    /\ Closer
    /\ WritingIsCurrent
    /\ BarrierCovers
    /\ HandoffExclusive

HandoffInv == TypeOK /\ ControlInv /\ WorkLinked /\ PoolInv

-----------------------------------------------------------------------------
(* The operations of the registry return registries. *)

\* setClientOffline returns a client record.
LEMMA WithoutOwnerType ==
    ASSUME NEW info \in ClientInfo
    PROVE  WithoutOwner(info) \in ClientInfo
BY Zenon DEF WithoutOwner, ClientInfo, NoClient

\* RegisterWithControlID keeps the shape of the two maps.
LEMMA RegisteredType ==
    ASSUME NEW reg \in Registry, NEW id \in ClientIDs \cup {NoID}, NEW r \in RunIDs,
           NEW n \in Nat
    PROVE  Registered(reg, id, r, n) \in Registry
<1> DEFINE key  == ClientKey(id, r)
           info == [rawClientID |-> id, runID |-> r, controlID |-> n, online |-> TRUE]
<1>1. key \in Keys
  BY DEF ClientKey, Keys
<1>2. info \in ClientInfo
  BY DEF ClientInfo
<1>3. \A k \in Keys : reg.clients[k] \in ClientInfo /\ WithoutOwner(reg.clients[k]) \in ClientInfo
  BY WithoutOwnerType DEF Registry
<1>4. \A s \in RunIDs : reg.runIndex[s] \in Keys \cup {NoID}
  BY DEF Registry
<1> HIDE DEF key, info
<1> QED
  BY <1>1, <1>2, <1>3, <1>4 DEF Registered, Registry, key, info

\* markOfflineByRunID keeps the shape of the two maps.
LEMMA MarkedOfflineType ==
    ASSUME NEW reg \in Registry, NEW r \in RunIDs, NEW n \in Nat
    PROVE  MarkedOffline(reg, r, n) \in Registry
<1>1. \A k \in Keys : reg.clients[k] \in ClientInfo /\ WithoutOwner(reg.clients[k]) \in ClientInfo
  BY WithoutOwnerType DEF Registry
<1>2. \A s \in RunIDs : reg.runIndex[s] \in Keys \cup {NoID}
  BY DEF Registry
<1> QED
  BY <1>1, <1>2 DEF MarkedOffline, Registry

-----------------------------------------------------------------------------
(* Types. *)

\* The server starts in a state of the declared types.
LEMMA TypeInit == Init => TypeOK
<1>1. NewClientRegistry \in Registry
  BY DEF NewClientRegistry, Registry, ClientInfo, NoClient
<1> SUFFICES ASSUME Init PROVE TypeOK
  OBVIOUS
<1> USE DEF CtlOrNone
<1>2. /\ registryOnline \in [Controls -> BOOLEAN]
      /\ activated \in [Controls -> BOOLEAN]
      /\ connOpen \in [Controls -> BOOLEAN]
      /\ poolClosed \in [Controls -> BOOLEAN]
      /\ closed \in BOOLEAN
  BY Zenon DEF Init
<1>3. /\ ctlsByRunID \in [RunIDs -> CtlOrNone]
      /\ runMu \in [Controls -> CtlOrNone]
      /\ registryControlID \in [Controls -> Nat]
      /\ controlID \in [Controls -> Nat]
      /\ nextControlID \in Nat
      /\ handoffBarrier \in [Controls -> CtlOrNone]
      /\ seen \in [Controls -> CtlOrNone]
      /\ wseen \in [Controls -> CtlOrNone]
  BY DEF Init
<1>4. /\ run \in [Controls -> RunIDs \cup {NoID}]
      /\ raw \in [Controls -> ClientIDs \cup {NoID}]
      /\ state \in [Controls -> States]
      /\ login \in [Controls -> LoginSteps]
      /\ worker \in [Controls -> WorkerSteps]
  BY DEF Init, LoginSteps, WorkerSteps, States
<1>5. /\ closer \in CloserSteps
      /\ toClose \in SUBSET Controls
      /\ closing \in CtlOrNone
      /\ cseen \in CtlOrNone
      /\ pool \in [Controls -> SUBSET WorkConns]
      /\ work \in [WorkConns -> WorkSteps]
      /\ workRun \in [WorkConns -> RunIDs \cup {NoID}]
      /\ workSeen \in [WorkConns -> CtlOrNone]
      /\ workCtl \in [WorkConns -> CtlOrNone]
      /\ registry \in Registry
  BY <1>1 DEF Init, WorkSteps, CloserSteps
<1> QED
  BY <1>2, <1>3, <1>4, <1>5 DEF TypeOK

\* Every step keeps the types.
LEMMA TypeStep ==
    ASSUME TypeOK, Linked, WorkLinked, Closer, [Next]_vars
    PROVE  TypeOK'
<1> USE ControlAssumption DEF CtlOrNone, LoginSteps, WorkerSteps, WorkSteps, CloserSteps,
        States, mgrVars, ctlVars, loginVars, wkVars, closeVars, poolVars
<1>1. ASSUME NEW c \in Controls, NEW m \in Logins, NewControl(c, m[1], m[2])
      PROVE  TypeOK'
  BY <1>1 DEF TypeOK, NewControl
<1>2. ASSUME NEW c \in Controls, RejectLogin(c) PROVE TypeOK'
  BY <1>2 DEF TypeOK, RejectLogin
<1>3. ASSUME NEW c \in Controls, AddLookup(c) PROVE TypeOK'
  BY <1>3 DEF TypeOK, Linked, LinkedAt, AddLookup
<1>4. ASSUME NEW c \in Controls, AddFails(c) PROVE TypeOK'
  BY <1>4 DEF TypeOK, AddFails
<1>5. ASSUME NEW c \in Controls, Add(c) PROVE TypeOK'
  <2>1. \A s \in States : StateAfterClose(s) \in States
    BY DEF StateAfterClose
  <2>2. \A d \in Controls : BarrierOf(d) \in CtlOrNone
    BY DEF BarrierOf, TypeOK
  <2>3. run[c] \in RunIDs /\ seen[c] \in CtlOrNone
    BY <1>5 DEF TypeOK, Linked, LinkedAt, Add
  <2>4. CASE seen[c] = None
    <3>1. /\ nextControlID' \in Nat
          /\ controlID' \in [Controls -> Nat]
          /\ runMu' \in [Controls -> CtlOrNone]
          /\ ctlsByRunID' \in [RunIDs -> CtlOrNone]
      BY <1>5, <2>3, <2>4 DEF TypeOK, Add
    <3>2. state' \in [Controls -> States]
      BY <1>5, <2>4 DEF TypeOK, Add
    <3>3. login' \in [Controls -> LoginSteps]
      BY <1>5, <2>4 DEF TypeOK, Add
    <3> QED
      BY <1>5, <2>4, <3>1, <3>2, <3>3 DEF TypeOK, Add
  <2>5. CASE seen[c] # None
    <3> DEFINE old == seen[c]
    <3>1. old \in Controls
      BY <2>3, <2>5
    <3>2. /\ runMu' \in [Controls -> CtlOrNone]
          /\ registryControlID' \in [Controls -> Nat]
          /\ controlID' \in [Controls -> Nat]
          /\ nextControlID' \in Nat
          /\ ctlsByRunID' \in [RunIDs -> CtlOrNone]
      BY <1>5, <2>3, <2>5, <3>1 DEF TypeOK, Add
    <3>3. state' \in [Controls -> States]
      <4>1. state' = [state EXCEPT ![c] = "Pending", ![old] = StateAfterClose(@)]
        BY <1>5, <2>5 DEF Add
      <4>2. state \in [Controls -> States]
        BY DEF TypeOK
      <4> QED
        BY <2>1, <3>1, <4>1, <4>2
    <3>4. /\ handoffBarrier' \in [Controls -> CtlOrNone]
          /\ registryOnline' \in [Controls -> BOOLEAN]
      <4>1. /\ handoffBarrier' = [handoffBarrier EXCEPT ![c] = BarrierOf(old)]
            /\ registryOnline' = [registryOnline EXCEPT ![c] = registryOnline[old]]
        BY <1>5, <2>5 DEF Add
      <4>2. /\ handoffBarrier \in [Controls -> CtlOrNone]
            /\ registryOnline \in [Controls -> BOOLEAN]
        BY DEF TypeOK
      <4> QED
        BY <2>2, <3>1, <4>1, <4>2
    <3>5. login' \in [Controls -> LoginSteps]
      BY <1>5, <2>5 DEF TypeOK, Add
    <3> QED
      BY <1>5, <3>2, <3>3, <3>4, <3>5 DEF TypeOK, Add
  <2> QED
    BY <2>4, <2>5
<1>6. ASSUME NEW c \in Controls, Replaced(c) PROVE TypeOK'
  BY <1>6, Zenon DEF TypeOK, Replaced
<1>7. ASSUME NEW c \in Controls, WaitForHandoff(c) PROVE TypeOK'
  BY <1>7 DEF TypeOK, WaitForHandoff
<1>8. ASSUME NEW c \in Controls, LoginLookup(c) PROVE TypeOK'
  <2>1. run[c] \in RunIDs
    BY <1>8, Zenon DEF Linked, LinkedAt, LoginLookup
  <2>2. login \in [Controls -> LoginSteps] /\ seen \in [Controls -> CtlOrNone]
    BY DEF TypeOK
  <2>3. ctlsByRunID[run[c]] \in CtlOrNone
    BY <2>1 DEF TypeOK
  <2>4. login' \in [Controls -> LoginSteps]
    BY <1>8, <2>2, Zenon DEF LoginLookup
  <2>5. seen' \in [Controls -> CtlOrNone]
    BY <1>8, <2>2, <2>3 DEF LoginLookup
  <2> QED
    BY <1>8, <2>4, <2>5 DEF TypeOK, LoginLookup
<1>9. ASSUME NEW c \in Controls, Activate(c) PROVE TypeOK'
  <2>1. run[c] \in RunIDs /\ raw[c] \in ClientIDs \cup {NoID} /\ controlID[c] \in Nat
    BY <1>9 DEF TypeOK, Linked, LinkedAt, Activate
  <2>2. Registered(registry, raw[c], run[c], controlID[c]) \in Registry
    BY <2>1, RegisteredType, Zenon DEF TypeOK
  <2>3. /\ registry' \in Registry
        /\ registryOnline' \in [Controls -> BOOLEAN]
        /\ registryControlID' \in [Controls -> Nat]
        /\ activated' \in [Controls -> BOOLEAN]
    BY <1>9, <2>1, <2>2, Zenon DEF TypeOK, Activate
  <2>4. login' \in [Controls -> LoginSteps] /\ seen' \in [Controls -> CtlOrNone]
    BY <1>9, Zenon DEF TypeOK, Activate, LoginSteps, CtlOrNone
  <2> QED
    BY <1>9, <2>3, <2>4 DEF TypeOK, Activate
<1>10. ASSUME NEW c \in Controls, CompleteLogin(c) PROVE TypeOK'
  BY <1>10 DEF TypeOK, CompleteLogin
<1>11. ASSUME NEW c \in Controls, LoginRespWritten(c) PROVE TypeOK'
  <2>1. CASE login'[c] = "done"
    <3>1. state' \in [Controls -> States]
      BY <1>11, <2>1 DEF TypeOK, LoginRespWritten
    <3>2. worker' \in [Controls -> WorkerSteps]
      BY <1>11, <2>1 DEF TypeOK, LoginRespWritten
    <3>3. login' \in [Controls -> LoginSteps]
      BY <1>11, <2>1 DEF TypeOK, LoginRespWritten
    <3> QED
      BY <1>11, <3>1, <3>2, <3>3 DEF TypeOK, LoginRespWritten
  <2>2. CASE login'[c] # "done"
    BY <1>11, <2>2 DEF TypeOK, LoginRespWritten
  <2> QED
    BY <2>1, <2>2
<1>12. ASSUME NEW c \in Controls, run[c] \in RunIDs, RemoveEntry(c)
       PROVE  /\ ctlsByRunID' \in [RunIDs -> CtlOrNone]
              /\ registry' \in Registry
  BY <1>12, MarkedOfflineType DEF TypeOK, RemoveEntry
<1>13. ASSUME NEW c \in Controls, LoginRemove(c) PROVE TypeOK'
  BY <1>12, <1>13, Zenon DEF TypeOK, Linked, LinkedAt, LoginRemove, RemoveEntry
<1>14. ASSUME NEW c \in Controls, LoginClose(c) PROVE TypeOK'
  BY <1>14 DEF TypeOK, LoginClose, CloseControl, StateAfterClose
<1>15. ASSUME NEW c \in Controls, ConnBreaks(c) \/ HeartbeatTimeout(c) PROVE TypeOK'
  <2>1. CASE ConnBreaks(c)
    BY <2>1 DEF TypeOK, ConnBreaks
  <2>2. CASE HeartbeatTimeout(c)
    BY <2>2 DEF TypeOK, HeartbeatTimeout, CloseControl, StateAfterClose
  <2> QED
    BY <1>15, <2>1, <2>2
<1>16. ASSUME NEW c \in Controls, WorkerStops(c) PROVE TypeOK'
  BY <1>16 DEF TypeOK, WorkerStops
<1>17. ASSUME NEW c \in Controls, WorkerDrains(c) PROVE TypeOK'
  BY <1>17 DEF TypeOK, WorkerDrains
<1>18. ASSUME NEW c \in Controls, WorkerReleases(c) PROVE TypeOK'
  BY <1>18 DEF TypeOK, WorkerReleases
<1>19. ASSUME NEW c \in Controls, WorkerLookup(c) PROVE TypeOK'
  BY <1>19 DEF TypeOK, Linked, LinkedAt, WorkerLookup
<1>20. ASSUME NEW c \in Controls, WorkerRemove(c) PROVE TypeOK'
  BY <1>12, <1>20, Zenon DEF TypeOK, Linked, LinkedAt, WorkerRemove, RemoveEntry
<1>21. ASSUME NEW c \in Controls, WorkerFinishes(c) PROVE TypeOK'
  BY <1>21 DEF TypeOK, WorkerFinishes
<1>22. CASE CloseManager
  BY <1>22 DEF TypeOK, CloseManager
<1>23. ASSUME NEW c \in Controls, CloserLookup(c) PROVE TypeOK'
  BY <1>23 DEF TypeOK, Closer, CloserLookup
<1>24. CASE CloserRemove
  BY <1>12, <1>24, Zenon DEF TypeOK, Closer, CloserRemove, RemoveEntry
<1>25. CASE CloserCloses
  BY <1>25, Zenon DEF TypeOK, CloserCloses, CloseControl, StateAfterClose
<1>26. ASSUME NEW w \in WorkConns, NEW r \in RunIDs, WorkArrives(w, r) PROVE TypeOK'
  BY <1>26 DEF TypeOK, WorkArrives
<1>27. ASSUME NEW w \in WorkConns, WorkLookup(w) PROVE TypeOK'
  BY <1>27 DEF TypeOK, WorkLinked, WorkLookup
<1>28. ASSUME NEW w \in WorkConns, GetByID(w) PROVE TypeOK'
  <2>1. workRun[w] \in RunIDs
    BY <1>28 DEF WorkLinked, GetByID
  <2>2. /\ work \in [WorkConns -> WorkSteps]
        /\ workSeen \in [WorkConns -> CtlOrNone]
        /\ workCtl \in [WorkConns -> CtlOrNone]
        /\ ctlsByRunID \in [RunIDs -> CtlOrNone]
    BY DEF TypeOK
  <2>3. /\ work' \in [WorkConns -> WorkSteps]
        /\ workSeen' \in [WorkConns -> CtlOrNone]
        /\ workCtl' \in [WorkConns -> CtlOrNone]
    BY <1>28, <2>1, <2>2, Zenon DEF GetByID
  <2> QED
    BY <1>28, <2>3 DEF TypeOK, GetByID
<1>29. ASSUME NEW w \in WorkConns, RegisterWorkConn(w) PROVE TypeOK'
  <2>1. workCtl[w] \in Controls
    BY <1>29 DEF TypeOK, WorkLinked, RegisterWorkConn
  <2>2. /\ work \in [WorkConns -> WorkSteps]
        /\ workSeen \in [WorkConns -> CtlOrNone]
        /\ pool \in [Controls -> SUBSET WorkConns]
    BY DEF TypeOK
  <2>3. work' \in [WorkConns -> WorkSteps] /\ workSeen' \in [WorkConns -> CtlOrNone]
    BY <1>29, <2>2, Zenon DEF RegisterWorkConn
  <2>4. pool' \in [Controls -> SUBSET WorkConns]
    <3>1. \/ pool' = pool
          \/ pool' = [pool EXCEPT ![workCtl[w]] = @ \cup {w}]
      BY <1>29, Zenon DEF RegisterWorkConn
    <3>2. pool[workCtl[w]] \cup {w} \in SUBSET WorkConns
      BY <2>1, <2>2
    <3> QED
      BY <2>1, <2>2, <3>1, <3>2
  <2> QED
    BY <1>29, <2>3, <2>4 DEF TypeOK, RegisterWorkConn
<1>30. ASSUME NEW w \in WorkConns, NEW c \in Controls, GetWorkConn(c, w) PROVE TypeOK'
  BY <1>30 DEF TypeOK, GetWorkConn
<1>31. CASE UNCHANGED vars
  BY <1>31 DEF TypeOK, vars
<1> QED
  BY <1>1, <1>2, <1>3, <1>4, <1>5, <1>6, <1>7, <1>8, <1>9, <1>10, <1>11, <1>13, <1>14, <1>15,
     <1>16, <1>17, <1>18, <1>19, <1>20, <1>21, <1>22, <1>23, <1>24, <1>25, <1>26, <1>27, <1>28,
     <1>29, <1>30, <1>31
  DEF Next, LoginNext, WorkerNext, CloserNext, WorkNext, Environment

-----------------------------------------------------------------------------
(* What the types say of single values. *)

\* The function new is old with the value at c replaced.
Update(old, new, c, v) == \A d \in Controls : new[d] = IF d = c THEN v ELSE old[d]

\* The types the effects of the actions depend on.
LEMMA CoreTypes ==
    ASSUME TypeOK
    PROVE  /\ state \in [Controls -> States]
           /\ login \in [Controls -> LoginSteps]
           /\ worker \in [Controls -> WorkerSteps]
           /\ run \in [Controls -> RunIDs \cup {NoID}]
           /\ seen \in [Controls -> Controls \cup {None}]
           /\ wseen \in [Controls -> Controls \cup {None}]
           /\ handoffBarrier \in [Controls -> Controls \cup {None}]
BY DEF TypeOK, CtlOrNone

\* What the arguments use of the types.
LEMMA CorePoints ==
    ASSUME TypeOK
    PROVE  /\ \A r \in RunIDs : ctlsByRunID[r] \in Controls \cup {None}
           /\ \A d \in Controls : run[d] \in RunIDs \cup {NoID}
           /\ toClose \subseteq Controls
           /\ NoID \notin RunIDs
           /\ None \notin Controls
BY RegistryAssumption, ControlAssumption DEF TypeOK, CtlOrNone

\* A step that leaves the variables of the control sessions alone.
LEMMA Frame ==
    ASSUME ControlInv,
           UNCHANGED <<closed, ctlsByRunID, run, state, handoffBarrier, login, seen, wkVars,
                       closeVars>>
    PROVE  ControlInv'
<1>1. Linked'
  BY DEF ControlInv, Linked, LinkedAt, wkVars, closeVars
<1>2. Current'
  BY DEF ControlInv, Current, Live, wkVars, closeVars
<1>3. OwnEntrySeen'
  BY DEF ControlInv, OwnEntrySeen, wkVars, closeVars
<1>4. Closer'
  BY DEF ControlInv, Closer, wkVars, closeVars
<1>5. WritingIsCurrent'
  BY DEF ControlInv, WritingIsCurrent, wkVars, closeVars
<1>6. BarrierCovers'
  BY DEF ControlInv, BarrierCovers, Live, wkVars, closeVars
<1>7. HandoffExclusive'
  BY DEF ControlInv, HandoffExclusive, Live, wkVars, closeVars
<1> QED
  BY <1>1, <1>2, <1>3, <1>4, <1>5, <1>6, <1>7 DEF ControlInv
=============================================================================
