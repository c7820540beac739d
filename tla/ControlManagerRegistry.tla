----------------------- MODULE ControlManagerRegistry -----------------------
(***************************************************************************)
(* The invariant that ties the client registry to the controls, what the   *)
(* operations of the registry do to it, and the proof that every step but  *)
(* Activate and Remove keeps it.  It rests on the invariant of             *)
(* ControlManagerTypes.                                                    *)
(***************************************************************************)
EXTENDS ControlManagerProofs

\* The two maps of a registry describe the same ownership, and an entry names a run
\* exactly while it is online.
Indexed(reg) ==
    /\ \A k \in Keys : reg.clients[k].online <=> reg.clients[k].runID # NoID
    /\ \A r \in RunIDs : LET k == reg.runIndex[r] IN k # NoID => reg.clients[k].runID = r
    /\ \A k \in Keys : LET r == reg.clients[k].runID IN r # NoID => reg.runIndex[r] = k

\* But under the keys of own, the entries of run r have lost their owner and the others
\* are as they were.
OnlyRun(reg, new, r, own) ==
    \A k \in Keys \ own :
        /\ reg.clients[k].runID = r => new.clients[k].runID = NoID
        /\ reg.clients[k].runID # r => new.clients[k] = reg.clients[k]

\* The entry under k shows run r online, registered by generation n.
Shows(reg, k, r, n) ==
    /\ reg.clients[k].online
    /\ reg.clients[k].runID = r
    /\ reg.clients[k].controlID = n

\* Control-side bookkeeping: what a control carries before it is admitted, and that a
\* successful LoginResp is written for an activated control only.
Booked ==
    \A c \in Controls :
        /\ login[c] = "idle" => run[c] = NoID
        /\ login[c] \in {"idle", "add", "addLock"} => ~registryOnline[c] /\ ~activated[c]
        /\ login[c] = "writing" => activated[c]

\* An online entry is stored under the key of some control of its run.
Keyed ==
    \A k \in Keys :
        registry.clients[k].online =>
            \E d \in Controls : /\ run[d] = registry.clients[k].runID
                                /\ ClientKey(raw[d], run[d]) = k

\* The control has passed the uniqueness check of its client id and is not replaced.
Committed(c) ==
    \/ state[c] = "Running"
    \/ state[c] = "Pending" /\ activated[c] /\ ctlsByRunID[run[c]] = c

OwnID(c) == raw[c] \notin RunIDs \cup {NoID}

\* While such a control is current it holds the entry of its client id; it stops being
\* current without being closed only at shutdown; two of them have different ids.
IDHeld ==
    \A c \in Controls :
        Committed(c) /\ OwnID(c) /\ ctlsByRunID[run[c]] = c => registry.clients[raw[c]].runID = run[c]
CommittedCurrent == \A c \in Controls : Committed(c) => ctlsByRunID[run[c]] = c \/ closed
IDUnique ==
    \A c, d \in Controls : Committed(c) /\ Committed(d) /\ OwnID(c) /\ raw[c] = raw[d] => c = d

RegistryInv ==
    /\ Indexed(registry)
    /\ Booked
    /\ Keyed
    /\ NoGhostOnline
    /\ CurrentIsOnline
    /\ IDHeld
    /\ CommittedCurrent
    /\ IDUnique

-----------------------------------------------------------------------------
(* The operations of the registry. *)

\* What the types say of a registry, entry by entry.
LEMMA RegistryPoints ==
    ASSUME NEW reg \in Registry
    PROVE  /\ \A k \in Keys : /\ reg.clients[k] \in ClientInfo
                              /\ reg.clients[k].runID \in RunIDs \cup {NoID}
                              /\ reg.clients[k].online \in BOOLEAN
           /\ \A r \in RunIDs : reg.runIndex[r] \in Keys \cup {NoID}
           /\ NoID \notin RunIDs /\ NoID \notin Keys
BY RegistryAssumption DEF Registry, ClientInfo, Keys

\* setClientOffline leaves an entry that names no run.
LEMMA WithoutOwnerOffline ==
    ASSUME NEW info \in ClientInfo
    PROVE  WithoutOwner(info).runID = NoID /\ ~WithoutOwner(info).online
BY DEF WithoutOwner, ClientInfo, NoClient

\* RegisterWithControlID gives the run one entry, under its key, and takes none away but
\* that of the run that held the key.
LEMMA RegisteredIndexed ==
    ASSUME NEW reg \in Registry, Indexed(reg), NEW id \in ClientIDs \cup {NoID}, NEW r \in RunIDs,
           NEW n \in Nat
    PROVE  LET new == Registered(reg, id, r, n)
               key == ClientKey(id, r)
           IN  /\ Indexed(new)
               /\ OnlyRun(reg, new, r, {key})
               /\ Shows(new, key, r, n)
<1> DEFINE new == Registered(reg, id, r, n)
           key == ClientKey(id, r)
<1>1. key \in Keys
  BY DEF ClientKey, Keys
<1>2. new.clients[key] = [rawClientID |-> id, runID |-> r, controlID |-> n, online |-> TRUE]
  BY <1>1 DEF Registered
<1>3. \A k \in Keys \ {key} :
        new.clients[k] = IF k = reg.runIndex[r] THEN WithoutOwner(reg.clients[k]) ELSE reg.clients[k]
  BY <1>1, RegistryPoints DEF Registered, Indexed
<1>4. /\ new.runIndex[r] = key
      /\ \A s \in RunIDs \ {r} :
           new.runIndex[s] = IF s = reg.clients[key].runID THEN NoID ELSE reg.runIndex[s]
  BY DEF Registered
<1> HIDE DEF new, key
<1>5. /\ new.clients[key].online /\ new.clients[key].runID = r /\ new.clients[key].controlID = n
  BY <1>2
<1>6. \A k \in Keys \ {key} :
        \/ reg.clients[k].runID = r /\ new.clients[k].runID = NoID /\ ~new.clients[k].online
        \/ reg.clients[k].runID # r /\ new.clients[k] = reg.clients[k]
  BY <1>3, RegistryPoints, WithoutOwnerOffline DEF Indexed
<1>7. OnlyRun(reg, new, r, {key})
  BY <1>6, RegistryPoints DEF OnlyRun
<1>8. Indexed(new)
  BY <1>1, <1>4, <1>5, <1>6, RegistryPoints DEF Indexed
<1> QED
  BY <1>5, <1>7, <1>8 DEF new, key, Shows

\* markOfflineByRunID takes the entry of a run away when it is of the generation named.
LEMMA MarkedOfflineIndexed ==
    ASSUME NEW reg \in Registry, Indexed(reg), NEW r \in RunIDs, NEW n \in Nat,
           \A k \in Keys : reg.clients[k].runID = r => reg.clients[k].controlID = n
    PROVE  /\ Indexed(MarkedOffline(reg, r, n))
           /\ OnlyRun(reg, MarkedOffline(reg, r, n), r, {})
<1> DEFINE new == MarkedOffline(reg, r, n)
<1>1. \A k \in Keys :
        new.clients[k] = IF k = reg.runIndex[r] THEN WithoutOwner(reg.clients[k]) ELSE reg.clients[k]
  BY RegistryPoints DEF MarkedOffline, Indexed
<1>2. new.runIndex = [s \in RunIDs |->
                        IF /\ reg.runIndex[r] # NoID /\ new.clients[reg.runIndex[r]].runID # r
                           /\ s = r
                          THEN NoID ELSE reg.runIndex[s]]
  BY Zenon, RegistryPoints DEF MarkedOffline
<1> HIDE DEF new
<1>3. \A k \in Keys :
        \/ reg.clients[k].runID = r /\ new.clients[k].runID = NoID /\ ~new.clients[k].online
        \/ reg.clients[k].runID # r /\ new.clients[k] = reg.clients[k]
  BY <1>1, RegistryPoints, WithoutOwnerOffline DEF Indexed
<1>4. \A s \in RunIDs : new.runIndex[s] = IF s = r THEN NoID ELSE reg.runIndex[s]
  <2>1. reg.runIndex[r] # NoID => new.clients[reg.runIndex[r]].runID # r
    BY <1>3, RegistryPoints
  <2> QED
    BY Zenon, <1>2, <2>1
<1>5. OnlyRun(reg, new, r, {})
  BY <1>3, RegistryPoints DEF OnlyRun
<1>6. Indexed(new)
  BY <1>3, <1>4, RegistryPoints DEF Indexed
<1> QED
  BY <1>5, <1>6 DEF new

-----------------------------------------------------------------------------
(* The steps of the control manager. *)

\* The types the argument uses.
LEMMA RegistryTypes ==
    ASSUME TypeOK
    PROVE  /\ registry \in Registry
           /\ raw \in [Controls -> ClientIDs \cup {NoID}]
           /\ registryOnline \in [Controls -> BOOLEAN]
           /\ activated \in [Controls -> BOOLEAN]
           /\ registryControlID \in [Controls -> Nat]
           /\ controlID \in [Controls -> Nat]
           /\ ctlsByRunID \in [RunIDs -> Controls \cup {None}]
BY DEF TypeOK, CtlOrNone

\* A committed control has a run, and a current control is that of its own run.
LEMMA CommittedRun ==
    ASSUME HandoffInv
    PROVE  /\ \A d \in Controls : Committed(d) => run[d] \in RunIDs
           /\ \A r \in RunIDs : /\ ctlsByRunID[r] \in Controls \cup {None}
                                /\ ctlsByRunID[r] # None => run[ctlsByRunID[r]] = r
           /\ None \notin Controls
BY CorePoints DEF HandoffInv, ControlInv, Committed, Linked, LinkedAt, Current

\* An online entry names the run of a current control that keeps book of it.
LEMMA OnlineEntry ==
    ASSUME HandoffInv, RegistryInv
    PROVE  \A k \in Keys :
             LET info == registry.clients[k] IN
             info.online =>
               /\ info.runID \in RunIDs /\ ctlsByRunID[info.runID] \in Controls
               /\ registryOnline[ctlsByRunID[info.runID]]
               /\ registryControlID[ctlsByRunID[info.runID]] = info.controlID
BY RegistryTypes, RegistryPoints, CommittedRun DEF HandoffInv, RegistryInv, NoGhostOnline, Indexed

\* Add: c takes over the books of the control it replaces, which is of the same run.
LEMMA AddTakesOver ==
    ASSUME HandoffInv, RegistryInv, NEW c \in Controls, Add(c)
    PROVE  RegistryInv'
<1> DEFINE old == ctlsByRunID[run[c]]
<1>1. /\ login[c] = "addLock" /\ run[c] \in RunIDs /\ ~closed /\ ~activated[c] /\ ~registryOnline[c]
      /\ old = seen[c]
      /\ \A r \in RunIDs : ctlsByRunID'[r] = (IF r = run[c] THEN c ELSE ctlsByRunID[r]) /\ ctlsByRunID[r] # c
      /\ UNCHANGED <<closed, registry, run, raw, activated>>
  <2>1. login[c] = "addLock" /\ run[c] \in RunIDs /\ ~activated[c] /\ ~registryOnline[c]
    BY Zenon DEF Add, HandoffInv, ControlInv, Linked, LinkedAt, RegistryInv, Booked
  <2>2. \A r \in RunIDs : ctlsByRunID[r] # c
    BY <2>1, CommittedRun DEF HandoffInv, ControlInv, Current
  <2> QED
    BY <2>1, <2>2, RegistryTypes DEF Add, HandoffInv
<1>2. /\ login'[c] \in {"handoff", "replaced"} /\ state'[c] = "Pending"
      /\ old \in Controls => state'[old] \notin {"Pending", "Running"}
      /\ \A d \in Controls \ {c} : /\ login'[d] = login[d]
                                   /\ state'[d] = state[d] \/ state'[d] \notin {"Pending", "Running"}
  BY <1>1, CoreTypes, CommittedRun DEF Add, HandoffInv, StateAfterClose
<1>3. /\ \/ old = None /\ ~registryOnline'[c]
         \/ /\ old \in Controls /\ registryOnline'[c] = registryOnline[old]
            /\ registryControlID'[c] = registryControlID[old]
      /\ \A d \in Controls \ {c} : /\ registryOnline'[d] = registryOnline[d]
                                   /\ registryControlID'[d] = registryControlID[d]
  BY <1>1, RegistryTypes, CommittedRun DEF Add, HandoffInv
<1> HIDE DEF old
<1>4. \A d \in Controls : Committed(d)' => Committed(d) /\ d # c /\ d # old
  BY <1>1, <1>2, CoreTypes, CommittedRun DEF Committed, HandoffInv, ControlInv, Linked, LinkedAt
<1>5. Indexed(registry)' /\ Keyed'
  BY <1>1 DEF RegistryInv, Indexed, Keyed
<1>6. Booked'
  BY <1>1, <1>2, <1>3 DEF RegistryInv, Booked
<1>7. NoGhostOnline'
  BY <1>1, <1>3, OnlineEntry, CommittedRun DEF NoGhostOnline, old
<1>8. CurrentIsOnline'
  BY <1>1, <1>3, CommittedRun DEF RegistryInv, CurrentIsOnline, old
<1>9. IDHeld' /\ CommittedCurrent'
  BY <1>1, <1>4, CommittedRun DEF RegistryInv, IDHeld, CommittedCurrent, OwnID, old
<1>10. IDUnique'
  BY <1>1, <1>4 DEF RegistryInv, IDUnique, OwnID
<1> QED
  BY <1>5, <1>6, <1>7, <1>8, <1>9, <1>10 DEF RegistryInv

\* NewControl: the control is of no run before, and not yet in the books.
LEMMA NewControlBooked ==
    ASSUME HandoffInv, RegistryInv, NEW c \in Controls, NEW m \in Logins, NewControl(c, m[1], m[2])
    PROVE  RegistryInv'
<1>1. /\ login[c] = "idle" /\ m[1] \in RunIDs /\ run[c] = NoID /\ NoID \notin RunIDs
      /\ Update(login, login', c, "add") /\ Update(run, run', c, m[1]) /\ Update(raw, raw', c, m[2])
      /\ Update(state, state', c, "Created")
      /\ UNCHANGED <<closed, registry, ctlsByRunID, registryOnline, registryControlID, activated>>
  BY CoreTypes, RegistryTypes, ControlAssumption, RegistryAssumption
     DEF HandoffInv, RegistryInv, Booked, Update, NewControl, mgrVars
<1>2. \A r \in RunIDs : ctlsByRunID[r] # c
  BY <1>1, CorePoints DEF HandoffInv, ControlInv, Current
<1>3. \A d \in Controls : Committed(d)' => Committed(d) /\ d # c
  BY <1>1 DEF Committed, Update
<1>4. Indexed(registry)' /\ Booked'
  BY <1>1 DEF RegistryInv, Indexed, Booked, Update
<1>5. Keyed'
  BY <1>1, RegistryTypes, RegistryPoints DEF HandoffInv, RegistryInv, Keyed, Update, Indexed
<1>6. NoGhostOnline'
  BY <1>1 DEF RegistryInv, NoGhostOnline
<1>7. CurrentIsOnline'
  BY <1>1 DEF RegistryInv, CurrentIsOnline, Update
<1>8. IDHeld' /\ CommittedCurrent' /\ IDUnique'
  BY <1>1, <1>3 DEF RegistryInv, IDHeld, CommittedCurrent, IDUnique, OwnID, Update
<1> QED
  BY <1>4, <1>5, <1>6, <1>7, <1>8 DEF RegistryInv

\* A step that leaves the registry and its bookkeeping alone and commits no control.
Quiet ==
    /\ UNCHANGED <<registry, ctlsByRunID, registryOnline, registryControlID, run, raw, activated>>
    /\ closed => closed'
    /\ \A d \in Controls :
         /\ state'[d] \in {"Pending", "Running"} =>
              state'[d] = state[d] \/ (state'[d] = "Running" /\ Committed(d))
         /\ login'[d] \in {"idle", "add", "addLock"} =>
              login'[d] = login[d] \/ (login'[d] # "idle" /\ login[d] \in {"add", "addLock"})
         /\ login'[d] = "writing" => activated[d]

\* Such a step keeps the invariant.
LEMMA QuietKeeps ==
    ASSUME RegistryInv, Quiet
    PROVE  RegistryInv'
<1>1. ASSUME NEW d \in Controls, Committed(d)' PROVE Committed(d)
  BY <1>1 DEF Quiet, Committed
<1>2. Indexed(registry)' /\ Keyed' /\ NoGhostOnline'
  BY DEF RegistryInv, Quiet, Indexed, Keyed, NoGhostOnline
<1>3. CurrentIsOnline'
  BY DEF RegistryInv, Quiet, CurrentIsOnline
<1>4. Booked'
  BY DEF RegistryInv, Quiet, Booked
<1>5. IDHeld' /\ CommittedCurrent' /\ IDUnique'
  BY <1>1 DEF RegistryInv, Quiet, IDHeld, CommittedCurrent, IDUnique, OwnID
<1> QED
  BY <1>2, <1>3, <1>4, <1>5 DEF RegistryInv

\* The quiet steps of a login handler.
LEMMA LoginQuiet ==
    ASSUME HandoffInv, RegistryInv, NEW c \in Controls,
           \/ AddLookup(c) \/ AddFails(c) \/ Replaced(c) \/ WaitForHandoff(c) \/ LoginLookup(c)
           \/ Activate(c) /\ registry' = registry /\ UNCHANGED <<registryOnline, registryControlID, activated>>
           \/ CompleteLogin(c) \/ LoginRespWritten(c) \/ LoginClose(c) \/ RejectLogin(c)
    PROVE  RegistryInv'
<1>0. /\ login \in [Controls -> LoginSteps] /\ state \in [Controls -> States]
      /\ \A d \in Controls : login[d] = "writing" => activated[d]
  BY CoreTypes DEF HandoffInv, RegistryInv, Booked
<1>1. CASE AddLookup(c) \/ AddFails(c) \/ Replaced(c) \/ WaitForHandoff(c)
  <2>1. /\ UNCHANGED <<registry, mgrVars, run, raw, activated, state>>
        /\ \/ /\ login[c] \in {"add", "addLock"}
              /\ \E to \in {"add", "addLock", "remove"} : login' = [login EXCEPT ![c] = to]
           \/ \E to \in {"handoff", "activate"} : login' = [login EXCEPT ![c] = to]
    BY <1>1 DEF AddLookup, AddFails, Replaced, WaitForHandoff, ctlVars
  <2> QED
    BY <1>0, <2>1, QuietKeeps DEF Quiet, mgrVars
<1>2. CASE LoginLookup(c)
  <2>1. /\ UNCHANGED <<registry, mgrVars, run, raw, activated, state>>
        /\ \E to \in {"activateLock", "completeLock", "removeLock", "remove", "close"} :
             login' = [login EXCEPT ![c] = to]
    BY <1>2, Zenon DEF LoginLookup, ctlVars
  <2> QED
    BY <1>0, <2>1, QuietKeeps DEF Quiet, mgrVars
<1>3. CASE Activate(c) /\ registry' = registry /\ UNCHANGED <<registryOnline, registryControlID, activated>>
  <2>1. /\ UNCHANGED <<closed, ctlsByRunID, run, raw, state>>
        /\ \E to \in {"complete", "remove"} : login' = [login EXCEPT ![c] = to]
    BY <1>3, Zenon DEF Activate
  <2> QED
    BY <1>0, <1>3, <2>1, QuietKeeps DEF Quiet
<1>4. CASE CompleteLogin(c)
  <2>1. /\ UNCHANGED <<registry, mgrVars, run, raw, activated, state>>
        /\ \/ activated[c] /\ login' = [login EXCEPT ![c] = "writing"]
           \/ login' = [login EXCEPT ![c] = "remove"]
    BY <1>4, Zenon DEF CompleteLogin, ctlVars
  <2> QED
    BY <1>0, <2>1, QuietKeeps DEF Quiet, mgrVars
<1>5. CASE LoginRespWritten(c)
  <2>1. /\ login[c] = "writing" /\ UNCHANGED <<registry, mgrVars, run, raw, activated>>
        /\ \E to \in {"done", "remove"} : login' = [login EXCEPT ![c] = to]
        /\ state' = state \/ state' = [state EXCEPT ![c] = "Running"]
    BY <1>5 DEF LoginRespWritten
  <2>2. Committed(c)
    BY <1>0, <2>1 DEF HandoffInv, ControlInv, WritingIsCurrent, Committed
  <2> QED
    BY <1>0, <2>1, <2>2, QuietKeeps DEF Quiet, mgrVars
<1>6. CASE LoginClose(c) \/ RejectLogin(c)
  <2>1. /\ UNCHANGED <<registry, mgrVars, run, raw, activated>>
        /\ login' = [login EXCEPT ![c] = "done"]
        /\ state' = state \/ state' = [state EXCEPT ![c] = StateAfterClose(@)]
    BY <1>6 DEF LoginClose, RejectLogin, CloseControl, ctlVars
  <2> QED
    BY <1>0, <2>1, QuietKeeps DEF Quiet, mgrVars, StateAfterClose
<1> QED
  BY <1>1, <1>2, <1>3, <1>4, <1>5, <1>6

\* A step that at most ends controls is quiet.
LEMMA EndsQuiet ==
    ASSUME RegistryInv, closed => closed',
           UNCHANGED <<registry, ctlsByRunID, registryOnline, registryControlID, run, raw, activated, login>>,
           \A d \in Controls : state'[d] = state[d] \/ state'[d] \notin {"Pending", "Running"}
    PROVE  RegistryInv'
BY QuietKeeps DEF Quiet, RegistryInv, Booked

\* The quiet steps of a worker and of the connection of a control.
LEMMA WorkerQuiet ==
    ASSUME HandoffInv, RegistryInv, NEW c \in Controls,
           \/ WorkerStops(c) \/ WorkerDrains(c) \/ WorkerReleases(c) \/ WorkerLookup(c)
           \/ WorkerFinishes(c) \/ ConnBreaks(c) \/ HeartbeatTimeout(c)
    PROVE  RegistryInv'
<1>0. state \in [Controls -> States]
  BY Zenon, CoreTypes DEF HandoffInv
<1>1. CASE WorkerStops(c) \/ WorkerFinishes(c) \/ HeartbeatTimeout(c)
  <2>1. /\ UNCHANGED <<registry, mgrVars, run, raw, activated, login>>
        /\ \/ state' = [state EXCEPT ![c] = IF @ = "Running" THEN "Closing" ELSE @]
           \/ state' = [state EXCEPT ![c] = "Closed"]
           \/ state' = [state EXCEPT ![c] = StateAfterClose(@)]
    BY Zenon, <1>1 DEF WorkerStops, WorkerFinishes, HeartbeatTimeout, CloseControl, loginVars
  <2> QED
    BY <1>0, <2>1, EndsQuiet DEF mgrVars, StateAfterClose
<1>2. CASE WorkerDrains(c) \/ WorkerReleases(c) \/ WorkerLookup(c) \/ ConnBreaks(c)
  <2>1. UNCHANGED <<registry, mgrVars, run, raw, activated, login, state>>
    BY Zenon, <1>2 DEF WorkerDrains, WorkerReleases, WorkerLookup, ConnBreaks, ctlVars, loginVars
  <2> QED
    BY <2>1, EndsQuiet DEF mgrVars
<1> QED
  BY <1>1, <1>2

\* The quiet steps of cm.Close and of the work connections.
LEMMA OthersQuiet ==
    ASSUME HandoffInv, RegistryInv,
           \/ CloserCloses \/ CloseManager
           \/ \E c \in Controls : CloserLookup(c)
           \/ \E w \in WorkConns : WorkNext(w)
           \/ \E w \in WorkConns : \/ \E r \in RunIDs : WorkArrives(w, r)
                                   \/ \E c \in Controls : GetWorkConn(c, w)
           \/ UNCHANGED vars
    PROVE  RegistryInv'
<1>1. CASE CloserCloses \/ CloseManager
  <2>1. /\ UNCHANGED <<registry, ctlsByRunID, registryOnline, registryControlID, run, raw, activated, login>>
        /\ closed => closed'
        /\ state' = state \/ state' = [state EXCEPT ![closing] = StateAfterClose(@)]
    BY <1>1 DEF CloserCloses, CloseManager, CloseControl, mgrVars, ctlVars, loginVars
  <2> QED
    BY <2>1, CoreTypes, EndsQuiet DEF StateAfterClose, HandoffInv
<1>2. CASE \E c \in Controls : CloserLookup(c)
  <2>1. UNCHANGED <<registry, mgrVars, ctlVars, loginVars>>
    BY Zenon, <1>2 DEF CloserLookup
  <2> QED
    BY <2>1, EndsQuiet DEF mgrVars, ctlVars, loginVars
<1>3. CASE \E w \in WorkConns : WorkNext(w)
  <2>1. UNCHANGED <<registry, mgrVars, ctlVars, loginVars>>
    BY Zenon, <1>3 DEF WorkNext, WorkLookup, GetByID, RegisterWorkConn
  <2> QED
    BY <2>1, EndsQuiet DEF mgrVars, ctlVars, loginVars
<1>4. CASE \/ \E w \in WorkConns : \/ \E r \in RunIDs : WorkArrives(w, r)
                                   \/ \E c \in Controls : GetWorkConn(c, w)
           \/ UNCHANGED vars
  <2>1. UNCHANGED <<registry, mgrVars, ctlVars, loginVars>>
    BY Zenon, <1>4 DEF WorkArrives, GetWorkConn, vars
  <2> QED
    BY <2>1, EndsQuiet DEF mgrVars, ctlVars, loginVars
<1> QED
  BY <1>1, <1>2, <1>3, <1>4
=============================================================================
