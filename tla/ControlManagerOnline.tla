------------------------ MODULE ControlManagerOnline ------------------------
(***************************************************************************)
(* The steps that change the client registry, and the theorems about it.   *)
(***************************************************************************)
EXTENDS ControlManagerRegistry

\* Activate: c owns its key.  No other client loses one, but for a client whose client id
\* is the run id of c.
LEMMA ActivateRegisters ==
    ASSUME HandoffInv, RegistryInv, NEW c \in Controls, Activate(c), login'[c] = "complete"
    PROVE  RegistryInv'
<1> DEFINE key == ClientKey(raw[c], run[c])
<1>1. /\ login[c] = "activateLock" /\ run[c] \in RunIDs /\ ctlsByRunID[run[c]] = c /\ ~closed
      /\ raw[c] \in ClientIDs \cup {NoID} /\ controlID[c] \in Nat /\ key \in Keys /\ registry \in Registry
  BY CoreTypes, RegistryTypes
     DEF Activate, Owns, Revalidated, Found, HandoffInv, ControlInv, Linked, LinkedAt, Keys, ClientKey
<1>2. /\ ~Conflict(registry, raw[c], run[c])
      /\ registry' = Registered(registry, raw[c], run[c], controlID[c])
      /\ registryOnline' = [registryOnline EXCEPT ![c] = TRUE]
      /\ registryControlID' = [registryControlID EXCEPT ![c] = controlID[c]]
      /\ activated' = [activated EXCEPT ![c] = TRUE]
      /\ login' = [login EXCEPT ![c] = "complete"]
      /\ UNCHANGED <<closed, ctlsByRunID, run, raw, state>>
  <2>1. login' # [login EXCEPT ![c] = "remove"]
    BY CoreTypes DEF HandoffInv
  <2> QED
    BY Zenon, <2>1 DEF Activate
<1>3. /\ Indexed(registry') /\ OnlyRun(registry, registry', run[c], {key})
      /\ Shows(registry', key, run[c], controlID[c])
  BY Zenon, <1>1, <1>2, RegisteredIndexed DEF RegistryInv
<1>4. registry.clients[key].runID \notin {NoID, run[c]} => raw[c] = NoID
  BY Zenon, <1>1, <1>2 DEF RegistryInv, Indexed, Conflict
<1>5. /\ registryOnline'[c] /\ registryControlID'[c] = controlID[c] /\ activated'[c] /\ login'[c] = "complete"
      /\ \A d \in Controls \ {c} :
           /\ registryOnline'[d] = registryOnline[d] /\ registryControlID'[d] = registryControlID[d]
           /\ activated'[d] = activated[d] /\ login'[d] = login[d]
      /\ UNCHANGED <<closed, ctlsByRunID, run, raw, state>>
  BY <1>2, CoreTypes, RegistryTypes DEF HandoffInv
<1>6. raw[c] = NoID => key = run[c]
  BY DEF ClientKey
<1>7. raw[c] # NoID => key = raw[c]
  BY DEF ClientKey
<1> HIDE DEF key
<1>8. \A k \in Keys : registry'.clients[k].online =>
         k = key \/ (registry'.clients[k] = registry.clients[k] /\ registry.clients[k].runID # run[c])
  BY Zenon, <1>3 DEF OnlyRun, Indexed
<1>9. \A d \in Controls : /\ Committed(d)' => Committed(d) \/ d = c
                          /\ Committed(d) => ctlsByRunID[run[d]] = d /\ run[d] \in RunIDs
  BY <1>1, <1>5, CommittedRun DEF Committed, RegistryInv, CommittedCurrent
<1>10. Indexed(registry)'
  BY Zenon, <1>3 DEF Indexed
<1>11. Booked'
  BY <1>5 DEF RegistryInv, Booked
<1>12. Keyed'
  BY <1>5, <1>3, <1>8 DEF RegistryInv, Keyed, Shows, key
<1>13. NoGhostOnline'
  <2> SUFFICES ASSUME NEW k \in Keys, registry'.clients[k].online
               PROVE  LET d == ctlsByRunID[registry'.clients[k].runID] IN
                      /\ d # None /\ registryOnline'[d]
                      /\ registryControlID'[d] = registry'.clients[k].controlID
    BY Zenon, <1>5 DEF NoGhostOnline
  <2>1. CASE k = key
    BY <1>1, <1>5, <1>3, <2>1, CommittedRun DEF Shows
  <2>2. CASE k # key
    BY <1>5, <1>8, <2>2, OnlineEntry, CommittedRun
  <2> QED
    BY <2>1, <2>2
<1>14. CurrentIsOnline'
  <2> SUFFICES ASSUME NEW r \in RunIDs, ctlsByRunID[r] # None, registryOnline'[ctlsByRunID[r]],
                      \A d \in Controls : run[d] = r => ClientKey(raw[d], r) \notin RunIDs \cap ClientIDs
               PROVE  \E k \in Keys : /\ registry'.clients[k].online
                                      /\ registry'.clients[k].runID = r
                                      /\ registry'.clients[k].controlID = registryControlID'[ctlsByRunID[r]]
    BY Zenon, <1>5 DEF CurrentIsOnline
  <2>1. CASE r = run[c]
    BY <1>1, <1>5, <1>3, <2>1 DEF Shows
  <2>2. CASE r # run[c]
    <3>1. ctlsByRunID[r] \in Controls /\ ctlsByRunID[r] # c
      BY <2>2, CommittedRun
    <3>2. PICK k \in Keys : /\ registry.clients[k].online /\ registry.clients[k].runID = r
                            /\ registry.clients[k].controlID = registryControlID[ctlsByRunID[r]]
      BY <1>5, <3>1 DEF RegistryInv, CurrentIsOnline
    <3>3. k # key
      <4>1. PICK d \in Controls : run[d] = r /\ ClientKey(raw[d], r) = k
        BY <3>2 DEF RegistryInv, Keyed
      <4>2. k = key => k = run[c]
        BY <1>4, <1>6, <2>2, <3>2, CorePoints DEF HandoffInv
      <4>3. k = run[c] => k \in ClientIDs
        BY <2>2, <4>1, RegistryTypes DEF HandoffInv, ClientKey
      <4> QED
        BY <1>1, <4>1, <4>2, <4>3
    <3> QED
      BY <1>5, <1>3, <2>2, <3>1, <3>2, <3>3 DEF OnlyRun
  <2> QED
    BY <2>1, <2>2
<1>15. \A d \in Controls \ {c} :
         Committed(d) /\ OwnID(d) => /\ raw[d] \in Keys /\ registry.clients[raw[d]].runID = run[d]
                                     /\ run[d] # run[c] /\ raw[d] # key
  BY <1>1, <1>4, <1>6, <1>9, RegistryTypes, CorePoints DEF RegistryInv, HandoffInv, IDHeld, OwnID, Keys
<1>16. IDHeld'
  <2>1. raw[c] # NoID => registry'.clients[raw[c]].runID = run[c]
    BY <1>3, <1>7 DEF Shows
  <2>2. \A d \in Controls \ {c} : Committed(d) /\ OwnID(d) => registry'.clients[raw[d]].runID = run[d]
    BY <1>3, <1>15 DEF OnlyRun
  <2> QED
    BY <1>5, <1>9, <2>1, <2>2 DEF IDHeld, OwnID
<1>17. CommittedCurrent'
  BY <1>1, <1>5, <1>9 DEF CommittedCurrent
<1>18. IDUnique'
  BY <1>5, <1>7, <1>9, <1>15 DEF RegistryInv, IDUnique, OwnID
<1> QED
  BY <1>10, <1>11, <1>12, <1>13, <1>14, <1>16, <1>17, <1>18 DEF RegistryInv

\* Remove: the entry of a run goes offline with its current control.
LEMMA RemoveUnregisters ==
    ASSUME HandoffInv, RegistryInv, NEW c \in Controls, run[c] \in RunIDs, ctlsByRunID[run[c]] = c,
           RemoveEntry(c), state[c] = "Running" => closed,
           UNCHANGED <<run, raw, state, activated>>,
           \A d \in Controls : login'[d] = login[d] \/ login'[d] = "close"
    PROVE  RegistryInv'
<1>1. /\ \A r \in RunIDs : ctlsByRunID'[r] = IF r = run[c] THEN None ELSE ctlsByRunID[r]
      /\ UNCHANGED <<closed, registryOnline, registryControlID>>
  BY RegistryTypes DEF RemoveEntry, HandoffInv
<1>2. Indexed(registry') /\ OnlyRun(registry, registry', run[c], {})
  <2>1. /\ registry \in Registry /\ registryControlID[c] \in Nat
        /\ \A k \in Keys : registry.clients[k].runID = run[c] =>
              registryOnline[c] /\ registry.clients[k].controlID = registryControlID[c]
    BY RegistryTypes, OnlineEntry, CorePoints DEF HandoffInv, RegistryInv, Indexed
  <2>2. CASE registryOnline[c]
    BY <2>1, <2>2, MarkedOfflineIndexed DEF RemoveEntry, RegistryInv
  <2>3. CASE ~registryOnline[c]
    BY <2>1, <2>3 DEF RemoveEntry, RegistryInv, OnlyRun
  <2> QED
    BY <2>2, <2>3
<1>3. \A k \in Keys : registry'.clients[k].online =>
         registry'.clients[k] = registry.clients[k] /\ registry.clients[k].runID # run[c]
  BY <1>2 DEF OnlyRun, Indexed
<1>4. \A d \in Controls : Committed(d)' => Committed(d) /\ run[d] \in RunIDs /\ (d = c => closed)
  BY <1>1, CommittedRun DEF Committed, HandoffInv, ControlInv, Linked, LinkedAt
<1>5. Indexed(registry)' /\ Booked'
  BY <1>1, <1>2 DEF RegistryInv, Booked, Indexed
<1>6. Keyed'
  BY <1>3 DEF RegistryInv, Keyed
<1>7. NoGhostOnline'
  BY <1>1, <1>3, OnlineEntry, CommittedRun DEF NoGhostOnline
<1>8. CurrentIsOnline'
  BY <1>1, <1>2 DEF RegistryInv, CurrentIsOnline, OnlyRun
<1>9. IDHeld'
  BY <1>1, <1>2, <1>4, RegistryTypes, CommittedRun DEF HandoffInv, RegistryInv, IDHeld, OnlyRun, OwnID, Keys
<1>10. CommittedCurrent' /\ IDUnique'
  BY <1>1, <1>4, CommittedRun DEF RegistryInv, CommittedCurrent, IDUnique, OwnID
<1> QED
  BY <1>5, <1>6, <1>7, <1>8, <1>9, <1>10 DEF RegistryInv

\* The callers of Remove: the error path of a login, a worker, cm.Close.
LEMMA RemoveKeeps ==
    ASSUME HandoffInv, RegistryInv,
           \/ \E c \in Controls : LoginRemove(c) \/ WorkerRemove(c)
           \/ CloserRemove
    PROVE  RegistryInv'
<1>1. ASSUME NEW c \in Controls, LoginRemove(c) PROVE RegistryInv'
  <2>1. /\ login[c] = "removeLock" /\ login' = [login EXCEPT ![c] = "close"]
        /\ UNCHANGED <<run, raw, state, activated>>
        /\ \/ RemoveEntry(c) /\ ctlsByRunID[run[c]] = c
           \/ UNCHANGED <<mgrVars, registry>>
    BY Zenon, <1>1 DEF LoginRemove, Owns, ctlVars
  <2>2. /\ run[c] \in RunIDs /\ state[c] # "Running"
        /\ \A d \in Controls : login'[d] = login[d] \/ login'[d] = "close"
    BY <2>1, CoreTypes DEF HandoffInv, ControlInv, Linked, LinkedAt
  <2>3. CASE UNCHANGED <<mgrVars, registry>>
    BY <2>1, <2>2, <2>3, QuietKeeps DEF Quiet, mgrVars, RegistryInv, Booked
  <2> QED
    BY <2>1, <2>2, <2>3, RemoveUnregisters
<1>2. ASSUME NEW c \in Controls, WorkerRemove(c) PROVE RegistryInv'
  <2>1. /\ worker[c] = "removeLock" /\ UNCHANGED <<run, raw, state, activated, login>>
        /\ \/ RemoveEntry(c) /\ ctlsByRunID[run[c]] = c
           \/ UNCHANGED <<mgrVars, registry>>
    BY Zenon, <1>2 DEF WorkerRemove, Owns, ctlVars, loginVars
  <2>2. run[c] \in RunIDs /\ state[c] # "Running"
    BY <2>1 DEF HandoffInv, ControlInv, Linked, LinkedAt
  <2>3. CASE UNCHANGED <<mgrVars, registry>>
    BY <2>1, <2>3, EndsQuiet DEF mgrVars
  <2> QED
    BY <2>1, <2>2, <2>3, RemoveUnregisters
<1>3. CASE CloserRemove
  <2>1. /\ closer = "removeLock" /\ UNCHANGED <<run, raw, state, activated, login>>
        /\ \/ RemoveEntry(closing) /\ ctlsByRunID[run[closing]] = closing
           \/ UNCHANGED <<mgrVars, registry>>
    BY Zenon, <1>3 DEF CloserRemove, Owns, ctlVars, loginVars
  <2>2. closing \in Controls /\ run[closing] \in RunIDs /\ closed
    BY <2>1 DEF HandoffInv, ControlInv, Closer
  <2>3. CASE UNCHANGED <<mgrVars, registry>>
    BY <2>1, <2>3, EndsQuiet DEF mgrVars
  <2> QED
    BY <2>1, <2>2, <2>3, RemoveUnregisters
<1> QED
  BY <1>1, <1>2, <1>3

-----------------------------------------------------------------------------
(* The theorems. *)

\* RegistryInv is inductive, given the invariant of the control sessions.
THEOREM RegistryInvariant == Spec => []RegistryInv
<1>1. Init => RegistryInv
  <2> SUFFICES ASSUME Init PROVE RegistryInv
    OBVIOUS
  <2>1. /\ \A k \in Keys : registry.clients[k].runID = NoID /\ ~registry.clients[k].online
        /\ \A r \in RunIDs : registry.runIndex[r] = NoID /\ ctlsByRunID[r] = None
        /\ \A c \in Controls : /\ run[c] = NoID /\ login[c] = "idle" /\ state[c] = "none"
                                /\ ~registryOnline[c] /\ ~activated[c]
    BY DEF Init, NewClientRegistry, NoClient
  <2>2. Indexed(registry) /\ Booked /\ Keyed
    BY <2>1 DEF Indexed, Booked, Keyed
  <2>3. NoGhostOnline /\ CurrentIsOnline
    BY <2>1 DEF NoGhostOnline, CurrentIsOnline
  <2>4. IDHeld /\ CommittedCurrent /\ IDUnique
    BY <2>1 DEF IDHeld, CommittedCurrent, IDUnique, Committed
  <2> QED
    BY <2>2, <2>3, <2>4 DEF RegistryInv
<1>2. HandoffInv /\ RegistryInv /\ [Next]_vars => RegistryInv'
  <2> SUFFICES ASSUME HandoffInv, RegistryInv, [Next]_vars PROVE RegistryInv'
    OBVIOUS
  <2>1. ASSUME NEW c \in Controls, LoginNext(c) PROVE RegistryInv'
    <3>1. CASE Activate(c)
      <4>1. \/ login'[c] = "complete"
            \/ registry' = registry /\ UNCHANGED <<registryOnline, registryControlID, activated>>
        BY Zenon, <3>1, CoreTypes DEF Activate, HandoffInv
      <4> QED
        BY <3>1, <4>1, ActivateRegisters, LoginQuiet
    <3> QED
      BY <2>1, <3>1, AddTakesOver, RemoveKeeps, LoginQuiet DEF LoginNext
  <2>2. ASSUME NEW c \in Controls, WorkerNext(c) PROVE RegistryInv'
    BY <2>2, WorkerQuiet, RemoveKeeps DEF WorkerNext
  <2>3. CASE CloserNext
    BY <2>3, OthersQuiet, RemoveKeeps DEF CloserNext
  <2>4. CASE Environment
    BY <2>4, NewControlBooked, LoginQuiet, WorkerQuiet, OthersQuiet DEF Environment
  <2> QED
    BY <2>1, <2>2, <2>3, <2>4, OthersQuiet DEF Next
<1> QED
  BY <1>1, <1>2, HandoffInvariant, PTL DEF Spec

\* For any number of clients, logins and shutdowns, the registry never shows a client as
\* online that no current control could take offline again.
THEOREM NoGhosts == Spec => []NoGhostOnline
<1>1. RegistryInv => NoGhostOnline
  BY DEF RegistryInv
<1> QED
  BY <1>1, RegistryInvariant, PTL

\* A current control that Activate put online stays online in the registry, whatever the
\* other clients register.
THEOREM StaysOnline == Spec => []CurrentIsOnline
<1>1. RegistryInv => CurrentIsOnline
  BY DEF RegistryInv
<1> QED
  BY <1>1, RegistryInvariant, PTL

\* The two maps of the registry never disagree about who owns a key.
THEOREM MapsAgree == Spec => []RegistryIndexed
<1>1. HandoffInv /\ RegistryInv => RegistryIndexed
  BY RegistryTypes, RegistryPoints DEF HandoffInv, RegistryInv, Indexed, RegistryIndexed
<1> QED
  BY <1>1, HandoffInvariant, RegistryInvariant, PTL

\* Two running controls never share an explicit client id that is no run id.
THEOREM ClientIDsUnique == Spec => []UniqueClientID
<1>1. RegistryInv => UniqueClientID
  BY DEF RegistryInv, IDUnique, Committed, OwnID, UniqueClientID
<1> QED
  BY <1>1, RegistryInvariant, PTL
=============================================================================
