------------------------- MODULE ControlManagerSteps -------------------------
(***************************************************************************)
(* The steps that make a control, install it in the manager, start its     *)
(* worker, take it out of the manager or close it keep the part of the     *)
(* invariant that speaks of controls.  Each lemma states the effect of the *)
(* action on the variables of the invariant, then takes the conjuncts in   *)
(* turn.                                                                   *)
(***************************************************************************)
EXTENDS ControlManagerTypes

(* A login installs its control. *)

\* NewControl makes a control nobody else knows.
LEMMA NewControlKeeps ==
    ASSUME TypeOK, ControlInv, NEW c \in Controls, NEW m \in Logins, NewControl(c, m[1], m[2])
    PROVE  ControlInv'
<1> USE CorePoints DEF ControlInv
<1>1. /\ login[c] = "idle" /\ m[1] \in RunIDs
      /\ Update(login, login', c, "add")
      /\ Update(run, run', c, m[1])
      /\ Update(state, state', c, "Created")
      /\ UNCHANGED <<closed, ctlsByRunID, handoffBarrier, seen, worker, wseen, closer, toClose,
                     closing, cseen>>
  BY CoreTypes, ControlAssumption DEF Update, NewControl, mgrVars, ctlVars, loginVars, wkVars, closeVars
<1>2. Linked'
  BY <1>1 DEF Update, Linked, LinkedAt
<1>3. Current'
  BY <1>1 DEF Update, Current, Live, Linked, LinkedAt
<1>4. OwnEntrySeen'
  BY <1>1 DEF Update, OwnEntrySeen, Current, Closer
<1>5. Closer'
  BY <1>1 DEF Update, Closer
<1>6. WritingIsCurrent'
  BY <1>1 DEF Update, WritingIsCurrent, Current
<1>7. BarrierCovers'
  BY <1>1 DEF Update, BarrierCovers, Live, Linked, LinkedAt, Current
<1>8. HandoffExclusive'
  BY <1>1 DEF Update, HandoffExclusive, Live, Linked, LinkedAt
<1> QED
  BY <1>2, <1>3, <1>4, <1>5, <1>6, <1>7, <1>8

\* A rejected login leaves no control.
LEMMA RejectLoginKeeps ==
    ASSUME TypeOK, ControlInv, NEW c \in Controls, RejectLogin(c)
    PROVE  ControlInv'
<1> USE CorePoints DEF ControlInv
<1>1. /\ login[c] = "idle"
      /\ Update(login, login', c, "done")
      /\ UNCHANGED <<closed, ctlsByRunID, run, state, handoffBarrier, seen, worker, wseen,
                     closer, toClose, closing, cseen>>
  BY CoreTypes DEF Update, RejectLogin, mgrVars, ctlVars, loginVars, wkVars, closeVars
<1>2. Linked'
  BY <1>1 DEF Update, Linked, LinkedAt
<1>3. Current'
  BY <1>1 DEF Update, Current, Live
<1>4. OwnEntrySeen'
  BY <1>1 DEF Update, OwnEntrySeen
<1>5. Closer'
  BY <1>1 DEF Update, Closer
<1>6. WritingIsCurrent'
  BY <1>1 DEF Update, WritingIsCurrent
<1>7. BarrierCovers'
  BY <1>1 DEF Update, BarrierCovers, Live, Linked, LinkedAt
<1>8. HandoffExclusive'
  BY <1>1 DEF Update, HandoffExclusive, Live
<1> QED
  BY <1>2, <1>3, <1>4, <1>5, <1>6, <1>7, <1>8

\* Add: the new control waits for the live worker of its run, if there is one.
LEMMA AddKeeps ==
    ASSUME TypeOK, ControlInv, NEW c \in Controls, Add(c)
    PROVE  ControlInv'
<1> USE CorePoints DEF ControlInv
<1>1. /\ login[c] = "addLock" /\ run[c] \in RunIDs /\ worker[c] = "none"
      /\ ~closed /\ ctlsByRunID[run[c]] = seen[c]
      /\ \A r \in RunIDs : ctlsByRunID'[r] = IF r = run[c] THEN c ELSE ctlsByRunID[r]
      /\ UNCHANGED <<closed, run, seen, worker, wseen, closer, toClose, closing, cseen>>
  <2>1. run[c] \in RunIDs /\ worker[c] = "none"
    BY DEF Add, Linked, LinkedAt
  <2>2. ctlsByRunID \in [RunIDs -> CtlOrNone]
    BY DEF TypeOK
  <2> QED
    BY <2>1, <2>2 DEF Add, wkVars, closeVars
<1>2. CASE seen[c] = None
  <2>1. /\ Update(state, state', c, "Pending")
        /\ Update(login, login', c, "handoff")
        /\ handoffBarrier' = handoffBarrier
    BY <1>2, CoreTypes DEF Update, Add
  <2>2. Linked'
    BY <1>1, <1>2, <2>1 DEF Update, Linked, LinkedAt
  <2>3. Current'
    BY <1>1, <1>2, <2>1 DEF Update, Current, Live, Linked, LinkedAt
  <2>4. OwnEntrySeen'
    BY <1>1, <1>2, <2>1 DEF Update, OwnEntrySeen, Closer
  <2>5. Closer'
    BY <1>1, <1>2, <2>1 DEF Update, Closer
  <2>6. WritingIsCurrent'
    BY <1>1, <1>2, <2>1 DEF Update, WritingIsCurrent, Linked, LinkedAt
  <2>7. BarrierCovers'
    BY <1>1, <1>2, <2>1 DEF Update, BarrierCovers, Live, Linked, LinkedAt
  <2>8. HandoffExclusive'
    BY <1>1, <1>2, <2>1 DEF Update, HandoffExclusive, Live
  <2> QED
    BY <2>2, <2>3, <2>4, <2>5, <2>6, <2>7, <2>8
<1>3. CASE seen[c] # None
  <2>0. PICK old \in Controls : seen[c] = old
    BY <1>3, CoreTypes
  <2>1. /\ old # c /\ run[old] = run[c]
        /\ ctlsByRunID[run[c]] = old /\ seen[c] # None
        /\ login[old] \notin {"idle", "add", "addLock", "close", "writing"}
        /\ \A d \in Controls : state'[d] = IF d = old THEN StateAfterClose(state[d])
                                           ELSE IF d = c THEN "Pending" ELSE state[d]
        /\ Update(login, login', c, "replaced")
        /\ Update(handoffBarrier, handoffBarrier', c, BarrierOf(old))
    BY <1>1, <1>3, <2>0, CoreTypes DEF Update, Add, Current, GateHeld
  <2>2. \/ /\ state[old] = "Pending" /\ ~Live(old)
           /\ state'[old] = "Closed"
           /\ BarrierOf(old) = handoffBarrier[old]
        \/ /\ Live(old)
           /\ state'[old] = "Closing"
           /\ BarrierOf(old) = old
    BY <1>1, <2>1 DEF Current, Linked, LinkedAt, Live, StateAfterClose, BarrierOf
  <2>3. Linked'
    <3>1. /\ worker[old] \notin {"none", "exit"} <=> Live(old) \/ worker[old] = "finish"
          /\ state[old] = "Pending" => worker[old] = "none"
          /\ state'[old] \in {"Closing", "Closed"}
          /\ state'[old] = "Closed" => worker[old] = "none"
      BY <2>1, <2>2, CoreTypes DEF Linked, LinkedAt, Live, WorkerSteps
    <3>2. LinkedAt(c)'
      BY <1>1, <2>1 DEF Update, LinkedAt
    <3>3. LinkedAt(old)'
      BY <1>1, <2>1, <3>1 DEF Update, Linked, LinkedAt
    <3>4. ASSUME NEW d \in Controls, d # c, d # old PROVE LinkedAt(d)'
      BY <1>1, <2>1, <3>4 DEF Update, Linked, LinkedAt
    <3> QED
      BY <3>2, <3>3, <3>4 DEF Linked
  <2>4. Current'
    BY <1>1, <2>1, <2>2 DEF Update, Current, Live, Linked, LinkedAt
  <2>5. OwnEntrySeen'
    BY <1>1, <2>1, <2>2 DEF Update, OwnEntrySeen, Closer
  <2>6. Closer'
    BY <1>1, <2>1, <2>2 DEF Update, Closer
  <2>7. WritingIsCurrent'
    BY <1>1, <2>1, <2>2 DEF Update, WritingIsCurrent, Linked, LinkedAt
  <2>8. BarrierCovers'
    BY <1>1, <2>1, <2>2 DEF Update, BarrierCovers, Live, Linked, LinkedAt, Current
  <2>9. HandoffExclusive'
    BY <1>1, <2>1, <2>2 DEF Update, HandoffExclusive, Live
  <2> QED
    BY <2>3, <2>4, <2>5, <2>6, <2>7, <2>8, <2>9
<1> QED
  BY <1>2, <1>3

\* The control that starts its worker is current, so no other worker of the run is
\* live.
LEMMA LoginStartsKeeps ==
    ASSUME TypeOK, ControlInv, NEW c \in Controls, LoginRespWritten(c), login'[c] = "done"
    PROVE  ControlInv'
<1> USE CorePoints DEF ControlInv
<1>1. /\ login[c] = "writing" /\ run[c] \in RunIDs
      /\ Update(state, state', c, "Running")
      /\ Update(worker, worker', c, "run")
      /\ Update(login, login', c, "done")
      /\ UNCHANGED <<closed, ctlsByRunID, run, handoffBarrier, seen, wseen, closer, toClose,
                     closing, cseen>>
  BY CoreTypes DEF Update, LoginRespWritten, ControlInv, Linked, LinkedAt, mgrVars, ctlVars, loginVars, wkVars, closeVars
<1>2. Linked'
  BY <1>1 DEF Update, Linked, LinkedAt, WritingIsCurrent
<1>3. Current'
  BY <1>1 DEF Update, Current, Live, WritingIsCurrent
<1>4. OwnEntrySeen'
  BY <1>1 DEF Update, OwnEntrySeen
<1>5. Closer'
  BY <1>1 DEF Update, Closer
<1>6. WritingIsCurrent'
  BY <1>1 DEF Update, WritingIsCurrent
<1>7. BarrierCovers'
  BY <1>1 DEF Update, BarrierCovers, Live, WritingIsCurrent, Linked, LinkedAt
<1>8. HandoffExclusive'
  BY <1>1 DEF Update, HandoffExclusive, Live, WritingIsCurrent, BarrierCovers
<1> QED
  BY <1>2, <1>3, <1>4, <1>5, <1>6, <1>7, <1>8

-----------------------------------------------------------------------------
(* Remove and Close. *)

\* What Remove does to the manager: it deletes the entry of c exactly when c is
\* current.
Removes(c) ==
    /\ closed' = closed
    /\ \/ /\ ctlsByRunID[run[c]] = c
          /\ \A r \in RunIDs : ctlsByRunID'[r] = IF r = run[c] THEN None ELSE ctlsByRunID[r]
       \/ /\ ctlsByRunID[run[c]] # c
          /\ ctlsByRunID' = ctlsByRunID

\* An entry c's thread saw while c is current is c's own, so the gate is
\* revalidated, by whomever Remove is called.
LEMMA RemoveDeletes ==
    ASSUME TypeOK, NEW c \in Controls, NEW e, run[c] \in RunIDs,
           ctlsByRunID[run[c]] = c => e = c,
           Owns(c, e, TRUE) => RemoveEntry(c),
           ~Owns(c, e, TRUE) => UNCHANGED <<mgrVars, registry>>
    PROVE  Removes(c)
<1>1. ctlsByRunID \in [RunIDs -> Controls \cup {None}] /\ None \notin Controls
  BY ControlAssumption DEF TypeOK, CtlOrNone
<1> QED
  BY <1>1, Zenon DEF Removes, Owns, Revalidated, Found, RemoveEntry, mgrVars

\* The login handler removes its control.
LEMMA LoginRemoveKeeps ==
    ASSUME TypeOK, ControlInv, NEW c \in Controls, LoginRemove(c)
    PROVE  ControlInv'
<1> USE CorePoints DEF ControlInv
<1>1. /\ login[c] = "removeLock" /\ run[c] \in RunIDs
      /\ Update(login, login', c, "close")
      /\ Update(seen, seen', c, None)
      /\ UNCHANGED <<run, state, handoffBarrier, worker, wseen, closer, toClose, closing, cseen>>
  BY CoreTypes DEF Update, LoginRemove, Linked, LinkedAt, ctlVars, wkVars, closeVars
<1>2. Removes(c)
  <2>1. ctlsByRunID[run[c]] = c => seen[c] = c
    BY <1>1 DEF OwnEntrySeen
  <2>2. /\ Owns(c, seen[c], TRUE) => RemoveEntry(c)
        /\ ~Owns(c, seen[c], TRUE) => UNCHANGED <<mgrVars, registry>>
    BY Zenon DEF LoginRemove
  <2> QED
    BY <1>1, <2>1, <2>2, RemoveDeletes, Zenon
<1>3. Linked'
  BY <1>1, <1>2 DEF Update, Removes, Linked, LinkedAt
<1>4. Current'
  BY <1>1, <1>2 DEF Update, Removes, Current, Live
<1>5. OwnEntrySeen'
  BY <1>1, <1>2 DEF Update, Removes, OwnEntrySeen, Closer
<1>6. Closer'
  BY <1>1, <1>2 DEF Update, Removes, Closer
<1>7. WritingIsCurrent'
  BY <1>1, <1>2 DEF Update, Removes, WritingIsCurrent, Linked, LinkedAt
<1>8. BarrierCovers'
  <2>1. \A d \in Controls : Live(d) => run[d] \in RunIDs /\ login[d] = "done"
    BY DEF Linked, LinkedAt, Live
  <2>2. \A d \in Controls : Live(d)' => Live(d)
    BY <1>1 DEF Live
  <2> QED
    BY <1>1, <1>2, <2>1, <2>2 DEF Update, Removes, BarrierCovers, Current
<1>9. HandoffExclusive'
  BY <1>1, <1>2 DEF Update, Removes, HandoffExclusive, Live
<1> QED
  BY <1>3, <1>4, <1>5, <1>6, <1>7, <1>8, <1>9

\* The worker removes its control.
LEMMA WorkerRemoveKeeps ==
    ASSUME TypeOK, ControlInv, NEW c \in Controls, WorkerRemove(c)
    PROVE  ControlInv'
<1> USE CorePoints DEF ControlInv
<1>1. /\ worker[c] = "removeLock" /\ run[c] \in RunIDs
      /\ Update(worker, worker', c, "finish")
      /\ Update(wseen, wseen', c, None)
      /\ UNCHANGED <<run, state, handoffBarrier, login, seen, closer, toClose, closing, cseen>>
  BY CoreTypes DEF Update, WorkerRemove, Linked, LinkedAt, ctlVars, loginVars, closeVars
<1>2. Removes(c)
  <2>1. ctlsByRunID[run[c]] = c => wseen[c] = c
    BY <1>1 DEF OwnEntrySeen
  <2>2. /\ Owns(c, wseen[c], TRUE) => RemoveEntry(c)
        /\ ~Owns(c, wseen[c], TRUE) => UNCHANGED <<mgrVars, registry>>
    BY Zenon DEF WorkerRemove
  <2> QED
    BY <1>1, <2>1, <2>2, RemoveDeletes, Zenon
<1>3. Linked'
  BY <1>1, <1>2 DEF Update, Removes, Linked, LinkedAt
<1>4. Current'
  BY <1>1, <1>2 DEF Update, Removes, Current, Live, Linked, LinkedAt
<1>5. OwnEntrySeen'
  BY <1>1, <1>2 DEF Update, Removes, OwnEntrySeen, Closer
<1>6. Closer'
  BY <1>1, <1>2 DEF Update, Removes, Closer
<1>7. WritingIsCurrent'
  BY <1>1, <1>2 DEF Update, Removes, WritingIsCurrent, Linked, LinkedAt
<1>8. BarrierCovers'
  BY <1>1, <1>2 DEF Update, Removes, BarrierCovers, Live, HandoffExclusive, Linked, LinkedAt
<1>9. HandoffExclusive'
  BY <1>1, <1>2 DEF Update, Removes, HandoffExclusive, Live
<1> QED
  BY <1>3, <1>4, <1>5, <1>6, <1>7, <1>8, <1>9

\* cm.Close removes a control; the gate keeps it from one whose login is being
\* answered.
LEMMA CloserRemoveKeeps ==
    ASSUME TypeOK, ControlInv, CloserRemove
    PROVE  ControlInv'
<1> USE CorePoints DEF ControlInv
<1>1. /\ closer = "removeLock" /\ closed
      /\ closing \in Controls /\ run[closing] \in RunIDs
      /\ login[closing] \notin {"idle", "add", "addLock"}
      /\ closer' = "close"
      /\ UNCHANGED <<run, state, handoffBarrier, login, seen, worker, wseen, toClose, closing>>
  BY DEF CloserRemove, Closer, ctlVars, loginVars, wkVars
<1>2. /\ Removes(closing)
      /\ ctlsByRunID[run[closing]] = closing => login[closing] # "writing"
  <2>1. ctlsByRunID[run[closing]] = closing => cseen = closing
    BY <1>1 DEF OwnEntrySeen
  <2>2. /\ Owns(closing, cseen, TRUE) => RemoveEntry(closing)
        /\ ~Owns(closing, cseen, TRUE) => UNCHANGED <<mgrVars, registry>>
        /\ ~GateHeld(runMu[cseen])
    BY Zenon DEF CloserRemove
  <2>3. Removes(closing)
    BY <1>1, <2>1, <2>2, RemoveDeletes, Zenon
  <2> QED
    BY <1>1, <2>1, <2>2, <2>3 DEF GateHeld
<1>3. Linked'
  BY <1>1, <1>2 DEF Update, Removes, Linked, LinkedAt
<1>4. Current'
  BY <1>1, <1>2 DEF Update, Removes, Current, Live
<1>5. OwnEntrySeen'
  BY <1>1, <1>2 DEF Update, Removes, OwnEntrySeen
<1>6. Closer'
  BY <1>1, <1>2 DEF Update, Removes, Closer
<1>7. WritingIsCurrent'
  BY <1>1, <1>2 DEF Update, Removes, WritingIsCurrent, Linked, LinkedAt
<1>8. BarrierCovers'
  BY <1>1, <1>2 DEF Update, Removes, BarrierCovers, Live, Linked, LinkedAt
<1>9. HandoffExclusive'
  BY <1>1, <1>2 DEF Update, Removes, HandoffExclusive, Live
<1> QED
  BY <1>3, <1>4, <1>5, <1>6, <1>7, <1>8, <1>9

\* A control the login handler closes is no longer current.
LEMMA LoginCloseKeeps ==
    ASSUME TypeOK, ControlInv, NEW c \in Controls, LoginClose(c)
    PROVE  ControlInv'
<1> USE CorePoints DEF ControlInv
<1>1. /\ login[c] = "close"
      /\ Update(login, login', c, "done")
      /\ Update(state, state', c, StateAfterClose(state[c]))
      /\ UNCHANGED <<closed, ctlsByRunID, run, handoffBarrier, seen, worker, wseen, closer,
                     toClose, closing, cseen>>
  BY CoreTypes DEF Update, LoginClose, CloseControl, mgrVars, ctlVars, loginVars, wkVars, closeVars
<1>2. Linked'
  BY <1>1 DEF Update, Linked, LinkedAt, StateAfterClose
<1>3. Current'
  BY <1>1 DEF Update, Current, Live
<1>4. OwnEntrySeen'
  BY <1>1 DEF Update, OwnEntrySeen, Current
<1>5. Closer'
  BY <1>1 DEF Update, Closer
<1>6. WritingIsCurrent'
  BY <1>1 DEF Update, WritingIsCurrent
<1>7. BarrierCovers'
  BY <1>1 DEF Update, BarrierCovers, Live, Linked, LinkedAt, Current
<1>8. HandoffExclusive'
  BY <1>1 DEF Update, HandoffExclusive, Live
<1> QED
  BY <1>2, <1>3, <1>4, <1>5, <1>6, <1>7, <1>8

\* cm.Close takes the current controls.
LEMMA CloseManagerKeeps ==
    ASSUME TypeOK, ControlInv, CloseManager
    PROVE  ControlInv'
<1> USE CorePoints DEF ControlInv
<1>1. /\ closer = "idle"
      /\ closer' = "next"
      /\ closed' = TRUE
      /\ toClose' = {ctlsByRunID[r] : r \in RunIDs} \ {None}
      /\ UNCHANGED <<ctlsByRunID, run, state, handoffBarrier, login, seen, worker, wseen,
                     closing, cseen>>
  BY CoreTypes DEF Update, CloseManager, mgrVars, ctlVars, loginVars, wkVars, closeVars
<1>2. Linked'
  BY <1>1 DEF Update, Linked, LinkedAt
<1>3. Current'
  BY <1>1 DEF Update, Current, Live
<1>4. OwnEntrySeen'
  BY <1>1 DEF Update, OwnEntrySeen
<1>5. Closer'
  BY <1>1 DEF Update, Closer, Current
<1>6. WritingIsCurrent'
  BY <1>1 DEF Update, WritingIsCurrent
<1>7. BarrierCovers'
  BY <1>1 DEF Update, BarrierCovers, Live
<1>8. HandoffExclusive'
  BY <1>1 DEF Update, HandoffExclusive, Live
<1> QED
  BY <1>2, <1>3, <1>4, <1>5, <1>6, <1>7, <1>8

\* cm.Close picks a control and looks its run up.
LEMMA CloserLookupKeeps ==
    ASSUME TypeOK, ControlInv, NEW c \in Controls, CloserLookup(c)
    PROVE  ControlInv'
<1> USE CorePoints DEF ControlInv
<1>1. /\ closer = "next" /\ c \in toClose
      /\ toClose' = toClose \ {c}
      /\ closing' = c
      /\ cseen' = ctlsByRunID[run[c]]
      /\ closer' = IF ctlsByRunID[run[c]] # None THEN "removeLock" ELSE "close"
      /\ UNCHANGED <<closed, ctlsByRunID, run, state, handoffBarrier, login, seen, worker,
                     wseen>>
  BY CoreTypes DEF Update, CloserLookup, Found, mgrVars, ctlVars, loginVars, wkVars, closeVars
<1>2. Linked'
  BY <1>1 DEF Update, Linked, LinkedAt
<1>3. Current'
  BY <1>1 DEF Update, Current, Live
<1>4. OwnEntrySeen'
  BY <1>1 DEF Update, OwnEntrySeen
<1>5. Closer'
  BY <1>1 DEF Update, Closer
<1>6. WritingIsCurrent'
  BY <1>1 DEF Update, WritingIsCurrent
<1>7. BarrierCovers'
  BY <1>1 DEF Update, BarrierCovers, Live
<1>8. HandoffExclusive'
  BY <1>1 DEF Update, HandoffExclusive, Live
<1> QED
  BY <1>2, <1>3, <1>4, <1>5, <1>6, <1>7, <1>8

\* A control cm.Close closes is no longer current.
LEMMA CloserClosesKeeps ==
    ASSUME TypeOK, ControlInv, CloserCloses
    PROVE  ControlInv'
<1> USE CorePoints DEF ControlInv
<1>1. /\ closer = "close"
      /\ closing \in Controls /\ run[closing] \in RunIDs
      /\ login[closing] \notin {"idle", "add", "addLock", "writing"}
      /\ ctlsByRunID[run[closing]] # closing
      /\ Update(state, state', closing, StateAfterClose(state[closing]))
      /\ closer' = "next"
      /\ UNCHANGED <<closed, ctlsByRunID, run, handoffBarrier, login, seen, worker, wseen,
                     toClose>>
  BY CoreTypes DEF Update, CloserCloses, CloseControl, ControlInv, Closer, mgrVars, ctlVars, loginVars, wkVars, closeVars
<1>2. Linked'
  BY <1>1 DEF Update, Linked, LinkedAt, StateAfterClose
<1>3. Current'
  BY <1>1 DEF Update, Current, Live
<1>4. OwnEntrySeen'
  BY <1>1 DEF Update, OwnEntrySeen
<1>5. Closer'
  BY <1>1 DEF Update, Closer
<1>6. WritingIsCurrent'
  BY <1>1 DEF Update, WritingIsCurrent
<1>7. BarrierCovers'
  BY <1>1 DEF Update, BarrierCovers, Live, Linked, LinkedAt, Current, StateAfterClose
<1>8. HandoffExclusive'
  BY <1>1 DEF Update, HandoffExclusive, Live
<1> QED
  BY <1>2, <1>3, <1>4, <1>5, <1>6, <1>7, <1>8
=============================================================================
