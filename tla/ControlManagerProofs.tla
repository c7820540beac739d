------------------------ MODULE ControlManagerProofs ------------------------
(***************************************************************************)
(* The steps of ControlManager that move no more than one login handler or *)
(* one worker, the work connections, and the theorems about sessions, for  *)
(* any number of controls, run ids, client ids, logins and work            *)
(* connections.                                                            *)
(***************************************************************************)
EXTENDS ControlManagerSteps

(* Moves of one thread. *)

\* A step of the login handler that changes no more than its own place and what it
\* saw.  It may only go where ctl.state allows; the entry it read is the current
\* one; it leaves the barrier behind only when the control that stands for it is
\* done; it starts to write, or to close, only as the owner, or not the owner, of
\* the current entry.
LoginMove(c, to) ==
    /\ login[c] \notin {"idle", "done", "close", "removeLock"}
    /\ to \notin {"idle", "done", "replaced"}
    /\ Update(login, login', c, to)
    /\ \A d \in Controls : d # c => seen'[d] = seen[d]
    /\ to \in {"activateLock", "completeLock", "removeLock"} =>
           seen'[c] = ctlsByRunID[run[c]] /\ seen'[c] # None
    /\ to \in {"add", "addLock"} => login[c] \in {"add", "addLock"}
    /\ login[c] \in {"add", "addLock"} => to \in {"add", "addLock", "remove"}
    /\ login[c] = "remove" => to \in {"removeLock", "close"}
    /\ to = "handoff" => login[c] = "replaced"
    /\ login[c] = "handoff" /\ handoffBarrier[c] # None => state[handoffBarrier[c]] = "Closed"
    /\ login[c] = "replaced" => to = "handoff"
    /\ to = "writing" => ctlsByRunID[run[c]] = c /\ state[c] = "Pending"
    /\ to = "close" => ctlsByRunID[run[c]] = None
    /\ UNCHANGED <<closed, ctlsByRunID, run, state, handoffBarrier, wkVars, closeVars>>

\* Such a move keeps the invariant.
LEMMA LoginMoveKeeps ==
    ASSUME TypeOK, ControlInv, NEW c \in Controls, NEW to, LoginMove(c, to)
    PROVE  ControlInv'
<1> USE CorePoints DEF ControlInv
<1>1. run[c] \in RunIDs /\ UNCHANGED <<worker, wseen, closer, toClose, closing, cseen>>
  BY DEF LoginMove, Linked, LinkedAt, wkVars, closeVars
<1>2. Linked'
  BY <1>1 DEF Update, Linked, LinkedAt, LoginMove
<1>3. Current'
  BY <1>1 DEF Update, Current, Live, LoginMove
<1>4. OwnEntrySeen'
  BY <1>1 DEF Update, OwnEntrySeen, LoginMove, Current
<1>5. Closer'
  BY <1>1 DEF Update, Closer, LoginMove
<1>6. WritingIsCurrent'
  BY <1>1 DEF Update, WritingIsCurrent, LoginMove
<1>7. BarrierCovers'
  BY <1>1 DEF Update, BarrierCovers, Live, LoginMove, Linked, LinkedAt
<1>8. HandoffExclusive'
  BY <1>1 DEF Update, HandoffExclusive, Live, LoginMove
<1> QED
  BY <1>2, <1>3, <1>4, <1>5, <1>6, <1>7, <1>8

\* The steps of the login handler that are such moves.
LEMMA LoginMoves ==
    ASSUME TypeOK, ControlInv, NEW c \in Controls,
           \/ AddLookup(c) \/ AddFails(c) \/ Replaced(c) \/ WaitForHandoff(c)
           \/ LoginLookup(c) \/ Activate(c) \/ CompleteLogin(c)
           \/ LoginRespWritten(c) /\ UNCHANGED <<state, worker>>
    PROVE  ControlInv'
<1>0. /\ login \in [Controls -> LoginSteps]
      /\ seen \in [Controls -> Controls \cup {None}]
  BY CoreTypes
<1>1. CASE AddLookup(c)
  <2>1. LoginMove(c, "addLock")
    BY <1>0, <1>1 DEF LoginMove, Update, AddLookup, mgrVars, ctlVars
  <2> QED
    BY <2>1, LoginMoveKeeps
<1>2. CASE AddFails(c)
  <2>1. LoginMove(c, "remove") \/ LoginMove(c, "add")
    BY <1>0, <1>2 DEF LoginMove, Update, AddFails, mgrVars, ctlVars
  <2> QED
    BY <2>1, LoginMoveKeeps
<1>3. CASE Replaced(c)
  <2>1. LoginMove(c, "handoff")
    BY <1>0, <1>3 DEF LoginMove, Update, Replaced, mgrVars
  <2> QED
    BY <2>1, LoginMoveKeeps
<1>4. CASE WaitForHandoff(c)
  <2>1. LoginMove(c, "activate")
    BY <1>0, <1>4 DEF LoginMove, Update, WaitForHandoff, Done, mgrVars, ctlVars
  <2> QED
    BY <2>1, LoginMoveKeeps
<1>5. CASE LoginLookup(c)
  <2>1. /\ Found(run[c], FALSE) => ctlsByRunID[run[c]] # None
        /\ Found(run[c], TRUE) <=> ctlsByRunID[run[c]] # None
    BY DEF Found
  <2>2. \/ LoginMove(c, "activateLock") \/ LoginMove(c, "completeLock")
        \/ LoginMove(c, "remove") \/ LoginMove(c, "removeLock") \/ LoginMove(c, "close")
    BY <1>0, <1>5, <2>1, Zenon DEF LoginMove, Update, LoginLookup, mgrVars, ctlVars
  <2> QED
    BY <2>2, LoginMoveKeeps
<1>6. CASE Activate(c)
  <2>1. LoginMove(c, "complete") \/ LoginMove(c, "remove")
    BY <1>0, <1>6, Zenon DEF LoginMove, Update, Activate
  <2> QED
    BY <2>1, LoginMoveKeeps
<1>7. CASE CompleteLogin(c)
  <2>1. LoginMove(c, "writing") \/ LoginMove(c, "remove")
    BY <1>0, <1>7, Zenon DEF LoginMove, Update, CompleteLogin, Owns, mgrVars, ctlVars
  <2> QED
    BY <2>1, LoginMoveKeeps
<1>8. CASE LoginRespWritten(c) /\ UNCHANGED <<state, worker>>
  <2>1. login[c] = "writing" /\ state[c] = "Pending"
    BY <1>8 DEF LoginRespWritten, ControlInv, WritingIsCurrent
  <2>2. LoginMove(c, "remove")
    BY CoreTypes, <1>8, <2>1 DEF LoginMove, Update, LoginRespWritten, mgrVars, wkVars
  <2> QED
    BY <2>2, LoginMoveKeeps
<1> QED
  BY <1>1, <1>2, <1>3, <1>4, <1>5, <1>6, <1>7, <1>8

\* A step of the worker between its start and its end that leaves the manager
\* alone, or a ctl.Close that meets a worker.
WorkerMove(c, to, s) ==
    /\ worker[c] \notin {"none", "exit"}
    /\ \/ to = worker[c] /\ wseen' = wseen
       \/ to \in {"drain", "release", "remove"} /\ worker[c] \in {"run", "drain", "release"}
       \/ /\ to = "removeLock" /\ worker[c] = "remove"
          /\ wseen'[c] = ctlsByRunID[run[c]] /\ wseen'[c] # None
       \/ to = "finish" /\ worker[c] = "remove" /\ ctlsByRunID[run[c]] = None
       \/ to = "exit" /\ worker[c] = "finish"
    /\ s = IF to = "exit" THEN "Closed" ELSE "Closing"
    /\ Update(worker, worker', c, to)
    /\ Update(state, state', c, s)
    /\ \A d \in Controls : d # c => wseen'[d] = wseen[d]
    /\ UNCHANGED <<closed, ctlsByRunID, run, handoffBarrier, loginVars, closeVars>>

\* Such a step keeps the invariant.
LEMMA WorkerMoveKeeps ==
    ASSUME TypeOK, ControlInv, NEW c \in Controls, NEW to, NEW s, WorkerMove(c, to, s)
    PROVE  ControlInv'
<1> USE CorePoints DEF ControlInv
<1>1. /\ run[c] \in RunIDs /\ login[c] = "done" /\ state[c] \in {"Running", "Closing"}
      /\ UNCHANGED <<closed, ctlsByRunID, run, handoffBarrier, login, seen, closer, toClose,
                     closing, cseen>>
      /\ \A d \in Controls : d # c => state'[d] = state[d]
  BY DEF WorkerMove, Linked, LinkedAt, Update, loginVars, closeVars
<1>0. ASSUME NEW d \in Controls, Live(d)' PROVE Live(d)
  BY <1>0 DEF WorkerMove, Update, Live
<1>2. Linked'
  BY <1>1 DEF Update, Linked, LinkedAt, WorkerMove
<1>3. Current'
  BY <1>1 DEF Update, Current, Live, WorkerMove
<1>4. OwnEntrySeen'
  BY <1>1 DEF Update, OwnEntrySeen, WorkerMove
<1>5. Closer'
  BY <1>1 DEF Update, Closer, WorkerMove
<1>6. WritingIsCurrent'
  BY <1>1 DEF Update, WritingIsCurrent, WorkerMove
<1>7. BarrierCovers'
  <2>1. \A d \in Controls : Live(d) => run[d] \in RunIDs
    BY DEF Linked, LinkedAt, Live
  <2> QED
    BY <1>0, <1>1, <2>1 DEF BarrierCovers
<1>8. HandoffExclusive'
  BY <1>0, <1>1 DEF HandoffExclusive
<1> QED
  BY <1>2, <1>3, <1>4, <1>5, <1>6, <1>7, <1>8

\* The steps that are such steps of a worker.
LEMMA WorkerMoves ==
    ASSUME TypeOK, ControlInv, NEW c \in Controls,
           \/ HeartbeatTimeout(c) \/ WorkerStops(c) \/ WorkerDrains(c) \/ WorkerReleases(c)
           \/ WorkerLookup(c) \/ WorkerFinishes(c)
    PROVE  ControlInv'
<1> USE CoreTypes DEF Update, mgrVars, ctlVars
<1>0. /\ worker[c] \notin {"none", "exit"} => state[c] \in {"Running", "Closing"}
      /\ worker[c] # "run" => state[c] # "Running"
  BY DEF ControlInv, Linked, LinkedAt
<1>1. CASE HeartbeatTimeout(c)
  <2>1. WorkerMove(c, worker[c], "Closing")
    BY <1>0, <1>1 DEF WorkerMove, HeartbeatTimeout, CloseControl, StateAfterClose, wkVars
  <2> QED
    BY <2>1, WorkerMoveKeeps
<1>2. CASE WorkerStops(c)
  <2>1. WorkerMove(c, "drain", "Closing")
    BY <1>0, <1>2 DEF WorkerMove, WorkerStops
  <2> QED
    BY <2>1, WorkerMoveKeeps
<1>3. CASE WorkerDrains(c)
  <2>1. WorkerMove(c, "release", "Closing")
    BY <1>0, <1>3 DEF WorkerMove, WorkerDrains
  <2> QED
    BY <2>1, WorkerMoveKeeps
<1>4. CASE WorkerReleases(c)
  <2>1. WorkerMove(c, "remove", "Closing")
    BY <1>0, <1>4 DEF WorkerMove, WorkerReleases
  <2> QED
    BY <2>1, WorkerMoveKeeps
<1>5. CASE WorkerLookup(c)
  <2>1. WorkerMove(c, "removeLock", "Closing") \/ WorkerMove(c, "finish", "Closing")
    BY <1>0, <1>5 DEF WorkerMove, WorkerLookup, Found
  <2> QED
    BY <2>1, WorkerMoveKeeps
<1>6. CASE WorkerFinishes(c)
  <2>1. WorkerMove(c, "exit", "Closed")
    BY <1>0, <1>6 DEF WorkerMove, WorkerFinishes
  <2> QED
    BY <2>1, WorkerMoveKeeps
<1> QED
  BY <1>1, <1>2, <1>3, <1>4, <1>5, <1>6

-----------------------------------------------------------------------------
(* All steps. *)

\* Every step of the server, its clients and its operator keeps ControlInv.
LEMMA ControlInvStep ==
    ASSUME TypeOK, ControlInv, [Next]_vars
    PROVE  ControlInv'
<1>1. ASSUME NEW c \in Controls, LoginNext(c) PROVE ControlInv'
  <2>1. CASE LoginRespWritten(c)
    <3>1. login'[c] = "done" \/ UNCHANGED <<state, worker>>
      BY <2>1, CoreTypes DEF LoginRespWritten
    <3> QED
      BY <2>1, <3>1, LoginStartsKeeps, LoginMoves
  <2> QED
    BY <1>1, <2>1, LoginMoves, AddKeeps, LoginRemoveKeeps, LoginCloseKeeps DEF LoginNext
<1>2. ASSUME NEW c \in Controls, WorkerNext(c) PROVE ControlInv'
  BY <1>2, WorkerMoves, WorkerRemoveKeeps DEF WorkerNext
<1>3. CASE CloserNext
  BY <1>3, CloserLookupKeeps, CloserRemoveKeeps, CloserClosesKeeps DEF CloserNext
<1>4. ASSUME NEW w \in WorkConns, WorkNext(w) PROVE ControlInv'
  BY <1>4, Frame, Zenon DEF WorkNext, WorkLookup, GetByID, RegisterWorkConn, mgrVars, ctlVars, loginVars
<1>5. CASE Environment
  <2>1. ASSUME NEW c \in Controls, ConnBreaks(c) PROVE ControlInv'
    BY <2>1, Frame DEF ConnBreaks, mgrVars, loginVars
  <2>2. ASSUME NEW w \in WorkConns, NEW r \in RunIDs, WorkArrives(w, r) PROVE ControlInv'
    BY <2>2, Frame DEF WorkArrives, mgrVars, ctlVars, loginVars
  <2>3. ASSUME NEW w \in WorkConns, NEW c \in Controls, GetWorkConn(c, w) PROVE ControlInv'
    BY <2>3, Frame DEF GetWorkConn, mgrVars, ctlVars, loginVars
  <2> QED
    BY <1>5, <2>1, <2>2, <2>3, NewControlKeeps, RejectLoginKeeps, WorkerMoves,
       CloseManagerKeeps DEF Environment
<1>6. CASE UNCHANGED vars
  BY <1>6, Frame DEF vars, mgrVars, ctlVars, loginVars
<1> QED
  BY <1>1, <1>2, <1>3, <1>4, <1>5, <1>6 DEF Next

-----------------------------------------------------------------------------
(* Work connections. *)

\* The types of the variables of the pool.
LEMMA PoolTypes ==
    ASSUME TypeOK
    PROVE  /\ pool \in [Controls -> SUBSET WorkConns]
           /\ poolClosed \in [Controls -> BOOLEAN]
           /\ work \in [WorkConns -> WorkSteps]
           /\ workRun \in [WorkConns -> RunIDs \cup {NoID}]
           /\ workCtl \in [WorkConns -> Controls \cup {None}]
           /\ None \notin Controls
BY ControlAssumption DEF TypeOK, CtlOrNone

\* The steps of the login handlers, of the workers but for the drain, of cm.Close
\* and of the environment leave the work connections alone, and take no control
\* back to Running or to an earlier step of its worker.
LEMMA PoolFrame ==
    ASSUME TypeOK, Linked, WorkLinked, PoolInv, UNCHANGED poolVars,
           \A c \in Controls :
               /\ worker'[c] \in {"none", "run", "drain"} =>
                      worker[c] \in {"none", "run", "drain"}
               /\ worker[c] \in {"run", "drain"} =>
                      worker'[c] \in {"run", "drain"}
               /\ state'[c] = "Running" => worker'[c] = "run"
    PROVE  WorkLinked' /\ PoolInv'
BY PoolTypes DEF WorkLinked, PoolInv, PoolSound, poolVars

\* The drain step closes what it finds in the channel.
LEMMA WorkerDrainsPool ==
    ASSUME TypeOK, Linked, WorkLinked, PoolInv, NEW c \in Controls, WorkerDrains(c)
    PROVE  WorkLinked' /\ PoolInv'
<1> USE PoolTypes, CoreTypes
<1>1. /\ worker[c] = "drain"
      /\ worker' = [worker EXCEPT ![c] = "release"]
      /\ poolClosed' = [poolClosed EXCEPT ![c] = TRUE]
      /\ pool' = [pool EXCEPT ![c] = {}]
      /\ work' = [w \in WorkConns |-> IF w \in pool[c] THEN "closed" ELSE work[w]]
      /\ UNCHANGED <<workRun, workCtl, state>>
  BY DEF WorkerDrains, ctlVars
<1>2. WorkLinked'
  BY <1>1 DEF WorkLinked, PoolInv
<1>3. PoolInv'
  BY <1>1 DEF PoolInv, PoolSound, Linked, LinkedAt
<1> QED
  BY <1>2, <1>3

\* A connection enters the pool of a running control only.
LEMMA RegisterWorkConnPool ==
    ASSUME TypeOK, Linked, WorkLinked, PoolInv, NEW w \in WorkConns, RegisterWorkConn(w)
    PROVE  WorkLinked' /\ PoolInv'
<1> USE PoolTypes, CoreTypes
<1> DEFINE c == workCtl[w]
<1>1. /\ work[w] = "admitLock" /\ c \in Controls
      /\ \/ /\ state[c] = "Running"
            /\ pool' = [pool EXCEPT ![c] = @ \cup {w}]
            /\ work' = [work EXCEPT ![w] = "pooled"]
         \/ /\ pool' = pool
            /\ work' = [work EXCEPT ![w] = "closed"]
      /\ UNCHANGED <<worker, poolClosed, workRun, workCtl, state>>
  BY DEF RegisterWorkConn, WorkLinked, ctlVars, wkVars
<1>2. WorkLinked'
  BY <1>1 DEF WorkLinked
<1>3. PoolInv'
  <2>1. \A d \in Controls : w \notin pool[d]
    BY <1>1 DEF PoolInv
  <2>2. CASE pool' = pool
    BY <1>1, <2>1, <2>2 DEF PoolInv, PoolSound
  <2>3. CASE pool' # pool
    <3>1. worker[c] = "run"
      BY <1>1, <2>3 DEF Linked, LinkedAt
    <3>2. /\ \A v \in WorkConns : work'[v] = IF v = w THEN "pooled" ELSE work[v]
          /\ \A d \in Controls : pool'[d] = IF d = c THEN pool[d] \cup {w} ELSE pool[d]
          /\ UNCHANGED <<worker, poolClosed, state>>
      BY <1>1, <2>3
    <3>3. ASSUME NEW d \in Controls, NEW v \in pool'[d] PROVE work'[v] = "pooled"
      <4>1. v \in WorkConns /\ (v = w \/ v \in pool[d])
        <5>1. pool'[d] \subseteq pool[d] \cup {w}
          BY <3>2
        <5>2. pool[d] \subseteq WorkConns
          OBVIOUS
        <5> QED
          BY <3>3, <5>1, <5>2
      <4>2. v # w => work[v] = "pooled"
        BY <4>1 DEF PoolInv
      <4> QED
        BY <3>2, <4>1, <4>2
    <3>4. \A v \in WorkConns : work'[v] = "pooled" => \E d \in Controls : v \in pool'[d]
      BY <1>1, <3>2 DEF PoolInv, PoolSound
    <3>5. ASSUME NEW d \in Controls, NEW e \in Controls, d # e PROVE pool'[d] \cap pool'[e] = {}
      <4>1. pool[d] \cap pool[e] = {}
        BY <3>5 DEF PoolInv, PoolSound
      <4> QED
        BY <2>1, <3>2, <3>5, <4>1
    <3>6. \A d \in Controls :
              /\ poolClosed'[d] => worker'[d] \notin {"none", "run", "drain"}
              /\ pool'[d] # {} => worker'[d] \in {"run", "drain"}
              /\ state'[d] = "Running" => ~poolClosed'[d]
      BY <3>1, <3>2 DEF PoolInv, PoolSound
    <3>7. PoolSound'
      BY <3>4, <3>5, <3>6 DEF PoolSound
    <3> QED
      BY <3>3, <3>6, <3>7 DEF PoolInv
  <2> QED
    BY <2>2, <2>3
<1> QED
  BY <1>2, <1>3

\* The other steps of a work connection.
LEMMA WorkConnPool ==
    ASSUME TypeOK, WorkLinked, PoolInv, NEW w \in WorkConns,
           \/ \E r \in RunIDs : WorkArrives(w, r)
           \/ WorkLookup(w)
           \/ GetByID(w)
           \/ \E c \in Controls : GetWorkConn(c, w)
    PROVE  WorkLinked' /\ PoolInv'
<1> USE PoolTypes, CoreTypes DEF ctlVars, wkVars
<1>1. ASSUME NEW r \in RunIDs, WorkArrives(w, r) PROVE WorkLinked' /\ PoolInv'
  <2>1. WorkLinked'
    BY <1>1 DEF WorkLinked, WorkArrives
  <2>2. PoolInv'
    BY <1>1 DEF PoolInv, PoolSound, WorkArrives
  <2> QED
    BY <2>1, <2>2
<1>2. CASE WorkLookup(w)
  <2>1. WorkLinked'
    BY <1>2 DEF WorkLinked, WorkLookup
  <2>2. PoolInv'
    <3>1. /\ work[w] \in {"lookup", "admit"}
          /\ \E v \in {"closed", "lookupLock", "admitLock"} : work' = [work EXCEPT ![w] = v]
          /\ UNCHANGED <<worker, pool, poolClosed, state>>
      BY <1>2 DEF WorkLookup
    <3> QED
      BY <3>1 DEF PoolInv, PoolSound
  <2> QED
    BY <2>1, <2>2
<1>3. CASE GetByID(w)
  <2>1. WorkLinked'
    BY <1>3 DEF WorkLinked, GetByID, Revalidated, Found
  <2>2. PoolInv'
    <3>1. /\ work[w] = "lookupLock"
          /\ \E v \in {"closed", "admit"} : work' = [work EXCEPT ![w] = v]
          /\ UNCHANGED <<worker, pool, poolClosed, state>>
      BY <1>3 DEF GetByID
    <3> QED
      BY <3>1 DEF PoolInv, PoolSound
  <2> QED
    BY <2>1, <2>2
<1>4. ASSUME NEW c \in Controls, GetWorkConn(c, w) PROVE WorkLinked' /\ PoolInv'
  <2>1. /\ w \in pool[c]
        /\ pool' = [pool EXCEPT ![c] = @ \ {w}]
        /\ work' = [work EXCEPT ![w] = "used"]
        /\ UNCHANGED <<worker, poolClosed, workRun, workCtl, state>>
    BY <1>4 DEF GetWorkConn
  <2>2. WorkLinked'
    BY <2>1 DEF WorkLinked, PoolInv
  <2>3. PoolInv'
    BY <2>1 DEF PoolInv, PoolSound
  <2> QED
    BY <2>2, <2>3
<1> QED
  BY <1>1, <1>2, <1>3, <1>4

-----------------------------------------------------------------------------
(* The theorems. *)

\* A fresh manager satisfies the invariant.
LEMMA HandoffInit == Init => HandoffInv
<1> SUFFICES ASSUME Init PROVE HandoffInv
  OBVIOUS
<1>1. TypeOK
  BY TypeInit
<1>2. ControlInv
  BY ControlAssumption DEF Init, ControlInv, Linked, LinkedAt, Current, OwnEntrySeen, Closer,
     WritingIsCurrent, BarrierCovers, HandoffExclusive, Live
<1>3. WorkLinked /\ PoolInv
  BY DEF Init, WorkLinked, PoolInv, PoolSound
<1> QED
  BY <1>1, <1>2, <1>3 DEF HandoffInv

\* Every step keeps what is known of the work connections.
LEMMA PoolStep ==
    ASSUME HandoffInv, TypeOK', ControlInv', [Next]_vars
    PROVE  WorkLinked' /\ PoolInv'
<1> USE DEF HandoffInv, ControlInv
<1>1. ASSUME UNCHANGED <<poolVars, worker>> PROVE WorkLinked' /\ PoolInv'
  BY <1>1, PoolFrame DEF Linked, LinkedAt
<1>2. ASSUME NEW c \in Controls, LoginNext(c) PROVE WorkLinked' /\ PoolInv'
  <2>1. CASE LoginRespWritten(c)
    <3>1. /\ login[c] = "writing" /\ UNCHANGED poolVars
          /\ worker' = worker \/ worker' = [worker EXCEPT ![c] = "run"]
      BY <2>1 DEF LoginRespWritten
    <3>2. worker[c] = "none" /\ worker \in [Controls -> WorkerSteps]
      BY <3>1, CoreTypes DEF Linked, LinkedAt
    <3> QED
      BY <3>1, <3>2, PoolFrame DEF Linked, LinkedAt
  <2>2. CASE ~LoginRespWritten(c)
    BY <1>1, <1>2, <2>2 DEF LoginNext, AddLookup, AddFails, Add, Replaced, WaitForHandoff,
       LoginLookup, Activate, CompleteLogin, LoginRemove, LoginClose, wkVars
  <2> QED
    BY <2>1, <2>2
<1>3. ASSUME NEW c \in Controls, WorkerNext(c) PROVE WorkLinked' /\ PoolInv'
  <2>1. CASE WorkerDrains(c)
    BY <2>1, WorkerDrainsPool
  <2>2. CASE ~WorkerDrains(c)
    <3>1. /\ UNCHANGED poolVars
          /\ \/ worker[c] = "run" /\ worker' = [worker EXCEPT ![c] = "drain"]
             \/ /\ worker[c] \in {"release", "remove", "removeLock", "finish"}
                /\ \E v \in {"remove", "removeLock", "finish", "exit"} :
                       worker' = [worker EXCEPT ![c] = v]
      BY <1>3, <2>2 DEF WorkerNext, WorkerStops, WorkerReleases, WorkerLookup, WorkerRemove,
         WorkerFinishes
    <3> QED
      BY <3>1, CoreTypes, PoolFrame DEF Linked, LinkedAt
  <2> QED
    BY <2>1, <2>2
<1>4. CASE CloserNext
  BY <1>1, <1>4 DEF CloserNext, CloserLookup, CloserRemove, CloserCloses, wkVars
<1>5. ASSUME NEW w \in WorkConns, WorkNext(w) PROVE WorkLinked' /\ PoolInv'
  BY <1>5, WorkConnPool, RegisterWorkConnPool DEF WorkNext
<1>6. CASE Environment
  <2>1. ASSUME NEW c \in Controls,
               \/ \E m \in Logins : NewControl(c, m[1], m[2])
               \/ RejectLogin(c)
               \/ ConnBreaks(c)
               \/ HeartbeatTimeout(c)
        PROVE  WorkLinked' /\ PoolInv'
    BY <1>1, <2>1 DEF NewControl, RejectLogin, ConnBreaks, HeartbeatTimeout, wkVars
  <2>2. CASE CloseManager
    BY <1>1, <2>2 DEF CloseManager, wkVars
  <2> QED
    BY <1>6, <2>1, <2>2, WorkConnPool DEF Environment
<1>7. CASE UNCHANGED vars
  BY <1>1, <1>7 DEF vars, wkVars
<1> QED
  BY <1>2, <1>3, <1>4, <1>5, <1>6, <1>7 DEF Next

\* HandoffInv is inductive.
THEOREM HandoffInvariant == Spec => []HandoffInv
<1>1. HandoffInv /\ [Next]_vars => HandoffInv'
  <2> SUFFICES ASSUME HandoffInv, [Next]_vars PROVE HandoffInv'
    OBVIOUS
  <2>1. TypeOK'
    BY TypeStep DEF HandoffInv, ControlInv
  <2>2. ControlInv'
    BY ControlInvStep DEF HandoffInv
  <2>3. WorkLinked' /\ PoolInv'
    BY <2>1, <2>2, PoolStep
  <2> QED
    BY <2>1, <2>2, <2>3 DEF HandoffInv
<1> QED
  BY <1>1, HandoffInit, PTL DEF Spec

\* The variables of the control manager keep their types.
THEOREM TypeCorrect == Spec => []TypeOK
BY HandoffInvariant, PTL DEF HandoffInv

\* For any number of reconnecting clients, failed logins and shutdowns, at most one
\* generation of a run id holds proxies, ports and names.
THEOREM Exclusive == Spec => []HandoffExclusive
<1>1. HandoffInv => HandoffExclusive
  BY DEF HandoffInv, ControlInv
<1> QED
  BY <1>1, HandoffInvariant, PTL

\* For any pool size, no work connection is lost in the pool of a control that ended.
THEOREM PoolIsSound == Spec => []PoolSound
<1>1. HandoffInv => PoolSound
  BY DEF HandoffInv, PoolInv
<1> QED
  BY <1>1, HandoffInvariant, PTL
=============================================================================
