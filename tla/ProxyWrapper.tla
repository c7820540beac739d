---------------------------- MODULE ProxyWrapper ----------------------------
(***************************************************************************)
(* A proxy of frpc as its manager sees it (client/proxy/proxy_wrapper.go): *)
(* the phase of its registration at frps, the health flag its monitor sets *)
(* and the configuration it was made from.  The operators give what each   *)
(* method makes of a wrapper and the messages it hands to the transporter. *)
(***************************************************************************)
EXTENDS HealthMonitor, Sequences

CONSTANTS Names,        \* proxy names
          Versions,     \* configurations a proxy can have
          HealthChecked \* the names whose configuration asks for a health check

Phases == {"new", "wait start", "start error", "running", "check failed"}

\* health is 0 (normal) or 1 (failed), as the atomic the callbacks store.
Wrapper == [cfg : Versions, phase : Phases, health : 0..1, monitor : Monitor]

\* A name the manager has no wrapper for.  A stopped wrapper is dropped from the
\* manager, and every method of a closed one returns at once.
NoWrapper == [cfg |-> 0, phase |-> "closed", health |-> 0, monitor |-> NewMonitor]

NewProxyMsg(n, v) == [type |-> "NewProxy", name |-> n, cfg |-> v]
CloseProxyMsg(n)  == [type |-> "CloseProxy", name |-> n, cfg |-> 0]

NewWrapper(n, v) ==
    [cfg |-> v, phase |-> "new",
     health |-> IF n \in HealthChecked THEN 1 ELSE 0, monitor |-> NewMonitor]

\* The phases checkWorker starts a registration from: at once, or after
\* waitResponseTimeout without an answer, or startErrTimeout after an error.
StartsAtOnce(w) == w.phase \in {"new", "check failed"}
RetriesLater(w) == w.phase \in {"wait start", "start error"}

MayStart(w) == w.health = 0 /\ (StartsAtOnce(w) \/ RetriesLater(w))
Started(w)  == [w EXCEPT !.phase = "wait start"]

\* checkWorker withdraws an unhealthy proxy that is registered or asked to be.
MustWithdraw(w) == w.health = 1 /\ w.phase \in {"running", "wait start"}
Withdrawn(w)    == [w EXCEPT !.phase = "check failed"]

\* SetRunningStatus: only an answer somebody waits for counts.  runs says whether
\* the underlying proxy could be run; when it could not, the registration is
\* withdrawn at frps.
SetRunningStatus(w, ok, runs) ==
    IF w.phase # "wait start" THEN w
      ELSE IF ok /\ runs THEN [w EXCEPT !.phase = "running"]
      ELSE [w EXCEPT !.phase = "start error"]

SetRunningSends(n, w, ok, runs) ==
    IF w.phase = "wait start" /\ ok /\ ~runs THEN <<CloseProxyMsg(n)>> ELSE << >>

\* The monitor's callbacks store the health flag; the notification only wakes
\* checkWorker, which also wakes by itself every statusCheckInterval.
Checked(w, ok) ==
    [w EXCEPT !.monitor = CheckWorker(w.monitor, ok),
              !.health  = IF StatusChanged(w.monitor, ok)
                            THEN IF ok THEN 0 ELSE 1
                            ELSE @]
=============================================================================
