--------------------------- MODULE HealthMonitor ---------------------------
(***************************************************************************)
(* The health monitor of a frpc proxy (client/health/health.go): a worker  *)
(* that checks the local service once per interval and calls back when the *)
(* status changes.  A monitor is a record of the fields checkWorker keeps. *)
(* failedTimes is only ever compared with maxFailedTimes, so it is counted *)
(* up to that value.                                                       *)
(***************************************************************************)
EXTENDS Naturals

CONSTANT MaxFailed   \* healthCheck.maxFailed; NewMonitor raises 0 to 1

maxFailedTimes == IF MaxFailed = 0 THEN 1 ELSE MaxFailed

Monitor == [statusOK : BOOLEAN, failedTimes : 0..maxFailedTimes]

NewMonitor == [statusOK |-> FALSE, failedTimes |-> 0]

Saturated(n) == IF n < maxFailedTimes THEN n + 1 ELSE n

\* One round of checkWorker after doCheck returned: TCP dial or HTTP request,
\* both of which end by the check's deadline.
CheckWorker(m, ok) ==
    LET failedTimes == Saturated(m.failedTimes) IN
    IF ok
      THEN [m EXCEPT !.statusOK = TRUE]
      ELSE [m EXCEPT !.failedTimes = failedTimes,
                     !.statusOK = @ /\ failedTimes < maxFailedTimes]

\* statusNormalFn and statusFailedFn are called exactly when the status changes.
StatusChanged(m, ok) == CheckWorker(m, ok).statusOK # m.statusOK
=============================================================================
