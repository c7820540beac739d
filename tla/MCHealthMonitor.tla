--------------------------- MODULE MCHealthMonitor ---------------------------
(* One monitor and the rounds of its checkWorker; failures counts the failed *)
(* checks since the last one that succeeded.                                 *)
EXTENDS HealthMonitor

VARIABLES monitor, failures

hmvars == <<monitor, failures>>

Init == monitor = NewMonitor /\ failures = 0

Check(ok) == /\ monitor' = CheckWorker(monitor, ok)
             /\ failures' = IF ok THEN 0 ELSE Saturated(failures)

Next == \E ok \in BOOLEAN : Check(ok)

Spec == Init /\ [][Next]_hmvars

-----------------------------------------------------------------------------
\* A healthy proxy is withdrawn (statusFailedFn, health.go:129-133) only after
\* maxFailed checks have failed one after another, as the example configuration
\* says: "If continuous failed in 3 times, the proxy will be removed from frps"
\* (conf/frpc_full_example.toml:209).
WithdrawnAfterContinuousFailures ==
    [][monitor.statusOK /\ ~monitor'.statusOK => failures' = maxFailedTimes]_hmvars
=============================================================================
