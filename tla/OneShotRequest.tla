--------------------------- MODULE OneShotRequest ---------------------------
(***************************************************************************)
(* A call that cannot be cancelled is run by a goroutine of its own, which *)
(* delivers the result through a channel of capacity one.  The waiter may  *)
(* give up first: it marks the request cancelled, and from then on the     *)
(* goroutine releases what the call returned.  xudpPrepareRequest and      *)
(* sudpVisitorConnRequest (client/visitor) and udpWorkConnRequest          *)
(* (server/proxy/udp.go) are three copies of this protocol.  A request is a *)
(* record of where the call is, the canceled flag and the connection the   *)
(* call returned; delivery and cancellation hold the request's mutex.      *)
(***************************************************************************)

RequestSteps == {"idle", "running", "ready", "settled"}
Resources    == {"none", "open", "closed"}
Request      == [step : RequestSteps, canceled : BOOLEAN, conn : Resources]

NoRequest == [step |-> "idle", canceled |-> FALSE, conn |-> "none"]

\* The goroutine has been started.
NewRequest == [NoRequest EXCEPT !.step = "running"]

\* close of what a result holds
Recycled(conn) == IF conn = "open" THEN "closed" ELSE conn

\* The call returns, with a connection or with an error: it is buffered for the
\* waiter, or released if the waiter has given up.
Delivered(r, conn) ==
    IF r.canceled
      THEN [r EXCEPT !.step = "settled", !.conn = Recycled(conn)]
      ELSE [r EXCEPT !.step = "ready", !.conn = conn]

\* The waiter receives the result and owns its connection from then on.
Received(r) == [r EXCEPT !.step = "settled", !.conn = "none"]

\* The waiter gives up; a result that is already buffered is released here.
Canceled(r) ==
    IF r.step = "ready"
      THEN [r EXCEPT !.canceled = TRUE, !.step = "settled", !.conn = Recycled(@)]
      ELSE [r EXCEPT !.canceled = TRUE]
=============================================================================
