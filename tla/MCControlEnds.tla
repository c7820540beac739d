---------------------------- MODULE MCControlEnds ----------------------------
(* ControlManager with three controls of one client, in one of two scenarios   *)
(* chosen once: two of them and a work connection on a server that shuts down, *)
(* and a chain of three on one that does not.                                  *)
EXTENDS ControlManager

CONSTANTS r1, c1, c2, c3, w1

MCLogins == {<<r1, NoID>>}

VARIABLE scenario

MCInit == scenario \in {"shutdown", "chain"} /\ Init

\* What the environment leaves undone in a scenario.
MCNext == /\ Next
          /\ scenario = "shutdown" => login'[c3] = "idle"
          /\ scenario = "chain" => work'[w1] = "idle" /\ closer' = "idle"
          /\ UNCHANGED scenario

\* ControlManager's Fairness: it asks nothing of the environment.
MCSpec == MCInit /\ [][MCNext]_<<vars, scenario>> /\ Fairness
=============================================================================
