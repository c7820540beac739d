-------------------------- MODULE MCControlManager --------------------------
(* Three controls in one of two scenarios, chosen once: generations of one   *)
(* client on a server that may shut down, and clients that claim each        *)
(* other's ids on a server that does not.                                    *)
EXTENDS ControlManager, TLC

CONSTANTS r1, r2, i1, i2

\* Controls are only ever compared for equality, so a run that checks no liveness
\* property may permute them.
ControlSymmetry == Permutations(Controls)

\* One client that reconnects, without and with a client id.
OneRun == {<<r1, NoID>>, <<r1, i1>>}

\* Two clients that claim the same client id, one of them also another one that
\* is the run id of a third client.
ClaimedClientIDs == {<<r1, i1>>, <<r2, i1>>, <<r1, i2>>, <<i2, NoID>>}

OneClient  == INSTANCE ControlManager WITH Logins <- OneRun, MayShutDown <- TRUE
ManyClients == INSTANCE ControlManager WITH Logins <- ClaimedClientIDs, MayShutDown <- FALSE

VARIABLE scenario

MCInit == scenario \in {"one client", "many clients"} /\ Init

\* Controls that log in with a run id and a client id.
LoggedIn(m) == {c \in Controls : login[c] # "idle" /\ <<run[c], raw[c]>> = m}

Rejected == {c \in Controls : login[c] = "done" /\ state[c] = "none"}

MCNext == /\ \/ /\ scenario = "one client" /\ OneClient!Next
                /\ LoggedIn(<<r1, NoID>>)' # {} => \E c \in Controls : login'[c] = "idle"
             \/ /\ scenario = "many clients" /\ ManyClients!Next
                /\ \A m \in ClaimedClientIDs \ {<<r1, i1>>} : Cardinality(LoggedIn(m)') <= 1
          /\ Rejected' = {} /\ UNCHANGED scenario

MCSpec == MCInit /\ [][MCNext]_<<vars, scenario>>
=============================================================================
