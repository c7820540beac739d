--------------------------- MODULE ClientRegistry ---------------------------
(***************************************************************************)
(* The registry of connected clients kept by frps                          *)
(* (server/registry/registry.go).  It is a lock-protected pair of maps, so *)
(* every exported method is one atomic function from a registry to a       *)
(* registry; the operators below are those functions.                      *)
(*                                                                         *)
(* A client is stored under its key: the client id it logged in with, or   *)
(* its run id when it sent none.  The user prefix of the key is the same   *)
(* for every client of this model and is left out.  Host name, version,    *)
(* address and timestamps are never read back and are left out too.        *)
(***************************************************************************)
EXTENDS Naturals

CONSTANTS
    RunIDs,      \* run ids a client may log in with
    ClientIDs,   \* explicit client ids a client may log in with
    NoID         \* the empty string: no client id, no run id, no key

ASSUME RegistryAssumption == NoID \notin RunIDs \cup ClientIDs

Keys == RunIDs \cup ClientIDs

ClientInfo ==
    [rawClientID : ClientIDs \cup {NoID}, runID : RunIDs \cup {NoID},
     controlID : Nat, online : BOOLEAN]

\* The value of a key that is not in the map.
NoClient == [rawClientID |-> NoID, runID |-> NoID, controlID |-> 0, online |-> FALSE]

Registry ==
    [clients : [Keys -> ClientInfo], runIndex : [RunIDs -> Keys \cup {NoID}]]

NewClientRegistry ==
    [clients |-> [k \in Keys |-> NoClient], runIndex |-> [r \in RunIDs |-> NoID]]

ClientKey(rawClientID, runID) == IF rawClientID = NoID THEN runID ELSE rawClientID

\* setClientOffline keeps the entry of a client that has an explicit id; an
\* entry stored under a run id is deleted instead.
WithoutOwner(info) ==
    IF info.rawClientID = NoID
    THEN NoClient
    ELSE [info EXCEPT !.runID = NoID, !.controlID = 0, !.online = FALSE]

\* Mutant: the uniqueness check is skipped.
NoConflict(reg, rawClientID, runID) == FALSE

\* An explicit client id is taken while another run is online under it.
Conflict(reg, rawClientID, runID) ==
    LET info == reg.clients[ClientKey(rawClientID, runID)]
    IN  /\ rawClientID # NoID
        /\ info.online
        /\ info.runID \notin {NoID, runID}

\* Mutant: a key is taken over without deleting the run index of its holder.
RegisteredKeepsHolder(reg, rawClientID, runID, controlID) ==
    LET key == ClientKey(rawClientID, runID)
    IN  [clients  |-> [reg.clients EXCEPT ![key] =
                         [rawClientID |-> rawClientID, runID |-> runID,
                          controlID |-> controlID, online |-> TRUE]],
         runIndex |-> [reg.runIndex EXCEPT ![runID] = key]]

\* RegisterWithControlID when there is no conflict: drop the entry this run had
\* under another key, take the key over from whoever held it, own it.
Registered(reg, rawClientID, runID, controlID) ==
    LET key      == ClientKey(rawClientID, runID)
        prev     == reg.runIndex[runID]
        dropPrev == prev \notin {NoID, key} /\ reg.clients[prev].runID = runID
        holder   == reg.clients[key].runID
    IN  [clients  |-> [k \in Keys |->
                         CASE k = key -> [rawClientID |-> rawClientID, runID |-> runID,
                                          controlID |-> controlID, online |-> TRUE]
                           [] k # key /\ k = prev /\ dropPrev -> WithoutOwner(reg.clients[k])
                           [] OTHER -> reg.clients[k]],
         runIndex |-> [r \in RunIDs |->
                         CASE r = runID -> key
                           [] r # runID /\ r = holder -> NoID
                           [] OTHER -> reg.runIndex[r]]]

\* markOfflineByRunID with matchControlID set.
MarkedOffline(reg, runID, controlID) ==
    LET key   == reg.runIndex[runID]
        owned == key # NoID /\ reg.clients[key].runID = runID
                            /\ reg.clients[key].controlID = controlID
        after == [k \in Keys |->
                    IF owned /\ k = key THEN WithoutOwner(reg.clients[k]) ELSE reg.clients[k]]
        stale == key # NoID /\ after[key].runID # runID
    IN  [clients  |-> after,
         runIndex |-> [r \in RunIDs |->
                         IF stale /\ r = runID THEN NoID ELSE reg.runIndex[r]]]
=============================================================================
