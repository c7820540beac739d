----------------------------- MODULE PortManager -----------------------------
(***************************************************************************)
(* The port manager of frps (server/ports/ports.go).  A manager is a record *)
(* of the free ports, the proxy each used port was handed to, and for every *)
(* proxy name the port it had last, which is reserved for it.  Every method *)
(* holds the manager's mutex and is one function here; whether a port can   *)
(* be bound is up to the operating system and is a parameter.               *)
(***************************************************************************)
EXTENDS Naturals

CONSTANTS
    Names,      \* proxy names
    AllowPorts, \* the ports frps may hand out
    NoName      \* no entry

NoPort == 0

ASSUME PortAssumption ==
    /\ AllowPorts \subseteq Nat \ {NoPort}
    /\ NoName \notin Names

Reservation == [port : AllowPorts \cup {NoPort}, closed : BOOLEAN]
Manager ==
    [freePorts : SUBSET AllowPorts, usedPorts : [AllowPorts -> Names \cup {NoName}],
     reservedPorts : [Names -> Reservation]]

NoReservation == [port |-> NoPort, closed |-> FALSE]

NewManager ==
    [freePorts |-> AllowPorts, usedPorts |-> [p \in AllowPorts |-> NoName],
     reservedPorts |-> [n \in Names |-> NoReservation]]

\* An acquisition that leaves the port among the free ones.
markPortStillFree(pm, name, port) ==
    [freePorts     |-> pm.freePorts,
     usedPorts     |-> [pm.usedPorts EXCEPT ![port] = name],
     reservedPorts |-> [pm.reservedPorts EXCEPT ![name] = [port |-> port, closed |-> FALSE]]]

markPortAcquired(pm, name, port) ==
    [freePorts     |-> pm.freePorts \ {port},
     usedPorts     |-> [pm.usedPorts EXCEPT ![port] = name],
     reservedPorts |-> [pm.reservedPorts EXCEPT ![name] = [port |-> port, closed |-> FALSE]]]

\* The ports Acquire may hand out for a request, given those the system can bind.  A
\* request for any port gets the one the proxy had before, if it can be bound, else
\* some free one; a request for a port gets that one, if it is free.
Acquirable(pm, name, port, available) ==
    IF port # NoPort THEN {port} \cap pm.freePorts \cap available
    ELSE IF pm.reservedPorts[name].port \in available THEN {pm.reservedPorts[name].port}
    ELSE pm.freePorts \cap available

\* The reservation of the proxy that had the port is the same record as its entry in
\* usedPorts as long as the proxy has acquired no other port since.
Release(pm, port) ==
    LET name == pm.usedPorts[port] IN
    IF name = NoName THEN pm
    ELSE [freePorts |-> pm.freePorts \cup {port},
          usedPorts |-> [pm.usedPorts EXCEPT ![port] = NoName],
          reservedPorts |->
            IF pm.reservedPorts[name].port = port
              THEN [pm.reservedPorts EXCEPT ![name].closed = TRUE]
              ELSE pm.reservedPorts]

\* The reservation of a name is dropped a day after its port was released.
CleanReserved(pm, name) == [pm EXCEPT !.reservedPorts[name] = NoReservation]
=============================================================================
