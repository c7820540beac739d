------------------------- MODULE MCProxyRegistration -------------------------
(***************************************************************************)
(* A small frps for ProxyRegistration: two names, two ports, two routes and *)
(* one message for each way a proxy is registered.                          *)
(***************************************************************************)
EXTENDS ProxyRegistration, TLC

CONSTANTS n1, n2, r1, r2, c1, c2

MCControls   == {c1, c2}
ControlSymmetry == Permutations(MCControls)

MCNames      == {n1, n2}
MCAllowPorts == {1, 2}
MCRoutes     == {r1, r2}

Msg(kind, name, port, routes) == [kind |-> kind, name |-> name, port |-> port, routes |-> routes]

MCRequests ==
    {Msg("tcp", n1, NoPort, <<>>),
     Msg("tcpGroup", n1, 1, <<>>), Msg("tcpGroup", n2, 1, <<>>), Msg("tcpGroup", n2, 2, <<>>),
     Msg("stcp", n1, NoPort, <<>>), Msg("xtcp", n1, NoPort, <<>>), Msg("xudp", n1, NoPort, <<>>),
     Msg("http", n1, NoPort, <<r1, r2>>), Msg("http", n2, NoPort, <<r2>>)}

\* Bound: while there are members of a group, the only other proxies are TCP proxies, with
\* which they share the ports; listeners, NAT hole clients and routes are other tables.
InUse == ({ctl[c].proxy : c \in Controls} \cup {ctl[c].proxies[n] : c \in Controls, n \in Names})
             \ {NoProxy}
GroupsByThemselves ==
    LET kinds == {pxy.req.kind : pxy \in InUse}
    IN  "tcpGroup" \in kinds => kinds \subseteq {"tcp", "tcpGroup"}
=============================================================================
