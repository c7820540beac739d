------------------------------ MODULE MCNatHole ------------------------------
(* Attempts of two visitors on a registered proxy, after earlier ones.       *)
EXTENDS NatHole, TLC

Peer(a, b, local) == [mapped |-> <<a, b>>, assisted |-> local]
At(ip, port) == [ip |-> ip, port |-> port]

Easy(ip)      == Peer(At(ip, 40), At(ip, 40), {})
Public(ip)    == Peer(At(ip, 40), At(ip, 40), {ip})
Regular(ip)   == Peer(At(ip, 40), At(ip, 42), {})
Irregular(ip) == Peer(At(ip, 40), At(ip, 60), {})

\* These pairs reach the modes 0 (public visitor), 2 and then 1 (Irregular, Easy) and 4.
MCVisitorPeers == {Public(1), Irregular(1)}
MCClientPeers == {Easy(2), Regular(2)}
MCPriorAttempts == [visitor : MCVisitorPeers, client : {Easy(2)}, times : {3}]
\* The earlier attempts come first.
MCNext == EarlierAttempt \/ (earlier = 0 /\ Next)
MCSpec == Init /\ [][MCNext]_vars
MCSymmetry == Permutations(Visitors)

MCEasyPeer == {Easy(1)}
MCPublicPeer == {Public(2)}
MCFewAttempts == [visitor : MCEasyPeer, client : MCPublicPeer, times : 0..6]

MCIrregularPeer == {Irregular(1)}
MCRegularPeer == {Regular(2)}
MCManyAttempts == [visitor : MCIrregularPeer, client : MCRegularPeer, times : {31}]
=============================================================================
