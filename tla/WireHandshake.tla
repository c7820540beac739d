--------------------------- MODULE WireHandshake ---------------------------
(***************************************************************************)
(* How frpc and frps come to speak the same protocol on a connection       *)
(* (client/connector.go, client/control_session.go, server/service.go,     *)
(* pkg/proto/wire, pkg/util/net): the TLS head byte, the multiplexer, the  *)
(* magic of wire protocol v2, the two Hellos and the first message.  Both  *)
(* sides may be of different versions and configured differently, and the  *)
(* connection may break anywhere.                                          *)
(***************************************************************************)
EXTENDS Integers, Sequences, FiniteSets, SequencesExt

CONSTANTS Algorithms,   \* names of AEAD algorithms
          AlgorithmLists  \* the lists of algorithms a client may advertise

VARIABLES client,       \* configuration of frpc
          server,       \* configuration of frps
          c2s, s2c,     \* what was written and not read yet
          cstep, sstep, \* progress of either side
          cview, sview, \* what either side takes the control connection to be
          hello,        \* the ClientHello the server has read
          broken        \* the connection broke, or a deadline passed

nvars == <<client, server, c2s, s2c, cstep, sstep, cview, sview, hello, broken>>

ClientConfigs == [proto : {"v1", "v2"}, tls : BOOLEAN, headByte : BOOLEAN, mux : BOOLEAN,
                  internal : BOOLEAN, algorithms : AlgorithmLists, codecs : SUBSET {"binary-v1"},
                  first : {"Login", "NewWorkConn", "NewVisitorConn"}]
ServerConfigs == [forceTLS : BOOLEAN, mux : BOOLEAN, algorithms : SUBSET Algorithms \ {{}},
                  binary : BOOLEAN]

\* What one side knows: the protocol, the keys it reads and writes with, and the
\* codec of UDP packets.
NoView == [proto |-> "none", read |-> <<>>, write |-> <<>>, codec |-> "none"]

HandshakeTypeOK ==
    /\ client \in ClientConfigs /\ server \in ServerConfigs /\ broken \in BOOLEAN
    /\ cstep \in {"dial", "write", "hello", "resp", "up", "failed"}
    /\ sstep \in {"tls", "mux", "magic", "first", "message", "handle", "pool", "up", "refused",
                  "failed"}
    /\ DOMAIN cview = DOMAIN NoView /\ DOMAIN sview = DOMAIN NoView

\* A virtual client inside frps uses neither TLS nor the multiplexer; only TLS
\* has the head byte.
HandshakeInit ==
    /\ client \in {c \in ClientConfigs : /\ c.internal => ~c.tls /\ ~c.mux
                                         /\ c.headByte => c.tls}
    /\ server \in ServerConfigs
    /\ c2s = <<>> /\ s2c = <<>> /\ cstep = "dial" /\ sstep = "tls"
    /\ cview = NoView /\ sview = NoView /\ hello = <<>> /\ broken = FALSE

-----------------------------------------------------------------------------
(* Keys and Hellos.                                                        *)

\* NewCryptoContext: the algorithm and the hash of both Hellos, each under its
\* own label and length.
CryptoContext(algorithm, clientHello, serverHello) ==
    [algorithm |-> algorithm, transcript |-> <<"client hello", clientHello, "server hello", serverHello>>]

\* deriveAEADControlKey mixes the algorithm, the transcript and the direction.
Keys(role, context) ==
    LET key(direction) == <<context, direction>>
        up == key("client-to-server") down == key("server-to-client")
    IN  IF role = "client" THEN [read |-> down, write |-> up] ELSE [read |-> up, write |-> down]

\* NewCryptoReadWriter of v1: one key; an internal connection is not encrypted.
PlainKeys == [read |-> <<"plain">>, write |-> <<"plain">>]
V1Keys    == [read |-> <<"v1">>, write |-> <<"v1">>]

View(proto, keys, codec) == [proto |-> proto, read |-> keys.read, write |-> keys.write,
                             codec |-> codec]

\* SelectAEADAlgorithm: the first of the client's list that the server knows.
SelectAEADAlgorithm(list, known) == SelectSeq(list, LAMBDA a : a \in known)

SelectUDPPacketCodec(codecs) ==
    IF server.binary /\ "binary-v1" \in codecs THEN "binary-v1" ELSE "none"

\* NewServerHello: <<algorithm, codec>>, or an error.
NewServerHello(h) ==
    LET usable == SelectAEADAlgorithm(h[2], server.algorithms)
    IN  IF usable = <<>> THEN <<"error">>
        ELSE <<"server hello", Head(usable), SelectUDPPacketCodec(h[3])>>

\* ValidateServerHelloForClient.
ValidServerHello(h) ==
    /\ h[1] = "server hello" /\ h[2] \in Algorithms /\ Contains(client.algorithms, h[2])
    /\ h[3] # "none" => h[3] \in client.codecs

-----------------------------------------------------------------------------
(* frpc.                                                                   *)

\* realConnect and Open: the head byte, TLS, the multiplexer.
Dial ==
    /\ cstep = "dial" /\ cstep' = "write"
    /\ c2s' = (IF client.tls /\ client.headByte THEN <<<<"0x17">>>> ELSE <<>>)
              \o (IF client.tls THEN <<<<"tls">>>> ELSE <<>>)
              \o (IF client.mux THEN <<<<"mux">>>> ELSE <<>>)
    /\ UNCHANGED <<client, server, s2c, sstep, cview, sview, hello, broken>>

\* exchangeLogin sends everything before it reads; a work connection or a
\* visitor's has the magic, but no Hello.
WriteFirst ==
    LET says == <<"client hello", client.algorithms, client.codecs>> IN
    /\ cstep = "write" /\ ~broken
    /\ c2s' = c2s \o (IF client.proto = "v2" THEN <<<<"magic">>>> ELSE <<>>)
                  \o (IF client.proto = "v2" /\ client.first = "Login" THEN <<says>> ELSE <<>>)
                  \o <<<<"message", client.first, client.proto>>>>
    /\ cstep' = IF client.proto = "v2" /\ client.first = "Login" THEN "hello" ELSE "resp"
    /\ UNCHANGED <<client, server, s2c, sstep, cview, sview, hello, broken>>

\* NewClientCryptoContext that trusts the client's own preference.
ReadServerHelloPrefers ==
    LET h == Head(s2c) says == <<"client hello", client.algorithms, client.codecs>> IN
    /\ cstep = "hello" /\ s2c # <<>> /\ s2c' = Tail(s2c)
    /\ IF ValidServerHello(h)
         THEN /\ cstep' = "resp"
              /\ cview' = View("v2", IF client.internal THEN PlainKeys
                                     ELSE Keys("client", CryptoContext(Head(client.algorithms), says, h)), h[3])
         ELSE cstep' = "failed" /\ UNCHANGED cview
    /\ UNCHANGED <<client, server, c2s, sstep, sview, hello, broken>>

\* The ServerHello: its error, or the algorithm and the transcript.
ReadServerHello ==
    LET h == Head(s2c) says == <<"client hello", client.algorithms, client.codecs>> IN
    /\ cstep = "hello" /\ s2c # <<>> /\ s2c' = Tail(s2c)
    /\ IF ValidServerHello(h)
         THEN /\ cstep' = "resp"
              /\ cview' = View("v2", IF client.internal THEN PlainKeys
                                     ELSE Keys("client", CryptoContext(h[2], says, h)), h[3])
         ELSE cstep' = "failed" /\ UNCHANGED cview
    /\ UNCHANGED <<client, server, c2s, sstep, sview, hello, broken>>

\* LoginResp, StartWorkConn or NewVisitorConnResp.
ReadResponse ==
    /\ cstep = "resp" /\ s2c # <<>> /\ s2c' = Tail(s2c)
    /\ cstep' = IF Head(s2c) = <<"response", client.proto>> THEN "up" ELSE "failed"
    /\ cview' = IF client.proto = "v2" THEN cview
                ELSE View("v1", IF client.internal THEN PlainKeys ELSE V1Keys, "none")
    /\ UNCHANGED <<client, server, c2s, sstep, sview, hello, broken>>

-----------------------------------------------------------------------------
(* frps.                                                                   *)

serverRest == <<client, server, cstep, cview, broken>>

ServerFails == sstep' = "failed" /\ UNCHANGED <<c2s, s2c, sview, hello>>

\* CheckAndEnableTLSServerConnWithTimeout.
CheckTLS ==
    LET isHead == c2s[1] = <<"0x17">> isTLS == c2s[1] = <<"tls">> IN
    /\ sstep = "tls" /\ c2s # <<>>
    /\ CASE client.internal -> sstep' = "magic" /\ UNCHANGED <<c2s, s2c, sview, hello>>
         [] ~client.internal /\ isHead -> /\ sstep' = "mux" /\ c2s' = SubSeq(c2s, 3, Len(c2s))
                                          /\ UNCHANGED <<s2c, sview, hello>>
         [] ~client.internal /\ isTLS  -> /\ sstep' = "mux" /\ c2s' = Tail(c2s)
                                          /\ UNCHANGED <<s2c, sview, hello>>
         [] OTHER -> IF server.forceTLS THEN ServerFails
                     ELSE sstep' = "mux" /\ UNCHANGED <<c2s, s2c, sview, hello>>
    /\ UNCHANGED serverRest

\* HandleListener: fmux.Server refuses what does not begin with its header.
AcceptStream ==
    /\ sstep = "mux" /\ c2s # <<>>
    /\ IF ~server.mux THEN sstep' = "magic" /\ UNCHANGED <<c2s, s2c, sview, hello>>
       ELSE IF Head(c2s) = <<"mux">>
              THEN sstep' = "magic" /\ c2s' = Tail(c2s) /\ UNCHANGED <<s2c, sview, hello>>
              ELSE ServerFails
    /\ UNCHANGED serverRest

\* CheckMagic: anything else is v1, and is read again.
CheckMagic ==
    /\ sstep = "magic" /\ c2s # <<>>
    /\ IF Head(c2s) = <<"magic">>
         THEN /\ sstep' = "first" /\ c2s' = Tail(c2s) /\ sview' = [sview EXCEPT !.proto = "v2"]
         ELSE sstep' = "message" /\ sview' = [sview EXCEPT !.proto = "v1"] /\ UNCHANGED c2s
    /\ UNCHANGED <<serverRest, s2c, hello>>

\* readFirstV2Msg, handleClientHello: the answer goes out before the first
\* message is read.
HandleClientHello ==
    LET h == Head(c2s) answer == NewServerHello(h)
        keys == Keys("server", CryptoContext(answer[2], h, answer)) IN
    /\ sstep = "first" /\ c2s # <<>>
    /\ IF h[1] # "client hello" THEN sstep' = "message" /\ UNCHANGED <<c2s, s2c, sview, hello>>
       ELSE /\ c2s' = Tail(c2s) /\ s2c' = Append(s2c, answer) /\ hello' = h
            /\ IF answer = <<"error">> THEN sstep' = "failed" /\ UNCHANGED sview
               ELSE sstep' = "message" /\ sview' = View("v2", keys, answer[3])
    /\ UNCHANGED serverRest

\* ReadMsg in the protocol found.
ReadFirstMsg ==
    /\ sstep = "message" /\ c2s # <<>>
    /\ IF Head(c2s)[1] = "message" /\ Head(c2s)[3] = sview.proto
         THEN sstep' = "handle" /\ c2s' = Tail(c2s) /\ UNCHANGED <<s2c, sview, hello>>
         ELSE ServerFails
    /\ UNCHANGED serverRest

Write(m) == s2c' = IF broken THEN s2c ELSE Append(s2c, m)

\* handleConnection.  The control connection of v2 needs the negotiated keys;
\* a work connection must not have had a Hello.  A plugin, the authentication, an
\* unknown run id or a full pool refuse what is well formed.  Only a work connection
\* that is accepted gets no answer: it waits in the pool.
HandleConnection ==
    LET first == client.first
        malformed == \/ first = "Login" /\ sview.proto = "v2" /\ sview.read = <<>> /\ ~client.internal
                     \/ first = "NewWorkConn" /\ hello # <<>> IN
    /\ sstep = "handle" /\ UNCHANGED <<serverRest, c2s, hello>>
    /\ \/ malformed /\ sstep' = "failed" /\ Write(<<"error">>) /\ UNCHANGED sview
       \/ ~malformed /\ sstep' = "refused" /\ Write(<<"error">>) /\ UNCHANGED sview
       \/ /\ ~malformed
          /\ IF first = "NewWorkConn" THEN sstep' = "pool" /\ UNCHANGED s2c
             ELSE sstep' = "up" /\ Write(<<"response", sview.proto>>)
          /\ sview' = CASE client.internal    -> View(sview.proto, PlainKeys, sview.codec)
                        [] ~client.internal /\ sview.proto = "v1" -> View("v1", V1Keys, "none")
                        [] OTHER              -> sview

\* A user comes, and StartWorkConn goes out; or the control ends and closes its pool.
PoolConnTaken ==
    /\ sstep = "pool" /\ UNCHANGED <<serverRest, c2s, hello, sview>>
    /\ \/ sstep' = "up" /\ Write(<<"response", sview.proto>>)
       \/ sstep' = "refused" /\ UNCHANGED s2c

-----------------------------------------------------------------------------
\* The connection breaks, or a read deadline passes: what is under way is lost.
Breaks ==
    /\ ~broken /\ broken' = TRUE /\ c2s' = <<>> /\ s2c' = <<>>
    /\ UNCHANGED <<client, server, cstep, sstep, cview, sview, hello>>

\* A side that waits for bytes sees the end of the stream or its deadline.
ClientGivesUp ==
    /\ cstep \in {"write", "hello", "resp"} /\ s2c = <<>>
    /\ broken \/ sstep \in {"refused", "failed"}
    /\ cstep' = "failed"
    /\ UNCHANGED <<client, server, c2s, s2c, sstep, cview, sview, hello, broken>>

\* A server whose deadline begins with the magic.
ServerGivesUpLater ==
    /\ sstep \in {"mux", "magic", "first", "message"} /\ c2s = <<>> /\ (broken \/ cstep = "failed")
    /\ sstep' = "failed"
    /\ UNCHANGED <<client, server, c2s, s2c, cstep, cview, sview, hello, broken>>

ServerGivesUp ==
    /\ sstep \in {"tls", "mux", "magic", "first", "message"} /\ c2s = <<>> /\ (broken \/ cstep = "failed")
    /\ sstep' = "failed"
    /\ UNCHANGED <<client, server, c2s, s2c, cstep, cview, sview, hello, broken>>

ClientSteps == Dial \/ WriteFirst \/ ReadServerHello \/ ReadResponse \/ ClientGivesUp
ServerSteps == \/ CheckTLS \/ AcceptStream \/ CheckMagic \/ HandleClientHello \/ ReadFirstMsg
               \/ HandleConnection \/ ServerGivesUp

HandshakeNext == ClientSteps \/ ServerSteps \/ PoolConnTaken \/ Breaks
HandshakeSpec == HandshakeInit /\ [][HandshakeNext]_nvars
-----------------------------------------------------------------------------
(* Properties.                                                             *)

\* Two sides that both take a control connection to be up agree on it: the same
\* protocol and codec, and each reads with the key the other writes with,
\* whatever algorithms and codecs their versions know
\* (client/control_session.go exchangeLogin, server/service.go handleClientHello).
HandshakeAgrees ==
    cstep = "up" /\ sstep = "up" /\ client.first = "Login" =>
        /\ cview.proto = sview.proto /\ cview.codec = sview.codec
        /\ cview.read = sview.write /\ cview.write = sview.read

Compatible ==
    /\ client.internal \/ (client.mux = server.mux /\ (server.forceTLS => client.tls))
    /\ client.proto = "v2" /\ client.first = "Login" =>
          ToSet(client.algorithms) \cap server.algorithms # {}

\* Nobody is turned away for nothing: on a connection that does not break, a
\* handshake that no plugin, authentication or pool refuses fails only between
\* configurations that cannot work together (pkg/util/net/tls.go, pkg/proto/wire
\* CheckMagic, NewServerHello).
RefusedIncompatible ==
    ~broken /\ sstep # "refused" /\ (cstep = "failed" \/ sstep = "failed") => ~Compatible

\* Every handshake ends on both sides, up or failed, also when the connection
\* breaks half way: the deadlines of acceptConnection and exchangeLogin.  A work
\* connection that frps has put into its pool is the one that waits on, without a
\* deadline, for a user (client/control.go handleReqWorkConn).
Settled ==
    \/ cstep \in {"up", "failed"} /\ sstep \in {"pool", "up", "refused", "failed"}
    \/ cstep = "resp" /\ sstep = "pool" /\ ~broken
Pending == ~Settled
=============================================================================
