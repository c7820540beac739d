----------------------------- MODULE SUDPBridge -----------------------------
(***************************************************************************)
(* frps between the visitor of a SUDP or XUDP proxy and the frpc that      *)
(* serves it (server/proxy/proxy.go joinUserConnection): the two negotiated *)
(* their wire protocol and packet codec each on its own, so frps copies    *)
(* bytes when they agree and otherwise decodes and encodes every message.  *)
(* Direction "in" is from the visitor to the proxy, "out" the other way.   *)
(***************************************************************************)
EXTENDS UDPPacketCodec

CONSTANTS Packets,   \* the packets users and services send
          V1Limit,   \* largest message of v1 (a limit of the library)
          MaxSent    \* packets sent, in both directions together

Dirs == {"in", "out"}
Sides == {"visitor", "proxy"}
From(d) == IF d = "in" THEN "visitor" ELSE "proxy"
To(d)   == IF d = "in" THEN "proxy" ELSE "visitor"

\* What a login can have negotiated: v1 has no codec.
Encodings == {<<"v1", "json">>, <<"v2", "json">>, <<"v2", "binary-v1">>}

VARIABLES enc,       \* encoding of each side
          written,   \* packets sent in each direction, so far
          toBridge,  \* frames on the way to frps, per direction
          toSide,    \* frames on the way from frps, per direction
          got,       \* packets read at the end of each direction
          conn,      \* each side's connection: open, or closed by someone
          copier,    \* the goroutine of each direction: running or ended
          why        \* what ended the bridge first: "none", "peer", "size", "codec"

bvars == <<enc, written, toBridge, toSide, got, conn, copier, why>>

BridgeTypeOK ==
    /\ enc \in [Sides -> Encodings] /\ conn \in [Sides -> {"open", "closed"}]
    /\ copier \in [Dirs -> {"running", "ended"}] /\ why \in {"none", "peer", "size", "codec"}
    /\ Len(written["in"]) + Len(written["out"]) <= MaxSent

BridgeInit ==
    /\ enc \in [Sides -> Encodings]
    /\ written = [d \in Dirs |-> <<>>] /\ toBridge = written /\ toSide = written /\ got = written
    /\ conn = [s \in Sides |-> "open"] /\ copier = [d \in Dirs |-> "running"] /\ why = "none"

-----------------------------------------------------------------------------
(* Reading and writing a message: NewUDPPacketReadWriter.                  *)

Ping == [ping |-> TRUE]
IsPing(m) == DOMAIN m = {"ping"}

\* WriteMsg: <<frame>>, or <<>> when it does not fit.
WriteMsg(e, m) ==
    IF IsPing(m) THEN <<[format |-> <<e[1], "ping">>]>>
    ELSE IF e[2] = "binary-v1"
      THEN LET body == EncodeUDPPacketBinary(m)
           IN IF body = <<>> THEN <<>> ELSE <<[format |-> e, body |-> body[1]]>>
    ELSE IF e[1] = "v2" /\ JSONSize(m) > DefaultMaxFramePayloadSize THEN <<>>
    ELSE <<[format |-> e, packet |-> m]>>

\* DecodeV2MessageFrame, or its counterpart of v1: <<message>>, or <<>> for a
\* type it does not know.
DecodeMessage(e, f) ==
    IF f.format = <<e[1], "ping">> THEN <<Ping>>
    ELSE IF f.format # e THEN <<>>
    ELSE <<f.packet>>

\* ReadMsg: the binary type is decoded here, all others as JSON.
ReadMsg(e, f) ==
    IF e[2] = "binary-v1" /\ f.format = e THEN DecodeUDPPacketBinary(f.body)
    ELSE DecodeMessage(e, f)

\* The library reads no message of v1 over its limit.
TooLong(f) == f.format = <<"v1", "json">> /\ JSONSize(f.packet) > V1Limit

\* isMixedSUDPPacketEncoding.
Mixed == enc["visitor"] # enc["proxy"]

-----------------------------------------------------------------------------
(* The two ends.                                                           *)

\* A side's connection is closed, for the reason given unless there was one before;
\* nobody reads any more what was on its way to that side.
Closes(s, cause) ==
    /\ conn' = [conn EXCEPT ![s] = "closed"] /\ why' = IF why = "none" THEN cause ELSE why
    /\ toSide' = [d \in Dirs |-> IF To(d) = s THEN <<>> ELSE toSide[d]]

\* A packet that does not fit is the end of the connection for its sender.
Sends(d, p) ==
    /\ conn[From(d)] = "open" /\ Len(written["in"]) + Len(written["out"]) < MaxSent
    /\ IF WriteMsg(enc[From(d)], p) = <<>>
         THEN Closes(From(d), "size") /\ UNCHANGED <<written, toBridge>>
         ELSE /\ toBridge' = [toBridge EXCEPT ![d] = @ \o WriteMsg(enc[From(d)], p)]
              /\ written' = [written EXCEPT ![d] = Append(@, p)] /\ UNCHANGED <<toSide, conn, why>>
    /\ UNCHANGED <<enc, got, copier>>

\* The heartbeat of a client proxy or of a visitor; at most one on its way.
SendsPing(d) ==
    /\ conn[From(d)] = "open" /\ toBridge[d] = <<>> /\ toSide[d] = <<>>
    /\ toBridge' = [toBridge EXCEPT ![d] = @ \o WriteMsg(enc[From(d)], Ping)]
    /\ UNCHANGED <<enc, written, toSide, got, conn, copier, why>>

\* The end reads in its own encoding; what it cannot read ends the connection.
Receives(d) ==
    LET f == Head(toSide[d]) m == ReadMsg(enc[To(d)], f) IN
    /\ toSide[d] # <<>> /\ conn[To(d)] = "open"
    /\ IF m = <<>> \/ TooLong(f)
         THEN Closes(To(d), IF m = <<>> THEN "codec" ELSE "size") /\ UNCHANGED got
         ELSE /\ toSide' = [toSide EXCEPT ![d] = Tail(@)]
              /\ got' = IF IsPing(m[1]) THEN got ELSE [got EXCEPT ![d] = Append(@, m[1])]
              /\ UNCHANGED <<conn, why>>
    /\ UNCHANGED <<enc, written, toBridge, copier>>

\* A side closes its connection, or loses it.
SideCloses(s) ==
    /\ conn[s] = "open" /\ Closes(s, "peer")
    /\ UNCHANGED <<enc, written, toBridge, got, copier>>

-----------------------------------------------------------------------------
(* frps.                                                                   *)

\* closeBoth, once; a copier of libio.Join closes both as well.
Ends(d, cause) ==
    /\ copier' = [copier EXCEPT ![d] = "ended"] /\ conn' = [s \in Sides |-> "closed"]
    /\ why' = IF why = "none" THEN cause ELSE why
    /\ toBridge' = [e \in Dirs |-> <<>>] /\ toSide' = [e \in Dirs |-> <<>>]

\* libio.Join copies bytes.
Joins(d) ==
    /\ ~Mixed /\ copier[d] = "running" /\ toBridge[d] # <<>>
    /\ conn[From(d)] = "open" /\ conn[To(d)] = "open"
    /\ toSide' = [toSide EXCEPT ![d] = Append(@, Head(toBridge[d]))]
    /\ toBridge' = [toBridge EXCEPT ![d] = Tail(@)]
    /\ UNCHANGED <<enc, written, got, conn, copier, why>>

\* bridgeSUDPVisitorToProxy and bridgeSUDPProxyToVisitor: a ping of the visitor
\* is dropped, one of the proxy goes on.
Bridges(d) ==
    LET f == Head(toBridge[d])
        m == ReadMsg(enc[From(d)], f)
        out == WriteMsg(enc[To(d)], m[1]) IN
    /\ Mixed /\ copier[d] = "running" /\ toBridge[d] # <<>>
    /\ conn[From(d)] = "open" /\ conn[To(d)] = "open"
    /\ IF m = <<>> \/ TooLong(f) THEN Ends(d, IF m = <<>> THEN "codec" ELSE "size")
       ELSE IF out = <<>> THEN Ends(d, "size")
       ELSE /\ toBridge' = [toBridge EXCEPT ![d] = Tail(@)] /\ UNCHANGED <<copier, conn, why>>
            /\ toSide' = IF IsPing(m[1]) /\ d = "in" THEN toSide
                         ELSE [toSide EXCEPT ![d] = Append(@, out[1])]
    /\ UNCHANGED <<enc, written, got>>

\* Reading from, or writing to, a connection that is closed.
CopierEnds(d) ==
    /\ copier[d] = "running" /\ \E s \in Sides : conn[s] = "closed"
    /\ conn[From(d)] = "closed" \/ toBridge[d] # <<>>
    /\ Ends(d, "peer") /\ UNCHANGED <<enc, written, got>>

Copies(d) == Joins(d) \/ Bridges(d) \/ CopierEnds(d)

BridgeNext ==
    \/ \E d \in Dirs : (\E p \in Packets : Sends(d, p)) \/ SendsPing(d) \/ Receives(d) \/ Copies(d)
    \/ \E s \in Sides : SideCloses(s)

BridgeSpec == BridgeInit /\ [][BridgeNext]_bvars
-----------------------------------------------------------------------------
(* Properties.                                                             *)

\* What one end reads is what the other end wrote, in that order and from the
\* first packet on, whatever the two negotiated (joinUserConnection).
PacketsCarried ==
    \A d \in Dirs : \E k \in 0..Len(written[d]) :
        Len(got[d]) = k /\ \A i \in 1..k : Canonical(got[d][i]) = Canonical(written[d][i])

\* Every packet a side sends survives the binary codec, and no truncated or
\* extended body is taken for a packet (pkg/msg/udp_binary.go).
CodecExact ==
    \A d \in Dirs : toBridge[d] # <<>> /\ written[d] # <<>> => DecodesExactly(Last(written[d]), 0)

\* Nobody ever meets a message it cannot decode: the connections end because a
\* side closed, or a packet did not fit, never because of the encodings
\* (isMixedSUDPPacketEncoding, NewUDPPacketReadWriter).
EncodingsBridged == why # "codec"

\* The bridge does not outlive a connection: once one side is closed both
\* copiers end and both connections are closed (closeBoth).
Pending == \E s \in Sides : conn[s] = "closed"
Settled == (\A s \in Sides : conn[s] = "closed") /\ \A d \in Dirs : copier[d] = "ended"
=============================================================================
