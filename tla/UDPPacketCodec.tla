--------------------------- MODULE UDPPacketCodec ---------------------------
(***************************************************************************)
(* The two encodings of a UDP packet on a work connection: the binary body *)
(* of wire protocol v2 (pkg/msg/udp_binary.go), byte for byte with shorter *)
(* IP addresses, and the JSON message of v1 and v2, of which only the size *)
(* matters.  A result is <<value>>, or <<>> for an error.                  *)
(***************************************************************************)
EXTENDS Integers, Sequences, SequencesExt

CONSTANTS MaxUDPPayloadSize,          \* 65507 in the code
          DefaultMaxFramePayloadSize, \* 65536 in the code
          MaxZone                     \* 255 in the code

IPv4len == 1   \* 4 in the code
IPv6len == 3   \* 16 in the code: here two bytes of prefix and the last byte
MappedPrefix == <<255, 255>>

\* A UDPAddr, and NoAddr for a nil one.
NoAddr == [ip |-> <<>>, port |-> -1, zone |-> <<>>]

Uint16(n) == <<n \div 256, n % 256>>

FromUint16(b) == b[1] * 256 + b[2]

\* utf8.Valid of a zone; one byte stands for what no UTF-8 text has.
NotUTF8 == 255
ValidUTF8(z) == NotUTF8 \notin ToSet(z)

\* net.IP.To4: an IPv4 address in either of its forms.
To4(ip) ==
    IF Len(ip) = IPv4len THEN <<ip>>
    ELSE IF Len(ip) = IPv6len /\ SubSeq(ip, 1, 2) = MappedPrefix THEN <<SubSeq(ip, 3, 3)>>
    ELSE <<>>

ValidateBinaryUDPAddr(a) ==
    IF a.port < 0 \/ a.port > 65535 THEN <<>>
    ELSE IF To4(a.ip) # <<>>
      THEN IF a.zone # <<>> THEN <<>> ELSE <<[family |-> 4, a |-> [a EXCEPT !.ip = To4(a.ip)[1]]]>>
    ELSE IF Len(a.ip) # IPv6len \/ Len(a.zone) > MaxZone \/ ~ValidUTF8(a.zone) THEN <<>>
    ELSE <<[family |-> 6, a |-> a]>>

PutBinaryUDPAddr(v) ==
    <<v.family>> \o v.a.ip \o Uint16(v.a.port) \o <<Len(v.a.zone)>> \o v.a.zone

\* A message frame has two bytes of type before the body.
FitsFrame(body) == 2 + Len(body) <= DefaultMaxFramePayloadSize

EncodeUDPPacketBinary(p) ==
    LET hasLocal == p.local # NoAddr
        local  == ValidateBinaryUDPAddr(p.local)
        remote == ValidateBinaryUDPAddr(p.remote)
        body == <<IF hasLocal THEN 3 ELSE 2>>
                \o (IF hasLocal THEN PutBinaryUDPAddr(local[1]) ELSE <<>>)
                \o PutBinaryUDPAddr(remote[1]) \o Uint16(Len(p.content)) \o p.content
    IN  IF p.remote = NoAddr \/ Len(p.content) > MaxUDPPayloadSize THEN <<>>
        ELSE IF (hasLocal /\ local = <<>>) \/ remote = <<>> THEN <<>>
        ELSE IF FitsFrame(body) THEN <<body>> ELSE <<>>

\* readBinaryUDPAddr from an offset: <<address, next offset>>.
ReadBinaryUDPAddr(body, offset) ==
    LET ipLen == IF body[offset] = 4 THEN IPv4len ELSE IPv6len
        port == offset + 1 + ipLen
        zone == port + 3
        zoneLen == body[port + 2]
        zoneBytes == SubSeq(body, zone, zone + zoneLen - 1)
    IN  IF offset > Len(body) \/ body[offset] \notin {4, 6} \/ Len(body) - offset < ipLen + 3 THEN <<>>
        ELSE IF \/ Len(body) - zone + 1 < zoneLen
                \/ body[offset] = 4 /\ zoneLen # 0
                \/ ~ValidUTF8(zoneBytes) THEN <<>>
        ELSE <<[ip |-> SubSeq(body, offset + 1, offset + ipLen),
                port |-> FromUint16(SubSeq(body, port, port + 1)), zone |-> zoneBytes],
               zone + zoneLen>>

\* The payload ends where the body does: neither truncated nor trailed.
PayloadExact(body, at, payloadLen) == Len(body) - at - 1 = payloadLen

DecodeUDPPacketBinary(body) ==
    LET local == IF body[1] = 3 THEN ReadBinaryUDPAddr(body, 2) ELSE <<NoAddr, 2>>
        remote == ReadBinaryUDPAddr(body, local[2])
        at == remote[2]
        payloadLen == FromUint16(SubSeq(body, at, at + 1))
    IN  IF Len(body) < 3 \/ 2 + Len(body) > DefaultMaxFramePayloadSize \/ body[1] \notin {2, 3} THEN <<>>
        ELSE IF local = <<>> THEN <<>>
        ELSE IF remote = <<>> THEN <<>>
        ELSE IF Len(body) - at + 1 < 2 THEN <<>>
        ELSE IF payloadLen > MaxUDPPayloadSize \/ ~PayloadExact(body, at, payloadLen) THEN <<>>
        ELSE <<[local |-> local[1], remote |-> remote[1],
                content |-> SubSeq(body, at + 2, at + 1 + payloadLen)]>>

\* The JSON encoding has the payload in base64, and room for the addresses.
JSONOverhead == 8
JSONSize(p) == 4 * ((Len(p.content) + 2) \div 3) + JSONOverhead

-----------------------------------------------------------------------------
\* The same packet, with an IPv4 address in its short form.
Canonical(p) ==
    LET short(a) == IF To4(a.ip) # <<>> THEN [a EXCEPT !.ip = To4(a.ip)[1]] ELSE a
    IN  [p EXCEPT !.local = short(p.local), !.remote = short(p.remote)]

\* What is encoded is decoded to the same packet, and never from less or more
\* than the whole body (pkg/msg/udp_binary.go).
DecodesExactly(p, more) ==
    LET body == EncodeUDPPacketBinary(p) IN
    body # <<>> =>
        /\ DecodeUDPPacketBinary(body[1]) = <<Canonical(p)>>
        /\ \A k \in 0..Len(body[1]) - 1 : DecodeUDPPacketBinary(SubSeq(body[1], 1, k)) = <<>>
        /\ DecodeUDPPacketBinary(Append(body[1], more)) = <<>>
=============================================================================
