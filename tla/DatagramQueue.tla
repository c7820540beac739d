--------------------------- MODULE DatagramQueue ---------------------------
(***************************************************************************)
(* What a user of a relayed UDP port is promised of the datagrams that     *)
(* travel towards the service: they are numbered in the order in which the *)
(* socket read them, wait in a bounded queue, and are handed in that order *)
(* to one connection at a time.  A datagram that finds the queue full is   *)
(* dropped; no other datagram is dropped before it was tried on a          *)
(* connection.  A write that fails leaves it open whether the datagram was *)
(* sent, ends the use of that connection, and either keeps the datagram    *)
(* for the next one (MayRepeat, the UDP proxy of frps) or gives it up (the *)
(* SUDP visitor of frpc).  UDPWorkConn and SUDPVisitor implement this.     *)
(***************************************************************************)
EXTENDS Integers, Sequences, TLAPS

CONSTANTS Capacity,     \* of the queue between the socket and the connection
          MayRepeat     \* whether a datagram whose write failed is tried again

VARIABLES next,         \* datagrams the socket has read
          backlog,      \* read and not yet written, in order
          sent,         \* what connections were given, in order
          link,         \* "up" while a connection is in use
          open          \* FALSE once the service of the port has ended

queueVars == <<next, backlog, sent, link, open>>

QueueTypeOK ==
    /\ next \in Nat
    /\ backlog \in Seq(Nat)
    /\ sent \in Seq(Nat)
    /\ link \in {"up", "down"}
    /\ open \in BOOLEAN

QueueInit == next = 0 /\ backlog = <<>> /\ sent = <<>> /\ link = "down" /\ open = TRUE

Accept ==
    /\ open /\ Len(backlog) <= Capacity
    /\ next' = next + 1 /\ backlog' = Append(backlog, next + 1)
    /\ UNCHANGED <<sent, link, open>>

\* One datagram more than Capacity may wait, the one that was taken from the
\* queue for a connection that is not there yet.
Refuse ==
    /\ open => Len(backlog) >= Capacity
    /\ next' = next + 1
    /\ UNCHANGED <<backlog, sent, link, open>>

Connect    == open /\ link = "down" /\ link' = "up" /\ UNCHANGED <<next, backlog, sent, open>>
Disconnect == link = "up" /\ link' = "down" /\ UNCHANGED <<next, backlog, sent, open>>

Hand ==
    /\ link = "up" /\ backlog # <<>>
    /\ sent' = Append(sent, Head(backlog)) /\ backlog' = Tail(backlog)
    /\ UNCHANGED <<next, link, open>>

FailedHand ==
    /\ link = "up" /\ backlog # <<>>
    /\ sent' \in {sent, Append(sent, Head(backlog))}
    /\ backlog' = IF MayRepeat THEN backlog ELSE Tail(backlog)
    /\ link' = "down"
    /\ UNCHANGED <<next, open>>

End == open /\ open' = FALSE /\ backlog' = <<>> /\ link' = "down" /\ UNCHANGED <<next, sent>>

QueueNext == Accept \/ Refuse \/ Connect \/ Disconnect \/ Hand \/ FailedHand \/ End

QueueSpec == QueueInit /\ [][QueueNext]_queueVars

\* Connections are given the datagrams in the order in which the socket read
\* them, each of them once, or more than once in a row where a failed write is
\* tried again (server/proxy/udp.go workConnSenderFn; client/visitor/sudp.go
\* dispatcher and worker).
InOrder ==
    \A i, j \in 1..Len(sent) :
        i < j => /\ sent[i] <= sent[j]
                 /\ sent[i] = sent[j] => MayRepeat
-----------------------------------------------------------------------------
(* InOrder for every Capacity.  It is not inductive: what is handed next    *)
(* comes from the backlog, which must be increasing, ahead of nothing that  *)
(* was sent, and made of datagrams that the socket has read.                *)

Sorted == \A i, j \in 1..Len(backlog) : i < j => backlog[i] < backlog[j]

Behind ==
    \A i \in 1..Len(sent), j \in 1..Len(backlog) :
        /\ sent[i] <= backlog[j]
        /\ sent[i] = backlog[j] => MayRepeat

Read ==
    /\ \A i \in 1..Len(sent) : sent[i] <= next
    /\ \A i \in 1..Len(backlog) : backlog[i] <= next

QueueInv == QueueTypeOK /\ Sorted /\ Behind /\ Read /\ InOrder

\* A datagram that is written joins what was sent without breaking the order
\* (the write of server/proxy/udp.go workConnSenderFn, client/visitor/sudp.go
\* worker).
LEMMA HandedInOrder ==
    ASSUME QueueInv, backlog # <<>>, sent' = Append(sent, Head(backlog)), next' = next,
           backlog' \in {backlog, Tail(backlog)}, backlog' = backlog => MayRepeat,
           link' \in {"up", "down"}, open' = open
    PROVE  QueueInv'
<1> USE DEF QueueInv
<1> DEFINE n == Len(sent)  h == Head(backlog)
<1>1. /\ backlog \in Seq(Nat) /\ sent \in Seq(Nat) /\ next \in Nat
      /\ h = backlog[1] /\ h \in Nat /\ Len(backlog) \in Nat \ {0} /\ n \in Nat
  BY DEF QueueTypeOK
<1>2. /\ sent' \in Seq(Nat) /\ Len(sent') = n + 1 /\ sent'[n + 1] = h
      /\ \A i \in 1..n : sent'[i] = sent[i]
  BY <1>1
<1> DEFINE Kept(d) == \A i \in 1..Len(backlog') : /\ i + d \in 1..Len(backlog)
                                                 /\ backlog'[i] = backlog[i + d]
                                                 /\ backlog'[i] \in Nat
<1>3. /\ backlog' \in Seq(Nat) /\ Len(backlog') \in Nat
      /\ (Kept(0) /\ MayRepeat) \/ Kept(1)
  <2>1. CASE backlog' = backlog
    BY <1>1, <2>1
  <2>2. CASE backlog' = Tail(backlog)
    BY <1>1, <2>2
  <2> QED
    BY <2>1, <2>2
<1>4. PICK d \in {0, 1} : Kept(d) /\ (d = 0 => MayRepeat)
  BY <1>3
<1> HIDE DEF Kept
<1>5. QueueTypeOK'
  BY <1>2, <1>3 DEF QueueTypeOK
<1>6. Sorted'
  <2> SUFFICES ASSUME NEW i \in 1..Len(backlog'), NEW j \in 1..Len(backlog'), i < j
               PROVE  backlog'[i] < backlog'[j]
    BY DEF Sorted
  <2>1. /\ i + d \in 1..Len(backlog) /\ j + d \in 1..Len(backlog) /\ i + d < j + d
        /\ backlog'[i] = backlog[i + d] /\ backlog'[j] = backlog[j + d]
    BY <1>3, <1>4 DEF Kept
  <2> QED
    BY <2>1 DEF Sorted
<1>7. Behind'
  <2> SUFFICES ASSUME NEW i \in 1..Len(sent'), NEW j \in 1..Len(backlog')
               PROVE  /\ sent'[i] <= backlog'[j]
                      /\ sent'[i] = backlog'[j] => MayRepeat
    BY DEF Behind
  <2>1. /\ j + d \in 1..Len(backlog) /\ backlog'[j] = backlog[j + d]
        /\ backlog[j + d] \in Nat
    BY <1>1, <1>4 DEF Kept
  <2>2. CASE i \in 1..n
    BY <1>2, <2>1, <2>2 DEF Behind
  <2>3. CASE i = n + 1
    <3>1. 1 \in 1..Len(backlog) /\ sent'[i] = backlog[1]
      BY <1>1, <1>2, <2>3
    <3>2. CASE j + d = 1
      BY <1>1, <1>4, <2>1, <3>1, <3>2
    <3>3. CASE j + d # 1
      <4>1. 1 < j + d
        BY <1>1, <2>1, <3>3
      <4>2. backlog[1] < backlog[j + d]
        BY <2>1, <3>1, <4>1 DEF Sorted
      <4>3. backlog[1] \in Nat
        BY <1>1
      <4> QED
        BY <2>1, <3>1, <4>2, <4>3
    <3> QED
      BY <3>2, <3>3
  <2> QED
    BY <1>1, <1>2, <2>2, <2>3
<1>8. Read'
  <2>1. \A i \in 1..Len(sent') : sent'[i] <= next'
    BY <1>1, <1>2 DEF Read
  <2>2. \A i \in 1..Len(backlog') : backlog'[i] <= next'
    BY <1>1, <1>3, <1>4, Zenon DEF Read, Kept
  <2> QED
    BY <2>1, <2>2 DEF Read
<1>9. InOrder'
  <2> SUFFICES ASSUME NEW i \in 1..Len(sent'), NEW j \in 1..Len(sent'), i < j
               PROVE  /\ sent'[i] <= sent'[j]
                      /\ sent'[i] = sent'[j] => MayRepeat
    BY DEF InOrder
  <2>1. i \in 1..n /\ sent'[i] = sent[i]
    BY <1>1, <1>2
  <2>2. CASE j \in 1..n
    BY <1>2, <2>1, <2>2 DEF InOrder
  <2>3. CASE j = n + 1
    BY <1>1, <1>2, <2>1, <2>3 DEF Behind
  <2> QED
    BY <1>1, <1>2, <2>2, <2>3
<1> QED
  BY <1>5, <1>6, <1>7, <1>8, <1>9

\* For every capacity, whether or not failed writes are tried again, and over
\* any number of connections, datagrams are handed over in the order in which
\* the socket read them (server/proxy/udp.go, client/visitor/sudp.go).
THEOREM QueueInOrder == QueueSpec => []InOrder
<1>1. QueueInit => QueueInv
  BY DEF QueueInit, QueueInv, QueueTypeOK, Sorted, Behind, Read, InOrder
<1>2. QueueInv /\ [QueueNext]_queueVars => QueueInv'
  <2> SUFFICES ASSUME QueueInv, [QueueNext]_queueVars
               PROVE  QueueInv'
    OBVIOUS
  <2>1. CASE Accept
    <3>1. /\ backlog' = Append(backlog, next + 1) /\ next' = next + 1
          /\ sent' = sent /\ link' = link /\ open' = open
          /\ backlog \in Seq(Nat) /\ sent \in Seq(Nat) /\ next \in Nat
      BY <2>1 DEF Accept, QueueInv, QueueTypeOK
    <3>2. /\ backlog' \in Seq(Nat) /\ Len(backlog') = Len(backlog) + 1
          /\ \A i \in 1..Len(backlog) : backlog'[i] = backlog[i] /\ backlog[i] \in Nat
          /\ backlog'[Len(backlog) + 1] = next + 1 /\ Len(backlog) \in Nat
      BY <3>1
    <3>3. QueueTypeOK'
      BY <3>1, <3>2 DEF QueueInv, QueueTypeOK
    <3>4. Sorted'
      <4> SUFFICES ASSUME NEW i \in 1..Len(backlog'), NEW j \in 1..Len(backlog'), i < j
                   PROVE  backlog'[i] < backlog'[j]
        BY DEF Sorted
      <4>1. i \in 1..Len(backlog) /\ backlog'[i] = backlog[i] /\ backlog[i] <= next
        BY <3>2 DEF QueueInv, Read
      <4>2. CASE j \in 1..Len(backlog)
        BY <3>2, <4>1, <4>2 DEF QueueInv, Sorted
      <4>3. CASE j = Len(backlog) + 1
        BY <3>1, <3>2, <4>1, <4>3
      <4> QED
        BY <3>2, <4>2, <4>3
    <3>5. Behind'
      BY <3>1, <3>2 DEF QueueInv, Behind, Read
    <3>6. Read'
      BY <3>1, <3>2 DEF QueueInv, Read
    <3>7. InOrder'
      BY <3>1 DEF QueueInv, InOrder
    <3> QED
      BY <3>3, <3>4, <3>5, <3>6, <3>7 DEF QueueInv
  <2>2. CASE Refuse
    BY <2>2 DEF Refuse, QueueInv, QueueTypeOK, Sorted, Behind, Read, InOrder
  <2>3. CASE Connect \/ Disconnect
    BY <2>3 DEF Connect, Disconnect, QueueInv, QueueTypeOK, Sorted, Behind, Read, InOrder
  <2>4. CASE Hand
    <3>1. backlog' # backlog
      BY <2>4 DEF Hand, QueueInv, QueueTypeOK
    <3> QED
      BY <2>4, <3>1, HandedInOrder DEF Hand, QueueInv, QueueTypeOK
  <2>5. CASE FailedHand
    <3>1. CASE sent' = sent
      <4>1. CASE backlog' = backlog
        BY <2>5, <3>1, <4>1
           DEF FailedHand, QueueInv, QueueTypeOK, Sorted, Behind, Read, InOrder
      <4>2. CASE backlog' = Tail(backlog)
        <5>1. /\ backlog' \in Seq(Nat) /\ Len(backlog') = Len(backlog) - 1
              /\ \A i \in 1..Len(backlog') : /\ backlog'[i] = backlog[i + 1]
                                              /\ i + 1 \in 1..Len(backlog)
              /\ Len(backlog) \in Nat
          BY <2>5, <4>2 DEF FailedHand, QueueInv, QueueTypeOK
        <5>2. next' = next /\ link' = "down" /\ open' = open
          BY <2>5 DEF FailedHand
        <5>3. QueueTypeOK' /\ InOrder'
          BY <3>1, <5>1, <5>2 DEF QueueInv, QueueTypeOK, InOrder
        <5>4. Sorted'
          <6> SUFFICES ASSUME NEW i \in 1..Len(backlog'), NEW j \in 1..Len(backlog'), i < j
                       PROVE  backlog'[i] < backlog'[j]
            BY DEF Sorted
          <6>1. /\ i + 1 \in 1..Len(backlog) /\ j + 1 \in 1..Len(backlog) /\ i + 1 < j + 1
                /\ backlog'[i] = backlog[i + 1] /\ backlog'[j] = backlog[j + 1]
            BY <5>1
          <6> QED
            BY <6>1 DEF QueueInv, Sorted
        <5>5. Behind' /\ Read'
          BY <3>1, <5>1, <5>2, Zenon DEF QueueInv, Behind, Read
        <5> QED
          BY <5>3, <5>4, <5>5 DEF QueueInv
      <4> QED
        BY <2>5, <4>1, <4>2 DEF FailedHand
    <3>2. CASE sent' = Append(sent, Head(backlog))
      <4>1. backlog' = backlog => MayRepeat
        BY <2>5 DEF FailedHand, QueueInv, QueueTypeOK
      <4> QED
        BY <2>5, <3>2, <4>1, HandedInOrder DEF FailedHand, QueueInv, QueueTypeOK
    <3> QED
      BY <2>5, <3>1, <3>2 DEF FailedHand
  <2>6. CASE End
    <3>1. /\ backlog' = <<>> /\ Len(backlog') = 0 /\ next' = next /\ sent' = sent
          /\ link' = "down" /\ open' = FALSE
      BY <2>6 DEF End
    <3>2. /\ QueueTypeOK'
          /\ InOrder'
      <4>1. backlog' \in Seq(Nat)
        BY <3>1
      <4>2. QueueTypeOK'
        BY <3>1, <4>1, Zenon DEF QueueInv, QueueTypeOK
      <4>3. InOrder'
        BY <3>1 DEF QueueInv, InOrder
      <4> QED
        BY <4>2, <4>3
    <3>3. 1..Len(backlog') = {}
      BY <3>1
    <3>4. Sorted' /\ Behind'
      BY <3>3 DEF Sorted, Behind
    <3>5. Read'
      BY <3>1, <3>3 DEF QueueInv, Read
    <3> QED
      BY <3>2, <3>4, <3>5 DEF QueueInv
  <2>7. CASE UNCHANGED queueVars
    BY <2>7 DEF queueVars, QueueInv, QueueTypeOK, Sorted, Behind, Read, InOrder
  <2> QED
    BY <2>1, <2>2, <2>3, <2>4, <2>5, <2>6, <2>7 DEF QueueNext
<1> QED
  BY <1>1, <1>2, PTL DEF QueueSpec, QueueInv
=============================================================================
