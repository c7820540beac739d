--------------------------- MODULE UDPQueueProofs ---------------------------
(***************************************************************************)
(* The UDP proxy of frps implements DatagramQueue for every capacity of    *)
(* sendCh and every number of datagrams and work connections.  The mapping *)
(* needs to know of the sender that it only runs while the dispatcher      *)
(* serves or joins, and when it holds a datagram.                          *)
(***************************************************************************)
EXTENDS UDPWorkConn, SequenceTheorems, TLAPS

Queue == INSTANCE DatagramQueue WITH
    Capacity <- SendCap, MayRepeat <- TRUE, next <- arrived, backlog <- Backlog,
    link <- Link, open <- Serving

\* A sequence put behind a single element has that element as its head.
LEMMA PutInFront ==
    ASSUME NEW S, NEW x \in S, NEW s \in Seq(S)
    PROVE  /\ <<x>> \o s \in Seq(S) /\ <<x>> \o s # <<>> /\ Len(<<x>> \o s) = Len(s) + 1
           /\ Head(<<x>> \o s) = x /\ Tail(<<x>> \o s) = s
<1> DEFINE t == <<x>> \o s
<1>1. <<x>> \in Seq(S) /\ Len(<<x>>) = 1 /\ <<x>>[1] = x /\ Len(s) \in Nat
  OBVIOUS
<1>2. /\ t \in Seq(S) /\ Len(t) = Len(s) + 1 /\ t[1] = x
      /\ \A i \in 1..Len(s) : t[i + 1] = s[i]
  BY <1>1, ConcatProperties
<1> HIDE DEF t
<1>3. t # <<>> /\ Head(t) = x
  BY <1>1, <1>2
<1>4. Tail(t) \in Seq(S) /\ Len(Tail(t)) = Len(s) /\ \A i \in 1..Len(s) : Tail(t)[i] = s[i]
  BY <1>1, <1>2, <1>3, HeadTailProperties
<1>5. Tail(t) = s
  BY <1>4, SeqEqual
<1> QED
  BY <1>2, <1>3, <1>5 DEF t

\* Taking the head off a sequence and putting it back gives the sequence.
LEMMA HeadPutBack ==
    ASSUME NEW S, NEW s \in Seq(S), s # <<>>
    PROVE  /\ Head(s) \in S /\ Tail(s) \in Seq(S) /\ <<Head(s)>> \o Tail(s) = s
<1> DEFINE t == <<Head(s)>> \o Tail(s)
<1>1. /\ Head(s) \in S /\ Tail(s) \in Seq(S) /\ Len(Tail(s)) = Len(s) - 1 /\ Len(s) \in Nat \ {0}
      /\ \A i \in 1..Len(Tail(s)) : Tail(s)[i] = s[i + 1]
      /\ Head(s) = s[1]
  BY HeadTailProperties, EmptySeq
<1>2. <<Head(s)>> \in Seq(S) /\ Len(<<Head(s)>>) = 1 /\ <<Head(s)>>[1] = Head(s)
  BY <1>1
<1>3. /\ t \in Seq(S) /\ Len(t) = Len(s)
      /\ \A i \in 1..Len(s) : t[i] = IF i <= 1 THEN <<Head(s)>>[i] ELSE Tail(s)[i - 1]
  BY <1>1, <1>2, ConcatProperties
<1> HIDE DEF t
<1>4. \A i \in 1..Len(s) : t[i] = s[i]
  <2> TAKE i \in 1..Len(s)
  <2>1. CASE i = 1
    BY <1>1, <1>2, <1>3, <2>1
  <2>2. CASE i # 1
    <3>1. i - 1 \in 1..Len(Tail(s)) /\ (i - 1) + 1 = i /\ ~(i <= 1)
      BY <1>1, <2>2
    <3> QED
      BY <1>1, <1>3, <3>1
  <2> QED
    BY <2>1, <2>2
<1>5. t = s
  BY <1>3, <1>4, SeqEqual
<1> QED
  BY <1>1, <1>5 DEF t
-----------------------------------------------------------------------------
Datagrams == Nat \ {0}

SenderInv ==
    /\ sendCh \in Seq(Datagrams) /\ pending \in Nat /\ arrived \in Nat
    /\ sender \in {"off", "idle", "check", "write"}
    /\ sender # "off" => dispatcher \in {"serve", "join", "joinLast"}
    /\ sender = "idle" => pending = 0
    /\ sender \in {"check", "write"} => pending # 0

\* The dispatcher is started by Run.
StartInv == run = "new" => dispatcher = "off"

\* What the mapping and SenderInv read of the state, the dispatcher apart.
seen == <<arrived, sendCh, pending, sender, sent>>

\* A dispatcher that ends empties the backlog, as it ends after the sender; any
\* other step of it that leaves the sender alone is not seen.
LEMMA DispatcherUnseen ==
    ASSUME SenderInv, UNCHANGED seen, sender # "off" => dispatcher' \in {"serve", "join", "joinLast"},
           dispatcher # "ended" \/ dispatcher' = dispatcher
    PROVE  SenderInv' /\ [Queue!QueueNext]_Queue!queueVars
<1>1. SenderInv'
  BY DEF SenderInv, seen
<1>2. CASE dispatcher' = "ended" /\ dispatcher # "ended"
  <2>1. sender = "off" /\ sender' = "off"
    BY <1>2 DEF SenderInv, seen
  <2>2. Queue!End
    BY <1>2, <2>1 DEF Queue!End, Serving, Link, Backlog, seen
  <2> QED
    BY <1>1, <2>2 DEF Queue!QueueNext
<1>3. CASE (dispatcher' = "ended") <=> (dispatcher = "ended")
  <2>1. UNCHANGED Queue!queueVars
    BY <1>3 DEF Queue!queueVars, Serving, Link, Backlog, seen
  <2> QED
    BY <1>1, <2>1
<1> QED
  BY <1>2, <1>3

\* A datagram that the socket reads is appended to the backlog or, when sendCh is
\* full or the dispatcher has ended, refused (pkg/proto/udp ForwardUserConn).
LEMMA UserSendsRefines ==
    ASSUME SendCap \in Nat, SenderInv, UserSends
    PROVE  SenderInv' /\ [Queue!QueueNext]_Queue!queueVars
<1>1. /\ arrived' = arrived + 1 /\ pending' = pending /\ sender' = sender
      /\ dispatcher' = dispatcher /\ sent' = sent
      /\ sendCh' = IF Len(sendCh) < SendCap THEN Append(sendCh, arrived + 1) ELSE sendCh
  BY DEF UserSends, userVars
<1>2. arrived + 1 \in Datagrams /\ sendCh \in Seq(Datagrams) /\ Len(sendCh) \in Nat
  BY DEF SenderInv, Datagrams
<1>3. SenderInv'
  <2>1. sendCh' \in Seq(Datagrams)
    BY <1>1, <1>2
  <2>2. arrived' \in Nat
    BY <1>1 DEF SenderInv
  <2> QED
    BY <1>1, <2>1, <2>2 DEF SenderInv
<1> DEFINE kept == IF pending = 0 THEN <<>> ELSE <<pending>>
<1>4. kept \in Seq(Datagrams) /\ Len(kept) \in {0, 1}
  <2>1. CASE pending = 0
    BY <2>1, EmptySeq
  <2>2. CASE pending # 0
    <3>1. pending \in Datagrams
      BY <2>2 DEF SenderInv, Datagrams
    <3>2. <<pending>> \in Seq(Datagrams) /\ Len(<<pending>>) = 1
      BY <3>1
    <3> QED
      BY <2>2, <3>2
  <2> QED
    BY <2>1, <2>2
<1>5. UNCHANGED <<Link, Serving>>
  BY <1>1 DEF Link, Serving
<1>6. CASE dispatcher = "ended"
  <2>1. Backlog = <<>> /\ Backlog' = <<>> /\ Serving = FALSE
    BY <1>1, <1>6 DEF Backlog, Serving
  <2>2. Queue!Refuse
    BY <1>1, <1>5, <2>1 DEF Queue!Refuse
  <2> QED
    BY <1>3, <2>2 DEF Queue!QueueNext
<1>7. CASE dispatcher # "ended"
  <2>1. Backlog = kept \o sendCh /\ Backlog' = kept \o sendCh' /\ Serving
    BY <1>1, <1>7, Zenon DEF Backlog, Serving
  <2>2. Len(Backlog) = Len(kept) + Len(sendCh)
    BY <1>2, <1>4, <2>1, ConcatProperties
  <2>3. CASE Len(sendCh) < SendCap
    <3>1. Len(Backlog) <= SendCap
      BY <1>2, <1>4, <2>2, <2>3
    <3>2. Backlog' = Append(Backlog, arrived + 1)
      <4>1. sendCh' = sendCh \o <<arrived + 1>> /\ <<arrived + 1>> \in Seq(Datagrams)
        BY <1>1, <1>2, <2>3, AppendIsConcat
      <4>2. Backlog' = (kept \o sendCh) \o <<arrived + 1>>
        BY <1>2, <1>4, <2>1, <4>1, ConcatAssociative
      <4>3. kept \o sendCh \in Seq(Datagrams)
        BY <1>2, <1>4, ConcatProperties
      <4> QED
        BY <1>2, <2>1, <4>2, <4>3, AppendIsConcat
    <3>3. Queue!Accept
      BY <1>1, <1>5, <2>1, <3>1, <3>2, Zenon DEF Queue!Accept
    <3> QED
      BY <1>3, <3>3 DEF Queue!QueueNext
  <2>4. CASE ~(Len(sendCh) < SendCap)
    <3>1. Len(Backlog) >= SendCap
      BY <1>2, <1>4, <2>2, <2>4
    <3>2. Backlog' = Backlog
      BY <1>1, <2>1, <2>4
    <3>3. Queue!Refuse
      BY <1>1, <1>5, <3>1, <3>2 DEF Queue!Refuse
    <3> QED
      BY <1>3, <3>3 DEF Queue!QueueNext
  <2> QED
    BY <2>3, <2>4
<1> QED
  BY <1>6, <1>7

\* The sender's steps: a datagram taken from sendCh stays at the front of the
\* backlog until its write succeeds (server/proxy/udp.go workConnSenderFn).
LEMMA SenderRefines ==
    ASSUME SenderInv, Sender
    PROVE  SenderInv' /\ [Queue!QueueNext]_Queue!queueVars
<1>1. arrived' = arrived /\ dispatcher' = dispatcher /\ sender # "off"
  BY DEF Sender, SenderTakes, SenderChecks, SenderWrites, workerVars
<1>2. dispatcher # "ended" /\ Serving = TRUE /\ Serving' = TRUE /\ Link = "up"
  BY <1>1 DEF SenderInv, Serving, Link
<1>3. CASE SenderTakes /\ sender' = "check"
  <2>1. /\ sendCh # <<>> /\ pending = 0 /\ pending' = Head(sendCh) /\ sendCh' = Tail(sendCh)
        /\ sent' = sent /\ sendCh \in Seq(Datagrams)
    BY <1>3 DEF SenderTakes, SenderInv
  <2>2. /\ sendCh' \in Seq(Datagrams) /\ pending' \in Datagrams
        /\ <<pending'>> \o sendCh' = sendCh
    BY <2>1, HeadPutBack
  <2>3. SenderInv'
    BY <1>1, <1>3, <2>2 DEF SenderInv, Datagrams
  <2>4. Backlog' = Backlog
    <3>1. Backlog = sendCh
      BY <1>2, <2>1, ConcatEmptySeq DEF Backlog
    <3>2. Backlog' = sendCh
      BY <1>1, <1>2, <2>2 DEF Backlog, Datagrams
    <3> QED
      BY <3>1, <3>2
  <2>5. UNCHANGED Queue!queueVars
    BY <1>1, <1>2, <1>3, <2>1, <2>4 DEF Queue!queueVars, Link
  <2> QED
    BY <2>3, <2>5
<1>4. CASE (SenderTakes /\ sender' = "off") \/ SenderChecks
  <2>1. /\ sendCh' = sendCh /\ pending' = pending /\ sent' = sent
        /\ sender' = "off" \/ (sender = "check" /\ sender' = "write")
    BY <1>4 DEF SenderTakes, SenderChecks
  <2>2. SenderInv'
    BY <1>1, <2>1 DEF SenderInv
  <2>3. Backlog' = Backlog
    BY <1>1, <2>1 DEF Backlog
  <2>4. CASE sender' = "off"
    <3>1. Queue!Disconnect
      BY <1>1, <1>2, <2>1, <2>3, <2>4 DEF Queue!Disconnect, Link
    <3> QED
      BY <2>2, <3>1 DEF Queue!QueueNext
  <2>5. CASE sender' = "write"
    <3>1. UNCHANGED Queue!queueVars
      BY <1>1, <1>2, <2>1, <2>3, <2>5 DEF Queue!queueVars, Link
    <3> QED
      BY <2>2, <3>1
  <2> QED
    BY <2>1, <2>4, <2>5
<1>5. CASE SenderWrites
  <2>1. sender = "write" /\ sendCh' = sendCh /\ pending \in Datagrams /\ sendCh \in Seq(Datagrams)
    BY <1>5 DEF SenderWrites, SenderInv, Datagrams
  <2>2. Backlog = <<pending>> \o sendCh
    BY <1>2, <2>1 DEF Backlog, Datagrams
  <2>3. Backlog # <<>> /\ Head(Backlog) = pending /\ Tail(Backlog) = sendCh
    BY <2>1, <2>2, PutInFront
  <2>4. CASE sent' = Append(sent, pending) /\ pending' = 0 /\ sender' = "idle"
    <3>1. SenderInv'
      BY <1>1, <2>1, <2>4 DEF SenderInv
    <3>2. Backlog' = sendCh
      BY <1>1, <1>2, <2>1, <2>4, ConcatEmptySeq DEF Backlog
    <3>3. Queue!Hand
      BY <1>1, <1>2, <2>3, <2>4, <3>2 DEF Queue!Hand, Link
    <3> QED
      BY <3>1, <3>3 DEF Queue!QueueNext
  <2>5. CASE sent' \in {sent, Append(sent, pending)} /\ pending' = pending /\ sender' = "off"
    <3>1. SenderInv'
      BY <1>1, <2>1, <2>5 DEF SenderInv
    <3>2. Backlog' = Backlog
      BY <1>1, <2>1, <2>5 DEF Backlog
    <3>3. Queue!FailedHand
      BY <1>1, <1>2, <2>3, <2>5, <3>2 DEF Queue!FailedHand, Link
    <3> QED
      BY <3>1, <3>3 DEF Queue!QueueNext
  <2> QED
    BY <1>5, <2>4, <2>5 DEF SenderWrites
<1> QED
  BY <1>3, <1>4, <1>5 DEF Sender, SenderTakes

\* The dispatcher's steps: publishing a work connection and starting its workers
\* connects the queue, ending the dispatcher ends it, and whatever happens in
\* between is not seen (server/proxy/udp.go Run, replaceWorkConn).
LEMMA DispatcherRefines ==
    ASSUME SenderInv, Dispatcher
    PROVE  SenderInv' /\ [Queue!QueueNext]_Queue!queueVars
<1>1. arrived' = arrived /\ sendCh' = sendCh /\ pending' = pending /\ sent' = sent
  BY DEF Dispatcher, DispatcherAsks, DispatcherGets, DispatcherGivesUp, DispatcherRetries,
         DispatcherDiscards, DispatcherServes, DispatcherStopsServing, DispatcherJoins, dispatchVars
<1>2. dispatcher # "ended"
  BY DEF Dispatcher, DispatcherAsks, DispatcherGets, DispatcherGivesUp, DispatcherRetries,
         DispatcherDiscards, DispatcherServes, DispatcherStopsServing, DispatcherJoins
<1>3. CASE DispatcherServes /\ dispatcher' = "serve"
  <2>1. /\ dispatcher = "wrap" /\ sender' = IF pending = 0 THEN "idle" ELSE "check"
    BY <1>3 DEF DispatcherServes
  <2>2. sender = "off"
    BY <2>1 DEF SenderInv
  <2>3. SenderInv'
    BY <1>1, <1>3, <2>1 DEF SenderInv
  <2>4. Queue!Connect
    BY <1>1, <1>2, <1>3, <2>1, <2>2 DEF Queue!Connect, Link, Serving, Backlog
  <2> QED
    BY <2>3, <2>4 DEF Queue!QueueNext
<1>4. CASE DispatcherServes /\ dispatcher' # "serve"
  <2>1. sender' = sender /\ dispatcher = "wrap"
    BY <1>4 DEF DispatcherServes, workers
  <2> QED
    BY <1>1, <1>2, <2>1, DispatcherUnseen DEF SenderInv, seen
<1>5. CASE DispatcherStopsServing \/ DispatcherJoins
  <2>1. /\ sender' = sender
        /\ sender # "off" => dispatcher' \in {"serve", "join", "joinLast"}
    BY <1>5 DEF DispatcherStopsServing, DispatcherJoins, workers
  <2> QED
    BY <1>1, <1>2, <2>1, DispatcherUnseen DEF seen
<1>6. CASE \/ DispatcherAsks \/ DispatcherGets \/ DispatcherGivesUp \/ DispatcherRetries
           \/ DispatcherDiscards
  <2>1. sender' = sender /\ dispatcher \in {"sleep", "top", "wait", "retry", "wrap"}
    BY <1>6 DEF DispatcherAsks, DispatcherGets, DispatcherGivesUp, DispatcherRetries,
                DispatcherDiscards, workers
  <2>2. sender = "off"
    BY <2>1 DEF SenderInv
  <2> QED
    BY <1>1, <1>2, <2>1, <2>2, DispatcherUnseen DEF seen
<1> QED
  BY <1>3, <1>4, <1>5, <1>6 DEF Dispatcher

\* Every other goroutine leaves alone what the queue is made of.
LEMMA OthersUnseen ==
    ASSUME SenderInv, StartInv,
           \/ RunFails \/ Run \/ Forwarding \/ RequestReturns \/ Reader
           \/ CloseStarts("control") \/ CloseStep \/ UNCHANGED uvars
    PROVE  SenderInv' /\ [Queue!QueueNext]_Queue!queueVars
<1>1. CASE Run
  <2>1. UNCHANGED seen /\ dispatcher' = "sleep" /\ dispatcher = "off"
    BY <1>1 DEF Run, seen, StartInv
  <2> QED
    BY <2>1, DispatcherUnseen DEF SenderInv
<1>2. CASE ~Run
  <2>1. UNCHANGED seen /\ dispatcher' = dispatcher
    BY <1>2 DEF RunFails, Forwarding, ForwarderStops, ForwarderEnds, WriterSteps, userVars,
                RequestReturns, dispatchVars, workers, Reader, ReaderReads, ReaderDelivers,
                ReaderFails, ReaderNotifies, workerVars, CloseStep, CloseStarts, CloseReturns,
                closeVars, uvars, seen
  <2> QED
    BY <2>1, DispatcherUnseen DEF SenderInv
<1> QED
  BY <1>1, <1>2

\* The dispatcher does nothing before Run has started it.
LEMMA StartedByRun == StartInv /\ [UDPNext]_uvars => StartInv'
<1> SUFFICES ASSUME StartInv, [UDPNext]_uvars, run' = "new"
             PROVE  dispatcher' = "off"
  BY DEF StartInv
<1>1. CASE Dispatcher
  BY <1>1 DEF StartInv, Dispatcher, DispatcherAsks, DispatcherGets, DispatcherGivesUp,
              DispatcherRetries, DispatcherDiscards, DispatcherServes, DispatcherStopsServing,
              DispatcherJoins, dispatchVars
<1>2. CASE ~Dispatcher
  BY <1>2 DEF StartInv, UDPNext, RunFails, Run, UserSends, Forwarding, ForwarderStops,
              ForwarderEnds, WriterSteps, userVars, RequestReturns, dispatchVars, Reader,
              ReaderReads, ReaderDelivers, ReaderFails, ReaderNotifies, Sender, SenderTakes,
              SenderChecks, SenderWrites, workerVars, CloseStep, CloseStarts, CloseReturns,
              closeVars, uvars
<1> QED
  BY <1>1, <1>2

\* The UDP proxy implements DatagramQueue for every capacity of sendCh and every
\* number of datagrams, work connections and callers of Close: whatever the
\* interleaving of the forwarder, the dispatcher, the workers of a round and
\* Close, each step hands over, queues or drops a datagram as the queue may
\* (server/proxy/udp.go Run, "preserves single-consumer ownership of sendCh
\* across reconnects").
THEOREM UDPImplementsQueue ==
    ASSUME SendCap \in Nat
    PROVE  UDPSpec => Queue!QueueSpec
<1>1. UDPInit => SenderInv /\ StartInv /\ Queue!QueueInit
  <2> SUFFICES ASSUME UDPInit PROVE SenderInv /\ StartInv /\ Queue!QueueInit
    OBVIOUS
  <2>1. SenderInv /\ StartInv
    BY EmptySeq DEF UDPInit, SenderInv, StartInv
  <2>2. Backlog = <<>>
    BY DEF UDPInit, Backlog
  <2>3. Queue!QueueInit
    BY <2>2 DEF UDPInit, Queue!QueueInit, Link, Serving
  <2> QED
    BY <2>1, <2>3
<1>2. SenderInv /\ StartInv /\ [UDPNext]_uvars
        => SenderInv' /\ [Queue!QueueNext]_Queue!queueVars
  BY UserSendsRefines, SenderRefines, DispatcherRefines, OthersUnseen DEF UDPNext
<1> QED
  BY <1>1, <1>2, StartedByRun, PTL DEF UDPSpec, Queue!QueueSpec

\* Therefore the proxy of a user's port writes datagrams to its work connections
\* in the order in which the socket read them, however often the connection is
\* replaced and failed writes are tried again (server/proxy/udp.go).
COROLLARY UDPInOrder ==
    ASSUME SendCap \in Nat
    PROVE  UDPSpec => []Queue!InOrder
BY UDPImplementsQueue, Queue!QueueInOrder, PTL
=============================================================================
