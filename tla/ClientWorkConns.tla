-------------------------- MODULE ClientWorkConns --------------------------
(***************************************************************************)
(* What frpc's proxies do with a work connection (client/proxy/proxy.go,   *)
(* sudp.go, udp.go): a TCP proxy joins it with a connection to the local   *)
(* service, an SUDP proxy runs three goroutines and a forwarder on it until*)
(* any of them ends, a UDP proxy serves the latest one and closes the one  *)
(* it replaces.  InWorkConn is a goroutine of its own, so it may still run *)
(* after the proxy is closed.  An open work connection is stalled once its *)
(* peer has stopped reading for good: a write on it does not return before *)
(* the connection is closed or breaks.                                     *)
(***************************************************************************)
EXTENDS Integers

CONSTANTS WorkConns,    \* work connections
          Nobody,
          SendCap       \* capacity of sendCh (1024)

Kinds == {"tcp", "sudp", "udp"}

VARIABLES kind,         \* the type of the proxy
          stopped,      \* Close was called by the wrapper
          handler,      \* connection -> step of InWorkConn
          workConn,     \* connection -> state of the work connection
          localConn,    \* connection -> state of the connection to the service
          chans,        \* connection -> state of its readCh and sendCh
          queued,       \* connection -> messages in its sendCh
          sender, reader, beat, forwarder,  \* connection -> step of the goroutine and its channels
          current,      \* udp: the connection whose resources the proxy holds
          closed,       \* udp: the flag
          raced         \* udp: an InWorkConn met another one or Close before it published

wvars == <<kind, stopped, handler, workConn, localConn, chans, queued, sender, reader, beat,
           forwarder, current, closed, raced>>

Routine == [step : {"none", "wait", "busy", "ended"}, ch : WorkConns \cup {Nobody}]

WorkConnsTypeOK ==
    /\ kind \in Kinds /\ stopped \in BOOLEAN /\ closed \in BOOLEAN /\ raced \in BOOLEAN
    /\ handler \in [WorkConns -> {"none", "callback", "address", "wrap", "plugin", "kept", "dial",
                       "header", "join", "publish", "sender", "reader", "beat", "forward",
                       "returned"}]
    /\ workConn \in [WorkConns -> {"none", "open", "stalled", "closed"}]
    /\ localConn \in [WorkConns -> {"none", "open", "closed"}]
    /\ chans \in [WorkConns -> {"none", "open", "closed", "panic"}]
    /\ queued \in [WorkConns -> 0..SendCap]
    /\ \A r \in {sender, reader, beat, forwarder} : r \in [WorkConns -> Routine]
    /\ current \in WorkConns \cup {Nobody}

Idle == [c \in WorkConns |-> [step |-> "none", ch |-> Nobody]]

WorkConnsInit ==
    /\ kind \in Kinds /\ stopped = FALSE /\ closed = FALSE /\ raced = FALSE /\ current = Nobody
    /\ handler = [c \in WorkConns |-> "none"] /\ workConn = [c \in WorkConns |-> "none"]
    /\ localConn = [c \in WorkConns |-> "none"] /\ chans = [c \in WorkConns |-> "none"]
    /\ queued = [c \in WorkConns |-> 0]
    /\ sender = Idle /\ reader = Idle /\ beat = Idle /\ forwarder = Idle

routines == <<sender, reader, beat, forwarder>>
udpState == <<current, closed, raced>>

Handle(c, s) == handler' = [handler EXCEPT ![c] = s]
CloseWork(c) == workConn' = [workConn EXCEPT ![c] = "closed"]

\* Wrapper.InWorkConn: the proxy is running.
Arrives(c) ==
    /\ ~stopped /\ handler[c] = "none" /\ workConn' = [workConn EXCEPT ![c] = "open"]
    /\ Handle(c, IF kind = "tcp" THEN "callback" ELSE IF kind = "sudp" THEN "wrap" ELSE "address")
    /\ UNCHANGED <<kind, stopped, localConn, chans, queued, routines, udpState>>

-----------------------------------------------------------------------------
(* TCP.                                                                    *)

tcpRest == <<kind, stopped, chans, queued, routines, udpState>>

\* The callback of BaseProxy.InWorkConn may have dealt with the connection.
Callback(c) ==
    /\ handler[c] = "callback"
    /\ \/ Handle(c, "returned") /\ CloseWork(c)
       \/ Handle(c, "address") /\ UNCHANGED workConn
    /\ UNCHANGED <<tcpRest, localConn>>

\* HandleTCPWorkConnection resolves the addresses and wraps the connection; any
\* error closes it.
Resolves(c) ==
    /\ kind = "tcp" /\ handler[c] \in {"address", "wrap"}
    /\ \/ Handle(c, "returned") /\ CloseWork(c)
       \/ Handle(c, IF handler[c] = "address" THEN "wrap" ELSE "plugin") /\ UNCHANGED workConn
    /\ UNCHANGED <<tcpRest, localConn>>

\* A plugin handles the connection: it has closed it when Handle returns, or keeps it
\* for its own server.  Without a plugin the service is dialled.
Plugin(c) ==
    /\ handler[c] = "plugin"
    /\ \/ Handle(c, "returned") /\ CloseWork(c)
       \/ Handle(c, "kept") /\ UNCHANGED workConn
       \/ Handle(c, "dial") /\ UNCHANGED workConn
    /\ UNCHANGED <<tcpRest, localConn>>

\* The plugin has served the connection it kept.
PluginCloses(c) ==
    /\ handler[c] = "kept" /\ Handle(c, "returned") /\ CloseWork(c)
    /\ UNCHANGED <<tcpRest, localConn>>

Dial(c) ==
    /\ handler[c] = "dial"
    /\ \/ Handle(c, "returned") /\ CloseWork(c) /\ UNCHANGED localConn
       \/ /\ Handle(c, "header") /\ localConn' = [localConn EXCEPT ![c] = "open"]
          /\ UNCHANGED workConn
    /\ UNCHANGED tcpRest

\* The PROXY protocol header cannot be written to the service.
HeaderFails(c) ==
    /\ handler[c] = "header" /\ Handle(c, "returned") /\ CloseWork(c)
    /\ localConn' = [localConn EXCEPT ![c] = "closed"]
    /\ UNCHANGED tcpRest

Joins(c) == /\ handler[c] = "header" /\ Handle(c, "join")
            /\ UNCHANGED <<tcpRest, workConn, localConn>>

\* Join ends when either side does, and closes both.
JoinEnds(c) ==
    /\ handler[c] = "join" /\ Handle(c, "returned") /\ CloseWork(c)
    /\ localConn' = [localConn EXCEPT ![c] = "closed"]
    /\ UNCHANGED tcpRest

-----------------------------------------------------------------------------
(* SUDP.                                                                   *)

Started(c) == [step |-> "wait", ch |-> c]
Ended      == [step |-> "ended", ch |-> Nobody]

\* wrapWorkConn and NewUDPPacketReadWriter close the connection if they fail.
SUDPInWorkConn(c) ==
    /\ kind = "sudp" /\ handler[c] = "wrap" /\ Handle(c, "returned")
    /\ \/ CloseWork(c) /\ UNCHANGED <<chans, routines>>
       \/ /\ chans' = [chans EXCEPT ![c] = "open"]
          /\ sender' = [sender EXCEPT ![c] = Started(c)]
          /\ reader' = [reader EXCEPT ![c] = Started(c)]
          /\ beat' = [beat EXCEPT ![c] = Started(c)]
          /\ forwarder' = [forwarder EXCEPT ![c] = Started(c)]
          /\ UNCHANGED workConn
    /\ UNCHANGED <<kind, stopped, localConn, queued, udpState>>

\* A close function that does not look at isClose.
CloseFnAgain(c) ==
    IF kind = "udp" THEN UNCHANGED <<workConn, chans>>
    ELSE /\ CloseWork(c)
         /\ chans' = [chans EXCEPT ![c] = IF @ = "open" THEN "closed" ELSE "panic"]

\* closeFn, deferred by each of the three goroutines of an SUDP connection.
CloseFn(c) ==
    IF kind = "udp" \/ chans[c] # "open" THEN UNCHANGED <<workConn, chans>>
    ELSE CloseWork(c) /\ chans' = [chans EXCEPT ![c] = "closed"]

-----------------------------------------------------------------------------
(* UDP.                                                                    *)

\* UDPProxy.Close.
CloseCurrent ==
    /\ closed' = TRUE
    /\ IF closed \/ current = Nobody THEN UNCHANGED <<workConn, chans>>
       ELSE CloseWork(current) /\ chans' = [chans EXCEPT ![current] =
                                              IF @ = "open" THEN "closed" ELSE "panic"]

\* A connection that has arrived and not been published.
Arriving(c) == handler[c] \in {"address", "publish"}

\* InWorkConn first closes what belongs to the old connection.
UDPInWorkConn(c) ==
    /\ kind = "udp" /\ handler[c] = "address" /\ Handle(c, "publish") /\ CloseCurrent
    /\ raced' = (raced \/ \E d \in WorkConns : handler[d] = "publish")
    /\ UNCHANGED <<kind, stopped, localConn, queued, routines, current>>

\* It makes its own connection the current one, without a second look.
Publishes(c) ==
    /\ handler[c] = "publish"
    /\ \/ Handle(c, "returned") /\ CloseWork(c) /\ UNCHANGED <<chans, current, closed>>
       \/ /\ Handle(c, "sender") /\ current' = c /\ closed' = FALSE
          /\ chans' = [chans EXCEPT ![c] = "open"] /\ UNCHANGED workConn
    /\ UNCHANGED raced
    /\ UNCHANGED <<kind, stopped, localConn, queued, routines>>

\* The goroutines are given the channels the proxy holds at that moment, which
\* are another connection's if that was published meanwhile.
Spawns(c) ==
    LET new == Started(current) IN
    /\ \/ /\ handler[c] = "sender" /\ Handle(c, "reader") /\ sender' = [sender EXCEPT ![c] = new]
          /\ UNCHANGED <<reader, beat, forwarder>>
       \/ /\ handler[c] = "reader" /\ Handle(c, "beat") /\ reader' = [reader EXCEPT ![c] = new]
          /\ UNCHANGED <<sender, beat, forwarder>>
       \/ /\ handler[c] = "beat" /\ Handle(c, "forward") /\ beat' = [beat EXCEPT ![c] = new]
          /\ UNCHANGED <<sender, reader, forwarder>>
       \/ /\ handler[c] = "forward" /\ Handle(c, "returned")
          /\ forwarder' = [forwarder EXCEPT ![c] = new] /\ UNCHANGED <<sender, reader, beat>>
    /\ UNCHANGED <<kind, stopped, workConn, localConn, chans, queued, udpState>>

-----------------------------------------------------------------------------
(* The goroutines of a datagram connection.                                *)

goRest == <<kind, stopped, handler, localConn, udpState>>

\* The peer of an SUDP connection stops reading while the sender writes.
PeerStalls(c) ==
    /\ kind = "sudp" /\ sender[c].step = "busy" /\ workConn[c] = "open"
    /\ workConn' = [workConn EXCEPT ![c] = "stalled"]
    /\ UNCHANGED <<goRest, chans, queued, routines>>

\* workConnReaderFn: a datagram has come.
ReaderReads(c) ==
    /\ reader[c].step = "wait" /\ workConn[c] # "closed"
    /\ reader' = [reader EXCEPT ![c].step = "busy"]
    /\ UNCHANGED <<goRest, workConn, chans, queued, sender, beat, forwarder>>

\* It goes to the forwarder, which always takes it; a closed channel, or a
\* closed SUDP proxy, ends the loop.
ReaderPasses(c) ==
    LET ends == chans[reader[c].ch] # "open" \/ (kind = "sudp" /\ stopped) IN
    /\ reader[c].step = "busy"
    /\ reader' = [reader EXCEPT ![c] = IF ends THEN Ended ELSE Started(@.ch)]
    /\ IF ends THEN CloseFn(c) ELSE UNCHANGED <<workConn, chans>>
    /\ UNCHANGED <<goRest, queued, sender, beat, forwarder>>

\* The connection is closed, here or by the peer.
ReaderEnds(c) ==
    /\ reader[c].step = "wait" /\ reader' = [reader EXCEPT ![c] = Ended] /\ CloseFn(c)
    /\ UNCHANGED <<goRest, queued, sender, beat, forwarder>>

\* workConnSenderFn takes a message, also from a closed channel, ...
SenderTakes(c) ==
    LET d == sender[c].ch IN
    /\ sender[c].step = "wait" /\ queued[d] > 0
    /\ queued' = [queued EXCEPT ![d] = @ - 1] /\ sender' = [sender EXCEPT ![c].step = "busy"]
    /\ UNCHANGED <<goRest, workConn, chans, reader, beat, forwarder>>

\* ... writes it, or ends with the error, ...
SenderWrites(c) ==
    /\ sender[c].step = "busy"
    /\ \/ /\ workConn[c] = "open" /\ sender' = [sender EXCEPT ![c].step = "wait"]
          /\ UNCHANGED <<workConn, chans>>
       \/ sender' = [sender EXCEPT ![c] = Ended] /\ CloseFn(c)
    /\ UNCHANGED <<goRest, queued, reader, beat, forwarder>>

\* ... and ends with the channel.
SenderEnds(c) ==
    /\ sender[c].step = "wait" /\ queued[sender[c].ch] = 0 /\ chans[sender[c].ch] # "open"
    /\ sender' = [sender EXCEPT ![c] = Ended] /\ CloseFn(c)
    /\ UNCHANGED <<goRest, queued, reader, beat, forwarder>>

\* heartbeatFn: 30 seconds are over.
BeatTicks(c) ==
    /\ beat[c].step = "wait" /\ beat' = [beat EXCEPT ![c].step = "busy"]
    /\ UNCHANGED <<goRest, workConn, chans, queued, sender, reader, forwarder>>

\* The Ping waits for room in sendCh; a closed one ends the goroutine.
BeatSends(c) ==
    LET d == beat[c].ch IN
    /\ beat[c].step = "busy"
    /\ \/ /\ chans[d] = "open" /\ queued[d] < SendCap
          /\ queued' = [queued EXCEPT ![d] = @ + 1] /\ beat' = [beat EXCEPT ![c].step = "wait"]
          /\ UNCHANGED <<workConn, chans>>
       \/ /\ chans[d] # "open" /\ beat' = [beat EXCEPT ![c] = Ended] /\ CloseFn(c)
          /\ UNCHANGED queued
    /\ UNCHANGED <<goRest, sender, reader, forwarder>>

\* The heartbeat of an SUDP connection watches closeCh: it is what ends a
\* connection on which nothing arrives.
BeatStops(c) ==
    /\ kind = "sudp" /\ stopped /\ beat[c].step = "wait"
    /\ beat' = [beat EXCEPT ![c] = Ended] /\ CloseFn(c)
    /\ UNCHANGED <<goRest, queued, sender, reader, forwarder>>

\* A socket of the forwarder receives: into sendCh if there is room.
ForwarderSends(c) ==
    LET d == forwarder[c].ch IN
    /\ forwarder[c].step = "wait" /\ chans[d] = "open" /\ queued[d] < SendCap
    /\ queued' = [queued EXCEPT ![d] = @ + 1]
    /\ UNCHANGED <<goRest, workConn, chans, routines>>

\* readCh is closed.
ForwarderEnds(c) ==
    /\ forwarder[c].step = "wait" /\ chans[forwarder[c].ch] # "open"
    /\ forwarder' = [forwarder EXCEPT ![c] = Ended]
    /\ UNCHANGED <<goRest, workConn, chans, queued, sender, reader, beat>>

-----------------------------------------------------------------------------
\* Close, called once by Wrapper.Stop.
Stop ==
    /\ ~stopped /\ stopped' = TRUE
    /\ IF kind = "udp" THEN CloseCurrent ELSE UNCHANGED <<workConn, chans, closed>>
    /\ raced' = (raced \/ (kind = "udp" /\ \E c \in WorkConns : Arriving(c)))
    /\ UNCHANGED <<kind, handler, localConn, queued, routines, current>>

Handling(c) == \/ Callback(c) \/ Resolves(c) \/ Plugin(c) \/ Dial(c) \/ HeaderFails(c) \/ Joins(c)
               \/ SUDPInWorkConn(c) \/ UDPInWorkConn(c) \/ Publishes(c) \/ Spawns(c)
Receiving(c) == ReaderPasses(c) \/ (workConn[c] = "closed" /\ ReaderEnds(c))
Sending(c)   == SenderTakes(c) \/ SenderEnds(c) \/ (workConn[c] # "stalled" /\ SenderWrites(c))

WorkConnsNext ==
    \/ \E c \in WorkConns :
          \/ Arrives(c) \/ Handling(c) \/ PluginCloses(c) \/ JoinEnds(c) \/ PeerStalls(c)
          \/ ReaderReads(c) \/ ReaderPasses(c) \/ ReaderEnds(c)
          \/ SenderTakes(c) \/ SenderWrites(c) \/ SenderEnds(c)
          \/ BeatTicks(c) \/ BeatSends(c) \/ BeatStops(c) \/ ForwarderSends(c) \/ ForwarderEnds(c)
    \/ Stop

WorkConnsSpec == WorkConnsInit /\ [][WorkConnsNext]_wvars
-----------------------------------------------------------------------------
(* Properties.                                                             *)

\* No channel is closed twice, which would end frpc: the three goroutines of an
\* SUDP connection all close it, and Close of a UDP proxy races every InWorkConn,
\* which may publish over each other (client/proxy/sudp.go closeFn,
\* client/proxy/udp.go Close).
ClosedOnce == \A c \in WorkConns : chans[c] # "panic"

\* A connection that a TCP proxy has done with, or one of whose SUDP goroutines has
\* ended, is closed, and so is the one to the local service; one that a plugin keeps
\* is the plugin's (client/proxy/proxy.go HandleTCPWorkConnection, "plugins may retain
\* the connection after Handle returns").  Of the connections of a UDP proxy only the
\* latest is open, and none once the proxy is closed, unless an InWorkConn met another
\* one, or Close, between its own Close and the moment it publishes: it publishes over
\* the other's connection, or after Close, and nobody closes what it leaves
\* (client/proxy/udp.go InWorkConn, Close).
WorkConnsReleased ==
    \A c \in WorkConns :
        /\ kind = "tcp" /\ handler[c] = "returned" => workConn[c] = "closed" /\ localConn[c] # "open"
        /\ kind = "sudp" /\ "ended" \in {sender[c].step, reader[c].step, beat[c].step}
              => workConn[c] = "closed"
        /\ kind = "udp" /\ workConn[c] = "open" /\ ~raced
              => Arriving(c) \/ (c = current /\ ~stopped)

\* A closed SUDP proxy gives its connections back, idle ones and those that were
\* on their way to InWorkConn when it closed included: every goroutine ends
\* (client/proxy/sudp.go heartbeatFn).  Excepted is a stalled connection: the sender
\* writes without a deadline, and once sendCh is full the heartbeat waits with it and
\* does not see closeCh.
Pending == kind = "sudp" /\ stopped /\ \E c \in WorkConns : handler[c] # "none"
Settled ==
    \A c \in WorkConns :
        handler[c] # "none" /\ workConn[c] # "stalled" =>
            /\ workConn[c] = "closed"
            /\ \A r \in {sender[c], reader[c], beat[c], forwarder[c]} : r.step \in {"none", "ended"}
=============================================================================
