--------------------------- MODULE MessageTransport ---------------------------
(* Requests over the control connection (pkg/transport/message.go): Do       *)
(* registers a channel under a lane key, sends its request and waits for the *)
(* answer the reader of the connection dispatches to the lane.  Every caller *)
(* makes one request under a key of its own, as NewTransactionID gives it.   *)
(* The request waits for room in the queue of the dispatcher                 *)
(* (pkg/msg/handler.go), whose send loop writes without a deadline.  The     *)
(* peer may answer more than once, and late, or not read.                    *)
EXTENDS Naturals, Sequences

CONSTANTS Callers,
          SendCap,      \* capacity of the dispatcher's sendCh
          MaxAnswers    \* answers of the peer to one request

VARIABLES caller,       \* how far Do has come
          registry,     \* the lanes registered
          channel,      \* the answers in a lane's channel, of capacity 1
          closed,       \* the channels that are closed
          result,       \* what Do returned
          answers,      \* answers left that the peer may send
          reader,       \* the read loop: idle, or the lane it is sending to
          found,        \* whether the reader's lookup has its channel
          done,         \* the dispatcher's doneCh is closed
          sendCh,       \* the requests queued
          sendLoop      \* idle, the request it is writing, or ended

sending == <<sendCh, sendLoop>>
rvars == <<caller, registry, channel, closed, result, answers, reader, found, done, sending>>

TransportInit ==
    /\ caller = [c \in Callers |-> "idle"]
    /\ registry = {} /\ closed = {}
    /\ channel = [c \in Callers |-> 0]
    /\ result = [c \in Callers |-> "none"]
    /\ answers = [c \in Callers |-> 0]
    /\ reader = <<>> /\ found = FALSE /\ done = FALSE
    /\ sendCh = <<>> /\ sendLoop = <<>>

-----------------------------------------------------------------------------
(* Do *)

RegisterMsgChan(c) ==
    /\ caller[c] = "idle"
    /\ caller' = [caller EXCEPT ![c] = "send"]
    /\ registry' = registry \cup {c}
    /\ UNCHANGED <<channel, closed, result, answers, reader, found, done, sending>>

\* Send: queued for the peer once there is room, or EOF once the dispatcher is
\* done; the context is not consulted.
DoSends(c) ==
    /\ caller[c] = "send"
    /\ \/ /\ Len(sendCh) < SendCap
          /\ caller' = [caller EXCEPT ![c] = "select"]
          /\ sendCh' = Append(sendCh, c)
          /\ UNCHANGED result
       \/ /\ done
          /\ caller' = [caller EXCEPT ![c] = "unregister"]
          /\ result' = [result EXCEPT ![c] = "error"]
          /\ UNCHANGED sendCh
    /\ UNCHANGED <<registry, channel, closed, answers, reader, found, done, sendLoop>>

\* The select: an answer, or the context's timeout at any time.
DoReceives(c) ==
    /\ caller[c] = "select"
    /\ \/ /\ channel[c] = 1
          /\ channel' = [channel EXCEPT ![c] = 0]
          /\ result' = [result EXCEPT ![c] = "answer"]
       \/ /\ result' = [result EXCEPT ![c] = "error"]
          /\ UNCHANGED channel
    /\ caller' = [caller EXCEPT ![c] = "unregister"]
    /\ UNCHANGED <<registry, closed, answers, reader, found, done, sending>>

\* The deferred calls: unregister, then close the channel.
DoUnregisters(c) ==
    /\ caller[c] = "unregister"
    /\ caller' = [caller EXCEPT ![c] = "close"]
    /\ registry' = registry \ {c}
    /\ UNCHANGED <<channel, closed, result, answers, reader, found, done, sending>>

DoCloses(c) ==
    /\ caller[c] = "close"
    /\ caller' = [caller EXCEPT ![c] = "returned"]
    /\ closed' = closed \cup {c}
    /\ UNCHANGED <<registry, channel, result, answers, reader, found, done, sending>>

-----------------------------------------------------------------------------
(* The send loop *)

SendLoopTakes ==
    /\ sendLoop = <<>> /\ sendCh # <<>>
    /\ sendLoop' = <<Head(sendCh)>> /\ sendCh' = Tail(sendCh)
    /\ UNCHANGED <<caller, registry, channel, closed, result, answers, reader, found, done>>

\* WriteMsg returns: the peer has the request, or an error that is ignored.
SendLoopWrites ==
    /\ \E c \in Callers :
          /\ sendLoop = <<c>>
          /\ \/ ~done /\ answers' = [answers EXCEPT ![c] = MaxAnswers]
             \/ UNCHANGED answers
    /\ sendLoop' = <<>>
    /\ UNCHANGED <<caller, registry, channel, closed, result, reader, found, done, sendCh>>

SendLoopEnds ==
    /\ sendLoop = <<>> /\ done /\ sendLoop' = <<"ended">>
    /\ UNCHANGED <<caller, registry, channel, closed, result, answers, reader, found, done, sendCh>>

-----------------------------------------------------------------------------
(* The read loop *)

\* ReadMsg returns an answer, and its handler calls DispatchWithType.
ReadAnswer(c) ==
    /\ ~done /\ reader = <<>>
    /\ answers[c] > 0
    /\ answers' = [answers EXCEPT ![c] = @ - 1]
    /\ reader' = <<c>> /\ found' = FALSE
    /\ UNCHANGED <<caller, registry, channel, closed, result, done, sending>>

\* The lookup under the read lock: no lane, no dispatch.
DispatchLooksUp ==
    /\ reader # <<>> /\ ~found
    /\ IF reader[1] \in registry
         THEN found' = TRUE /\ UNCHANGED reader
         ELSE reader' = <<>> /\ UNCHANGED found
    /\ UNCHANGED <<caller, registry, channel, closed, result, answers, done, sending>>

\* ch <- m: blocks while the channel is full, panics (and recovers) once closed.
DispatchSends ==
    /\ reader # <<>> /\ found
    /\ \/ reader[1] \in closed /\ UNCHANGED channel
       \/ /\ reader[1] \notin closed /\ channel[reader[1]] = 0
          /\ channel' = [channel EXCEPT ![reader[1]] = 1]
    /\ reader' = <<>> /\ found' = FALSE
    /\ UNCHANGED <<caller, registry, closed, result, answers, done, sending>>

\* The connection ends, which the read loop sees between messages.
ReadFails ==
    /\ ~done /\ reader = <<>>
    /\ done' = TRUE
    /\ UNCHANGED <<caller, registry, channel, closed, result, answers, reader, found, sending>>

-----------------------------------------------------------------------------

Do(c) == DoSends(c) \/ DoReceives(c) \/ DoUnregisters(c) \/ DoCloses(c)

Dispatch == DispatchLooksUp \/ DispatchSends

\* A peer that does not take what is written is given up: the heartbeat, or the
\* keepalive of the multiplexer, ends the connection.
StalledEnds == sendLoop \notin {<<>>, <<"ended">>} /\ ReadFails

TransportNext ==
    \/ \E c \in Callers : RegisterMsgChan(c) \/ Do(c) \/ ReadAnswer(c)
    \/ Dispatch
    \/ SendLoopTakes \/ SendLoopWrites \/ SendLoopEnds
    \/ ReadFails

TransportSpec == TransportInit /\ [][TransportNext]_rvars

TransportTypeOK ==
    /\ caller \in [Callers -> {"idle", "send", "select", "unregister", "close", "returned"}]
    /\ registry \subseteq Callers /\ closed \subseteq Callers
    /\ channel \in [Callers -> 0..1]
    /\ result \in [Callers -> {"none", "answer", "error"}]
    /\ answers \in [Callers -> 0..MaxAnswers]
    /\ reader = <<>> \/ \E c \in Callers : reader = <<c>>
    /\ found \in BOOLEAN /\ done \in BOOLEAN
    /\ Len(sendCh) <= SendCap /\ sendLoop \in {<<>>, <<"ended">>} \cup {<<c>> : c \in Callers}

\* Every Do returns, also one that waits for room in the queue because the peer
\* does not read, when the connection ends; and no answer, however late or
\* repeated, blocks the reader of the control connection for good: a dispatch
\* that found the lane before it was unregistered ends when Do closes the channel
\* (message.go Do, DispatchWithType).
Pending == reader # <<>> \/ \E c \in Callers : caller[c] = "send"
Settled == reader = <<>> /\ \A c \in Callers : caller[c] \in {"idle", "returned"} /\ c \notin registry
=============================================================================
