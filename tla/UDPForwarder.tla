---------------------------- MODULE UDPForwarder ----------------------------
(***************************************************************************)
(* The end of a UDP tunnel that talks to the local service                 *)
(* (pkg/proto/udp/udp.go): one local socket per remote user, found in a    *)
(* map, with one reader goroutine each.  Forwarder leaves its readers      *)
(* behind when its input channel is closed; ManagedForwarder is cancelled  *)
(* through a context, closes every socket and joins every reader.  The     *)
(* variable managed says which of the two is running.  A user's key is its *)
(* address; payloads and the proxy protocol header are left out.           *)
(***************************************************************************)
EXTENDS Integers

CONSTANTS Keys,         \* remote users
          MaxSockets    \* bound: local sockets dialled

Sockets == 1..MaxSockets

VARIABLES managed,
          readChOpen,   \* the input channel
          ctxDone, stopped,
          udpConnMap,   \* user -> its socket, 0 if none
          key,          \* socket -> the user it was dialled for
          socket,       \* state of every socket
          dialled,
          reader,       \* reader goroutine of every socket
          dispatcher, user, entry,
          closing,      \* closeAll (a sync.Once): the sockets still to close
          closeAll,     \* "no", "closing" or "done"
          watcher

fvars == <<managed, readChOpen, ctxDone, stopped, udpConnMap, key, socket, dialled, reader,
           dispatcher, user, entry, closing, closeAll, watcher>>

ForwarderTypeOK ==
    /\ managed \in BOOLEAN /\ readChOpen \in BOOLEAN /\ ctxDone \in BOOLEAN /\ stopped \in BOOLEAN
    /\ udpConnMap \in [Keys -> 0..MaxSockets] /\ key \in [Sockets -> Keys]
    /\ socket \in [Sockets -> {"none", "open", "closed"}] /\ dialled \in 0..MaxSockets
    /\ reader \in [Sockets -> {"off", "reading", "cleanup", "ended"}]
    /\ dispatcher \in {"top", "lookup", "dial", "install", "check", "write", "leave", "join",
                       "returned"}
    /\ user \in Keys /\ entry \in 0..MaxSockets /\ closing \subseteq Sockets
    /\ closeAll \in {"no", "closing", "done"} /\ watcher \in {"waiting", "done"}

ForwarderInit ==
    /\ managed \in BOOLEAN /\ readChOpen = TRUE /\ ctxDone = FALSE /\ stopped = FALSE
    /\ udpConnMap = [k \in Keys |-> 0]
    /\ \E k \in Keys : user = k /\ key = [s \in Sockets |-> k]
    /\ socket = [s \in Sockets |-> "none"] /\ dialled = 0
    /\ reader = [s \in Sockets |-> "off"]
    /\ dispatcher = "top" /\ entry = 0
    /\ closing = {} /\ closeAll = "no" /\ watcher = "waiting"

mapVars    == <<udpConnMap, key, socket, dialled, reader>>
stopVars   == <<ctxDone, stopped, closing, closeAll, watcher>>
inputVars  == <<managed, readChOpen>>

\* The owner of the tunnel closes the channel, or cancels the context.
OwnerStops ==
    /\ \/ readChOpen' = FALSE /\ readChOpen /\ UNCHANGED ctxDone
       \/ managed /\ ~ctxDone /\ ctxDone' = TRUE /\ UNCHANGED readChOpen
    /\ UNCHANGED <<managed, stopped, mapVars, dispatcher, user, entry, closing, closeAll, watcher>>

-----------------------------------------------------------------------------
(* The dispatcher.                                                         *)

\* A datagram of user k is taken, or the channel is drained and closed.
Takes ==
    /\ dispatcher = "top"
    /\ \/ \E k \in Keys : user' = k /\ dispatcher' = "lookup"
       \/ (ctxDone \/ ~readChOpen) /\ dispatcher' = "leave" /\ UNCHANGED user
    /\ UNCHANGED <<inputVars, stopVars, mapVars, entry>>

\* Stopping is seen at the lookup and again after a dial.
SeesStop == managed /\ (stopped \/ ctxDone)

Looks ==
    /\ dispatcher = "lookup"
    /\ entry' = IF SeesStop THEN 0 ELSE udpConnMap[user]
    /\ dispatcher' = IF SeesStop THEN "leave"
                       ELSE IF udpConnMap[user] # 0 THEN "check" ELSE "dial"
    /\ UNCHANGED <<inputVars, stopVars, mapVars, user>>

DialFails ==
    /\ dispatcher = "dial" /\ dispatcher' = "top"
    /\ UNCHANGED <<inputVars, stopVars, mapVars, user, entry>>

\* ManagedForwarder dials without the mutex.
Dials ==
    /\ managed /\ dispatcher = "dial" /\ dialled < MaxSockets
    /\ dialled' = dialled + 1 /\ entry' = dialled + 1 /\ dispatcher' = "install"
    /\ socket' = [socket EXCEPT ![dialled + 1] = "open"]
    /\ key' = [key EXCEPT ![dialled + 1] = user]
    /\ UNCHANGED <<inputVars, stopVars, udpConnMap, reader, user>>

Installs ==
    /\ dispatcher = "install"
    /\ IF SeesStop
         THEN /\ dispatcher' = "leave" /\ socket' = [socket EXCEPT ![entry] = "closed"]
              /\ entry' = 0 /\ UNCHANGED <<udpConnMap, reader>>
         ELSE /\ dispatcher' = "check" /\ udpConnMap' = [udpConnMap EXCEPT ![user] = entry]
              /\ reader' = [reader EXCEPT ![entry] = "reading"]
              /\ UNCHANGED <<socket, entry>>
    /\ UNCHANGED <<inputVars, stopVars, key, dialled, user>>

\* Forwarder holds the mutex from the lookup to the end of the dial.
DialsLocked ==
    /\ ~managed /\ dispatcher = "dial" /\ dialled < MaxSockets
    /\ dialled' = dialled + 1 /\ entry' = dialled + 1 /\ dispatcher' = "write"
    /\ socket' = [socket EXCEPT ![dialled + 1] = "open"]
    /\ key' = [key EXCEPT ![dialled + 1] = user]
    /\ udpConnMap' = [udpConnMap EXCEPT ![user] = dialled + 1]
    /\ UNCHANGED <<inputVars, stopVars, reader, user>>

ChecksContext ==
    /\ dispatcher = "check"
    /\ dispatcher' = IF managed /\ ctxDone THEN "leave" ELSE "write"
    /\ entry' = IF managed /\ ctxDone THEN 0 ELSE entry
    /\ UNCHANGED <<inputVars, stopVars, mapVars, user>>

\* removeManagedConn: the map is changed only if it still holds this socket.
Removed(s) == [k \in Keys |-> IF udpConnMap[k] = s THEN 0 ELSE udpConnMap[k]]

\* Forwarder starts the reader of a new socket after the first write.
ReaderStarted == IF reader[entry] = "off" THEN [reader EXCEPT ![entry] = "reading"] ELSE reader

Writes ==
    /\ dispatcher = "write" /\ socket[entry] = "open" /\ dispatcher' = "top" /\ entry' = 0
    /\ reader' = ReaderStarted
    /\ UNCHANGED <<inputVars, stopVars, udpConnMap, key, socket, dialled, user>>

\* A write fails: the socket is closed, and ManagedForwarder forgets it here.
WriteFails ==
    /\ dispatcher = "write" /\ dispatcher' = "top" /\ entry' = 0
    /\ socket' = [socket EXCEPT ![entry] = "closed"]
    /\ udpConnMap' = IF managed THEN Removed(entry) ELSE udpConnMap
    /\ reader' = ReaderStarted
    /\ UNCHANGED <<inputVars, stopVars, key, dialled, user>>

\* The deferred cancel and closeAll; Forwarder just returns.
Leaves ==
    /\ dispatcher = "leave"
    /\ dispatcher' = IF managed THEN "join" ELSE "returned"
    /\ ctxDone' = (managed \/ ctxDone)
    /\ UNCHANGED <<inputVars, stopped, closing, closeAll, watcher, mapVars, user, entry>>

Joins ==
    /\ dispatcher = "join" /\ closeAll = "done" /\ watcher = "done"
    /\ \A s \in Sockets : reader[s] \in {"off", "ended"}
    /\ dispatcher' = "returned"
    /\ UNCHANGED <<inputVars, stopVars, mapVars, user, entry>>

\* Only a write can keep the dispatcher for ever, while its socket is open.
Dispatching == Takes \/ Looks \/ DialFails \/ Dials \/ Installs \/ DialsLocked \/ ChecksContext
               \/ (dispatcher = "write" /\ socket[entry] # "open" /\ WriteFails) \/ Leaves \/ Joins
-----------------------------------------------------------------------------
(* closeAll, by the watcher or by the dispatcher, whichever is first.      *)

ClosesAllStarts ==
    /\ managed /\ ctxDone /\ closeAll = "no"
    /\ closeAll' = "closing" /\ stopped' = TRUE
    /\ closing' = {udpConnMap[k] : k \in Keys} \ {0}
    /\ UNCHANGED <<inputVars, ctxDone, watcher, mapVars, dispatcher, user, entry>>

ClosesAllEnds ==
    /\ closeAll = "closing" /\ closeAll' = "done" /\ closing' = {}
    /\ socket' = [s \in Sockets |-> IF s \in closing THEN "closed" ELSE socket[s]]
    /\ UNCHANGED <<inputVars, ctxDone, stopped, watcher, udpConnMap, key, dialled, reader,
                   dispatcher, user, entry>>

WatcherEnds ==
    /\ watcher = "waiting" /\ ctxDone /\ closeAll = "done" /\ watcher' = "done"
    /\ UNCHANGED <<inputVars, ctxDone, stopped, closing, closeAll, mapVars, dispatcher, user, entry>>

Watching == ClosesAllStarts \/ ClosesAllEnds \/ WatcherEnds
-----------------------------------------------------------------------------
(* The readers.                                                            *)

\* A read error: the socket was closed, or nothing came for 30 seconds; or the
\* context is seen done after a datagram.
ReaderStops(s) ==
    /\ reader[s] = "reading" /\ reader' = [reader EXCEPT ![s] = "cleanup"]
    /\ UNCHANGED <<inputVars, stopVars, udpConnMap, key, socket, dialled, dispatcher, user, entry>>

\* Forwarder's writerFn deletes by address: nobody else removes or replaces the
\* entry of its user.
RemovedByKey(s) == [k \in Keys |-> IF k = key[s] THEN 0 ELSE udpConnMap[k]]

ReaderCleans(s) ==
    /\ reader[s] = "cleanup" /\ reader' = [reader EXCEPT ![s] = "ended"]
    /\ socket' = [socket EXCEPT ![s] = "closed"]
    /\ udpConnMap' = IF managed THEN Removed(s) ELSE RemovedByKey(s)
    /\ UNCHANGED <<inputVars, stopVars, key, dialled, dispatcher, user, entry>>

Reading == \E s \in Sockets : ReaderStops(s) \/ ReaderCleans(s)

ForwarderNext == OwnerStops \/ Dispatching \/ Writes \/ WriteFails \/ Watching \/ Reading

ForwarderSpec == ForwarderInit /\ [][ForwarderNext]_fvars
-----------------------------------------------------------------------------
(* Properties.                                                             *)

\* A socket with a reader is the one its user's datagrams go to, until it is
\* closed: a reader that finishes late does not detach the socket that has
\* replaced its own (pkg/proto/udp/udp.go removeManagedConn, "A stale reader
\* must never remove a replacement connection"; Forwarder's writerFn).
NoOrphan ==
    \A s \in Sockets : socket[s] = "open" /\ reader[s] = "reading" => udpConnMap[key[s]] = s

\* When ManagedForwarder returns, every socket it dialled is closed and every
\* reader has ended (pkg/proto/udp/udp.go ManagedForwarder: "it blocks until its
\* dispatcher and every per-user UDP reader have exited").
ForwarderReleases ==
    managed /\ dispatcher = "returned" =>
        \A s \in Sockets : socket[s] # "open" /\ reader[s] \in {"off", "ended"}

\* A cancelled ManagedForwarder returns, although its dispatcher may be blocked
\* in a write (pkg/proto/udp/udp.go managedForwarder, the watcher goroutine).
Pending == managed /\ ctxDone /\ dispatcher # "returned"
Settled == ~Pending
=============================================================================
