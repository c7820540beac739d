---------------------------- MODULE ProxyTraffic ----------------------------
(***************************************************************************)
(* User connections of one frps proxy name and the statistics kept for it  *)
(* (server/proxy/proxy.go, pkg/metrics/mem/server.go,                      *)
(* pkg/util/metric/date_counter.go).  The proxy may be closed and          *)
(* registered again, with another type, while connections of its           *)
(* predecessor are still being joined; the admin API and a timer remove    *)
(* the statistics of proxies that are offline.                             *)
(***************************************************************************)
EXTENDS Integers, FiniteSets

CONSTANTS Conns,         \* user connections
          Types,         \* proxy types
          PoolCount,     \* work connections tried after the first one
          ReserveDays,   \* days of traffic a counter keeps
          DayHours,      \* hours of each day, in order
          OfflineDays,   \* how long the timer keeps the statistics of a closed proxy (7)
          MaxRuns        \* bound: registrations of the name

Days       == DOMAIN DayHours
Directions == {"in", "out"}

VARIABLES today,
          pxy,           \* the name at the proxy manager: see Registration
          step,          \* connection -> where its handler is
          tries,         \* connection -> work connections it has been given
          userConn, work,\* connection -> user side open, work connections open
          copying,       \* connection -> directions of the join still running
          moved,         \* connection -> bytes moved
          stats,         \* ProxyStatistics of the name
          typeCounts, curConns,
          counter,       \* traffic of the name: [counts, last]
          byDay,         \* history: bytes added on each day to this statistics entry
          outlived       \* history: a join was under way when its entry was removed or replaced

tvars == <<today, pxy, step, tries, userConn, work, copying, moved, stats, typeCounts, curConns,
           counter, byDay, outlived>>

\* The type of the proxy registered under the name, "none" if there is none, and whether
\* NewProxy has counted it; the proxies of the name removed that CloseProxy has not
\* counted yet, and the registrations so far.
Registration == [type : Types \cup {"none"}, counted : BOOLEAN,
                 leaving : [Types -> 0..MaxRuns], runs : 0..MaxRuns]

\* LastStartTime and LastCloseTime: whether the proxy was closed after it started,
\* and the day it was closed.
NoStats == [type |-> "none", cur |-> 0, offline |-> FALSE, closed |-> 1]

TrafficTypeOK ==
    /\ today \in Days /\ pxy \in Registration
    /\ step \in [Conns -> {"none", "accepted", "get", "start", "join", "count", "done"}]
    /\ tries \in [Conns -> 0..PoolCount + 1] /\ userConn \in [Conns -> BOOLEAN]
    /\ work \in [Conns -> 0..PoolCount + 1] /\ copying \in [Conns -> SUBSET Directions]
    /\ moved \in [Conns -> 0..1]
    /\ stats \in [type : Types \cup {"none"}, cur : Int, offline : BOOLEAN, closed : Days]
    /\ typeCounts \in [Types -> Int] /\ curConns \in Int
    /\ counter.counts \in [0..ReserveDays - 1 -> Nat] /\ counter.last \in Days
    /\ byDay \in [Days -> Nat] /\ outlived \in BOOLEAN

-----------------------------------------------------------------------------
(* StandardDateCounter.                                                    *)

\* Midnight of day d, in hours since the first.
midnight[d \in Days] == IF d = 1 THEN 0 ELSE midnight[d - 1] + DayHours[d - 1]

NewDateCounter(d) == [counts |-> [i \in 0..ReserveDays - 1 |-> 0], last |-> d]

\* A rotation that keeps the last day's counts where they are.
RotateInPlace(c, d) == [c EXCEPT !.last = d]

Rotate(c, d) ==
    LET days == (midnight[d] - midnight[c.last]) \div 24 IN
    IF days <= 0 THEN c
      ELSE [counts |-> [i \in 0..ReserveDays - 1 |-> IF i < days THEN 0 ELSE c.counts[i - days]],
            last   |-> d]

Inc(c, d, n) == [Rotate(c, d) EXCEPT !.counts[0] = @ + n]

-----------------------------------------------------------------------------
TrafficInit ==
    /\ today = 1
    /\ pxy = [type |-> "none", counted |-> FALSE, leaving |-> [t \in Types |-> 0], runs |-> 0]
    /\ step = [c \in Conns |-> "none"] /\ tries = [c \in Conns |-> 0]
    /\ userConn = [c \in Conns |-> FALSE] /\ work = [c \in Conns |-> 0]
    /\ copying = [c \in Conns |-> {}] /\ moved = [c \in Conns |-> 0]
    /\ stats = NoStats /\ typeCounts = [t \in Types |-> 0] /\ curConns = 0
    /\ counter = NewDateCounter(1) /\ byDay = [d \in Days |-> 0] /\ outlived = FALSE

handlerVars == <<step, tries, userConn, work, copying, moved>>
statVars    == <<stats, typeCounts, curConns, counter, byDay, outlived>>

Joining == {c \in Conns : step[c] = "join"}

\* The entry of the name is replaced by a new one, or removed.
Renewed(s) ==
    /\ stats' = s /\ counter' = NewDateCounter(today) /\ byDay' = [d \in Days |-> 0]
    /\ outlived' = (outlived \/ Joining # {})

\* RegisterProxy of a control: the proxy runs and its name is taken.
RegisterProxy(t) ==
    /\ pxy.type = "none" /\ pxy.runs < MaxRuns
    /\ pxy' = [pxy EXCEPT !.type = t, !.counted = FALSE, !.runs = @ + 1]
    /\ UNCHANGED <<today, handlerVars, statVars>>

\* handleNewProxy goes on: serverMetrics.NewProxy.
NewProxy ==
    /\ pxy.type # "none" /\ ~pxy.counted /\ pxy' = [pxy EXCEPT !.counted = TRUE]
    /\ typeCounts' = [typeCounts EXCEPT ![pxy.type] = @ + 1]
    /\ IF stats.type = pxy.type
         THEN stats' = [stats EXCEPT !.offline = FALSE] /\ UNCHANGED <<counter, byDay, outlived>>
         ELSE Renewed([NoStats EXCEPT !.type = pxy.type])
    /\ UNCHANGED <<today, handlerVars, curConns>>

\* closeProxy: the listeners are closed and the name is free, for another control too;
\* the connections that were accepted stay.
DelProxy ==
    /\ pxy.type # "none" /\ pxy.counted
    /\ pxy' = [pxy EXCEPT !.type = "none", !.leaving[pxy.type] = @ + 1]
    /\ UNCHANGED <<today, handlerVars, statVars>>

\* closeProxy goes on: serverMetrics.CloseProxy of the name, whoever has it now.
CloseProxy(t) ==
    /\ pxy.leaving[t] > 0 /\ pxy' = [pxy EXCEPT !.leaving[t] = @ - 1]
    /\ typeCounts' = [typeCounts EXCEPT ![t] = @ - 1]
    /\ stats' = IF stats.type = "none" THEN stats ELSE [stats EXCEPT !.offline = TRUE, !.closed = today]
    /\ UNCHANGED <<today, handlerVars, curConns, counter, byDay, outlived>>

\* clearUselessInfo: the timer's days, or at once for the admin API.
Offline(days) == stats.offline /\ (days > 0 => today - stats.closed > days)

ClearUselessInfo(days) ==
    /\ stats.type # "none" /\ Offline(days) /\ Renewed(NoStats)
    /\ UNCHANGED <<today, pxy, handlerVars, typeCounts, curConns>>

NextDay == /\ today + 1 \in Days /\ today' = today + 1
           /\ UNCHANGED <<pxy, handlerVars, statVars>>

-----------------------------------------------------------------------------
(* handleUserTCPConnection.                                                *)

At(c, s) == step' = [step EXCEPT ![c] = s]

\* Returning closes the user connection and the work connection.
Returns(c) ==
    /\ At(c, "done") /\ userConn' = [userConn EXCEPT ![c] = FALSE]
    /\ work' = [work EXCEPT ![c] = IF step[c] \in {"join", "count"} THEN 0 ELSE @]

\* A listener of the registered proxy accepts a connection.
Accepts(c) ==
    /\ step[c] = "none" /\ pxy.type # "none" /\ At(c, "accepted")
    /\ userConn' = [userConn EXCEPT ![c] = TRUE]
    /\ UNCHANGED <<today, pxy, tries, work, copying, moved, statVars>>

\* The NewUserConn hook of the server plugins.
Hooked(c) ==
    /\ step[c] = "accepted"
    /\ \/ At(c, "get") /\ UNCHANGED <<userConn, work>>
       \/ Returns(c)
    /\ UNCHANGED <<today, pxy, tries, copying, moved, statVars>>

\* getWorkConnFn gives a work connection or an error.
Gets(c) ==
    /\ step[c] = "get"
    /\ \/ /\ At(c, "start") /\ tries' = [tries EXCEPT ![c] = @ + 1]
          /\ work' = [work EXCEPT ![c] = @ + 1] /\ UNCHANGED userConn
       \/ Returns(c) /\ UNCHANGED tries
    /\ UNCHANGED <<today, pxy, copying, moved, statVars>>

\* A loop over the pool that takes one connection too many.
StartFailsOnceMore(c) ==
    /\ step[c] = "start"
    /\ IF tries[c] <= PoolCount + 1
         THEN At(c, "get") /\ UNCHANGED userConn
         ELSE At(c, "done") /\ userConn' = [userConn EXCEPT ![c] = FALSE]
    /\ work' = [work EXCEPT ![c] = @ - 1]
    /\ UNCHANGED <<today, pxy, tries, copying, moved, statVars>>

\* StartWorkConn cannot be written: the connection is closed, the next one tried.
StartFails(c) ==
    /\ step[c] = "start"
    /\ IF tries[c] <= PoolCount
         THEN At(c, "get") /\ UNCHANGED userConn
         ELSE At(c, "done") /\ userConn' = [userConn EXCEPT ![c] = FALSE]
    /\ work' = [work EXCEPT ![c] = @ - 1]
    /\ UNCHANGED <<today, pxy, tries, copying, moved, statVars>>

WireProtocols == {"", "v1", "v2", "other"}
UDPPacketCodecs == {"", "binary", "other"}

\* normalizeUDPPacketCodec accepts the pair.
Normal(protocol, codec) == \/ protocol \in {"", "v1"} /\ codec = ""
                           \/ protocol = "v2" /\ codec \in {"", "binary"}

\* The directions joinUserConnection copies: for a sudp or xudp proxy, with an
\* encoding of either side that it does not know, it returns at once.
Joined(protocol, codec) == IF Normal(protocol, codec) THEN Directions ELSE {}

\* It can: OpenConnection is counted and the join begins.
Starts(c) ==
    /\ step[c] = "start" /\ At(c, "join")
    /\ \E protocol \in WireProtocols, codec \in UDPPacketCodecs :
          copying' = [copying EXCEPT ![c] = Joined(protocol, codec)]
    /\ curConns' = curConns + 1
    /\ stats' = IF stats.type = "none" THEN stats ELSE [stats EXCEPT !.cur = @ + 1]
    /\ UNCHANGED <<today, pxy, tries, userConn, work, moved, typeCounts, counter, byDay, outlived>>

\* One direction ends; closeBoth ends the other one.
CopyEnds(c, d) ==
    /\ step[c] = "join" /\ d \in copying[c]
    /\ copying' = [copying EXCEPT ![c] = @ \ {d}]
    /\ moved' \in {moved, [moved EXCEPT ![c] = 1]}
    /\ userConn' = [userConn EXCEPT ![c] = FALSE] /\ work' = [work EXCEPT ![c] = 0]
    /\ UNCHANGED <<today, pxy, step, tries, statVars>>

\* CloseConnection.
JoinEnds(c) ==
    /\ step[c] = "join" /\ copying[c] = {} /\ At(c, "count")
    /\ curConns' = curConns - 1
    /\ stats' = IF stats.type = "none" THEN stats ELSE [stats EXCEPT !.cur = @ - 1]
    /\ UNCHANGED <<today, pxy, tries, userConn, work, copying, moved, typeCounts, counter, byDay,
                   outlived>>

\* AddTrafficIn and AddTrafficOut, then the deferred closes.
Counts(c) ==
    /\ step[c] = "count" /\ Returns(c)
    /\ IF stats.type = "none" THEN UNCHANGED <<counter, byDay>>
         ELSE /\ counter' = Inc(counter, today, moved[c])
              /\ byDay' = [byDay EXCEPT ![today] = @ + moved[c]]
    /\ UNCHANGED <<today, pxy, tries, copying, moved, stats, typeCounts, curConns, outlived>>

Handles(c) == \/ Hooked(c) \/ Gets(c) \/ StartFails(c) \/ Starts(c) \/ JoinEnds(c) \/ Counts(c)
              \/ \E d \in Directions : CopyEnds(c, d)

TrafficNext == \/ \E t \in Types : RegisterProxy(t) \/ CloseProxy(t)
               \/ NewProxy \/ DelProxy \/ NextDay \/ \E d \in {0, OfflineDays} : ClearUselessInfo(d)
               \/ \E c \in Conns : Accepts(c) \/ Handles(c)

TrafficSpec == TrafficInit /\ [][TrafficNext]_tvars
-----------------------------------------------------------------------------
(* Properties.                                                             *)

\* A handler that has returned left nothing open, however many work connections
\* it was given and whichever step failed, and never holds two at once
\* (server/proxy/proxy.go getWorkConnFromPool, handleUserTCPConnection).
HandlersRelease ==
    \A c \in Conns : /\ work[c] <= 1
                     /\ step[c] = "done" => ~userConn[c] /\ work[c] = 0

\* The counts of connections and proxies are those of the joins under way and of
\* the proxies counted and not discounted, across restarts of the proxy under the same
\* name, also when another control has it before the first one has counted its close;
\* the proxy's own count is exact as long as no entry was removed or replaced under
\* a running join, which closes on an entry it was not opened on
\* (server/control.go closeProxy; pkg/metrics/mem/server.go OpenConnection,
\* CloseConnection, NewProxy, CloseProxy).
CountsExact ==
    /\ curConns = Cardinality(Joining)
    /\ \A t \in Types :
          typeCounts[t] = pxy.leaving[t] + IF pxy.type = t /\ pxy.counted THEN 1 ELSE 0
    /\ ~outlived /\ stats.type # "none" => stats.cur = Cardinality(Joining)

\* The counter tells the traffic of each of the last days from the others,
\* however many days passed between two updates (date_counter.go rotate).
TrafficByDay ==
    \A i \in 0..ReserveDays - 1 :
       Rotate(counter, today).counts[i] = IF today - i \in Days THEN byDay[today - i] ELSE 0
=============================================================================
