------------------------------- MODULE NatHole -------------------------------
(***************************************************************************)
(* Hole punching for one xtcp or xudp proxy name: the Controller of         *)
(* pkg/nathole with its analyzer, the goroutine of the server's proxy that  *)
(* hands session ids to frpc (server/proxy/xtcp.go, xudp.go), the client's  *)
(* side of a session (client/proxy/xtcp.go) and attempts of visitors.       *)
(* The proxy may be closed and registered again: a generation is one        *)
(* registration with its own sidCh and its own loop.                        *)
(***************************************************************************)
EXTENDS NatAnalysis

CONSTANTS
    Visitors,        \* attempts of visitors, each one NatHoleVisitor message
    MaxGenerations,  \* bound: registrations of the proxy
    VisitorPeers,    \* what Prepare may find out: [mapped, assisted] of visitors
    ClientPeers,     \*   and of the client
    PriorAttempts,   \* [visitor, client, times]: fruitless attempts before the model starts
    Nobody           \* no visitor, no record

Prior == "prior"
Generations == 1..MaxGenerations
Objects == Visitors \cup {Prior}
Peers == VisitorPeers \cup ClientPeers

\* A peer is refused by Prepare before it sends anything unless STUN gave two addresses.
ASSUME PeersAssumption ==
    /\ \A p \in Peers : EnoughAddresses(p.mapped)
    /\ MaxGenerations \in Nat
    /\ \A x \in {Prior, Nobody, "none", "select", "gone"} : x \notin Visitors
    /\ Nobody # Prior
    /\ PriorAttempts \subseteq [visitor : VisitorPeers, client : ClientPeers, times : Nat]

VARIABLES
    clientCfg,  \* the generation in clientCfgs, 0 when there is none
    last,       \* the last generation registered
    loop,       \* per generation: "none", "select", "gone", or the visitor served
    closed,     \* generations whose closeCh is closed
    closing,    \* generations between CloseClient and close(closeCh)
    session,    \* per visitor: the handler and its Session
    client,     \* per visitor: where frpc is with the session's id
    records,    \* the analyzer's map: key -> record object
    scores,     \* the scores of a record object
    born,       \* history: the scores it was created with
    tried,      \* history: recommendations per behaviour
    credited,   \* history: credits per behaviour
    old,        \* objects not updated for dataReserveDuration
    earlier     \* how many of the attempts before the first registration are still to come

proxyVars == <<clientCfg, last, loop, closed, closing>>
recordVars == <<records, scores, born, tried, credited, old>>
vars == <<proxyVars, session, client, recordVars, earlier>>

Feature(p) == ClassifyNATFeature(p.mapped, p.assisted)

\* The key leaves out whether a peer is on a public network.
genAnalysisKey(v, c) ==
    LET part(p) == <<p.mapped[1].ip, Feature(p).natType, Feature(p).behavior, Feature(p).regular>>
    IN  <<part(v), part(c)>>

Keys == {genAnalysisKey(v, c) : v \in VisitorPeers, c \in ClientPeers}

NoSession == [pc |-> "idle", gen |-> 0, vMsg |-> Nobody, cMsg |-> Nobody, notified |-> FALSE,
              object |-> Nobody, mode |-> 0, index |-> 0, unsent |-> {}, error |-> FALSE]

\* What a peer is told: its role, its delay if it sends, how long it reads.
timeoutMsNoDelay(mode, index) == 5000 + (IF ListenRandomPorts(mode) THEN 30000 ELSE 0)

timeoutMs(mode, index) ==
    SendDelayMs(mode, index) + 5000 + (IF ListenRandomPorts(mode) THEN 30000 ELSE 0)

Response(s, peer) ==
    LET cRole == ClientRole(s.mode, s.index, Feature(s.cMsg))
        role  == IF peer = "client" THEN cRole ELSE Other(cRole)
        delay == IF role = S THEN SendDelayMs(s.mode, s.index) ELSE 0 IN
    [role |-> role, delay |-> delay, readTimeoutMs |-> timeoutMs(s.mode, s.index) - delay]

Points(behaviors) == [i \in DOMAIN behaviors |-> behaviors[i].score]

-----------------------------------------------------------------------------
\* One pair of peers may have met before, without success; its record is then known.
Init ==
    /\ clientCfg = 0 /\ last = 0
    /\ loop = [g \in Generations |-> "none"]
    /\ closed = {} /\ closing = {}
    /\ session = [v \in Visitors |-> NoSession]
    /\ client = [v \in Visitors |-> "none"]
    /\ \E p \in PriorAttempts :
          LET new == newMakeHoleRecords(Feature(p.client), Feature(p.visitor))
              key == genAnalysisKey(p.visitor, p.client)
              met(x, y) == IF p.times > 0 THEN x ELSE y
              none == [o \in Objects |-> <<>>] IN
          /\ earlier = p.times
          /\ records = [k \in Keys |-> IF k = key THEN met(Prior, Nobody) ELSE Nobody]
          /\ scores = [none EXCEPT ![Prior] = met(new, @)]
          /\ born = [none EXCEPT ![Prior] = met(Points(new), @)]
          /\ tried = [none EXCEPT ![Prior] = met([i \in DOMAIN new |-> 0], @)]
          /\ credited = [none EXCEPT ![Prior] = met([i \in DOMAIN new |-> 0], @)]
    /\ old = {}

-----------------------------------------------------------------------------
(* The server's proxy.                                                      *)

\* Run: the name must be free; a new sidCh, and a goroutine that reads it.
ListenClient ==
    /\ clientCfg = 0 /\ last < MaxGenerations
    /\ last' = last + 1 /\ clientCfg' = last + 1
    /\ loop' = [loop EXCEPT ![last + 1] = "select"]
    /\ UNCHANGED <<closed, closing, session, client, recordVars, earlier>>

\* Close takes the name out of clientCfgs first and closes closeCh afterwards.
CloseClient ==
    /\ clientCfg # 0
    /\ clientCfg' = 0 /\ closing' = closing \cup {clientCfg}
    /\ UNCHANGED <<last, loop, closed, session, client, recordVars, earlier>>

CloseCh(g) ==
    /\ g \in closing
    /\ closing' = closing \ {g} /\ closed' = closed \cup {g}
    /\ UNCHANGED <<clientCfg, last, loop, session, client, recordVars, earlier>>

LoopStops(g) ==
    /\ loop[g] = "select" /\ g \in closed
    /\ loop' = [loop EXCEPT ![g] = "gone"]
    /\ UNCHANGED <<clientCfg, last, closed, closing, session, client, recordVars, earlier>>

\* The select may still take a waiting session id when closeCh is closed too.
LoopTakes(g, v) ==
    /\ loop[g] = "select"
    /\ session[v].pc = "sending" /\ session[v].gen = g
    /\ loop' = [loop EXCEPT ![g] = v]
    /\ session' = [session EXCEPT ![v].pc = "waiting"]
    /\ UNCHANGED <<clientCfg, last, closed, closing, client, recordVars, earlier>>

LoopDelivers(g) ==
    /\ loop[g] \in Visitors
    /\ client' = [client EXCEPT ![loop[g]] = "preparing"]
    /\ loop' = [loop EXCEPT ![g] = "select"]
    /\ UNCHANGED <<clientCfg, last, closed, closing, session, recordVars, earlier>>

\* No work connection, or the write of the id on it failed.
LoopFails(g) ==
    /\ loop[g] \in Visitors
    /\ loop' = [loop EXCEPT ![g] = "select"]
    /\ UNCHANGED <<clientCfg, last, closed, closing, session, client, recordVars, earlier>>

-----------------------------------------------------------------------------
(* HandleVisitor.                                                           *)

Go(v, pc) == session' = [session EXCEPT ![v].pc = pc]

\* The handler returns and its deferred function drops the session, which only a
\* report's handler that has found it can still read.
Return(v) ==
    session' = [session EXCEPT ![v] =
        [(IF client[v] = "reported" THEN @ ELSE NoSession) EXCEPT !.pc = "done"]]

\* The visitor asks first whether the proxy is there; without it, it does not prepare.
PreCheck(v) ==
    /\ session[v].pc = "idle" /\ clientCfg # 0
    /\ Go(v, "prechecked")
    /\ UNCHANGED <<proxyVars, client, recordVars, earlier>>

PreCheckRefused(v) ==
    /\ session[v].pc = "idle" /\ clientCfg = 0
    /\ Go(v, "done")
    /\ UNCHANGED <<proxyVars, client, recordVars, earlier>>

HandleVisitor(v) ==
    /\ session[v].pc = "prechecked" /\ clientCfg # 0
    /\ \E p \in VisitorPeers :
          session' = [session EXCEPT ![v] = [NoSession EXCEPT !.pc = "sending",
                                                !.gen = clientCfg, !.vMsg = p]]
    /\ UNCHANGED <<proxyVars, client, recordVars, earlier>>

\* The proxy has gone since the check, or the visitor's secret key is another one.
HandleVisitorRefused(v) ==
    /\ session[v].pc = "prechecked"
    /\ Go(v, "done")
    /\ UNCHANGED <<proxyVars, client, recordVars, earlier>>

Notified(v) ==
    /\ session[v].pc = "waiting" /\ session[v].notified
    /\ Go(v, "analysing")
    /\ UNCHANGED <<proxyVars, client, recordVars, earlier>>

\* NatHoleTimeout.
WaitTimeout(v) ==
    /\ session[v].pc = "waiting"
    /\ Return(v)
    /\ UNCHANGED <<proxyVars, client, recordVars, earlier>>

\* analysis, up to the analyzer's lock: classify both peers, find or create their record.
FindRecord(v) ==
    LET s   == session[v]
        key == genAnalysisKey(s.vMsg, s.cMsg) IN
    /\ s.pc = "analysing"
    /\ IF EnoughAddresses(s.cMsg.mapped) /\ EnoughAddresses(s.vMsg.mapped)
         THEN session' = [session EXCEPT ![v].pc = "recommending",
                ![v].object = IF records[key] = Nobody THEN v ELSE records[key]]
         ELSE session' = [session EXCEPT ![v].pc = "responding", ![v].error = TRUE,
                                         ![v].unsent = {"client", "visitor"}]
    /\ IF session'[v].object = v
         THEN \E new \in {newMakeHoleRecords(Feature(s.cMsg), Feature(s.vMsg))} :
              /\ records' = [records EXCEPT ![key] = v]
              /\ scores' = [scores EXCEPT ![v] = new]
              /\ born' = [born EXCEPT ![v] = Points(new)]
              /\ tried' = [tried EXCEPT ![v] = [i \in DOMAIN new |-> 0]]
              /\ credited' = [credited EXCEPT ![v] = [i \in DOMAIN new |-> 0]]
              /\ UNCHANGED old
         ELSE UNCHANGED recordVars
    /\ UNCHANGED <<proxyVars, client, earlier>>

\* The scores and the history of a record when its best behaviour is recommended.
Charge(o) ==
    /\ \E r \in {Recommended(scores[o])} :
          tried' = [tried EXCEPT ![o] = [i \in DOMAIN @ |->
              @[i] + (IF scores[o][i].mode = r.mode /\ scores[o][i].index = r.index THEN 1 ELSE 0)]]
    /\ scores' = [scores EXCEPT ![o] = recommand(@)]
    /\ old' = old \ {o}
    /\ UNCHANGED <<records, born, credited>>

\* Before the proxy is registered, its peers have met under an earlier registration: a
\* session that did not succeed left nothing but the charge on the record.
EarlierAttempt ==
    /\ last = 0 /\ earlier > 0
    /\ earlier' = earlier - 1
    /\ Charge(Prior)
    /\ UNCHANGED <<proxyVars, session, client>>

\* analysis, under the record's own lock: take the best behaviour and charge for it.
Recommand(v) ==
    /\ session[v].pc = "recommending"
    /\ \E r \in {Recommended(scores[session[v].object])} :
          session' = [session EXCEPT ![v].pc = "responding",
                          ![v].mode = r.mode, ![v].index = r.index,
                          ![v].unsent = {"client", "visitor"}]
    /\ Charge(session[v].object)
    /\ UNCHANGED <<proxyVars, client, earlier>>

\* Two goroutines send the responses; the client may have stopped waiting for its own.
Respond(v, peer) ==
    /\ session[v].pc = "responding" /\ peer \in session[v].unsent
    /\ session' = [session EXCEPT ![v].unsent = @ \ {peer},
                      ![v].pc = IF session[v].unsent = {peer} THEN "lingering" ELSE @]
    /\ client' = [client EXCEPT ![v] =
          IF peer = "client" /\ @ = "exchanging"
            THEN IF session[v].error THEN "gone" ELSE "punching"
            ELSE @]
    /\ UNCHANGED <<proxyVars, recordVars, earlier>>

\* After ReadTimeoutMs + 30 s the handler returns.
SessionEnds(v) ==
    /\ session[v].pc = "lingering"
    /\ Return(v)
    /\ UNCHANGED <<proxyVars, client, recordVars, earlier>>

InSessions(v) == session[v].pc \notin {"idle", "prechecked", "done"}

-----------------------------------------------------------------------------
(* frpc's side of a session, and the handlers of its messages.  A step of   *)
(* the client that fails, or times out, ends its side.                      *)

ClientStops(v) ==
    /\ client[v] \in {"preparing", "exchanging"}
    /\ client' = [client EXCEPT ![v] = "gone"]
    /\ UNCHANGED <<proxyVars, session, recordVars, earlier>>

\* HandleClient looks the session up; a message for a session that is gone is dropped.
HandleClient(v) ==
    /\ client[v] = "preparing"
    /\ client' = [client EXCEPT ![v] = IF InSessions(v) THEN "found" ELSE "gone"]
    /\ UNCHANGED <<proxyVars, session, recordVars, earlier>>

\* Then, without the lock, it stores the message and notifies the handler.  When the
\* handler has returned in between, nobody reads the session any more.
StoreClient(v) ==
    /\ client[v] = "found"
    /\ \/ /\ InSessions(v)
          /\ \E p \in ClientPeers :
                session' = [session EXCEPT ![v].cMsg = p, ![v].notified = TRUE]
       \/ ~InSessions(v) /\ UNCHANGED session
    /\ client' = [client EXCEPT ![v] = "exchanging"]
    /\ UNCHANGED <<proxyVars, recordVars, earlier>>

\* MakeHole returns; the client reports, and the report finds the session or not.
ReportFails(v) ==
    /\ client[v] = "punching"
    /\ client' = [client EXCEPT ![v] = "gone"]
    /\ UNCHANGED <<proxyVars, session, recordVars, earlier>>

ReportSucceeds(v) ==
    /\ client[v] = "punching"
    /\ client' = [client EXCEPT ![v] = IF InSessions(v) THEN "reported" ELSE "gone"]
    /\ UNCHANGED <<proxyVars, session, recordVars, earlier>>

\* ReportSuccess: the record now in the map, if any, is credited.
HandleReport(v) ==
    LET s == session[v]
        o == records[genAnalysisKey(s.vMsg, s.cMsg)] IN
    /\ client[v] = "reported"
    /\ client' = [client EXCEPT ![v] = "gone"]
    /\ IF o = Nobody
         THEN UNCHANGED recordVars
         ELSE /\ scores' = [scores EXCEPT ![o] = reportSuccess(@, s.mode, s.index)]
              /\ credited' = [credited EXCEPT ![o] = [i \in DOMAIN @ |->
                    @[i] + (IF scores[o][i].mode = s.mode /\ scores[o][i].index = s.index THEN 1 ELSE 0)]]
              /\ old' = old \ {o}
              /\ UNCHANGED <<records, born, tried>>
    /\ UNCHANGED <<proxyVars, session, earlier>>

-----------------------------------------------------------------------------
(* The analyzer's hourly cleaning.                                          *)

\* dataReserveDuration goes by; it is far longer than a session.
Age(o) ==
    /\ \E k \in Keys : records[k] = o
    /\ \A v \in Visitors : session[v].object = o => session[v].pc = "done" /\ client[v] = "gone"
    /\ o \notin old
    /\ old' = old \cup {o}
    /\ UNCHANGED <<proxyVars, session, client, records, scores, born, tried, credited, earlier>>

Clean ==
    /\ \E k \in Keys : records[k] \in old
    /\ records' = [k \in Keys |-> IF records[k] \in old THEN Nobody ELSE records[k]]
    /\ old' = {}
    /\ UNCHANGED <<proxyVars, session, client, scores, born, tried, credited, earlier>>

-----------------------------------------------------------------------------
\* A handler past its first message; each of its waits ends by itself.
Proceeds(v) ==
    \/ Notified(v) \/ WaitTimeout(v)
    \/ FindRecord(v) \/ Recommand(v)
    \/ \E peer \in {"client", "visitor"} : Respond(v, peer)
    \/ SessionEnds(v)

Handler(v) ==
    \/ PreCheck(v) \/ PreCheckRefused(v) \/ HandleVisitor(v) \/ HandleVisitorRefused(v)
    \/ Proceeds(v)

Client(v) ==
    \/ ClientStops(v) \/ HandleClient(v) \/ StoreClient(v)
    \/ ReportFails(v) \/ ReportSucceeds(v) \/ HandleReport(v)

Loop(g) ==
    \/ LoopStops(g) \/ LoopDelivers(g) \/ LoopFails(g)
    \/ \E v \in Visitors : LoopTakes(g, v)

Next ==
    \/ EarlierAttempt
    \/ ListenClient \/ CloseClient
    \/ \E g \in Generations : CloseCh(g) \/ Loop(g)
    \/ \E v \in Visitors : Handler(v) \/ Client(v)
    \/ \E o \in Objects : Age(o)
    \/ Clean

Spec == Init /\ [][Next]_vars

-----------------------------------------------------------------------------
(* The types; a record in the analyzer's map always has a behaviour to       *)
(* recommend (newMakeHoleRecordsWithClock, analysis.go:181-225).             *)
TypeOK ==
    /\ clientCfg \in 0..last /\ last \in 0..MaxGenerations
    /\ loop \in [Generations -> {"none", "select", "gone"} \cup Visitors]
    /\ closed \subseteq Generations /\ closing \subseteq Generations
    /\ \A v \in Visitors :
          /\ session[v].vMsg \in VisitorPeers \cup {Nobody}
          /\ session[v].cMsg \in ClientPeers \cup {Nobody}
          /\ session[v].object \in Objects \cup {Nobody}
          /\ session[v].pc \in {"idle", "prechecked", "sending", "waiting", "analysing",
                                "recommending", "responding", "lingering", "done"}
          /\ client[v] \in {"none", "preparing", "found", "exchanging", "punching",
                            "reported", "gone"}
    /\ records \in [Keys -> Objects \cup {Nobody}]
    /\ \A k \in Keys : records[k] # Nobody => scores[records[k]] # <<>>
    /\ old \subseteq Objects /\ earlier \in Nat

Answered(v) == session[v].pc \in {"responding", "lingering"} /\ ~session[v].error

(* The comments of GetRecommandBehaviors, of a session that was answered: a  *)
(* HardNAT facing an EasyNAT sends in mode 1 and receives in mode 2, and the *)
(* peer whose ports change regularly sends in mode 4, whatever earlier pairs *)
(* with the same key did to the record (analysis.go:301-318).                *)
RolesFit ==
    \A v \in Visitors : Answered(v) =>
        LET s == session[v]
            c == Feature(s.cMsg)
            w == Feature(s.vMsg)
            role(f) == Response(s, IF f = "c" THEN "client" ELSE "visitor").role
            nat(f) == IF f = "c" THEN c ELSE w IN
        /\ \A f \in {"c", "v"} :
              /\ c.natType # w.natType /\ nat(f).natType = "HardNAT"
                    => (s.mode = 1 => role(f) = S) /\ (s.mode = 2 => role(f) = R)
              /\ c.regular # w.regular /\ nat(f).regular /\ s.mode = 4 => role(f) = S
        /\ s.mode \in {3, 4} => c.natType = "HardNAT" /\ w.natType = "HardNAT"

(* The receiver of an answered session is still reading when the sender's    *)
(* first message can arrive: the response to a sender is held back a second  *)
(* and the sender then waits its delay (controller.go:231-250, 323-340).     *)
WindowsMeet ==
    \A v \in Visitors : Answered(v) =>
        \A from, to \in {"client", "visitor"} :
            LET a == Response(session[v], from)
                b == Response(session[v], to) IN
            a.role = S /\ b.role = R => 1000 + a.delay < b.readTimeoutMs

(* While no success was reported, behaviours that started equal are tried in *)
(* rotation: none is recommended twice before each of the others was         *)
(* (recommand, analysis.go:243-256).                                         *)
Rotates ==
    \A o \in Objects :
        (\A i \in DOMAIN credited[o] : credited[o][i] = 0) =>
            \A score \in {born[o][i] : i \in DOMAIN born[o]} :
                LET times == {tried[o][i] : i \in {j \in DOMAIN born[o] : born[o][j] = score}}
                IN  \A m, n \in times : m - n <= 1

(* A record's scores are its history: every recommendation cost its          *)
(* behaviour one point and every report of success gave two to the behaviour *)
(* its session had used, with sessions, reports and cleaning interleaved.    *)
(* Points are only ever lost to the cap of 10 (reportSuccess), which a       *)
(* behaviour cannot meet before its credits could have taken it past 10.     *)
(* There is no floor: recommand takes a point however few are left, which    *)
(* ScoresBounded is about.                                                   *)
ScoresHonest ==
    \A o \in Objects : \A i \in DOMAIN scores[o] :
        LET history == born[o][i] - tried[o][i] + 2 * credited[o][i] IN
        /\ scores[o][i].score <= history
        /\ born[o][i] + 2 * credited[o][i] <= 10 => scores[o][i].score = history

(* "between -10 and 10" (analysis.go:261), of a behaviour's score.            *)
ScoresBounded ==
    \A o \in Objects : \A i \in DOMAIN scores[o] : scores[o][i].score \in -10..10

(* "mode 0, both EasyNAT, PublicNetwork is always receiver" (analysis.go:28):  *)
(* the one peer of two EasyNATs that is on a public network is not told to    *)
(* send.                                                                      *)
PublicReceives ==
    \A v \in Visitors : Answered(v) =>
        LET s == session[v]
            c == Feature(s.cMsg)
            w == Feature(s.vMsg) IN
        s.mode = 0 /\ c.natType = "EasyNAT" /\ w.natType = "EasyNAT" /\ c.public # w.public
            => Response(s, IF c.public THEN "client" ELSE "visitor").role = R

(* A visitor's handler that entered its session returns, and so the session  *)
(* leaves the map, unless the proxy is closed while the handler still offers *)
(* the session id: nobody reads or closes sidCh then (controller.go:208-212). *)
Pending == \E v \in Visitors : InSessions(v)
Settled ==
    \A v \in Visitors :
        \/ ~InSessions(v)
        \/ session[v].pc = "sending" /\ session[v].gen \in closed \cup closing
=============================================================================
