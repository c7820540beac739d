---------------------------- MODULE NatHoleProofs ----------------------------
(***************************************************************************)
(* The records of the analyzer and the roles it hands out, for any number   *)
(* of visitors, registrations and earlier attempts and for any peers:       *)
(* TypeOK, RolesFit, WindowsMeet, Rotates and ScoresHonest are invariants.  *)
(*                                                                         *)
(* RecordInv is what a record keeps while sessions share it: each behaviour *)
(* occurs once in it, so that a recommendation charges one behaviour and a  *)
(* report credits one, and scores stay at most 10, so that there is a best. *)
(* HandlerInv is the protocol of one session: frpc's message is stored once *)
(* and before the analysis reads it, and the record it uses is one that was *)
(* made for NATs of the same types, although records are shared through the *)
(* key, cleaned, and used after they left the map.                          *)
(***************************************************************************)
EXTENDS NatHole, WellFoundedInduction, TLAPS

-----------------------------------------------------------------------------
(* Records.                                                                 *)

Modes == 0..4
Behaviour == [mode : Modes, index : Nat, score : Int]

\* In the modes where the roles depend on the NATs, the first peer of the table sends.
FirstSends(mode, index) == mode \in {1, 2, 4} => getBehaviorByMode(mode)[index] = S

Distinct(s) ==
    \A i, j \in DOMAIN s : s[i].mode = s[j].mode /\ s[i].index = s[j].index => i = j

\* The behaviours of s are those of t, whatever their scores.
SameBehaviours(s, t) ==
    /\ DOMAIN s = DOMAIN t
    /\ \A i \in DOMAIN s : s[i].mode = t[i].mode /\ s[i].index = t[i].index

\* Modes 3 and 4 are only for two HardNATs.
ForNATs(s, c, w) ==
    /\ DOMAIN s # {}
    /\ \A i \in DOMAIN s :
          s[i].mode \in {3, 4} => c.natType = "HardNAT" /\ w.natType = "HardNAT"

Honest(s, b, t, c) ==
    \A i \in DOMAIN s :
        LET history == b[i] - t[i] + 2 * c[i] IN
        /\ s[i].score <= history
        /\ b[i] + 2 * c[i] <= 10 => s[i].score = history

Rotating(b, t, c) ==
    (\A i \in DOMAIN c : c[i] = 0) =>
        \A i, j \in DOMAIN b : b[i] = b[j] => t[i] - t[j] <= 1

\* A record and its history.
RecordInv(s, b, t, c) ==
    /\ DOMAIN s \subseteq Nat
    /\ s \in [DOMAIN s -> Behaviour]
    /\ b \in [DOMAIN s -> {0, 1}]
    /\ t \in [DOMAIN s -> Nat] /\ c \in [DOMAIN s -> Nat]
    /\ \A i \in DOMAIN s : s[i].score <= 10 /\ FirstSends(s[i].mode, s[i].index)
    /\ Distinct(s) /\ Honest(s, b, t, c) /\ Rotating(b, t, c)

RecordsInv == \A o \in Objects : RecordInv(scores[o], born[o], tried[o], credited[o])

\* What the map holds for the key of two peers was made for NATs of their types.
MapInv ==
    \A w \in VisitorPeers, c \in ClientPeers :
        LET o == records[genAnalysisKey(w, c)] IN
        o # Nobody => ForNATs(scores[o], Feature(c), Feature(w))

-----------------------------------------------------------------------------
(* Sessions.                                                                *)

Steps == {"idle", "prechecked", "sending", "waiting", "analysing",
          "recommending", "responding", "lingering", "done"}
ClientSteps == {"none", "preparing", "found", "exchanging", "punching", "reported", "gone"}

Session ==
    [pc : Steps, gen : 0..MaxGenerations, vMsg : VisitorPeers \cup {Nobody},
     cMsg : ClientPeers \cup {Nobody}, notified : BOOLEAN, object : Objects \cup {Nobody},
     mode : Modes, index : Nat, unsent : SUBSET {"client", "visitor"}, error : BOOLEAN]

Types ==
    /\ clientCfg \in 0..last /\ last \in 0..MaxGenerations
    /\ loop \in [Generations -> {"none", "select", "gone"} \cup Visitors]
    /\ closed \subseteq Generations /\ closing \subseteq Generations
    /\ session \in [Visitors -> Session]
    /\ client \in [Visitors -> ClientSteps]
    /\ records \in [Keys -> Objects \cup {Nobody}]
    /\ old \subseteq Objects /\ earlier \in Nat

\* The domains of the four functions of records.
Histories ==
    /\ DOMAIN scores = Objects /\ DOMAIN born = Objects
    /\ DOMAIN tried = Objects /\ DOMAIN credited = Objects

\* A loop holds a session id that frpc has not got yet, and no other loop holds it.
LoopInv ==
    \A g \in Generations : loop[g] \in Visitors =>
        /\ client[loop[g]] = "none"
        /\ session[loop[g]].pc \notin {"idle", "prechecked", "sending"}
        /\ \A h \in Generations : loop[h] = loop[g] => h = g

\* Of a session s whose client is at a step, with the records' scores.
HandlerInv(s, at, scoring) ==
    /\ s.pc \in {"idle", "prechecked", "sending"} => at = "none" /\ ~s.notified
    /\ s.pc \notin {"idle", "prechecked", "done"} => s.vMsg \in VisitorPeers
    /\ s.notified => at \in {"exchanging", "punching", "reported", "gone"}
    /\ s.pc \in {"analysing", "recommending", "responding", "lingering"} =>
          s.notified /\ s.cMsg \in ClientPeers
    /\ s.notified /\ s.pc # "done" => s.cMsg \in ClientPeers
    /\ at = "punching" => s.pc \in {"responding", "lingering", "done"}
    /\ at = "reported" => /\ s.pc \in {"responding", "lingering", "done"}
                          /\ s.vMsg \in VisitorPeers /\ s.cMsg \in ClientPeers
    /\ s.pc = "recommending" =>
          /\ s.object \in Objects
          /\ ForNATs(scoring[s.object], Feature(s.cMsg), Feature(s.vMsg))
    /\ s.pc \in {"responding", "lingering"} =>
          /\ FirstSends(s.mode, s.index)
          /\ s.mode \in {3, 4} => /\ Feature(s.cMsg).natType = "HardNAT"
                                  /\ Feature(s.vMsg).natType = "HardNAT"

HandlersInv == \A v \in Visitors : HandlerInv(session[v], client[v], scores)

\* A visitor's handler has made no record before it looked for one.
Unmade ==
    \A v \in Visitors :
        session[v].pc \in {"idle", "prechecked", "sending", "waiting", "analysing"} =>
            DOMAIN scores[v] = {}

EarlierInv == earlier > 0 => DOMAIN scores[Prior] # {}

NatInv ==
    /\ Types /\ Histories /\ LoopInv /\ HandlersInv /\ Unmade
    /\ RecordsInv /\ MapInv /\ EarlierInv

-----------------------------------------------------------------------------
(* The operators of NatAnalysis.                                            *)

\* A nonempty set of natural numbers has a least element.
LEMMA Least ==
    ASSUME NEW T, T \subseteq Nat, T # {}
    PROVE  \E x \in T : \A y \in T : x <= y
<1> DEFINE less == OpToRel(<, Nat)
<1>1. IsWellFoundedOn(less, Nat) BY NatLessThanWellFounded, Zenon
<1>2. \A x, y \in Nat : <<y, x>> \notin less => x <= y BY DEF OpToRel
<1> HIDE DEF less
<1>3. PICK x \in T : \A y \in T : ~(<<y, x>> \in less) BY <1>1, WFMin, Zenon
<1> QED BY <1>2, <1>3, Zenon

\* slices.MaxFunc finds a behaviour, and none has a better score.
LEMMA BestIsBest ==
    ASSUME NEW s, DOMAIN s \subseteq Nat, DOMAIN s # {},
           \A i \in DOMAIN s : s[i].score \in Int /\ s[i].score <= 10
    PROVE  /\ Best(s) \in DOMAIN s
           /\ \A j \in DOMAIN s : s[j].score <= s[Best(s)].score
<1> DEFINE below == {10 - s[i].score : i \in DOMAIN s}
<1>1. below \subseteq Nat /\ below # {} OBVIOUS
<1>2. PICK m \in below : \A n \in below : m <= n
  <2> HIDE DEF below
  <2> QED BY <1>1, Least, Zenon
<1> DEFINE top == {i \in DOMAIN s : 10 - s[i].score = m}
<1>3. top \subseteq Nat /\ top # {} BY <1>2
<1>4. PICK b \in top : \A j \in top : b <= j
  <2> HIDE DEF top
  <2> QED BY <1>3, Least, Zenon
<1>5. \A j \in DOMAIN s :
         /\ s[j].score <= s[b].score
         /\ j < b => s[j].score < s[b].score
  <2> TAKE j \in DOMAIN s
  <2>1. m <= 10 - s[j].score /\ 10 - s[b].score = m /\ b \in Nat BY <1>2, <1>4
  <2>2. 10 - s[j].score = m => b <= j BY <1>4
  <2> QED BY <2>1, <2>2
<1> QED BY <1>4, <1>5 DEF Best

\* The behaviours of two tables with different modes stay distinct in one list.
Fresh(s, modes) ==
    /\ s \in Seq(Behaviour) /\ Len(s) > 0
    /\ \A i \in DOMAIN s : /\ s[i].score \in {0, 1} /\ s[i].mode \in modes
                           /\ FirstSends(s[i].mode, s[i].index)
    /\ Distinct(s)

LEMMA TableFresh ==
    ASSUME NEW mode \in Modes, NEW a \in {0, 1}, NEW b \in {0, 1}
    PROVE  /\ Fresh(getBehaviorScoresByMode2(mode, a, b), {mode})
           /\ Fresh(getBehaviorScoresByMode(mode, a), {mode})
<1> SUFFICES \A x, y \in {0, 1} : Fresh(getBehaviorScoresByMode2(mode, x, y), {mode})
    BY DEF getBehaviorScoresByMode
<1> TAKE x, y \in {0, 1}
<1> DEFINE table == getBehaviorByMode(mode)
           s == getBehaviorScoresByMode2(mode, x, y)
<1>1. PICK n \in {3, 6, 10} : DOMAIN table = 1..n BY DEF getBehaviorByMode, Modes
<1>2. mode \in {1, 2, 4} => \A i \in 1..n : table[i] = S
  <2>1. CASE mode = 1 BY <2>1, <1>1 DEF getBehaviorByMode
  <2>2. CASE mode = 2 BY <2>2, <1>1 DEF getBehaviorByMode
  <2>3. CASE mode = 4 BY <2>3, <1>1 DEF getBehaviorByMode
  <2> QED BY <2>1, <2>2, <2>3
<1> HIDE DEF table
<1>3. s = [i \in 1..n |-> [mode |-> mode, index |-> i,
                           score |-> IF table[i] = S THEN x ELSE y]]
    BY <1>1 DEF getBehaviorScoresByMode2, table
<1> HIDE DEF s
<1>4. s \in [1..n -> Behaviour] /\ s \in Seq(Behaviour) /\ Len(s) > 0 /\ DOMAIN s = 1..n
    BY <1>3 DEF Behaviour
<1>5. \A i \in 1..n : /\ s[i].score \in {0, 1} /\ s[i].mode = mode /\ s[i].index = i
    BY <1>3
<1>6. Fresh(s, {mode}) BY <1>2, <1>4, <1>5 DEF Fresh, FirstSends, Distinct, table
<1> QED BY <1>6 DEF s

LEMMA JoinFresh ==
    ASSUME NEW s, NEW t, NEW P, NEW Q, Fresh(s, P), Fresh(t, Q), P \cap Q = {}
    PROVE  Fresh(s \o t, P \cup Q)
<1> DEFINE u == s \o t
<1>1. /\ s \in Seq(Behaviour) /\ Len(s) \in Nat \ {0} /\ DOMAIN s = 1..Len(s)
      /\ t \in Seq(Behaviour) /\ Len(t) \in Nat \ {0} /\ DOMAIN t = 1..Len(t)
    BY DEF Fresh
<1>2. u \in Seq(Behaviour) /\ Len(u) = Len(s) + Len(t) BY <1>1
<1>3. \A i \in DOMAIN u :
         \/ i \in DOMAIN s /\ u[i] = s[i] /\ u[i].mode \in P
         \/ i - Len(s) \in DOMAIN t /\ u[i] = t[i - Len(s)] /\ u[i].mode \in Q
    BY <1>1 DEF Fresh
<1> HIDE DEF u
<1>4. Distinct(u)
  <2> SUFFICES ASSUME NEW i \in DOMAIN u, NEW j \in DOMAIN u,
                      u[i].mode = u[j].mode, u[i].index = u[j].index
               PROVE  i = j
      BY DEF Distinct
  <2>1. \/ i \in DOMAIN s /\ u[i] = s[i] /\ j \in DOMAIN s /\ u[j] = s[j]
        \/ /\ i - Len(s) \in DOMAIN t /\ u[i] = t[i - Len(s)]
           /\ j - Len(s) \in DOMAIN t /\ u[j] = t[j - Len(s)]
      BY <1>3
  <2>2. i = j \/ i - Len(s) = j - Len(s) BY <2>1 DEF Fresh, Distinct
  <2> QED BY <2>2, <1>1, <1>2
<1> QED BY <1>1, <1>2, <1>3, <1>4 DEF Fresh, u

\* What ClassifyNATFeature says of a NAT: only a HardNAT is regular.
LEMMA OnlyHardIsRegular ==
    ASSUME NEW p
    PROVE  /\ Feature(p).natType \in NatTypes
           /\ Feature(p).regular \in BOOLEAN
           /\ Feature(p).regular => Feature(p).natType = "HardNAT"
BY Zenon DEF Feature, ClassifyNATFeature, NatTypes

LEMMA KeysOfPeers ==
    /\ \A w \in VisitorPeers, c \in ClientPeers : genAnalysisKey(w, c) \in Keys
    /\ \A k \in Keys : \E w \in VisitorPeers, c \in ClientPeers : k = genAnalysisKey(w, c)
BY DEF Keys

\* The roles of a behaviour whose first peer sends: who sends in modes 1 and 4, and who
\* receives in mode 2, is told by the NATs, on either side.
LEMMA RolesOfModes ==
    ASSUME NEW mode, NEW index, NEW c, NEW w, FirstSends(mode, index),
           c.natType \in NatTypes, w.natType \in NatTypes,
           c.regular \in BOOLEAN, w.regular \in BOOLEAN
    PROVE  LET r == ClientRole(mode, index, c) IN
           /\ c.natType # w.natType =>
                /\ mode = 1 => /\ c.natType = "HardNAT" => r = S
                               /\ w.natType = "HardNAT" => Other(r) = S
                /\ mode = 2 => /\ c.natType = "HardNAT" => r = R
                               /\ w.natType = "HardNAT" => Other(r) = R
           /\ c.regular # w.regular /\ mode = 4 =>
                (c.regular => r = S) /\ (w.regular => Other(r) = S)
<1> DEFINE first == getBehaviorByMode(mode)[index]
<1>1. mode \in {1, 2, 4} => first = S BY DEF FirstSends
<1> HIDE DEF first
<1>2. mode = 1 => ClientRole(mode, index, c) = IF c.natType = "EasyNAT" THEN R ELSE S
    BY <1>1 DEF ClientRole, first, Other
<1>3. mode = 2 => ClientRole(mode, index, c) = IF c.natType = "HardNAT" THEN R ELSE S
    BY <1>1 DEF ClientRole, first, Other
<1>4. mode = 4 => ClientRole(mode, index, c) = IF c.regular THEN S ELSE R
    BY <1>1 DEF ClientRole, first, Other
<1> QED BY <1>2, <1>3, <1>4 DEF Other, S, R, NatTypes

\* newMakeHoleRecords: every pair gets behaviours, each once, the modes 3 and 4 only
\* for two HardNATs.
LEMMA NewRecordsFresh ==
    ASSUME NEW p, NEW q
    PROVE  LET s == newMakeHoleRecords(Feature(p), Feature(q)) IN
           \E modes : /\ Fresh(s, modes)
                      /\ modes \cap {3, 4} # {} => /\ Feature(p).natType = "HardNAT"
                                                   /\ Feature(q).natType = "HardNAT"
<1> DEFINE c == Feature(p)
           v == Feature(q)
           hard == hardCount(c, v)
           regular == portsChangedRegularCount(c, v)
           mode0 == CASE c.public -> getBehaviorScoresByMode2(0, 0, 1)
                      [] ~c.public /\ v.public -> getBehaviorScoresByMode2(0, 1, 0)
                      [] OTHER -> getBehaviorScoresByMode(0, 0)
           m(mode) == getBehaviorScoresByMode(mode, 0)
           e(mode) == getBehaviorScoresByMode(mode, 1)
           s == newMakeHoleRecords(c, v)
           Allowed(t) == \E modes : Fresh(t, modes) /\ (modes \cap {3, 4} # {} => hard = 2)
<1>1. /\ hard \in 0..2 /\ regular \in 0..hard
      /\ hard = 2 => c.natType = "HardNAT" /\ v.natType = "HardNAT"
    BY DEF hardCount, portsChangedRegularCount, One
<1>2. s = CASE hard = 0                -> mode0
            [] hard = 1 /\ regular = 1 -> (m(1) \o m(2)) \o mode0
            [] hard = 1 /\ regular = 0 -> (m(2) \o m(1)) \o mode0
            [] hard = 2 /\ regular = 2 -> m(3) \o m(4)
            [] hard = 2 /\ regular = 1 -> m(4)
            [] OTHER -> (e(0) \o e(1)) \o e(3)
    BY DEF newMakeHoleRecords
<1>3. /\ Fresh(mode0, {0})
      /\ Fresh(m(1), {1}) /\ Fresh(m(2), {2}) /\ Fresh(m(3), {3}) /\ Fresh(m(4), {4})
      /\ Fresh(e(0), {0}) /\ Fresh(e(1), {1}) /\ Fresh(e(3), {3})
    BY TableFresh DEF Modes
<1> HIDE DEF s, hard, regular, mode0, m, e
<1>4. /\ Fresh(m(1) \o m(2), {1} \cup {2}) /\ Fresh(m(2) \o m(1), {2} \cup {1})
      /\ Fresh(m(3) \o m(4), {3} \cup {4}) /\ Fresh(e(0) \o e(1), {0} \cup {1})
    BY <1>3, JoinFresh
<1>5. /\ Fresh((m(1) \o m(2)) \o mode0, ({1} \cup {2}) \cup {0})
      /\ Fresh((m(2) \o m(1)) \o mode0, ({2} \cup {1}) \cup {0})
      /\ Fresh((e(0) \o e(1)) \o e(3), ({0} \cup {1}) \cup {3})
    BY <1>3, <1>4, JoinFresh
<1>6. /\ Allowed(mode0) /\ Allowed((m(1) \o m(2)) \o mode0) /\ Allowed((m(2) \o m(1)) \o mode0)
      /\ hard = 2 => Allowed(m(3) \o m(4)) /\ Allowed(m(4)) /\ Allowed((e(0) \o e(1)) \o e(3))
    BY <1>3, <1>4, <1>5
<1> HIDE DEF Allowed
<1>7. Allowed(s) BY <1>1, <1>2, <1>6
<1> QED BY <1>1, <1>7 DEF Allowed, s

-----------------------------------------------------------------------------
(* What the steps do to a record.                                           *)

\* A record that was just made.
LEMMA MadeRecord ==
    ASSUME NEW s, NEW modes, Fresh(s, modes)
    PROVE  /\ RecordInv(s, Points(s), [i \in DOMAIN s |-> 0], [i \in DOMAIN s |-> 0])
           /\ DOMAIN s # {}
<1> DEFINE b == Points(s)
           z == [i \in DOMAIN s |-> 0]
<1>1. /\ DOMAIN s \subseteq Nat /\ DOMAIN s # {} /\ s \in [DOMAIN s -> Behaviour]
      /\ \A i \in DOMAIN s : /\ s[i].score \in {0, 1} /\ s[i].score <= 10
                             /\ FirstSends(s[i].mode, s[i].index)
      /\ Distinct(s)
    BY DEF Fresh
<1>2. /\ b \in [DOMAIN s -> {0, 1}] /\ z \in [DOMAIN s -> Nat]
      /\ \A i \in DOMAIN s : b[i] = s[i].score /\ z[i] = 0
    BY <1>1 DEF Points
<1> HIDE DEF b, z
<1>3. Honest(s, b, z, z) /\ Rotating(b, z, z) BY <1>1, <1>2 DEF Honest, Rotating
<1> QED BY <1>1, <1>2, <1>3 DEF RecordInv, b, z

\* recommand charges the behaviour it recommends, and no other.
LEMMA ChargedRecord ==
    ASSUME NEW s, NEW b, NEW t, NEW c, RecordInv(s, b, t, c), DOMAIN s # {}
    PROVE  LET r == Recommended(s)
               u == [i \in DOMAIN t |->
                       t[i] + (IF s[i].mode = r.mode /\ s[i].index = r.index THEN 1 ELSE 0)] IN
           /\ \E i \in DOMAIN s : r = s[i]
           /\ SameBehaviours(recommand(s), s)
           /\ RecordInv(recommand(s), b, u, c)
<1> DEFINE m == Best(s)
           r == Recommended(s)
           n == recommand(s)
           u == [i \in DOMAIN t |->
                   t[i] + (IF s[i].mode = r.mode /\ s[i].index = r.index THEN 1 ELSE 0)]
           one(i) == IF i = m THEN 1 ELSE 0
<1>1. /\ DOMAIN s \subseteq Nat /\ s \in [DOMAIN s -> Behaviour]
      /\ b \in [DOMAIN s -> {0, 1}] /\ t \in [DOMAIN s -> Nat] /\ c \in [DOMAIN s -> Nat]
      /\ \A i \in DOMAIN s : /\ s[i].score \in Int /\ s[i].score <= 10
                             /\ FirstSends(s[i].mode, s[i].index)
      /\ Distinct(s) /\ Honest(s, b, t, c) /\ Rotating(b, t, c)
    BY DEF RecordInv, Behaviour
<1>2. m \in DOMAIN s /\ \A j \in DOMAIN s : s[j].score <= s[m].score
    BY <1>1, BestIsBest
<1>3. r = s[m] /\ n = [s EXCEPT ![m].score = @ - 1] BY DEF Recommended, recommand
<1>4. \A i \in DOMAIN s : s[i].mode = r.mode /\ s[i].index = r.index <=> i = m
    BY <1>1, <1>2, <1>3 DEF Distinct
<1>5. u \in [DOMAIN s -> Nat] /\ \A i \in DOMAIN s : u[i] = t[i] + one(i)
    BY <1>1, <1>4
<1> HIDE DEF m, r, n, u
<1>6. /\ n \in [DOMAIN s -> Behaviour] /\ DOMAIN n = DOMAIN s
      /\ \A i \in DOMAIN s :
            /\ n[i].mode = s[i].mode /\ n[i].index = s[i].index
            /\ n[i].score = s[i].score - one(i)
    BY <1>1, <1>2, <1>3 DEF Behaviour
<1>7. SameBehaviours(n, s) /\ Distinct(n) BY <1>1, <1>6 DEF SameBehaviours, Distinct
<1>8. Honest(n, b, u, c)
  <2> SUFFICES ASSUME NEW i \in DOMAIN s
               PROVE  LET history == b[i] - u[i] + 2 * c[i] IN
                      /\ n[i].score <= history
                      /\ b[i] + 2 * c[i] <= 10 => n[i].score = history
      BY <1>6 DEF Honest
  <2>1. /\ s[i].score <= b[i] - t[i] + 2 * c[i]
        /\ b[i] + 2 * c[i] <= 10 => s[i].score = b[i] - t[i] + 2 * c[i]
        /\ b[i] \in Int /\ t[i] \in Int /\ c[i] \in Int /\ s[i].score \in Int
      BY <1>1 DEF Honest
  <2> QED BY <2>1, <1>5, <1>6, SMTT(20)
<1>9. Rotating(b, u, c)
  <2> SUFFICES ASSUME \A i \in DOMAIN c : c[i] = 0,
                      NEW i \in DOMAIN s, NEW j \in DOMAIN s, b[i] = b[j]
               PROVE  u[i] - u[j] <= 1
      BY <1>1 DEF Rotating
  <2>1. \A k \in DOMAIN s : c[k] = 0 /\ b[k] \in {0, 1} /\ t[k] \in Nat BY <1>1
  <2>2. s[i].score = b[i] - t[i] /\ s[j].score = b[j] - t[j] BY <2>1, <1>1 DEF Honest
  <2>3. t[i] - t[j] <= 1 BY <1>1 DEF Rotating
  <2>4. i = m => t[i] <= t[j] BY <2>1, <2>2, <1>2
  <2> QED BY <2>1, <2>3, <2>4, <1>5
<1>10. \A i \in DOMAIN n : n[i].score <= 10 /\ FirstSends(n[i].mode, n[i].index)
    BY <1>1, <1>6
<1>11. RecordInv(n, b, u, c)
    BY <1>1, <1>5, <1>6, <1>7, <1>8, <1>9, <1>10, Zenon DEF RecordInv
<1> QED BY <1>2, <1>3, <1>7, <1>11 DEF r, n, u

\* reportSuccess credits one behaviour at most, up to 10 points.
LEMMA CreditedRecord ==
    ASSUME NEW s, NEW b, NEW t, NEW c, RecordInv(s, b, t, c), NEW mode, NEW index
    PROVE  LET d == [i \in DOMAIN c |->
                       c[i] + (IF s[i].mode = mode /\ s[i].index = index THEN 1 ELSE 0)] IN
           /\ SameBehaviours(reportSuccess(s, mode, index), s)
           /\ RecordInv(reportSuccess(s, mode, index), b, t, d)
<1> DEFINE n == reportSuccess(s, mode, index)
           d == [i \in DOMAIN c |->
                   c[i] + (IF s[i].mode = mode /\ s[i].index = index THEN 1 ELSE 0)]
           hit(i) == s[i].mode = mode /\ s[i].index = index
<1>1. /\ DOMAIN s \subseteq Nat /\ s \in [DOMAIN s -> Behaviour]
      /\ b \in [DOMAIN s -> {0, 1}] /\ t \in [DOMAIN s -> Nat] /\ c \in [DOMAIN s -> Nat]
      /\ \A i \in DOMAIN s : /\ s[i].score \in Int /\ s[i].score <= 10
                             /\ FirstSends(s[i].mode, s[i].index)
      /\ Distinct(s) /\ Honest(s, b, t, c) /\ Rotating(b, t, c)
    BY DEF RecordInv, Behaviour
<1>2. /\ n \in [DOMAIN s -> Behaviour] /\ DOMAIN n = DOMAIN s
      /\ \A i \in DOMAIN s :
            /\ n[i].mode = s[i].mode /\ n[i].index = s[i].index
            /\ n[i].score = IF hit(i) THEN Min2(s[i].score + 2, 10) ELSE s[i].score
            /\ n[i].score <= 10
    BY <1>1 DEF reportSuccess, Min2, Behaviour
<1>3. /\ d \in [DOMAIN s -> Nat]
      /\ \A i \in DOMAIN s : d[i] = c[i] + (IF hit(i) THEN 1 ELSE 0)
    BY <1>1
<1> HIDE DEF n, d, hit
<1>4. /\ SameBehaviours(n, s) /\ Distinct(n)
      /\ \A i \in DOMAIN n : FirstSends(n[i].mode, n[i].index)
    BY <1>1, <1>2 DEF SameBehaviours, Distinct
<1>5. Honest(n, b, t, d)
  <2> SUFFICES ASSUME NEW i \in DOMAIN s
               PROVE  LET history == b[i] - t[i] + 2 * d[i] IN
                      /\ n[i].score <= history
                      /\ b[i] + 2 * d[i] <= 10 => n[i].score = history
      BY <1>2 DEF Honest
  <2>1. /\ s[i].score <= b[i] - t[i] + 2 * c[i]
        /\ b[i] + 2 * c[i] <= 10 => s[i].score = b[i] - t[i] + 2 * c[i]
        /\ b[i] \in Int /\ t[i] \in Nat /\ c[i] \in Int /\ s[i].score \in Int
      BY <1>1 DEF Honest
  <2> QED BY <2>1, <1>2, <1>3 DEF Min2
<1>6. Rotating(b, t, d)
  <2> SUFFICES ASSUME \A i \in DOMAIN d : d[i] = 0
               PROVE  \A i \in DOMAIN c : c[i] = 0
      BY <1>1 DEF Rotating
  <2> QED BY <1>1, <1>3
<1>7. RecordInv(n, b, t, d) BY <1>1, <1>2, <1>3, <1>4, <1>5, <1>6 DEF RecordInv
<1> QED BY <1>4, <1>7 DEF n, d

-----------------------------------------------------------------------------
(* The steps of a handler and of frpc's side of its session.                *)

\* The scores change, the behaviours of every record stay.
SameRecords == \A o \in Objects : SameBehaviours(scores'[o], scores[o])

LEMMA Same == \A s : SameBehaviours(s, s)
BY DEF SameBehaviours

\* What is known of NATs and behaviours does not depend on scores.
LEMMA ScoresApart ==
    ASSUME SameRecords
    PROVE  /\ \A o \in Objects : \A c, w : ForNATs(scores[o], c, w) => ForNATs(scores'[o], c, w)
           /\ \A s, at : HandlerInv(s, at, scores) => HandlerInv(s, at, scores')
           /\ \A o \in Objects : DOMAIN scores'[o] = DOMAIN scores[o]
<1>1. \A o \in Objects : \A c, w : ForNATs(scores[o], c, w) => ForNATs(scores'[o], c, w)
    BY DEF SameRecords, SameBehaviours, ForNATs
<1>2. \A s, at : HandlerInv(s, at, scores) => HandlerInv(s, at, scores')
    BY <1>1 DEF HandlerInv
<1> QED BY <1>1, <1>2 DEF SameRecords, SameBehaviours

Before == {"idle", "prechecked", "sending"}

\* A step of the session of v: it changes no other session, and takes neither frpc's
\* side nor the handler back to where it began.
Local(v) ==
    /\ session' \in [Visitors -> Session] /\ client' \in [Visitors -> ClientSteps]
    /\ \A u \in Visitors \ {v} : session'[u] = session[u] /\ client'[u] = client[u]
    /\ client[v] = "none" => client'[v] = "none"
    /\ session[v].pc \notin Before => session'[v].pc \notin Before
    /\ session'[v].pc \in Before \cup {"waiting", "analysing"} =>
          session[v].pc \in Before \cup {"waiting", "analysing"}

LEMMA LocalStep ==
    ASSUME Types, LoopInv, HandlersInv, Unmade, NEW v \in Visitors, Local(v),
           loop' = loop, SameRecords,
           HandlerInv(session'[v], client'[v], scores)
    PROVE  LoopInv' /\ HandlersInv' /\ Unmade'
<1>1. LoopInv' BY DEF LoopInv, Local, Types, Before
<1>2. HandlersInv' BY ScoresApart DEF HandlersInv, Local
<1>3. Unmade' BY ScoresApart DEF Unmade, Local, Before, Objects
<1> QED BY <1>1, <1>2, <1>3

\* The handler goes on without a change of its session.
LEMMA GoLocal ==
    ASSUME Types, NEW v \in Visitors, NEW pc \in Steps, Go(v, pc), client' = client,
           session[v].pc \notin Before => pc \notin Before,
           pc \in Before \cup {"waiting", "analysing"} =>
              session[v].pc \in Before \cup {"waiting", "analysing"}
    PROVE  Local(v) /\ session'[v] = [session[v] EXCEPT !.pc = pc]
<1>1. /\ [session[v] EXCEPT !.pc = pc] \in Session /\ [session[v] EXCEPT !.pc = pc].pc = pc
      /\ session[v] \in Session
    BY DEF Types, Session
<1> QED BY <1>1 DEF Types, Local, Go

LEMMA NoSessionTyped == NoSession \in Session /\ NoSession.notified = FALSE
BY PeersAssumption DEF Session, NoSession, Steps, Modes

LEMMA ReturnLocal ==
    ASSUME Types, NEW v \in Visitors, Return(v), client' = client,
           session[v].pc \notin Before
    PROVE  /\ Local(v) /\ session'[v].pc = "done"
           /\ client[v] = "reported" =>
                 session'[v] = [session[v] EXCEPT !.pc = "done"]
           /\ client[v] # "reported" => session'[v] = [NoSession EXCEPT !.pc = "done"]
<1> DEFINE e == IF client[v] = "reported" THEN session[v] ELSE NoSession
           s == [e EXCEPT !.pc = "done"]
<1>1. s \in Session /\ s.pc = "done"
  <2>1. e \in Session BY NoSessionTyped, Zenon DEF Types
  <2> HIDE DEF e
  <2> QED BY <2>1 DEF Session, Steps
<1>2. session' = [session EXCEPT ![v] = s] BY DEF Return
<1> HIDE DEF s
<1>3. Local(v) /\ session'[v] = s BY <1>1, <1>2, Zenon DEF Types, Local, Before
<1> QED BY <1>1, <1>3 DEF s

\* A step that leaves the records alone.
LEMMA SessionStep ==
    ASSUME Types, HandlersInv, NEW v \in Visitors,
           \/ PreCheck(v) \/ PreCheckRefused(v) \/ HandleVisitor(v) \/ HandleVisitorRefused(v)
           \/ Notified(v) \/ WaitTimeout(v) \/ SessionEnds(v)
           \/ \E peer \in {"client", "visitor"} : Respond(v, peer)
           \/ ClientStops(v) \/ HandleClient(v) \/ StoreClient(v)
           \/ ReportFails(v) \/ ReportSucceeds(v)
    PROVE  Local(v) /\ HandlerInv(session'[v], client'[v], scores)
<1> DEFINE s == session[v]
<1> s \in Session /\ client[v] \in ClientSteps /\ HandlerInv(s, client[v], scores)
    BY Zenon DEF Types, HandlersInv
<1>1. CASE PreCheck(v) \/ Notified(v) \/ PreCheckRefused(v) \/ HandleVisitorRefused(v)
  <2>1. \E pc \in {"prechecked", "analysing", "done"} :
           /\ Local(v) /\ session'[v] = [s EXCEPT !.pc = pc] /\ client' = client
           /\ pc = "prechecked" => s.pc = "idle"
           /\ pc = "analysing" => s.pc = "waiting" /\ s.notified
           /\ pc = "done" => s.pc \in {"idle", "prechecked"}
      BY <1>1, GoLocal, Zenon
         DEF PreCheck, Notified, PreCheckRefused, HandleVisitorRefused, Before, Steps
  <2> QED BY <2>1 DEF HandlerInv, Session
<1>2. CASE HandleVisitor(v)
  <2>1. PICK n \in Session :
           /\ n.pc = "sending" /\ n.vMsg \in VisitorPeers /\ n.notified = FALSE
           /\ session' = [session EXCEPT ![v] = n]
    <3>1. clientCfg \in 0..MaxGenerations BY PeersAssumption DEF Types
    <3> QED BY <3>1, <1>2, NoSessionTyped, Zenon DEF HandleVisitor, Session, Steps
  <2>2. Local(v) /\ session'[v] = n /\ client' = client /\ s.pc = "prechecked"
      BY <2>1, <1>2, Zenon DEF HandleVisitor, Types, Local, Before
  <2> QED BY <2>1, <2>2 DEF HandlerInv
<1>3. CASE WaitTimeout(v) \/ SessionEnds(v)
  <2>1. s.pc \in {"waiting", "lingering"} /\ Return(v) /\ client' = client
      BY <1>3 DEF WaitTimeout, SessionEnds
  <2>2. /\ Local(v) /\ session'[v].pc = "done"
        /\ client[v] = "reported" => session'[v] = [s EXCEPT !.pc = "done"]
        /\ client[v] # "reported" => session'[v] = [NoSession EXCEPT !.pc = "done"]
      BY <2>1, ReturnLocal, Zenon DEF Before
  <2> QED BY <2>1, <2>2, Zenon DEF HandlerInv, NoSession, Session
<1>4. CASE \E peer \in {"client", "visitor"} : Respond(v, peer)
  <2>1. PICK n \in Session, at \in ClientSteps :
           /\ s.pc = "responding" /\ n.pc \in {"responding", "lingering"}
           /\ n.vMsg = s.vMsg /\ n.cMsg = s.cMsg /\ n.notified = s.notified
           /\ n.mode = s.mode /\ n.index = s.index
           /\ at = client[v] \/ (client[v] = "exchanging" /\ at \in {"gone", "punching"})
           /\ session' = [session EXCEPT ![v] = n] /\ client' = [client EXCEPT ![v] = at]
    <3>1. PICK peer \in {"client", "visitor"} : Respond(v, peer) BY <1>4
    <3> DEFINE at == IF peer = "client" /\ client[v] = "exchanging"
                       THEN IF s.error THEN "gone" ELSE "punching"
                       ELSE client[v]
               n == [s EXCEPT !.unsent = @ \ {peer},
                        !.pc = IF s.unsent = {peer} THEN "lingering" ELSE "responding"]
    <3>2. n \in Session /\ at \in ClientSteps BY Zenon DEF Session, Steps, ClientSteps
    <3>3. /\ s.pc = "responding" /\ client' = [client EXCEPT ![v] = at]
          /\ session' = [session EXCEPT ![v] = n]
        BY <3>1, Zenon DEF Respond, Session, Types
    <3> QED BY <3>2, <3>3, Zenon DEF Session
  <2>2. Local(v) /\ session'[v] = n /\ client'[v] = at BY <2>1, SMTT(20) DEF Types, Local, Before
  <2> QED BY <2>1, <2>2 DEF HandlerInv
<1>5. CASE ClientStops(v) \/ HandleClient(v) \/ ReportFails(v) \/ ReportSucceeds(v)
  <2>1. /\ session' = session /\ client' = [client EXCEPT ![v] = client'[v]]
        /\ \/ client[v] = "preparing" /\ client'[v] \in {"found", "gone"}
           \/ client[v] = "exchanging" /\ client'[v] = "gone"
           \/ client[v] = "punching" /\ client'[v] = "gone"
           \/ client[v] = "punching" /\ client'[v] = "reported" /\ InSessions(v)
      BY <1>5 DEF ClientStops, HandleClient, ReportFails, ReportSucceeds, Types
  <2> QED BY <2>1, Zenon DEF HandlerInv, InSessions, Types, Local, ClientSteps
<1>6. CASE StoreClient(v) /\ InSessions(v)
  <2>1. PICK n \in Session :
           /\ n.pc = s.pc /\ n.cMsg \in ClientPeers /\ n.vMsg = s.vMsg
           /\ session' = [session EXCEPT ![v] = n]
      BY <1>6, Zenon DEF StoreClient, Session, Types
  <2>2. /\ Local(v) /\ session'[v] = n /\ client[v] = "found" /\ client'[v] = "exchanging"
      BY <1>6, <2>1, Zenon DEF StoreClient, Types, Local, ClientSteps
  <2>3. s.pc = "waiting" BY <1>6, <2>2, Zenon DEF HandlerInv, InSessions, Session, Steps
  <2> QED BY <2>1, <2>2, <2>3, Zenon DEF HandlerInv
<1>7. CASE StoreClient(v) /\ ~InSessions(v)
    BY <1>7 DEF StoreClient, HandlerInv, Types, Local, ClientSteps, InSessions
<1> QED BY <1>1, <1>2, <1>3, <1>4, <1>5, <1>6, <1>7, Zenon

-----------------------------------------------------------------------------
(* The steps that use a record.                                             *)

LEMMA ChargeStep ==
    ASSUME Histories, RecordsInv, NEW o \in Objects, DOMAIN scores[o] # {}, Charge(o)
    PROVE  /\ Histories' /\ RecordsInv' /\ SameRecords
           /\ \E i \in DOMAIN scores[o] : Recommended(scores[o]) = scores[o][i]
<1> DEFINE r == Recommended(scores[o])
           u == [i \in DOMAIN tried[o] |-> tried[o][i] +
                   (IF scores[o][i].mode = r.mode /\ scores[o][i].index = r.index THEN 1 ELSE 0)]
<1>1. /\ \E i \in DOMAIN scores[o] : r = scores[o][i]
      /\ SameBehaviours(recommand(scores[o]), scores[o])
      /\ RecordInv(recommand(scores[o]), born[o], u, credited[o])
    BY ChargedRecord, Zenon DEF RecordsInv
<1>2. /\ tried' = [tried EXCEPT ![o] = u] /\ scores' = [scores EXCEPT ![o] = recommand(scores[o])]
      /\ born' = born /\ credited' = credited
    BY DEF Charge
<1> HIDE DEF u
<1>3. Histories' /\ RecordsInv' BY <1>1, <1>2 DEF RecordsInv, Histories
<1>4. SameRecords BY <1>1, <1>2, Same DEF SameRecords, Histories
<1> QED BY <1>1, <1>3, <1>4

LEMMA CreditStep ==
    ASSUME Histories, RecordsInv, Types, HandlersInv, NEW v \in Visitors, HandleReport(v)
    PROVE  Histories' /\ RecordsInv' /\ SameRecords
<1> DEFINE s == session[v]
           o == records[genAnalysisKey(s.vMsg, s.cMsg)]
           d == [i \in DOMAIN credited[o] |-> credited[o][i] +
                   (IF scores[o][i].mode = s.mode /\ scores[o][i].index = s.index THEN 1 ELSE 0)]
<1>1. CASE o = Nobody
    BY <1>1, Same DEF HandleReport, recordVars, Histories, RecordsInv, SameRecords
<1>2. CASE o # Nobody
  <2>1. s.vMsg \in VisitorPeers /\ s.cMsg \in ClientPeers
      BY Zenon DEF HandleReport, HandlersInv, HandlerInv
  <2>2. o \in Objects BY <2>1, <1>2 DEF Types, Keys
  <2>3. /\ scores' = [scores EXCEPT ![o] = reportSuccess(scores[o], s.mode, s.index)]
        /\ credited' = [credited EXCEPT ![o] = d] /\ born' = born /\ tried' = tried
      BY <1>2, Zenon DEF HandleReport
  <2> HIDE DEF o, s
  <2>4. /\ SameBehaviours(reportSuccess(scores[o], s.mode, s.index), scores[o])
        /\ RecordInv(reportSuccess(scores[o], s.mode, s.index), born[o], tried[o], d)
      BY <2>2, CreditedRecord DEF RecordsInv
  <2> HIDE DEF d
  <2>5. Histories' /\ RecordsInv' BY <2>2, <2>3, <2>4, Zenon DEF RecordsInv, Histories
  <2>6. SameRecords BY <2>2, <2>3, <2>4, Same, Zenon DEF SameRecords, Histories
  <2> QED BY <2>5, <2>6
<1> QED BY <1>1, <1>2, Zenon

LEMMA RecommandStep ==
    ASSUME Types, Histories, RecordsInv, HandlersInv, NEW v \in Visitors, Recommand(v)
    PROVE  /\ Histories' /\ RecordsInv' /\ SameRecords
           /\ Local(v) /\ HandlerInv(session'[v], client'[v], scores)
<1> DEFINE s == session[v]
           o == s.object
           r == Recommended(scores[o])
           n == [s EXCEPT !.pc = "responding", !.mode = r.mode, !.index = r.index,
                          !.unsent = {"client", "visitor"}]
<1>1. /\ s \in Session /\ s.pc = "recommending" /\ HandlerInv(s, client[v], scores)
    BY Zenon DEF Types, HandlersInv, Recommand
<1>2. /\ o \in Objects /\ ForNATs(scores[o], Feature(s.cMsg), Feature(s.vMsg))
      /\ Charge(o)
    BY <1>1 DEF HandlerInv, Recommand
<1>3. /\ Histories' /\ RecordsInv' /\ SameRecords
      /\ \E i \in DOMAIN scores[o] : r = scores[o][i]
  <2> HIDE DEF o
  <2> QED BY <1>2, ChargeStep DEF ForNATs
<1>4. /\ r \in Behaviour /\ FirstSends(r.mode, r.index)
      /\ r.mode \in {3, 4} => /\ Feature(s.cMsg).natType = "HardNAT"
                              /\ Feature(s.vMsg).natType = "HardNAT"
  <2>1. PICK i \in DOMAIN scores[o] : r = scores[o][i] BY <1>3, Zenon
  <2>2. RecordInv(scores[o], born[o], tried[o], credited[o]) BY <1>2, Zenon DEF RecordsInv
  <2> HIDE DEF r
  <2> QED BY <1>2, <2>1, <2>2, Zenon DEF RecordInv, ForNATs
<1>5. session' = [session EXCEPT ![v] = n] /\ client' = client
    BY Zenon DEF Recommand, Types, Session
<1> HIDE DEF r
<1>6. /\ n \in Session /\ n.pc = "responding" /\ n.mode = r.mode /\ n.index = r.index
      /\ n.vMsg = s.vMsg /\ n.cMsg = s.cMsg /\ n.notified = s.notified
    BY <1>1, <1>4, Zenon DEF Session, Steps, Behaviour
<1> HIDE DEF n
<1>7. Local(v) /\ session'[v] = n BY <1>1, <1>5, <1>6, Zenon DEF Types, Local, Before
<1>8. HandlerInv(n, client[v], scores) BY <1>1, <1>4, <1>6 DEF HandlerInv
<1> QED BY <1>3, <1>5, <1>7, <1>8, Zenon

\* The key of two peers tells the types of their NATs.
LEMMA KeyTellsTypes ==
    ASSUME NEW w, NEW c, NEW x, NEW d, genAnalysisKey(w, c) = genAnalysisKey(x, d),
           NEW s, ForNATs(s, Feature(c), Feature(w))
    PROVE  ForNATs(s, Feature(d), Feature(x))
<1>1. Feature(w).natType = Feature(x).natType /\ Feature(c).natType = Feature(d).natType
    BY DEF genAnalysisKey
<1> QED BY <1>1, Zenon DEF ForNATs

\* A record made for two peers.
LEMMA NewRecord ==
    ASSUME NEW c, NEW w
    PROVE  LET new == newMakeHoleRecords(Feature(c), Feature(w))
               zero == [i \in DOMAIN new |-> 0] IN
           /\ RecordInv(new, Points(new), zero, zero)
           /\ ForNATs(new, Feature(c), Feature(w))
<1> DEFINE new == newMakeHoleRecords(Feature(c), Feature(w))
           zero == [i \in DOMAIN new |-> 0]
<1>1. PICK modes : /\ Fresh(new, modes)
                   /\ modes \cap {3, 4} # {} => /\ Feature(c).natType = "HardNAT"
                                                /\ Feature(w).natType = "HardNAT"
    BY NewRecordsFresh
<1> HIDE DEF new
<1>2. RecordInv(new, Points(new), zero, zero) /\ DOMAIN new # {} BY <1>1, MadeRecord, Zenon
<1>3. ForNATs(new, Feature(c), Feature(w)) BY <1>1, <1>2, Zenon DEF ForNATs, Fresh
<1> QED BY <1>2, <1>3 DEF new

LEMMA FindStep ==
    ASSUME NatInv, NEW v \in Visitors, FindRecord(v)
    PROVE  NatInv'
<1> DEFINE s == session[v]
           key == genAnalysisKey(s.vMsg, s.cMsg)
           o == IF records[key] = Nobody THEN v ELSE records[key]
           n == [s EXCEPT !.pc = "recommending", !.object = o]
           new == newMakeHoleRecords(Feature(s.cMsg), Feature(s.vMsg))
           zero == [i \in DOMAIN new |-> 0]
<1> USE DEF NatInv
<1> /\ s \in Session /\ s.pc = "analysing" /\ HandlerInv(s, client[v], scores)
    /\ s.vMsg \in VisitorPeers /\ s.cMsg \in ClientPeers
    BY DEF FindRecord, Types, HandlersInv, HandlerInv
<1> /\ loop' = loop /\ clientCfg' = clientCfg /\ last' = last /\ closed' = closed
    /\ closing' = closing /\ client' = client /\ earlier' = earlier
    BY DEF FindRecord, proxyVars
<1>1. key \in Keys /\ o \in Objects BY DEF Keys, Types, Objects
<1>2. session' = [session EXCEPT ![v] = n]
    BY PeersAssumption, Zenon DEF FindRecord, Peers, Types, Session
<1>3. /\ n \in Session /\ n.pc = "recommending" /\ n.object = o
      /\ n.vMsg = s.vMsg /\ n.cMsg = s.cMsg /\ n.notified = s.notified
  <2> HIDE DEF o
  <2> QED BY <1>1, Zenon DEF Session, Steps
<1>4. IF o = v
        THEN /\ records' = [records EXCEPT ![key] = v]
             /\ scores' = [scores EXCEPT ![v] = new]
             /\ born' = [born EXCEPT ![v] = Points(new)]
             /\ tried' = [tried EXCEPT ![v] = zero]
             /\ credited' = [credited EXCEPT ![v] = zero]
             /\ old' = old
        ELSE UNCHANGED recordVars
    BY <1>2, <1>3, Zenon DEF FindRecord, Types
<1> HIDE DEF n, new
<1> Local(v) /\ session'[v] = n BY <1>2, <1>3 DEF Types, Local, Before
<1>5. CASE records[key] # Nobody
  <2>1. ForNATs(scores[o], Feature(s.cMsg), Feature(s.vMsg)) BY <1>5, Zenon DEF MapInv
  <2>2. o # v BY <2>1, Zenon DEF Unmade, ForNATs
  <2>3. /\ records' = records /\ scores' = scores /\ born' = born
        /\ tried' = tried /\ credited' = credited /\ old' = old
      BY <1>4, <2>2 DEF recordVars
  <2>4. HandlerInv(n, client[v], scores) BY <1>1, <1>3, <2>1, Zenon DEF HandlerInv
  <2>5. SameRecords BY <2>3, Same, Zenon DEF SameRecords
  <2>6. LoopInv' /\ HandlersInv' /\ Unmade' BY <2>4, <2>5, LocalStep, Zenon
  <2> QED BY <2>3, <2>6, Zenon DEF Types, Local, Histories, RecordsInv, MapInv, EarlierInv
<1>6. CASE records[key] = Nobody
  <2>1. /\ records' = [records EXCEPT ![key] = v]
        /\ scores' = [scores EXCEPT ![v] = new]
        /\ born' = [born EXCEPT ![v] = Points(new)]
        /\ tried' = [tried EXCEPT ![v] = zero]
        /\ credited' = [credited EXCEPT ![v] = zero]
        /\ old' = old
      BY <1>4, <1>6, Zenon
  <2>2. /\ RecordInv(new, Points(new), zero, zero)
        /\ ForNATs(new, Feature(s.cMsg), Feature(s.vMsg))
      BY NewRecord, Zenon DEF new
  <2> DOMAIN scores[v] = {} /\ v \in Objects /\ o = v BY <1>6, Zenon DEF Unmade, Objects
  <2>3. scores'[v] = new /\ \A x \in Objects \ {v} : scores'[x] = scores[x]
      BY <2>1, Zenon DEF Histories
  <2>4. Types' BY <1>1, <2>1, Zenon DEF Types, Local
  <2>5. Histories' /\ RecordsInv' BY <2>1, <2>2, Zenon DEF RecordsInv, Histories
  <2>6. HandlersInv'
    <3>1. HandlerInv(n, client[v], scores') BY <1>3, <2>2, <2>3, Zenon DEF HandlerInv
    <3>2. ASSUME NEW u \in Visitors \ {v} PROVE HandlerInv(session[u], client[u], scores')
      <4>1. session[u].pc = "recommending" => session[u].object \in Objects \ {v}
          BY Zenon DEF HandlersInv, HandlerInv, ForNATs
      <4> QED BY <4>1, <2>3, Zenon DEF HandlersInv, HandlerInv
    <3> QED BY <3>1, <3>2 DEF HandlersInv, Local
  <2>7. LoopInv' BY Zenon DEF LoopInv, Types, Local, Before
  <2>8. Unmade' BY <1>3, <2>3, Zenon DEF Unmade, Local, Objects
  <2>9. MapInv'
    <3> SUFFICES ASSUME NEW w \in VisitorPeers, NEW c \in ClientPeers,
                        records'[genAnalysisKey(w, c)] # Nobody
                 PROVE  ForNATs(scores'[records'[genAnalysisKey(w, c)]], Feature(c), Feature(w))
        BY Zenon DEF MapInv
    <3> DEFINE k == genAnalysisKey(w, c)
    <3>1. k \in Keys BY KeysOfPeers, Zenon
    <3>2. CASE k = key
      <4>1. ForNATs(new, Feature(c), Feature(w)) BY <2>2, <3>2, KeyTellsTypes, Zenon
      <4> QED BY <4>1, <3>1, <3>2, <2>1, <2>3 DEF Types
    <3>3. CASE k # key
      <4>1. records'[k] = records[k] BY <3>1, <3>3, <2>1, Zenon DEF Types
      <4>2. ForNATs(scores[records[k]], Feature(c), Feature(w)) BY <4>1, Zenon DEF MapInv
      <4>3. records[k] \in Objects \ {v} BY <3>1, <4>1, <4>2 DEF Types, ForNATs
      <4> QED BY <4>1, <4>2, <4>3, <2>3, Zenon
    <3> QED BY <3>2, <3>3, Zenon
  <2>10. EarlierInv' BY <2>3, PeersAssumption, Zenon DEF EarlierInv, Objects
  <2> QED BY <2>4, <2>5, <2>6, <2>7, <2>8, <2>9, <2>10, Zenon
<1> QED BY <1>5, <1>6, Zenon

-----------------------------------------------------------------------------
(* The proxy, its loop, and the cleaning.                                   *)

LEMMA ProxyStep ==
    ASSUME Types, LoopInv, HandlersInv, Unmade, UNCHANGED recordVars, UNCHANGED earlier,
           \/ ListenClient \/ CloseClient
           \/ \E g \in Generations : CloseCh(g) \/ Loop(g)
    PROVE  Types' /\ LoopInv' /\ HandlersInv' /\ Unmade'
<1> records' = records /\ scores' = scores /\ old' = old /\ earlier' = earlier BY DEF recordVars
<1>1. \A x \in {"none", "select", "gone"} : x \notin Visitors BY PeersAssumption, Zenon
<1>2. CASE \/ ListenClient \/ CloseClient
           \/ \E g \in Generations : CloseCh(g) \/ LoopStops(g) \/ LoopFails(g)
  <2>1. /\ session' = session /\ client' = client
        /\ \A g \in Generations : loop'[g] = loop[g] \/ loop'[g] \in {"select", "gone"}
      BY <1>2, Zenon DEF ListenClient, CloseClient, CloseCh, LoopStops, LoopFails, Types
  <2>2. Types'
    <3>1. CASE ListenClient BY <3>1, PeersAssumption DEF ListenClient, Types, Generations
    <3>2. CASE CloseClient BY <3>2, PeersAssumption DEF CloseClient, Types, Generations
    <3> QED BY <3>1, <3>2, <1>2, Zenon DEF CloseCh, LoopStops, LoopFails, Types
  <2> QED BY <2>1, <2>2, <1>1 DEF LoopInv, HandlersInv, Unmade
<1>3. ASSUME NEW g \in Generations, LoopDelivers(g)
      PROVE  Types' /\ LoopInv' /\ HandlersInv' /\ Unmade'
  <2> DEFINE v == loop[g]
  <2>1. /\ v \in Visitors /\ session' = session
        /\ client' = [client EXCEPT ![v] = "preparing"] /\ loop' = [loop EXCEPT ![g] = "select"]
      BY <1>3 DEF LoopDelivers
  <2>2. Types' BY <1>3, <2>1, Zenon DEF LoopDelivers, Types, ClientSteps
  <2>3. LoopInv' BY <2>1, <1>1 DEF LoopInv, Types
  <2>4. HandlerInv(session[v], "preparing", scores)
      BY <2>1, Zenon DEF LoopInv, HandlersInv, HandlerInv
  <2>5. HandlersInv' /\ Unmade' BY <2>1, <2>4, Zenon DEF HandlersInv, Types, Unmade
  <2> QED BY <2>2, <2>3, <2>5
<1>4. ASSUME NEW g \in Generations, NEW v \in Visitors, LoopTakes(g, v)
      PROVE  Types' /\ LoopInv' /\ HandlersInv' /\ Unmade'
  <2> DEFINE n == [session[v] EXCEPT !.pc = "waiting"]
  <2>1. /\ session[v].pc = "sending" /\ session' = [session EXCEPT ![v] = n]
        /\ client' = client /\ loop' = [loop EXCEPT ![g] = v]
      BY <1>4 DEF LoopTakes
  <2> session[v] \in Session BY DEF Types
  <2> /\ n \in Session /\ n.pc = "waiting" /\ n.vMsg = session[v].vMsg
      /\ n.notified = session[v].notified
      BY DEF Session, Steps
  <2> HIDE DEF n
  <2>2. Types' BY <1>4, <2>1 DEF LoopTakes, Types
  <2>3. HandlerInv(n, client[v], scores) /\ client[v] = "none"
      BY <2>1, Zenon DEF HandlersInv, HandlerInv
  <2>4. session'[v] = n /\ \A u \in Visitors \ {v} : session'[u] = session[u]
      BY <2>1, Zenon DEF Types
  <2>5. HandlersInv' /\ Unmade' BY <2>1, <2>3, <2>4 DEF HandlersInv, Unmade
  <2>6. \A h \in Generations : loop[h] # v /\ loop'[h] = IF h = g THEN v ELSE loop[h]
      BY <2>1, Zenon DEF Types, LoopInv
  <2>7. LoopInv' BY <2>1, <2>3, <2>4, <2>6, SMTT(20) DEF LoopInv
  <2> QED BY <2>2, <2>5, <2>7
<1> QED BY <1>2, <1>3, <1>4 DEF Loop

\* Records may leave the map; those in it and their behaviours stay.
LEMMA MapKept ==
    ASSUME MapInv, EarlierInv, Types, SameRecords, earlier' \in Nat, earlier' <= earlier,
           \A k \in Keys : records'[k] \in {records[k], Nobody}
    PROVE  MapInv' /\ EarlierInv'
<1>1. MapInv'
  <2> SUFFICES ASSUME NEW w \in VisitorPeers, NEW c \in ClientPeers,
                      records'[genAnalysisKey(w, c)] # Nobody
               PROVE  ForNATs(scores'[records'[genAnalysisKey(w, c)]], Feature(c), Feature(w))
      BY DEF MapInv
  <2> DEFINE k == genAnalysisKey(w, c)
  <2>1. k \in Keys BY DEF Keys
  <2>2. records'[k] = records[k] /\ records[k] \in Objects BY <2>1, Zenon DEF Types
  <2>3. ForNATs(scores[records[k]], Feature(c), Feature(w)) BY <2>2 DEF MapInv
  <2> QED BY <2>2, <2>3, ScoresApart, Zenon
<1>2. EarlierInv' BY ScoresApart DEF EarlierInv, Types, Objects
<1> QED BY <1>1, <1>2

-----------------------------------------------------------------------------
(* The invariant.                                                           *)

LEMMA NoRecord == RecordInv(<<>>, <<>>, <<>>, <<>>)
<1>1. <<>> = [i \in {} |-> 0] OBVIOUS
<1> QED BY <1>1 DEF RecordInv, Distinct, Honest, Rotating

LEMMA NatInit == Init => NatInv
<1> SUFFICES ASSUME Init PROVE NatInv
    OBVIOUS
<1>1. \A x \in {Prior, Nobody, "none", "select", "gone"} : x \notin Visitors
    BY PeersAssumption
<1> DEFINE zero(s) == [i \in DOMAIN s |-> 0]
<1>2. PICK p \in PriorAttempts :
        LET new == newMakeHoleRecords(Feature(p.client), Feature(p.visitor))
            key == genAnalysisKey(p.visitor, p.client)
            met(x, y) == IF p.times > 0 THEN x ELSE y
            none == [o \in Objects |-> <<>>] IN
        /\ earlier = p.times
        /\ records = [k \in Keys |-> IF k = key THEN met(Prior, Nobody) ELSE Nobody]
        /\ scores = [none EXCEPT ![Prior] = met(new, <<>>)]
        /\ born = [none EXCEPT ![Prior] = met(Points(new), <<>>)]
        /\ tried = [none EXCEPT ![Prior] = met(zero(new), <<>>)]
        /\ credited = [none EXCEPT ![Prior] = met(zero(new), <<>>)]
    BY Zenon DEF Init, Objects
<1>3. p.visitor \in VisitorPeers /\ p.client \in ClientPeers /\ p.times \in Nat
    BY PeersAssumption, Zenon
<1> DEFINE new == newMakeHoleRecords(Feature(p.client), Feature(p.visitor))
<1>4. /\ RecordInv(new, Points(new), zero(new), zero(new))
      /\ ForNATs(new, Feature(p.client), Feature(p.visitor))
    BY NewRecord
<1> HIDE DEF new
<1>5. Prior \in Objects BY Zenon DEF Objects
<1>6. /\ \A o \in Objects \ {Prior} :
            scores[o] = <<>> /\ born[o] = <<>> /\ tried[o] = <<>> /\ credited[o] = <<>>
      /\ IF p.times > 0
           THEN /\ scores[Prior] = new /\ born[Prior] = Points(new)
                /\ tried[Prior] = zero(new) /\ credited[Prior] = zero(new)
           ELSE /\ scores[Prior] = <<>> /\ born[Prior] = <<>>
                /\ tried[Prior] = <<>> /\ credited[Prior] = <<>>
    BY <1>2, <1>5, Zenon DEF new
<1>7. Types
  <2>1. records \in [Keys -> Objects \cup {Nobody}] /\ earlier \in Nat BY <1>2, <1>3, <1>5, Zenon
  <2> QED BY <2>1, NoSessionTyped, PeersAssumption DEF Init, Types, ClientSteps
<1>8. Histories BY <1>2 DEF Histories
<1>9. LoopInv /\ HandlersInv BY <1>1, Zenon DEF Init, LoopInv, HandlersInv, HandlerInv, NoSession
<1>10. Unmade BY <1>1, <1>6 DEF Unmade, Objects
<1>11. RecordsInv BY <1>4, <1>6, NoRecord, Zenon DEF RecordsInv
<1>12. MapInv
  <2> SUFFICES ASSUME NEW w \in VisitorPeers, NEW c \in ClientPeers,
                      records[genAnalysisKey(w, c)] # Nobody
               PROVE  ForNATs(scores[records[genAnalysisKey(w, c)]], Feature(c), Feature(w))
      BY DEF MapInv
  <2>1. genAnalysisKey(w, c) \in Keys BY KeysOfPeers, Zenon
  <2>2. /\ genAnalysisKey(w, c) = genAnalysisKey(p.visitor, p.client)
        /\ records[genAnalysisKey(w, c)] = Prior /\ p.times > 0
      BY <2>1, <1>2
  <2>3. ForNATs(new, Feature(c), Feature(w)) BY <1>4, <2>2, KeyTellsTypes, Zenon
  <2> QED BY <2>2, <2>3, <1>6, Zenon
<1>13. EarlierInv BY <1>2, <1>4, <1>6, Zenon DEF EarlierInv, ForNATs
<1> QED BY <1>7, <1>8, <1>9, <1>10, <1>11, <1>12, <1>13 DEF NatInv

LEMMA NatStep == NatInv /\ [Next]_vars => NatInv'
<1> SUFFICES ASSUME NatInv, [Next]_vars PROVE NatInv'
    OBVIOUS
<1> USE DEF NatInv
<1>1. ASSUME UNCHANGED recordVars, UNCHANGED earlier
      PROVE  Histories' /\ RecordsInv' /\ MapInv' /\ EarlierInv' /\ SameRecords
    BY <1>1, Same, Zenon DEF recordVars, Histories, RecordsInv, MapInv, EarlierInv, SameRecords
<1>2. ASSUME NEW v \in Visitors, Local(v), HandlerInv(session'[v], client'[v], scores),
             UNCHANGED proxyVars, UNCHANGED <<records, earlier>>, old' \subseteq old,
             SameRecords
      PROVE  Types' /\ LoopInv' /\ HandlersInv' /\ Unmade' /\ MapInv' /\ EarlierInv'
  <2>1. Types' BY <1>2, Zenon DEF Types, Local, proxyVars
  <2>2. LoopInv' /\ HandlersInv' /\ Unmade' BY <1>2, LocalStep, Zenon DEF proxyVars
  <2>3. MapInv' /\ EarlierInv' BY <1>2, MapKept DEF Types
  <2> QED BY <2>1, <2>2, <2>3, Zenon
<1>3. CASE EarlierAttempt
  <2>1. Histories' /\ RecordsInv' /\ SameRecords
      BY <1>3, ChargeStep, Zenon DEF EarlierAttempt, EarlierInv, Objects
  <2>2. /\ earlier' \in Nat /\ earlier' <= earlier /\ records' = records
        /\ session' = session /\ client' = client /\ loop' = loop /\ old' \subseteq old
        /\ UNCHANGED proxyVars
      BY <1>3 DEF EarlierAttempt, Charge, Types, proxyVars
  <2>3. MapInv' /\ EarlierInv' BY <2>1, <2>2, MapKept, Zenon
  <2>4. Types' /\ LoopInv' BY <2>2, Zenon DEF Types, LoopInv, proxyVars
  <2>5. HandlersInv' /\ Unmade' BY <2>1, <2>2, ScoresApart, Zenon DEF HandlersInv, Unmade, Objects
  <2> QED BY <2>1, <2>3, <2>4, <2>5, Zenon
<1>4. CASE \/ ListenClient \/ CloseClient
           \/ \E g \in Generations : CloseCh(g) \/ Loop(g)
  <2>1. UNCHANGED recordVars /\ UNCHANGED earlier
      BY <1>4, Zenon DEF ListenClient, CloseClient, CloseCh, Loop, LoopStops, LoopDelivers,
                         LoopFails, LoopTakes
  <2> QED BY <1>4, <2>1, <1>1, ProxyStep, Zenon
<1>5. ASSUME NEW v \in Visitors, Handler(v) \/ Client(v) PROVE NatInv'
  <2>1. CASE Recommand(v)
    <3>1. UNCHANGED proxyVars /\ UNCHANGED <<records, earlier>> /\ old' \subseteq old
        BY <2>1, Zenon DEF Recommand, Charge
    <3> QED BY <2>1, <3>1, <1>2, RecommandStep, Zenon
  <2>2. CASE HandleReport(v)
    <3>1. /\ UNCHANGED proxyVars /\ UNCHANGED <<records, earlier>> /\ old' \subseteq old
          /\ session' = session /\ client' = [client EXCEPT ![v] = "gone"]
          /\ client[v] = "reported"
        BY <2>2, Zenon DEF HandleReport, recordVars
    <3>2. Local(v) /\ HandlerInv(session'[v], client'[v], scores)
        BY <3>1, Zenon DEF Local, Types, ClientSteps, HandlersInv, HandlerInv
    <3> QED BY <2>2, <3>1, <3>2, <1>2, CreditStep
  <2>3. CASE \/ PreCheck(v) \/ PreCheckRefused(v) \/ HandleVisitor(v) \/ HandleVisitorRefused(v)
             \/ Notified(v) \/ WaitTimeout(v) \/ SessionEnds(v)
             \/ \E peer \in {"client", "visitor"} : Respond(v, peer)
             \/ ClientStops(v) \/ HandleClient(v) \/ StoreClient(v)
             \/ ReportFails(v) \/ ReportSucceeds(v)
    <3>1. UNCHANGED proxyVars /\ UNCHANGED recordVars /\ UNCHANGED earlier
        BY <2>3, Zenon DEF PreCheck, PreCheckRefused, HandleVisitor, HandleVisitorRefused, Notified,
                    WaitTimeout, SessionEnds, Respond, ClientStops, HandleClient, StoreClient,
                    ReportFails, ReportSucceeds
    <3>2. UNCHANGED <<records, earlier>> /\ old' \subseteq old BY <3>1, Zenon DEF recordVars
    <3> QED BY <2>3, <3>1, <3>2, <1>1, <1>2, SessionStep, Zenon
  <2> QED BY <1>5, <2>1, <2>2, <2>3, FindStep DEF Handler, Proceeds, Client
<1>6. CASE Clean \/ \E o \in Objects : Age(o)
  <2>1. /\ session' = session /\ client' = client /\ scores' = scores /\ born' = born
        /\ tried' = tried /\ credited' = credited /\ earlier' = earlier
        /\ UNCHANGED proxyVars /\ old' \subseteq Objects
        /\ records' \in [Keys -> Objects \cup {Nobody}]
        /\ \A k \in Keys : records'[k] \in {records[k], Nobody}
      BY <1>6, Zenon DEF Clean, Age, Types
  <2>2. MapInv' /\ EarlierInv'
    <3>1. SameRecords BY <2>1, Same, Zenon DEF SameRecords
    <3> QED BY <3>1, <2>1, MapKept DEF Types
  <2> QED BY <2>1, <2>2 DEF Types, LoopInv, HandlersInv, Unmade, Histories, RecordsInv, proxyVars
<1>7. CASE UNCHANGED vars
    BY <1>7 DEF vars, recordVars, proxyVars, Types, LoopInv, HandlersInv, Unmade, Histories,
                RecordsInv, MapInv, EarlierInv
<1> QED BY <1>3, <1>4, <1>5, <1>6, <1>7 DEF Next

LEMMA NatInvariant == Spec => []NatInv
BY NatInit, NatStep, PTL DEF Spec

-----------------------------------------------------------------------------
(* The types; a record in the analyzer's map always has a behaviour to       *)
(* recommend (newMakeHoleRecordsWithClock), also one that many sessions      *)
(* charged and credited.                                                     *)
THEOREM TypesHold == Spec => []TypeOK
<1>1. NatInv => TypeOK
  <2> SUFFICES ASSUME NatInv PROVE TypeOK
      OBVIOUS
  <2>1. Types BY DEF NatInv
  <2>2. \A v \in Visitors : session[v] \in Session /\ client[v] \in ClientSteps
      BY <2>1, Zenon DEF Types
  <2>3. \A k \in Keys : records[k] # Nobody => scores[records[k]] # <<>>
    <3> TAKE k \in Keys
    <3>1. PICK w \in VisitorPeers, c \in ClientPeers : k = genAnalysisKey(w, c)
        BY KeysOfPeers, Zenon
    <3>2. records[k] # Nobody => DOMAIN scores[records[k]] # {}
        BY <3>1, Zenon DEF NatInv, MapInv, ForNATs
    <3> QED BY <3>2
  <2> QED BY <2>1, <2>2, <2>3, Zenon DEF Types, TypeOK, Session, Steps, ClientSteps
<1> QED BY <1>1, NatInvariant, PTL

(* GetRecommandBehaviors gives the roles that the comments at the tables ask *)
(* for, to any peers, whichever sessions made, charged or cleaned the record *)
(* in the meantime: the message of frpc that the roles are computed from is  *)
(* the one the record was looked up with.                                    *)
THEOREM RolesFollowNATs == Spec => []RolesFit
<1>1. NatInv => RolesFit
  <2> SUFFICES ASSUME NatInv, NEW v \in Visitors, Answered(v)
               PROVE  LET s == session[v]
                          c == Feature(s.cMsg)
                          w == Feature(s.vMsg)
                          role(f) == Response(s, IF f = "c" THEN "client" ELSE "visitor").role
                          nat(f) == IF f = "c" THEN c ELSE w IN
                      /\ \A f \in {"c", "v"} :
                            /\ c.natType # w.natType /\ nat(f).natType = "HardNAT"
                                  => (s.mode = 1 => role(f) = S) /\ (s.mode = 2 => role(f) = R)
                            /\ c.regular # w.regular /\ nat(f).regular /\ s.mode = 4
                                  => role(f) = S
                      /\ s.mode \in {3, 4} => c.natType = "HardNAT" /\ w.natType = "HardNAT"
      BY Zenon DEF RolesFit
  <2> DEFINE s == session[v]
             c == Feature(s.cMsg)
             w == Feature(s.vMsg)
             r == ClientRole(s.mode, s.index, c)
  <2>1. /\ FirstSends(s.mode, s.index)
        /\ s.mode \in {3, 4} => c.natType = "HardNAT" /\ w.natType = "HardNAT"
      BY Zenon DEF NatInv, HandlersInv, HandlerInv, Answered
  <2>2. Response(s, "client").role = r /\ Response(s, "visitor").role = Other(r)
      BY Zenon DEF Response
  <2>3. /\ c.natType \in NatTypes /\ c.regular \in BOOLEAN
        /\ w.natType \in NatTypes /\ w.regular \in BOOLEAN
      BY OnlyHardIsRegular, Zenon
  <2> HIDE DEF s, c, w
  <2>4. /\ c.natType # w.natType =>
              /\ s.mode = 1 => /\ c.natType = "HardNAT" => r = S
                               /\ w.natType = "HardNAT" => Other(r) = S
              /\ s.mode = 2 => /\ c.natType = "HardNAT" => r = R
                               /\ w.natType = "HardNAT" => Other(r) = R
        /\ c.regular # w.regular /\ s.mode = 4 =>
              (c.regular => r = S) /\ (w.regular => Other(r) = S)
      BY <2>1, <2>3, RolesOfModes, Zenon
  <2> HIDE DEF r
  <2> QED BY <2>1, <2>2, <2>4, Zenon DEF s, c, w
<1> QED BY <1>1, NatInvariant, PTL

(* The receiver of any answered session still reads when the sender's first  *)
(* message can arrive, in every mode and with every delay of the tables.     *)
THEOREM WindowsAlwaysMeet == Spec => []WindowsMeet
<1>1. WindowsMeet
  <2> SUFFICES ASSUME NEW v \in Visitors, NEW from \in {"client", "visitor"},
                      NEW to \in {"client", "visitor"},
                      Response(session[v], from).role = S, Response(session[v], to).role = R
               PROVE  1000 + Response(session[v], from).delay
                         < Response(session[v], to).readTimeoutMs
      BY DEF WindowsMeet
  <2> DEFINE s == session[v]
             delay == SendDelayMs(s.mode, s.index)
             time == timeoutMs(s.mode, s.index)
  <2>1. delay \in Nat BY DEF SendDelayMs
  <2>2. time \in {delay + 5000, delay + 35000} BY <2>1 DEF timeoutMs
  <2>3. /\ Response(s, from).delay = delay
        /\ Response(s, to).readTimeoutMs = time - 0
      BY Zenon DEF Response, S, R
  <2> QED BY <2>1, <2>2, <2>3
<1> QED BY <1>1, PTL

(* Fruitless attempts go through all behaviours that started equal before    *)
(* recommand tries one of them again, however many sessions share a record.  *)
THEOREM BehavioursRotate == Spec => []Rotates
<1>1. NatInv => Rotates
  <2> SUFFICES ASSUME NatInv, NEW o \in Objects,
                      \A i \in DOMAIN credited[o] : credited[o][i] = 0,
                      NEW i \in DOMAIN born[o], NEW j \in DOMAIN born[o], born[o][i] = born[o][j]
               PROVE  tried[o][i] - tried[o][j] <= 1
      BY Zenon DEF Rotates
  <2> QED BY Zenon DEF NatInv, RecordsInv, RecordInv, Rotating
<1> QED BY <1>1, NatInvariant, PTL

(* The scores of a record are its history: no charge and no credit is lost   *)
(* or counted twice while sessions, reports and cleaning interleave, and     *)
(* only the cap of 10 in reportSuccess can take points away.                 *)
THEOREM ScoresAreHistory == Spec => []ScoresHonest
<1>1. NatInv => ScoresHonest
    BY Zenon DEF NatInv, RecordsInv, RecordInv, Honest, ScoresHonest
<1> QED BY <1>1, NatInvariant, PTL
=============================================================================
