----------------------------- MODULE NatAnalysis -----------------------------
(***************************************************************************)
(* How frps decides how two peers punch a hole (pkg/nathole/classify.go and *)
(* analysis.go; indexes count from 1 here): the classification of a NAT from the addresses STUN        *)
(* servers saw, and the records that remember for a pair of NATs which      *)
(* behaviours worked.  A behaviour is known by its mode and index; of what  *)
(* the peers are told, the model keeps who sends first.                     *)
(***************************************************************************)
EXTENDS Integers, Sequences, FiniteSets

Address == [ip : Nat, port : Nat]

NatTypes == {"EasyNAT", "HardNAT"}
Behaviors == {"NoChange", "IPChanged", "PortChanged", "BothChanged"}
NatFeature == [natType : NatTypes, behavior : Behaviors, regular : BOOLEAN, public : BOOLEAN]

EnoughAddresses(addresses) == Len(addresses) > 1

ClassifyNATFeature(addresses, localIPs) ==
    LET at    == DOMAIN addresses
        ips   == {addresses[i].ip : i \in at}
        ports == {addresses[i].port : i \in at}
        behavior == CASE Cardinality(ips) > 1 /\ Cardinality(ports) > 1 -> "BothChanged"
                      [] Cardinality(ips) > 1   -> "IPChanged"
                      [] Cardinality(ports) > 1 -> "PortChanged"
                      [] OTHER                  -> "NoChange" IN
    [natType  |-> IF behavior = "NoChange" THEN "EasyNAT" ELSE "HardNAT",
     behavior |-> behavior,
     regular  |-> behavior = "PortChanged" /\ \A p, q \in ports : p - q <= 5,
     public   |-> ips \cap localIPs # {}]

-----------------------------------------------------------------------------
(* The tables of behaviours, as the role of the first peer of each pair.    *)

S == "sender"
R == "receiver"
Other(role) == IF role = S THEN R ELSE S

getBehaviorByMode(mode) ==
    CASE mode = 1 -> <<S, S, S, S, S, S>>
      [] mode = 2 -> <<S, S, S>>
      [] mode = 3 -> <<S, S, S, R, R, R>>
      [] mode = 4 -> <<S, S, S>>
      [] OTHER    -> <<S, R, S, R, S, R, S, S, R, R>>

\* How long the sender of a behaviour waits before it sends, in milliseconds.
SendDelayMs(mode, index) ==
    CASE mode = 0 /\ index \in {7, 9}  -> 5000
      [] mode = 0 /\ index \in {8, 10} -> 10000
      [] mode = 1 /\ index % 2 = 0     -> 2000
      [] mode \in {2, 4}               -> 3000
      [] OTHER                         -> 0

\* The receivers of these modes listen on 256 random ports.
ListenRandomPorts(mode) == mode \in {2, 4}

\* A behaviour starts with one score if the first peer sends and another if it receives.
getBehaviorScoresByMode2(mode, senderScore, receiverScore) ==
    [i \in DOMAIN getBehaviorByMode(mode) |->
        [mode |-> mode, index |-> i,
         score |-> IF getBehaviorByMode(mode)[i] = S THEN senderScore ELSE receiverScore]]

getBehaviorScoresByMode(mode, score) == getBehaviorScoresByMode2(mode, score, score)

\* Records without a case for two HardNATs.
newMakeHoleRecordsEasy(c, v) ==
    IF "EasyNAT" \in {c.natType, v.natType} THEN getBehaviorScoresByMode(0, 0) ELSE <<>>

\* ClassifyFeatureCount: how many of two peers have a HardNAT, and how many of those
\* one whose ports change regularly.
One(b) == IF b THEN 1 ELSE 0
hardCount(c, v) == One(c.natType = "HardNAT") + One(v.natType = "HardNAT")
portsChangedRegularCount(c, v) ==
    One(c.natType = "HardNAT" /\ c.regular) + One(v.natType = "HardNAT" /\ v.regular)

\* The records of a pair: the behaviours to try, most promising modes first.
newMakeHoleRecords(c, v) ==
    LET hard    == hardCount(c, v)
        regular == portsChangedRegularCount(c, v)
        mode0   == CASE c.public -> getBehaviorScoresByMode2(0, 0, 1)
                     [] ~c.public /\ v.public -> getBehaviorScoresByMode2(0, 1, 0)
                     [] OTHER -> getBehaviorScoresByMode(0, 0)
        m(mode) == getBehaviorScoresByMode(mode, 0) IN
    CASE hard = 0                 -> mode0
      [] hard = 1 /\ regular = 1  -> m(1) \o m(2) \o mode0
      [] hard = 1 /\ regular = 0  -> m(2) \o m(1) \o mode0
      [] hard = 2 /\ regular = 2  -> m(3) \o m(4)
      [] hard = 2 /\ regular = 1  -> m(4)
      [] OTHER -> getBehaviorScoresByMode(0, 1) \o getBehaviorScoresByMode(1, 1)
                     \o getBehaviorScoresByMode(3, 1)

\* The first of the best: what recommand picks, and charges one point for.
Best(scores) ==
    CHOOSE i \in DOMAIN scores :
        \A j \in DOMAIN scores :
            /\ scores[j].score <= scores[i].score
            /\ j < i => scores[j].score < scores[i].score

\* A recommendation that costs nothing.
recommandFree(scores) == scores

\* Without any behaviour, the first of mode 0 is recommended and nothing charged.
Recommended(scores) ==
    IF scores = <<>> THEN [mode |-> 0, index |-> 1] ELSE scores[Best(scores)]

recommand(scores) ==
    IF scores = <<>> THEN scores ELSE [scores EXCEPT ![Best(scores)].score = @ - 1]

Min2(a, b) == IF a <= b THEN a ELSE b

\* Credit for every behaviour of the mode.
reportSuccessMode(scores, mode, index) ==
    [i \in DOMAIN scores |->
        IF scores[i].mode = mode THEN [scores[i] EXCEPT !.score = Min2(@ + 2, 10)] ELSE scores[i]]

reportSuccess(scores, mode, index) ==
    [i \in DOMAIN scores |->
        IF scores[i].mode = mode /\ scores[i].index = index
          THEN [scores[i] EXCEPT !.score = Min2(@ + 2, 10)]
          ELSE scores[i]]

\* Roles that look at the wrong NAT in mode 2.
ClientRoleUnswapped(mode, index, c) ==
    LET first == getBehaviorByMode(mode)[index]
        swap  == \/ mode \in {1, 2} /\ c.natType = "EasyNAT"
                 \/ mode = 4 /\ ~c.regular IN
    IF swap THEN Other(first) ELSE first

\* The client's role when a behaviour is used; the visitor has the other one.
ClientRole(mode, index, c) ==
    LET first == getBehaviorByMode(mode)[index]
        swap  == \/ mode = 1 /\ c.natType = "EasyNAT"
                 \/ mode = 2 /\ c.natType = "HardNAT"
                 \/ mode = 4 /\ ~c.regular IN
    IF swap THEN Other(first) ELSE first

=============================================================================
