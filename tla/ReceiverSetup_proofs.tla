------------------------ MODULE ReceiverSetup_proofs ------------------------
(***************************************************************************)
(* Proofs about ReceiverSetup, for any parameters, and any number of       *)
(* configurations, refusals and restarts of the receiver.                  *)
(***************************************************************************)
EXTENDS ReceiverSetup, FiniteSetTheorems, SequenceTheorems, TLAPS

-----------------------------------------------------------------------------
(* Where the executor is.                                                  *)

NodePcs == {"load", "io", "usb", "rate", "sbas", "ppp", "model", "fix_mode",
            "dr_limit", "datum"}
FirmwarePcs == {"bbr", "poll_gnss", "gnss", "nmea", "product"}
SurveyPcs == {"survey_rate", "pause", "survey"}
TimePcs == {"time_rate", "time_rtcm"}
FixedPcs == {"fix", "fixed_rtcm"}
PollPcs == {"poll_svin", "poll_pvt"}

\* A component is being configured.
EarlyPcs == NodePcs \union FirmwarePcs \union SurveyPcs \union TimePcs \union FixedPcs
              \union PollPcs \union {"disable"}

Subscribing == {"pvt", "svin"}

Pcs == EarlyPcs \union Subscribing \union {"save", "inf", "unconfigured", "up", "hung"}

-----------------------------------------------------------------------------
(* The inductive invariant.                                                *)

Keeps == settings.tmode3 = "survey_in" /\ ~settings.reset
Resets == settings.tmode3 = "survey_in" /\ settings.reset

Products == [mode : Modes, gps : 0 .. configures, listens : SUBSET (1 .. configures)]

Receivers == [tmode : {"off", "surveying", "surveyed", "fixed"},
              rate : {"default", "user", "1Hz"},
              rtcm : BOOLEAN, pvt : BOOLEAN, svin : BOOLEAN, gnss : BOOLEAN]

Types ==
  /\ settings \in Settings
  /\ at \in Pcs
  /\ products \in Seq(Products)
  /\ part \in 0 .. Len(products)
  /\ gps \in 0 .. configures
  /\ stuck \subseteq 1 .. configures /\ streams \subseteq 1 .. configures
  /\ receiver \in Receivers
  /\ configures \in 0 .. MaxConfigures
  /\ failures \in 0 .. MaxFailures /\ restarts \in 0 .. MaxRestarts
  /\ restarted \in BOOLEAN /\ (restarted => restarts > 0)

\* Where in the configuration the executor can be, given the parameters.
PathInv ==
  /\ at \in EarlyPcs \union Subscribing \union {"save", "inf"} => part > 0 /\ gps > 0
  /\ at \in SurveyPcs => settings.tmode3 = "survey_in"
  /\ at \in TimePcs \union PollPcs => Keeps
  /\ at \in FixedPcs => settings.tmode3 = "fixed"
  /\ at = "disable" => settings.tmode3 = "disabled"
  /\ at \in {"save", "inf"} => part = Len(products)

\* What the parameters let a product and the receiver be.
ReachInv ==
  /\ settings.tmode3 = "disabled" =>
       /\ receiver.tmode = "off" /\ ~receiver.rtcm
       /\ \A i \in DOMAIN products : products[i].mode \in {"init", "disabled"}
  /\ settings.tmode3 = "fixed" =>
       /\ receiver.tmode \in {"off", "fixed"}
       /\ \A i \in DOMAIN products : products[i].mode \in {"init", "fixed"}
  /\ settings.tmode3 = "survey_in" =>
       /\ receiver.tmode \in {"off", "surveying", "surveyed"}
       /\ \A i \in DOMAIN products : products[i].mode # "fixed"

\* The Gps the products point to.
PointersInv ==
  /\ \E g \in 0 .. configures : \A i \in DOMAIN products : products[i].gps \in {0, g, gps}
  /\ at \notin Subscribing \union {"hung"} =>
       \E g \in 0 .. configures : \A i \in DOMAIN products : products[i].gps \in {0, g}
  /\ at \in Subscribing =>
       \E g \in 0 .. configures :
         \A i \in DOMAIN products : IF i < part THEN products[i].gps = gps
                                               ELSE products[i].gps \in {0, g}
  /\ at = "inf" \/ (at = "up" /\ gps \in streams) =>
       \A i \in DOMAIN products : products[i].gps = gps

\* Gps objects are new when they are made.
FreshInv ==
  /\ at \in EarlyPcs \union {"save"} =>
       /\ gps = configures
       /\ \A i \in DOMAIN products : products[i].gps # gps /\ gps \notin products[i].listens
  /\ \A i \in DOMAIN products : products[i].listens # {} => products[i].gps # 0
  /\ gps \in streams => at \in Subscribing \union {"inf", "up", "hung"}

\* A product still points to a Gps whose thread waits for itself: the
\* subscription that would take the last such pointer away hangs.
LeftWaiting == \E i \in DOMAIN products : products[i].gps \in stuck \ {gps}

\* Modes noted earlier need not agree: so it is, or a later component's cold
\* start may have ended the survey they were noted for.
Unsettled == LeftWaiting \/ (settings.extraSignals /\ Len(products) > 1)

\* The products that this configuration is done with.
Done ==
  IF at \in EarlyPcs
    THEN {i \in DOMAIN products : i < part \/ (i = part /\ at \in TimePcs)}
  ELSE IF at \in Subscribing \union {"save", "inf"} \/ (at = "up" /\ gps \in streams)
    THEN DOMAIN products
  ELSE {}

SurveyKnown == receiver.tmode \in {"surveying", "surveyed"}

Agrees(i) ==
  /\ settings.tmode3 = "disabled" => products[i].mode = "disabled"
  /\ settings.tmode3 = "fixed" =>
       products[i].mode = "fixed" /\ receiver.tmode = "fixed" /\ receiver.rtcm
  /\ Keeps => \/ products[i].mode = "survey_in" /\ SurveyKnown
              \/ products[i].mode = "time" /\ receiver.tmode = "surveyed"
  /\ Resets => \/ products[i].mode = "survey_in" /\ (at \in EarlyPcs \/ SurveyKnown)
               \/ products[i].mode = "time" /\ at \notin EarlyPcs /\ receiver.tmode = "surveyed"

DoneInv == ~restarted /\ ~Unsettled => \A i \in Done : Agrees(i)

\* What the receiver has where in the configuration.
ReceiverInv ==
  /\ at \in SurveyPcs \union {"poll_pvt"} /\ Keeps => receiver.tmode = "off"
  /\ at \in TimePcs /\ restarts = 0 => receiver.tmode = "surveyed"
  /\ at = "fixed_rtcm" /\ ~restarted => receiver.tmode = "fixed"
  /\ receiver.rtcm /\ ~settings.reset /\ restarts = 0 /\ ~settings.extraSignals =>
       receiver.tmode \in {"surveyed", "fixed"}

\* What a component's steps do behind its CFG-GNSS.
BehindGnss == {"nmea", "product", "disable"} \union SurveyPcs \union TimePcs \union FixedPcs
                \union PollPcs

Behind == at \in BehindGnss \/ (at \in EarlyPcs /\ part > 1)

\* Until the receiver restarts, it has the constellations of the parameters once
\* a component is past them, and has no survey, and no position, before.
GnssInv ==
  /\ restarts = 0 => receiver.gnss \/ (receiver.tmode = "off" /\ ~receiver.rtcm)
  /\ ~restarted /\ Behind => receiver.gnss

IInv ==
  /\ Types /\ PathInv /\ ReachInv /\ PointersInv /\ FreshInv
  /\ DoneInv /\ ReceiverInv

-----------------------------------------------------------------------------
(* The order of the steps, step by step.                                   *)

NodeSequence ==
  <<"load", "io", "usb", "rate", "sbas", "ppp", "model", "fix_mode", "dr_limit", "datum",
    "bbr", "poll_gnss", "gnss", "nmea", "product">>

Successor(step) ==
  CASE step = "load" -> "io"                [] step = "io" -> "usb"
    [] step = "usb" -> "rate"               [] step = "rate" -> "sbas"
    [] step = "sbas" -> "ppp"               [] step = "ppp" -> "model"
    [] step = "model" -> "fix_mode"         [] step = "fix_mode" -> "dr_limit"
    [] step = "dr_limit" -> "datum"         [] step = "datum" -> "bbr"
    [] step = "bbr" -> "poll_gnss"          [] step = "poll_gnss" -> "gnss"
    [] step = "gnss" -> "nmea"              [] step = "nmea" -> "product"
    [] step = "survey_rate" -> "pause"      [] step = "pause" -> "survey"
    [] step = "survey" -> "next"            [] step = "time_rate" -> "time_rtcm"
    [] step = "time_rtcm" -> "next"         [] step = "fix" -> "fixed_rtcm"
    [] step = "fixed_rtcm" -> "next"        [] step = "disable" -> "next"
    [] step = "pvt" -> "svin"               [] step = "svin" -> "next_subscriber"

LEMMA StepsJoined == NodeSteps \o FirmwareSteps = NodeSequence
<1> DEFINE S == NodePcs \union FirmwarePcs
           c == NodeSteps \o FirmwareSteps
<1>1. NodeSteps \in Seq(S) /\ FirmwareSteps \in Seq(S) /\ NodeSequence \in Seq(S)
  <2>1. NodeSteps \in Seq(S)
    BY DEF NodeSteps, NodePcs
  <2>2. FirmwareSteps \in Seq(S)
    BY DEF FirmwareSteps, FirmwarePcs
  <2>3. NodeSequence \in Seq(S)
    BY DEF NodeSequence, NodePcs, FirmwarePcs
  <2> QED BY <2>1, <2>2, <2>3
<1>2. Len(NodeSteps) = 10 /\ Len(FirmwareSteps) = 5 /\ Len(NodeSequence) = 15
  BY DEF NodeSteps, FirmwareSteps, NodeSequence
<1>3. \A i \in 1 .. 15 :
        NodeSequence[i] = IF i <= 10 THEN NodeSteps[i] ELSE FirmwareSteps[i - 10]
  BY DEF NodeSteps, FirmwareSteps, NodeSequence
<1> HIDE DEF S
<1>4. /\ c \in Seq(S) /\ Len(c) = Len(NodeSteps) + Len(FirmwareSteps)
      /\ \A i \in 1 .. Len(NodeSteps) + Len(FirmwareSteps) :
           c[i] = IF i <= Len(NodeSteps) THEN NodeSteps[i] ELSE FirmwareSteps[i - Len(NodeSteps)]
  BY ONLY <1>1, ConcatProperties, Zenon
<1> HIDE DEF c
<1>5. /\ c \in Seq(S) /\ Len(c) = 10 + 5
      /\ \A i \in 1 .. 10 + 5 : c[i] = IF i <= 10 THEN NodeSteps[i] ELSE FirmwareSteps[i - 10]
  BY ONLY <1>2, <1>4
<1>6. Len(c) = 15 /\ \A i \in 1 .. 15 : c[i] = NodeSequence[i]
  BY <1>3, <1>5
<1> QED BY <1>1, <1>2, <1>5, <1>6, SeqEqual DEF c

LEMMA EverySuccessor ==
  ASSUME NEW s \in Sequences, NEW i \in 1 .. Len(s) - 1
  PROVE  s[i + 1] = Successor(s[i])
<1>1. CASE s = NodeSequence
  <2>1. i \in 1 .. 14
    BY <1>1 DEF NodeSequence
  <2> QED BY <1>1, <2>1 DEF NodeSequence, Successor
<1>2. CASE s = SurveySteps
  BY <1>2 DEF SurveySteps, Successor
<1>3. CASE s = TimeSteps
  BY <1>3 DEF TimeSteps, Successor
<1>4. CASE s = FixedSteps
  BY <1>4 DEF FixedSteps, Successor
<1>5. CASE s = <<"disable", "next">>
  BY <1>5 DEF Successor
<1>6. CASE s = SubscribeSteps
  BY <1>6 DEF SubscribeSteps, Successor
<1> QED BY <1>1, <1>2, <1>3, <1>4, <1>5, <1>6, StepsJoined DEF Sequences

LEMMA FollowsSuccessor ==
  ASSUME NEW s \in Sequences, NEW i \in 1 .. Len(s) - 1, i + 1 \in DOMAIN s
  PROVE  Follows(s[i]) = Successor(s[i])
<1> DEFINE P(next) == \E t \in Sequences : \E j \in 1 .. Len(t) - 1 : t[j] = s[i] /\ t[j + 1] = next
<1>1. s[i + 1] \in UNION {Range(t) : t \in Sequences}
  BY DEF Range
<1>2. P(s[i + 1])
  OBVIOUS
<1>3. \A next : P(next) => next = Successor(s[i])
  BY EverySuccessor
<1> HIDE DEF P
<1>4. (CHOOSE next \in UNION {Range(t) : t \in Sequences} : P(next)) = Successor(s[i])
  BY <1>1, <1>2, <1>3
<1> QED BY <1>4 DEF Follows, P

LEMMA FollowsTable ==
  ASSUME NEW step \in Messages \ {"save", "inf"}
  PROVE  Follows(step) = Successor(step)
<1>1. CASE step \in {"load", "io", "usb", "rate", "sbas", "ppp", "model", "fix_mode", "dr_limit",
                    "datum", "bbr", "gnss", "nmea"}
  <2>1. NodeSequence \in Sequences
    BY StepsJoined DEF Sequences
  <2>2. PICK i \in 1 .. 14 : step = NodeSequence[i]
    <3> DEFINE N == NodeSequence
    <3>1. /\ N[1] = "load" /\ N[2] = "io" /\ N[3] = "usb" /\ N[4] = "rate" /\ N[5] = "sbas"
          /\ N[6] = "ppp" /\ N[7] = "model" /\ N[8] = "fix_mode" /\ N[9] = "dr_limit"
          /\ N[10] = "datum" /\ N[11] = "bbr" /\ N[13] = "gnss" /\ N[14] = "nmea"
      BY DEF NodeSequence
    <3> HIDE DEF N
    <3>2. \/ step = N[1] \/ step = N[2] \/ step = N[3] \/ step = N[4] \/ step = N[5]
          \/ step = N[6] \/ step = N[7] \/ step = N[8] \/ step = N[9] \/ step = N[10]
          \/ step = N[11] \/ step = N[13] \/ step = N[14]
      BY <1>1, <3>1, Zenon
    <3>3. \E i \in 1 .. 14 : step = N[i]
      BY <3>2
    <3> QED BY <3>3 DEF N
  <2>3. Len(NodeSequence) = 15 /\ i + 1 \in DOMAIN NodeSequence
    BY DEF NodeSequence
  <2>4. Follows(NodeSequence[i]) = Successor(NodeSequence[i])
    <3>1. PICK s : s = NodeSequence
      OBVIOUS
    <3>2. s \in Sequences /\ i + 1 \in DOMAIN s
      BY <2>1, <2>3, <3>1, Zenon
    <3>3. Len(s) = 15
      BY <2>3, <3>1, Zenon
    <3>4. i \in 1 .. Len(s) - 1
      BY <3>3
    <3>5. Follows(s[i]) = Successor(s[i])
      BY <3>2, <3>4, FollowsSuccessor
    <3> QED BY <3>1, <3>5, Zenon
  <2> QED BY <2>2, <2>4
<1>2. CASE step \in SurveyPcs
  <2>1. SurveySteps \in Sequences /\ Len(SurveySteps) = 4 /\ DOMAIN SurveySteps = 1 .. 4
    BY DEF Sequences, SurveySteps
  <2>2. PICK i \in 1 .. 3 : step = SurveySteps[i]
    BY <1>2 DEF SurveyPcs, SurveySteps
  <2> QED BY <2>1, <2>2, FollowsSuccessor
<1>3. CASE step \in TimePcs
  <2>1. TimeSteps \in Sequences /\ Len(TimeSteps) = 3 /\ DOMAIN TimeSteps = 1 .. 3
    BY DEF Sequences, TimeSteps
  <2>2. PICK i \in 1 .. 2 : step = TimeSteps[i]
    BY <1>3 DEF TimePcs, TimeSteps
  <2> QED BY <2>1, <2>2, FollowsSuccessor
<1>4. CASE step \in FixedPcs
  <2>1. FixedSteps \in Sequences /\ Len(FixedSteps) = 3 /\ DOMAIN FixedSteps = 1 .. 3
    BY DEF Sequences, FixedSteps
  <2>2. PICK i \in 1 .. 2 : step = FixedSteps[i]
    BY <1>4 DEF FixedPcs, FixedSteps
  <2> QED BY <2>1, <2>2, FollowsSuccessor
<1>5. CASE step = "disable"
  <2> DEFINE d == <<"disable", "next">>
  <2>1. d \in Sequences /\ Len(d) = 2 /\ DOMAIN d = 1 .. 2 /\ d[1] = "disable"
    BY DEF Sequences
  <2> HIDE DEF d
  <2>2. 1 \in 1 .. Len(d) - 1 /\ 1 + 1 \in DOMAIN d
    BY <2>1
  <2>3. Follows(d[1]) = Successor(d[1])
    BY <2>1, <2>2, FollowsSuccessor
  <2> QED BY <1>5, <2>1, <2>3
<1>6. CASE step \in Subscribing
  <2>1. SubscribeSteps \in Sequences /\ Len(SubscribeSteps) = 3 /\ DOMAIN SubscribeSteps = 1 .. 3
    BY DEF Sequences, SubscribeSteps
  <2>2. PICK i \in 1 .. 2 : step = SubscribeSteps[i]
    BY <1>6 DEF Subscribing, SubscribeSteps
  <2> QED BY <2>1, <2>2, FollowsSuccessor
<1> QED
  BY <1>1, <1>2, <1>3, <1>4, <1>5, <1>6
  DEF Messages, SurveyPcs, TimePcs, FixedPcs, Subscribing

\* Where the executor goes after a message, step by step.
Goes(step) ==
  CASE step \in {"survey", "time_rtcm", "fixed_rtcm", "disable"} ->
         IF part < Len(products) THEN at' = "bbr" /\ part' = part + 1
                                 ELSE at' = "save" /\ part' = part
    [] step = "svin" ->
         IF part < Len(products) THEN at' = "pvt" /\ part' = part + 1
                                 ELSE at' = "inf" /\ part' = part
    [] step = "save" -> at' = "pvt" /\ part' = 1
    [] step = "inf"  -> at' = "up" /\ part' = 0
    [] OTHER         -> at' = Successor(step) /\ part' = part

LEMMA AfterMessageGoes ==
  ASSUME Types, NEW step \in Messages, AfterMessage(step)
  PROVE  Goes(step)
<1>0. part \in Nat /\ Len(products) \in Nat /\ part <= Len(products)
  BY DEF Types
<1>1. CASE step \in {"save", "inf"}
  BY <1>1 DEF AfterMessage, Goes
<1>2. CASE step \notin {"save", "inf"}
  <2>1. GoTo(Successor(step))
    BY <1>2, FollowsTable DEF AfterMessage
  <2>2. CASE step \in {"survey", "time_rtcm", "fixed_rtcm", "disable"}
    <3>1. Successor(step) = "next"
      BY <2>2 DEF Successor
    <3> QED BY <1>0, <2>1, <2>2, <3>1 DEF GoTo, Goes
  <2>3. CASE step = "svin"
    <3>1. Successor(step) = "next_subscriber"
      BY <2>3 DEF Successor
    <3> QED BY <1>0, <2>1, <2>3, <3>1 DEF GoTo, Goes
  <2>4. CASE step \notin {"survey", "time_rtcm", "fixed_rtcm", "disable", "svin"}
    <3>1. Successor(step) \notin {"next", "next_subscriber"}
      BY <1>2, <2>4 DEF Successor, Messages
    <3> QED BY <1>2, <2>1, <2>4, <3>1 DEF GoTo, Goes
  <2> QED BY <2>2, <2>3, <2>4
<1> QED BY <1>1, <1>2

-----------------------------------------------------------------------------
(* What the products are replaced by.                                      *)

WithMode(m) == [products EXCEPT ![part].mode = m]

LEMMA WithModeShape ==
  ASSUME Types, part > 0, NEW m \in Modes
  PROVE  /\ WithMode(m) \in Seq(Products)
         /\ Len(WithMode(m)) = Len(products)
         /\ DOMAIN WithMode(m) = DOMAIN products
         /\ \A i \in DOMAIN products :
              /\ WithMode(m)[i].gps = products[i].gps
              /\ WithMode(m)[i].listens = products[i].listens
              /\ WithMode(m)[i].mode = IF i = part THEN m ELSE products[i].mode
<1>1. part \in DOMAIN products
  BY DEF Types
<1>2. products[part] \in Products
  BY <1>1 DEF Types
<1>3. [products[part] EXCEPT !.mode = m] \in Products
  BY <1>2 DEF Products
<1>4. WithMode(m) = [products EXCEPT ![part] = [products[part] EXCEPT !.mode = m]]
  BY DEF WithMode
<1>5. \A i \in DOMAIN products : products[i] \in Products
  BY DEF Types
<1>6. WithMode(m) \in Seq(Products) /\ Len(WithMode(m)) = Len(products)
        /\ DOMAIN WithMode(m) = DOMAIN products
  BY <1>1, <1>3, <1>4 DEF Types
<1>7. ASSUME NEW i \in DOMAIN products
      PROVE  /\ WithMode(m)[i].gps = products[i].gps
             /\ WithMode(m)[i].listens = products[i].listens
             /\ WithMode(m)[i].mode = IF i = part THEN m ELSE products[i].mode
  <2>1. CASE i = part
    BY <1>1, <1>2, <1>4, <2>1 DEF Products
  <2>2. CASE i # part
    BY <1>4, <2>2
  <2> QED BY <2>1, <2>2
<1> QED BY <1>6, <1>7

LEMMA PointedAtShape ==
  ASSUME Types, part > 0, NEW g \in 0 .. configures
  PROVE  /\ PointedAt(g) \in Seq(Products)
         /\ Len(PointedAt(g)) = Len(products)
         /\ DOMAIN PointedAt(g) = DOMAIN products
         /\ \A i \in DOMAIN products :
              /\ PointedAt(g)[i].gps = IF i = part THEN g ELSE products[i].gps
              /\ PointedAt(g)[i].listens = products[i].listens
              /\ PointedAt(g)[i].mode = products[i].mode
<1>1. part \in DOMAIN products
  BY DEF Types
<1>2. products[part] \in Products
  BY <1>1 DEF Types
<1>3. [products[part] EXCEPT !.gps = g] \in Products
  BY <1>2 DEF Products
<1>4. PointedAt(g) = [products EXCEPT ![part] = [products[part] EXCEPT !.gps = g]]
  BY DEF PointedAt
<1>6. PointedAt(g) \in Seq(Products) /\ Len(PointedAt(g)) = Len(products)
        /\ DOMAIN PointedAt(g) = DOMAIN products
  BY <1>1, <1>3, <1>4 DEF Types
<1>7. ASSUME NEW i \in DOMAIN products
      PROVE  /\ PointedAt(g)[i].gps = IF i = part THEN g ELSE products[i].gps
             /\ PointedAt(g)[i].listens = products[i].listens
             /\ PointedAt(g)[i].mode = products[i].mode
  <2>1. CASE i = part
    BY <1>1, <1>2, <1>4, <2>1 DEF Products
  <2>2. CASE i # part
    BY <1>4, <2>2
  <2> QED BY <2>1, <2>2
<1> QED BY <1>6, <1>7

Listening(g) == [PointedAt(g) EXCEPT ![part].listens = @ \union {g}]

LEMMA ListeningShape ==
  ASSUME Types, part > 0, NEW g \in 1 .. configures
  PROVE  /\ Listening(g) \in Seq(Products)
         /\ Len(Listening(g)) = Len(products)
         /\ DOMAIN Listening(g) = DOMAIN products
         /\ \A i \in DOMAIN products :
              /\ Listening(g)[i].gps = IF i = part THEN g ELSE products[i].gps
              /\ Listening(g)[i].listens =
                   IF i = part THEN products[i].listens \union {g} ELSE products[i].listens
              /\ Listening(g)[i].mode = products[i].mode
<1> DEFINE ps == PointedAt(g)
           new == [ps[part] EXCEPT !.listens = @ \union {g}]
<1>0. g \in 0 .. configures /\ part \in DOMAIN products
  BY DEF Types
<1>1. /\ ps \in Seq(Products) /\ Len(ps) = Len(products) /\ DOMAIN ps = DOMAIN products
      /\ \A i \in DOMAIN products :
           /\ ps[i].gps = IF i = part THEN g ELSE products[i].gps
           /\ ps[i].listens = products[i].listens
           /\ ps[i].mode = products[i].mode
  BY <1>0, PointedAtShape
<1>4. Listening(g) = [ps EXCEPT ![part] = new]
  BY DEF Listening
<1> HIDE DEF ps
<1>2. ps[part] \in Products
  BY <1>0, <1>1
<1>3. new \in Products /\ new.gps = ps[part].gps /\ new.mode = ps[part].mode
        /\ new.listens = ps[part].listens \union {g}
  BY <1>2 DEF Products
<1> HIDE DEF new
<1>6. Listening(g) \in Seq(Products) /\ Len(Listening(g)) = Len(products)
        /\ DOMAIN Listening(g) = DOMAIN products
  BY <1>0, <1>1, <1>3, <1>4
<1>7. Listening(g)[part] = new /\ \A i \in DOMAIN products : i # part => Listening(g)[i] = ps[i]
  BY <1>0, <1>1, <1>4
<1> QED BY <1>0, <1>1, <1>3, <1>6, <1>7

-----------------------------------------------------------------------------
(* What the steps have in common.                                          *)

LEMMA ConstantTypes == MaxConfigures \in Nat /\ MaxFailures \in Nat /\ MaxRestarts \in Nat
BY SetupAssumption

LEMMA SpendsType ==
  ASSUME Types, NEW ok \in BOOLEAN, Spends(ok)
  PROVE  failures' \in 0 .. MaxFailures
BY ConstantTypes DEF Types, Spends

LEMMA EffectFields ==
  ASSUME NEW r \in Receivers, NEW step
  PROVE  /\ Effect(step, r) \in Receivers
         /\ Effect(step, r).tmode = CASE step \in {"pause", "disable"} -> "off"
                                     [] step = "fix" -> "fixed"
                                     [] step = "survey" -> "surveying"
                                     [] OTHER -> r.tmode
         /\ Effect(step, r).rtcm = (r.rtcm \/ step \in {"time_rtcm", "fixed_rtcm"})
         /\ Effect(step, r).gnss = (r.gnss \/ step = "gnss")
<1>1. CASE step \in {"rate", "time_rate"}
  BY <1>1 DEF Effect, Receivers
<1>2. CASE step = "survey_rate"
  BY <1>2 DEF Effect, Receivers
<1>3. CASE step \in {"time_rtcm", "fixed_rtcm"}
  BY <1>3 DEF Effect, Receivers
<1>4. CASE step \in {"pause", "disable"}
  BY <1>4 DEF Effect, Receivers
<1>5. CASE step = "fix"
  BY <1>5 DEF Effect, Receivers
<1>6. CASE step = "survey"
  BY <1>6 DEF Effect, Receivers
<1>7. CASE step \in {"gnss", "pvt", "svin"}
  BY <1>7 DEF Effect, Receivers
<1>8. CASE step \notin {"rate", "time_rate", "survey_rate", "time_rtcm", "fixed_rtcm", "pause",
                       "disable", "fix", "survey", "gnss", "pvt", "svin"}
  BY <1>8 DEF Effect, Receivers
<1> QED BY <1>1, <1>2, <1>3, <1>4, <1>5, <1>6, <1>7, <1>8

\* More configurations leave the products what they were.
LEMMA ProductsGrow ==
  ASSUME Types, configures' \in Nat, configures <= configures'
  PROVE  products \in Seq(Products')
<1>1. 0 .. configures \subseteq 0 .. configures' /\ 1 .. configures \subseteq 1 .. configures'
  BY DEF Types
<1>2. Products \subseteq Products'
  BY <1>1 DEF Products
<1> QED BY <1>2 DEF Types

\* The executor waits for ever: on a thread it joins, or on its lock.
LEMMA HangKeeps ==
  ASSUME IInv, Hang, settings' = settings, receiver' = receiver, restarts' = restarts,
         configures' \in 0 .. MaxConfigures, configures <= configures',
         failures' \in 0 .. MaxFailures, restarted' = restarted \/ restarted' = FALSE
  PROVE  IInv'
<1> USE DEF IInv
<1>1. Types'
  <2>1. products \in Seq(Products')
    BY ConstantTypes, ProductsGrow
  <2>2. Receivers' = Receivers
    BY DEF Receivers
  <2>3. /\ at' \in Pcs /\ part' = part /\ gps' = gps /\ products' = products
        /\ stuck' = stuck /\ streams' = streams
    BY DEF Hang, Pcs
  <2>4. /\ gps \in 0 .. configures' /\ stuck \subseteq 1 .. configures'
        /\ streams \subseteq 1 .. configures'
    BY ConstantTypes DEF Types
  <2>5. restarted' \in BOOLEAN /\ (restarted' => restarts' > 0)
    <3>0. restarted \in BOOLEAN /\ (restarted => restarts > 0)
      BY DEF Types
    <3>1. CASE restarted' = restarted
      BY <3>0, <3>1
    <3>2. CASE restarted' = FALSE
      BY <3>2
    <3> QED BY <3>1, <3>2
  <2>6. settings' \in Settings /\ receiver' \in Receivers /\ restarts' \in 0 .. MaxRestarts
          /\ part \in 0 .. Len(products)
    BY DEF Types
  <2> QED BY <2>1, <2>2, <2>3, <2>4, <2>5, <2>6 DEF Types
<1>2. PathInv'
  BY DEF PathInv, Hang, EarlyPcs, NodePcs, FirmwarePcs, SurveyPcs, TimePcs, FixedPcs, PollPcs,
     Subscribing, Keeps
<1>3. ReachInv'
  BY DEF ReachInv, Hang
<1>4. PointersInv'
  <2>1. 0 .. configures \subseteq 0 .. configures'
    BY ConstantTypes DEF Types
  <2> QED BY <2>1 DEF PointersInv, Hang, Subscribing
<1>5. FreshInv'
  BY DEF FreshInv, Hang, EarlyPcs, NodePcs, FirmwarePcs, SurveyPcs, TimePcs, FixedPcs, PollPcs
<1>6. DoneInv'
  <2>1. Done' = {}
    BY DEF Done, Hang, EarlyPcs, NodePcs, FirmwarePcs, SurveyPcs, TimePcs, FixedPcs, PollPcs,
       Subscribing
  <2> QED BY <2>1 DEF DoneInv
<1>7. ReceiverInv'
  BY DEF ReceiverInv, Hang, SurveyPcs, TimePcs, Keeps
<1> QED BY <1>1, <1>2, <1>3, <1>4, <1>5, <1>6, <1>7

\* Corrections have a position: the last conjunct of ReceiverInv.
RtcmKnown == receiver.rtcm /\ ~settings.reset /\ restarts = 0 /\ ~settings.extraSignals =>
               receiver.tmode \in {"surveyed", "fixed"}

\* configureUblox() returns false: nothing is subscribed, and no product is
\* done with.
LEMMA RefuseKeeps ==
  ASSUME IInv, at \in EarlyPcs, Refused, receiver' \in Receivers,
         failures' \in 0 .. MaxFailures, ReachInv', RtcmKnown',
         UNCHANGED <<settings, gps, products, stuck, streams, configures, restarts, restarted>>
  PROVE  IInv'
<1> USE DEF IInv
<1>0. at' = "up" /\ part' = 0 /\ gps \notin streams
  BY DEF FreshInv, Refused, EarlyPcs, NodePcs, FirmwarePcs, SurveyPcs, TimePcs, FixedPcs, PollPcs,
     Subscribing
<1>1. Types'
  <2>1. Products' = Products
    BY DEF Products
  <2>2. Receivers' = Receivers
    BY DEF Receivers
  <2> QED BY <1>0, <2>1, <2>2 DEF Types, Pcs
<1>2. PathInv'
  BY <1>0 DEF PathInv, EarlyPcs, NodePcs, FirmwarePcs, SurveyPcs, TimePcs, FixedPcs, PollPcs,
     Subscribing, Keeps
<1>4. PointersInv'
  BY <1>0 DEF PointersInv, Subscribing, EarlyPcs, NodePcs, FirmwarePcs, SurveyPcs, TimePcs,
     FixedPcs, PollPcs
<1>5. FreshInv'
  BY <1>0 DEF FreshInv, EarlyPcs, NodePcs, FirmwarePcs, SurveyPcs, TimePcs, FixedPcs, PollPcs
<1>6. DoneInv'
  <2>1. Done' = {}
    BY <1>0 DEF Done, EarlyPcs, NodePcs, FirmwarePcs, SurveyPcs, TimePcs, FixedPcs, PollPcs,
       Subscribing
  <2> QED BY <2>1 DEF DoneInv
<1>7. ReceiverInv'
  BY <1>0 DEF ReceiverInv, SurveyPcs, TimePcs, Keeps, RtcmKnown
<1> QED BY <1>1, <1>2, <1>4, <1>5, <1>6, <1>7

\* The products after a step of the configuration: none is added, and none
\* gets another pointer.
SameReferences ==
  /\ products' \in Seq(Products) /\ Len(products') = Len(products)
  /\ DOMAIN products' = DOMAIN products
  /\ \A i \in DOMAIN products :
       products'[i].gps = products[i].gps /\ products'[i].listens = products[i].listens

\* A step from one component to another, or to the next step of this one.
LEMMA ConfiguringKeeps ==
  ASSUME IInv, at \in EarlyPcs, at' \in EarlyPcs \union {"save"}, SameReferences,
         UNCHANGED <<settings, gps, stuck, streams, configures, restarts, restarted>>,
         part' \in 1 .. Len(products), receiver' \in Receivers, failures' \in 0 .. MaxFailures
  PROVE  Types' /\ PointersInv' /\ FreshInv' /\ Unsettled' = Unsettled
<1> USE DEF IInv
<1>1. Types'
  <2>1. Products' = Products
    BY DEF Products
  <2>2. Receivers' = Receivers
    BY DEF Receivers
  <2>3. at' \in Pcs
    BY DEF Pcs
  <2> QED BY <2>1, <2>2, <2>3 DEF Types, SameReferences
<1>2. at \notin Subscribing \union {"hung", "inf", "up"}
  BY DEF Subscribing, EarlyPcs, NodePcs, FirmwarePcs, SurveyPcs, TimePcs, FixedPcs, PollPcs
<1>3. at' \notin Subscribing \union {"hung", "inf", "up"}
  BY DEF Subscribing, EarlyPcs, NodePcs, FirmwarePcs, SurveyPcs, TimePcs, FixedPcs, PollPcs
<1>4. PointersInv'
  BY <1>2, <1>3 DEF PointersInv, SameReferences
<1>5. FreshInv'
  BY <1>2 DEF FreshInv, SameReferences
<1>6. Unsettled' = Unsettled
  BY DEF Unsettled, LeftWaiting, SameReferences
<1> QED BY <1>1, <1>4, <1>5, <1>6

SameProducts ==
  SameReferences /\ \A i \in DOMAIN products : products'[i].mode = products[i].mode

\* A step that leaves the products and the receiver's mode alone.
LEMMA QuietKeeps ==
  ASSUME IInv, at \in EarlyPcs \ TimePcs, at' \in EarlyPcs \ (TimePcs \union {"fixed_rtcm"}),
         SameProducts, receiver' \in Receivers, failures' \in 0 .. MaxFailures,
         receiver'.tmode = receiver.tmode, receiver'.rtcm = receiver.rtcm,
         UNCHANGED <<settings, part, gps, stuck, streams, configures, restarts, restarted>>,
         PathInv',
         at' \in SurveyPcs \union {"poll_pvt"} /\ Keeps => receiver.tmode = "off"
  PROVE  IInv'
<1> USE DEF IInv
<1>1. part \in 1 .. Len(products)
  BY DEF Types, PathInv
<1>2. Types' /\ PointersInv' /\ FreshInv' /\ Unsettled' = Unsettled
  BY <1>1, ConfiguringKeeps DEF SameProducts
<1>3. ReachInv'
  BY DEF ReachInv, SameProducts, SameReferences
<1>4. DoneInv'
  <2>1. Done' = Done
    BY DEF Done, SameProducts, SameReferences
  <2>2. Done \subseteq DOMAIN products
    BY DEF Done
  <2>3. ASSUME NEW i \in Done, Agrees(i) PROVE Agrees(i)'
    BY <2>2, <2>3 DEF Agrees, SameProducts, Keeps, Resets, SurveyKnown
  <2> QED BY <1>2, <2>1, <2>3 DEF DoneInv
<1>5. ReceiverInv'
  BY DEF ReceiverInv, Keeps
<1> QED BY <1>2, <1>3, <1>4, <1>5

\* A step that only moves on.
LEMMA MoveKeeps ==
  ASSUME IInv, at \in EarlyPcs \ TimePcs, at' \in EarlyPcs \ (TimePcs \union {"fixed_rtcm"}),
         failures' \in 0 .. MaxFailures,
         UNCHANGED <<settings, part, gps, products, stuck, streams, receiver, configures, restarts,
                     restarted>>,
         PathInv',
         at' \in SurveyPcs \union {"poll_pvt"} /\ Keeps => receiver.tmode = "off"
  PROVE  IInv'
<1>1. receiver \in Receivers /\ products \in Seq(Products)
  BY DEF IInv, Types
<1>2. SameProducts
  BY <1>1 DEF SameProducts, SameReferences
<1> QED BY <1>1, <1>2, QuietKeeps

PlainPcs == NodePcs \union {"bbr", "gnss", "nmea"}

\* From the steps that concern neither the survey nor the fixed position.
LEMMA PlainGoes ==
  ASSUME IInv, at \in PlainPcs, Goes(at), UNCHANGED <<settings, gps>>
  PROVE  /\ at \in EarlyPcs \ TimePcs
         /\ at' \in (NodePcs \union FirmwarePcs) \ (TimePcs \union {"fixed_rtcm"}) /\ at' \in EarlyPcs
         /\ part' = part
         /\ PathInv'
<1>1. at \in EarlyPcs \ TimePcs
  BY DEF PlainPcs, EarlyPcs, NodePcs, FirmwarePcs, TimePcs
<1>2. part' = part /\ at' \in NodePcs \union FirmwarePcs
  BY DEF Goes, Successor, PlainPcs, NodePcs, FirmwarePcs
<1>3. at' \notin SurveyPcs \union TimePcs \union FixedPcs \union PollPcs \union {"disable", "save", "inf"}
  BY <1>2 DEF NodePcs, FirmwarePcs, SurveyPcs, TimePcs, FixedPcs, PollPcs
<1>4. at' \in EarlyPcs
  BY <1>2 DEF EarlyPcs
<1>5. part > 0 /\ gps > 0
  BY <1>1 DEF IInv, PathInv
<1>6. PathInv'
  BY <1>2, <1>3, <1>5 DEF PathInv
<1> QED BY <1>1, <1>2, <1>3, <1>4, <1>6 DEF FixedPcs

LEMMA SkipKeeps ==
  ASSUME IInv, Skip
  PROVE  IInv'
<1> USE DEF IInv
<1>1. settings \in Settings /\ settings.skips \subseteq {"load", "io", "usb", "sbas", "datum", "bbr", "nmea"}
  BY SetupAssumption DEF Types
<1>2. at \in PlainPcs
  BY <1>1 DEF Skip, Skips, PlainPcs, NodePcs
<1>3. Goes(at)
  BY AfterMessageGoes DEF Skip
<1>4. UNCHANGED <<settings, gps, products, stuck, streams, receiver, configures, failures,
                  restarts, restarted>>
  BY DEF Skip, Bounds
<1>5. /\ at \in EarlyPcs \ TimePcs /\ part' = part /\ PathInv'
      /\ at' \in (NodePcs \union FirmwarePcs) \ (TimePcs \union {"fixed_rtcm"}) /\ at' \in EarlyPcs
  BY <1>2, <1>3, <1>4, PlainGoes
<1>6. at' \notin SurveyPcs \union {"poll_pvt"}
  BY <1>5 DEF NodePcs, FirmwarePcs, SurveyPcs
<1>7. failures' \in 0 .. MaxFailures
  BY <1>4 DEF Types
<1> QED BY <1>4, <1>5, <1>6, <1>7, MoveKeeps

LEMMA PollGnssKeeps ==
  ASSUME IInv, PollGnss
  PROVE  IInv'
<1> USE DEF IInv
<1>1. PICK ok \in BOOLEAN : Spends(ok) /\ IF ok THEN GoTo("gnss") ELSE Refused
  BY DEF PollGnss
<1>2. failures' \in 0 .. MaxFailures
  BY <1>1, SpendsType
<1>3. at = "poll_gnss" /\ at \in EarlyPcs \ TimePcs
  BY DEF PollGnss, EarlyPcs, FirmwarePcs, TimePcs
<1>4. UNCHANGED <<settings, gps, products, stuck, streams, receiver, configures, restarts, restarted>>
  BY DEF PollGnss
<1>5. CASE ok
  <2>1. at' = "gnss" /\ part' = part
    BY <1>1, <1>5 DEF GoTo
  <2>2. at' \in EarlyPcs \ (TimePcs \union {"fixed_rtcm"}) /\ at' \notin SurveyPcs \union {"poll_pvt"}
          /\ at' \notin TimePcs \union PollPcs \union FixedPcs \union {"disable", "save", "inf"}
    BY <2>1 DEF EarlyPcs, FirmwarePcs, TimePcs, SurveyPcs, PollPcs, FixedPcs
  <2>3. PathInv'
    BY <1>3, <1>4, <2>1, <2>2 DEF PathInv
  <2> QED BY <1>2, <1>3, <1>4, <2>1, <2>2, <2>3, MoveKeeps
<1>6. CASE ~ok
  <2>1. ReachInv' /\ RtcmKnown' /\ receiver' \in Receivers
    BY <1>4 DEF ReachInv, ReceiverInv, RtcmKnown, Types
  <2> QED BY <1>1, <1>2, <1>3, <1>4, <1>6, <2>1, RefuseKeeps
<1> QED BY <1>5, <1>6

LEMMA BeginProductKeeps ==
  ASSUME IInv, BeginProduct
  PROVE  IInv'
<1> USE DEF IInv
<1>1. at = "product" /\ at \in EarlyPcs \ TimePcs
  BY DEF BeginProduct, EarlyPcs, FirmwarePcs, TimePcs
<1>2. UNCHANGED <<settings, part, gps, products, stuck, streams, receiver, configures, failures,
                  restarts, restarted>>
  BY DEF BeginProduct, Bounds
<1>3. \/ at' = "disable" /\ settings.tmode3 = "disabled"
      \/ at' = "fix" /\ settings.tmode3 = "fixed"
      \/ at' = "survey_rate" /\ Resets
      \/ at' = "poll_svin" /\ Keeps
  <2>1. settings.tmode3 \in {"disabled", "fixed", "survey_in"}
    BY SetupAssumption DEF Types
  <2> QED BY <2>1 DEF BeginProduct, Resets, Keeps
<1>4. at' \in EarlyPcs \ (TimePcs \union {"fixed_rtcm"})
  BY <1>3 DEF EarlyPcs, TimePcs, SurveyPcs, FixedPcs, PollPcs
<1>5. at' \in SurveyPcs \union {"poll_pvt"} => ~Keeps
  BY <1>3 DEF SurveyPcs, Keeps, Resets
<1>6. PathInv'
  BY <1>1, <1>2, <1>3 DEF PathInv, SurveyPcs, TimePcs, PollPcs, FixedPcs, Keeps, Resets
<1>7. failures' \in 0 .. MaxFailures
  BY <1>2 DEF Types
<1> QED BY <1>1, <1>2, <1>4, <1>5, <1>6, <1>7, MoveKeeps

\* The product notes its mode.
LEMMA SetModeReferences ==
  ASSUME Types, part > 0, NEW m \in Modes, products' = WithMode(m)
  PROVE  /\ SameReferences
         /\ \A i \in DOMAIN products : products'[i].mode = IF i = part THEN m ELSE products[i].mode
BY WithModeShape DEF SameReferences

\* Where the executor is once a component is configured.
NextComponent ==
  \/ part < Len(products) /\ at' = "bbr" /\ part' = part + 1
  \/ part = Len(products) /\ at' = "save" /\ part' = part

\* The component at hand joins those that are done with.
LEMMA NextComponentKeeps ==
  ASSUME IInv, at \in EarlyPcs, NextComponent, SameReferences,
         receiver' \in Receivers, failures' \in 0 .. MaxFailures,
         UNCHANGED <<settings, gps, stuck, streams, configures, restarts, restarted>>
  PROVE  /\ Types' /\ PathInv' /\ PointersInv' /\ FreshInv' /\ Unsettled' = Unsettled
         /\ (RtcmKnown' => ReceiverInv')
         /\ Done' \subseteq {i \in DOMAIN products : i <= part}
         /\ at' \in {"bbr", "save"} /\ (at' = "bbr" => at' \in EarlyPcs)
<1> USE DEF IInv
<1>0. part \in 1 .. Len(products) /\ gps > 0
  BY DEF Types, PathInv
<1>1. at' \in {"bbr", "save"} /\ part' \in 1 .. Len(products) /\ at' \in EarlyPcs \union {"save"}
  BY <1>0 DEF NextComponent, EarlyPcs, FirmwarePcs
<1>2. Types' /\ PointersInv' /\ FreshInv' /\ Unsettled' = Unsettled
  BY <1>1, ConfiguringKeeps
<1>3. at' \notin SurveyPcs \union TimePcs \union PollPcs \union FixedPcs \union {"disable", "inf"}
  BY <1>1 DEF SurveyPcs, TimePcs, PollPcs, FixedPcs
<1>4. Len(products') = Len(products) /\ DOMAIN products' = DOMAIN products
  BY DEF SameReferences
<1>5. PathInv'
  <2>1. part' > 0 /\ gps' > 0
    BY <1>0, <1>1
  <2>2. at' = "save" => part' = Len(products')
    BY <1>4 DEF NextComponent
  <2> QED BY <1>3, <2>1, <2>2 DEF PathInv
<1>6. RtcmKnown' => ReceiverInv'
  BY <1>3 DEF ReceiverInv, RtcmKnown, PollPcs, FixedPcs
<1>7. Done' \subseteq {i \in DOMAIN products : i <= part}
  <2>1. CASE at' = "bbr"
    <3>1. part' = part + 1 /\ at' \in EarlyPcs /\ at' \notin TimePcs
      BY <1>1, <1>3, <2>1 DEF NextComponent, EarlyPcs, FirmwarePcs
    <3>2. Done' = {i \in DOMAIN products : i < part + 1}
      BY <1>4, <3>1 DEF Done
    <3> QED BY <1>0, <3>2
  <2>2. CASE at' = "save"
    <3>1. part = Len(products)
      BY <2>2 DEF NextComponent
    <3>2. Done' \subseteq DOMAIN products
      BY <1>4 DEF Done
    <3> QED BY <1>0, <3>1, <3>2
  <2> QED BY <1>1, <2>1, <2>2
<1> QED BY <1>1, <1>2, <1>5, <1>6, <1>7 DEF EarlyPcs, FirmwarePcs

LEMMA GoToNext ==
  ASSUME Types, GoTo("next")
  PROVE  NextComponent
BY DEF Types, GoTo, NextComponent

LEMMA PollSvinKeeps ==
  ASSUME IInv, PollSvin
  PROVE  IInv'
<1> USE DEF IInv
<1>1. PICK ok \in BOOLEAN :
        Spends(ok) /\ IF ok THEN AfterSvin(receiver.tmode) ELSE Refused /\ UNCHANGED products
  BY DEF PollSvin
<1>2. failures' \in 0 .. MaxFailures
  BY <1>1, SpendsType
<1>3. at = "poll_svin" /\ at \in EarlyPcs \ TimePcs /\ at \in PollPcs
  BY DEF PollSvin, EarlyPcs, PollPcs, TimePcs
<1>4. UNCHANGED <<settings, gps, stuck, streams, receiver, configures, restarts, restarted>>
  BY DEF PollSvin
<1>5. part \in 1 .. Len(products) /\ gps > 0 /\ Keeps /\ receiver \in Receivers
  BY <1>3 DEF Types, PathInv
<1>6. receiver.tmode \in {"off", "surveying", "surveyed"}
        /\ \A i \in DOMAIN products : products[i].mode # "fixed"
  BY <1>5 DEF ReachInv, Keeps
<1>7. CASE ~ok
  <2>1. products' = products /\ Refused
    BY <1>1, <1>7
  <2>2. ReachInv' /\ RtcmKnown' /\ receiver' \in Receivers
    BY <1>4, <2>1 DEF ReachInv, ReceiverInv, RtcmKnown, Types
  <2> QED BY <1>2, <1>3, <1>4, <2>1, <2>2, RefuseKeeps
<1>8. CASE ok /\ receiver.tmode = "surveying"
  <2>1. products' = WithMode("survey_in") /\ NextComponent
    BY <1>1, <1>8, GoToNext DEF AfterSvin, SetMode, WithMode
  <2>2. SameReferences /\ \A i \in DOMAIN products :
          products'[i].mode = IF i = part THEN "survey_in" ELSE products[i].mode
    BY <1>5, <2>1, SetModeReferences DEF Modes
  <2>3. RtcmKnown'
    BY <1>4 DEF ReceiverInv, RtcmKnown
  <2>4. /\ Types' /\ PathInv' /\ PointersInv' /\ FreshInv' /\ Unsettled' = Unsettled /\ ReceiverInv'
        /\ Done' \subseteq {i \in DOMAIN products : i <= part}
    BY <1>2, <1>3, <1>4, <1>5, <2>1, <2>2, <2>3, NextComponentKeeps
  <2>5. ReachInv'
    BY <1>4, <1>5, <1>6, <2>2 DEF ReachInv, SameReferences, Keeps
  <2>6. DoneInv'
    <3>1. SUFFICES ASSUME ~restarted, ~Unsettled, NEW i \in DOMAIN products, i <= part
                   PROVE  Agrees(i)'
      BY <1>4, <2>4 DEF DoneInv
    <3>2. CASE i = part
      BY <1>4, <1>5, <1>8, <2>2, <3>2 DEF Agrees, Keeps, Resets, SurveyKnown
    <3>3. CASE i < part
      <4>1. Agrees(i)
        BY <1>3, <3>1, <3>3 DEF DoneInv, Done
      <4> QED BY <1>4, <1>5, <2>2, <3>3, <4>1 DEF Agrees, Keeps, Resets, SurveyKnown
    <3> QED BY <1>5, <3>1, <3>2, <3>3
  <2> QED BY <2>4, <2>5, <2>6
<1>9. CASE ok /\ receiver.tmode = "surveyed"
  <2>1. products' = WithMode("time") /\ GoTo("time_rate")
    BY <1>1, <1>9 DEF AfterSvin, SetMode, WithMode
  <2>2. SameReferences /\ \A i \in DOMAIN products :
          products'[i].mode = IF i = part THEN "time" ELSE products[i].mode
    BY <1>5, <2>1, SetModeReferences DEF Modes
  <2>3. at' = "time_rate" /\ part' = part
    BY <2>1 DEF GoTo
  <2>4. /\ at' \in TimePcs /\ at' \in EarlyPcs
        /\ at' \notin SurveyPcs \union FixedPcs \union PollPcs \union {"disable", "save", "inf"}
    BY <2>3 DEF TimePcs, EarlyPcs, SurveyPcs, FixedPcs, PollPcs
  <2>5. Types' /\ PointersInv' /\ FreshInv' /\ Unsettled' = Unsettled
    BY <1>2, <1>3, <1>4, <1>5, <2>2, <2>3, <2>4, ConfiguringKeeps
  <2>6. PathInv'
    BY <1>4, <1>5, <2>3, <2>4 DEF PathInv, Keeps
  <2>7. ReachInv'
    BY <1>4, <1>5, <1>6, <2>2 DEF ReachInv, SameReferences, Keeps
  <2>8. ReceiverInv'
    BY <1>4, <1>9, <2>4 DEF ReceiverInv, PollPcs, FixedPcs
  <2>9. DoneInv'
    <3>1. Done' \subseteq {i \in DOMAIN products : i <= part}
      BY <1>5, <2>2, <2>3, <2>4 DEF Done, SameReferences
    <3>2. SUFFICES ASSUME ~restarted, ~Unsettled, NEW i \in DOMAIN products, i <= part
                   PROVE  Agrees(i)'
      BY <1>4, <2>5, <3>1 DEF DoneInv
    <3>3. CASE i = part
      BY <1>4, <1>5, <1>9, <2>2, <3>3 DEF Agrees, Keeps, Resets, SurveyKnown
    <3>4. CASE i < part
      <4>1. Agrees(i)
        BY <1>3, <3>2, <3>4 DEF DoneInv, Done
      <4> QED BY <1>4, <1>5, <2>2, <3>4, <4>1 DEF Agrees, Keeps, Resets, SurveyKnown
    <3> QED BY <1>5, <3>2, <3>3, <3>4
  <2> QED BY <2>5, <2>6, <2>7, <2>8, <2>9
<1>10. CASE ok /\ receiver.tmode = "off"
  <2>1. GoTo("poll_pvt") /\ products' = products
    BY <1>1, <1>10 DEF AfterSvin
  <2>2. at' = "poll_pvt" /\ part' = part
    BY <2>1 DEF GoTo
  <2>3. /\ at' \in EarlyPcs \ (TimePcs \union {"fixed_rtcm"})
        /\ at' \notin SurveyPcs \union FixedPcs \union {"disable", "save", "inf"}
    BY <2>2 DEF TimePcs, EarlyPcs, SurveyPcs, FixedPcs, PollPcs
  <2>4. PathInv'
    BY <1>4, <1>5, <2>1, <2>2, <2>3 DEF PathInv, Keeps
  <2> QED BY <1>2, <1>3, <1>4, <1>10, <2>1, <2>2, <2>3, <2>4, MoveKeeps
<1> QED BY <1>6, <1>7, <1>8, <1>9, <1>10

LEMMA PollPvtKeeps ==
  ASSUME IInv, PollPvt
  PROVE  IInv'
<1> USE DEF IInv
<1>1. PICK ok \in BOOLEAN, timeFix \in BOOLEAN :
        /\ Spends(ok)
        /\ timeFix => receiver.tmode = "fixed"
        /\ CASE ok /\ timeFix  -> SetMode("time") /\ GoTo("time_rate")
             [] ok /\ ~timeFix -> GoTo("survey_rate") /\ UNCHANGED products
             [] ~ok            -> Refused /\ UNCHANGED products
  BY DEF PollPvt
<1>2. failures' \in 0 .. MaxFailures
  BY <1>1, SpendsType
<1>3. at = "poll_pvt" /\ at \in EarlyPcs \ TimePcs /\ at \in PollPcs
  BY DEF PollPvt, EarlyPcs, PollPcs, TimePcs
<1>4. UNCHANGED <<settings, gps, stuck, streams, receiver, configures, restarts, restarted>>
  BY DEF PollPvt
<1>5. part \in 1 .. Len(products) /\ gps > 0 /\ Keeps /\ receiver \in Receivers
  BY <1>3 DEF Types, PathInv
<1>6. receiver.tmode = "off" /\ ~timeFix
  BY <1>1, <1>3, <1>5 DEF ReceiverInv
<1>7. CASE ok
  <2>1. GoTo("survey_rate") /\ products' = products
    BY <1>1, <1>6, <1>7
  <2>2. at' = "survey_rate" /\ part' = part
    BY <2>1 DEF GoTo
  <2>3. /\ at' \in EarlyPcs \ (TimePcs \union {"fixed_rtcm"})
        /\ at' \notin PollPcs \union FixedPcs \union {"disable", "save", "inf"}
    BY <2>2 DEF TimePcs, EarlyPcs, SurveyPcs, FixedPcs, PollPcs
  <2>4. PathInv'
    BY <1>4, <1>5, <2>1, <2>2, <2>3 DEF PathInv, Keeps
  <2> QED BY <1>2, <1>3, <1>4, <1>6, <2>1, <2>2, <2>3, <2>4, MoveKeeps
<1>8. CASE ~ok
  <2>1. products' = products /\ Refused
    BY <1>1, <1>8
  <2>2. ReachInv' /\ RtcmKnown' /\ receiver' \in Receivers
    BY <1>4, <2>1 DEF ReachInv, ReceiverInv, RtcmKnown, Types
  <2> QED BY <1>2, <1>3, <1>4, <2>1, <2>2, RefuseKeeps
<1> QED BY <1>7, <1>8

-----------------------------------------------------------------------------
(* The receiver by itself, the watchdog and the I/O threads.               *)

LEMMA FinishSurveyKeeps ==
  ASSUME IInv, FinishSurvey
  PROVE  IInv'
<1> USE DEF IInv
<1>1. UNCHANGED <<settings, at, part, gps, products, stuck, streams, configures, failures, restarts,
                  restarted>>
  BY DEF FinishSurvey, Bounds
<1>2. /\ receiver' \in Receivers /\ receiver'.tmode = "surveyed" /\ receiver.tmode = "surveying"
      /\ receiver'.rtcm = receiver.rtcm
  BY DEF FinishSurvey, Types, Receivers
<1>3. settings.tmode3 = "survey_in"
  <2>1. settings.tmode3 \in {"disabled", "fixed", "survey_in"}
    BY SetupAssumption DEF Types
  <2> QED BY <1>2, <2>1 DEF ReachInv
<1>4. Types'
  <2>1. Products' = Products /\ Receivers' = Receivers
    BY <1>1 DEF Products, Receivers
  <2> QED BY <1>1, <1>2, <2>1 DEF Types
<1>5. PathInv' /\ PointersInv' /\ FreshInv'
  BY <1>1 DEF PathInv, PointersInv, FreshInv, Keeps
<1>6. ReachInv'
  BY <1>1, <1>2, <1>3 DEF ReachInv
<1>7. DoneInv'
  <2>1. Done' = Done /\ Unsettled' = Unsettled
    BY <1>1 DEF Done, Unsettled, LeftWaiting
  <2>2. ASSUME NEW i \in Done, Agrees(i) PROVE Agrees(i)'
    BY <1>1, <1>2, <1>3, <2>2 DEF Agrees, Keeps, Resets, SurveyKnown
  <2> QED BY <1>1, <2>1, <2>2 DEF DoneInv
<1>8. ReceiverInv'
  BY <1>1, <1>2, <1>3 DEF ReceiverInv, Keeps, PathInv, FixedPcs
<1> QED BY <1>4, <1>5, <1>6, <1>7, <1>8

LEMMA RestartKeeps ==
  ASSUME IInv, Restart
  PROVE  IInv'
<1> USE DEF IInv
<1>1. /\ UNCHANGED <<settings, at, part, gps, products, stuck, streams, configures, failures>>
      /\ restarts' = restarts + 1 /\ restarts < MaxRestarts /\ restarted' = TRUE
  BY DEF Restart
<1>2. receiver' \in Receivers /\ receiver'.tmode = "off" /\ ~receiver'.rtcm
  BY DEF Restart, Factory, Receivers
<1>3. restarts \in Nat /\ restarts' \in 0 .. MaxRestarts /\ restarts' > 0
  BY <1>1, ConstantTypes DEF Types
<1>4. Types'
  <2>1. Products' = Products /\ Receivers' = Receivers
    BY <1>1 DEF Products, Receivers
  <2> QED BY <1>1, <1>2, <1>3, <2>1 DEF Types
<1>5. PathInv' /\ PointersInv' /\ FreshInv'
  BY <1>1 DEF PathInv, PointersInv, FreshInv, Keeps
<1>6. ReachInv'
  BY <1>1, <1>2 DEF ReachInv
<1>7. DoneInv'
  BY <1>1 DEF DoneInv
<1>8. ReceiverInv'
  BY <1>1, <1>2, <1>3 DEF ReceiverInv, Keeps
<1> QED BY <1>4, <1>5, <1>6, <1>7, <1>8

LEMMA RecoverKeeps ==
  ASSUME IInv, Recover
  PROVE  IInv'
<1> USE DEF IInv
<1>1. UNCHANGED <<settings, receiver, configures, failures, restarts, restarted>> /\ at = "up"
  BY DEF Recover, Bounds
<1>2. configures' \in 0 .. MaxConfigures /\ configures <= configures' /\ failures' \in 0 .. MaxFailures
  BY <1>1, ConstantTypes DEF Types
<1>3. CASE ~Released(0, products)
  BY <1>1, <1>2, <1>3, HangKeeps DEF Recover
<1>4. CASE Released(0, products)
  <2>1. at' = "unconfigured" /\ gps' = 0 /\ UNCHANGED <<part, products, stuck, streams>>
    BY <1>4 DEF Recover
  <2>2. at' \notin EarlyPcs \union Subscribing \union {"save", "inf", "up", "hung"}
    BY <2>1 DEF EarlyPcs, NodePcs, FirmwarePcs, SurveyPcs, TimePcs, FixedPcs, PollPcs, Subscribing
  <2>3. at' \notin SurveyPcs \union TimePcs \union FixedPcs \union PollPcs \union {"disable"}
    BY <2>1 DEF SurveyPcs, TimePcs, FixedPcs, PollPcs
  <2>4. Types'
    <3>1. Products' = Products /\ Receivers' = Receivers
      BY <1>1 DEF Products, Receivers
    <3>2. at' \in Pcs /\ gps' \in 0 .. configures
      BY <2>1 DEF Pcs, Types
    <3> QED BY <1>1, <2>1, <3>1, <3>2 DEF Types
  <2>5. PathInv'
    BY <2>2, <2>3 DEF PathInv
  <2>6. ReachInv'
    BY <1>1, <2>1 DEF ReachInv
  <2>7. PointersInv'
    <3>1. at \notin Subscribing \union {"hung"}
      BY <1>1 DEF Subscribing
    <3>2. PICK g \in 0 .. configures : \A i \in DOMAIN products : products[i].gps \in {0, g}
      BY <3>1 DEF PointersInv
    <3> QED BY <1>1, <2>1, <2>2, <3>2 DEF PointersInv
  <2>8. FreshInv'
    BY <2>1, <2>2 DEF FreshInv, Types
  <2>9. DoneInv'
    <3>1. Done' = {}
      BY <2>2 DEF Done
    <3> QED BY <3>1 DEF DoneInv
  <2>10. ReceiverInv'
    BY <1>1, <2>1, <2>3 DEF ReceiverInv, Keeps, PollPcs, FixedPcs
  <2> QED BY <2>4, <2>5, <2>6, <2>7, <2>8, <2>9, <2>10
<1> QED BY <1>3, <1>4

LEMMA ConfigureKeeps ==
  ASSUME IInv, Configure
  PROVE  IInv'
<1> USE DEF IInv
<1>1. /\ at = "unconfigured" /\ configures' = configures + 1 /\ restarted' = FALSE
      /\ UNCHANGED <<settings, receiver, restarts>>
  BY DEF Configure
<1>2. configures \in Nat /\ configures' \in 0 .. MaxConfigures /\ configures < configures'
  BY ConstantTypes DEF Configure, Types
<1>5. /\ restarted' \in BOOLEAN /\ (restarted' => restarts' > 0) /\ settings' \in Settings
      /\ receiver' \in Receivers /\ restarts' \in 0 .. MaxRestarts
  BY <1>1 DEF Types
<1>3. CASE ~Released(configures', products)
  <2>1. Hang /\ failures' = failures
    BY <1>3 DEF Configure
  <2>2. failures' \in 0 .. MaxFailures
    BY <2>1 DEF Types
  <2>3. configures <= configures' /\ (restarted' = restarted \/ restarted' = FALSE)
    BY <1>1, <1>2
  <2> QED BY <1>1, <1>2, <2>1, <2>2, <2>3, HangKeeps
<1>4. CASE Released(configures', products)
  <2>1. PICK ok \in BOOLEAN :
          /\ Spends(ok)
          /\ gps' = configures'
          /\ IF ok THEN /\ products' = Append(products, [mode |-> "init", gps |-> 0, listens |-> {}])
                        /\ at' = "load" /\ part' = 1
                   ELSE UNCHANGED <<products, at, part>>
          /\ UNCHANGED <<stuck, streams>>
    BY <1>4 DEF Configure
  <2>2. failures' \in 0 .. MaxFailures
    BY <2>1, SpendsType
  <2> DEFINE new == [mode |-> "init", gps |-> 0, listens |-> {}]
  <2>3. products \in Seq(Products') /\ new \in Products'
    BY <1>2, ProductsGrow DEF Products, Modes
  <2>4. new.mode = "init" /\ new.gps = 0 /\ new.listens = {}
    OBVIOUS
  <2>5. CASE ok
    <3>1. products' = Append(products, new) /\ at' = "load" /\ part' = 1
      BY <2>1, <2>5
    <3> HIDE DEF new
    <3>2. /\ products' \in Seq(Products') /\ Len(products') = Len(products) + 1
          /\ \A i \in DOMAIN products' :
               \/ i \in DOMAIN products /\ products'[i] = products[i]
               \/ products'[i] = new
      BY <2>3, <3>1
    <3>3. /\ at' \in EarlyPcs
          /\ at' \notin SurveyPcs \union TimePcs \union FixedPcs \union PollPcs
                        \union Subscribing \union {"disable", "save", "inf", "up", "hung"}
      BY <3>1 DEF EarlyPcs, NodePcs, SurveyPcs, TimePcs, FixedPcs, PollPcs, Subscribing
    <3>4. Types'
      <4>1. Receivers' = Receivers
        BY DEF Receivers
      <4>2. at' \in Pcs /\ part' \in 0 .. Len(products') /\ gps' \in 0 .. configures'
        BY <1>2, <2>1, <3>1, <3>2, <3>3 DEF Pcs, Types
      <4>3. stuck' \subseteq 1 .. configures' /\ streams' \subseteq 1 .. configures'
        BY <1>2, <2>1 DEF Types
      <4> QED BY <1>2, <1>5, <2>2, <3>2, <4>1, <4>2, <4>3 DEF Types
    <3>5. PathInv'
      BY <1>2, <2>1, <3>1, <3>3 DEF PathInv
    <3>6. ReachInv'
      BY <1>1, <2>4, <3>2 DEF ReachInv
    <3>7. PointersInv'
      <4>1. at \notin Subscribing \union {"hung"}
        BY <1>1 DEF Subscribing
      <4>2. PICK g \in 0 .. configures : \A i \in DOMAIN products : products[i].gps \in {0, g}
        BY <4>1 DEF PointersInv
      <4>3. g \in 0 .. configures' /\ \A i \in DOMAIN products' : products'[i].gps \in {0, g}
        BY <1>2, <2>4, <3>2, <4>2
      <4> QED BY <3>3, <4>3 DEF PointersInv
    <3>8. FreshInv'
      <4>1. \A i \in DOMAIN products : products[i].gps \in 0 .. configures
                                      /\ products[i].listens \subseteq 1 .. configures
        <5>1. \A i \in DOMAIN products : products[i] \in Products
          BY DEF Types
        <5> QED BY <5>1 DEF Products
      <4>2. \A i \in DOMAIN products' : products'[i].gps # gps' /\ gps' \notin products'[i].listens
        BY <1>2, <2>1, <2>4, <3>2, <4>1
      <4>3. \A i \in DOMAIN products' : products'[i].listens # {} => products'[i].gps # 0
        BY <2>4, <3>2 DEF FreshInv
      <4>4. gps' \notin streams'
        BY <1>2, <2>1 DEF Types
      <4> QED BY <2>1, <4>2, <4>3, <4>4 DEF FreshInv
    <3>9. DoneInv'
      <4>1. Done' = {}
        BY <3>1, <3>2, <3>3 DEF Done
      <4> QED BY <4>1 DEF DoneInv
    <3>10. ReceiverInv'
      BY <1>1, <3>3 DEF ReceiverInv, Keeps, PollPcs, FixedPcs
    <3> QED BY <3>4, <3>5, <3>6, <3>7, <3>8, <3>9, <3>10
  <2>6. CASE ~ok
    <3>1. UNCHANGED <<products, at, part, stuck, streams>> /\ gps' = configures'
      BY <2>1, <2>6
    <3>2. at' \notin SurveyPcs \union TimePcs \union FixedPcs \union PollPcs \union EarlyPcs
                      \union Subscribing \union {"disable", "save", "inf", "up", "hung"}
      BY <1>1, <3>1 DEF EarlyPcs, NodePcs, FirmwarePcs, SurveyPcs, TimePcs, FixedPcs, PollPcs, Subscribing
    <3>3. gps' \notin streams'
      BY <1>2, <3>1 DEF Types
    <3>4. Types'
      <4>1. Receivers' = Receivers
        BY DEF Receivers
      <4>2. gps' \in 0 .. configures' /\ stuck' \subseteq 1 .. configures' /\ streams' \subseteq 1 .. configures'
        BY <1>2, <3>1 DEF Types
      <4>3. at' \in Pcs /\ products' \in Seq(Products') /\ part' \in 0 .. Len(products')
        BY <2>3, <3>1 DEF Types
      <4> QED BY <1>2, <1>5, <2>2, <4>1, <4>2, <4>3 DEF Types
    <3>5. PathInv'
      BY <3>2 DEF PathInv
    <3>6. ReachInv'
      BY <1>1, <3>1 DEF ReachInv
    <3>7. PointersInv'
      <4>1. at \notin Subscribing \union {"hung"}
        BY <1>1 DEF Subscribing
      <4>2. PICK g \in 0 .. configures : \A i \in DOMAIN products : products[i].gps \in {0, g}
        BY <4>1 DEF PointersInv
      <4>3. g \in 0 .. configures'
        BY <1>2
      <4> QED BY <3>1, <3>2, <4>2, <4>3 DEF PointersInv
    <3>8. FreshInv'
      BY <3>1, <3>2, <3>3 DEF FreshInv
    <3>9. DoneInv'
      <4>1. Done' = {}
        BY <3>2 DEF Done
      <4> QED BY <4>1 DEF DoneInv
    <3>10. ReceiverInv'
      BY <1>1, <3>2 DEF ReceiverInv, Keeps, PollPcs, FixedPcs
    <3> QED BY <3>4, <3>5, <3>6, <3>7, <3>8, <3>9, <3>10
  <2> QED BY <2>5, <2>6
<1> QED BY <1>3, <1>4

\* The mode of any product, as an I/O thread sets it.
InTimeMode(p) == [products EXCEPT ![p].mode = "time"]

LEMMA InTimeModeShape ==
  ASSUME Types, NEW p \in DOMAIN products
  PROVE  /\ InTimeMode(p) \in Seq(Products)
         /\ Len(InTimeMode(p)) = Len(products)
         /\ DOMAIN InTimeMode(p) = DOMAIN products
         /\ \A i \in DOMAIN products :
              /\ InTimeMode(p)[i].gps = products[i].gps
              /\ InTimeMode(p)[i].listens = products[i].listens
              /\ InTimeMode(p)[i].mode = IF i = p THEN "time" ELSE products[i].mode
<1>2. products[p] \in Products /\ "time" \in Modes
  BY DEF Types, Modes
<1>3. [products[p] EXCEPT !.mode = "time"] \in Products
  BY <1>2 DEF Products
<1>4. InTimeMode(p) = [products EXCEPT ![p] = [products[p] EXCEPT !.mode = "time"]]
  BY DEF InTimeMode
<1>6. InTimeMode(p) \in Seq(Products) /\ Len(InTimeMode(p)) = Len(products)
        /\ DOMAIN InTimeMode(p) = DOMAIN products
  BY <1>3, <1>4 DEF Types
<1>7. ASSUME NEW i \in DOMAIN products
      PROVE  /\ InTimeMode(p)[i].gps = products[i].gps
             /\ InTimeMode(p)[i].listens = products[i].listens
             /\ InTimeMode(p)[i].mode = IF i = p THEN "time" ELSE products[i].mode
  <2>1. CASE i = p
    BY <1>2, <1>4, <2>1 DEF Products
  <2>2. CASE i # p
    BY <1>4, <2>2
  <2> QED BY <2>1, <2>2
<1> QED BY <1>6, <1>7

LEMMA NavSvInKeeps ==
  ASSUME IInv, NEW g \in Held, NEW p \in DOMAIN products, NavSvIn(g, p)
  PROVE  IInv'
<1> USE DEF IInv
<1>1. /\ UNCHANGED <<settings, at, part, gps, streams, configures, failures, restarts, restarted>>
      /\ g \in products[p].listens /\ g \notin stuck
      /\ receiver.tmode = "surveyed" /\ products[p].mode = "survey_in"
      /\ products' = InTimeMode(p)
  BY DEF NavSvIn, Bounds, InTimeMode
<1>2. IF products[p].gps = g
        THEN stuck' = stuck \union {g} /\ UNCHANGED receiver
        ELSE UNCHANGED stuck /\ receiver' \in
               {receiver, Effect("time_rate", receiver),
                Effect("time_rtcm", Effect("time_rate", receiver))}
  BY DEF NavSvIn
<1>3. /\ SameReferences
      /\ \A i \in DOMAIN products : products'[i].mode = IF i = p THEN "time" ELSE products[i].mode
  BY <1>1, InTimeModeShape DEF SameReferences
<1>4. products[p] \in Products /\ g \in 1 .. configures /\ receiver \in Receivers
  <2>1. products[p] \in Products
    BY DEF Types
  <2> QED BY <1>1, <2>1 DEF Types, Products
<1>5. stuck \subseteq stuck' /\ stuck' \subseteq 1 .. configures
  BY <1>2, <1>4 DEF Types
<1>6. receiver' \in Receivers /\ receiver'.tmode = "surveyed"
  <2>1. Effect("time_rate", receiver) \in Receivers /\ Effect("time_rate", receiver).tmode = "surveyed"
    BY <1>1, <1>4, EffectFields
  <2>2. LET r == Effect("time_rate", receiver) IN
        Effect("time_rtcm", r) \in Receivers /\ Effect("time_rtcm", r).tmode = "surveyed"
    BY <2>1, EffectFields
  <2> QED BY <1>1, <1>2, <1>4, <2>1, <2>2
<1>7. settings.tmode3 = "survey_in"
  <2>1. settings.tmode3 \in {"disabled", "fixed", "survey_in"}
    BY SetupAssumption DEF Types
  <2> QED BY <1>1, <2>1 DEF ReachInv
<1>8. Types'
  <2>1. Products' = Products /\ Receivers' = Receivers
    BY <1>1 DEF Products, Receivers
  <2> QED BY <1>1, <1>3, <1>5, <1>6, <2>1 DEF Types, SameReferences
<1>9. PathInv'
  <2>1. UNCHANGED <<settings, at, part, gps>> /\ PathInv /\ Len(products') = Len(products)
    BY <1>1, <1>3 DEF SameReferences
  <2>2. Keeps' = Keeps
    BY <2>1 DEF Keeps
  <2> QED BY <2>1, <2>2 DEF PathInv
<1>10. ReachInv'
  BY <1>1, <1>3, <1>6, <1>7 DEF ReachInv, SameReferences
<1>11. PointersInv'
  <2>1. /\ UNCHANGED <<at, part, gps, streams, configures>> /\ PointersInv
        /\ DOMAIN products' = DOMAIN products
        /\ \A i \in DOMAIN products : products'[i].gps = products[i].gps
    BY <1>1, <1>3 DEF SameReferences
  <2> HIDE DEF IInv
  <2> QED BY <2>1 DEF PointersInv
<1>12. FreshInv'
  BY <1>1, <1>3 DEF FreshInv, SameReferences
<1>13. DoneInv'
  <2>1. SUFFICES ASSUME ~restarted, ~Unsettled', NEW i \in Done' PROVE Agrees(i)'
    BY <1>1 DEF DoneInv
  <2>2. Done' = Done /\ Done \subseteq DOMAIN products
    BY <1>1, <1>3 DEF Done, SameReferences
  \* Before the subscriptions the product can only send through the Gps that
  \* called it, and that thread now waits for itself.
  <2>3. CASE at \in EarlyPcs \union {"save"}
    <3>1. g # gps /\ products[p].gps # 0
      BY <1>1, <2>3 DEF FreshInv
    <3>2. at \notin Subscribing \union {"hung"}
      BY <2>3 DEF EarlyPcs, NodePcs, FirmwarePcs, SurveyPcs, TimePcs, FixedPcs, PollPcs, Subscribing
    <3>3. PICK h \in 0 .. configures : \A j \in DOMAIN products : products[j].gps \in {0, h}
      BY <3>2 DEF PointersInv
    <3>4. PICK j \in DOMAIN products : products[j].gps = g
      BY <3>1 DEF Held, HeldBy
    <3>5. products[p].gps = g
      BY <1>4, <3>1, <3>3, <3>4
    <3>6. Unsettled'
      BY <1>1, <1>2, <1>3, <3>1, <3>5 DEF Unsettled, LeftWaiting, SameReferences
    <3> QED BY <2>1, <3>6
  <2>4. CASE at \notin EarlyPcs \union {"save"}
    <3>1. ~Unsettled
      BY <1>1, <1>3, <1>5, <2>1 DEF Unsettled, LeftWaiting, SameReferences
    <3>2. Agrees(i) /\ i \in DOMAIN products
      BY <2>1, <2>2, <3>1 DEF DoneInv
    <3> QED BY <1>1, <1>3, <1>6, <1>7, <2>4, <3>2 DEF Agrees, Keeps, Resets, SurveyKnown
  <2> QED BY <2>3, <2>4
<1>14. ReceiverInv'
  BY <1>1, <1>6, <1>7 DEF ReceiverInv, Keeps, PathInv, FixedPcs
<1> QED BY <1>8, <1>9, <1>10, <1>11, <1>12, <1>13, <1>14

-----------------------------------------------------------------------------
(* The messages.                                                           *)

\* A message that was written: taken by the receiver or not, acknowledged or
\* not.
Outcome(ok, taken) ==
  /\ ok => taken
  /\ receiver' = IF taken THEN Effect(at, receiver) ELSE receiver
  /\ Subscribed(ok)
  /\ IF ok \/ at \in Tolerated THEN AfterMessage(at) ELSE Refused
  /\ UNCHANGED <<settings, gps, stuck, configures, restarts, restarted>>
  /\ failures' \in 0 .. MaxFailures

\* What a message leaves of the receiver's mode.
TmodeAfter(step, tmode) ==
  CASE step \in {"pause", "disable"} -> "off"
    [] step = "fix" -> "fixed"
    [] step = "survey" -> "surveying"
    [] OTHER -> tmode

LEMMA ReceiverAfter ==
  ASSUME Types, NEW ok \in BOOLEAN, NEW taken \in BOOLEAN, Outcome(ok, taken)
  PROVE  /\ receiver' \in Receivers
         /\ \/ ~ok /\ receiver'.tmode = receiver.tmode /\ receiver'.rtcm = receiver.rtcm
            \/ /\ receiver'.tmode = TmodeAfter(at, receiver.tmode)
               /\ receiver'.rtcm = (receiver.rtcm \/ at \in {"time_rtcm", "fixed_rtcm"})
<1>1. receiver \in Receivers
  BY DEF Types
<1>2. CASE taken
  BY <1>1, <1>2, EffectFields DEF Outcome, TmodeAfter
<1>3. CASE ~taken
  BY <1>1, <1>3 DEF Outcome
<1> QED BY <1>2, <1>3

LEMMA ModeAfterType ==
  ASSUME NEW step, NEW mode \in Modes
  PROVE  ModeAfter(step, mode) \in Modes
BY DEF ModeAfter, Modes

LEMMA ProductsAfter ==
  ASSUME Types, part > 0, at \notin Subscribing, NEW ok \in BOOLEAN, Subscribed(ok)
  PROVE  /\ SameReferences /\ streams' = streams
         /\ ~ok => products' = products
         /\ \A i \in DOMAIN products :
              products'[i].mode = IF ok /\ i = part THEN ModeAfter(at, products[i].mode)
                                                   ELSE products[i].mode
<1>1. part \in DOMAIN products /\ products[part] \in Products /\ products \in Seq(Products)
  BY DEF Types
<1>2. /\ streams' = streams
      /\ products' = IF ok /\ part > 0 THEN [products EXCEPT ![part].mode = ModeAfter(at, @)]
                                        ELSE products
  BY DEF Subscribed, Subscribing
<1>3. CASE ok
  <2> DEFINE m == ModeAfter(at, products[part].mode)
  <2>1. m \in Modes
    BY <1>1, ModeAfterType DEF Products
  <2>2. products' = WithMode(m)
    BY <1>2, <1>3 DEF WithMode
  <2> QED BY <1>2, <1>3, <2>1, <2>2, SetModeReferences
<1>4. CASE ~ok
  BY <1>1, <1>2, <1>4 DEF SameReferences
<1> QED BY <1>3, <1>4

\* No message of the configuration gives the receiver a mode that the
\* parameters do not ask for, or corrections without a position.
LEMMA ReceiverKnown ==
  ASSUME IInv, at \in EarlyPcs, NEW ok \in BOOLEAN, NEW taken \in BOOLEAN, Outcome(ok, taken)
  PROVE  /\ RtcmKnown'
         /\ settings.tmode3 = "disabled" => receiver'.tmode = "off" /\ ~receiver'.rtcm
         /\ settings.tmode3 = "fixed" => receiver'.tmode \in {"off", "fixed"}
         /\ settings.tmode3 = "survey_in" => receiver'.tmode \in {"off", "surveying", "surveyed"}
<1> USE DEF IInv
<1>0. /\ receiver \in Receivers /\ restarts \in Nat /\ (restarted => restarts > 0)
      /\ settings.tmode3 \in {"disabled", "fixed", "survey_in"} /\ settings.reset \in BOOLEAN
  BY SetupAssumption DEF Types
<1>1. settings' = settings /\ restarts' = restarts
  BY DEF Outcome
<1>2. CASE receiver'.tmode = receiver.tmode /\ receiver'.rtcm = receiver.rtcm
  BY <1>0, <1>1, <1>2 DEF ReachInv, ReceiverInv, RtcmKnown
<1>3. CASE /\ receiver'.tmode = TmodeAfter(at, receiver.tmode)
           /\ receiver'.rtcm = (receiver.rtcm \/ at \in {"time_rtcm", "fixed_rtcm"})
  <2>1. CASE at \in {"pause", "survey"}
    <3>1. at \in SurveyPcs /\ settings.tmode3 = "survey_in"
      BY <2>1 DEF PathInv, SurveyPcs
    <3>2. receiver'.rtcm = receiver.rtcm /\ receiver'.tmode \in {"off", "surveying"}
      BY <1>0, <1>3, <2>1 DEF TmodeAfter, Receivers
    <3>3. Keeps => receiver.tmode = "off"
      BY <3>1 DEF ReceiverInv
    <3>4. RtcmKnown'
      BY <1>0, <1>1, <3>1, <3>2, <3>3 DEF RtcmKnown, Keeps, ReceiverInv
    <3> QED BY <3>1, <3>2, <3>4
  <2>2. CASE at = "disable"
    <3>1. settings.tmode3 = "disabled" /\ receiver.tmode = "off" /\ ~receiver.rtcm
      BY <2>2 DEF PathInv, ReachInv
    <3>2. ~receiver'.rtcm /\ receiver'.tmode = "off"
      BY <1>3, <2>2, <3>1 DEF TmodeAfter
    <3> QED BY <3>1, <3>2 DEF RtcmKnown
  <2>3. CASE at \in FixedPcs
    <3>1. settings.tmode3 = "fixed" /\ receiver.tmode \in {"off", "fixed"}
      BY <2>3 DEF PathInv, ReachInv
    <3>2. receiver'.tmode \in {"off", "fixed"}
      BY <1>3, <2>3, <3>1 DEF TmodeAfter, FixedPcs
    <3>3. CASE at = "fix"
      BY <1>3, <3>1, <3>3 DEF TmodeAfter, RtcmKnown
    <3>4. CASE at = "fixed_rtcm"
      <4>1. receiver'.tmode = receiver.tmode
        BY <1>3, <3>4 DEF TmodeAfter
      <4>2. restarts = 0 => receiver.tmode = "fixed"
        BY <1>0, <3>4 DEF ReceiverInv
      <4> QED BY <1>1, <3>1, <3>2, <4>1, <4>2 DEF RtcmKnown
    <3> QED BY <2>3, <3>3, <3>4 DEF FixedPcs
  <2>4. CASE at = "time_rtcm"
    <3>1. at \in TimePcs /\ settings.tmode3 = "survey_in"
      BY <2>4 DEF PathInv, TimePcs, Keeps
    <3>2. receiver'.tmode = receiver.tmode
      BY <1>3, <2>4 DEF TmodeAfter
    <3>3. restarts = 0 => receiver.tmode = "surveyed"
      BY <3>1 DEF ReceiverInv
    <3> QED BY <1>1, <3>1, <3>2, <3>3 DEF RtcmKnown, ReachInv
  <2>5. CASE at \notin {"pause", "survey", "disable", "time_rtcm"} \union FixedPcs
    <3>1. receiver'.tmode = receiver.tmode /\ receiver'.rtcm = receiver.rtcm
      BY <1>0, <1>3, <2>5 DEF TmodeAfter, FixedPcs, Receivers
    <3> QED BY <1>2, <3>1
  <2> QED BY <2>1, <2>2, <2>3, <2>4, <2>5
<1> QED BY <1>2, <1>3, ReceiverAfter

LEMMA SendRefused ==
  ASSUME IInv, at \in EarlyPcs \ Tolerated, NEW ok \in BOOLEAN, NEW taken \in BOOLEAN, ~ok,
         Outcome(ok, taken)
  PROVE  IInv'
<1> USE DEF IInv
<1>1. part > 0 /\ at \notin Subscribing
  BY DEF PathInv, Subscribing, Tolerated
<1>2. products' = products /\ streams' = streams
  BY <1>1, ProductsAfter DEF Outcome
<1>3. receiver' \in Receivers
  BY ReceiverAfter
<1>4. RtcmKnown' /\ ReachInv'
  BY <1>2, ReceiverKnown DEF ReachInv, Outcome
<1> QED BY <1>2, <1>3, <1>4, RefuseKeeps DEF Outcome

LEMMA SendPlain ==
  ASSUME IInv, at \in PlainPcs, NEW ok \in BOOLEAN, NEW taken \in BOOLEAN, Outcome(ok, taken),
         at \in Messages, ok \/ at \in Tolerated
  PROVE  IInv'
<1> USE DEF IInv
<1>1. Goes(at)
  BY AfterMessageGoes DEF Outcome
<1>2. /\ at \in EarlyPcs \ TimePcs /\ part' = part /\ PathInv'
      /\ at' \in (NodePcs \union FirmwarePcs) \ (TimePcs \union {"fixed_rtcm"}) /\ at' \in EarlyPcs
  BY <1>1, PlainGoes DEF Outcome
<1>3. at' \notin SurveyPcs \union {"poll_pvt"}
  BY <1>2 DEF NodePcs, FirmwarePcs, SurveyPcs
<1>4. part > 0 /\ at \notin Subscribing
  BY <1>2 DEF PathInv, Subscribing, EarlyPcs, NodePcs, FirmwarePcs, SurveyPcs, TimePcs, FixedPcs,
     PollPcs
<1>5. at \notin {"pause", "survey", "disable", "fix", "time_rtcm", "fixed_rtcm"}
  BY DEF PlainPcs, NodePcs
<1>6. receiver' \in Receivers /\ receiver'.tmode = receiver.tmode /\ receiver'.rtcm = receiver.rtcm
  <2>1. receiver.rtcm \in BOOLEAN
    BY DEF Types, Receivers
  <2> QED BY <1>5, <2>1, ReceiverAfter DEF TmodeAfter
<1>7. SameProducts /\ streams' = streams
  BY <1>4, <1>5, ProductsAfter DEF Outcome, SameProducts, ModeAfter
<1> QED BY <1>2, <1>3, <1>6, <1>7, QuietKeeps DEF Outcome

LEMMA GoesNext ==
  ASSUME Types, at \in {"survey", "time_rtcm", "fixed_rtcm", "disable"}, AfterMessage(at)
  PROVE  NextComponent
<1>1. at \in Messages
  BY DEF Messages
<1>2. Goes(at)
  BY <1>1, AfterMessageGoes
<1>3. part <= Len(products) /\ part \in Nat /\ Len(products) \in Nat
  BY DEF Types
<1> QED BY <1>2, <1>3 DEF Goes, NextComponent

LEMMA SendSurveyRate ==
  ASSUME IInv, at = "survey_rate", NEW ok \in BOOLEAN, NEW taken \in BOOLEAN, ok,
         Outcome(ok, taken)
  PROVE  IInv'
<1> USE DEF IInv
<1>0. at \in Messages /\ at \in EarlyPcs \ TimePcs /\ at \in SurveyPcs /\ at \notin Subscribing
  BY DEF Messages, EarlyPcs, TimePcs, SurveyPcs, Subscribing
<1>1. at' = "pause" /\ part' = part
  BY <1>0, AfterMessageGoes DEF Outcome, Goes, Successor
<1>2. /\ at' \in EarlyPcs \ (TimePcs \union {"fixed_rtcm"})
      /\ at' \notin PollPcs \union FixedPcs \union {"disable", "save", "inf"}
  BY <1>1 DEF TimePcs, EarlyPcs, SurveyPcs, FixedPcs, PollPcs
<1>3. part > 0 /\ gps > 0 /\ settings.tmode3 = "survey_in" /\ (Keeps => receiver.tmode = "off")
  BY <1>0 DEF PathInv, ReceiverInv
<1>4. PathInv'
  BY <1>1, <1>2, <1>3 DEF PathInv, Outcome
<1>5. receiver' \in Receivers /\ receiver'.tmode = receiver.tmode /\ receiver'.rtcm = receiver.rtcm
  <2>1. receiver.rtcm \in BOOLEAN
    BY DEF Types, Receivers
  <2> QED BY <2>1, ReceiverAfter DEF TmodeAfter
<1>6. SameProducts /\ streams' = streams
  BY <1>0, <1>3, ProductsAfter DEF Outcome, SameProducts, ModeAfter
<1> QED BY <1>0, <1>1, <1>2, <1>3, <1>4, <1>5, <1>6, QuietKeeps DEF Outcome

LEMMA SendPause ==
  ASSUME IInv, at = "pause", NEW ok \in BOOLEAN, NEW taken \in BOOLEAN, Outcome(ok, taken)
  PROVE  IInv'
<1> USE DEF IInv
<1>0. /\ at \in Messages /\ at \in EarlyPcs \ TimePcs /\ at \in SurveyPcs /\ at \notin Subscribing
      /\ at \in Tolerated
  BY DEF Messages, EarlyPcs, TimePcs, SurveyPcs, Subscribing, Tolerated
<1>1. at' = "survey" /\ part' = part
  BY <1>0, AfterMessageGoes DEF Outcome, Goes, Successor
<1>2. /\ at' \in EarlyPcs \ (TimePcs \union {"fixed_rtcm"})
      /\ at' \notin PollPcs \union FixedPcs \union {"disable", "save", "inf"}
  BY <1>1 DEF TimePcs, EarlyPcs, SurveyPcs, FixedPcs, PollPcs
<1>3. /\ part \in 1 .. Len(products) /\ gps > 0 /\ settings.tmode3 = "survey_in"
      /\ (Keeps => receiver.tmode = "off")
  BY <1>0 DEF Types, PathInv, ReceiverInv
<1>4. PathInv'
  BY <1>1, <1>2, <1>3 DEF PathInv, Outcome
<1>5. /\ receiver' \in Receivers /\ receiver'.tmode \in {receiver.tmode, "off"}
      /\ RtcmKnown' /\ receiver'.tmode \in {"off", "surveying", "surveyed"}
  BY <1>0, <1>3, ReceiverAfter, ReceiverKnown DEF TmodeAfter
<1>6. /\ SameReferences /\ streams' = streams
      /\ \A i \in DOMAIN products :
           products'[i].mode = IF ok /\ i = part THEN "disabled" ELSE products[i].mode
  BY <1>0, <1>3, ProductsAfter DEF Outcome, ModeAfter
<1>7. Types' /\ PointersInv' /\ FreshInv' /\ Unsettled' = Unsettled
  BY <1>0, <1>1, <1>2, <1>3, <1>5, <1>6, ConfiguringKeeps DEF Outcome
<1>8. ReachInv'
  BY <1>3, <1>5, <1>6 DEF ReachInv, SameReferences, Outcome
<1>9. ReceiverInv'
  BY <1>2, <1>3, <1>5 DEF ReceiverInv, RtcmKnown, Keeps, Outcome, PollPcs
<1>10. DoneInv'
  <2>1. Done' = Done /\ Done \subseteq {i \in DOMAIN products : i < part}
    BY <1>0, <1>1, <1>2, <1>3, <1>6 DEF Done, SameReferences
  <2>2. ASSUME NEW i \in DOMAIN products, i < part, Agrees(i) PROVE Agrees(i)'
    BY <1>0, <1>2, <1>3, <1>5, <1>6, <2>2 DEF Agrees, Keeps, Resets, SurveyKnown, Outcome
  <2> QED BY <1>7, <2>1, <2>2 DEF DoneInv, Outcome
<1> QED BY <1>4, <1>7, <1>8, <1>9, <1>10

LEMMA SendSurvey ==
  ASSUME IInv, at = "survey", NEW ok \in BOOLEAN, NEW taken \in BOOLEAN,
         Outcome(ok, taken)
  PROVE  ok => IInv'
<1> USE DEF IInv
<1>0. at \in EarlyPcs \ TimePcs /\ at \in SurveyPcs /\ at \notin Subscribing
  BY DEF EarlyPcs, TimePcs, SurveyPcs, Subscribing
<1>11. part > 0
  BY <1>0 DEF PathInv
<1>12. /\ SameReferences /\ streams' = streams
       /\ \A i \in DOMAIN products :
            products'[i].mode = IF ok /\ i = part THEN ModeAfter(at, products[i].mode)
                                                 ELSE products[i].mode
  BY <1>0, <1>11, ProductsAfter DEF Outcome
<1>13. HAVE ok
<1>1. NextComponent
  BY <1>13, GoesNext DEF Outcome
<1>2. /\ part \in 1 .. Len(products) /\ settings.tmode3 = "survey_in"
      /\ (Keeps => receiver.tmode = "off")
  BY <1>0 DEF Types, PathInv, ReceiverInv
<1>3. receiver' \in Receivers /\ receiver'.tmode = "surveying" /\ RtcmKnown'
  BY <1>0, <1>13, ReceiverAfter, ReceiverKnown DEF TmodeAfter
<1>4. /\ SameReferences /\ streams' = streams
      /\ \A i \in DOMAIN products :
           products'[i].mode = IF i = part THEN "survey_in" ELSE products[i].mode
  BY <1>12, <1>13 DEF ModeAfter
<1>5. /\ Types' /\ PathInv' /\ PointersInv' /\ FreshInv' /\ Unsettled' = Unsettled /\ ReceiverInv'
      /\ Done' \subseteq {i \in DOMAIN products : i <= part}
  BY <1>0, <1>1, <1>3, <1>4, NextComponentKeeps DEF Outcome
<1>6. ReachInv'
  BY <1>2, <1>3, <1>4 DEF ReachInv, SameReferences, Outcome
<1>7. DoneInv'
  <2>1. SUFFICES ASSUME ~restarted, ~Unsettled, NEW i \in DOMAIN products, i <= part
                 PROVE  Agrees(i)'
    BY <1>5 DEF DoneInv, Outcome
  <2>2. CASE i = part
    BY <1>2, <1>3, <1>4, <2>2 DEF Agrees, Keeps, Resets, SurveyKnown, Outcome
  <2>3. CASE i < part
    <3>1. Agrees(i)
      BY <1>0, <2>1, <2>3 DEF DoneInv, Done
    <3> QED BY <1>0, <1>2, <1>3, <1>4, <2>3, <3>1 DEF Agrees, Keeps, Resets, SurveyKnown, Outcome
  <2> QED BY <1>2, <2>1, <2>2, <2>3
<1> QED BY <1>5, <1>6, <1>7

LEMMA SendTimeRate ==
  ASSUME IInv, at = "time_rate", NEW ok \in BOOLEAN, NEW taken \in BOOLEAN, Outcome(ok, taken)
  PROVE  IInv'
<1> USE DEF IInv
<1>0. /\ at \in Messages /\ at \in EarlyPcs /\ at \in TimePcs /\ at \notin Subscribing
      /\ at \in Tolerated
  BY DEF Messages, EarlyPcs, TimePcs, Subscribing, Tolerated
<1>1. at' = "time_rtcm" /\ part' = part
  BY <1>0, AfterMessageGoes DEF Outcome, Goes, Successor
<1>2. /\ at' \in EarlyPcs /\ at' \in TimePcs
      /\ at' \notin SurveyPcs \union PollPcs \union FixedPcs \union {"disable", "save", "inf"}
  BY <1>1 DEF TimePcs, EarlyPcs, SurveyPcs, FixedPcs, PollPcs
<1>3. part \in 1 .. Len(products) /\ gps > 0 /\ Keeps
  BY <1>0 DEF Types, PathInv
<1>4. PathInv'
  BY <1>1, <1>2, <1>3 DEF PathInv, Outcome, Keeps
<1>5. receiver' \in Receivers /\ receiver'.tmode = receiver.tmode /\ RtcmKnown'
  BY <1>0, ReceiverAfter, ReceiverKnown DEF TmodeAfter
<1>6. SameProducts /\ streams' = streams
  BY <1>0, <1>3, ProductsAfter DEF Outcome, SameProducts, ModeAfter
<1>7. Types' /\ PointersInv' /\ FreshInv' /\ Unsettled' = Unsettled
  BY <1>0, <1>1, <1>2, <1>3, <1>5, <1>6, ConfiguringKeeps DEF Outcome, SameProducts
<1>8. ReachInv'
  BY <1>3, <1>5, <1>6 DEF ReachInv, SameProducts, SameReferences, Outcome, Keeps
<1>9. ReceiverInv'
  BY <1>0, <1>2, <1>5 DEF ReceiverInv, RtcmKnown, Outcome, PollPcs, FixedPcs
<1>10. DoneInv'
  <2>1. Done' = Done /\ Done \subseteq DOMAIN products
    BY <1>0, <1>1, <1>2, <1>6 DEF Done, SameProducts, SameReferences
  <2>2. ASSUME NEW i \in DOMAIN products, Agrees(i) PROVE Agrees(i)'
    BY <1>3, <1>5, <1>6, <2>2 DEF Agrees, Keeps, Resets, SurveyKnown, Outcome, SameProducts
  <2> QED BY <1>7, <2>1, <2>2 DEF DoneInv, Outcome
<1> QED BY <1>4, <1>7, <1>8, <1>9, <1>10

LEMMA SendTimeRtcm ==
  ASSUME IInv, at = "time_rtcm", NEW ok \in BOOLEAN, NEW taken \in BOOLEAN, Outcome(ok, taken)
  PROVE  IInv'
<1> USE DEF IInv
<1>0. at \in EarlyPcs /\ at \in TimePcs /\ at \notin Subscribing /\ at \in Tolerated
  BY DEF EarlyPcs, TimePcs, Subscribing, Tolerated
<1>1. NextComponent
  BY <1>0, GoesNext DEF Outcome
<1>2. part \in 1 .. Len(products) /\ Keeps
  BY <1>0 DEF Types, PathInv
<1>3. receiver' \in Receivers /\ receiver'.tmode = receiver.tmode /\ RtcmKnown'
  BY <1>0, ReceiverAfter, ReceiverKnown DEF TmodeAfter
<1>4. SameProducts /\ streams' = streams
  BY <1>0, <1>2, ProductsAfter DEF Outcome, SameProducts, ModeAfter
<1>5. /\ Types' /\ PathInv' /\ PointersInv' /\ FreshInv' /\ Unsettled' = Unsettled /\ ReceiverInv'
      /\ Done' \subseteq {i \in DOMAIN products : i <= part}
  BY <1>0, <1>1, <1>3, <1>4, NextComponentKeeps DEF Outcome, SameProducts
<1>6. ReachInv'
  BY <1>2, <1>3, <1>4 DEF ReachInv, SameProducts, SameReferences, Outcome, Keeps
<1>7. DoneInv'
  <2>1. SUFFICES ASSUME ~restarted, ~Unsettled, NEW i \in DOMAIN products, i <= part
                 PROVE  Agrees(i)'
    BY <1>5 DEF DoneInv, Outcome
  <2>2. Agrees(i)
    BY <1>0, <1>2, <2>1 DEF DoneInv, Done
  <2> QED BY <1>2, <1>3, <1>4, <2>2 DEF Agrees, Keeps, Resets, SurveyKnown, Outcome, SameProducts
<1> QED BY <1>5, <1>6, <1>7

LEMMA SendFix ==
  ASSUME IInv, at = "fix", NEW ok \in BOOLEAN, NEW taken \in BOOLEAN,
         Outcome(ok, taken)
  PROVE  ok => IInv'
<1> USE DEF IInv
<1>0. /\ at \in Messages /\ at \in EarlyPcs \ TimePcs /\ at \in FixedPcs /\ at \notin Subscribing
  BY DEF Messages, EarlyPcs, TimePcs, FixedPcs, Subscribing
<1>11. part > 0
  BY <1>0 DEF PathInv
<1>12. /\ SameReferences /\ streams' = streams
       /\ \A i \in DOMAIN products :
            products'[i].mode = IF ok /\ i = part THEN ModeAfter(at, products[i].mode)
                                                 ELSE products[i].mode
  BY <1>0, <1>11, ProductsAfter DEF Outcome
<1>13. HAVE ok
<1>1. at' = "fixed_rtcm" /\ part' = part
  BY <1>0, <1>13, AfterMessageGoes DEF Outcome, Goes, Successor
<1>2. /\ at' \in EarlyPcs \ TimePcs /\ at' \in FixedPcs
      /\ at' \notin SurveyPcs \union PollPcs \union {"disable", "save", "inf"}
  BY <1>1 DEF TimePcs, EarlyPcs, SurveyPcs, FixedPcs, PollPcs
<1>3. part \in 1 .. Len(products) /\ gps > 0 /\ settings.tmode3 = "fixed"
  BY <1>0 DEF Types, PathInv
<1>4. PathInv'
  BY <1>1, <1>2, <1>3 DEF PathInv, Outcome
<1>5. receiver' \in Receivers /\ receiver'.tmode = "fixed" /\ RtcmKnown'
        /\ receiver'.rtcm = receiver.rtcm
  <2>1. receiver.rtcm \in BOOLEAN
    BY DEF Types, Receivers
  <2> QED BY <1>0, <2>1, <1>13, ReceiverAfter, ReceiverKnown DEF TmodeAfter
<1>6. SameProducts /\ streams' = streams
  BY <1>12, <1>13 DEF SameProducts, ModeAfter
<1>7. Types' /\ PointersInv' /\ FreshInv' /\ Unsettled' = Unsettled
  BY <1>0, <1>1, <1>2, <1>3, <1>5, <1>6, ConfiguringKeeps DEF Outcome, SameProducts
<1>8. ReachInv'
  BY <1>3, <1>5, <1>6 DEF ReachInv, SameProducts, SameReferences, Outcome
<1>9. ReceiverInv'
  BY <1>0, <1>2, <1>5 DEF ReceiverInv, RtcmKnown, Outcome, PollPcs
<1>10. DoneInv'
  <2>1. Done' = Done /\ Done \subseteq DOMAIN products
    BY <1>0, <1>1, <1>2, <1>6 DEF Done, SameProducts, SameReferences
  <2>2. ASSUME NEW i \in DOMAIN products, Agrees(i) PROVE Agrees(i)'
    BY <1>3, <1>5, <1>6, <2>2 DEF Agrees, Keeps, Resets, SurveyKnown, Outcome, SameProducts
  <2> QED BY <1>7, <2>1, <2>2 DEF DoneInv, Outcome
<1> QED BY <1>4, <1>7, <1>8, <1>9, <1>10

LEMMA SendFixedRtcm ==
  ASSUME IInv, at = "fixed_rtcm", NEW ok \in BOOLEAN, NEW taken \in BOOLEAN,
         Outcome(ok, taken)
  PROVE  ok => IInv'
<1> USE DEF IInv
<1>0. at \in EarlyPcs \ TimePcs /\ at \in FixedPcs /\ at \notin Subscribing
  BY DEF EarlyPcs, TimePcs, FixedPcs, Subscribing
<1>11. part > 0
  BY <1>0 DEF PathInv
<1>12. /\ SameReferences /\ streams' = streams
       /\ \A i \in DOMAIN products :
            products'[i].mode = IF ok /\ i = part THEN ModeAfter(at, products[i].mode)
                                                 ELSE products[i].mode
  BY <1>0, <1>11, ProductsAfter DEF Outcome
<1>13. HAVE ok
<1>1. NextComponent
  BY <1>13, GoesNext DEF Outcome
<1>2. part \in 1 .. Len(products) /\ settings.tmode3 = "fixed"
  BY <1>0 DEF Types, PathInv
<1>3. receiver' \in Receivers /\ receiver'.tmode = receiver.tmode /\ receiver'.rtcm /\ RtcmKnown'
  BY <1>0, <1>13, ReceiverAfter, ReceiverKnown DEF TmodeAfter
<1>4. /\ SameReferences /\ streams' = streams
      /\ \A i \in DOMAIN products :
           products'[i].mode = IF i = part THEN "fixed" ELSE products[i].mode
  BY <1>12, <1>13 DEF ModeAfter
<1>5. /\ Types' /\ PathInv' /\ PointersInv' /\ FreshInv' /\ Unsettled' = Unsettled /\ ReceiverInv'
      /\ Done' \subseteq {i \in DOMAIN products : i <= part}
  BY <1>0, <1>1, <1>3, <1>4, NextComponentKeeps DEF Outcome
<1>6. ReachInv'
  BY <1>2, <1>3, <1>4 DEF ReachInv, SameReferences, Outcome
<1>7. DoneInv'
  <2>1. SUFFICES ASSUME ~restarted, ~Unsettled, NEW i \in DOMAIN products, i <= part
                 PROVE  Agrees(i)'
    BY <1>5 DEF DoneInv, Outcome
  <2>2. receiver.tmode = "fixed"
    BY <2>1 DEF ReceiverInv
  <2>3. CASE i = part
    BY <1>2, <1>3, <1>4, <2>2, <2>3 DEF Agrees, Keeps, Resets, Outcome
  <2>4. CASE i < part
    <3>1. Agrees(i)
      BY <1>0, <2>1, <2>4 DEF DoneInv, Done
    <3> QED BY <1>2, <1>3, <1>4, <2>2, <2>4, <3>1 DEF Agrees, Keeps, Resets, Outcome
  <2> QED BY <1>2, <2>1, <2>3, <2>4
<1> QED BY <1>5, <1>6, <1>7

LEMMA SendDisable ==
  ASSUME IInv, at = "disable", NEW ok \in BOOLEAN, NEW taken \in BOOLEAN,
         Outcome(ok, taken)
  PROVE  ok => IInv'
<1> USE DEF IInv
<1>0. at \in EarlyPcs \ TimePcs /\ at \notin Subscribing
  BY DEF EarlyPcs, TimePcs, Subscribing
<1>11. part > 0
  BY <1>0 DEF PathInv
<1>12. /\ SameReferences /\ streams' = streams
       /\ \A i \in DOMAIN products :
            products'[i].mode = IF ok /\ i = part THEN ModeAfter(at, products[i].mode)
                                                 ELSE products[i].mode
  BY <1>0, <1>11, ProductsAfter DEF Outcome
<1>13. HAVE ok
<1>1. NextComponent
  BY <1>13, GoesNext DEF Outcome
<1>2. part \in 1 .. Len(products) /\ settings.tmode3 = "disabled"
  BY <1>0 DEF Types, PathInv
<1>3. /\ receiver' \in Receivers /\ RtcmKnown'
      /\ receiver'.tmode = "off" /\ ~receiver'.rtcm
  BY <1>0, <1>2, <1>13, ReceiverAfter, ReceiverKnown DEF TmodeAfter
<1>4. /\ SameReferences /\ streams' = streams
      /\ \A i \in DOMAIN products :
           products'[i].mode = IF i = part THEN "disabled" ELSE products[i].mode
  BY <1>12, <1>13 DEF ModeAfter
<1>5. /\ Types' /\ PathInv' /\ PointersInv' /\ FreshInv' /\ Unsettled' = Unsettled /\ ReceiverInv'
      /\ Done' \subseteq {i \in DOMAIN products : i <= part}
  BY <1>0, <1>1, <1>3, <1>4, NextComponentKeeps DEF Outcome
<1>6. ReachInv'
  BY <1>2, <1>3, <1>4 DEF ReachInv, SameReferences, Outcome
<1>7. DoneInv'
  <2>1. SUFFICES ASSUME ~restarted, ~Unsettled, NEW i \in DOMAIN products, i <= part
                 PROVE  Agrees(i)'
    BY <1>5 DEF DoneInv, Outcome
  <2>2. CASE i = part
    BY <1>2, <1>4, <2>2 DEF Agrees, Keeps, Resets, Outcome
  <2>3. CASE i < part
    <3>1. Agrees(i)
      BY <1>0, <2>1, <2>3 DEF DoneInv, Done
    <3> QED BY <1>2, <1>4, <2>3, <3>1 DEF Agrees, Keeps, Resets, Outcome
  <2> QED BY <1>2, <2>1, <2>2, <2>3
<1> QED BY <1>5, <1>6, <1>7

\* The messages of a connection that is configured, or being subscribed to.
LatePcs == Subscribing \union {"save", "inf"}

LEMMA LateReceiver ==
  ASSUME Types, at \in LatePcs, NEW ok \in BOOLEAN, NEW taken \in BOOLEAN, Outcome(ok, taken)
  PROVE  receiver' \in Receivers /\ receiver'.tmode = receiver.tmode /\ receiver'.rtcm = receiver.rtcm
<1>1. receiver.rtcm \in BOOLEAN
  BY DEF Types, Receivers
<1>2. at \notin {"pause", "disable", "fix", "survey", "time_rtcm", "fixed_rtcm"}
  BY DEF LatePcs, Subscribing
<1> QED BY <1>1, <1>2, ReceiverAfter DEF TmodeAfter

LEMMA LateDisjoint ==
  ASSUME at \in LatePcs
  PROVE  /\ at \notin EarlyPcs /\ at \notin SurveyPcs \union TimePcs \union FixedPcs \union PollPcs
         /\ at \notin {"unconfigured", "hung", "up", "disable"} /\ at \in Messages /\ at \in Tolerated
BY DEF LatePcs, Subscribing, EarlyPcs, NodePcs, FirmwarePcs, SurveyPcs, TimePcs, FixedPcs, PollPcs,
   Messages, Tolerated

\* What such a message keeps whatever it changes in the products' references.
LEMMA LateKeeps ==
  ASSUME IInv, at \in LatePcs, at' \in LatePcs \union {"up"},
         NEW ok \in BOOLEAN, NEW taken \in BOOLEAN, Outcome(ok, taken),
         products' \in Seq(Products), Len(products') = Len(products),
         DOMAIN products' = DOMAIN products,
         \A i \in DOMAIN products : products'[i].mode = products[i].mode,
         part' \in 0 .. Len(products), streams' \subseteq streams \union {gps},
         at' # "up" => part' > 0, at' \in {"save", "inf"} => part' = Len(products),
         Unsettled => Unsettled'
  PROVE  Types' /\ PathInv' /\ ReachInv' /\ DoneInv' /\ ReceiverInv'
<1> USE DEF IInv
<1>1. /\ receiver' \in Receivers /\ receiver'.tmode = receiver.tmode /\ receiver'.rtcm = receiver.rtcm
      /\ UNCHANGED <<settings, gps, stuck, configures, restarts, restarted>>
      /\ failures' \in 0 .. MaxFailures
  BY LateReceiver DEF Outcome
<1>2. /\ at' \notin EarlyPcs /\ at' \notin SurveyPcs \union TimePcs \union FixedPcs \union PollPcs
      /\ at' # "disable" /\ at' \in Pcs
  BY DEF LatePcs, Subscribing, EarlyPcs, NodePcs, FirmwarePcs, SurveyPcs, TimePcs, FixedPcs,
     PollPcs, Pcs
<1>3. gps \in 1 .. configures
  <2>1. at \in EarlyPcs \union Subscribing \union {"save", "inf"}
    BY DEF LatePcs
  <2>2. gps > 0
    BY <2>1 DEF PathInv
  <2> QED BY <2>2 DEF Types
<1>4. Types'
  <2>1. Products' = Products /\ Receivers' = Receivers
    BY <1>1 DEF Products, Receivers
  <2>2. streams' \subseteq 1 .. configures
    BY <1>3 DEF Types
  <2> QED BY <1>1, <1>2, <2>1, <2>2 DEF Types
<1>5. PathInv'
  <2>1. at' \in EarlyPcs \union Subscribing \union {"save", "inf"} => part' > 0 /\ gps' > 0
    <3>1. at' \in EarlyPcs \union Subscribing \union {"save", "inf"} => at' # "up"
      BY DEF EarlyPcs, NodePcs, FirmwarePcs, SurveyPcs, TimePcs, FixedPcs, PollPcs, Subscribing
    <3> QED BY <1>1, <1>3, <3>1
  <2>2. at' \in {"save", "inf"} => part' = Len(products')
    OBVIOUS
  <2> QED BY <1>2, <2>1, <2>2 DEF PathInv
<1>6. ReachInv'
  BY <1>1 DEF ReachInv
<1>7. DoneInv'
  <2>1. Done = DOMAIN products /\ Done' \subseteq DOMAIN products
    <3>1. at \notin EarlyPcs
      BY LateDisjoint
    <3> QED BY <1>2, <3>1 DEF Done, LatePcs
  <2>2. SUFFICES ASSUME ~restarted, ~Unsettled', NEW i \in DOMAIN products PROVE Agrees(i)'
    BY <1>1, <2>1 DEF DoneInv
  <2>3. Agrees(i) /\ at \notin EarlyPcs
    BY <2>1, <2>2, LateDisjoint DEF DoneInv
  <2> QED BY <1>1, <1>2, <2>3 DEF Agrees, Keeps, Resets, SurveyKnown
<1>8. ReceiverInv'
  BY <1>1, <1>2 DEF ReceiverInv, PollPcs, FixedPcs
<1> QED BY <1>4, <1>5, <1>6, <1>7, <1>8

LEMMA SendSave ==
  ASSUME IInv, at = "save", NEW ok \in BOOLEAN, NEW taken \in BOOLEAN, Outcome(ok, taken)
  PROVE  IInv'
<1> USE DEF IInv
<1>1. at \in LatePcs /\ at \notin Subscribing \union {"hung"}
  BY DEF LatePcs, Subscribing
<1>2. at' = "pvt" /\ part' = 1
  BY <1>1, LateDisjoint, AfterMessageGoes DEF Outcome, Goes
<1>3. at' \in LatePcs /\ at' \in Subscribing /\ at' \notin EarlyPcs \union {"save", "inf", "up"}
  BY <1>2 DEF LatePcs, Subscribing, EarlyPcs, NodePcs, FirmwarePcs, SurveyPcs, TimePcs, FixedPcs,
     PollPcs
<1>4. part \in 1 .. Len(products) /\ 1 \in 0 .. Len(products)
  BY DEF Types, PathInv
<1>5. SameProducts /\ streams' = streams
  BY <1>1, <1>4, ProductsAfter DEF Outcome, SameProducts, ModeAfter
<1>6. UNCHANGED <<settings, gps, stuck, configures>>
  BY DEF Outcome
<1>7. Unsettled' = Unsettled
  BY <1>5, <1>6 DEF Unsettled, LeftWaiting, SameProducts, SameReferences
<1>8. Types' /\ PathInv' /\ ReachInv' /\ DoneInv' /\ ReceiverInv'
  BY <1>1, <1>2, <1>3, <1>4, <1>5, <1>7, LateKeeps DEF SameProducts, SameReferences
<1>9. PointersInv'
  <2>1. PICK g \in 0 .. configures : \A i \in DOMAIN products : products[i].gps \in {0, g}
    BY <1>1 DEF PointersInv
  <2>2. \A i \in DOMAIN products : i >= 1
    BY DEF Types
  <2> QED BY <1>2, <1>3, <1>5, <1>6, <2>1, <2>2 DEF PointersInv, SameProducts, SameReferences
<1>10. FreshInv'
  BY <1>3, <1>5, <1>6 DEF FreshInv, SameProducts, SameReferences
<1> QED BY <1>8, <1>9, <1>10

LEMMA SendPvt ==
  ASSUME IInv, at = "pvt", NEW ok \in BOOLEAN, NEW taken \in BOOLEAN, Outcome(ok, taken)
  PROVE  IInv'
<1> USE DEF IInv
<1>1. at \in LatePcs /\ at \in Subscribing
  BY DEF LatePcs, Subscribing
<1>2. at' = "svin" /\ part' = part
  BY <1>1, LateDisjoint, AfterMessageGoes DEF Outcome, Goes, Successor
<1>3. at' \in LatePcs /\ at' \in Subscribing /\ at' \notin EarlyPcs \union {"save", "inf", "up"}
  BY <1>2 DEF LatePcs, Subscribing, EarlyPcs, NodePcs, FirmwarePcs, SurveyPcs, TimePcs, FixedPcs,
     PollPcs
<1>4. part \in 1 .. Len(products)
  BY <1>1 DEF Types, PathInv
<1>5. products' = products /\ streams' \subseteq streams \union {gps}
  BY DEF Outcome, Subscribed
<1>6. UNCHANGED <<settings, gps, stuck, configures>>
  BY DEF Outcome
<1>7. Unsettled' = Unsettled
  BY <1>5, <1>6 DEF Unsettled, LeftWaiting
<1>8. Types' /\ PathInv' /\ ReachInv' /\ DoneInv' /\ ReceiverInv'
  <2>1. products' \in Seq(Products)
    BY <1>5 DEF Types
  <2>2. part' \in 0 .. Len(products) /\ part' > 0
    BY <1>2, <1>4
  <2> QED BY <1>1, <1>2, <1>3, <1>5, <1>7, <2>1, <2>2, LateKeeps
<1>9. PointersInv'
  BY <1>1, <1>2, <1>3, <1>5, <1>6 DEF PointersInv
<1>10. FreshInv'
  BY <1>3, <1>5, <1>6 DEF FreshInv
<1> QED BY <1>8, <1>9, <1>10

LEMMA SendInf ==
  ASSUME IInv, at = "inf", NEW ok \in BOOLEAN, NEW taken \in BOOLEAN, Outcome(ok, taken)
  PROVE  IInv'
<1> USE DEF IInv
<1>1. at \in LatePcs /\ at \notin Subscribing \union {"hung"}
  BY DEF LatePcs, Subscribing
<1>2. at' = "up" /\ part' = 0
  BY <1>1, LateDisjoint, AfterMessageGoes DEF Outcome, Goes
<1>3. at' \notin EarlyPcs \union Subscribing \union {"save", "inf"}
  BY <1>2 DEF Subscribing, EarlyPcs, NodePcs, FirmwarePcs, SurveyPcs, TimePcs, FixedPcs, PollPcs
<1>4. part \in 1 .. Len(products) /\ 0 \in 0 .. Len(products)
  BY DEF Types, PathInv
<1>5. SameProducts /\ streams' = streams
  BY <1>1, <1>4, ProductsAfter DEF Outcome, SameProducts, ModeAfter
<1>6. UNCHANGED <<settings, gps, stuck, configures>>
  BY DEF Outcome
<1>7. Unsettled' = Unsettled
  BY <1>5, <1>6 DEF Unsettled, LeftWaiting, SameProducts, SameReferences
<1>8. Types' /\ PathInv' /\ ReachInv' /\ DoneInv' /\ ReceiverInv'
  BY <1>1, <1>2, <1>4, <1>5, <1>7, LateKeeps DEF SameProducts, SameReferences
<1>9. PointersInv'
  BY <1>1, <1>3, <1>5, <1>6 DEF PointersInv, SameProducts, SameReferences
<1>10. FreshInv'
  BY <1>2, <1>3, <1>5, <1>6 DEF FreshInv, SameProducts, SameReferences
<1> QED BY <1>8, <1>9, <1>10

\* The product's own subscription moves its pointer to the new connection,
\* unless that would take the last pointer to a thread that waits for itself.
LEMMA SendSvin ==
  ASSUME IInv, at = "svin", NEW ok \in BOOLEAN, NEW taken \in BOOLEAN, Outcome(ok, taken),
         gps \notin stuck, Released(gps, PointedAt(gps))
  PROVE  IInv'
<1> USE DEF IInv
<1>1. at \in LatePcs /\ at \in Subscribing /\ at # "pvt"
  BY DEF LatePcs, Subscribing
<1>2. /\ part \in 1 .. Len(products) /\ gps \in 1 .. configures /\ gps \in 0 .. configures
      /\ DOMAIN products = 1 .. Len(products) /\ Len(products) \in Nat
  BY <1>1 DEF Types, PathInv
<1>3. \/ part < Len(products) /\ at' = "pvt" /\ part' = part + 1
      \/ part = Len(products) /\ at' = "inf" /\ part' = part
  BY <1>1, <1>2, LateDisjoint, AfterMessageGoes DEF Outcome, Goes
<1>4. at' \in LatePcs /\ at' \in Subscribing \union {"inf"} /\ at' \notin EarlyPcs \union {"save", "up"}
  BY <1>3 DEF LatePcs, Subscribing, EarlyPcs, NodePcs, FirmwarePcs, SurveyPcs, TimePcs, FixedPcs,
     PollPcs
<1>14. \/ part < Len(products) /\ part + 1 \in 0 .. Len(products) /\ part + 1 > 0
       \/ part = Len(products) /\ part \in 0 .. Len(products) /\ part > 0
  <2>1. part \in 0 .. Len(products) /\ Len(products) \in Nat /\ part > 0
    BY <1>1 DEF Types, PathInv
  <2> QED BY <2>1
<1>5. gps' = gps /\ stuck' = stuck /\ configures' = configures /\ streams' = streams
  BY <1>1 DEF Outcome, Subscribed
<1>11. products' = IF ok THEN Listening(gps) ELSE PointedAt(gps)
  BY <1>1 DEF Outcome, Subscribed, Listening
<1>6. /\ products' \in Seq(Products) /\ Len(products') = Len(products)
      /\ DOMAIN products' = DOMAIN products
      /\ \A i \in DOMAIN products :
           /\ products'[i].gps = IF i = part THEN gps ELSE products[i].gps
           /\ i # part => products'[i].listens = products[i].listens
           /\ products'[i].mode = products[i].mode
  <2>1. CASE ok
    <3>1. products' = Listening(gps)
      BY <1>11, <2>1
    <3>2. part > 0
      BY <1>2
    <3>3. /\ Listening(gps) \in Seq(Products) /\ Len(Listening(gps)) = Len(products)
          /\ DOMAIN Listening(gps) = DOMAIN products
      BY <1>2, <3>2, ListeningShape
    <3>4. \A i \in DOMAIN products :
           /\ Listening(gps)[i].gps = IF i = part THEN gps ELSE products[i].gps
           /\ i # part => Listening(gps)[i].listens = products[i].listens
           /\ Listening(gps)[i].mode = products[i].mode
      BY <1>2, <3>2, ListeningShape
    <3> QED BY <3>1, <3>3, <3>4
  <2>2. CASE ~ok
    <3>1. products' = PointedAt(gps)
      BY <1>11, <2>2
    <3> QED BY <1>2, <3>1, PointedAtShape
  <2> QED BY <2>1, <2>2
<1>7. Unsettled => Unsettled'
  <2>0. CASE settings.extraSignals /\ Len(products) > 1
    BY <1>6, <2>0 DEF Unsettled, Outcome
  <2>1. SUFFICES ASSUME ~(settings.extraSignals /\ Len(products) > 1),
                        NEW i \in DOMAIN products, products[i].gps \in stuck \ {gps}
                 PROVE  \E j \in DOMAIN products : j # part /\ products[j].gps \in stuck \ {gps}
    BY <1>5, <1>6, <2>0 DEF Unsettled, LeftWaiting
  <2>2. products[i].gps # 0
    BY <2>1 DEF Types
  <2>3. products[i].gps \in Held
    BY <2>1, <2>2 DEF Held, HeldBy
  <2>4. products[i].gps \in HeldBy(gps, PointedAt(gps))
    BY <2>1, <2>3 DEF Released
  <2>5. PICK j \in DOMAIN PointedAt(gps) : PointedAt(gps)[j].gps = products[i].gps
    BY <2>1, <2>4 DEF HeldBy
  <2>6. j \in DOMAIN products /\ j # part /\ products[j].gps = products[i].gps
    BY <1>2, <2>1, <2>5, PointedAtShape
  <2> QED BY <2>1, <2>6
<1>8. Types' /\ PathInv' /\ ReachInv' /\ DoneInv' /\ ReceiverInv'
  <2>1. /\ part' \in 0 .. Len(products) /\ part' > 0 /\ streams' \subseteq streams \union {gps}
        /\ (at' \in {"save", "inf"} => part' = Len(products))
    <3>1. part' \in 0 .. Len(products) /\ part' > 0
      BY <1>3, <1>14
    <3>2. at' \in {"save", "inf"} => part' = Len(products)
      BY <1>3
    <3> QED BY <1>5, <3>1, <3>2
  <2> QED BY <1>1, <1>4, <1>6, <1>7, <2>1, LateKeeps
<1>9. PointersInv'
  <2>1. PICK g \in 0 .. configures :
          \A i \in DOMAIN products : IF i < part THEN products[i].gps = gps
                                                ELSE products[i].gps \in {0, g}
    BY <1>1 DEF PointersInv
  <2>2. \A i \in DOMAIN products : IF i <= part THEN products'[i].gps = gps
                                               ELSE products'[i].gps \in {0, g}
    BY <1>2, <1>6, <2>1
  <2>3. CASE part < Len(products)
    <3>1. part' = part + 1 /\ at' = "pvt"
      BY <1>3, <2>3
    <3>2. \A i \in DOMAIN products' : IF i < part' THEN products'[i].gps = gps
                                                  ELSE products'[i].gps \in {0, g}
      BY <1>2, <1>6, <2>2, <3>1
    <3> QED BY <1>4, <1>5, <3>1, <3>2 DEF PointersInv, Subscribing
  <2>4. CASE part = Len(products)
    <3>1. \A i \in DOMAIN products' : products'[i].gps = gps
      BY <1>2, <1>6, <2>2, <2>4
    <3>2. at' = "inf" /\ at' \notin Subscribing
      BY <1>3, <2>4 DEF Subscribing
    <3>3. /\ gps \in 0 .. configures /\ configures' = configures /\ gps' = gps
          /\ \A i \in DOMAIN products' : /\ products'[i].gps \in {0, gps}
                                        /\ products'[i].gps \in {0, gps, gps'}
      BY <1>2, <1>5, <3>1
    <3> QED BY <3>1, <3>2, <3>3 DEF PointersInv
  <2> QED BY <1>14, <2>3, <2>4
<1>10. FreshInv'
  BY <1>2, <1>4, <1>5, <1>6 DEF FreshInv
<1> QED BY <1>8, <1>9, <1>10

LEMMA SendOutcome ==
  ASSUME IInv, Send
  PROVE  \/ /\ Hang
            /\ UNCHANGED <<settings, receiver, configures, failures, restarts, restarted>>
         \/ /\ at \in Messages /\ gps \notin stuck
            /\ at = "svin" => Released(gps, PointedAt(gps))
            /\ \E ok \in BOOLEAN, taken \in BOOLEAN : Outcome(ok, taken)
<1> USE DEF IInv
<1>1. UNCHANGED <<settings, configures, restarts, restarted>> /\ at \in Messages
  BY DEF Send
<1>2. CASE gps \in stuck \/ (at = "svin" /\ ~Released(gps, PointedAt(gps)))
  BY <1>1, <1>2 DEF Send
<1>3. CASE ~(gps \in stuck \/ (at = "svin" /\ ~Released(gps, PointedAt(gps))))
  <2>1. PICK ok \in BOOLEAN, taken \in BOOLEAN :
          /\ ok => taken
          /\ Spends(ok)
          /\ receiver' = IF taken THEN Effect(at, receiver) ELSE receiver
          /\ Subscribed(ok)
          /\ IF ok \/ at \in Tolerated THEN AfterMessage(at) ELSE Refused
          /\ UNCHANGED <<gps, stuck>>
    BY <1>3 DEF Send
  <2>2. failures' \in 0 .. MaxFailures
    BY <2>1, SpendsType
  <2>3. Outcome(ok, taken)
    BY <1>1, <2>1, <2>2 DEF Outcome
  <2> QED BY <1>1, <1>3, <2>3
<1> QED BY <1>2, <1>3

LEMMA SendKeeps ==
  ASSUME IInv, Send
  PROVE  IInv'
<1>1. CASE /\ Hang
           /\ UNCHANGED <<settings, receiver, configures, failures, restarts, restarted>>
  <2>1. /\ configures' \in 0 .. MaxConfigures /\ configures <= configures'
        /\ failures' \in 0 .. MaxFailures
    BY <1>1, ConstantTypes DEF IInv, Types
  <2> QED BY <1>1, <2>1, HangKeeps
<1>2. ASSUME at \in Messages, gps \notin stuck, at = "svin" => Released(gps, PointedAt(gps)),
             NEW ok \in BOOLEAN, NEW taken \in BOOLEAN, Outcome(ok, taken)
      PROVE  IInv'
  <2>1. \/ at \in PlainPcs
        \/ at \in {"survey_rate", "pause", "survey", "time_rate", "time_rtcm", "fix", "fixed_rtcm",
                  "disable", "save", "pvt", "svin", "inf"}
    BY <1>2 DEF Messages, PlainPcs, NodePcs
  <2>2. CASE ~ok /\ at \notin Tolerated
    <3>1. at \in EarlyPcs
      BY <1>2, <2>2 DEF Messages, Tolerated, EarlyPcs, NodePcs, FirmwarePcs, SurveyPcs, TimePcs,
         FixedPcs
    <3> QED BY <1>2, <2>2, <3>1, SendRefused
  <2>3. CASE ok \/ at \in Tolerated
    <3>1. CASE at \in PlainPcs
      BY <1>2, <2>3, <3>1, SendPlain
    <3>2. CASE at \in {"survey_rate", "survey", "fix", "fixed_rtcm", "disable"}
      <4>1. ok
        BY <2>3, <3>2 DEF Tolerated
      <4>2. at = "survey_rate" => IInv'
        BY <1>2, <4>1, SendSurveyRate
      <4>3. at = "survey" => IInv'
        BY <1>2, <4>1, SendSurvey
      <4>4. at = "fix" => IInv'
        BY <1>2, <4>1, SendFix
      <4>5. at = "fixed_rtcm" => IInv'
        BY <1>2, <4>1, SendFixedRtcm
      <4>6. at = "disable" => IInv'
        BY <1>2, <4>1, SendDisable
      <4> QED BY <3>2, <4>2, <4>3, <4>4, <4>5, <4>6
    <3>3. CASE at = "pause"
      BY <1>2, <3>3, SendPause
    <3>4. CASE at = "time_rate"
      BY <1>2, <3>4, SendTimeRate
    <3>5. CASE at = "time_rtcm"
      BY <1>2, <3>5, SendTimeRtcm
    <3>6. CASE at = "save"
      BY <1>2, <3>6, SendSave
    <3>7. CASE at = "pvt"
      BY <1>2, <3>7, SendPvt
    <3>8. CASE at = "svin"
      BY <1>2, <3>8, SendSvin
    <3>9. CASE at = "inf"
      BY <1>2, <3>9, SendInf
    <3> QED BY <2>1, <3>1, <3>2, <3>3, <3>4, <3>5, <3>6, <3>7, <3>8, <3>9
  <2> QED BY <2>2, <2>3
<1> QED BY <1>1, <1>2, SendOutcome

-----------------------------------------------------------------------------
(* The constellations, and the cold start that goes with them.             *)

LEMMA ColdStartedType ==
  ASSUME NEW r \in Receivers, NEW c \in ColdStarted(r)
  PROVE  /\ c \in Receivers /\ c.rtcm = r.rtcm /\ c.gnss = r.gnss
         /\ \/ c.tmode = r.tmode
            \/ r.tmode \in {"surveying", "surveyed"} /\ c.tmode \in {"off", "surveying"}
<1>1. CASE c = r
  BY <1>1
<1>2. CASE c # r
  <2>1. r.tmode \in {"surveying", "surveyed"}
    BY <1>2 DEF ColdStarted
  <2>2. PICK t \in {"off", "surveying"} : c = [r EXCEPT !.tmode = t]
    BY <1>2, <2>1 DEF ColdStarted
  <2> QED BY <2>1, <2>2 DEF Receivers
<1> QED BY <1>1, <1>2

\* A survey is lost to a cold start only in a receiver that had restarted, or
\* whose signals the driver cannot make agree.
LEMMA SendGnssKeeps ==
  ASSUME IInv, GnssInv, SendGnss
  PROVE  IInv'
<1> USE DEF IInv
<1> DEFINE configured == Effect("gnss", receiver)
<1>1. PICK acked \in BOOLEAN, reopened \in BOOLEAN :
        /\ Spends(acked /\ reopened)
        /\ receiver' \in IF acked THEN ColdStarted(configured) ELSE {receiver, configured}
        /\ IF acked /\ reopened THEN AfterMessage("gnss") ELSE Refused
  BY DEF SendGnss
<1>2. /\ at = "gnss" /\ at \in Messages /\ at \in PlainPcs /\ at \in EarlyPcs \ TimePcs
      /\ UNCHANGED <<settings, gps, products, stuck, streams, configures, restarts, restarted>>
  BY DEF SendGnss, Messages, PlainPcs, EarlyPcs, FirmwarePcs, TimePcs
<1>3. failures' \in 0 .. MaxFailures
  BY <1>1, SpendsType
<1>4. /\ receiver \in Receivers /\ configured \in Receivers /\ configured.tmode = receiver.tmode
      /\ configured.rtcm = receiver.rtcm
  <2>1. receiver \in Receivers /\ receiver.rtcm \in BOOLEAN
    BY DEF Types, Receivers
  <2> QED BY <2>1, EffectFields
<1> HIDE DEF configured
<1>5. /\ receiver' \in Receivers /\ receiver'.rtcm = receiver.rtcm
      /\ \/ receiver'.tmode = receiver.tmode
         \/ receiver.tmode \in {"surveying", "surveyed"} /\ receiver'.tmode \in {"off", "surveying"}
  <2>1. CASE acked
    BY <1>1, <1>4, <2>1, ColdStartedType
  <2>2. CASE ~acked
    BY <1>1, <1>4, <2>2
  <2> QED BY <2>1, <2>2
<1>6. settings.extraSignals \/ ~receiver.gnss
  BY <1>2 DEF SendGnss, Skips
<1>7. settings.tmode3 \in {"disabled", "fixed", "survey_in"} /\ settings.extraSignals \in BOOLEAN
  BY SetupAssumption DEF Types
<1>8. ReachInv'
  BY <1>2, <1>5, <1>7 DEF ReachInv
<1>9. RtcmKnown'
  <2>1. CASE receiver'.tmode = receiver.tmode
    BY <1>2, <1>5, <2>1 DEF RtcmKnown, ReceiverInv
  <2>2. CASE receiver'.tmode # receiver.tmode
    BY <1>2, <1>5, <1>6, <2>2 DEF RtcmKnown, GnssInv
  <2> QED BY <2>1, <2>2
<1>10. CASE ~(acked /\ reopened)
  BY <1>1, <1>2, <1>3, <1>5, <1>8, <1>9, <1>10, RefuseKeeps
<1>11. CASE acked /\ reopened
  <2>1. Goes(at)
    BY <1>1, <1>2, <1>11, AfterMessageGoes
  <2>2. /\ at' = "nmea" /\ part' = part /\ PathInv'
        /\ at' \in (NodePcs \union FirmwarePcs) \ (TimePcs \union {"fixed_rtcm"}) /\ at' \in EarlyPcs
    BY <1>2, <2>1, PlainGoes DEF Goes, Successor
  <2>3. at' \notin SurveyPcs \union TimePcs \union PollPcs \union FixedPcs
    BY <2>2 DEF SurveyPcs, TimePcs, PollPcs, FixedPcs
  <2>4. SameReferences /\ part \in 1 .. Len(products)
    BY <1>2 DEF SameReferences, Types, PathInv
  <2>5. Types' /\ PointersInv' /\ FreshInv' /\ Unsettled' = Unsettled
    BY <1>2, <1>3, <1>5, <2>2, <2>4, ConfiguringKeeps
  <2>6. ReceiverInv'
    BY <1>9, <2>3 DEF ReceiverInv, RtcmKnown, PollPcs, FixedPcs
  <2>7. DoneInv'
    <3>1. Done' = Done /\ Done = {i \in DOMAIN products : i < part}
      BY <1>2, <2>2, <2>3 DEF Done
    <3>2. SUFFICES ASSUME ~restarted, ~Unsettled, NEW i \in DOMAIN products, i < part
                   PROVE  Agrees(i)'
      BY <1>2, <2>5, <3>1 DEF DoneInv
    <3>3. part > 1 /\ Len(products) > 1
      BY <2>4, <3>2
    <3>4. ~settings.extraSignals
      BY <3>2, <3>3 DEF Unsettled
    <3>5. receiver.gnss
      BY <1>2, <3>2, <3>3 DEF GnssInv, Behind
    <3> QED BY <1>6, <3>4, <3>5
  <2> QED BY <1>8, <2>2, <2>5, <2>6, <2>7
<1> QED BY <1>10, <1>11

\* Nobody gets behind CFG-GNSS but from behind it, or by it.
LEMMA BehindBefore ==
  ASSUME IInv, at \in Messages \ {"gnss"}, Goes(at), Behind'
  PROVE  Behind
<1>1. CASE at \in NodePcs \union {"bbr"}
  <2>1. at' \in NodePcs \union {"bbr", "poll_gnss"} /\ part' = part /\ at \in EarlyPcs
    BY <1>1 DEF Goes, Successor, NodePcs, EarlyPcs, FirmwarePcs
  <2>2. at' \notin BehindGnss
    BY <2>1 DEF BehindGnss, NodePcs, SurveyPcs, TimePcs, FixedPcs, PollPcs
  <2> QED BY <2>1, <2>2 DEF Behind
<1>2. CASE at \in LatePcs
  <2>1. at' \in LatePcs \union {"up"}
    BY <1>2 DEF Goes, Successor, LatePcs, Subscribing
  <2>2. at' \notin BehindGnss /\ at' \notin EarlyPcs
    BY <2>1 DEF LatePcs, Subscribing, BehindGnss, EarlyPcs, NodePcs, FirmwarePcs, SurveyPcs,
       TimePcs, FixedPcs, PollPcs
  <2> QED BY <2>2 DEF Behind
<1>3. CASE at \notin NodePcs \union {"bbr"} \union LatePcs
  <2>1. at \in BehindGnss
    BY <1>3 DEF Messages, NodePcs, LatePcs, Subscribing, BehindGnss, SurveyPcs, TimePcs, FixedPcs
  <2> QED BY <2>1 DEF Behind
<1> QED BY <1>1, <1>2, <1>3

LEMMA NotBehind ==
  ASSUME at' \in {"unconfigured", "hung", "up"}
  PROVE  ~Behind'
BY DEF Behind, BehindGnss, EarlyPcs, NodePcs, FirmwarePcs, SurveyPcs, TimePcs, FixedPcs, PollPcs

\* Before CFG-GNSS no message concerns the survey or the corrections.
LEMMA HarmlessBefore ==
  ASSUME at \in Messages \ BehindGnss
  PROVE  at \notin {"pause", "disable", "fix", "survey", "time_rtcm", "fixed_rtcm"}
BY DEF BehindGnss, SurveyPcs, TimePcs, FixedPcs

LEMMA SendKeepsGnss ==
  ASSUME IInv, GnssInv, Send
  PROVE  GnssInv'
<1>1. CASE Hang /\ UNCHANGED <<receiver, restarts>>
  <2>1. ~Behind'
    BY <1>1, NotBehind DEF Hang
  <2> QED BY <1>1, <2>1 DEF GnssInv
<1>2. ASSUME at \in Messages, NEW ok \in BOOLEAN, NEW taken \in BOOLEAN, Outcome(ok, taken)
      PROVE  GnssInv'
  <2>1. receiver \in Receivers /\ (restarted => restarts > 0)
    BY DEF IInv, Types
  <2>2. UNCHANGED <<restarts, restarted>>
    BY <1>2 DEF Outcome
  <2>3. receiver.gnss => receiver'.gnss
    BY <1>2, <2>1, EffectFields DEF Outcome
  <2>4. Behind' => Behind
    <3>1. CASE Refused
      BY <3>1, NotBehind DEF Refused
    <3>2. CASE AfterMessage(at)
      <4>1. Goes(at)
        BY <1>2, <3>2, AfterMessageGoes DEF IInv
      <4>2. at # "gnss"
        BY DEF Send
      <4> QED BY <1>2, <4>1, <4>2, BehindBefore
    <3> QED BY <1>2, <3>1, <3>2 DEF Outcome
  <2>5. restarts = 0 /\ ~receiver.gnss => receiver'.tmode = "off" /\ ~receiver'.rtcm
    <3>1. SUFFICES ASSUME restarts = 0, ~receiver.gnss
                   PROVE  receiver'.tmode = "off" /\ ~receiver'.rtcm
      OBVIOUS
    <3>2. receiver.tmode = "off" /\ ~receiver.rtcm /\ ~Behind
      BY <2>1, <3>1 DEF GnssInv
    <3>3. at \notin {"pause", "disable", "fix", "survey", "time_rtcm", "fixed_rtcm"}
      BY <1>2, <3>2, HarmlessBefore DEF Behind
    <3>4. Effect(at, receiver).tmode = receiver.tmode /\ ~Effect(at, receiver).rtcm
      BY <2>1, <3>2, <3>3, EffectFields
    <3> QED BY <1>2, <3>2, <3>4 DEF Outcome
  <2> QED BY <2>2, <2>3, <2>4, <2>5 DEF GnssInv
<1> QED BY <1>1, <1>2, SendOutcome

LEMMA SkipKeepsGnss ==
  ASSUME IInv, GnssInv, Skip
  PROVE  GnssInv'
<1>1. UNCHANGED <<receiver, restarts, restarted>> /\ at \in Messages
  BY DEF Skip, Bounds
<1>2. CASE at = "gnss"
  <2>1. "gnss" \notin settings.skips
    <3>1. settings \in Settings
      BY DEF IInv, Types
    <3>2. settings.skips \subseteq {"load", "io", "usb", "sbas", "datum", "bbr", "nmea"}
      BY <3>1, SetupAssumption
    <3> QED BY <3>2
  <2>2. receiver.gnss
    BY <1>2, <2>1 DEF Skip, Skips
  <2> QED BY <1>1, <2>2 DEF GnssInv
<1>3. CASE at # "gnss"
  <2>1. Goes(at)
    BY <1>1, AfterMessageGoes DEF Skip, IInv
  <2>2. Behind' => Behind
    BY <1>1, <1>3, <2>1, BehindBefore
  <2> QED BY <1>1, <2>2 DEF GnssInv
<1> QED BY <1>2, <1>3

LEMMA SendGnssKeepsGnss ==
  ASSUME IInv, GnssInv, SendGnss
  PROVE  GnssInv'
<1> DEFINE configured == Effect("gnss", receiver)
<1>1. PICK acked \in BOOLEAN, reopened \in BOOLEAN :
        /\ receiver' \in IF acked THEN ColdStarted(configured) ELSE {receiver, configured}
        /\ IF acked /\ reopened THEN AfterMessage("gnss") ELSE Refused
  BY DEF SendGnss
<1>2. UNCHANGED <<restarts, restarted>>
  BY DEF SendGnss
<1>3. configured \in Receivers /\ configured.gnss
  BY EffectFields DEF IInv, Types
<1> HIDE DEF configured
<1>4. CASE acked
  <2>1. receiver'.gnss
    BY <1>1, <1>3, <1>4, ColdStartedType
  <2> QED BY <2>1 DEF GnssInv
<1>5. CASE ~acked
  <2>1. ~Behind'
    BY <1>1, <1>5, NotBehind DEF Refused
  <2>2. receiver' = receiver \/ receiver'.gnss
    BY <1>1, <1>3, <1>5
  <2> QED BY <1>2, <2>1, <2>2 DEF GnssInv
<1> QED BY <1>4, <1>5

\* The steps that leave the receiver alone.
LEMMA PathKeepsGnss ==
  ASSUME IInv, GnssInv, Configure \/ PollGnss \/ BeginProduct \/ PollSvin \/ PollPvt \/ Recover
  PROVE  GnssInv'
<1>1. UNCHANGED <<receiver, restarts>>
  BY DEF Configure, PollGnss, BeginProduct, PollSvin, PollPvt, Recover, Bounds
<1>2. CASE Configure
  <2>1. at' \in {"hung", "unconfigured"} \/ (at' = "load" /\ part' = 1)
    BY <1>2 DEF Configure, Hang
  <2>2. ~Behind'
    <3>1. CASE at' \in {"hung", "unconfigured"}
      BY <3>1, NotBehind
    <3>2. CASE at' = "load" /\ part' = 1
      BY <3>2 DEF Behind, BehindGnss, SurveyPcs, TimePcs, FixedPcs, PollPcs
    <3> QED BY <2>1, <3>1, <3>2
  <2> QED BY <1>1, <2>2 DEF GnssInv
<1>3. CASE Recover
  <2>1. ~Behind'
    BY <1>3, NotBehind DEF Recover, Hang
  <2> QED BY <1>1, <2>1 DEF GnssInv
<1>4. CASE PollGnss
  <2>1. at' = "up" \/ (at' = "gnss" /\ part' = part /\ at = "poll_gnss")
    BY <1>4 DEF PollGnss, GoTo, Refused
  <2>2. Behind' => Behind
    <3>1. CASE at' = "up"
      BY <3>1, NotBehind
    <3>2. CASE at' = "gnss" /\ part' = part /\ at = "poll_gnss"
      BY <3>2 DEF Behind, BehindGnss, SurveyPcs, TimePcs, FixedPcs, PollPcs, EarlyPcs, FirmwarePcs
    <3> QED BY <2>1, <3>1, <3>2
  <2>3. restarted' = restarted
    BY <1>4 DEF PollGnss
  <2> QED BY <1>1, <2>2, <2>3 DEF GnssInv
<1>5. CASE BeginProduct \/ PollSvin \/ PollPvt
  <2>1. Behind /\ restarted' = restarted
    BY <1>5 DEF BeginProduct, PollSvin, PollPvt, Bounds, Behind, BehindGnss, PollPcs
  <2> QED BY <1>1, <2>1 DEF GnssInv
<1> QED BY <1>2, <1>3, <1>4, <1>5

\* The steps that leave the executor alone.
LEMMA ReceiverKeepsGnss ==
  ASSUME IInv, GnssInv, IoThreads \/ FinishSurvey \/ Restart
  PROVE  GnssInv'
<1>0. receiver \in Receivers /\ restarts \in Nat
  BY DEF IInv, Types
<1>1. CASE IoThreads
  <2>1. PICK g \in Held, p \in DOMAIN products : NavSvIn(g, p)
    BY <1>1 DEF IoThreads
  <2>2. /\ UNCHANGED <<at, part, restarts, restarted>> /\ receiver.tmode = "surveyed"
        /\ receiver' \in {receiver, Effect("time_rate", receiver),
                         Effect("time_rtcm", Effect("time_rate", receiver))}
    BY <2>1 DEF NavSvIn, Bounds
  <2>3. Effect("time_rate", receiver) \in Receivers
          /\ Effect("time_rate", receiver).gnss = receiver.gnss
    BY <1>0, EffectFields DEF Receivers
  <2>4. Effect("time_rtcm", Effect("time_rate", receiver)).gnss = receiver.gnss
    BY <1>0, <2>3, EffectFields DEF Receivers
  <2>5. receiver'.gnss = receiver.gnss /\ (Behind' = Behind)
    BY <2>2, <2>3, <2>4 DEF Behind
  <2> QED BY <2>2, <2>5 DEF GnssInv
<1>2. CASE FinishSurvey
  <2>1. /\ UNCHANGED <<at, part, restarts, restarted>> /\ receiver.tmode = "surveying"
        /\ receiver'.gnss = receiver.gnss
    BY <1>0, <1>2 DEF FinishSurvey, Bounds, Receivers
  <2>2. Behind' = Behind
    BY <2>1 DEF Behind
  <2> QED BY <2>1, <2>2 DEF GnssInv
<1>3. CASE Restart
  BY <1>0, <1>3 DEF Restart, GnssInv
<1> QED BY <1>1, <1>2, <1>3

-----------------------------------------------------------------------------
(* The invariant, and what follows from it.                                *)

LEMMA InitInv ==
  ASSUME Init
  PROVE  IInv /\ GnssInv
<1> USE DEF Init
<1>1. at \notin EarlyPcs \union Subscribing \union {"save", "inf", "up", "hung"}
  BY DEF EarlyPcs, NodePcs, FirmwarePcs, SurveyPcs, TimePcs, FixedPcs, PollPcs, Subscribing
<1>2. at \notin SurveyPcs \union TimePcs \union FixedPcs \union PollPcs \union {"disable"}
  BY DEF SurveyPcs, TimePcs, FixedPcs, PollPcs
<1>3. Types
  <2>1. receiver \in Receivers
    BY DEF Factory, Receivers
  <2>2. products \in Seq(Products) /\ Len(products) = 0
    OBVIOUS
  <2>3. restarted \in BOOLEAN /\ (restarted => restarts > 0)
    OBVIOUS
  <2>4. /\ gps \in 0 .. configures /\ stuck \subseteq 1 .. configures
        /\ streams \subseteq 1 .. configures /\ configures \in 0 .. MaxConfigures
        /\ failures \in 0 .. MaxFailures /\ restarts \in 0 .. MaxRestarts
    BY ConstantTypes
  <2>5. settings \in Settings /\ at \in Pcs /\ part \in 0 .. Len(products)
    BY <2>2 DEF Pcs
  <2> QED BY <2>1, <2>2, <2>3, <2>4, <2>5 DEF Types
<1>4. DOMAIN products = {}
  OBVIOUS
<1>5. PathInv
  BY <1>1, <1>2 DEF PathInv
<1>6. ReachInv
  BY <1>4 DEF ReachInv, Factory
<1>7. PointersInv
  <2>1. 0 \in 0 .. configures
    OBVIOUS
  <2> QED BY <1>1, <1>4, <2>1 DEF PointersInv
<1>8. FreshInv
  BY <1>1, <1>4 DEF FreshInv
<1>9. DoneInv
  <2>1. Done = {}
    BY <1>1 DEF Done
  <2> QED BY <2>1 DEF DoneInv
<1>10. ReceiverInv
  BY <1>2 DEF ReceiverInv, Factory, FixedPcs, PollPcs
<1>11. GnssInv
  <2>1. at \notin BehindGnss
    BY <1>2 DEF BehindGnss
  <2> QED BY <1>1, <2>1 DEF GnssInv, Behind, Factory
<1> QED BY <1>3, <1>5, <1>6, <1>7, <1>8, <1>9, <1>10, <1>11 DEF IInv

LEMMA StepInv ==
  ASSUME IInv, GnssInv, [Next]_vars
  PROVE  IInv' /\ GnssInv'
<1>1. CASE Configure
  BY <1>1, ConfigureKeeps, PathKeepsGnss
<1>2. CASE Skip
  BY <1>2, SkipKeeps, SkipKeepsGnss
<1>3. CASE Send
  BY <1>3, SendKeeps, SendKeepsGnss
<1>4. CASE PollGnss
  BY <1>4, PollGnssKeeps, PathKeepsGnss
<1>5. CASE BeginProduct
  BY <1>5, BeginProductKeeps, PathKeepsGnss
<1>6. CASE PollSvin
  BY <1>6, PollSvinKeeps, PathKeepsGnss
<1>7. CASE PollPvt
  BY <1>7, PollPvtKeeps, PathKeepsGnss
<1>8. CASE Recover
  BY <1>8, RecoverKeeps, PathKeepsGnss
<1>9. CASE IoThreads
  BY <1>9, NavSvInKeeps, ReceiverKeepsGnss DEF IoThreads
<1>10. CASE FinishSurvey
  BY <1>10, FinishSurveyKeeps, ReceiverKeepsGnss
<1>11. CASE Restart
  BY <1>11, RestartKeeps, ReceiverKeepsGnss
<1>13. CASE SendGnss
  BY <1>13, SendGnssKeeps, SendGnssKeepsGnss
<1>12. CASE UNCHANGED vars
  <2> USE <1>12 DEF vars
  <2>1. Types'
    <3>1. Products' = Products /\ Receivers' = Receivers
      BY DEF Products, Receivers
    <3> QED BY <3>1 DEF IInv, Types
  <2>2. PathInv' /\ ReachInv' /\ PointersInv' /\ FreshInv' /\ ReceiverInv'
    BY DEF IInv, PathInv, ReachInv, PointersInv, FreshInv, ReceiverInv, Keeps
  <2>3. DoneInv'
    <3>1. Done' = Done /\ Unsettled' = Unsettled
      BY DEF Done, Unsettled, LeftWaiting
    <3>2. ASSUME NEW i, Agrees(i) PROVE Agrees(i)'
      BY <3>2 DEF Agrees, Keeps, Resets, SurveyKnown
    <3> QED BY <3>1, <3>2 DEF IInv, DoneInv
  <2>4. GnssInv'
    BY DEF GnssInv, Behind
  <2> QED BY <2>1, <2>2, <2>3, <2>4 DEF IInv
<1> QED
  BY <1>1, <1>2, <1>3, <1>4, <1>5, <1>6, <1>7, <1>8, <1>9, <1>10, <1>11, <1>12, <1>13
  DEF Next, Executor

LEMMA Invariance == Spec => [](IInv /\ GnssInv)
<1>1. Init => IInv /\ GnssInv
  BY InitInv
<1>2. IInv /\ GnssInv /\ [Next]_vars => (IInv /\ GnssInv)'
  BY StepInv
<1> QED BY <1>1, <1>2, PTL DEF Spec

\* The executor, the products, the receiver and the counters stay within
\* their ranges.
THEOREM TypeCorrect == Spec => []TypeOK
<1>1. IInv => TypeOK
  <2> SUFFICES ASSUME IInv PROVE TypeOK
    OBVIOUS
  <2>1. Types /\ MaxConfigures \in Nat
    BY ConstantTypes DEF IInv
  <2>2. configures \in 0 .. MaxConfigures
    BY <2>1 DEF Types
  <2>3. 0 .. configures \subseteq 0 .. MaxConfigures /\ 1 .. configures \subseteq 1 .. MaxConfigures
    BY <2>1, <2>2
  <2>4. \A i \in DOMAIN products :
          /\ products[i].mode \in Modes
          /\ products[i].gps \in 0 .. MaxConfigures
          /\ products[i].listens \subseteq 1 .. MaxConfigures
    <3>1. \A i \in DOMAIN products : products[i] \in Products
      BY <2>1 DEF Types
    <3> QED BY <2>3, <3>1 DEF Products
  <2>5. at \in {"unconfigured", "up", "hung", "poll_gnss", "product", "poll_svin", "poll_pvt"}
               \union Messages
    BY <2>1 DEF Types, Pcs, EarlyPcs, NodePcs, FirmwarePcs, SurveyPcs, TimePcs, FixedPcs, PollPcs,
       Subscribing, Messages
  <2>6. /\ receiver.tmode \in {"off", "surveying", "surveyed", "fixed"}
        /\ receiver.rate \in {"default", "user", "1Hz"}
    BY <2>1 DEF Types, Receivers
  <2> QED BY <2>1, <2>2, <2>3, <2>4, <2>5, <2>6 DEF Types, TypeOK
<1> QED BY <1>1, Invariance, PTL

\* Of a configuration that was not refused, and until the receiver restarts,
\* every product reports the mode that the receiver is in: the survey's end
\* reaches all of them, through whatever connection it is noticed, and no cold
\* start comes between two of them if the QZSS signals agree.
THEOREM ModesAlwaysAgree == Spec => []ModesAgree
<1>1. IInv => ModesAgree
  <2> SUFFICES ASSUME IInv, at = "up", gps \in streams, ~restarted,
                      settings.extraSignals => Len(products) = 1, NEW i \in DOMAIN products
               PROVE  CASE products[i].mode = "time"      -> receiver.tmode \in {"surveyed", "fixed"}
                        [] products[i].mode = "survey_in" -> receiver.tmode \in {"surveying", "surveyed"}
                        [] products[i].mode = "disabled"  -> receiver.tmode = "off"
                        [] products[i].mode = "fixed"     -> receiver.tmode = "fixed" /\ receiver.rtcm
                        [] products[i].mode = "init"      -> FALSE
    BY DEF ModesAgree
  <2>1. at \notin EarlyPcs
    BY DEF EarlyPcs, NodePcs, FirmwarePcs, SurveyPcs, TimePcs, FixedPcs, PollPcs
  <2>2. Done = DOMAIN products
    BY <2>1 DEF Done
  <2>3. ~Unsettled
    BY DEF IInv, PointersInv, Unsettled, LeftWaiting, Types
  <2>4. Agrees(i)
    BY <2>2, <2>3 DEF IInv, DoneInv
  <2>5. settings.tmode3 \in {"disabled", "fixed", "survey_in"} /\ settings.reset \in BOOLEAN
    BY SetupAssumption DEF IInv, Types
  <2>6. CASE settings.tmode3 = "disabled"
    BY <2>4, <2>6 DEF Agrees, IInv, ReachInv
  <2>7. CASE settings.tmode3 = "fixed"
    BY <2>4, <2>7 DEF Agrees
  <2>8. CASE settings.tmode3 = "survey_in"
    BY <2>1, <2>4, <2>5, <2>8 DEF Agrees, Keeps, Resets, SurveyKnown
  <2> QED BY <2>5, <2>6, <2>7, <2>8
<1> QED BY <1>1, Invariance, PTL

\* Besides the node's own connection at most one is open, however often the
\* driver was configured.
THEOREM OneLeftOverAtMost == Spec => []OneConnectionLeftOver
<1>1. IInv => OneConnectionLeftOver
  <2> SUFFICES ASSUME IInv PROVE OneConnectionLeftOver
    OBVIOUS
  <2>1. PICK g : \A i \in DOMAIN products : products[i].gps \in {0, g, gps}
    BY DEF IInv, PointersInv
  <2>2. Held \ {gps} \subseteq {g}
    BY <2>1 DEF Held, HeldBy
  <2>3. IsFiniteSet({g}) /\ Cardinality({g}) = 1
    BY FS_Singleton
  <2>4. Cardinality(Held \ {gps}) <= 1
    BY <2>2, <2>3, FS_Subset
  <2> QED BY <2>4 DEF OneConnectionLeftOver
<1> QED BY <1>1, Invariance, PTL

\* Corrections are sent only from a position that is known, unless every start
\* resets the survey, the receiver restarted or is cold started every time.
THEOREM CorrectionsAlwaysHavePosition == Spec => []CorrectionsHavePosition
<1>1. IInv => CorrectionsHavePosition
  BY DEF IInv, ReceiverInv, CorrectionsHavePosition
<1> QED BY <1>1, Invariance, PTL

\* Without sv_in.reset no configuration throws a survey or its position away, the
\* cold start of CFG-GNSS included, once the receiver has the constellations of the
\* parameters and no more QZSS signals than they ask for.
THEOREM SurveyAlwaysKept == Spec => SurveyKept
<1> DEFINE Safe == /\ settings.tmode3 = "survey_in" /\ ~settings.reset
                   /\ receiver.gnss /\ ~settings.extraSignals
<1>1. IInv /\ [Next]_vars => [Safe => SurveyGoesOn \/ restarts' # restarts]_vars
  <2> SUFFICES ASSUME IInv, Next, Safe, ~SurveyGoesOn, restarts' = restarts PROVE FALSE
    BY DEF vars
  <2>1. Keeps /\ receiver \in Receivers /\ restarts \in Nat
    BY DEF Keeps, IInv, Types
  <2>2. receiver' # receiver /\ receiver'.tmode # receiver.tmode
    BY DEF SurveyGoesOn
  <2>3. CASE Send
    <3>1. PICK ok \in BOOLEAN, taken \in BOOLEAN : Outcome(ok, taken)
      BY <2>2, <2>3, SendOutcome
    <3>2. receiver'.tmode = TmodeAfter(at, receiver.tmode)
      BY <2>2, <3>1, ReceiverAfter DEF IInv
    <3>3. at \in {"pause", "disable", "fix", "survey"}
      BY <2>2, <3>2 DEF TmodeAfter
    <3>4. at \notin {"pause", "survey"}
      BY <2>1 DEF IInv, ReceiverInv, SurveyPcs, SurveyGoesOn
    <3>5. at \notin {"disable", "fix"}
      BY DEF IInv, PathInv, FixedPcs
    <3> QED BY <3>3, <3>4, <3>5
  <2>8. CASE SendGnss
    BY <2>8 DEF SendGnss, Skips
  <2>4. CASE IoThreads
    <3>1. PICK g \in Held, p \in DOMAIN products : NavSvIn(g, p)
      BY <2>4 DEF IoThreads
    <3>2. receiver.tmode = "surveyed"
            /\ receiver' \in {receiver, Effect("time_rate", receiver),
                             Effect("time_rtcm", Effect("time_rate", receiver))}
      BY <3>1 DEF NavSvIn
    <3>3. Effect("time_rate", receiver) \in Receivers /\ Effect("time_rate", receiver).tmode = "surveyed"
      BY <2>1, <3>2, EffectFields
    <3>4. Effect("time_rtcm", Effect("time_rate", receiver)).tmode = "surveyed"
      BY <3>3, EffectFields
    <3> QED BY <2>2, <3>2, <3>3, <3>4
  <2>5. CASE FinishSurvey
    <3>1. receiver'.tmode = "surveyed" /\ receiver.tmode = "surveying"
      BY <2>1, <2>5 DEF FinishSurvey, Receivers
    <3> QED BY <3>1 DEF SurveyGoesOn
  <2>6. CASE Restart
    BY <2>1, <2>6 DEF Restart
  <2>7. CASE Configure \/ Skip \/ PollGnss \/ BeginProduct \/ PollSvin \/ PollPvt \/ Recover
    BY <2>2, <2>7 DEF Configure, Skip, PollGnss, BeginProduct, PollSvin, PollPvt, Recover
  <2> QED BY <2>3, <2>4, <2>5, <2>6, <2>7, <2>8 DEF Next, Executor
<1>2. Spec => [][Safe => SurveyGoesOn \/ restarts' # restarts]_vars
  BY <1>1, Invariance, PTL DEF Spec
<1> QED BY <1>2 DEF SurveyKept

=============================================================================
