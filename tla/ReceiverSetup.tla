---------------------------- MODULE ReceiverSetup ----------------------------
(***************************************************************************)
(* What a configuration does to the receiver, message by message, and the  *)
(* part of it that outlives it: the reference station's survey-in, whose   *)
(* end is noticed on the I/O thread of a Gps and configures the receiver   *)
(* from there.                                                             *)
(*                                                                         *)
(* components_ holds one firmware and one HpgRefProduct object of every    *)
(* configuration so far: on_cleanup does not clear it.  Each configuration *)
(* has a Gps of its own, with an I/O thread; a Gps lives as long as the    *)
(* node or a product refers to it.  Gps objects are numbered from 1, and 0 *)
(* is the null pointer.                                                    *)
(***************************************************************************)
EXTENDS Integers, Sequences, FiniteSets, SequencesExt

CONSTANTS
  Settings,       \* what the parameters may say
  MaxConfigures,  \* bound: how many times the node is configured
  MaxFailures,    \* bound: how many calls are refused or not answered
  MaxRestarts     \* bound: how many times the receiver restarts by itself

ASSUME SetupAssumption ==
  /\ \A s \in Settings :
       /\ s.tmode3 \in {"disabled", "fixed", "survey_in"}
       /\ s.reset \in BOOLEAN /\ s.extraSignals \in BOOLEAN
       /\ s.skips \subseteq {"load", "io", "usb", "sbas", "datum", "bbr", "nmea"}
  /\ MaxConfigures \in Nat /\ MaxFailures \in Nat /\ MaxRestarts \in Nat

VARIABLES
  settings,   \* the parameters; extraSignals: QZSS is enabled, and the receiver's
              \* block for it has more signals set than they ask for
  at,         \* where the executor is
  part,       \* the component it is at
  gps,        \* gps_ of the node
  products,   \* the HpgRefProduct objects among components_
  stuck,      \* the Gps objects whose I/O thread waits for itself
  streams,    \* the Gps objects with a NavPVT subscription
  receiver,   \* what the receiver is configured to do
  configures, failures, restarts,
  restarted   \* history: the receiver restarted since the last on_configure

vars == <<settings, at, part, gps, products, stuck, streams, receiver,
          configures, failures, restarts, restarted>>

-----------------------------------------------------------------------------
(* The receiver, as far as the configuration concerns it.                  *)

\* tmode  off, surveying, surveyed (the survey is valid and over) or fixed
\* rate   the measurement rate: its own, the user's, or 1 Hz for the survey
\* rtcm   RTCM output enabled;  pvt, svin: NAV-PVT, NAV-SVIN enabled
\* gnss   the constellations are those of the parameters
Factory == [tmode |-> "off", rate |-> "default", rtcm |-> FALSE,
            pvt |-> FALSE, svin |-> FALSE, gnss |-> FALSE]

\* What a message of the configuration changes, if the receiver takes it.
Effect(step, r) ==
  CASE step \in {"rate", "time_rate"}       -> [r EXCEPT !.rate = "user"]
    [] step = "survey_rate"                 -> [r EXCEPT !.rate = "1Hz"]
    [] step \in {"time_rtcm", "fixed_rtcm"} -> [r EXCEPT !.rtcm = TRUE]
    [] step \in {"pause", "disable"}        -> [r EXCEPT !.tmode = "off"]
    [] step = "fix"                         -> [r EXCEPT !.tmode = "fixed"]
    [] step = "survey"                      -> [r EXCEPT !.tmode = "surveying"]
    [] step = "gnss"                        -> [r EXCEPT !.gnss = TRUE]
    [] step = "pvt"                         -> [r EXCEPT !.pvt = TRUE]
    [] step = "svin"                        -> [r EXCEPT !.svin = TRUE]
    [] OTHER                                -> r

\* What the cold start of its GNSS may leave of a survey: it is sent without
\* waiting for an answer, and what it clears is the receiver's affair.
ColdStarted(r) ==
  {r} \union {[r EXCEPT !.tmode = t] :
               t \in IF r.tmode \in {"surveying", "surveyed"} THEN {"off", "surveying"} ELSE {}}

-----------------------------------------------------------------------------
(* The order of the steps.                                                 *)

\* UbloxNode::configureUblox up to the components, then a firmware.
NodeSteps == <<"load", "io", "usb", "rate", "sbas", "ppp", "model", "fix_mode",
               "dr_limit", "datum">>
FirmwareSteps == <<"bbr", "poll_gnss", "gnss", "nmea", "product">>
SurveySteps == <<"survey_rate", "pause", "survey", "next">>
TimeSteps == <<"time_rate", "time_rtcm", "next">>
FixedSteps == <<"fix", "fixed_rtcm", "next">>
SubscribeSteps == <<"pvt", "svin", "next_subscriber">>

Sequences == {NodeSteps \o FirmwareSteps, SurveySteps, TimeSteps, FixedSteps,
              <<"disable", "next">>, SubscribeSteps}

Follows(step) ==
  CHOOSE next \in UNION {Range(s) : s \in Sequences} :
    \E s \in Sequences : \E i \in 1 .. Len(s) - 1 : s[i] = step /\ s[i + 1] = next

\* Defective variant, for mutation: a refused survey-in is only logged.
ToleratedWithSurvey ==
  {"usb", "bbr", "pause", "survey", "time_rate", "time_rtcm", "save", "inf",
   "pvt", "svin"}

\* Steps whose failure is only logged, or ignored; any other throws.
Tolerated == {"usb", "bbr", "pause", "time_rate", "time_rtcm", "save", "inf",
              "pvt", "svin"}

\* Steps that send a message and wait for its acknowledgement.
Messages == {"load", "io", "usb", "rate", "sbas", "ppp", "model", "fix_mode",
             "dr_limit", "datum", "bbr", "gnss", "nmea",
             "survey_rate", "pause", "survey", "time_rate", "time_rtcm",
             "fix", "fixed_rtcm", "disable", "save", "pvt", "svin", "inf"}

\* Left out by the parameters, or because the receiver already agrees.  The
\* signals of QZSS are compared, but only ever added: with more of them set than
\* the parameters ask for, it never does.
Skips(step) ==
  \/ step \in settings.skips
  \/ step = "gnss" /\ receiver.gnss /\ ~settings.extraSignals

-----------------------------------------------------------------------------
(* References.                                                             *)

HeldBy(node, ps) == ({node} \union {ps[i].gps : i \in DOMAIN ps}) \ {0}

Held == HeldBy(gps, products)

\* ~Gps closes the worker, which joins its I/O thread: a thread that waits for
\* itself is waited for in vain.
Released(node, ps) == (Held \ HeldBy(node, ps)) \intersect stuck = {}

\* NAV-PVT arrives through some Gps, and the watchdog is content.
Streaming == receiver.pvt /\ (streams \intersect Held) \ stuck # {}

Init ==
  /\ settings \in Settings
  /\ at = "unconfigured" /\ part = 0
  /\ gps = 0
  /\ products = <<>>
  /\ stuck = {} /\ streams = {}
  /\ receiver = Factory
  /\ configures = 0 /\ failures = 0 /\ restarts = 0
  /\ restarted = FALSE

Bounds == <<configures, failures, restarts, restarted>>

\* A call that succeeds, or one of the MaxFailures that do not.
Spends(ok) == IF ok THEN UNCHANGED failures
              ELSE failures < MaxFailures /\ failures' = failures + 1

Hang == at' = "hung" /\ UNCHANGED <<part, gps, products, stuck, streams>>

-----------------------------------------------------------------------------
(* on_configure: the connection and MON-VER, then the components.          *)

Configure ==
  /\ at = "unconfigured"
  /\ configures < MaxConfigures
  /\ configures' = configures + 1
  /\ restarted' = FALSE
  /\ IF ~Released(configures', products)
       THEN Hang /\ UNCHANGED failures
       ELSE \E ok \in BOOLEAN :
         /\ Spends(ok)
         /\ gps' = configures'
         /\ IF ok THEN /\ products' = Append(products, [mode |-> "init", gps |-> 0,
                                                        listens |-> {}])
                       /\ at' = "load" /\ part' = 1
                  ELSE UNCHANGED <<products, at, part>>
         /\ UNCHANGED <<stuck, streams>>
  /\ UNCHANGED <<settings, receiver, restarts>>

\* configureUblox() returned false: on_configure succeeds all the same, and
\* nothing is subscribed.
Refused == at' = "up" /\ part' = 0

\* What the product notes: its mode, which is only a copy of the receiver's.
ModeAfter(step, mode) ==
  CASE step \in {"pause", "disable"} -> "disabled"
    [] step = "survey"               -> "survey_in"
    [] step = "fixed_rtcm"           -> "fixed"
    [] OTHER                         -> mode

\* Defective variant, for mutation: one component too many.
GoToPastEnd(step) ==
  CASE step = "next" /\ part <= Len(products) -> at' = "bbr" /\ part' = part + 1
    [] OTHER -> at' = step /\ part' = part

\* The next step, and the component it belongs to.
GoTo(step) ==
  CASE step = "next" /\ part < Len(products) -> at' = "bbr" /\ part' = part + 1
    [] step = "next" /\ part = Len(products) -> at' = "save" /\ part' = part
    [] step = "next_subscriber" /\ part < Len(products) -> at' = "pvt" /\ part' = part + 1
    [] step = "next_subscriber" /\ part = Len(products) -> at' = "inf" /\ part' = part
    [] OTHER -> at' = step /\ part' = part

AfterMessage(step) ==
  CASE step = "save" -> at' = "pvt" /\ part' = 1
    [] step = "inf"  -> at' = "up" /\ part' = 0
    [] OTHER         -> GoTo(Follows(step))

Skip ==
  /\ at \in Messages /\ Skips(at)
  /\ AfterMessage(at)
  /\ UNCHANGED <<settings, gps, products, stuck, streams, receiver, Bounds>>

\* What the subscriptions change in the node: the firmware's, and then the
\* product's, which first replaces its pointer.  Without an acknowledgement of
\* the rate there is no subscription.
\* Defective variant, for mutation: the first pointer is kept.
PointedAtFirst(g) == [products EXCEPT ![part].gps = IF @ = 0 THEN g ELSE @]

PointedAt(g) == [products EXCEPT ![part].gps = g]

Subscribed(ok) ==
  CASE at = "pvt"  -> /\ streams' = IF ok THEN streams \union {gps} ELSE streams
                      /\ UNCHANGED products
    [] at = "svin" -> /\ products' = IF ok THEN [PointedAt(gps) EXCEPT ![part].listens = @ \union {gps}]
                                     ELSE PointedAt(gps)
                      /\ UNCHANGED streams
    [] OTHER       -> /\ products' = IF ok /\ part > 0
                                       THEN [products EXCEPT ![part].mode = ModeAfter(at, @)]
                                       ELSE products
                      /\ UNCHANGED streams

\* One message: sent, perhaps taken by the receiver, perhaps acknowledged.  It
\* waits on the lock an I/O thread that is stuck never gives back.
Send ==
  /\ at \in Messages \ {"gnss"} /\ ~Skips(at)
  /\ IF gps \in stuck \/ (at = "svin" /\ ~Released(gps, PointedAt(gps)))
       THEN Hang /\ UNCHANGED <<failures, receiver>>
       ELSE \E ok \in BOOLEAN, taken \in BOOLEAN :
         /\ ok => taken
         /\ Spends(ok)
         /\ receiver' = IF taken THEN Effect(at, receiver) ELSE receiver
         /\ Subscribed(ok)
         /\ IF ok \/ at \in Tolerated THEN AfterMessage(at) ELSE Refused
         /\ UNCHANGED <<gps, stuck>>
  /\ UNCHANGED <<settings, configures, restarts, restarted>>

\* The firmware polls CFG-GNSS and throws if there is no answer.
PollGnss ==
  /\ at = "poll_gnss"
  /\ \E ok \in BOOLEAN : /\ Spends(ok)
                         /\ IF ok THEN GoTo("gnss") ELSE Refused
  /\ UNCHANGED <<settings, gps, products, stuck, streams, receiver,
                 configures, restarts, restarted>>

\* Gps::configGnss: CFG-GNSS and, once it is acknowledged, a cold start; then the
\* connection is opened again, to the UART's rate.  No product listens to this
\* Gps yet, so its old I/O thread can be joined.
SendGnss ==
  /\ at = "gnss" /\ ~Skips(at)
  /\ LET configured == Effect("gnss", receiver)
     IN  \E acked \in BOOLEAN, reopened \in BOOLEAN :
           /\ Spends(acked /\ reopened)
           /\ receiver' \in IF acked THEN ColdStarted(configured) ELSE {receiver, configured}
           /\ IF acked /\ reopened THEN AfterMessage("gnss") ELSE Refused
  /\ UNCHANGED <<settings, gps, products, stuck, streams, configures, restarts, restarted>>

\* HpgRefProduct::configureUblox
BeginProduct ==
  /\ at = "product"
  /\ at' = CASE settings.tmode3 = "disabled" -> "disable"
             [] settings.tmode3 = "fixed" -> "fix"
             [] settings.tmode3 = "survey_in" /\ settings.reset -> "survey_rate"
             [] settings.tmode3 = "survey_in" /\ ~settings.reset -> "poll_svin"
  /\ UNCHANGED <<settings, part, gps, products, stuck, streams, receiver, Bounds>>

SetMode(mode) == products' = [products EXCEPT ![part].mode = mode]

\* Defective variant, for mutation: a survey in progress is not recognised.
AfterSvinValidOnly(tmode) ==
  IF tmode = "surveyed" THEN SetMode("time") /\ GoTo("time_rate")
                        ELSE GoTo("poll_pvt") /\ UNCHANGED products

\* Defective variant, for mutation: valid is asked before active, and a survey
\* in progress may be both.
AfterSvinValidFirst(tmode) ==
  CASE tmode \in {"surveying", "surveyed"} -> SetMode("time") /\ GoTo("time_rate")
    [] OTHER -> GoTo("poll_pvt") /\ UNCHANGED products

\* A survey in progress, or its position, is kept.
AfterSvin(tmode) ==
  CASE tmode = "surveying" -> SetMode("survey_in") /\ GoTo("next")
    [] tmode = "surveyed"  -> SetMode("time") /\ GoTo("time_rate")
    [] OTHER               -> GoTo("poll_pvt") /\ UNCHANGED products

PollSvin ==
  /\ at = "poll_svin"
  /\ \E ok \in BOOLEAN :
       /\ Spends(ok)
       /\ IF ok THEN AfterSvin(receiver.tmode) ELSE Refused /\ UNCHANGED products
  /\ UNCHANGED <<settings, gps, stuck, streams, receiver,
                 configures, restarts, restarted>>

\* So is a time-only fix, which a fixed position gives sooner or later.
PollPvt ==
  /\ at = "poll_pvt"
  /\ \E ok \in BOOLEAN, timeFix \in BOOLEAN :
       /\ Spends(ok)
       /\ timeFix => receiver.tmode = "fixed"
       /\ CASE ok /\ timeFix  -> SetMode("time") /\ GoTo("time_rate")
            [] ok /\ ~timeFix -> GoTo("survey_rate") /\ UNCHANGED products
            [] ~ok            -> Refused /\ UNCHANGED products
  /\ UNCHANGED <<settings, gps, stuck, streams, receiver,
                 configures, restarts, restarted>>

-----------------------------------------------------------------------------
(* The I/O threads, the watchdog, and the receiver by itself.              *)

\* callbackNavSvIn of product p, dispatched by the thread of Gps g.
\* setTimeMode() sets the mode, then sends through gps_ of the product and
\* waits for the answer on the read lock.  The thread of that very Gps holds
\* the lock: neither is the message written nor the lock ever free again.
NavSvIn(g, p) ==
  /\ g \in products[p].listens /\ g \in Held \ stuck
  /\ receiver.svin /\ receiver.tmode = "surveyed"
  /\ products[p].mode = "survey_in"
  /\ products' = [products EXCEPT ![p].mode = "time"]
  /\ IF products[p].gps = g
       THEN stuck' = stuck \union {g} /\ UNCHANGED receiver
       ELSE UNCHANGED stuck /\ receiver' \in
              {receiver, Effect("time_rate", receiver),
               Effect("time_rtcm", Effect("time_rate", receiver))}
  /\ UNCHANGED <<settings, at, part, gps, streams, Bounds>>

\* recovery(): on_deactivate and on_cleanup; on_configure comes next.
Recover ==
  /\ at = "up" /\ ~Streaming
  /\ configures < MaxConfigures
  /\ IF Released(0, products)
       THEN at' = "unconfigured" /\ gps' = 0 /\ UNCHANGED <<part, products, stuck, streams>>
       ELSE Hang
  /\ UNCHANGED <<settings, receiver, Bounds>>

FinishSurvey ==
  /\ receiver.tmode = "surveying"
  /\ receiver' = [receiver EXCEPT !.tmode = "surveyed"]
  /\ UNCHANGED <<settings, at, part, gps, products, stuck, streams, Bounds>>

Restart ==
  /\ restarts < MaxRestarts
  /\ restarts' = restarts + 1
  /\ restarted' = TRUE
  /\ receiver' = Factory
  /\ UNCHANGED <<settings, at, part, gps, products, stuck, streams, configures, failures>>

Executor ==
  \/ Configure \/ Skip \/ Send \/ PollGnss \/ SendGnss
  \/ BeginProduct \/ PollSvin \/ PollPvt \/ Recover

IoThreads == \E g \in Held, p \in DOMAIN products : NavSvIn(g, p)

Next == Executor \/ IoThreads \/ FinishSurvey \/ Restart

Spec == Init /\ [][Next]_vars

\* The executor and the I/O threads run, and a survey ends.
FairSpec ==
  Spec /\ WF_vars(Executor) /\ WF_vars(IoThreads) /\ WF_vars(FinishSurvey)

-----------------------------------------------------------------------------
(* Properties.                                                             *)

Modes == {"init", "disabled", "fixed", "survey_in", "time"}

TypeOK ==
  /\ settings \in Settings
  /\ at \in {"unconfigured", "up", "hung", "poll_gnss", "product", "poll_svin",
             "poll_pvt"} \union Messages
  /\ part \in 0 .. Len(products)
  /\ gps \in 0 .. MaxConfigures
  /\ \A i \in DOMAIN products :
       /\ products[i].mode \in Modes
       /\ products[i].gps \in 0 .. MaxConfigures
       /\ products[i].listens \subseteq 1 .. MaxConfigures
  /\ stuck \subseteq 1 .. MaxConfigures
  /\ streams \subseteq 1 .. MaxConfigures
  /\ receiver.tmode \in {"off", "surveying", "surveyed", "fixed"}
  /\ receiver.rate \in {"default", "user", "1Hz"}
  /\ configures \in 0 .. MaxConfigures
  /\ failures \in 0 .. MaxFailures
  /\ restarts \in 0 .. MaxRestarts

\* A survey in progress goes on, or ends; its position stays.
SurveyGoesOn ==
  /\ receiver.tmode = "surveying" => receiver'.tmode \in {"surveying", "surveyed"}
  /\ receiver.tmode = "surveyed"  => receiver'.tmode = "surveyed"

\* With sv_in.reset off, and a receiver that agrees with the parameters on the
\* constellations and their signals, no configuration throws away a survey in
\* progress or its position, however many products run it and whatever fails in
\* between: only the receiver's own restart does.
SurveyKept ==
  [][(/\ settings.tmode3 = "survey_in" /\ ~settings.reset
      /\ receiver.gnss /\ ~settings.extraSignals)
       => SurveyGoesOn \/ restarts' # restarts]_vars

\* With sv_in.reset off, a survey in progress or its position is never reset by
\* the driver (what HpgRefProduct::configureUblox and the README promise).
SurveyNeverReset ==
  [][settings.tmode3 = "survey_in" /\ ~settings.reset
       => SurveyGoesOn \/ restarts' # restarts]_vars

\* After a configuration that was not refused, and until the receiver restarts,
\* the mode every product reports is the receiver's; with several products, if
\* the next one's cold start does not come in between.
ModesAgree ==
  (/\ at = "up" /\ gps \in streams /\ ~restarted
   /\ settings.extraSignals => Len(products) = 1) =>
    \A i \in DOMAIN products :
      CASE products[i].mode = "time"      -> receiver.tmode \in {"surveyed", "fixed"}
        [] products[i].mode = "survey_in" -> receiver.tmode \in {"surveying", "surveyed"}
        [] products[i].mode = "disabled"  -> receiver.tmode = "off"
        [] products[i].mode = "fixed"     -> receiver.tmode = "fixed" /\ receiver.rtcm
        [] products[i].mode = "init"      -> FALSE

\* The products of earlier configurations keep their Gps, and its port, open,
\* but never more than the last one that was subscribed: reconfiguring does
\* not pile up connections and I/O threads.
OneConnectionLeftOver == Cardinality(Held \ {gps}) <= 1

\* Unless every start resets the survey, or the receiver restarts by itself or is
\* cold started by every configuration, RTCM corrections are sent only from a
\* position that is known: no order of refusals, and no leftover I/O thread,
\* enables them during a survey.
CorrectionsHavePosition ==
  (receiver.rtcm /\ ~settings.reset /\ restarts = 0 /\ ~settings.extraSignals)
    => receiver.tmode \in {"surveyed", "fixed"}

\* When the survey ends, the receiver is given the user's rate and the RTCM
\* messages.
SurveyEndsInTimeMode ==
  (at = "up" /\ receiver.tmode = "surveyed" /\ receiver.svin)
    ~> (receiver.rate = "user" /\ receiver.rtcm)

=============================================================================
