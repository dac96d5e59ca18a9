-------------------------- MODULE UbloxNode_proofs --------------------------
(***************************************************************************)
(* Proofs about UbloxNode, for every value of its constants.               *)
(***************************************************************************)
EXTENDS UbloxNode, RecoveryLadder_proofs, TLAPS

\* What the lifecycle callbacks preserve of the node by itself.
NodeShape(n) ==
  /\ n \in NodeStates
  /\ n.timers # "none" => n.gps # "null"
  /\ n.monitoring <=> n.lifecycle = "active"

\* The members of the ladder, which the lifecycle callbacks leave alone.
SameLadder(m, n) ==
  /\ m.stage = n.stage /\ m.attempts = n.attempts
  /\ m.pulses = n.pulses /\ m.backoff = n.backoff

AllOutcomes == {"no_port", "no_answer", "refused", "configured"}

-----------------------------------------------------------------------------
(* The lifecycle callbacks keep the node in shape and leave the ladder     *)
(* alone.                                                                  *)

\* on_configure: the one place that makes timers makes their Gps first.
LEMMA ConfigureKeepsShape ==
  ASSUME NEW n, NodeShape(n), n.lifecycle = "unconfigured",
         NEW outcome \in AllOutcomes
  PROVE  LET m == OnConfigure(n, outcome)
         IN /\ NodeShape(m) /\ SameLadder(m, n)
            /\ m.lifecycle \in {"unconfigured", "inactive"}
<1>1. n.components + 1 \in Nat /\ Least(n.components + 1, MaxComponents) \in 0..MaxComponents
  BY NodeAssumption DEF NodeShape, NodeStates, Least
<1>2. CASE outcome = "no_port"
  BY <1>2 DEF OnConfigure, NodeShape, NodeStates, SameLadder, Lifecycles, GpsStates
<1>3. CASE outcome = "no_answer"
  BY <1>3 DEF OnConfigure, NodeShape, NodeStates, SameLadder, Lifecycles, GpsStates
<1>4. CASE outcome = "refused"
  BY <1>1, <1>4, NodeAssumption
     DEF OnConfigure, NodeShape, NodeStates, SameLadder, Lifecycles, GpsStates
<1>5. CASE outcome = "configured"
  BY <1>1, <1>5, NodeAssumption
     DEF OnConfigure, NodeShape, NodeStates, SameLadder, Lifecycles, GpsStates
<1>6. QED BY <1>2, <1>3, <1>4, <1>5 DEF AllOutcomes

\* on_activate arms the watchdog and makes the node active together.
LEMMA ActivateKeepsShape ==
  ASSUME NEW n, NodeShape(n)
  PROVE  NodeShape(OnActivate(n)) /\ SameLadder(OnActivate(n), n)
<1> DEFINE m == OnActivate(n)
<1>1. m.timers # "none" => n.timers # "none"
  BY DEF OnActivate, NodeShape, NodeStates
<1>2. m \in NodeStates
  <2>1. 0 \in 0..WatchdogTimeout
    BY NodeAssumption
  <2>2. (IF n.timers = "none" THEN "none" ELSE "running") \in {"none", "running", "canceled"}
    OBVIOUS
  <2>3. QED BY <2>1, <2>2 DEF OnActivate, NodeShape, NodeStates, Lifecycles
<1>3. m.gps = n.gps /\ m.monitoring /\ m.lifecycle = "active"
  BY DEF OnActivate, NodeShape, NodeStates
<1>4. SameLadder(m, n)
  BY DEF OnActivate, NodeShape, NodeStates, SameLadder
<1>5. QED BY <1>1, <1>2, <1>3, <1>4 DEF NodeShape

\* on_deactivate disarms, and drops an armed retry.
LEMMA DeactivateKeepsShape ==
  ASSUME NEW n, NodeShape(n)
  PROVE  LET m == OnDeactivate(n)
         IN /\ NodeShape(m) /\ SameLadder(m, n)
            /\ m.lifecycle = "inactive" /\ ~m.pending /\ ~m.monitoring
BY DEF OnDeactivate, NodeShape, NodeStates, SameLadder, Lifecycles

\* on_cleanup releases the timers with the Gps they poll.
LEMMA CleanupKeepsShape ==
  ASSUME NEW n, NodeShape(n), n.lifecycle = "inactive"
  PROVE  LET m == OnCleanup(n)
         IN /\ NodeShape(m) /\ SameLadder(m, n)
            /\ m.lifecycle = "unconfigured" /\ ~m.pending /\ ~m.monitoring
BY DEF OnCleanup, NodeShape, NodeStates, SameLadder, Lifecycles, GpsStates

\* on_shutdown disarms; a Gps it closes stays an object for the timers.
LEMMA ShutdownKeepsShape ==
  ASSUME NEW n, NodeShape(n)
  PROVE  LET m == OnShutdown(n)
         IN /\ NodeShape(m) /\ SameLadder(m, n)
            /\ m.lifecycle = "finalized" /\ ~m.pending /\ ~m.monitoring
BY DEF OnShutdown, NodeShape, NodeStates, SameLadder, Lifecycles, GpsStates

\* reopen() chains four of them, from any state it finds the node in.
LEMMA ReopenKeepsShape ==
  ASSUME NEW n, NodeShape(n), NEW outcome \in AllOutcomes
  PROVE  NodeShape(Reopen(n, outcome)) /\ SameLadder(Reopen(n, outcome), n)
<1> DEFINE down  == IF n.lifecycle = "active" THEN OnDeactivate(n) ELSE n
           clean == IF down.lifecycle = "inactive" THEN OnCleanup(down) ELSE down
           up    == IF clean.lifecycle = "unconfigured"
                      THEN OnConfigure(clean, outcome) ELSE clean
           last  == IF up.lifecycle = "inactive" THEN OnActivate(up) ELSE up
<1>1. NodeShape(down) /\ SameLadder(down, n)
  BY DeactivateKeepsShape DEF SameLadder
<1> HIDE DEF down
<1>2. NodeShape(clean) /\ SameLadder(clean, n)
  BY <1>1, CleanupKeepsShape DEF SameLadder
<1> HIDE DEF clean
<1>3. NodeShape(up) /\ SameLadder(up, n)
  BY <1>2, ConfigureKeepsShape DEF SameLadder
<1> HIDE DEF up
<1>4. NodeShape(last) /\ SameLadder(last, n)
  BY <1>3, ActivateKeepsShape DEF SameLadder
<1>5. QED BY <1>4 DEF Reopen, last, up, clean, down

-----------------------------------------------------------------------------
(* A recovery pass.                                                        *)

\* initialize() has four outcomes, whatever the receiver does.
LEMMA OutcomesKnown ==
  ASSUME NEW r \in Receivers
  PROVE  ConfigureOutcomes(r) \subseteq AllOutcomes
<1>1. \A opened \in BOOLEAN : Initialize(r, opened) \in AllOutcomes
  BY DEF Initialize, ProcessMonVer, ConfigureUblox, AllOutcomes
<1>2. InitializeIo(r) \subseteq BOOLEAN
  BY DEF InitializeIo
<1>3. QED BY <1>1, <1>2 DEF ConfigureOutcomes

\* Closing the connection leaves the receiver in a known condition.
LEMMA CloseKeepsReceiver ==
  ASSUME NEW n, NEW r \in Receivers
  PROVE  AfterClose(n, r) \in Receivers
BY DEF AfterClose, Receivers

\* A rung sees a skipped pulse or one within the budget, and only the last
\* rung sees one at all.
LEMMA RungKnown ==
  ASSUME NEW n, NodeShape(n), NEW pulse \in RungOutcomes(n),
         NEW r \in Receivers, NEW reset \in AfterRung(n, r, pulse)
  PROVE  /\ pulse \in ResetPulse
         /\ pulse # "skipped" => n.stage = "hardware" /\ n.pulses < GpioPulseLimit
         /\ reset \in Receivers
<1>1. pulse \in ResetPulse
  BY NodeAssumption DEF RungOutcomes, PulseOutcomes, ResetPulse
<1>2. ASSUME pulse # "skipped" PROVE n.stage = "hardware" /\ n.pulses < GpioPulseLimit
  <2>1. n.stage = "hardware" /\ ~(n.pulses >= GpioPulseLimit)
    BY <1>2 DEF RungOutcomes, PulseOutcomes
  <2>2. QED BY <2>1, LadderAssumption DEF NodeShape, NodeStates
<1>3. reset \in Receivers
  BY DEF AfterRung, AfterReset, Receivers
<1>4. QED BY <1>1, <1>2, <1>3

\* A pulse within the budget leaves the counter within it.
LEMMA SpendPulseKeepsShape ==
  ASSUME NEW n, NodeShape(n), NEW pulse \in ResetPulse,
         pulse # "skipped" => n.pulses < GpioPulseLimit
  PROVE  LET m == SpendPulse(n, pulse)
         IN /\ NodeShape(m)
            /\ m.stage = n.stage /\ m.attempts = n.attempts
            /\ m.pulses = IF pulse = "skipped" THEN n.pulses ELSE n.pulses + 1
<1>1. CASE pulse = "skipped"
  BY <1>1 DEF SpendPulse, NodeShape, NodeStates
<1>2. CASE pulse # "skipped"
  <2>1. n.pulses + 1 \in 0..GpioPulseLimit
    BY <1>2, LadderAssumption DEF NodeShape, NodeStates
  <2>2. QED BY <1>2, <2>1 DEF SpendPulse, NodeShape, NodeStates
<1>3. QED BY <1>1, <1>2

\* The end of a pass keeps rung, attempts and backoff in range.
LEMMA EndPassKeepsShape ==
  ASSUME NEW n, NodeShape(n), NEW active \in BOOLEAN
  PROVE  LET m == EndPass(n, active)
         IN /\ NodeShape(m)
            /\ m.lifecycle = n.lifecycle
            /\ ~active => m.pending
            /\ m.stage = NextStage(n.stage)
            /\ m.pulses = n.pulses
            /\ m.attempts = Least(n.attempts + 1, MaxBackoffShift)
            /\ m.backoff = Backoff(n.attempts)
<1> DEFINE attempts == Least(n.attempts + 1, MaxBackoffShift)
           backoff  == Backoff(n.attempts)
           stage    == NextStage(n.stage)
           pending  == n.pending \/ ~active
           m        == EndPass(n, active)
<1>1. n.attempts \in 0..MaxBackoffShift
  BY DEF NodeShape, NodeStates
<1>2. attempts \in 0..MaxBackoffShift
  BY <1>1, LadderAssumption DEF Least
<1>3. backoff \in 0..BackoffMax
  <2>1. n.attempts \in Nat
    BY <1>1, LadderAssumption
  <2>2. backoff \in 1..BackoffMax
    BY <2>1, BackoffRange
  <2> HIDE DEF backoff
  <2>3. QED BY <2>2, LadderAssumption
<1>4. stage \in {"reopen", "device", "hardware"}
  BY DEF NextStage
<1>5. pending \in BOOLEAN
  OBVIOUS
<1>6. m = [n EXCEPT !.stage = stage, !.backoff = backoff,
                    !.attempts = attempts, !.pending = pending]
  BY DEF EndPass
<1> HIDE DEF attempts, backoff, stage, pending, m
<1>7. m \in NodeStates
  BY <1>2, <1>3, <1>4, <1>5, <1>6 DEF NodeShape, NodeStates
<1>8. /\ m.lifecycle = n.lifecycle /\ m.gps = n.gps /\ m.timers = n.timers
      /\ m.monitoring = n.monitoring /\ m.pulses = n.pulses
      /\ m.pending = pending /\ m.stage = stage
      /\ m.attempts = attempts /\ m.backoff = backoff
  BY <1>6 DEF NodeShape, NodeStates
<1>9. ~active => m.pending
  BY <1>8 DEF pending
<1>10. NodeShape(m)
  BY <1>7, <1>8 DEF NodeShape
<1>11. QED BY <1>8, <1>9, <1>10 DEF attempts, backoff, stage, m

\* A whole pass, in terms of where the node was: what it spends, where the
\* ladder goes, how long it backs off, and that it ends active or re-armed.
LEMMA RecoveryPass ==
  ASSUME NEW n, NodeShape(n), receiver \in Receivers, Recovery(n)
  PROVE  /\ NodeShape(node') /\ receiver' \in Receivers
         /\ node'.lifecycle # "active" => node'.pending
         /\ node'.stage = NextStage(n.stage)
         /\ node'.attempts = Least(n.attempts + 1, MaxBackoffShift)
         /\ node'.backoff = Backoff(n.attempts)
         /\ node'.pulses >= n.pulses
         /\ node'.pulses > n.pulses => n.stage = "hardware"
<1>1. PICK pulse \in RungOutcomes(n) :
        \E reset \in AfterRung(n, receiver, pulse) :
          LET closed == IF n.lifecycle \in {"active", "inactive"}
                          THEN AfterClose(n, reset) ELSE reset
          IN \E outcome \in ConfigureOutcomes(closed) :
               /\ receiver' = closed
               /\ LET cycled == Reopen(SpendPulse(n, pulse), outcome)
                  IN node' = EndPass(cycled, cycled.lifecycle = "active")
  BY DEF Recovery
<1>2. PICK reset \in AfterRung(n, receiver, pulse) :
        LET closed == IF n.lifecycle \in {"active", "inactive"}
                        THEN AfterClose(n, reset) ELSE reset
        IN \E outcome \in ConfigureOutcomes(closed) :
             /\ receiver' = closed
             /\ LET cycled == Reopen(SpendPulse(n, pulse), outcome)
                IN node' = EndPass(cycled, cycled.lifecycle = "active")
  BY <1>1
<1> DEFINE closed == IF n.lifecycle \in {"active", "inactive"}
                       THEN AfterClose(n, reset) ELSE reset
<1>3. PICK outcome \in ConfigureOutcomes(closed) :
        /\ receiver' = closed
        /\ LET cycled == Reopen(SpendPulse(n, pulse), outcome)
           IN node' = EndPass(cycled, cycled.lifecycle = "active")
  BY <1>2
<1> DEFINE spent  == SpendPulse(n, pulse)
           cycled == Reopen(spent, outcome)
<1>4. /\ pulse \in ResetPulse /\ reset \in Receivers
      /\ pulse # "skipped" => n.stage = "hardware" /\ n.pulses < GpioPulseLimit
  BY RungKnown
<1>5. closed \in Receivers /\ outcome \in AllOutcomes
  BY <1>4, CloseKeepsReceiver, OutcomesKnown
<1>6. /\ NodeShape(spent) /\ spent.stage = n.stage /\ spent.attempts = n.attempts
      /\ spent.pulses = IF pulse = "skipped" THEN n.pulses ELSE n.pulses + 1
  BY <1>4, SpendPulseKeepsShape
<1>7. NodeShape(cycled) /\ SameLadder(cycled, spent)
  BY <1>5, <1>6, ReopenKeepsShape
<1>8. node' = EndPass(cycled, cycled.lifecycle = "active")
  BY <1>3
<1>9. n.pulses \in Nat
  BY LadderAssumption DEF NodeShape, NodeStates
<1> HIDE DEF spent, cycled, closed
<1>10. /\ NodeShape(node')
       /\ node'.lifecycle = cycled.lifecycle
       /\ cycled.lifecycle # "active" => node'.pending
       /\ node'.stage = NextStage(cycled.stage)
       /\ node'.pulses = cycled.pulses
       /\ node'.attempts = Least(cycled.attempts + 1, MaxBackoffShift)
       /\ node'.backoff = Backoff(cycled.attempts)
  BY <1>7, <1>8, EndPassKeepsShape
<1>11. /\ cycled.stage = n.stage /\ cycled.attempts = n.attempts
       /\ cycled.pulses = spent.pulses
  BY <1>6, <1>7 DEF SameLadder
<1>12. /\ node'.pulses >= n.pulses
       /\ node'.pulses > n.pulses => n.stage = "hardware"
  <2>1. CASE pulse = "skipped"
    BY <2>1, <1>6, <1>9, <1>10, <1>11
  <2>2. CASE pulse # "skipped"
    BY <2>2, <1>4, <1>6, <1>9, <1>10, <1>11
  <2>3. QED BY <2>1, <2>2
<1>13. receiver' \in Receivers
  BY <1>3, <1>5 DEF closed
<1>14. QED BY <1>10, <1>11, <1>12, <1>13

-----------------------------------------------------------------------------
(* The inductive invariant.                                                *)

\* node_main drives nothing before the bring-up.
BringUpFirst ==
  main = "bringup" => node.lifecycle = "unconfigured" /\ mover = "main"

\* The backoff still to go and the time gone by since the last pass add up to
\* the interval that pass asked for.
BackoffCovered ==
  node.attempts > 0 => sincePass + node.backoff >= Backoff(node.attempts - 1)

WorldOK ==
  /\ receiver \in Receivers
  /\ main \in {"bringup", "spinning", "exited"}
  /\ disturbances \in 0..MaxDisturbances
  /\ sincePass \in 0..BackoffMax
  /\ mover \in {"main", "watchdog"} \cup AllCommands

NodeInv ==
  /\ NodeShape(node)
  /\ WorldOK
  /\ HardwareResetIsLastResort
  /\ NeverAbandoned
  /\ QuiescedStaysQuiet
  /\ BringUpFirst
  /\ BackoffCovered

\* The invariant is as strong as the properties it is for.
LEMMA NodeInvImplies ==
  NodeInv => TypeOK /\ TimersHaveReceiver /\ ArmedWhileActive
BY DEF NodeInv, NodeShape, WorldOK, TypeOK, TimersHaveReceiver, ArmedWhileActive

\* A node just constructed satisfies it.
LEMMA InitEstablishes == Init => NodeInv
<1> SUFFICES ASSUME Init PROVE NodeInv
  OBVIOUS
<1>1. NodeShape(node)
  BY NodeAssumption, LadderAssumption
     DEF Init, Constructed, NodeShape, NodeStates, Lifecycles, GpsStates
<1>2. WorldOK
  BY NodeAssumption, LadderAssumption DEF Init, WorldOK
<1>3. HardwareResetIsLastResort /\ NeverAbandoned /\ QuiescedStaysQuiet
  BY DEF Init, Constructed, HardwareResetIsLastResort, NeverAbandoned, QuiescedStaysQuiet
<1>4. BringUpFirst /\ BackoffCovered
  BY DEF Init, Constructed, BringUpFirst, BackoffCovered
<1>5. QED BY <1>1, <1>2, <1>3, <1>4 DEF NodeInv

\* Steps that leave the ladder alone, and let no time pass, keep its two parts.
LEMMA LadderUntouched ==
  ASSUME HardwareResetIsLastResort, BackoffCovered,
         SameLadder(node', node), sincePass' = sincePass
  PROVE  HardwareResetIsLastResort' /\ BackoffCovered'
BY DEF HardwareResetIsLastResort, BackoffCovered, SameLadder

\* node_main's bring-up: no pass has run, and nothing is armed but by it.
LEMMA BringUpKeeps == ASSUME NodeInv, BringUp PROVE NodeInv'
<1>1. PICK outcome \in ConfigureOutcomes(receiver) :
        LET up == OnConfigure(node, outcome)
        IN IF up.lifecycle = "inactive"
             THEN node' = OnActivate(up) /\ main' = "spinning"
             ELSE node' = up /\ main' = "exited"
  BY DEF BringUp
<1>2. /\ node.lifecycle = "unconfigured" /\ mover = "main" /\ NodeShape(node)
      /\ outcome \in AllOutcomes
  BY OutcomesKnown DEF BringUp, NodeInv, BringUpFirst, WorldOK
<1> DEFINE up == OnConfigure(node, outcome)
<1>3. NodeShape(up) /\ SameLadder(up, node)
  BY <1>2, ConfigureKeepsShape
<1>4. up.lifecycle = "inactive" => node' = OnActivate(up) /\ main' = "spinning"
  BY <1>1
<1>5. up.lifecycle # "inactive" => node' = up /\ main' = "exited"
  BY <1>1
<1> HIDE DEF up
<1>6. /\ NodeShape(node') /\ SameLadder(node', node)
      /\ main' \in {"spinning", "exited"}
  BY <1>3, <1>4, <1>5, ActivateKeepsShape DEF SameLadder
<1>7. HardwareResetIsLastResort' /\ BackoffCovered'
  BY <1>6, LadderUntouched DEF BringUp, NodeInv
<1>8. mover' = "main"
  BY <1>2 DEF BringUp
<1>9. NeverAbandoned' /\ QuiescedStaysQuiet' /\ BringUpFirst'
  BY <1>6, <1>8 DEF NeverAbandoned, QuiescedStaysQuiet, BringUpFirst
<1>10. WorldOK'
  BY <1>6, <1>8 DEF BringUp, NodeInv, WorldOK
<1>11. QED BY <1>6, <1>7, <1>9, <1>10 DEF NodeInv

\* Data resets the ladder, so everything said about its rungs is vacuous.
LEMMA FixCallbackKeeps == ASSUME NodeInv, FixCallback PROVE NodeInv'
<1>1. node' = [node EXCEPT !.fixAge = 0, !.stage = "reopen", !.attempts = 0,
                           !.pulses = 0, !.backoff = 0]
  BY DEF FixCallback, Heartbeat, NodeInv, NodeShape, NodeStates
<1>2. /\ node'.lifecycle = node.lifecycle /\ node'.pending = node.pending
      /\ node'.monitoring = node.monitoring /\ node'.timers = node.timers
      /\ node'.gps = node.gps /\ node'.stage = "reopen"
      /\ node'.attempts = 0 /\ node'.pulses = 0
  BY <1>1 DEF NodeInv, NodeShape, NodeStates
<1>3. node' \in NodeStates
  <2>1. /\ 0 \in 0..WatchdogTimeout /\ 0 \in 0..MaxBackoffShift
        /\ 0 \in 0..GpioPulseLimit /\ 0 \in 0..BackoffMax
    BY NodeAssumption, LadderAssumption
  <2>2. QED BY <1>1, <2>1 DEF NodeInv, NodeShape, NodeStates
<1>4. NodeShape(node')
  BY <1>2, <1>3 DEF NodeInv, NodeShape
<1>5. HardwareResetIsLastResort' /\ BackoffCovered'
  BY <1>2 DEF HardwareResetIsLastResort, BackoffCovered
<1>6. NeverAbandoned' /\ QuiescedStaysQuiet' /\ BringUpFirst'
  BY <1>2 DEF FixCallback, NodeInv, NeverAbandoned, QuiescedStaysQuiet, BringUpFirst
<1>7. WorldOK'
  BY DEF FixCallback, NodeInv, WorldOK
<1>8. QED BY <1>4, <1>5, <1>6, <1>7 DEF NodeInv

\* A recovery pass: the ladder climbs one rung and paces the next pass.
LEMMA WatchdogCheckKeeps == ASSUME NodeInv, WatchdogCheck PROVE NodeInv'
<1> DEFINE n == [node EXCEPT !.pending = FALSE]
<1>1. NodeShape(n) /\ SameLadder(n, node)
  BY DEF NodeInv, NodeShape, NodeStates, SameLadder
<1>2. Recovery(n) /\ receiver \in Receivers
  BY DEF WatchdogCheck, NodeInv, WorldOK
<1> HIDE DEF n
<1>3. /\ NodeShape(node') /\ receiver' \in Receivers
      /\ node'.lifecycle # "active" => node'.pending
      /\ node'.stage = NextStage(node.stage)
      /\ node'.attempts = Least(node.attempts + 1, MaxBackoffShift)
      /\ node'.backoff = Backoff(node.attempts)
      /\ node'.pulses > node.pulses => node.stage = "hardware"
      /\ node'.pulses >= node.pulses
  BY <1>1, <1>2, RecoveryPass DEF SameLadder
<1>4. /\ node.attempts \in 0..MaxBackoffShift
      /\ node.pulses \in 0..GpioPulseLimit
      /\ node'.pulses \in 0..GpioPulseLimit
      /\ node.stage \in {"reopen", "device", "hardware"}
  BY <1>3 DEF NodeInv, NodeShape, NodeStates
<1>5. HardwareResetIsLastResort'
  <2>1. node'.attempts >= 1 /\ node'.attempts \in Nat
    BY <1>3, <1>4, LadderAssumption DEF Least
  <2>2. ASSUME node'.stage = "hardware" PROVE node'.attempts >= 2
    <3>1. node.attempts >= 1
      BY <1>3, <1>4, <2>2, LadderAssumption
         DEF NextStage, NodeInv, HardwareResetIsLastResort
    <3>2. QED BY <1>3, <1>4, <3>1, LadderAssumption DEF Least
  <2>3. ASSUME node'.pulses > 0 PROVE node'.attempts >= 3
    <3>1. node.attempts >= 2
      <4>1. CASE node'.pulses > node.pulses
        BY <1>3, <4>1 DEF NodeInv, HardwareResetIsLastResort
      <4>2. CASE ~(node'.pulses > node.pulses)
        <5>1. node.pulses > 0
          BY <1>4, <2>3, <4>2, LadderAssumption
        <5>2. node.attempts >= 3
          BY <5>1 DEF NodeInv, HardwareResetIsLastResort
        <5>3. QED BY <1>4, <5>2, LadderAssumption
      <4>3. QED BY <4>1, <4>2
    <3>2. QED BY <1>3, <1>4, <3>1, LadderAssumption DEF Least
  <2>4. QED BY <2>1, <2>2, <2>3 DEF HardwareResetIsLastResort
<1>6. BackoffCovered'
  <2>1. sincePass' = 0
    BY DEF WatchdogCheck
  <2>2. node'.backoff >= Backoff(node'.attempts - 1)
    <3>1. CASE node.attempts = MaxBackoffShift
      <4>1. node'.attempts = MaxBackoffShift
        BY <1>3, <3>1, LadderAssumption DEF Least
      <4>2. /\ Backoff(MaxBackoffShift) \in 1..BackoffMax
            /\ Backoff(MaxBackoffShift - 1) \in 1..BackoffMax
        <5>1. MaxBackoffShift \in Nat /\ MaxBackoffShift - 1 \in Nat
          BY LadderAssumption
        <5>2. QED BY <5>1, BackoffRange
      <4> HIDE DEF Backoff
      <4>3. QED BY <1>3, <3>1, <4>1, <4>2, BackoffMonotone, LadderAssumption
    <3>2. CASE node.attempts # MaxBackoffShift
      <4>1. node'.attempts - 1 = node.attempts
        BY <1>3, <1>4, <3>2, LadderAssumption DEF Least
      <4>2. Backoff(node.attempts) \in 1..BackoffMax
        <5>1. node.attempts \in Nat
          BY <1>4, LadderAssumption
        <5>2. QED BY <5>1, BackoffRange
      <4>3. QED BY <1>3, <4>1, <4>2, LadderAssumption
    <3>3. QED BY <3>1, <3>2
  <2>3. node'.backoff \in Nat
    BY <1>3, LadderAssumption DEF NodeShape, NodeStates
  <2>4. 0 + node'.backoff = node'.backoff
    BY <2>3
  <2>5. QED BY <2>1, <2>2, <2>4 DEF BackoffCovered
<1>7. mover' = "watchdog" /\ main' = "spinning"
  BY DEF WatchdogCheck, NodeInv, BringUpFirst, WorldOK
<1>8. NeverAbandoned' /\ QuiescedStaysQuiet' /\ BringUpFirst'
  BY <1>3, <1>7 DEF NeverAbandoned, QuiescedStaysQuiet, BringUpFirst
<1>9. WorldOK'
  BY <1>3, <1>7, LadderAssumption DEF WatchdogCheck, NodeInv, WorldOK
<1>10. QED BY <1>3, <1>5, <1>6, <1>8, <1>9 DEF NodeInv

\* The five services: each maps the node to one in shape, with the same
\* ladder, and the three that quiesce leave nothing armed.
LEMMA OperatorShape ==
  ASSUME NodeShape(node), receiver \in Receivers,
         NEW command \in Commands, Operator(command)
  PROVE  /\ NodeShape(node') /\ receiver' \in Receivers
         /\ command \in {"deactivate", "cleanup", "shutdown"}
              => ~node'.pending /\ ~node'.monitoring /\ node'.lifecycle # "active"
         /\ SameLadder(node', node)
<1>1. command \in AllCommands
  BY NodeAssumption
<1>2. CASE command = "configure"
  <2>1. OperatorConfigure
    BY <1>2 DEF Operator
  <2>2. PICK outcome \in AllOutcomes : node' = OnConfigure(node, outcome)
    BY <2>1, OutcomesKnown DEF OperatorConfigure
  <2>3. QED BY <1>2, <2>1, <2>2, ConfigureKeepsShape DEF OperatorConfigure
<1>3. CASE command = "activate"
  <2>1. OperatorActivate
    BY <1>3 DEF Operator
  <2>2. QED BY <1>3, <2>1, ActivateKeepsShape DEF OperatorActivate
<1>4. CASE command = "deactivate"
  <2>1. OperatorDeactivate
    BY <1>4 DEF Operator
  <2>2. QED BY <1>4, <2>1, DeactivateKeepsShape DEF OperatorDeactivate
<1>5. CASE command = "cleanup"
  <2>1. OperatorCleanup
    BY <1>5 DEF Operator
  <2>2. QED BY <1>5, <2>1, CleanupKeepsShape, CloseKeepsReceiver DEF OperatorCleanup
<1>6. CASE command = "shutdown"
  <2>1. OperatorShutdown
    BY <1>6 DEF Operator
  <2>2. QED BY <1>6, <2>1, ShutdownKeepsShape, CloseKeepsReceiver DEF OperatorShutdown
<1>7. QED BY <1>1, <1>2, <1>3, <1>4, <1>5, <1>6 DEF AllCommands

\* An operator's call leaves the ladder alone.
LEMMA OperatorKeeps ==
  ASSUME NodeInv, NEW command \in Commands, Operator(command)
  PROVE  NodeInv'
<1>1. command \in AllCommands /\ NodeShape(node) /\ receiver \in Receivers
  BY NodeAssumption DEF NodeInv, WorldOK
<1>2. /\ NodeShape(node') /\ SameLadder(node', node) /\ receiver' \in Receivers
      /\ command \in {"deactivate", "cleanup", "shutdown"}
           => ~node'.pending /\ ~node'.monitoring /\ node'.lifecycle # "active"
  BY <1>1, OperatorShape
<1>3. /\ main = "spinning" /\ main' = main /\ mover' = command
      /\ disturbances' = disturbances /\ sincePass' = sincePass
  BY DEF Operator
<1>4. HardwareResetIsLastResort' /\ BackoffCovered'
  BY <1>2, <1>3, LadderUntouched DEF NodeInv
<1>5. command # "watchdog" /\ command # "main"
  BY <1>1 DEF AllCommands
<1>6. NeverAbandoned' /\ QuiescedStaysQuiet' /\ BringUpFirst'
  BY <1>2, <1>3, <1>5 DEF NeverAbandoned, QuiescedStaysQuiet, BringUpFirst
<1>7. WorldOK'
  BY <1>1, <1>2, <1>3 DEF NodeInv, WorldOK
<1>8. QED BY <1>2, <1>4, <1>6, <1>7 DEF NodeInv

\* What the receiver does by itself reaches only the connection.
LEMMA DisturbKeeps == ASSUME NodeInv, Disturb PROVE NodeInv'
<1>1. PICK r \in Receivers, linkLost \in BOOLEAN :
        /\ receiver' = r
        /\ node' = IF linkLost /\ node.gps = "open"
                     THEN [node EXCEPT !.gps = "stale"] ELSE node
  BY DEF Disturb
<1>2. /\ NodeShape(node') /\ SameLadder(node', node)
      /\ node'.lifecycle = node.lifecycle /\ node'.pending = node.pending
      /\ node'.monitoring = node.monitoring
  <2>1. CASE node' = node
    BY <2>1 DEF NodeInv, SameLadder
  <2>2. CASE node' = [node EXCEPT !.gps = "stale"]
    BY <2>2 DEF NodeInv, NodeShape, NodeStates, GpsStates, SameLadder
  <2>3. QED BY <1>1, <2>1, <2>2
<1>3. HardwareResetIsLastResort' /\ BackoffCovered'
  BY <1>2, LadderUntouched DEF Disturb, NodeInv
<1>4. NeverAbandoned' /\ QuiescedStaysQuiet' /\ BringUpFirst'
  BY <1>2 DEF Disturb, NodeInv, NeverAbandoned, QuiescedStaysQuiet, BringUpFirst
<1>5. disturbances' \in 0..MaxDisturbances
  BY NodeAssumption DEF Disturb, NodeInv, WorldOK
<1>6. WorldOK'
  BY <1>1, <1>5 DEF Disturb, NodeInv, WorldOK
<1>7. QED BY <1>2, <1>3, <1>4, <1>6 DEF NodeInv

\* A receiver that came up is nothing the node knows of yet.
LEMMA BootDoneKeeps == ASSUME NodeInv, BootDone PROVE NodeInv'
<1>1. WorldOK'
  BY DEF BootDone, NodeInv, WorldOK, Receivers
<1>2. QED
  BY <1>1 DEF BootDone, NodeInv, HardwareResetIsLastResort, NeverAbandoned,
              QuiescedStaysQuiet, BringUpFirst, BackoffCovered

\* Time moves from the backoff to the time gone by; past the largest backoff
\* the latter need not count on.
LEMMA TickKeeps == ASSUME NodeInv, Tick PROVE NodeInv'
<1> DEFINE fixAge  == Least(node.fixAge + 1, WatchdogTimeout)
           backoff == IF node.backoff = 0 THEN 0 ELSE node.backoff - 1
<1>1. node' = [node EXCEPT !.fixAge = fixAge, !.backoff = backoff]
  BY DEF Tick
<1>2. /\ fixAge \in 0..WatchdogTimeout /\ backoff \in 0..BackoffMax
      /\ sincePass \in 0..BackoffMax /\ sincePass' \in 0..BackoffMax
      /\ sincePass' = Least(sincePass + 1, BackoffMax)
      /\ node.backoff \in 0..BackoffMax /\ node.attempts \in 0..MaxBackoffShift
  BY NodeAssumption, LadderAssumption
     DEF Tick, NodeInv, NodeShape, NodeStates, WorldOK, Least
<1>3. backoff + sincePass' >= node.backoff + sincePass \/ sincePass' = BackoffMax
  BY <1>2, LadderAssumption DEF Least
<1> HIDE DEF fixAge, backoff
<1>4. /\ node'.lifecycle = node.lifecycle /\ node'.pending = node.pending
      /\ node'.monitoring = node.monitoring /\ node'.timers = node.timers
      /\ node'.gps = node.gps /\ node'.stage = node.stage
      /\ node'.attempts = node.attempts /\ node'.pulses = node.pulses
      /\ node'.backoff = backoff
  BY <1>1 DEF NodeInv, NodeShape, NodeStates
<1>5. NodeShape(node')
  BY <1>1, <1>2, <1>4 DEF NodeInv, NodeShape, NodeStates
<1>6. HardwareResetIsLastResort'
  BY <1>4 DEF NodeInv, HardwareResetIsLastResort
<1>7. BackoffCovered'
  <2> SUFFICES ASSUME node'.attempts > 0
               PROVE  sincePass' + node'.backoff >= Backoff(node'.attempts - 1)
    BY DEF BackoffCovered
  <2>1. sincePass + node.backoff >= Backoff(node.attempts - 1)
    BY <1>4 DEF NodeInv, BackoffCovered
  <2>2. Backoff(node.attempts - 1) \in 1..BackoffMax
    <3>1. node.attempts - 1 \in Nat
      BY <1>2, <1>4, LadderAssumption
    <3>2. QED BY <3>1, BackoffRange
  <2> DEFINE b == Backoff(node.attempts - 1)
  <2>3. b \in 1..BackoffMax /\ sincePass + node.backoff >= b
    BY <2>1, <2>2
  <2> HIDE DEF b
  <2>4. sincePass' + node'.backoff >= b
    BY <1>2, <1>3, <1>4, <2>3, LadderAssumption
  <2>5. QED BY <1>4, <2>4 DEF b
<1>8. NeverAbandoned' /\ QuiescedStaysQuiet' /\ BringUpFirst'
  BY <1>4 DEF Tick, NodeInv, NeverAbandoned, QuiescedStaysQuiet, BringUpFirst
<1>9. WorldOK'
  BY <1>2 DEF Tick, NodeInv, WorldOK
<1>10. QED BY <1>5, <1>6, <1>7, <1>8, <1>9 DEF NodeInv

\* Every step, and every stutter, keeps the invariant.
LEMMA StepKeeps == NodeInv /\ [Next]_vars => NodeInv'
<1> SUFFICES ASSUME NodeInv, [Next]_vars PROVE NodeInv'
  OBVIOUS
<1>1. CASE BringUp
  BY <1>1, BringUpKeeps
<1>2. CASE FixCallback
  BY <1>2, FixCallbackKeeps
<1>3. CASE WatchdogCheck
  BY <1>3, WatchdogCheckKeeps
<1>4. CASE \E command \in Commands : Operator(command)
  BY <1>4, OperatorKeeps
<1>5. CASE Disturb
  BY <1>5, DisturbKeeps
<1>6. CASE BootDone
  BY <1>6, BootDoneKeeps
<1>7. CASE Tick
  BY <1>7, TickKeeps
<1>8. CASE UNCHANGED vars
  BY <1>8 DEF vars, NodeInv, WorldOK, HardwareResetIsLastResort, NeverAbandoned,
              QuiescedStaysQuiet, BringUpFirst, BackoffCovered
<1>9. QED BY <1>1, <1>2, <1>3, <1>4, <1>5, <1>6, <1>7, <1>8 DEF Next

-----------------------------------------------------------------------------
(* What holds of every behaviour.                                          *)

\* The invariant holds throughout.
LEMMA AlwaysNodeInv == Spec => []NodeInv
<1>1. Init => NodeInv
  BY InitEstablishes
<1>2. NodeInv /\ [Next]_vars => NodeInv'
  BY StepKeeps
<1>3. QED BY <1>1, <1>2, PTL DEF Spec

\* Every variable keeps its type: in particular the reset line is never pulsed
\* past its budget, and no backoff exceeds its ceiling.
THEOREM TypeCorrect == Spec => []TypeOK
<1>1. NodeInv => TypeOK
  BY NodeInvImplies
<1>2. QED BY <1>1, AlwaysNodeInv, PTL

\* A timer that polls gps_ never outlives it, through any mix of operator and
\* recovery transitions, failed ones included.
THEOREM TimersAlwaysHaveReceiver == Spec => []TimersHaveReceiver
<1>1. NodeInv => TimersHaveReceiver
  BY NodeInvImplies
<1>2. QED BY <1>1, AlwaysNodeInv, PTL

\* The watchdog is armed in ACTIVE and only there.
THEOREM AlwaysArmedWhileActive == Spec => []ArmedWhileActive
<1>1. NodeInv => ArmedWhileActive
  BY NodeInvImplies
<1>2. QED BY <1>1, AlwaysNodeInv, PTL

\* The shared line is pulsed only after a reopen and a device reset failed.
THEOREM HardwareResetAlwaysLast == Spec => []HardwareResetIsLastResort
<1>1. NodeInv => HardwareResetIsLastResort
  BY DEF NodeInv
<1>2. QED BY <1>1, AlwaysNodeInv, PTL

\* A pass that ends short of ACTIVE leaves the retry armed.
THEOREM NodeNeverAbandoned == Spec => []NeverAbandoned
<1>1. NodeInv => NeverAbandoned
  BY DEF NodeInv
<1>2. QED BY <1>1, AlwaysNodeInv, PTL

\* Recovery never undoes an operator's deactivate, cleanup or shutdown.
THEOREM OperatorQuiesceSticks == Spec => []QuiescedStaysQuiet
<1>1. NodeInv => QuiescedStaysQuiet
  BY DEF NodeInv
<1>2. QED BY <1>1, AlwaysNodeInv, PTL

\* Two passes without data in between are at least the first one's backoff
\* apart, for every base interval, ceiling and number of doublings.
THEOREM PassesAlwaysPaced == Spec => PassesArePaced
<1>1. NodeInv /\ WatchdogCheck /\ node.attempts > 0
        => sincePass >= Backoff(node.attempts - 1)
  <2> SUFFICES ASSUME NodeInv, WatchdogCheck, node.attempts > 0
               PROVE  sincePass >= Backoff(node.attempts - 1)
    OBVIOUS
  <2>1. node.backoff = 0 /\ sincePass \in 0..BackoffMax
    BY DEF WatchdogCheck, NodeInv, WorldOK
  <2>2. sincePass + node.backoff >= Backoff(node.attempts - 1)
    BY DEF NodeInv, BackoffCovered
  <2>3. sincePass + 0 = sincePass
    BY <2>1, LadderAssumption
  <2>4. QED BY <2>1, <2>2, <2>3
<1>2. QED BY <1>1, AlwaysNodeInv, PTL DEF PassesArePaced

\* No step but the arrival of data gives back pulses or steps the ladder down.
THEOREM OnlyDataEverRelaxes == Spec => OnlyDataRelaxes
<1> DEFINE Relaxed ==
      \/ node'.pulses < node.pulses
      \/ node.stage # "reopen" /\ node'.stage = "reopen"
<1>1. NodeInv /\ [Next]_vars /\ Relaxed => Streaming /\ node'.fixAge = 0
  <2> SUFFICES ASSUME NodeInv, [Next]_vars, Relaxed
               PROVE  Streaming /\ node'.fixAge = 0
    OBVIOUS
  <2>1. /\ NodeShape(node) /\ receiver \in Receivers
        /\ node.pulses \in Nat
    BY LadderAssumption DEF NodeInv, WorldOK, NodeShape, NodeStates
  <2>2. CASE FixCallback
    BY <2>1, <2>2 DEF FixCallback, Heartbeat, NodeShape, NodeStates
  <2>3. CASE WatchdogCheck
    <3> DEFINE n == [node EXCEPT !.pending = FALSE]
    <3>1. NodeShape(n) /\ n.stage = node.stage /\ n.pulses = node.pulses
      BY <2>1 DEF NodeShape, NodeStates
    <3>2. Recovery(n)
      BY <2>3 DEF WatchdogCheck
    <3> HIDE DEF n
    <3>3. node'.stage = NextStage(node.stage) /\ node'.pulses >= node.pulses
          /\ NodeShape(node')
      BY <2>1, <3>1, <3>2, RecoveryPass
    <3>4. node'.stage # "reopen"
      BY <3>3 DEF NextStage
    <3>5. node'.pulses \in Nat
      BY <3>3, LadderAssumption DEF NodeShape, NodeStates
    <3>6. QED BY <2>1, <3>3, <3>4, <3>5
  <2>4. CASE node'.pulses = node.pulses /\ node'.stage = node.stage
    BY <2>1, <2>4
  <2>5. CASE BringUp
    <3>1. PICK outcome \in ConfigureOutcomes(receiver) :
            \/ node' = OnActivate(OnConfigure(node, outcome))
            \/ node' = OnConfigure(node, outcome)
      BY <2>5 DEF BringUp
    <3>2. node.lifecycle = "unconfigured" /\ outcome \in AllOutcomes
      BY <2>1, <2>5, OutcomesKnown DEF BringUp, NodeInv, BringUpFirst
    <3> DEFINE up == OnConfigure(node, outcome)
    <3>3. NodeShape(up) /\ SameLadder(up, node)
      BY <2>1, <3>2, ConfigureKeepsShape
    <3> HIDE DEF up
    <3>4. SameLadder(OnActivate(up), up)
      BY <3>3, ActivateKeepsShape
    <3>5. node'.pulses = node.pulses /\ node'.stage = node.stage
      BY <3>1, <3>3, <3>4 DEF SameLadder, up
    <3>6. QED BY <2>4, <3>5
  <2>6. CASE \E command \in Commands : Operator(command)
    <3>1. PICK command \in Commands : Operator(command)
      BY <2>6
    <3>2. SameLadder(node', node)
      BY <2>1, <3>1, OperatorShape
    <3>3. QED BY <2>4, <3>2 DEF SameLadder
  <2>7. CASE Disturb
    <3>1. node'.pulses = node.pulses /\ node'.stage = node.stage
      BY <2>1, <2>7 DEF Disturb, NodeShape, NodeStates
    <3>2. QED BY <2>4, <3>1
  <2>8. CASE BootDone \/ UNCHANGED vars
    BY <2>4, <2>8 DEF BootDone, vars
  <2>9. CASE Tick
    <3>1. node'.pulses = node.pulses /\ node'.stage = node.stage
      BY <2>1, <2>9 DEF Tick, NodeShape, NodeStates
    <3>2. QED BY <2>4, <3>1
  <2>10. QED BY <2>2, <2>3, <2>5, <2>6, <2>7, <2>8, <2>9 DEF Next
<1>2. QED BY <1>1, AlwaysNodeInv, PTL DEF Spec, OnlyDataRelaxes
=============================================================================
