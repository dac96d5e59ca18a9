----------------------- MODULE SharedResetLine_proofs -----------------------
(***************************************************************************)
(* Proofs about SharedResetLine: how pulses are waited out, for any number *)
(* of drivers and any timing, and, for two drivers and the timings that    *)
(* space the pulses, that one receiver's trouble does not reach the other. *)
(***************************************************************************)
EXTENDS SharedResetLine, RecoveryLadder_proofs, TLAPS

-----------------------------------------------------------------------------
(* The inductive invariant.                                                *)

\* The line is held by the driver that is asleep over its own pulse.
HolderDrives == \A d \in Drivers : driver[d].pc = "driving" <=> holder = d

\* A driver that waits out a pulse: while the pulse goes on its sleep outlasts
\* it by a boot interval, and after it what is left of the sleep and what has
\* passed since make up that interval.
WaitsOut(d) ==
  /\ driver[d].pulser \in Drivers
  /\ settled[d] = Ongoing =>
       /\ driver[driver[d].pulser].pc = "driving"
       /\ driver[d].wait >= driver[driver[d].pulser].wait + CycleTime
  /\ settled[d] # Ongoing => settled[d] + driver[d].wait >= CycleTime

Shape(d) ==
  /\ driver[d].pc \in {"idle", "requesting"} => driver[d].pulser = "none"
  /\ driver[d].pc \in {"requesting", "driving"} =>
       settled[d] = Ongoing /\ driver[d].pulses < GpioPulseLimit
  /\ driver[d].pc = "driving" => driver[d].pulser = d /\ driver[d].wait <= ResetTime
  /\ driver[d].pc = "settling" => WaitsOut(d)
  /\ driver[d].pc = "reopening" /\ driver[d].outcome \in {"issued", "peer"} =>
       settled[d] = CycleTime

IInv ==
  /\ TypeOK
  /\ HolderDrives
  /\ \A d \in Drivers : Shape(d)

-----------------------------------------------------------------------------
(* What the operators on a driver's record do.                             *)

LEMMA Constants ==
  /\ CycleTime \in Nat /\ CycleTime > 0 /\ ResetTime \in Nat /\ BackoffMax \in Nat
  /\ WatchdogTimeout \in Nat /\ WatchdogTimeout > 0 /\ GpioPulseLimit \in Nat
  /\ MaxBackoffShift \in Nat /\ MaxFaults \in Nat
  /\ "none" \notin Drivers /\ "other" \notin Drivers
BY LadderAssumption, LineAssumption

LEMMA RunningTyped == Running \in DriverStates
<1>1. /\ 0 \in 0 .. (ResetTime + CycleTime) /\ 0 \in 0 .. WatchdogTimeout
      /\ 0 \in 0 .. MaxBackoffShift /\ 0 \in 0 .. GpioPulseLimit /\ 0 \in 0 .. BackoffMax
  BY Constants
<1> QED BY <1>1 DEF Running, DriverStates, ResetPulse, Stages

LEMMA HeartbeatTyped ==
  ASSUME NEW n \in DriverStates
  PROVE  LET m == Heartbeat([n EXCEPT !.silence = 0])
         IN  /\ m \in DriverStates /\ m.pc = n.pc /\ m.pulser = n.pulser
<1>1. /\ 0 \in 0 .. WatchdogTimeout /\ 0 \in 0 .. MaxBackoffShift
      /\ 0 \in 0 .. GpioPulseLimit /\ 0 \in 0 .. BackoffMax
  BY Constants
<1> QED BY <1>1 DEF Heartbeat, DriverStates, Stages

\* The end of a pass keeps the backoff and the attempts within their bounds.
LEMMA EndPassTyped ==
  ASSUME NEW n \in DriverStates, NEW up \in BOOLEAN
  PROVE  LET m == EndPass(n, up)
         IN  /\ m \in DriverStates /\ m.pc = n.pc /\ m.pulser = n.pulser
<1>1. n.attempts \in Nat /\ n.attempts \in 0 .. MaxBackoffShift /\ n.stage \in Stages
      /\ n.pending \in BOOLEAN
  BY Constants DEF DriverStates
<1>2. Backoff(n.attempts) \in 0 .. BackoffMax
  BY <1>1, BackoffRange, Constants
<1>3. Least(n.attempts + 1, MaxBackoffShift) \in 0 .. MaxBackoffShift
  BY <1>1, Constants DEF Least
<1>4. NextStage(n.stage) \in Stages
  BY DEF NextStage, Stages
<1>5. (n.pending \/ ~up) \in BOOLEAN
  BY <1>1
<1> QED BY <1>2, <1>3, <1>4, <1>5 DEF EndPass, DriverStates

-----------------------------------------------------------------------------
(* Steps that leave the pulse alone.                                       *)

LEMMA OneUpdated ==
  ASSUME TypeOK, NEW d \in Drivers, NEW m \in DriverStates, driver' = [driver EXCEPT ![d] = m]
  PROVE  /\ driver' \in [Drivers -> DriverStates] /\ driver'[d] = m
         /\ \A e \in Drivers : e # d => driver'[e] = driver[e]
BY DEF TypeOK

\* What a driver does by itself, while it does not hold the line, disturbs no
\* other driver's wait.
LEMMA OwnStep ==
  ASSUME IInv, NEW d \in Drivers, NEW m \in DriverStates, driver' = [driver EXCEPT ![d] = m],
         driver[d].pc # "driving", m.pc # "driving", UNCHANGED <<holder, faults>>,
         settled' \in [Drivers -> Ongoing .. CycleTime],
         \A e \in Drivers : e # d => settled'[e] = settled[e],
         receiver' \in [Drivers -> Receivers], boot' \in [Drivers -> Nat],
         Shape(d)'
  PROVE  IInv'
<1>1. /\ driver' \in [Drivers -> DriverStates] /\ driver'[d] = m
      /\ \A e \in Drivers : e # d => driver'[e] = driver[e]
  BY OneUpdated DEF IInv
<1>2. TypeOK'
  BY <1>1 DEF IInv, TypeOK
<1>3. HolderDrives'
  BY <1>1 DEF IInv, HolderDrives
<1>4. ASSUME NEW e \in Drivers, e # d PROVE Shape(e)'
  <2>1. driver'[e] = driver[e] /\ settled'[e] = settled[e]
    BY <1>1, <1>4
  <2>2. driver[e].pc = "settling" => WaitsOut(e)'
    BY <1>1, <2>1 DEF IInv, Shape, WaitsOut
  <2> QED BY <2>1, <2>2 DEF IInv, Shape
<1> QED BY <1>2, <1>3, <1>4 DEF IInv

\* A pulse and the waits for it are about these members only.
LEMMA CourseKept ==
  ASSUME IInv, TypeOK', UNCHANGED settled,
         \A e \in Drivers : /\ driver'[e].pc = driver[e].pc /\ driver'[e].wait = driver[e].wait
                            /\ driver'[e].pulser = driver[e].pulser
                            /\ driver'[e].pulses = driver[e].pulses
                            /\ driver'[e].outcome = driver[e].outcome,
         \A e \in Drivers : holder' = e <=> holder = e
  PROVE  IInv'
<1>1. HolderDrives'
  BY DEF IInv, HolderDrives
<1>2. ASSUME NEW e \in Drivers PROVE Shape(e)'
  <2>1. driver[e].pc = "settling" => WaitsOut(e)'
    BY DEF IInv, Shape, WaitsOut
  <2> QED BY <2>1 DEF IInv, Shape
<1> QED BY <1>1, <1>2 DEF IInv

LEMMA InitEstablishes == Init => IInv
<1> SUFFICES ASSUME Init PROVE IInv
  OBVIOUS
<1>1. \A d \in Drivers : driver[d] = Running
  BY DEF Init
<1>2. TypeOK
  <2>1. 0 \in 0 .. MaxFaults /\ Ongoing \in Ongoing .. CycleTime
    BY Constants DEF Ongoing
  <2> QED BY <2>1, RunningTyped DEF Init, TypeOK, Receivers
<1>3. \A d \in Drivers : Running.pc = "idle" /\ Running.pulser = "none"
  BY DEF Running
<1>4. HolderDrives
  BY <1>1, <1>3, Constants DEF Init, HolderDrives
<1>5. \A d \in Drivers : Shape(d)
  BY <1>1, <1>3 DEF Shape
<1> QED BY <1>2, <1>4, <1>5 DEF IInv

LEMMA FixCallbackKeeps ==
  ASSUME IInv, NEW d \in Drivers, FixCallback(d) PROVE IInv'
<1> DEFINE m == Heartbeat([driver[d] EXCEPT !.silence = 0])
<1>1. /\ driver[d].pc = "idle" /\ driver' = [driver EXCEPT ![d] = m]
      /\ UNCHANGED <<receiver, boot, holder, faults, settled>>
  BY DEF FixCallback
<1>2. m \in DriverStates /\ m.pc = driver[d].pc /\ m.pulser = driver[d].pulser
  BY HeartbeatTyped DEF IInv, TypeOK
<1> HIDE DEF m
<1>3. Shape(d)'
  BY <1>1, <1>2, OneUpdated DEF IInv, Shape
<1> QED BY <1>1, <1>2, <1>3, OwnStep DEF IInv, TypeOK

LEMMA SoftRungKeeps ==
  ASSUME IInv, NEW d \in Drivers, ReopenRung(d) \/ DeviceRung(d) PROVE IInv'
<1> DEFINE m == [driver[d] EXCEPT !.pc = "reopening", !.pending = FALSE, !.outcome = "skipped"]
<1>1. /\ driver[d].pc = "idle" /\ driver' = [driver EXCEPT ![d] = m]
      /\ UNCHANGED <<holder, faults, settled>>
  BY DEF ReopenRung, DeviceRung, Due, IInv, TypeOK
<1>2. m \in DriverStates /\ m.pc = "reopening" /\ m.outcome = "skipped"
  <2>1. driver[d] \in DriverStates
    BY DEF IInv, TypeOK
  <2> QED BY <2>1 DEF DriverStates, ResetPulse
<1>3. receiver' \in [Drivers -> Receivers] /\ boot' \in [Drivers -> Nat]
  BY LineAssumption DEF ReopenRung, DeviceRung, IInv, TypeOK, Receivers
<1> HIDE DEF m
<1>4. Shape(d)'
  BY <1>1, <1>2, OneUpdated DEF IInv, Shape
<1> QED BY <1>1, <1>2, <1>3, <1>4, OwnStep DEF IInv, TypeOK

\* A pulse of the peer is found while it goes on, and no longer than it lasts.
LEMMA HardwareRungKeeps ==
  ASSUME IInv, NEW d \in Drivers, HardwareRung(d) PROVE IInv'
<1> DEFINE n == [driver[d] EXCEPT !.pending = FALSE]
           asks == [n EXCEPT !.pc = "requesting"]
           waits == SpendPulse(WaitOutPeer(n, holder), "peer")
           skips == [n EXCEPT !.pc = "reopening", !.outcome = "skipped"]
<1>1. /\ driver[d].pc = "idle" /\ driver[d].pulser = "none" /\ driver[d] \in DriverStates
      /\ settled' = [settled EXCEPT ![d] = Ongoing]
      /\ UNCHANGED <<receiver, boot, holder, faults>>
  BY DEF HardwareRung, Due, IInv, TypeOK, Shape
<1>2. PICK outcome \in PulseOutcomes(driver[d], LineOutcome(d)) :
        driver' = [driver EXCEPT ![d] =
          CASE outcome = "issued" -> asks [] outcome = "peer" -> waits
            [] outcome = "skipped" -> skips]
  BY DEF HardwareRung
<1>3. /\ outcome \in {"issued", "peer", "skipped"}
      /\ outcome # "skipped" => driver[d].pulses < GpioPulseLimit
      /\ outcome = "peer" => holder \in Drivers /\ holder # d
  <2>1. holder = "none" \/ holder = "other" \/ holder = d \/ holder \in Drivers \ {d}
    BY DEF IInv, TypeOK
  <2>2. holder # d
    BY <1>1 DEF IInv, HolderDrives
  <2>3. /\ LineOutcome(d) \subseteq {"issued", "peer", "skipped"}
        /\ "peer" \in LineOutcome(d) => holder \in Drivers /\ holder # d
    BY <2>1, <2>2, Constants DEF LineOutcome
  <2>4. driver[d].pulses \in Int /\ GpioPulseLimit \in Int
    BY <1>1, Constants DEF DriverStates
  <2> QED BY <1>2, <2>3, <2>4 DEF PulseOutcomes
<1>4. /\ settled' \in [Drivers -> Ongoing .. CycleTime] /\ settled'[d] = Ongoing
      /\ \A e \in Drivers : e # d => settled'[e] = settled[e]
  BY <1>1, Constants DEF IInv, TypeOK, Ongoing
<1>5. n \in DriverStates /\ n.pulses = driver[d].pulses /\ n.pulser = "none"
  BY <1>1 DEF DriverStates
<1> HIDE DEF n
<1>6. CASE outcome = "issued"
  <2>1. driver' = [driver EXCEPT ![d] = asks]
    BY <1>2, <1>6
  <2>2. asks \in DriverStates /\ asks.pc = "requesting" /\ asks.pulser = "none"
        /\ asks.pulses = driver[d].pulses
    BY <1>5 DEF DriverStates
  <2> HIDE DEF asks
  <2>3. Shape(d)'
    BY <1>3, <1>4, <1>6, <2>1, <2>2, OneUpdated DEF IInv, Shape
  <2> QED BY <1>1, <1>4, <2>1, <2>2, <2>3, OwnStep DEF IInv, TypeOK
<1>7. CASE outcome = "skipped"
  <2>1. driver' = [driver EXCEPT ![d] = skips]
    BY <1>2, <1>7
  <2>2. skips \in DriverStates /\ skips.pc = "reopening" /\ skips.outcome = "skipped"
    BY <1>5 DEF DriverStates, ResetPulse
  <2> HIDE DEF skips
  <2>3. Shape(d)'
    BY <2>1, <2>2, OneUpdated DEF IInv, Shape
  <2> QED BY <1>1, <1>4, <2>1, <2>2, <2>3, OwnStep DEF IInv, TypeOK
<1>8. CASE outcome = "peer"
  <2>1. driver' = [driver EXCEPT ![d] = waits]
    BY <1>2, <1>8
  <2>2. holder \in Drivers /\ holder # d /\ driver[d].pulses < GpioPulseLimit
    BY <1>3, <1>8
  <2>3. waits \in DriverStates /\ waits.pc = "settling" /\ waits.pulser = holder
        /\ waits.wait = ResetTime + CycleTime
    <3>1. /\ ResetTime + CycleTime \in 0 .. (ResetTime + CycleTime)
          /\ n.pulses + 1 \in 0 .. GpioPulseLimit
      BY <1>5, <2>2, Constants DEF DriverStates
    <3> QED BY <1>5, <2>2, <3>1 DEF SpendPulse, WaitOutPeer, DriverStates, ResetPulse
  <2> HIDE DEF waits
  <2>4. driver[holder].pc = "driving" /\ driver[holder].wait <= ResetTime
    BY <2>2 DEF IInv, HolderDrives, Shape
  <2>5. driver[holder].wait \in Int
    BY <2>2 DEF IInv, TypeOK, DriverStates
  <2>6. /\ driver'[d].pc = "settling" /\ driver'[d].pulser = holder
        /\ driver'[d].wait = ResetTime + CycleTime /\ driver'[holder] = driver[holder]
    BY <2>1, <2>2, <2>3, OneUpdated DEF IInv
  <2>7. WaitsOut(d)'
    <3>1. ResetTime + CycleTime >= driver[holder].wait + CycleTime
      BY <2>4, <2>5, Constants
    <3> QED BY <1>4, <2>2, <2>4, <2>6, <3>1 DEF WaitsOut, Ongoing
  <2>8. Shape(d)'
    BY <2>6, <2>7 DEF Shape
  <2> QED BY <1>1, <1>4, <2>1, <2>3, <2>8, OwnStep DEF IInv, TypeOK
<1> QED BY <1>3, <1>6, <1>7, <1>8

LEMMA LoseRaceKeeps ==
  ASSUME IInv, NEW d \in Drivers, LoseRace(d) PROVE IInv'
<1> DEFINE m == [driver[d] EXCEPT !.pc = "reopening", !.outcome = "skipped"]
<1>1. /\ driver[d].pc = "requesting" /\ driver' = [driver EXCEPT ![d] = m]
      /\ UNCHANGED <<receiver, boot, holder, faults, settled>>
  BY DEF LoseRace, IInv, TypeOK
<1>2. m \in DriverStates /\ m.pc = "reopening" /\ m.outcome = "skipped"
  <2>1. driver[d] \in DriverStates
    BY DEF IInv, TypeOK
  <2> QED BY <2>1 DEF DriverStates, ResetPulse
<1> HIDE DEF m
<1>3. Shape(d)'
  BY <1>1, <1>2, OneUpdated DEF IInv, Shape
<1> QED BY <1>1, <1>2, <1>3, OwnStep DEF IInv, TypeOK

\* A sleep that is over has outlasted the pulse by the whole boot interval.
LEMMA WakeUpKeeps ==
  ASSUME IInv, NEW d \in Drivers, WakeUp(d) PROVE IInv'
<1> DEFINE m == [driver[d] EXCEPT !.pc = "reopening"]
<1>1. /\ driver[d].pc = "settling" /\ driver[d].wait = 0 /\ driver' = [driver EXCEPT ![d] = m]
      /\ UNCHANGED <<receiver, boot, holder, faults, settled>>
  BY DEF WakeUp, IInv, TypeOK
<1>2. m \in DriverStates /\ m.pc = "reopening"
  <2>1. driver[d] \in DriverStates
    BY DEF IInv, TypeOK
  <2> QED BY <2>1 DEF DriverStates
<1> HIDE DEF m
<1>3. settled[d] = CycleTime
  <2>1. WaitsOut(d) /\ settled[d] \in Ongoing .. CycleTime
    BY <1>1 DEF IInv, TypeOK, Shape
  <2>2. settled[d] # Ongoing
    <3>1. ASSUME settled[d] = Ongoing PROVE FALSE
      <4>1. driver[driver[d].pulser].wait \in Nat
        BY <2>1 DEF IInv, TypeOK, DriverStates, WaitsOut
      <4> QED BY <1>1, <2>1, <3>1, <4>1, Constants DEF WaitsOut
    <3> QED BY <3>1
  <2> QED BY <1>1, <2>1, <2>2, Constants DEF WaitsOut, Ongoing
<1>4. Shape(d)'
  BY <1>1, <1>2, <1>3, OneUpdated DEF IInv, Shape
<1> QED BY <1>1, <1>2, <1>4, OwnStep DEF IInv, TypeOK

LEMMA ReopenKeeps ==
  ASSUME IInv, NEW d \in Drivers, Reopen(d) PROVE IInv'
<1> DEFINE up == receiver[d] \in {"ok", "stuck"}
           n(open) == [driver[d] EXCEPT !.pc = "idle", !.active = up, !.link = open,
                         !.pulser = "none", !.silence = IF up THEN 0 ELSE @]
<1>1. \E open \in BOOLEAN : driver' = [driver EXCEPT ![d] = EndPass(n(open), up)]
  <2>1. PICK open \in IF receiver[d] = "booting" THEN BOOLEAN ELSE {up} :
          driver' = [driver EXCEPT ![d] = EndPass(n(open), up)]
    BY Zenon DEF Reopen
  <2>2. open \in BOOLEAN
    <3>1. up \in BOOLEAN
      OBVIOUS
    <3> HIDE DEF up
    <3> QED BY <2>1, <3>1
  <2> QED BY <2>1, <2>2
<1>2. PICK open \in BOOLEAN : driver' = [driver EXCEPT ![d] = EndPass(n(open), up)]
  BY <1>1
<1> DEFINE m == EndPass(n(open), up)
<1>3. /\ driver[d].pc = "reopening" /\ driver' = [driver EXCEPT ![d] = m]
      /\ settled' = [settled EXCEPT ![d] = Ongoing]
      /\ UNCHANGED <<receiver, boot, holder, faults>>
  BY <1>2 DEF Reopen
<1>4. n(open) \in DriverStates /\ n(open).pc = "idle" /\ n(open).pulser = "none"
  <2>1. driver[d] \in DriverStates /\ up \in BOOLEAN /\ 0 \in 0 .. WatchdogTimeout
    BY Constants DEF IInv, TypeOK
  <2> HIDE DEF up
  <2> QED BY <2>1 DEF DriverStates
<1>5. up \in BOOLEAN
  OBVIOUS
<1> HIDE DEF n, up
<1>6. m \in DriverStates /\ m.pc = "idle" /\ m.pulser = "none"
  BY <1>4, <1>5, EndPassTyped
<1> HIDE DEF m
<1>7. /\ settled' \in [Drivers -> Ongoing .. CycleTime]
      /\ \A e \in Drivers : e # d => settled'[e] = settled[e]
  BY <1>3, Constants DEF IInv, TypeOK, Ongoing
<1>8. Shape(d)'
  BY <1>3, <1>6, OneUpdated DEF IInv, Shape
<1> QED BY <1>3, <1>6, <1>7, <1>8, OwnStep DEF IInv, TypeOK

-----------------------------------------------------------------------------
(* The pulse itself, and time.                                             *)

\* The line is requested when nobody holds it, and so when nobody waits for
\* the end of a pulse.
LEMMA AssertLineKeeps ==
  ASSUME IInv, NEW d \in Drivers, AssertLine(d) PROVE IInv'
<1>1. /\ driver[d].pc = "requesting" /\ holder = "none" /\ holder' = d
      /\ receiver' = [e \in Drivers |-> IF receiver[e] = "dead" THEN "dead" ELSE "held"]
      /\ UNCHANGED <<boot, faults, settled>>
  BY DEF AssertLine
<1>2. PICK survivors \in SUBSET Drivers :
        driver' = [e \in Drivers |->
          LET n == [driver[e] EXCEPT !.link = @ /\ e \in survivors] IN
          IF e = d THEN [n EXCEPT !.pc = "driving", !.wait = ResetTime, !.pulser = d] ELSE n]
  BY DEF AssertLine
<1> DEFINE n(e) == [driver[e] EXCEPT !.link = @ /\ e \in survivors]
           m == [n(d) EXCEPT !.pc = "driving", !.wait = ResetTime, !.pulser = d]
<1>3. \A e \in Drivers :
        /\ n(e) \in DriverStates
        /\ n(e).pc = driver[e].pc /\ n(e).wait = driver[e].wait /\ n(e).pulser = driver[e].pulser
        /\ n(e).pulses = driver[e].pulses /\ n(e).outcome = driver[e].outcome
  <2> SUFFICES ASSUME NEW e \in Drivers
               PROVE  /\ n(e) \in DriverStates
                      /\ n(e).pc = driver[e].pc /\ n(e).wait = driver[e].wait
                      /\ n(e).pulser = driver[e].pulser
                      /\ n(e).pulses = driver[e].pulses /\ n(e).outcome = driver[e].outcome
    OBVIOUS
  <2>1. driver[e] \in DriverStates
    BY DEF IInv, TypeOK
  <2>2. (driver[e].link /\ e \in survivors) \in BOOLEAN
    OBVIOUS
  <2> QED BY <2>1, <2>2 DEF DriverStates
<1>4. driver' = [e \in Drivers |-> IF e = d THEN m ELSE n(e)]
  BY <1>2
<1> HIDE DEF n
<1>5. /\ m \in DriverStates /\ m.pc = "driving" /\ m.wait = ResetTime /\ m.pulser = d
      /\ m.pulses = driver[d].pulses
  <2>1. ResetTime \in 0 .. (ResetTime + CycleTime) /\ n(d) \in DriverStates
    BY <1>3, Constants
  <2> QED BY <1>3, <2>1 DEF DriverStates
<1> HIDE DEF m
<1>6. TypeOK'
  <2>1. driver' \in [Drivers -> DriverStates]
    BY <1>3, <1>4, <1>5
  <2> QED BY <1>1, <2>1 DEF IInv, TypeOK, Receivers
<1>7. /\ driver'[d] = m
      /\ \A e \in Drivers : e # d => driver'[e] = n(e)
  BY <1>4
<1>8. \A e \in Drivers : driver[e].pc # "driving"
  BY <1>1, Constants DEF IInv, HolderDrives
<1>9. HolderDrives'
  BY <1>1, <1>3, <1>5, <1>7, <1>8 DEF HolderDrives
<1>10. Shape(d)'
  BY <1>1, <1>5, <1>7, Constants DEF IInv, Shape
<1>11. ASSUME NEW e \in Drivers, e # d PROVE Shape(e)'
  <2>1. /\ driver'[e].pc = driver[e].pc /\ driver'[e].wait = driver[e].wait
        /\ driver'[e].pulser = driver[e].pulser /\ driver'[e].pulses = driver[e].pulses
        /\ driver'[e].outcome = driver[e].outcome /\ settled'[e] = settled[e]
    BY <1>1, <1>3, <1>7, <1>11
  <2>2. driver[e].pc = "settling" => WaitsOut(e)'
    BY <1>8, <2>1 DEF IInv, Shape, WaitsOut
  <2> QED BY <2>1, <2>2 DEF IInv, Shape
<1> QED BY <1>6, <1>9, <1>10, <1>11 DEF IInv

\* The pulse ends for all who wait it out: for the driver that issued it and
\* for those that found it going on.
LEMMA ReleaseLineKeeps ==
  ASSUME IInv, NEW d \in Drivers, ReleaseLine(d) PROVE IInv'
<1> DEFINE m == SpendPulse(PulseDone(driver[d]), "issued")
<1>1. /\ driver[d].pc = "driving" /\ driver[d].wait = 0 /\ holder = d /\ holder' = "none"
      /\ driver' = [driver EXCEPT ![d] = m]
      /\ settled' = [e \in Drivers |->
           IF settled[e] = Ongoing /\ driver[e].pulser = d THEN 0 ELSE settled[e]]
      /\ UNCHANGED faults
  BY DEF ReleaseLine, IInv, TypeOK, HolderDrives
<1>2. /\ m \in DriverStates /\ m.pc = "settling" /\ m.pulser = d /\ m.wait = CycleTime
  <2>1. /\ driver[d] \in DriverStates /\ driver[d].pulser = d
        /\ driver[d].pulses + 1 \in 0 .. GpioPulseLimit
        /\ CycleTime \in 0 .. (ResetTime + CycleTime)
    BY <1>1, Constants DEF IInv, TypeOK, Shape, DriverStates
  <2> QED BY <2>1 DEF SpendPulse, PulseDone, DriverStates, ResetPulse
<1> HIDE DEF m
<1>3. /\ driver' \in [Drivers -> DriverStates] /\ driver'[d] = m
      /\ \A e \in Drivers : e # d => driver'[e] = driver[e]
  BY <1>1, <1>2, OneUpdated DEF IInv
<1>4. TypeOK'
  <2>1. receiver' \in [Drivers -> Receivers]
    BY DEF ReleaseLine, IInv, TypeOK, Receivers
  <2>2. boot' \in [Drivers -> Nat]
    BY LineAssumption DEF ReleaseLine, IInv, TypeOK
  <2>3. settled' \in [Drivers -> Ongoing .. CycleTime]
    BY <1>1, Constants DEF IInv, TypeOK, Ongoing
  <2> QED BY <1>1, <1>3, <2>1, <2>2, <2>3 DEF IInv, TypeOK
<1>5. \A e \in Drivers : driver[e].pc = "driving" => e = d
  BY <1>1 DEF IInv, HolderDrives
<1>6. HolderDrives'
  BY <1>1, <1>2, <1>3, <1>5, Constants DEF HolderDrives
<1>7. Shape(d)'
  <2>1. driver'[d].pc = "settling" /\ driver'[d].pulser = d /\ driver'[d].wait = CycleTime
    BY <1>2, <1>3
  <2>2. settled'[d] = 0
    BY <1>1 DEF IInv, Shape
  <2>3. WaitsOut(d)'
    BY <2>1, <2>2, Constants DEF WaitsOut, Ongoing
  <2> QED BY <2>1, <2>3 DEF Shape
<1>8. ASSUME NEW e \in Drivers, e # d PROVE Shape(e)'
  <2>1. driver'[e] = driver[e] /\ driver[e].pc # "driving"
    BY <1>3, <1>5, <1>8
  <2>2. /\ settled[e] = Ongoing /\ driver[e].pulser = d => settled'[e] = 0
        /\ ~(settled[e] = Ongoing /\ driver[e].pulser = d) => settled'[e] = settled[e]
    BY <1>1
  <2>3. driver[e].pc = "settling" => WaitsOut(e)'
    <3> SUFFICES ASSUME driver[e].pc = "settling" PROVE WaitsOut(e)'
      OBVIOUS
    <3>1. WaitsOut(e)
      BY DEF IInv, Shape
    <3>2. CASE settled[e] = Ongoing
      <4>1. driver[e].pulser = d /\ driver[e].wait >= driver[d].wait + CycleTime
        BY <1>5, <3>1, <3>2 DEF WaitsOut
      <4>2. settled'[e] = 0 /\ driver'[e].wait >= CycleTime
        BY <1>1, <2>1, <2>2, <3>2, <4>1, Constants
      <4>3. driver'[e].wait \in Int
        BY <1>3 DEF DriverStates
      <4> QED BY <2>1, <3>1, <4>2, <4>3, Constants DEF WaitsOut, Ongoing
    <3>3. CASE settled[e] # Ongoing
      BY <2>1, <2>2, <3>1, <3>3 DEF WaitsOut
    <3> QED BY <3>2, <3>3
  <2>4. driver[e].pc = "requesting" => settled'[e] = settled[e]
    BY <2>2, Constants DEF IInv, Shape
  <2>5. settled[e] = CycleTime => settled'[e] = CycleTime
    BY <2>2, Constants DEF Ongoing
  <2> QED BY <2>1, <2>3, <2>4, <2>5 DEF IInv, Shape
<1> QED BY <1>4, <1>6, <1>7, <1>8 DEF IInv

LEMMA FaultKeeps ==
  ASSUME IInv, NEW d \in Drivers, Fault(d) PROVE IInv'
<1>1. /\ faults[d] < MaxFaults /\ faults' = [faults EXCEPT ![d] = @ + 1]
      /\ \/ UNCHANGED driver
         \/ driver' = [driver EXCEPT ![d].link = FALSE]
      /\ UNCHANGED <<boot, holder, settled>>
  BY DEF Fault
<1>2. /\ driver' \in [Drivers -> DriverStates]
      /\ \A e \in Drivers : /\ driver'[e].pc = driver[e].pc /\ driver'[e].wait = driver[e].wait
                            /\ driver'[e].pulser = driver[e].pulser
                            /\ driver'[e].pulses = driver[e].pulses
                            /\ driver'[e].outcome = driver[e].outcome
  <2>1. CASE UNCHANGED driver
    BY <2>1 DEF IInv, TypeOK
  <2>2. CASE driver' = [driver EXCEPT ![d].link = FALSE]
    <3> DEFINE m == [driver[d] EXCEPT !.link = FALSE]
    <3>1. driver' = [driver EXCEPT ![d] = m]
      BY <2>2
    <3>2. /\ m \in DriverStates /\ m.pc = driver[d].pc /\ m.wait = driver[d].wait
          /\ m.pulser = driver[d].pulser /\ m.pulses = driver[d].pulses
          /\ m.outcome = driver[d].outcome
      <4>1. driver[d] \in DriverStates
        BY DEF IInv, TypeOK
      <4> QED BY <4>1 DEF DriverStates
    <3> HIDE DEF m
    <3> QED BY <3>1, <3>2, OneUpdated DEF IInv
  <2> QED BY <1>1, <2>1, <2>2
<1>3. receiver' \in [Drivers -> Receivers]
  BY DEF Fault, IInv, TypeOK, Receivers
<1>4. faults' \in [Drivers -> 0 .. MaxFaults]
  BY <1>1, Constants DEF IInv, TypeOK
<1>5. TypeOK'
  BY <1>1, <1>2, <1>3, <1>4 DEF IInv, TypeOK
<1> QED BY <1>1, <1>2, <1>5, CourseKept

LEMMA OtherReleasesKeeps == IInv /\ OtherReleases => IInv'
<1> SUFFICES ASSUME IInv, OtherReleases PROVE IInv'
  OBVIOUS
<1>1. /\ holder = "other" /\ holder' = "none"
      /\ UNCHANGED <<driver, receiver, boot, faults, settled>>
  BY DEF OtherReleases
<1>2. TypeOK'
  BY <1>1 DEF IInv, TypeOK
<1> QED BY <1>1, <1>2, Constants, CourseKept

\* All clocks advance together: neither the lead of a sleep over a pulse nor
\* the sum of what has passed and what is left changes.
LEMMA TickKeeps == IInv /\ Tick => IInv'
<1> SUFFICES ASSUME IInv, Tick PROVE IInv'
  OBVIOUS
<1> DEFINE m(e) == [driver[e] EXCEPT !.wait = IF Asleep(e) THEN @ - 1 ELSE @,
                                     !.silence = Least(@ + 1, WatchdogTimeout),
                                     !.backoff = IF @ = 0 THEN 0 ELSE @ - 1]
<1>1. /\ driver' = [e \in Drivers |-> m(e)]
      /\ settled' = [e \in Drivers |->
           IF settled[e] = Ongoing THEN Ongoing ELSE Least(settled[e] + 1, CycleTime)]
      /\ \A e \in Drivers : /\ driver[e].pc \notin {"requesting", "reopening"}
                            /\ Asleep(e) => driver[e].wait > 0
      /\ UNCHANGED <<holder, faults>>
  BY DEF Tick
<1>2. \A e \in Drivers :
        /\ m(e) \in DriverStates /\ m(e).pc = driver[e].pc /\ m(e).pulser = driver[e].pulser
        /\ m(e).pulses = driver[e].pulses
        /\ Asleep(e) => m(e).wait = driver[e].wait - 1
  <2> SUFFICES ASSUME NEW e \in Drivers
               PROVE  /\ m(e) \in DriverStates /\ m(e).pc = driver[e].pc
                      /\ m(e).pulser = driver[e].pulser /\ m(e).pulses = driver[e].pulses
                      /\ Asleep(e) => m(e).wait = driver[e].wait - 1
    OBVIOUS
  <2> DEFINE w == IF Asleep(e) THEN driver[e].wait - 1 ELSE driver[e].wait
             s == Least(driver[e].silence + 1, WatchdogTimeout)
             b == IF driver[e].backoff = 0 THEN 0 ELSE driver[e].backoff - 1
  <2>1. driver[e] \in DriverStates
    BY DEF IInv, TypeOK
  <2>2. w \in 0 .. (ResetTime + CycleTime) /\ s \in 0 .. WatchdogTimeout /\ b \in 0 .. BackoffMax
    <3>1. /\ driver[e].wait \in 0 .. (ResetTime + CycleTime)
          /\ driver[e].silence \in 0 .. WatchdogTimeout /\ driver[e].backoff \in 0 .. BackoffMax
          /\ Asleep(e) => driver[e].wait > 0
      BY <1>1, <2>1 DEF DriverStates
    <3> QED BY <3>1, Constants DEF Least
  <2>3. m(e) = [driver[e] EXCEPT !.wait = w, !.silence = s, !.backoff = b]
    OBVIOUS
  <2>4. Asleep(e) => w = driver[e].wait - 1
    OBVIOUS
  <2> HIDE DEF w, s, b
  <2> QED BY <2>1, <2>2, <2>3, <2>4 DEF DriverStates
<1> HIDE DEF m
<1>3. TypeOK'
  <2>1. driver' \in [Drivers -> DriverStates]
    BY <1>1, <1>2
  <2>2. settled' \in [Drivers -> Ongoing .. CycleTime]
    <3>1. \A e \in Drivers : settled[e] \in Ongoing .. CycleTime
      BY DEF IInv, TypeOK
    <3> QED BY <1>1, <3>1, Constants DEF Ongoing, Least
  <2>3. receiver' \in [Drivers -> Receivers]
    BY DEF Tick, IInv, TypeOK, Receivers
  <2>4. boot' \in [Drivers -> Nat]
    <3>1. \A e \in Drivers : boot[e] \in Nat
      BY DEF IInv, TypeOK
    <3>2. boot' = [e \in Drivers |-> IF boot[e] = 0 THEN 0 ELSE boot[e] - 1]
      BY DEF Tick
    <3> QED BY <3>1, <3>2
  <2> QED BY <1>1, <2>1, <2>2, <2>3, <2>4 DEF IInv, TypeOK
<1>4. \A e \in Drivers : driver'[e] = m(e)
  BY <1>1
<1>5. HolderDrives'
  BY <1>1, <1>2, <1>4 DEF IInv, HolderDrives
<1>6. ASSUME NEW e \in Drivers PROVE Shape(e)'
  <2>1. /\ driver'[e].pc = driver[e].pc /\ driver'[e].pulser = driver[e].pulser
        /\ driver'[e].pulses = driver[e].pulses
        /\ Asleep(e) => driver'[e].wait = driver[e].wait - 1
        /\ driver[e].pc \notin {"requesting", "reopening"}
        /\ driver[e].wait \in Nat /\ settled[e] \in Ongoing .. CycleTime
    BY <1>1, <1>2, <1>4 DEF IInv, TypeOK, DriverStates
  <2>2. /\ settled[e] = Ongoing => settled'[e] = Ongoing
        /\ settled[e] # Ongoing => settled'[e] = Least(settled[e] + 1, CycleTime)
    BY <1>1
  <2>3. CASE driver[e].pc = "driving"
    <3>1. driver'[e].wait <= ResetTime
      BY <2>1, <2>3, Constants DEF Asleep, IInv, Shape
    <3> QED BY <2>1, <2>2, <2>3, <3>1 DEF IInv, Shape
  <2>4. CASE driver[e].pc = "settling"
    <3>1. WaitsOut(e) /\ driver'[e].wait = driver[e].wait - 1
      BY <2>1, <2>4 DEF IInv, Shape, Asleep
    <3>2. CASE settled[e] = Ongoing
      <4> DEFINE p == driver[e].pulser
      <4>1. /\ p \in Drivers /\ driver[p].pc = "driving"
            /\ driver[e].wait >= driver[p].wait + CycleTime
        BY <3>1, <3>2 DEF WaitsOut
      <4>2. driver'[p].pc = "driving" /\ driver'[p].wait = driver[p].wait - 1
            /\ driver[p].wait \in Nat
        BY <1>2, <1>4, <4>1 DEF Asleep, IInv, TypeOK, DriverStates
      <4>3. driver'[e].wait >= driver'[p].wait + CycleTime
        <5> HIDE DEF p
        <5> QED BY <2>1, <3>1, <4>1, <4>2, Constants
      <4>4. settled'[e] = Ongoing /\ driver'[e].pulser = p
        BY <2>1, <2>2, <3>2
      <4>5. WaitsOut(e)'
        BY <4>1, <4>2, <4>3, <4>4 DEF WaitsOut
      <4> QED BY <2>1, <2>4, <4>5 DEF Shape
    <3>3. CASE settled[e] # Ongoing
      <4>1. settled'[e] # Ongoing /\ settled'[e] + driver'[e].wait >= CycleTime
        BY <1>1, <2>1, <2>2, <2>4, <3>1, <3>3, Constants DEF WaitsOut, Least, Ongoing, Asleep
      <4>2. WaitsOut(e)'
        BY <2>1, <3>1, <4>1 DEF WaitsOut
      <4> QED BY <2>1, <2>4, <4>2 DEF Shape
    <3> QED BY <3>2, <3>3
  <2>5. CASE driver[e].pc = "idle"
    BY <2>1, <2>5 DEF IInv, Shape
  <2>6. driver[e].pc \in {"idle", "driving", "settling"}
    BY <2>1 DEF IInv, TypeOK, DriverStates
  <2> QED BY <2>3, <2>4, <2>5, <2>6
<1> QED BY <1>3, <1>5, <1>6 DEF IInv

-----------------------------------------------------------------------------
(* The invariant, and what it implies.                                     *)

LEMMA StepKeeps == IInv /\ [Next]_vars => IInv'
<1> SUFFICES ASSUME IInv, [Next]_vars PROVE IInv'
  OBVIOUS
<1>1. ASSUME NEW d \in Drivers, FixCallback(d) \/ Fault(d) PROVE IInv'
  BY <1>1, FixCallbackKeeps, FaultKeeps
<1>2. ASSUME NEW d \in Drivers, Recovery(d) PROVE IInv'
  BY <1>2, SoftRungKeeps, HardwareRungKeeps, AssertLineKeeps, LoseRaceKeeps, ReleaseLineKeeps,
     WakeUpKeeps, ReopenKeeps DEF Recovery
<1>3. CASE OtherReleases
  BY <1>3, OtherReleasesKeeps
<1>4. CASE Tick
  BY <1>4, TickKeeps
<1>5. CASE UNCHANGED vars
  <2>1. UNCHANGED <<driver, receiver, boot, holder, faults, settled>>
    BY <1>5 DEF vars
  <2>2. TypeOK'
    BY <2>1 DEF IInv, TypeOK
  <2> QED BY <2>1, <2>2, CourseKept
<1> QED BY <1>1, <1>2, <1>3, <1>4, <1>5 DEF Next

LEMMA Inductive == Spec => []IInv
BY InitEstablishes, StepKeeps, PTL DEF Spec

\* Every variable keeps its type; among them, no driver's ladder spends more
\* than gpio_pulse_limit pulses of the shared line, its peer's included.
THEOREM TypeCorrect == Spec => []TypeOK
<1>1. IInv => TypeOK
  BY DEF IInv
<1> QED BY <1>1, Inductive, PTL

\* recovery() after kIssued and after kPeerDriving: whichever driver drove the
\* line, and however far the pulse was when it was noticed, the connection is
\* reopened a full boot interval after that pulse ended.
THEOREM PulseAlwaysWaitedOut == Spec => []PulseWaitedOut
<1>1. IInv => PulseWaitedOut
  BY DEF IInv, Shape, PulseWaitedOut
<1> QED BY <1>1, Inductive, PTL

\* resetGpioLine() holds the line from request() to release(): the holder is
\* the one driver that drives it, and no two drive it at once.
THEOREM LineDrivenByItsHolder ==
  Spec => [](/\ \A d \in Drivers : driver[d].pc = "driving" <=> holder = d
             /\ \A d, e \in Drivers :
                  driver[d].pc = "driving" /\ driver[e].pc = "driving" => d = e)
<1>1. IInv => /\ \A d \in Drivers : driver[d].pc = "driving" <=> holder = d
              /\ \A d, e \in Drivers :
                   driver[d].pc = "driving" /\ driver[e].pc = "driving" => d = e
  BY DEF IInv, HolderDrives
<1> QED BY <1>1, Inductive, PTL

-----------------------------------------------------------------------------
(* Why one receiver's trouble does not echo: the driver of the other sees   *)
(* data again before its own ladder reaches the line, and before the next  *)
(* pulse.                                                                  *)

\* The least time from the end of a pulse's boot interval to the next pulse of
\* the same driver: the backoff of its third pass or a later one; or, if data
\* came in between, a whole climb from the first rung.
Quiet == Least(Backoff(2), WatchdogTimeout + Backoff(0) + Backoff(1))

\* Two drivers at most; a receiver streams again before its driver's watchdog
\* bites; and a pulse comes only after the one before it has been got over, by
\* a reopen where the port was lost.
PulsesSpaced ==
  /\ \A d, e, f \in Drivers : d = e \/ e = f \/ d = f
  /\ \A b \in BootTimes : MaxFixGap + ResetTime + b <= WatchdogTimeout
  /\ WatchdogTimeout + MaxFixGap < ResetTime + CycleTime + Quiet

\* The ladder is climbed rung by rung, and without data only by failed passes.
Ladder(n) ==
  /\ n.stage = "device" => n.attempts >= 1
  /\ n.stage = "hardware" => n.attempts >= 2
  /\ n.pc \in {"requesting", "driving", "settling"} => n.stage = "hardware"
  /\ n.pc = "idle" /\ n.stage = "reopen" => n.active
  /\ n.pending => n.pc = "idle" /\ ~n.active

\* The backoffs between a pass at this rung and the line.
Climb(stage) ==
  CASE stage = "reopen"   -> Backoff(0) + Backoff(1)
    [] stage = "device"   -> Backoff(1)
    [] stage = "hardware" -> 0

\* A driver does not assert the line earlier than this from now.
NextPulse(n) ==
  CASE n.pc = "requesting" -> 0
    [] n.pc = "driving"    -> n.wait + CycleTime + Quiet
    [] n.pc = "settling"   -> n.wait + Quiet
    [] n.pc = "reopening"  ->
         IF n.stage = "hardware" THEN Quiet ELSE Least(Climb(n.stage), Quiet)
    [] n.pc = "idle" ->
         IF n.stage = "reopen" THEN Least(WatchdogTimeout - n.silence + Climb("reopen"), Quiet)
                               ELSE Least(n.backoff + Climb(n.stage), Quiet)

\* No other driver asserts the line for a time t.
Clear(d, t) == \A p \in Drivers \ {d} : NextPulse(driver[p]) > t

AtFirstRung(d) == driver[d].pc = "idle" /\ driver[d].stage = "reopen" /\ driver[d].backoff = 0

Calm(d) == AtFirstRung(d) /\ Streaming(d) /\ driver[d].silence <= MaxFixGap

\* The receiver will be up before the silence is noticed.
UpInTime(d) ==
  \/ /\ receiver[d] = "held"
     /\ \E p \in Drivers \ {d} :
          /\ driver[p].pc = "driving"
          /\ \A b \in BootTimes : driver[d].silence + driver[p].wait + b <= WatchdogTimeout
  \/ receiver[d] = "booting" /\ boot[d] > 0 /\ driver[d].silence + boot[d] <= WatchdogTimeout
  \/ receiver[d] = "ok"

\* Reset by a peer's pulse, and not yet heard of again.
Hit(d) ==
  /\ AtFirstRung(d) /\ UpInTime(d)
  /\ Clear(d, WatchdogTimeout - driver[d].silence + MaxFixGap)

\* In the reopen that brings back a port lost with the pulse, and after it.
Returning(d) ==
  /\ driver[d].pc = "reopening" /\ driver[d].stage = "reopen" /\ receiver[d] = "ok"
  /\ Clear(d, MaxFixGap)

Back(d) ==
  /\ driver[d].pc = "idle" /\ driver[d].stage = "device"
  /\ Streaming(d) /\ driver[d].silence <= MaxFixGap
  /\ Clear(d, MaxFixGap - driver[d].silence)

Unscathed(d) == Calm(d) \/ Hit(d) \/ Returning(d) \/ Back(d)

EchoInv ==
  /\ \A d \in Drivers : Ladder(driver[d])
  /\ \A d \in Drivers : faults[d] = 0 => Unscathed(d)

-----------------------------------------------------------------------------

LEMMA Delays ==
  /\ Backoff(0) \in Nat \ {0} /\ Backoff(1) \in Nat \ {0} /\ Backoff(2) \in Nat \ {0}
  /\ Quiet \in Nat /\ Quiet <= Backoff(2)
  /\ Quiet <= WatchdogTimeout + Backoff(0) + Backoff(1)
<1>1. Backoff(0) \in Nat \ {0} /\ Backoff(1) \in Nat \ {0} /\ Backoff(2) \in Nat \ {0}
  <2>1. \A a \in Nat : Backoff(a) \in Nat \ {0}
    BY BackoffRange, Constants
  <2> QED BY <2>1
<1> QED BY <1>1, Constants DEF Quiet, Least

\* The members NextPulse reads, case by case.
LEMMA NextPulseIs ==
  ASSUME NEW n \in DriverStates
  PROVE  /\ n.pc = "requesting" => NextPulse(n) = 0
         /\ n.pc = "driving" => NextPulse(n) = n.wait + CycleTime + Quiet
         /\ n.pc = "settling" => NextPulse(n) = n.wait + Quiet
         /\ n.pc = "reopening" =>
              /\ n.stage = "hardware" => NextPulse(n) = Quiet
              /\ n.stage = "device" => NextPulse(n) = Least(Backoff(1), Quiet)
              /\ n.stage = "reopen" => NextPulse(n) = Least(Backoff(0) + Backoff(1), Quiet)
         /\ n.pc = "idle" =>
              /\ n.stage = "hardware" => NextPulse(n) = Least(n.backoff, Quiet)
              /\ n.stage = "device" => NextPulse(n) = Least(n.backoff + Backoff(1), Quiet)
              /\ n.stage = "reopen" =>
                   NextPulse(n) = Least(WatchdogTimeout - n.silence + Backoff(0) + Backoff(1), Quiet)
<1>1. /\ Climb("reopen") = Backoff(0) + Backoff(1) /\ Climb("device") = Backoff(1)
      /\ Climb("hardware") = 0
  BY DEF Climb
<1>2. /\ n.pc = "requesting" => NextPulse(n) = 0
      /\ n.pc = "driving" => NextPulse(n) = n.wait + CycleTime + Quiet
      /\ n.pc = "settling" => NextPulse(n) = n.wait + Quiet
      /\ n.pc = "reopening" =>
           NextPulse(n) = IF n.stage = "hardware" THEN Quiet ELSE Least(Climb(n.stage), Quiet)
      /\ n.pc = "idle" => NextPulse(n) =
           IF n.stage = "reopen" THEN Least(WatchdogTimeout - n.silence + Climb("reopen"), Quiet)
                                 ELSE Least(n.backoff + Climb(n.stage), Quiet)
  BY DEF NextPulse
<1>3. n.backoff \in Nat /\ n.silence \in 0 .. WatchdogTimeout
  BY Constants DEF DriverStates
<1>4. /\ n.backoff + 0 = n.backoff
      /\ WatchdogTimeout - n.silence + (Backoff(0) + Backoff(1))
           = WatchdogTimeout - n.silence + Backoff(0) + Backoff(1)
  BY <1>3, Delays, Constants
<1> QED BY <1>1, <1>2, <1>4

LEMMA NextPulseNat ==
  ASSUME NEW n \in DriverStates
  PROVE  /\ NextPulse(n) \in Nat
         /\ n.pc \in {"idle", "reopening"} => NextPulse(n) <= Quiet
<1>1. n.backoff \in Nat /\ n.silence \in 0 .. WatchdogTimeout /\ n.wait \in Nat
  BY Constants DEF DriverStates
<1>2. /\ n.pc \in {"idle", "requesting", "driving", "settling", "reopening"}
      /\ n.stage \in {"reopen", "device", "hardware"}
  BY DEF DriverStates, Stages
<1>3. ASSUME NEW i \in Nat PROVE Least(i, Quiet) \in Nat /\ Least(i, Quiet) <= Quiet
  BY Delays DEF Least
<1>4. /\ WatchdogTimeout - n.silence + Backoff(0) + Backoff(1) \in Nat
      /\ n.backoff + Backoff(1) \in Nat /\ Backoff(0) + Backoff(1) \in Nat
      /\ n.wait + Quiet \in Nat /\ n.wait + CycleTime + Quiet \in Nat /\ Quiet <= Quiet
  BY <1>1, Delays, Constants
<1>5. CASE n.pc = "idle"
  <2>1. \/ NextPulse(n) = Least(n.backoff, Quiet)
        \/ NextPulse(n) = Least(n.backoff + Backoff(1), Quiet)
        \/ NextPulse(n) = Least(WatchdogTimeout - n.silence + Backoff(0) + Backoff(1), Quiet)
    BY <1>2, <1>5, NextPulseIs
  <2> QED BY <1>1, <1>3, <1>4, <2>1
<1>6. CASE n.pc = "reopening"
  <2>1. \/ NextPulse(n) = Quiet
        \/ NextPulse(n) = Least(Backoff(1), Quiet)
        \/ NextPulse(n) = Least(Backoff(0) + Backoff(1), Quiet)
    BY <1>2, <1>6, NextPulseIs
  <2> QED BY <1>3, <1>4, <2>1, Delays
<1>7. CASE n.pc \in {"requesting", "driving", "settling"}
  <2>1. NextPulse(n) = 0 \/ NextPulse(n) = n.wait + CycleTime + Quiet
          \/ NextPulse(n) = n.wait + Quiet
    BY <1>7, NextPulseIs
  <2> QED BY <1>4, <1>7, <2>1
<1> QED BY <1>2, <1>5, <1>6, <1>7

\* What the condition comes to where it is used.
LEMMA Spaced ==
  ASSUME PulsesSpaced
  PROVE  /\ MaxFixGap < WatchdogTimeout /\ MaxFixGap \in Nat
         /\ \A b \in BootTimes : b \in Nat \ {0} /\ MaxFixGap + ResetTime + b <= WatchdogTimeout
         /\ WatchdogTimeout + MaxFixGap < ResetTime + CycleTime + Quiet
<1>1. PICK b \in BootTimes : b \in Nat \ {0}
  BY LineAssumption
<1>2. MaxFixGap \in Nat /\ \A c \in BootTimes : c \in Nat \ {0}
  BY LineAssumption
<1>3. MaxFixGap + ResetTime + b <= WatchdogTimeout
  BY <1>1 DEF PulsesSpaced
<1> QED BY <1>1, <1>2, <1>3, Constants DEF PulsesSpaced

-----------------------------------------------------------------------------
(* Steps of a driver that leave the line alone.                            *)

\* A driver is as well off as before if nobody else has come closer to a pulse.
LEMMA UnscathedKept ==
  ASSUME TypeOK, TypeOK', NEW d \in Drivers, Unscathed(d),
         driver'[d] = driver[d], receiver'[d] = receiver[d], boot'[d] = boot[d],
         \A p \in Drivers \ {d} : NextPulse(driver'[p]) >= NextPulse(driver[p]),
         receiver[d] = "held" =>
           \A p \in Drivers \ {d} :
             driver[p].pc = "driving" =>
               driver'[p].pc = "driving" /\ driver'[p].wait = driver[p].wait
  PROVE  Unscathed(d)'
<1>1. \A t \in Int : Clear(d, t) => Clear(d, t)'
  <2> SUFFICES ASSUME NEW t \in Int, Clear(d, t), NEW p \in Drivers \ {d}
               PROVE  NextPulse(driver'[p]) > t
    BY DEF Clear
  <2>1. driver[p] \in DriverStates /\ driver'[p] \in DriverStates
    BY DEF TypeOK
  <2>2. NextPulse(driver[p]) \in Nat /\ NextPulse(driver'[p]) \in Nat
    BY <2>1, NextPulseNat
  <2> QED BY <2>2 DEF Clear
<1>2. /\ WatchdogTimeout - driver[d].silence + MaxFixGap \in Int
      /\ MaxFixGap - driver[d].silence \in Int /\ MaxFixGap \in Int
  BY LineAssumption DEF TypeOK, DriverStates
<1>3. AtFirstRung(d) => AtFirstRung(d)'
  BY DEF AtFirstRung
<1>4. Streaming(d) => Streaming(d)'
  BY DEF Streaming
<1>5. UpInTime(d) => UpInTime(d)'
  <2> SUFFICES ASSUME UpInTime(d) PROVE UpInTime(d)'
    OBVIOUS
  <2>1. CASE receiver[d] = "held"
    <3>1. PICK p \in Drivers \ {d} :
            /\ driver[p].pc = "driving"
            /\ \A b \in BootTimes : driver[d].silence + driver[p].wait + b <= WatchdogTimeout
      BY <2>1 DEF UpInTime
    <3>2. driver'[p].pc = "driving" /\ driver'[p].wait = driver[p].wait
      BY <2>1, <3>1
    <3> QED BY <2>1, <3>1, <3>2 DEF UpInTime
  <2>2. CASE receiver[d] # "held"
    BY <2>2 DEF UpInTime
  <2> QED BY <2>1, <2>2
<1>6. CASE Calm(d)
  BY <1>3, <1>4, <1>6 DEF Unscathed, Calm
<1>7. CASE Hit(d)
  <2>1. Clear(d, WatchdogTimeout - driver[d].silence + MaxFixGap)'
    BY <1>1, <1>2, <1>7 DEF Hit, Clear
  <2>2. Hit(d)'
    BY <1>3, <1>5, <1>7, <2>1 DEF Hit
  <2> QED BY <2>2 DEF Unscathed
<1>8. CASE Returning(d)
  <2>1. Clear(d, MaxFixGap)'
    BY <1>1, <1>2, <1>8 DEF Returning
  <2>2. Returning(d)'
    BY <1>8, <2>1 DEF Returning
  <2> QED BY <2>2 DEF Unscathed
<1>9. CASE Back(d)
  <2>1. Clear(d, MaxFixGap - driver[d].silence)'
    BY <1>1, <1>2, <1>9 DEF Back, Clear
  <2>2. Back(d)'
    BY <1>4, <1>9, <2>1 DEF Back
  <2> QED BY <2>2 DEF Unscathed
<1> QED BY <1>6, <1>7, <1>8, <1>9 DEF Unscathed

\* A step of one driver that brings it no closer to a pulse harms no other.
LEMMA OthersUnscathed ==
  ASSUME IInv, TypeOK', EchoInv, NEW e \in Drivers, NEW m \in DriverStates,
         driver' = [driver EXCEPT ![e] = m],
         driver[e].pc # "driving",
         Ladder(m), NextPulse(m) >= NextPulse(driver[e]),
         UNCHANGED faults,
         \A d \in Drivers \ {e} : receiver'[d] = receiver[d] /\ boot'[d] = boot[d],
         faults[e] = 0 => Unscathed(e)'
  PROVE  EchoInv'
<1>1. /\ driver'[e] = m /\ \A d \in Drivers : d # e => driver'[d] = driver[d]
  BY OneUpdated DEF IInv
<1>2. ASSUME NEW d \in Drivers PROVE Ladder(driver'[d])
  BY <1>1 DEF EchoInv
<1>3. ASSUME NEW d \in Drivers, faults'[d] = 0, d # e PROVE Unscathed(d)'
  <2>1. TypeOK /\ Unscathed(d) /\ driver'[d] = driver[d]
    BY <1>1, <1>3 DEF EchoInv, IInv
  <2>2. receiver'[d] = receiver[d] /\ boot'[d] = boot[d]
    BY <1>3
  <2>3. ASSUME NEW p \in Drivers \ {d} PROVE NextPulse(driver'[p]) >= NextPulse(driver[p])
    <3>1. CASE p = e
      BY <1>1, <3>1
    <3>2. CASE p # e
      <4>1. NextPulse(driver[p]) \in Nat
        BY <2>1, NextPulseNat DEF TypeOK
      <4> QED BY <1>1, <3>2, <4>1
    <3> QED BY <3>1, <3>2
  <2>4. \A p \in Drivers \ {d} : driver[p].pc = "driving" =>
          driver'[p].pc = "driving" /\ driver'[p].wait = driver[p].wait
    BY <1>1
  <2> QED BY <2>1, <2>2, <2>3, <2>4, UnscathedKept
<1> QED BY <1>2, <1>3 DEF EchoInv

\* Who has not failed is never past the first rungs.
LEMMA UnscathedIs ==
  ASSUME EchoInv, NEW d \in Drivers, faults[d] = 0
  PROVE  /\ Unscathed(d)
         /\ driver[d].pc = "idle" \/ Returning(d)
         /\ driver[d].stage = "reopen" \/ Back(d)
         /\ driver[d].pc = "idle" =>
              \/ driver[d].stage = "reopen" /\ driver[d].backoff = 0
              \/ Back(d)
BY DEF EchoInv, Unscathed, Calm, Hit, Returning, Back, AtFirstRung

LEMMA FixCallbackEchoes ==
  ASSUME IInv, IInv', EchoInv, PulsesSpaced, NEW e \in Drivers, FixCallback(e)
  PROVE  EchoInv'
<1> DEFINE m == Heartbeat([driver[e] EXCEPT !.silence = 0])
<1>1. /\ driver[e].pc = "idle" /\ Streaming(e) /\ driver' = [driver EXCEPT ![e] = m]
      /\ UNCHANGED <<receiver, boot, holder, faults, settled>>
  BY DEF FixCallback
<1>2. driver[e] \in DriverStates /\ TypeOK /\ TypeOK'
  BY DEF IInv, TypeOK
<1>3. /\ m \in DriverStates /\ m.pc = "idle" /\ m.stage = "reopen" /\ m.silence = 0
      /\ m.backoff = 0 /\ m.active = driver[e].active /\ m.link = driver[e].link
      /\ m.pending = driver[e].pending
  <2>1. m \in DriverStates /\ m.pc = driver[e].pc
    BY <1>2, HeartbeatTyped
  <2> QED BY <1>1, <1>2, <2>1 DEF Heartbeat, DriverStates
<1> HIDE DEF m
<1>4. Ladder(m)
  <2>1. driver[e].active /\ ~driver[e].pending
    BY <1>1 DEF Streaming, EchoInv, Ladder
  <2> QED BY <1>3, <2>1 DEF Ladder
<1>5. NextPulse(m) >= NextPulse(driver[e])
  <2>1. NextPulse(m) = Least(WatchdogTimeout - 0 + Backoff(0) + Backoff(1), Quiet)
    BY <1>3, NextPulseIs
  <2>2. NextPulse(m) = Quiet
    BY <2>1, Delays, Constants DEF Least
  <2>3. NextPulse(driver[e]) \in Nat /\ NextPulse(driver[e]) <= Quiet
    BY <1>1, <1>2, NextPulseNat
  <2> QED BY <2>2, <2>3, Delays
<1>6. Unscathed(e)'
  <2>1. driver'[e] = m
    BY <1>1, <1>3, OneUpdated DEF IInv
  <2>2. Streaming(e)'
    BY <1>1, <1>3, <2>1 DEF Streaming
  <2>3. driver'[e].silence <= MaxFixGap
    BY <1>3, <2>1, Spaced
  <2>4. Calm(e)'
    BY <1>3, <2>1, <2>2, <2>3 DEF Calm, AtFirstRung
  <2> QED BY <2>4 DEF Unscathed
<1> QED BY <1>1, <1>2, <1>3, <1>4, <1>5, <1>6, OthersUnscathed

\* The first rung: its driver's receiver is up again by the time it is reached.
LEMMA ReopenRungEchoes ==
  ASSUME IInv, IInv', EchoInv, PulsesSpaced, NEW e \in Drivers, ReopenRung(e)
  PROVE  EchoInv'
<1> DEFINE m == [driver[e] EXCEPT !.pc = "reopening", !.pending = FALSE, !.outcome = "skipped"]
<1>1. /\ Due(e) /\ driver[e].pc = "idle" /\ driver[e].stage = "reopen"
      /\ driver' = [driver EXCEPT ![e] = m]
      /\ UNCHANGED <<receiver, boot, holder, faults, settled>>
  BY DEF ReopenRung, Due, IInv, TypeOK
<1>2. driver[e] \in DriverStates /\ TypeOK /\ TypeOK'
  BY DEF IInv, TypeOK
<1>3. /\ m \in DriverStates /\ m.pc = "reopening" /\ m.stage = "reopen" /\ ~m.pending
      /\ m.attempts = driver[e].attempts
  BY <1>1, <1>2 DEF DriverStates, ResetPulse
<1> HIDE DEF m
<1>4. Ladder(m)
  BY <1>3 DEF Ladder
<1>7. driver[e].silence >= WatchdogTimeout
  BY <1>1 DEF Due, EchoInv, Ladder
<1>8. driver[e].silence = WatchdogTimeout
  BY <1>2, <1>7, Constants DEF DriverStates
<1>5. NextPulse(m) >= NextPulse(driver[e])
  <2>1. NextPulse(m) = Least(Backoff(0) + Backoff(1), Quiet)
    BY <1>3, NextPulseIs
  <2>2. NextPulse(driver[e])
          = Least(WatchdogTimeout - driver[e].silence + Backoff(0) + Backoff(1), Quiet)
    BY <1>1, <1>2, NextPulseIs
  <2>3. WatchdogTimeout - driver[e].silence + Backoff(0) + Backoff(1) = Backoff(0) + Backoff(1)
    BY <1>8, Constants, Delays
  <2> QED BY <2>1, <2>2, <2>3, Delays DEF Least
<1>6. ASSUME faults[e] = 0 PROVE Unscathed(e)'
  <2>1. driver'[e] = m /\ \A p \in Drivers \ {e} : driver'[p] = driver[p]
    BY <1>1, <1>3, OneUpdated DEF IInv
  <2>2. Hit(e)
    <3>1. ~Calm(e)
      BY <1>8, Spaced, Constants DEF Calm
    <3>2. ~Back(e) /\ ~Returning(e)
      BY <1>1 DEF Back, Returning
    <3> QED BY <1>6, <3>1, <3>2 DEF EchoInv, Unscathed
  <2>3. receiver[e] = "ok"
    <3>1. ASSUME receiver[e] = "booting" /\ boot[e] > 0
                   /\ driver[e].silence + boot[e] <= WatchdogTimeout
          PROVE  FALSE
      <4>1. boot[e] \in Nat
        BY <1>2 DEF TypeOK
      <4> QED BY <1>8, <3>1, <4>1, Constants
    <3>2. ASSUME NEW p \in Drivers \ {e},
                 \A b \in BootTimes : driver[e].silence + driver[p].wait + b <= WatchdogTimeout
          PROVE  FALSE
      <4>1. PICK b \in BootTimes : b \in Nat /\ b > 0
        <5>1. \A b \in BootTimes : b \in Nat /\ b > 0
          BY Spaced
        <5> QED BY <5>1, LineAssumption
      <4>2. driver[p].wait \in Nat
        BY <1>2 DEF TypeOK, DriverStates
      <4>3. driver[e].silence + driver[p].wait + b <= WatchdogTimeout
        BY <3>2, <4>1
      <4> QED BY <1>8, <4>1, <4>2, <4>3, Constants
    <3> QED BY <2>2, <3>1, <3>2 DEF Hit, UpInTime
  <2>4. Clear(e, MaxFixGap)
    <3>1. WatchdogTimeout - driver[e].silence + MaxFixGap = MaxFixGap
      BY <1>8, Spaced, Constants
    <3> QED BY <2>2, <3>1 DEF Hit
  <2>5. Returning(e)'
    BY <1>1, <1>3, <2>1, <2>3, <2>4 DEF Returning, Clear
  <2> QED BY <2>5 DEF Unscathed
<1> QED BY <1>1, <1>2, <1>3, <1>4, <1>5, <1>6, OthersUnscathed

\* The second rung is not reached by who has not failed.
LEMMA DeviceRungEchoes ==
  ASSUME IInv, IInv', EchoInv, PulsesSpaced, NEW e \in Drivers, DeviceRung(e)
  PROVE  EchoInv'
<1> DEFINE m == [driver[e] EXCEPT !.pc = "reopening", !.pending = FALSE, !.outcome = "skipped"]
<1>1. /\ Due(e) /\ driver[e].pc = "idle" /\ driver[e].stage = "device" /\ driver[e].backoff = 0
      /\ driver' = [driver EXCEPT ![e] = m]
      /\ UNCHANGED <<holder, faults, settled>>
  BY DEF DeviceRung, Due, IInv, TypeOK
<1>2. driver[e] \in DriverStates /\ TypeOK /\ TypeOK'
  BY DEF IInv, TypeOK
<1>3. /\ m \in DriverStates /\ m.pc = "reopening" /\ m.stage = "device" /\ ~m.pending
      /\ m.attempts = driver[e].attempts
  BY <1>1, <1>2 DEF DriverStates, ResetPulse
<1> HIDE DEF m
<1>4. Ladder(m)
  BY <1>1, <1>3 DEF EchoInv, Ladder
<1>5. NextPulse(m) >= NextPulse(driver[e])
  <2>1. NextPulse(m) = Least(Backoff(1), Quiet)
    BY <1>3, NextPulseIs
  <2>2. NextPulse(driver[e]) = Least(0 + Backoff(1), Quiet)
    BY <1>1, <1>2, NextPulseIs
  <2> QED BY <2>1, <2>2, Delays DEF Least
<1>6. \A d \in Drivers \ {e} : receiver'[d] = receiver[d] /\ boot'[d] = boot[d]
  BY <1>2 DEF DeviceRung, TypeOK
<1>7. ASSUME faults[e] = 0 PROVE FALSE
  <2>1. Back(e)
    BY <1>1, <1>7, UnscathedIs
  <2>2. driver[e].silence \in Nat /\ driver[e].silence < WatchdogTimeout
    BY <1>2, <2>1, Spaced, Constants DEF Back, DriverStates
  <2>3. ~driver[e].pending
    BY <2>1 DEF Back, Streaming, EchoInv, Ladder
  <2> QED BY <1>1, <2>2, <2>3, Constants DEF Due
<1> QED BY <1>1, <1>2, <1>3, <1>4, <1>5, <1>6, <1>7, OthersUnscathed

\* Nor is the third.
LEMMA HardwareRungEchoes ==
  ASSUME IInv, IInv', EchoInv, PulsesSpaced, NEW e \in Drivers, HardwareRung(e)
  PROVE  EchoInv'
<1> DEFINE n == [driver[e] EXCEPT !.pending = FALSE]
           asks == [n EXCEPT !.pc = "requesting"]
           waits == SpendPulse(WaitOutPeer(n, holder), "peer")
           skips == [n EXCEPT !.pc = "reopening", !.outcome = "skipped"]
<1>1. /\ driver[e].pc = "idle" /\ driver[e].stage = "hardware" /\ driver[e].backoff = 0
      /\ UNCHANGED <<receiver, boot, holder, faults>>
  BY DEF HardwareRung, Due
<1>2. driver[e] \in DriverStates /\ TypeOK /\ TypeOK'
  BY DEF IInv, TypeOK
<1>3. PICK outcome \in PulseOutcomes(driver[e], LineOutcome(e)) :
        driver' = [driver EXCEPT ![e] =
          CASE outcome = "issued" -> asks [] outcome = "peer" -> waits
            [] outcome = "skipped" -> skips]
  BY DEF HardwareRung
<1>4. /\ outcome \in {"issued", "peer", "skipped"}
      /\ outcome = "peer" => holder \in Drivers /\ driver[e].pulses < GpioPulseLimit
  <2>1. holder = "none" \/ holder = "other" \/ holder = e \/ holder \in Drivers \ {e}
    BY <1>2 DEF TypeOK
  <2>2. holder # e
    BY <1>1 DEF IInv, HolderDrives
  <2>3. /\ LineOutcome(e) \subseteq {"issued", "peer", "skipped"}
        /\ "peer" \in LineOutcome(e) => holder \in Drivers
    BY <2>1, <2>2, Constants DEF LineOutcome
  <2>4. driver[e].pulses \in Int /\ GpioPulseLimit \in Int
    BY <1>2, Constants DEF DriverStates
  <2> QED BY <1>3, <2>3, <2>4 DEF PulseOutcomes
<1>5. ASSUME NEW m \in DriverStates, driver' = [driver EXCEPT ![e] = m],
             m.stage = "hardware", m.attempts = driver[e].attempts, ~m.pending, m.pc # "idle"
      PROVE  EchoInv'
  <2>1. Ladder(m)
    BY <1>1, <1>5 DEF EchoInv, Ladder
  <2>2. NextPulse(driver[e]) = Least(0, Quiet)
    BY <1>1, <1>2, NextPulseIs
  <2>3. NextPulse(m) >= NextPulse(driver[e])
    BY <1>5, <2>2, NextPulseNat, Delays DEF Least
  <2>4. faults[e] # 0
    BY <1>1, UnscathedIs DEF Back
  <2> QED BY <1>1, <1>2, <1>5, <2>1, <2>3, <2>4, OthersUnscathed
<1>6. /\ n \in DriverStates /\ n.stage = "hardware" /\ n.attempts = driver[e].attempts
      /\ ~n.pending /\ n.pulses = driver[e].pulses
  BY <1>1, <1>2 DEF DriverStates
<1> HIDE DEF n
<1>7. CASE outcome = "issued"
  <2>1. asks \in DriverStates /\ asks.stage = "hardware" /\ asks.attempts = driver[e].attempts
        /\ ~asks.pending /\ asks.pc # "idle"
    BY <1>6 DEF DriverStates
  <2>2. driver' = [driver EXCEPT ![e] = asks]
    BY <1>3, <1>7
  <2> HIDE DEF asks
  <2> QED BY <1>5, <2>1, <2>2
<1>8. CASE outcome = "skipped"
  <2>1. skips \in DriverStates /\ skips.stage = "hardware"
        /\ skips.attempts = driver[e].attempts /\ ~skips.pending /\ skips.pc # "idle"
    BY <1>6 DEF DriverStates, ResetPulse
  <2>2. driver' = [driver EXCEPT ![e] = skips]
    BY <1>3, <1>8
  <2> HIDE DEF skips
  <2> QED BY <1>5, <2>1, <2>2
<1>9. CASE outcome = "peer"
  <2>1. waits \in DriverStates /\ waits.stage = "hardware"
        /\ waits.attempts = driver[e].attempts /\ ~waits.pending /\ waits.pc # "idle"
    <3>1. /\ ResetTime + CycleTime \in 0 .. (ResetTime + CycleTime) /\ holder \in Drivers
          /\ n.pulses + 1 \in 0 .. GpioPulseLimit
      BY <1>2, <1>4, <1>6, <1>9, Constants DEF DriverStates
    <3> QED BY <1>6, <3>1 DEF SpendPulse, WaitOutPeer, DriverStates, ResetPulse
  <2>2. driver' = [driver EXCEPT ![e] = waits]
    BY <1>3, <1>9
  <2> HIDE DEF waits
  <2> QED BY <1>5, <2>1, <2>2
<1> QED BY <1>4, <1>7, <1>8, <1>9

LEMMA WakeUpEchoes ==
  ASSUME IInv, IInv', EchoInv, PulsesSpaced, NEW e \in Drivers, WakeUp(e) \/ LoseRace(e)
  PROVE  EchoInv'
<1>1. driver[e] \in DriverStates /\ TypeOK /\ TypeOK'
  BY DEF IInv, TypeOK
<1>2. /\ driver[e].pc \in {"settling", "requesting"}
      /\ driver[e].pc = "settling" => driver[e].wait = 0
      /\ UNCHANGED <<receiver, boot, holder, faults, settled>>
  BY DEF WakeUp, LoseRace
<1>3. driver[e].stage = "hardware" /\ driver[e].attempts >= 2 /\ ~driver[e].pending
  BY <1>2 DEF EchoInv, Ladder
<1>4. PICK m \in DriverStates :
        /\ driver' = [driver EXCEPT ![e] = m]
        /\ m.pc = "reopening" /\ m.stage = driver[e].stage
        /\ m.attempts = driver[e].attempts /\ m.pending = driver[e].pending
  <2>1. CASE WakeUp(e)
    <3> DEFINE m == [driver[e] EXCEPT !.pc = "reopening"]
    <3>1. driver' = [driver EXCEPT ![e] = m]
      BY <1>1, <2>1 DEF WakeUp, TypeOK
    <3>2. /\ m \in DriverStates /\ m.pc = "reopening" /\ m.stage = driver[e].stage
          /\ m.attempts = driver[e].attempts /\ m.pending = driver[e].pending
      BY <1>1 DEF DriverStates
    <3> HIDE DEF m
    <3> QED BY <3>1, <3>2
  <2>2. CASE LoseRace(e)
    <3> DEFINE m == [driver[e] EXCEPT !.pc = "reopening", !.outcome = "skipped"]
    <3>1. driver' = [driver EXCEPT ![e] = m]
      BY <1>1, <2>2 DEF LoseRace, TypeOK
    <3>2. /\ m \in DriverStates /\ m.pc = "reopening" /\ m.stage = driver[e].stage
          /\ m.attempts = driver[e].attempts /\ m.pending = driver[e].pending
      BY <1>1 DEF DriverStates, ResetPulse
    <3> HIDE DEF m
    <3> QED BY <3>1, <3>2
  <2> QED BY <2>1, <2>2
<1>5. Ladder(m)
  BY <1>3, <1>4 DEF Ladder
<1>6. NextPulse(m) >= NextPulse(driver[e])
  <2>1. NextPulse(m) = Quiet
    BY <1>3, <1>4, NextPulseIs
  <2>2. NextPulse(driver[e]) = 0 \/ NextPulse(driver[e]) = 0 + Quiet
    BY <1>1, <1>2, NextPulseIs
  <2> QED BY <2>1, <2>2, Delays
<1>7. faults[e] # 0
  BY <1>2, UnscathedIs DEF Returning
<1> QED BY <1>1, <1>2, <1>4, <1>5, <1>6, <1>7, OthersUnscathed

\* The end of a pass: whatever rung it was, at least its backoff follows.
LEMMA ReopenEchoes ==
  ASSUME IInv, IInv', EchoInv, PulsesSpaced, NEW e \in Drivers, Reopen(e)
  PROVE  EchoInv'
<1> DEFINE up == receiver[e] \in {"ok", "stuck"}
           n(open) == [driver[e] EXCEPT !.pc = "idle", !.active = up, !.link = open,
                         !.pulser = "none", !.silence = IF up THEN 0 ELSE @]
<1>1. PICK open \in IF receiver[e] = "booting" THEN BOOLEAN ELSE {up} :
        driver' = [driver EXCEPT ![e] = EndPass(n(open), up)]
  BY Zenon DEF Reopen
<1> DEFINE m == EndPass(n(open), up)
<1>2. /\ driver[e].pc = "reopening" /\ driver' = [driver EXCEPT ![e] = m]
      /\ UNCHANGED <<receiver, boot, holder, faults>>
  BY <1>1 DEF Reopen
<1>3. driver[e] \in DriverStates /\ TypeOK /\ TypeOK'
  BY DEF IInv, TypeOK
<1>4. up \in BOOLEAN /\ open \in BOOLEAN /\ (receiver[e] = "ok" => up /\ open)
  <2>1. up \in BOOLEAN /\ (receiver[e] = "ok" => up)
    OBVIOUS
  <2> HIDE DEF up
  <2>2. open \in BOOLEAN /\ (receiver[e] = "ok" => open = up)
    BY <1>1, <2>1
  <2> QED BY <2>1, <2>2
<1> HIDE DEF up
<1>5. /\ n(open) \in DriverStates /\ n(open).pc = "idle" /\ n(open).stage = driver[e].stage
      /\ n(open).attempts = driver[e].attempts /\ n(open).active = up /\ n(open).link = open
      /\ n(open).pending = driver[e].pending
      /\ n(open).silence = (IF up THEN 0 ELSE driver[e].silence)
  <2>1. 0 \in 0 .. WatchdogTimeout
    BY Constants
  <2> QED BY <1>3, <1>4, <2>1 DEF DriverStates
<1> HIDE DEF n
<1>6. driver[e].attempts \in Nat /\ driver[e].stage \in Stages /\ driver[e].pending = FALSE
  BY <1>2, <1>3, Constants DEF DriverStates, EchoInv, Ladder
<1>7. /\ m \in DriverStates /\ m.pc = "idle" /\ m.stage = NextStage(driver[e].stage)
      /\ m.attempts = Least(driver[e].attempts + 1, MaxBackoffShift)
      /\ m.backoff = Backoff(driver[e].attempts)
      /\ m.pending = ~up /\ m.active = up /\ m.link = open /\ m.silence = n(open).silence
  <2>1. m \in DriverStates /\ m.pc = "idle"
    BY <1>4, <1>5, EndPassTyped
  <2> QED BY <1>5, <1>6, <2>1 DEF EndPass, DriverStates
<1> HIDE DEF m
<1>8. /\ driver[e].stage = "reopen" => m.stage = "device" /\ m.attempts >= 1
      /\ driver[e].stage \in {"device", "hardware"} => m.stage = "hardware" /\ m.attempts >= 2
  <2>1. MaxBackoffShift >= 3 /\ MaxBackoffShift \in Nat
    BY LadderAssumption
  <2>2. driver[e].stage \in {"device", "hardware"} => driver[e].attempts >= 1
    BY <1>6 DEF EchoInv, Ladder
  <2> QED BY <1>6, <1>7, <2>1, <2>2 DEF Least, NextStage
<1>9. Ladder(m)
  <2>1. m.stage # "reopen"
    BY <1>6, <1>8 DEF Stages
  <2>2. m.attempts \in Nat
    BY <1>7, Constants DEF DriverStates
  <2>3. m.pending => ~m.active
    BY <1>7, Zenon
  <2>4. (m.stage = "device" => m.attempts >= 1) /\ (m.stage = "hardware" => m.attempts >= 2)
    BY <1>6, <1>8, <2>2 DEF Stages
  <2> QED BY <1>7, <2>1, <2>3, <2>4 DEF Ladder
<1>10. NextPulse(m) >= NextPulse(driver[e])
  <2>1. CASE driver[e].stage = "reopen"
    <3>1. NextPulse(driver[e]) = Least(Backoff(0) + Backoff(1), Quiet)
      BY <1>2, <1>3, <2>1, NextPulseIs
    <3>2. NextPulse(m) = Least(m.backoff + Backoff(1), Quiet)
      BY <1>7, <1>8, <2>1, NextPulseIs
    <3>3. m.backoff >= Backoff(0) /\ m.backoff \in Nat
      BY <1>6, <1>7, BackoffAtLeast, Constants DEF DriverStates
    <3> QED BY <3>1, <3>2, <3>3, Delays DEF Least
  <2>2. CASE driver[e].stage = "device"
    <3>1. NextPulse(driver[e]) = Least(Backoff(1), Quiet)
      BY <1>2, <1>3, <2>2, NextPulseIs
    <3>2. NextPulse(m) = Least(m.backoff, Quiet)
      BY <1>7, <1>8, <2>2, NextPulseIs
    <3>3. m.backoff >= Backoff(1) /\ m.backoff \in Nat
      <4>1. driver[e].attempts >= 1
        BY <2>2 DEF EchoInv, Ladder
      <4> QED BY <1>6, <1>7, <4>1, BackoffAtLeast, Constants DEF DriverStates
    <3> QED BY <3>1, <3>2, <3>3, Delays DEF Least
  <2>3. CASE driver[e].stage = "hardware"
    <3>1. NextPulse(driver[e]) = Quiet
      BY <1>2, <1>3, <2>3, NextPulseIs
    <3>2. NextPulse(m) = Least(m.backoff, Quiet)
      BY <1>7, <1>8, <2>3, NextPulseIs
    <3>3. m.backoff >= Backoff(2) /\ m.backoff \in Nat
      <4>1. driver[e].attempts >= 2
        BY <2>3 DEF EchoInv, Ladder
      <4> QED BY <1>6, <1>7, <4>1, BackoffAtLeast, Constants DEF DriverStates
    <3> QED BY <3>1, <3>2, <3>3, Delays DEF Least
  <2> QED BY <1>6, <2>1, <2>2, <2>3 DEF Stages
<1>11. ASSUME faults[e] = 0 PROVE Unscathed(e)'
  <2>1. driver'[e] = m /\ \A p \in Drivers \ {e} : driver'[p] = driver[p]
    BY <1>2, <1>7, OneUpdated DEF IInv
  <2>2. Returning(e)
    BY <1>2, <1>11, UnscathedIs
  <2>3. up /\ open /\ m.silence = 0 /\ m.stage = "device" /\ receiver'[e] = "ok"
    BY <1>2, <1>4, <1>5, <1>7, <1>8, <2>2 DEF Returning
  <2>4. Streaming(e)'
    BY <1>7, <2>1, <2>3 DEF Streaming
  <2>5. MaxFixGap - driver'[e].silence = MaxFixGap /\ driver'[e].silence <= MaxFixGap
    BY <2>1, <2>3, Spaced
  <2>6. Clear(e, MaxFixGap)'
    BY <2>1, <2>2 DEF Returning, Clear
  <2>7. Clear(e, MaxFixGap - driver[e].silence)'
    BY <2>5, <2>6 DEF Clear
  <2>8. Back(e)'
    BY <1>7, <2>1, <2>3, <2>4, <2>5, <2>7 DEF Back
  <2> QED BY <2>8 DEF Unscathed
<1> QED BY <1>2, <1>3, <1>7, <1>9, <1>10, <1>11, OthersUnscathed

-----------------------------------------------------------------------------
(* The pulse, the faults, and time.                                        *)

\* A pulse comes only when the driver it hits is calm.
LEMMA AssertLineEchoes ==
  ASSUME IInv, IInv', EchoInv, PulsesSpaced, NEW e \in Drivers, AssertLine(e)
  PROVE  EchoInv'
<1>1. /\ driver[e].pc = "requesting"
      /\ receiver' = [d \in Drivers |-> IF receiver[d] = "dead" THEN "dead" ELSE "held"]
      /\ UNCHANGED <<boot, faults, settled>>
  BY DEF AssertLine
<1>2. PICK survivors \in SUBSET Drivers :
        driver' = [d \in Drivers |->
          LET n == [driver[d] EXCEPT !.link = @ /\ d \in survivors] IN
          IF d = e THEN [n EXCEPT !.pc = "driving", !.wait = ResetTime, !.pulser = e] ELSE n]
  BY DEF AssertLine
<1>3. TypeOK /\ TypeOK' /\ \A d \in Drivers : driver[d] \in DriverStates /\ driver'[d] \in DriverStates
  BY DEF IInv, TypeOK
<1> DEFINE n(d) == [driver[d] EXCEPT !.link = @ /\ d \in survivors]
<1>4. \A d \in Drivers :
        /\ n(d) \in DriverStates
        /\ n(d).pc = driver[d].pc /\ n(d).stage = driver[d].stage
        /\ n(d).attempts = driver[d].attempts /\ n(d).active = driver[d].active
        /\ n(d).pending = driver[d].pending /\ n(d).silence = driver[d].silence
        /\ n(d).backoff = driver[d].backoff
  <2> SUFFICES ASSUME NEW d \in Drivers
               PROVE  /\ n(d) \in DriverStates
                      /\ n(d).pc = driver[d].pc /\ n(d).stage = driver[d].stage
                      /\ n(d).attempts = driver[d].attempts /\ n(d).active = driver[d].active
                      /\ n(d).pending = driver[d].pending /\ n(d).silence = driver[d].silence
                      /\ n(d).backoff = driver[d].backoff
    OBVIOUS
  <2>1. (driver[d].link /\ d \in survivors) \in BOOLEAN
    OBVIOUS
  <2>2. driver[d] \in DriverStates
    BY <1>3
  <2> QED BY <2>1, <2>2 DEF DriverStates
<1>5. /\ driver'[e] = [n(e) EXCEPT !.pc = "driving", !.wait = ResetTime, !.pulser = e]
      /\ \A d \in Drivers : d # e => driver'[d] = n(d)
  BY <1>2
<1> HIDE DEF n
<1>6. /\ driver'[e].pc = "driving" /\ driver'[e].wait = ResetTime
      /\ driver'[e].stage = driver[e].stage /\ driver'[e].attempts = driver[e].attempts
      /\ driver'[e].active = driver[e].active /\ driver'[e].pending = driver[e].pending
  BY <1>4, <1>5 DEF DriverStates
<1>7. ASSUME NEW d \in Drivers PROVE Ladder(driver'[d])
  <2>1. CASE d = e
    BY <1>1, <1>6, <2>1 DEF EchoInv, Ladder
  <2>2. CASE d # e
    BY <1>4, <1>5, <2>2 DEF EchoInv, Ladder
  <2> QED BY <2>1, <2>2
<1>8. ASSUME NEW d \in Drivers, faults'[d] = 0 PROVE Unscathed(d)'
  <2>1. faults[d] = 0 /\ Unscathed(d) /\ d # e
    BY <1>1, <1>8, UnscathedIs DEF EchoInv, Returning
  <2>2. NextPulse(driver[e]) = 0
    BY <1>1, <1>3, NextPulseIs
  <2>3. Calm(d)
    <3>1. ASSUME NEW t \in Int, Clear(d, t), t >= 0 PROVE FALSE
      BY <2>1, <2>2, <3>1 DEF Clear
    <3>2. driver[d].silence \in 0 .. WatchdogTimeout
      BY <1>3 DEF DriverStates
    <3>3. ~Hit(d)
      <4>1. WatchdogTimeout - driver[d].silence + MaxFixGap \in Nat
        BY <3>2, Spaced, Constants
      <4> QED BY <3>1, <4>1 DEF Hit
    <3>4. ~Returning(d)
      BY <3>1, Spaced DEF Returning
    <3>5. ~Back(d)
      <4>1. driver[d].silence <= MaxFixGap => MaxFixGap - driver[d].silence \in Nat
        BY <3>2, Spaced, Constants
      <4> QED BY <3>1, <4>1 DEF Back
    <3> QED BY <2>1, <3>3, <3>4, <3>5 DEF Unscathed
  <2>4. /\ driver'[d].pc = "idle" /\ driver'[d].stage = "reopen" /\ driver'[d].backoff = 0
        /\ driver'[d].silence = driver[d].silence /\ driver[d].silence <= MaxFixGap
        /\ driver[d].silence \in Nat /\ receiver'[d] = "held"
    BY <1>1, <1>3, <1>4, <1>5, <2>1, <2>3, Constants
       DEF Calm, AtFirstRung, Streaming, DriverStates
  <2>5. UpInTime(d)'
    <3>1. ASSUME NEW b \in BootTimes
          PROVE  driver'[d].silence + driver'[e].wait + b <= WatchdogTimeout
      BY <1>6, <2>4, Spaced, Constants
    <3> QED BY <1>6, <2>1, <2>4, <3>1 DEF UpInTime
  <2>6. Clear(d, WatchdogTimeout - driver[d].silence + MaxFixGap)'
    <3> SUFFICES ASSUME NEW p \in Drivers \ {d}
                 PROVE  NextPulse(driver'[p]) > WatchdogTimeout - driver'[d].silence + MaxFixGap
      BY DEF Clear
    <3>1. p = e
      BY <2>1 DEF PulsesSpaced
    <3>2. NextPulse(driver'[e]) = ResetTime + CycleTime + Quiet
      BY <1>3, <1>6, NextPulseIs
    <3> QED BY <2>4, <3>1, <3>2, Spaced, Constants, Delays
  <2>7. Hit(d)'
    BY <2>4, <2>5, <2>6 DEF Hit, AtFirstRung
  <2> QED BY <2>7 DEF Unscathed
<1> QED BY <1>7, <1>8 DEF EchoInv

\* The receivers come up.
LEMMA ReleaseLineEchoes ==
  ASSUME IInv, IInv', EchoInv, PulsesSpaced, NEW e \in Drivers, ReleaseLine(e)
  PROVE  EchoInv'
<1> DEFINE m == SpendPulse(PulseDone(driver[e]), "issued")
<1>1. /\ driver[e].pc = "driving" /\ driver[e].wait = 0
      /\ driver' = [driver EXCEPT ![e] = m] /\ UNCHANGED faults
      /\ receiver' = [d \in Drivers |-> IF receiver[d] = "held" THEN "booting" ELSE receiver[d]]
  BY DEF ReleaseLine, IInv, TypeOK
<1>2. PICK b \in [Drivers -> BootTimes] :
        boot' = [d \in Drivers |-> IF receiver[d] = "held" THEN b[d] ELSE boot[d]]
  BY DEF ReleaseLine
<1>3. TypeOK /\ TypeOK' /\ driver[e] \in DriverStates
  BY DEF IInv, TypeOK
<1>4. /\ m.pc = "settling" /\ m.wait = CycleTime /\ m.stage = driver[e].stage
      /\ m.attempts = driver[e].attempts /\ m.pending = driver[e].pending
  BY <1>3 DEF SpendPulse, PulseDone, DriverStates
<1>5. driver'[e] = m /\ \A d \in Drivers : d # e => driver'[d] = driver[d]
  BY <1>1, <1>3 DEF TypeOK
<1> HIDE DEF m
<1>6. m \in DriverStates
  BY <1>3, <1>5 DEF TypeOK
<1>7. ASSUME NEW d \in Drivers PROVE Ladder(driver'[d])
  <2>1. CASE d = e
    BY <1>1, <1>4, <1>5, <2>1 DEF EchoInv, Ladder
  <2>2. CASE d # e
    BY <1>5, <2>2 DEF EchoInv
  <2> QED BY <2>1, <2>2
<1>8. ASSUME NEW p \in Drivers PROVE NextPulse(driver'[p]) >= NextPulse(driver[p])
  <2>1. CASE p = e
    <3>1. NextPulse(driver[e]) = 0 + CycleTime + Quiet
      BY <1>1, <1>3, NextPulseIs
    <3>2. NextPulse(m) = CycleTime + Quiet
      BY <1>4, <1>6, NextPulseIs
    <3> QED BY <1>5, <2>1, <3>1, <3>2, Delays, Constants
  <2>2. CASE p # e
    <3>1. NextPulse(driver[p]) \in Nat
      BY <1>3, NextPulseNat DEF TypeOK
    <3> QED BY <1>5, <2>2, <3>1
  <2> QED BY <2>1, <2>2
<1>9. ASSUME NEW d \in Drivers, faults'[d] = 0 PROVE Unscathed(d)'
  <2>1. faults[d] = 0 /\ Unscathed(d) /\ d # e /\ driver'[d] = driver[d]
    BY <1>1, <1>5, <1>9, UnscathedIs DEF EchoInv, Returning
  <2>2. CASE receiver[d] # "held"
    <3>1. receiver'[d] = receiver[d] /\ boot'[d] = boot[d]
      BY <1>1, <1>2, <2>2
    <3> QED BY <1>3, <1>8, <2>1, <2>2, <3>1, UnscathedKept
  <2>3. CASE receiver[d] = "held"
    <3>1. Hit(d)
      BY <2>1, <2>3 DEF Unscathed, Calm, Returning, Back, Streaming
    <3>2. PICK p \in Drivers \ {d} :
            /\ driver[p].pc = "driving"
            /\ \A c \in BootTimes : driver[d].silence + driver[p].wait + c <= WatchdogTimeout
      BY <2>3, <3>1 DEF Hit, UpInTime
    <3>3. p = e
      BY <1>1, <3>2 DEF IInv, HolderDrives
    <3>4. /\ receiver'[d] = "booting" /\ boot'[d] \in BootTimes
      BY <1>1, <1>2, <2>3
    <3>5. /\ boot'[d] > 0 /\ boot'[d] \in Nat /\ driver[d].silence \in Nat
          /\ driver[d].silence + 0 + boot'[d] <= WatchdogTimeout
      BY <1>1, <1>3, <3>2, <3>3, <3>4, Spaced, Constants DEF TypeOK, DriverStates
    <3>6. UpInTime(d)'
      BY <2>1, <3>4, <3>5 DEF UpInTime
    <3>7. Clear(d, WatchdogTimeout - driver[d].silence + MaxFixGap)'
      <4> SUFFICES ASSUME NEW q \in Drivers \ {d}
                   PROVE  NextPulse(driver'[q]) > WatchdogTimeout - driver[d].silence + MaxFixGap
        BY <2>1 DEF Clear
      <4>1. NextPulse(driver[q]) > WatchdogTimeout - driver[d].silence + MaxFixGap
        BY <3>1 DEF Hit, Clear
      <4>2. NextPulse(driver[q]) \in Nat /\ NextPulse(driver'[q]) \in Nat
        BY <1>3, NextPulseNat DEF TypeOK
      <4>3. WatchdogTimeout - driver[d].silence + MaxFixGap \in Int
        BY <3>5, Spaced, Constants
      <4> QED BY <1>8, <4>1, <4>2, <4>3
    <3>8. Hit(d)'
      BY <2>1, <3>1, <3>6, <3>7 DEF Hit, AtFirstRung
    <3> QED BY <3>8 DEF Unscathed
  <2> QED BY <2>2, <2>3
<1> QED BY <1>7, <1>9 DEF EchoInv

\* A fault is its own receiver's.
LEMMA FaultEchoes ==
  ASSUME IInv, IInv', EchoInv, PulsesSpaced, NEW e \in Drivers, Fault(e)
  PROVE  EchoInv'
<1>1. /\ Streaming(e) /\ faults' = [faults EXCEPT ![e] = @ + 1]
      /\ UNCHANGED <<boot, holder, settled>>
      /\ \A d \in Drivers \ {e} : receiver'[d] = receiver[d]
  BY DEF Fault, IInv, TypeOK
<1>2. TypeOK /\ TypeOK'
  BY DEF IInv
<1>3. /\ \A d \in Drivers : d # e => driver'[d] = driver[d]
      /\ driver'[e].pc = driver[e].pc /\ driver'[e].stage = driver[e].stage
      /\ driver'[e].attempts = driver[e].attempts /\ driver'[e].active = driver[e].active
      /\ driver'[e].pending = driver[e].pending /\ driver'[e].silence = driver[e].silence
      /\ driver'[e].backoff = driver[e].backoff /\ driver'[e].wait = driver[e].wait
  <2>1. CASE UNCHANGED driver
    BY <2>1
  <2>2. CASE driver' = [driver EXCEPT ![e].link = FALSE]
    <3>1. driver[e] \in DriverStates
      BY <1>2 DEF TypeOK
    <3> QED BY <1>2, <2>2, <3>1 DEF TypeOK, DriverStates
  <2> QED BY <2>1, <2>2 DEF Fault
<1>4. ASSUME NEW d \in Drivers PROVE Ladder(driver'[d])
  BY <1>3 DEF EchoInv, Ladder
<1>5. ASSUME NEW p \in Drivers PROVE NextPulse(driver'[p]) >= NextPulse(driver[p])
  <2>1. NextPulse(driver'[p]) = NextPulse(driver[p])
    BY <1>3 DEF NextPulse
  <2>2. NextPulse(driver[p]) \in Nat
    BY <1>2, NextPulseNat DEF TypeOK
  <2> QED BY <2>1, <2>2
<1>6. ASSUME NEW d \in Drivers, faults'[d] = 0 PROVE Unscathed(d)'
  <2>1. faults \in [Drivers -> 0 .. MaxFaults]
    BY <1>2 DEF TypeOK
  <2>2. d # e
    BY <1>1, <1>6, <2>1
  <2>3. Unscathed(d) /\ driver'[d] = driver[d] /\ receiver'[d] = receiver[d] /\ boot'[d] = boot[d]
    BY <1>1, <1>3, <1>6, <2>1, <2>2 DEF EchoInv
  <2>4. \A p \in Drivers : driver'[p].pc = driver[p].pc /\ driver'[p].wait = driver[p].wait
    BY <1>3
  <2> QED BY <1>2, <1>5, <2>3, <2>4, UnscathedKept
<1> QED BY <1>4, <1>6 DEF EchoInv

LEMMA OtherReleasesEchoes ==
  ASSUME IInv, IInv', EchoInv,
         UNCHANGED <<driver, receiver, boot, faults>>
  PROVE  EchoInv'
<1>1. TypeOK /\ TypeOK'
  BY DEF IInv
<1>2. ASSUME NEW d \in Drivers, faults'[d] = 0 PROVE Unscathed(d)'
  <2>1. Unscathed(d)
    BY <1>2 DEF EchoInv
  <2>2. \A p \in Drivers : NextPulse(driver'[p]) = NextPulse(driver[p])
                             /\ NextPulse(driver[p]) \in Nat
    BY <1>1, NextPulseNat DEF TypeOK
  <2>3. \A p \in Drivers : NextPulse(driver'[p]) >= NextPulse(driver[p])
    BY <2>2
  <2> QED BY <1>1, <2>1, <2>3, UnscathedKept
<1> QED BY <1>2 DEF EchoInv

\* A driver one time unit later.
Later(n, m) ==
  /\ n.pc \in {"idle", "driving", "settling"} /\ m.pc = n.pc /\ m.stage = n.stage
  /\ m.silence = Least(n.silence + 1, WatchdogTimeout)
  /\ m.backoff = (IF n.backoff = 0 THEN 0 ELSE n.backoff - 1)
  /\ n.pc \in {"driving", "settling"} => m.wait = n.wait - 1

LEMMA NextPulseLater ==
  ASSUME NEW n \in DriverStates, NEW m \in DriverStates, Later(n, m)
  PROVE  NextPulse(m) >= NextPulse(n) - 1
<1>1. /\ n.pc \in {"idle", "driving", "settling"} /\ m.pc = n.pc /\ m.stage = n.stage
      /\ n.stage \in {"reopen", "device", "hardware"}
      /\ m.silence = Least(n.silence + 1, WatchdogTimeout)
      /\ m.backoff = (IF n.backoff = 0 THEN 0 ELSE n.backoff - 1)
      /\ n.pc \in {"driving", "settling"} => m.wait = n.wait - 1
  BY DEF DriverStates, Stages, Later
<1>2. /\ n.silence \in 0 .. WatchdogTimeout /\ n.backoff \in Nat /\ n.wait \in Nat
  BY Constants DEF DriverStates
<1>3. PICK a \in Nat, b \in Nat : a = NextPulse(n) /\ b = NextPulse(m)
  BY NextPulseNat
<1>4. ASSUME NEW i \in Int, NEW j \in Int, j >= i - 1
      PROVE  Least(j, Quiet) >= Least(i, Quiet) - 1
  BY <1>4, Delays DEF Least
<1>5. CASE n.pc = "driving"
  <2>1. a = n.wait + CycleTime + Quiet /\ b = n.wait - 1 + CycleTime + Quiet
    BY <1>1, <1>3, <1>5, NextPulseIs
  <2>2. b >= a - 1
    BY <1>2, <2>1, Delays, Constants
  <2> QED BY <1>3, <2>2
<1>6. CASE n.pc = "settling"
  <2>1. a = n.wait + Quiet /\ b = n.wait - 1 + Quiet
    BY <1>1, <1>3, <1>6, NextPulseIs
  <2>2. b >= a - 1
    BY <1>2, <2>1, Delays, Constants
  <2> QED BY <1>3, <2>2
<1>7. CASE n.pc = "idle" /\ n.stage = "reopen"
  <2> DEFINE i == WatchdogTimeout - n.silence + Backoff(0) + Backoff(1)
             j == WatchdogTimeout - m.silence + Backoff(0) + Backoff(1)
  <2>1. a = Least(i, Quiet) /\ b = Least(j, Quiet)
    BY <1>1, <1>3, <1>7, NextPulseIs
  <2>2. m.silence \in Nat /\ m.silence <= n.silence + 1
    BY <1>1, <1>2, Constants DEF Least
  <2>3. i \in Int /\ j \in Int /\ j >= i - 1
    BY <1>2, <2>2, Delays, Constants
  <2> HIDE DEF i, j
  <2>4. b >= a - 1
    BY <1>4, <2>1, <2>3
  <2> QED BY <1>3, <2>4
<1>8. m.backoff \in Nat /\ m.backoff >= n.backoff - 1
  BY <1>1, <1>2
<1>9. CASE n.pc = "idle" /\ n.stage = "device"
  <2> DEFINE i == n.backoff + Backoff(1)
             j == m.backoff + Backoff(1)
  <2>1. a = Least(i, Quiet) /\ b = Least(j, Quiet)
    BY <1>1, <1>3, <1>9, NextPulseIs
  <2>3. i \in Int /\ j \in Int /\ j >= i - 1
    BY <1>2, <1>8, Delays
  <2> HIDE DEF i, j
  <2>4. b >= a - 1
    BY <1>4, <2>1, <2>3
  <2> QED BY <1>3, <2>4
<1>10. CASE n.pc = "idle" /\ n.stage = "hardware"
  <2>1. a = Least(n.backoff, Quiet) /\ b = Least(m.backoff, Quiet)
    BY <1>1, <1>3, <1>10, NextPulseIs
  <2>2. b >= a - 1
    BY <1>2, <1>4, <1>8, <2>1
  <2> QED BY <1>3, <2>2
<1> QED BY <1>1, <1>5, <1>6, <1>7, <1>9, <1>10

\* Time brings a pulse no nearer than it passes, and the receiver's return as
\* near.
LEMMA TickEchoes ==
  ASSUME IInv, IInv', EchoInv, PulsesSpaced, Tick
  PROVE  EchoInv'
<1>1. TypeOK /\ TypeOK' /\ \A d \in Drivers : driver[d] \in DriverStates /\ driver'[d] \in DriverStates
  BY DEF IInv, TypeOK
<1>2. \A d \in Drivers :
        /\ driver[d].pc \notin {"requesting", "reopening"}
        /\ Asleep(d) => driver[d].wait > 0
        /\ ~Due(d)
        /\ driver[d].pc = "idle" /\ Streaming(d) => driver[d].silence < MaxFixGap
  BY DEF Tick
<1>3. ASSUME NEW d \in Drivers
      PROVE  /\ driver'[d].pc = driver[d].pc /\ driver'[d].stage = driver[d].stage
             /\ driver'[d].attempts = driver[d].attempts /\ driver'[d].active = driver[d].active
             /\ driver'[d].link = driver[d].link /\ driver'[d].pending = driver[d].pending
             /\ driver'[d].silence = Least(driver[d].silence + 1, WatchdogTimeout)
             /\ driver'[d].backoff = (IF driver[d].backoff = 0 THEN 0 ELSE driver[d].backoff - 1)
             /\ Asleep(d) => driver'[d].wait = driver[d].wait - 1
  <2>1. driver'[d] = [driver[d] EXCEPT !.wait = IF Asleep(d) THEN @ - 1 ELSE @,
                                       !.silence = Least(@ + 1, WatchdogTimeout),
                                       !.backoff = IF @ = 0 THEN 0 ELSE @ - 1]
    BY DEF Tick
  <2> DEFINE w == IF Asleep(d) THEN driver[d].wait - 1 ELSE driver[d].wait
             s == Least(driver[d].silence + 1, WatchdogTimeout)
             b == IF driver[d].backoff = 0 THEN 0 ELSE driver[d].backoff - 1
  <2>2. driver'[d] = [driver[d] EXCEPT !.wait = w, !.silence = s, !.backoff = b]
    BY <2>1
  <2>3. Asleep(d) => w = driver[d].wait - 1
    OBVIOUS
  <2>4. driver[d] \in DriverStates
    BY <1>1
  <2>5. s = Least(driver[d].silence + 1, WatchdogTimeout)
          /\ b = (IF driver[d].backoff = 0 THEN 0 ELSE driver[d].backoff - 1)
    OBVIOUS
  <2> HIDE DEF w, s, b
  <2> QED BY <2>2, <2>3, <2>4, <2>5 DEF DriverStates
<1>4. /\ receiver' = [d \in Drivers |->
           IF receiver[d] = "booting" /\ boot[d] = 1 THEN "ok" ELSE receiver[d]]
      /\ boot' = [d \in Drivers |-> IF boot[d] = 0 THEN 0 ELSE boot[d] - 1]
      /\ UNCHANGED <<holder, faults>>
  BY DEF Tick
<1>5. ASSUME NEW d \in Drivers PROVE Ladder(driver'[d])
  BY <1>3 DEF EchoInv, Ladder
<1>6. ASSUME NEW p \in Drivers
      PROVE  NextPulse(driver'[p]) >= NextPulse(driver[p]) - 1
  <2>1. driver[p] \in DriverStates /\ driver'[p] \in DriverStates
    BY <1>1
  <2>2. Later(driver[p], driver'[p])
    BY <1>2, <1>3, <2>1 DEF DriverStates, Stages, Asleep, Later
  <2> QED BY <2>1, <2>2, NextPulseLater
<1>7. ASSUME NEW d \in Drivers, NEW t \in Int, NEW u \in Int, Clear(d, t), u <= t - 1
      PROVE  Clear(d, u)'
  <2> SUFFICES ASSUME NEW p \in Drivers \ {d} PROVE NextPulse(driver'[p]) > u
    BY DEF Clear
  <2>1. NextPulse(driver[p]) \in Nat /\ NextPulse(driver'[p]) \in Nat
    BY <1>1, NextPulseNat
  <2> QED BY <1>6, <1>7, <2>1 DEF Clear
<1>8. ASSUME NEW d \in Drivers, faults'[d] = 0 PROVE Unscathed(d)'
  <2>1. Unscathed(d)
    BY <1>4, <1>8 DEF EchoInv
  <2>2. driver[d].silence \in 0 .. WatchdogTimeout
    BY <1>1 DEF DriverStates
  <2>3. AtFirstRung(d) => AtFirstRung(d)'
    BY <1>3 DEF AtFirstRung
  <2>4. ASSUME driver[d].silence < WatchdogTimeout
        PROVE  driver'[d].silence = driver[d].silence + 1
    BY <1>3, <2>2, <2>4, Constants DEF Least
  <2>5. receiver[d] = "ok" => receiver'[d] = "ok"
    BY <1>4
  <2>6. Streaming(d) => Streaming(d)'
    BY <1>3, <2>5 DEF Streaming
  <2>7. ASSUME Streaming(d), driver[d].pc = "idle"
        PROVE  /\ driver[d].silence < MaxFixGap
               /\ driver'[d].silence = driver[d].silence + 1
               /\ driver'[d].silence <= MaxFixGap
    <3>1. driver[d].silence < MaxFixGap
      BY <1>2, <2>7
    <3> QED BY <2>2, <2>4, <3>1, Spaced, Constants
  <2>8. CASE Calm(d)
    <3>1. Calm(d)'
      BY <2>3, <2>6, <2>7, <2>8 DEF Calm, AtFirstRung
    <3> QED BY <3>1 DEF Unscathed
  <2>9. CASE Back(d)
    <3>1. driver'[d].silence = driver[d].silence + 1 /\ driver'[d].silence <= MaxFixGap
      BY <2>7, <2>9 DEF Back
    <3>2. PICK t \in Int, u \in Int :
            /\ t = MaxFixGap - driver[d].silence /\ u = MaxFixGap - driver'[d].silence
            /\ u <= t - 1
      BY <2>2, <3>1, Spaced
    <3>3. Clear(d, u)'
      BY <1>7, <2>9, <3>2 DEF Back
    <3>4. Clear(d, MaxFixGap - driver[d].silence)'
      BY <3>2, <3>3
    <3>5. Back(d)'
      BY <1>3, <2>6, <2>9, <3>1, <3>4 DEF Back
    <3> QED BY <3>5 DEF Unscathed
  <2>10. CASE Hit(d)
    <3>1. driver[d].silence < WatchdogTimeout
      <4>1. driver[d].active /\ driver[d].pc = "idle" /\ driver[d].backoff = 0
        BY <2>10 DEF Hit, AtFirstRung, EchoInv, Ladder
      <4>2. ~(driver[d].silence >= WatchdogTimeout)
        BY <1>2, <4>1 DEF Due
      <4> QED BY <2>2, <4>2, Constants
    <3>2. driver'[d].silence = driver[d].silence + 1
      BY <2>4, <3>1
    <3>3. UpInTime(d)'
      <4>1. CASE receiver[d] = "held"
        <5>1. PICK p \in Drivers \ {d} :
                /\ driver[p].pc = "driving"
                /\ \A b \in BootTimes : driver[d].silence + driver[p].wait + b <= WatchdogTimeout
          BY <2>10, <4>1 DEF Hit, UpInTime
        <5>2. driver'[p].pc = "driving" /\ driver'[p].wait = driver[p].wait - 1
                /\ driver[p].wait \in Nat
          BY <1>1, <1>3, <5>1 DEF Asleep, DriverStates
        <5>3. \A b \in BootTimes : driver'[d].silence + driver'[p].wait + b <= WatchdogTimeout
          BY <2>2, <3>2, <5>1, <5>2, Spaced, Constants
        <5>4. receiver'[d] = "held"
          BY <1>4, <4>1
        <5> QED BY <5>2, <5>3, <5>4 DEF UpInTime
      <4>2. CASE receiver[d] = "booting"
        <5>1. boot[d] \in Nat /\ boot[d] > 0 /\ driver[d].silence + boot[d] <= WatchdogTimeout
          BY <1>1, <2>10, <4>2 DEF Hit, UpInTime, TypeOK
        <5>2. CASE boot[d] = 1
          BY <1>4, <4>2, <5>2 DEF UpInTime
        <5>3. CASE boot[d] # 1
          <6>1. receiver'[d] = "booting" /\ boot'[d] = boot[d] - 1
            BY <1>4, <4>2, <5>1, <5>3
          <6> QED BY <2>2, <3>2, <5>1, <5>3, <6>1, Constants DEF UpInTime
        <5> QED BY <5>2, <5>3
      <4>3. CASE receiver[d] = "ok"
        BY <2>5, <4>3 DEF UpInTime
      <4> QED BY <2>10, <4>1, <4>2, <4>3 DEF Hit, UpInTime
    <3>8. PICK t \in Int : t = WatchdogTimeout - driver[d].silence + MaxFixGap
      BY <2>2, Spaced, Constants
    <3>9. PICK u \in Int : u = WatchdogTimeout - driver'[d].silence + MaxFixGap
      BY <2>2, <3>2, Spaced, Constants
    <3>4. u <= t - 1
      BY <2>2, <3>2, <3>8, <3>9, Spaced, Constants
    <3>5. Clear(d, u)'
      BY <1>7, <2>10, <3>4, <3>8 DEF Hit
    <3>6. Clear(d, WatchdogTimeout - driver[d].silence + MaxFixGap)'
      BY <3>5, <3>9
    <3>7. Hit(d)'
      BY <2>3, <2>10, <3>3, <3>6 DEF Hit
    <3> QED BY <3>7 DEF Unscathed
  <2>11. ~Returning(d)
    BY <1>2 DEF Returning
  <2> QED BY <2>1, <2>8, <2>9, <2>10, <2>11 DEF Unscathed
<1> QED BY <1>5, <1>8 DEF EchoInv

LEMMA EchoInit ==
  ASSUME Init, PulsesSpaced
  PROVE  EchoInv
<1>1. \A d \in Drivers : driver[d] = Running /\ receiver[d] = "ok"
  BY DEF Init
<1>2. Ladder(Running)
  BY DEF Ladder, Running
<1>3. ASSUME NEW d \in Drivers PROVE Calm(d)
  <2>1. Running.silence <= MaxFixGap
    BY Spaced DEF Running
  <2> QED BY <1>1, <2>1 DEF Calm, AtFirstRung, Streaming, Running
<1> QED BY <1>1, <1>2, <1>3 DEF EchoInv, Unscathed

LEMMA EchoStep ==
  ASSUME IInv, IInv', EchoInv, PulsesSpaced, [Next]_vars
  PROVE  EchoInv'
<1>1. ASSUME NEW d \in Drivers, FixCallback(d) \/ Fault(d) PROVE EchoInv'
  BY <1>1, FixCallbackEchoes, FaultEchoes
<1>2. ASSUME NEW d \in Drivers, Recovery(d) PROVE EchoInv'
  BY <1>2, ReopenRungEchoes, DeviceRungEchoes, HardwareRungEchoes, AssertLineEchoes,
     ReleaseLineEchoes, WakeUpEchoes, ReopenEchoes DEF Recovery
<1>3. CASE OtherReleases \/ UNCHANGED vars
  BY <1>3, OtherReleasesEchoes DEF OtherReleases, vars
<1>4. CASE Tick
  BY <1>4, TickEchoes
<1> QED BY <1>1, <1>2, <1>3, <1>4 DEF Next

\* Where pulses are spaced, whatever happens to one receiver stays its driver's
\* affair: a driver whose own receiver has not failed gets over every pulse of
\* its peer without driving the line itself.
THEOREM PulsesNeverEcho ==
  ASSUME PulsesSpaced
  PROVE  Spec => []NoEcho
<1>1. Init => EchoInv
  BY EchoInit
<1>2. IInv /\ IInv' /\ EchoInv /\ [Next]_vars => EchoInv'
  BY EchoStep
<1>3. IInv /\ EchoInv => NoEcho
  <2> SUFFICES ASSUME EchoInv, IInv, NEW d \in Drivers, ~(faults[d] > 0)
               PROVE  driver[d].pc \notin {"requesting", "driving"}
    BY DEF NoEcho
  <2>1. faults[d] = 0
    BY Constants DEF IInv, TypeOK
  <2> QED BY <2>1, UnscathedIs DEF Returning
<1> QED BY <1>1, <1>2, <1>3, Inductive, PTL DEF Spec

=============================================================================
