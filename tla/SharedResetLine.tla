--------------------------- MODULE SharedResetLine ---------------------------
(***************************************************************************)
(* The two drivers, F9P and F9H, on the reset line they share.  Each is a  *)
(* process of its own with the recovery ladder of RecoveryLadder; a pulse  *)
(* of the line resets both receivers.  Here a recovery pass is not atomic: *)
(* the check of the line, the request, the two sleeps and the reopen are   *)
(* steps, and the peer moves in between.                                   *)
(*                                                                         *)
(* Time is discrete, in units no shorter than watchdog.cycle_time_ms: a    *)
(* pass starts in the unit it falls due.  Sleeps end on time, and the code *)
(* between them takes none.                                                *)
(***************************************************************************)
EXTENDS RecoveryLadder

CONSTANTS
  Drivers,           \* the processes sharing the line
  ResetTime,         \* gpio.reset_time_s: how long a pulse asserts the line
  BootTimes,         \* how long a receiver may take to come up
  WatchdogTimeout,   \* watchdog.timeout_ms, in time units
  MaxFixGap,         \* longest silence of a receiver that is streaming
  MaxFaults          \* bound: how many faults each receiver has

ASSUME LineAssumption ==
  /\ "none" \notin Drivers /\ "other" \notin Drivers
  /\ ResetTime \in Nat
  /\ BootTimes \subseteq Nat \ {0} /\ BootTimes # {}
  /\ WatchdogTimeout \in Nat \ {0}
  /\ MaxFixGap \in Nat
  /\ MaxFaults \in Nat

VARIABLES
  driver,     \* per driver, the members of UbloxNode and where recovery() is
  receiver,   \* per driver, the condition of its receiver
  boot,       \* per driver, what its receiver still needs to come up
  holder,     \* who has requested the line: a driver, other or none
  faults,     \* per driver, how often its receiver failed by itself
  settled     \* history: per driver, time since the pulse it waits out ended

vars == <<driver, receiver, boot, holder, faults, settled>>

-----------------------------------------------------------------------------

\* The pulse being waited out is not over.
Ongoing == -1

\* ok       answers and streams solutions
\* stuck    answers and is configured, but streams nothing until the line
\*          resets it
\* dead     nothing brings it back
\* held     the line is asserted
\* booting  coming up
Receivers == {"ok", "stuck", "dead", "held", "booting"}

Running ==
  [pc |-> "idle", wait |-> 0, outcome |-> "skipped", pulser |-> "none",
   active |-> TRUE, link |-> TRUE, silence |-> 0,
   pending |-> FALSE, stage |-> "reopen", attempts |-> 0, pulses |-> 0, backoff |-> 0]

\* A solution from d's receiver reaches fixCallback().
Streaming(d) == driver[d].active /\ driver[d].link /\ receiver[d] = "ok"

\* What resetGpioLine() reads: line.is_used() and line.consumer().
LineOutcome(d) ==
  CASE holder = "none"           -> {"issued"}
    [] holder = "other"          -> {"skipped"}
    [] holder \in Drivers \ {d}  -> {"peer"}

\* Defective variant, for mutation: a peer's pulse is waited out like an own one.
WaitOutPeerShort(n, pulser) ==
  [n EXCEPT !.pc = "settling", !.wait = CycleTime, !.pulser = pulser, !.outcome = "peer"]

\* recovery() after kPeerDriving: the peer's assert phase, then the boot.
WaitOutPeer(n, pulser) ==
  [n EXCEPT !.pc = "settling", !.wait = ResetTime + CycleTime,
            !.pulser = pulser, !.outcome = "peer"]

\* recovery() after kIssued.
PulseDone(n) ==
  [n EXCEPT !.pc = "settling", !.wait = CycleTime, !.outcome = "issued"]

-----------------------------------------------------------------------------
(* Actions.                                                                *)

Init ==
  /\ driver = [d \in Drivers |-> Running]
  /\ receiver = [d \in Drivers |-> "ok"]
  /\ boot = [d \in Drivers |-> 0]
  /\ holder \in {"none", "other"}
  /\ faults = [d \in Drivers |-> 0]
  /\ settled = [d \in Drivers |-> Ongoing]

\* fixCallback(), which ends in heartbeat().
FixCallback(d) ==
  /\ driver[d].pc = "idle"
  /\ Streaming(d)
  /\ driver' = [driver EXCEPT ![d] = Heartbeat([@ EXCEPT !.silence = 0])]
  /\ UNCHANGED <<receiver, boot, holder, faults, settled>>

\* watchdogCheck() starts a pass.
Due(d) ==
  /\ driver[d].pc = "idle"
  /\ driver[d].backoff = 0
  /\ \/ driver[d].pending
     \/ driver[d].active /\ driver[d].silence >= WatchdogTimeout

ReopenRung(d) ==
  /\ Due(d) /\ driver[d].stage = "reopen"
  /\ driver' = [driver EXCEPT ![d].pc = "reopening", ![d].pending = FALSE,
                              ![d].outcome = "skipped"]
  /\ UNCHANGED <<receiver, boot, holder, faults, settled>>

\* UBX-CFG-RST resets a receiver that listens on a live connection.
DeviceRung(d) ==
  /\ Due(d) /\ driver[d].stage = "device"
  /\ driver' = [driver EXCEPT ![d].pc = "reopening", ![d].pending = FALSE,
                              ![d].outcome = "skipped"]
  /\ IF driver[d].link /\ receiver[d] = "ok"
       THEN \E b \in BootTimes :
              /\ receiver' = [receiver EXCEPT ![d] = "booting"]
              /\ boot' = [boot EXCEPT ![d] = b]
       ELSE UNCHANGED <<receiver, boot>>
  /\ UNCHANGED <<holder, faults, settled>>

\* tryResetGpioLine() up to the request: the line is looked at, and found
\* free, driven by the peer, or out of reach.
HardwareRung(d) ==
  /\ Due(d) /\ driver[d].stage = "hardware"
  /\ \E outcome \in PulseOutcomes(driver[d], LineOutcome(d)) :
       LET n == [driver[d] EXCEPT !.pending = FALSE] IN
       driver' = [driver EXCEPT ![d] =
         CASE outcome = "issued"  -> [n EXCEPT !.pc = "requesting"]
           [] outcome = "peer"    -> SpendPulse(WaitOutPeer(n, holder), "peer")
           [] outcome = "skipped" -> [n EXCEPT !.pc = "reopening", !.outcome = "skipped"]]
  /\ settled' = [settled EXCEPT ![d] = Ongoing]
  /\ UNCHANGED <<receiver, boot, holder, faults>>

\* line.request() and set_value(0).  Both receivers go down; a USB connection
\* goes with its receiver, a UART survives.
AssertLine(d) ==
  /\ driver[d].pc = "requesting" /\ holder = "none"
  /\ holder' = d
  /\ receiver' = [e \in Drivers |-> IF receiver[e] = "dead" THEN "dead" ELSE "held"]
  /\ \E survivors \in SUBSET Drivers :
       driver' = [e \in Drivers |->
         LET n == [driver[e] EXCEPT !.link = @ /\ e \in survivors] IN
         IF e = d THEN [n EXCEPT !.pc = "driving", !.wait = ResetTime, !.pulser = d]
                  ELSE n]
  /\ UNCHANGED <<boot, faults, settled>>

\* The line was taken between the look and the request: EBUSY.
LoseRace(d) ==
  /\ driver[d].pc = "requesting" /\ holder # "none"
  /\ driver' = [driver EXCEPT ![d].pc = "reopening", ![d].outcome = "skipped"]
  /\ UNCHANGED <<receiver, boot, holder, faults, settled>>

\* set_value(1) and release(), at the end of the first sleep.
ReleaseLine(d) ==
  /\ driver[d].pc = "driving" /\ driver[d].wait = 0
  /\ holder' = "none"
  /\ \E b \in [Drivers -> BootTimes] :
       boot' = [e \in Drivers |-> IF receiver[e] = "held" THEN b[e] ELSE boot[e]]
  /\ receiver' = [e \in Drivers |-> IF receiver[e] = "held" THEN "booting" ELSE receiver[e]]
  /\ driver' = [driver EXCEPT ![d] = SpendPulse(PulseDone(@), "issued")]
  /\ settled' = [e \in Drivers |->
       IF settled[e] = Ongoing /\ driver[e].pulser = d THEN 0 ELSE settled[e]]
  /\ UNCHANGED faults

\* The second sleep is over.
WakeUp(d) ==
  /\ driver[d].pc = "settling" /\ driver[d].wait = 0
  /\ driver' = [driver EXCEPT ![d].pc = "reopening"]
  /\ UNCHANGED <<receiver, boot, holder, faults, settled>>

\* reopen() and the end of the pass.  A receiver that is up lets the node
\* reach ACTIVE; one that is coming up may have its port opened in vain.
Reopen(d) ==
  /\ driver[d].pc = "reopening"
  /\ LET up == receiver[d] \in {"ok", "stuck"} IN
     \E open \in IF receiver[d] = "booting" THEN BOOLEAN ELSE {up} :
       driver' = [driver EXCEPT ![d] =
         EndPass([driver[d] EXCEPT !.pc = "idle", !.active = up, !.link = open,
                                   !.pulser = "none",
                                   !.silence = IF up THEN 0 ELSE driver[d].silence], up)]
  /\ settled' = [settled EXCEPT ![d] = Ongoing]
  /\ UNCHANGED <<receiver, boot, holder, faults>>

\* A receiver fails by itself, while its driver's ladder is fresh.
Fault(d) ==
  /\ faults[d] < MaxFaults
  /\ Streaming(d) /\ driver[d].attempts = 0
  /\ faults' = [faults EXCEPT ![d] = @ + 1]
  /\ \/ \E r \in {"stuck", "dead"} :
          receiver' = [receiver EXCEPT ![d] = r] /\ UNCHANGED driver
     \/ driver' = [driver EXCEPT ![d].link = FALSE] /\ UNCHANGED receiver
  /\ UNCHANGED <<boot, holder, settled>>

\* A third party that held the line lets go of it.
OtherReleases ==
  /\ holder = "other"
  /\ holder' = "none"
  /\ UNCHANGED <<driver, receiver, boot, faults, settled>>

Asleep(d) == driver[d].pc \in {"driving", "settling"}

\* A time unit passes for everyone, if nobody has something to do at once.
Tick ==
  /\ \A d \in Drivers :
       /\ driver[d].pc \notin {"requesting", "reopening"}
       /\ Asleep(d) => driver[d].wait > 0
       /\ ~Due(d)
       /\ driver[d].pc = "idle" /\ Streaming(d) => driver[d].silence < MaxFixGap
  /\ driver' = [d \in Drivers |->
       [driver[d] EXCEPT !.wait = IF Asleep(d) THEN @ - 1 ELSE @,
                         !.silence = Least(@ + 1, WatchdogTimeout),
                         !.backoff = IF @ = 0 THEN 0 ELSE @ - 1]]
  /\ boot' = [d \in Drivers |-> IF boot[d] = 0 THEN 0 ELSE boot[d] - 1]
  /\ receiver' = [d \in Drivers |->
       IF receiver[d] = "booting" /\ boot[d] = 1 THEN "ok" ELSE receiver[d]]
  /\ settled' = [d \in Drivers |->
       IF settled[d] = Ongoing THEN Ongoing ELSE Least(settled[d] + 1, CycleTime)]
  /\ UNCHANGED <<holder, faults>>

Recovery(d) ==
  \/ ReopenRung(d)
  \/ DeviceRung(d)
  \/ HardwareRung(d)
  \/ AssertLine(d)
  \/ LoseRace(d)
  \/ ReleaseLine(d)
  \/ WakeUp(d)
  \/ Reopen(d)

Next ==
  \/ \E d \in Drivers : FixCallback(d) \/ Recovery(d) \/ Fault(d)
  \/ OtherReleases
  \/ Tick

Spec == Init /\ [][Next]_vars

\* Each executor runs what is due, time passes and the third party lets go.
Fairness ==
  /\ \A d \in Drivers : WF_vars(FixCallback(d)) /\ WF_vars(Recovery(d))
  /\ WF_vars(OtherReleases)
  /\ WF_vars(Tick)

FairSpec == Spec /\ Fairness

-----------------------------------------------------------------------------
(* Properties.                                                             *)

DriverStates ==
  [pc : {"idle", "requesting", "driving", "settling", "reopening"},
   wait : 0..(ResetTime + CycleTime),
   outcome : ResetPulse, pulser : Drivers \cup {"none"},
   active : BOOLEAN, link : BOOLEAN, silence : 0..WatchdogTimeout,
   pending : BOOLEAN, stage : Stages, attempts : 0..MaxBackoffShift,
   pulses : 0..GpioPulseLimit, backoff : 0..BackoffMax]

\* Every variable has its type; no driver spends more than its budget.
TypeOK ==
  /\ driver \in [Drivers -> DriverStates]
  /\ receiver \in [Drivers -> Receivers]
  /\ boot \in [Drivers -> Nat]
  /\ holder \in Drivers \cup {"none", "other"}
  /\ faults \in [Drivers -> 0..MaxFaults]
  /\ settled \in [Drivers -> Ongoing..CycleTime]

\* A driver that issued a pulse, or waited out its peer's, reopens a full
\* boot interval after that very pulse ended, whenever it noticed it.
PulseWaitedOut ==
  \A d \in Drivers :
    driver[d].pc = "reopening" /\ driver[d].outcome \in {"issued", "peer"}
      => settled[d] = CycleTime

\* A driver whose receiver has not failed by itself does not answer the
\* resets it suffers with pulses: a reopen is its whole response.
NoEcho ==
  \A d \in Drivers :
    driver[d].pc \in {"requesting", "driving"} => faults[d] > 0

\* Once the faults are over the line is left alone: a receiver that cannot be
\* recovered does not keep the healthy one in reset.
LineLeftAlone == <>[](holder \notin Drivers)

\* Every receiver that is not dead ends up streaming.
LivingRecover ==
  \A d \in Drivers : <>(receiver[d] = "dead") \/ <>[]Streaming(d)
=============================================================================
