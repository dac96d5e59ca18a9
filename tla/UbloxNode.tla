------------------------------ MODULE UbloxNode ------------------------------
(***************************************************************************)
(* The lifecycle node of the u-blox driver and its recovery ladder         *)
(* (ublox_gps/src/node.cpp): the five lifecycle callbacks, the comms       *)
(* watchdog, recovery() with its three rungs, the backoff between passes   *)
(* and the pulse budget of the shared reset line.                          *)
(*                                                                         *)
(* Everything here runs on one single-threaded executor, so a callback is  *)
(* one action.  recovery() runs inline in the watchdog timer: a whole pass *)
(* is one action too.  The lifecycle callbacks are operators from the      *)
(* node's fields to the node's fields, because a pass chains four of them. *)
(*                                                                         *)
(* Time is discrete.  last_fix_time_ is its distance in the past (fixAge,  *)
(* saturating at the timeout) and next_recovery_time_ its distance in the  *)
(* future (backoff), so the model needs no clock.                          *)
(***************************************************************************)
EXTENDS RecoveryLadder

CONSTANTS
  WatchdogTimeout,   \* watchdog.timeout_ms, in time units
  MaxFixGap,         \* longest silence of a receiver that is streaming
  LineOutcomes,      \* what resetGpioLine() may return
  SaveOnShutdown,    \* save_on_shutdown (firmware 8 and 9)
  Commands,          \* lifecycle services an operator calls
  MaxDisturbances,   \* bound: changes of the receiver or of the link
  MaxComponents      \* bound: components_ saturates here

Lifecycles == {"unconfigured", "inactive", "active", "finalized"}
AllCommands == {"configure", "activate", "deactivate", "cleanup", "shutdown"}

ASSUME NodeAssumption ==
  /\ WatchdogTimeout \in Nat \ {0}
  /\ MaxFixGap \in Nat
  /\ LineOutcomes \subseteq ResetPulse /\ LineOutcomes # {}
  /\ SaveOnShutdown \in BOOLEAN
  /\ Commands \subseteq AllCommands
  /\ MaxDisturbances \in Nat
  /\ MaxComponents \in Nat \ {0}

VARIABLES
  node,          \* the members of UbloxNode
  receiver,      \* condition of the receiver
  main,          \* where node_main is: bringup, spinning or exited
  disturbances,  \* how many disturbances there have been
  sincePass,     \* history: time since the last recovery pass
  mover          \* history: who last drove the lifecycle

vars == <<node, receiver, main, disturbances, sincePass, mover>>

-----------------------------------------------------------------------------
(* The receiver, seen through what the driver can tell apart.              *)

\* ok       answers, accepts its configuration and streams solutions
\* stalled  answers and accepts, but emits no solution until it is reset
\* refusing answers MON-VER but rejects a configuration message
\* hung     the port opens, nothing answers, UBX-CFG-RST is ignored
\* booting  restarting: the port may be missing, nothing answers
\* absent   there is no port
Receivers == {"ok", "stalled", "refusing", "hung", "booting", "absent"}

\* gps_: no object, an object without a worker, one on a live port, one on a
\* port that is dead underneath it.
GpsStates == {"null", "closed", "open", "stale"}

\* What a reset leads to.  It does not bring back a receiver that is not
\* there, nor one that rejects this configuration.
AfterReset(r) == IF r \in {"absent", "refusing"} THEN {r} ELSE {"ok", "booting"}

\* initializeIo(): whether the port opens.
InitializeIo(r) == IF r = "booting" THEN BOOLEAN ELSE {r # "absent"}

\* processMonVer(): whether MON-VER is answered.
ProcessMonVer(r) == r \in {"ok", "stalled", "refusing"}

\* configureUblox(): whether every configuration message is acknowledged.
ConfigureUblox(r) == r # "refusing"

\* initialize(): the first two throw, the last is only asked.
Initialize(r, opened) ==
  CASE ~opened -> "no_port"
    [] opened /\ ~ProcessMonVer(r) -> "no_answer"
    [] opened /\ ProcessMonVer(r) /\ ~ConfigureUblox(r) -> "refused"
    [] opened /\ ProcessMonVer(r) /\ ConfigureUblox(r) -> "configured"

ConfigureOutcomes(r) == {Initialize(r, opened) : opened \in InitializeIo(r)}

\* Gps::close() with save_on_shutdown stops the GNSS engine (CFG-RST,
\* GNSS_STOP) before it saves the battery-backed data.
AfterClose(n, r) ==
  IF n.gps = "open" /\ n.saves /\ r = "ok" THEN "stalled" ELSE r

-----------------------------------------------------------------------------
(* The members of UbloxNode, and its lifecycle callbacks.                  *)

Constructed ==
  [lifecycle |-> "unconfigured",
   gps |-> "null", saves |-> FALSE, subscribed |-> FALSE, components |-> 0,
   timers |-> "none", fixSubscriber |-> FALSE,
   monitoring |-> FALSE, pending |-> FALSE, fixAge |-> WatchdogTimeout,
   stage |-> "reopen", attempts |-> 0, pulses |-> 0, backoff |-> 0]

\* on_configure: a new Gps, then initialize().  A port that does not open, or
\* MON-VER unanswered, throws; the Gps object survives.  configureUblox() that
\* returns false does not: nothing is subscribed, and the callback succeeds.
OnConfigure(n, outcome) ==
  LET fresh == [n EXCEPT !.saves = FALSE, !.subscribed = FALSE]
      known == Least(n.components + 1, MaxComponents)
  IN CASE outcome = "no_port"   -> [fresh EXCEPT !.gps = "closed"]
       [] outcome = "no_answer" -> [fresh EXCEPT !.gps = "open"]
       [] outcome = "refused"   ->
            [fresh EXCEPT !.lifecycle = "inactive", !.gps = "open",
                          !.saves = SaveOnShutdown, !.components = known]
       [] outcome = "configured" ->
            [fresh EXCEPT !.lifecycle = "inactive", !.gps = "open",
                          !.saves = SaveOnShutdown, !.components = known,
                          !.subscribed = TRUE, !.timers = "running"]

OnActivate(n) ==
  [n EXCEPT !.lifecycle = "active",
            !.timers = IF @ = "none" THEN "none" ELSE "running",
            !.fixAge = 0, !.monitoring = TRUE, !.fixSubscriber = TRUE]

\* Defective variant, for mutation: an armed retry survives.
OnDeactivateKeepingRetry(n) ==
  [n EXCEPT !.lifecycle = "inactive",
            !.timers = IF @ = "none" THEN "none" ELSE "canceled",
            !.monitoring = FALSE, !.fixSubscriber = FALSE]

\* Defective variant, for mutation: the ladder starts over at every pass.
OnDeactivateResettingStage(n) ==
  [n EXCEPT !.lifecycle = "inactive", !.stage = "reopen",
            !.timers = IF @ = "none" THEN "none" ELSE "canceled",
            !.monitoring = FALSE, !.pending = FALSE, !.fixSubscriber = FALSE]

OnDeactivate(n) ==
  [n EXCEPT !.lifecycle = "inactive",
            !.timers = IF @ = "none" THEN "none" ELSE "canceled",
            !.monitoring = FALSE, !.pending = FALSE, !.fixSubscriber = FALSE]

\* Defective variant, for mutation: the timers outlive the Gps they poll.
OnCleanupKeepingTimers(n) ==
  [n EXCEPT !.lifecycle = "unconfigured",
            !.gps = "null", !.saves = FALSE, !.subscribed = FALSE,
            !.pending = FALSE]

\* components_ keeps what on_configure pushed.
OnCleanup(n) ==
  [n EXCEPT !.lifecycle = "unconfigured", !.timers = "none",
            !.gps = "null", !.saves = FALSE, !.subscribed = FALSE,
            !.pending = FALSE]

\* Defective variant, for mutation: the watchdog stays armed.
OnShutdownStayingArmed(n) ==
  [n EXCEPT !.lifecycle = "finalized",
            !.gps = IF @ = "null" THEN "null" ELSE "closed"]

OnShutdown(n) ==
  [n EXCEPT !.lifecycle = "finalized", !.monitoring = FALSE, !.pending = FALSE,
            !.gps = IF @ = "null" THEN "null" ELSE "closed"]

\* reopen(): each transition guarded on the state the one before left.
Reopen(n, outcome) ==
  LET down  == IF n.lifecycle = "active" THEN OnDeactivate(n) ELSE n
      clean == IF down.lifecycle = "inactive" THEN OnCleanup(down) ELSE down
      up    == IF clean.lifecycle = "unconfigured"
                 THEN OnConfigure(clean, outcome) ELSE clean
  IN IF up.lifecycle = "inactive" THEN OnActivate(up) ELSE up

-----------------------------------------------------------------------------
(* The rungs, and a recovery pass.                                         *)

\* The reset line as the rung sees it: only the last rung touches it.
RungOutcomes(n) == IF n.stage = "hardware" THEN PulseOutcomes(n, LineOutcomes)
                   ELSE {"skipped"}

\* A pulse resets the receiver; so does CFG-RST, if it reaches a receiver that
\* listens.  gps_ is null or without a worker after a failed configure.
AfterRung(n, r, outcome) ==
  IF \/ outcome # "skipped"
     \/ n.stage = "device" /\ n.gps = "open" /\ r \in {"ok", "stalled"}
  THEN AfterReset(r) ELSE {r}

\* recovery()
Recovery(n) ==
  \E pulse \in RungOutcomes(n) :
  \E reset \in AfterRung(n, receiver, pulse) :
    LET closed == IF n.lifecycle \in {"active", "inactive"}
                    THEN AfterClose(n, reset) ELSE reset
    IN \E outcome \in ConfigureOutcomes(closed) :
         /\ receiver' = closed
         /\ LET cycled == Reopen(SpendPulse(n, pulse), outcome)
            IN node' = EndPass(cycled, cycled.lifecycle = "active")

-----------------------------------------------------------------------------
(* Actions.                                                                *)

Init ==
  /\ node = Constructed
  /\ receiver \in Receivers
  /\ main = "bringup"
  /\ disturbances = 0
  /\ sincePass = 0
  /\ mover = "main"

\* node_main: configure, then activate, before the executor spins.  Either
\* failing ends the process.
BringUp ==
  /\ main = "bringup"
  /\ \E outcome \in ConfigureOutcomes(receiver) :
       LET up == OnConfigure(node, outcome)
       IN IF up.lifecycle = "inactive"
            THEN node' = OnActivate(up) /\ main' = "spinning"
            ELSE node' = up /\ main' = "exited"
  /\ UNCHANGED <<receiver, disturbances, sincePass, mover>>

\* A receiver that streams into a node whose ~/fix subscription exists.
Streaming ==
  /\ node.fixSubscriber /\ node.lifecycle = "active"
  /\ node.gps = "open" /\ node.subscribed
  /\ receiver = "ok"

\* fixCallback(), which ends in heartbeat().
FixCallback ==
  /\ main = "spinning"
  /\ Streaming
  /\ node' = Heartbeat([node EXCEPT !.fixAge = 0])
  /\ UNCHANGED <<receiver, main, disturbances, sincePass, mover>>

\* watchdogCheck(): the retry first, then the freshness check.
WatchdogCheck ==
  /\ main = "spinning"
  /\ node.backoff = 0
  /\ \/ node.pending
     \/ node.monitoring /\ node.fixAge >= WatchdogTimeout
  /\ Recovery([node EXCEPT !.pending = FALSE])
  /\ sincePass' = 0
  /\ mover' = "watchdog"
  /\ UNCHANGED <<main, disturbances>>

\* The lifecycle services.  A transition is accepted in its start state only.
OperatorConfigure ==
  /\ node.lifecycle = "unconfigured"
  /\ \E outcome \in ConfigureOutcomes(receiver) : node' = OnConfigure(node, outcome)
  /\ UNCHANGED receiver

OperatorActivate ==
  /\ node.lifecycle = "inactive"
  /\ node' = OnActivate(node)
  /\ UNCHANGED receiver

OperatorDeactivate ==
  /\ node.lifecycle = "active"
  /\ node' = OnDeactivate(node)
  /\ UNCHANGED receiver

OperatorCleanup ==
  /\ node.lifecycle = "inactive"
  /\ node' = OnCleanup(node)
  /\ receiver' = AfterClose(node, receiver)

OperatorShutdown ==
  /\ node.lifecycle # "finalized"
  /\ node' = OnShutdown(node)
  /\ receiver' = AfterClose(node, receiver)

Operator(command) ==
  /\ main = "spinning"
  /\ CASE command = "configure"  -> OperatorConfigure
       [] command = "activate"   -> OperatorActivate
       [] command = "deactivate" -> OperatorDeactivate
       [] command = "cleanup"    -> OperatorCleanup
       [] command = "shutdown"   -> OperatorShutdown
  /\ mover' = command
  /\ UNCHANGED <<main, disturbances, sincePass>>

\* The receiver or the link changes by itself.  A receiver that leaves the
\* port or restarts takes the open descriptor with it; the descriptor may also
\* die alone (re-enumeration, a dropped connection).
Disturb ==
  /\ main # "exited"
  /\ disturbances < MaxDisturbances
  /\ disturbances' = disturbances + 1
  /\ \E r \in Receivers, linkLost \in BOOLEAN :
       /\ r \in {"booting", "absent"} => linkLost
       /\ receiver' = r
       /\ node' = IF linkLost /\ node.gps = "open"
                    THEN [node EXCEPT !.gps = "stale"] ELSE node
  /\ UNCHANGED <<main, sincePass, mover>>

BootDone ==
  /\ receiver = "booting"
  /\ receiver' = "ok"
  /\ UNCHANGED <<node, main, disturbances, sincePass, mover>>

\* A time unit passes.  A streaming receiver is never silent for longer than
\* MaxFixGap.
Tick ==
  /\ main = "spinning"
  /\ Streaming => node.fixAge < MaxFixGap
  /\ node' = [node EXCEPT !.fixAge = Least(@ + 1, WatchdogTimeout),
                          !.backoff = IF @ = 0 THEN 0 ELSE @ - 1]
  /\ sincePass' = Least(sincePass + 1, BackoffMax)
  /\ UNCHANGED <<receiver, main, disturbances, mover>>

Next ==
  \/ BringUp
  \/ FixCallback
  \/ WatchdogCheck
  \/ \E command \in Commands : Operator(command)
  \/ Disturb
  \/ BootDone
  \/ Tick

Spec == Init /\ [][Next]_vars

\* The executor keeps running timers and callbacks, time passes, and a booting
\* receiver comes up.  Nothing obliges an operator or a disturbance.
Fairness ==
  /\ WF_vars(BringUp)
  /\ WF_vars(FixCallback)
  /\ WF_vars(WatchdogCheck)
  /\ WF_vars(BootDone)
  /\ WF_vars(Tick)

FairSpec == Spec /\ Fairness

-----------------------------------------------------------------------------
(* Properties.                                                             *)

NodeStates ==
  [lifecycle : Lifecycles,
   gps : GpsStates, saves : BOOLEAN, subscribed : BOOLEAN,
   components : 0..MaxComponents,
   timers : {"none", "running", "canceled"}, fixSubscriber : BOOLEAN,
   monitoring : BOOLEAN, pending : BOOLEAN, fixAge : 0..WatchdogTimeout,
   stage : {"reopen", "device", "hardware"}, attempts : 0..MaxBackoffShift,
   pulses : 0..GpioPulseLimit, backoff : 0..BackoffMax]

\* Every variable has its type; the reset line is never pulsed past its budget
\* and no backoff exceeds its ceiling.
TypeOK ==
  /\ node \in NodeStates
  /\ receiver \in Receivers
  /\ main \in {"bringup", "spinning", "exited"}
  /\ disturbances \in 0..MaxDisturbances
  /\ sincePass \in 0..BackoffMax
  /\ mover \in {"main", "watchdog"} \cup AllCommands

\* keepAlive() and pollMessages() dereference gps_ unguarded: while a timer
\* object exists, so does the Gps it polls.
TimersHaveReceiver == node.timers # "none" => node.gps # "null"

\* The watchdog guards comms exactly while the node is active, in whatever
\* order operator and recovery transitions come.
ArmedWhileActive == node.monitoring <=> node.lifecycle = "active"

\* The line resets both receivers: it has been pulsed only if at least three
\* passes (reopen, device reset, this one) ran since data last arrived.
HardwareResetIsLastResort ==
  /\ node.stage = "device" => node.attempts >= 1
  /\ node.stage = "hardware" => node.attempts >= 2
  /\ node.pulses > 0 => node.attempts >= 3

\* A node that neither an operator nor bring-up left short of ACTIVE has its
\* retry armed: recovery never gives up on a receiver.
NeverAbandoned ==
  node.lifecycle \in {"unconfigured", "inactive"} /\ mover = "watchdog"
    => node.pending

\* An operator's deactivate, cleanup or shutdown sticks: afterwards nothing is
\* armed that could cycle the node underneath them.
QuiescedStaysQuiet ==
  mover \in {"deactivate", "cleanup", "shutdown"}
    => ~node.pending /\ ~node.monitoring /\ node.lifecycle # "active"

\* Without data in between, a pass waits out the backoff of the one before it,
\* whether or not that one reached ACTIVE.
PassesArePaced ==
  [][WatchdogCheck /\ node.attempts > 0
       => sincePass >= Backoff(node.attempts - 1)]_vars

\* Only data gives back pulses, and only data steps the ladder down.
OnlyDataRelaxes ==
  [][node'.pulses < node.pulses \/ (node.stage # "reopen" /\ node'.stage = "reopen")
       => Streaming /\ node'.fixAge = 0]_vars

\* Once the receiver stays up, the node ends up streaming, whatever happened
\* before: a slow boot cannot be reset forever, because the budget runs out.
EventuallyStreams ==
  <>[](receiver \in {"ok", "booting"}) /\ <>(main = "spinning") => <>[]Streaming

FreshFault ==
  /\ disturbances = MaxDisturbances
  /\ receiver \notin {"absent", "refusing"}
  /\ node.lifecycle = "active" /\ node.attempts = 0

\* The last fault of a node whose ladder is fresh is cured by the ladder alone,
\* unless the receiver is gone or rejects its configuration: each rung reaches
\* the faults the cheaper ones cannot.
LadderCuresFault ==
  FreshFault ~> Streaming

\* A recovery pass takes down an active node only on comms loss.
RecoveryOnlyOnSilence ==
  [][WatchdogCheck /\ node.lifecycle = "active"
       => node.fixAge >= WatchdogTimeout]_vars
=============================================================================
