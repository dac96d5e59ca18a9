--------------------------- MODULE RecoveryLadder ---------------------------
(***************************************************************************)
(* The bookkeeping of UbloxNode's recovery ladder, as operators on a       *)
(* record with the members they read and write: recovery_stage_ (stage),   *)
(* recovery_attempts_ (attempts), gpio_pulses_ (pulses),                   *)
(* next_recovery_time_ as the time still to go (backoff) and               *)
(* recovery_pending_ (pending).  The record may have other fields.         *)
(***************************************************************************)
EXTENDS Integers

CONSTANTS
  CycleTime,         \* recovery.cycle_time_s
  BackoffMax,        \* recovery.backoff_max_s
  MaxBackoffShift,   \* kMaxBackoffShift
  GpioPulseLimit     \* recovery.gpio_pulse_limit

\* What getRosParams() accepts, and a shift the code's constant (16) bounds.
ASSUME LadderAssumption ==
  /\ CycleTime \in Nat \ {0}
  /\ BackoffMax \in Nat /\ BackoffMax >= CycleTime
  /\ GpioPulseLimit \in Nat
  /\ MaxBackoffShift \in 3..16

Stages == {"reopen", "device", "hardware"}
ResetPulse == {"issued", "peer", "skipped"}

Least(a, b) == IF a <= b THEN a ELSE b

\* recoveryBackoff(): the base interval doubled per consecutive pass, capped.
Backoff(attempts) ==
  Least(CycleTime * 2^Least(attempts, MaxBackoffShift), BackoffMax)

\* heartbeat(): data returned.
Heartbeat(n) ==
  [n EXCEPT !.stage = "reopen", !.attempts = 0, !.pulses = 0, !.backoff = 0]

\* Defective variant, for mutation: no budget.
PulseOutcomesUnbudgeted(n, allowed) == allowed

\* tryResetGpioLine(): what a pulse may come to, given what the line allows.
PulseOutcomes(n, allowed) ==
  IF n.pulses >= GpioPulseLimit THEN {"skipped"} ELSE allowed

\* Defective variant, for mutation: a peer's pulse is free.
SpendOwnPulseOnly(n, outcome) ==
  [n EXCEPT !.pulses = IF outcome = "issued" THEN @ + 1 ELSE @]

\* Defective variant, for mutation: the budget is checked but never spent.
SpendNothing(n, outcome) == n

\* A pulse spends budget, whoever drove the line.
SpendPulse(n, outcome) ==
  [n EXCEPT !.pulses = IF outcome = "skipped" THEN @ ELSE @ + 1]

\* Defective variant, for mutation: straight to the reset line.
NextStageSkippingDevice(stage) == "hardware"

\* Defective variant, for mutation: the second rung repeats, not the last.
NextStageWithoutHardware(stage) == "device"

\* The last rung repeats.
NextStage(stage) == IF stage = "reopen" THEN "device" ELSE "hardware"

\* Defective variant, for mutation: only a failed pass backs off.
EndPassPacingFailures(n, active) ==
  [n EXCEPT !.stage = NextStage(@),
            !.backoff = IF active THEN 0 ELSE Backoff(n.attempts),
            !.attempts = Least(@ + 1, MaxBackoffShift),
            !.pending = @ \/ ~active]

\* Defective variant, for mutation: the retry armed before the transitions,
\* where on_deactivate and on_cleanup drop it.
EndPassNotRearming(n, active) ==
  [n EXCEPT !.stage = NextStage(@),
            !.backoff = Backoff(n.attempts),
            !.attempts = Least(@ + 1, MaxBackoffShift)]

\* The end of recovery(): escalate, pace the next pass, and re-arm if the node
\* is not active.  attempts matters only up to the shift, where it saturates.
EndPass(n, active) ==
  [n EXCEPT !.stage = NextStage(@),
            !.backoff = Backoff(n.attempts),
            !.attempts = Least(@ + 1, MaxBackoffShift),
            !.pending = @ \/ ~active]
=============================================================================
