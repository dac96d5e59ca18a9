------------------------------ MODULE NodeMain ------------------------------
(***************************************************************************)
(* The process: main(), the watcher thread that turns a stop signal into   *)
(* the cancellation of the executor, the signal handler, and the teardown  *)
(* ladder of finalize().  The signal handler may run between any two steps *)
(* of either thread; what it and the threads share is atomic flags.        *)
(***************************************************************************)
EXTENDS Integers, FiniteSets

CONSTANTS
  MaxSignals,     \* bound: how many stop signals the process gets
  MaxCommands,    \* bound: how many transitions are requested while it spins
  MaxThrows       \* bound: in how many places main() throws

ASSUME MainAssumption ==
  /\ MaxSignals \in Nat
  /\ MaxCommands \in Nat
  /\ MaxThrows \in Nat

VARIABLES
  main,         \* where main() is
  watcher,      \* where the watcher thread is
  stop,         \* g_stop_requested
  spinFinished, \* spin_finished
  spinning,     \* the executor's own flag, behind is_spinning() and cancel()
  lifecycle,    \* the node's primary state; none before it is constructed
  exitCode,     \* exit_code
  signals,      \* how many stop signals came
  commands,     \* how many transitions were requested while it spun
  throws,       \* history: where a call of main() threw
  firstAt       \* history: where main() was at the first signal, or nowhere

vars == <<main, watcher, stop, spinFinished, spinning, lifecycle, exitCode,
          signals, commands, throws, firstAt>>

-----------------------------------------------------------------------------

BringUpSteps == {"construct", "bringup", "configure", "configured", "activate",
                 "start"}
SpinSteps == {"spin", "spinning", "unwind", "release", "join"}
TeardownSteps == {"finalize", "deactivate", "cleanup", "shutdown", "destroy"}
Ends == {"exited", "killed"}

Primary == {"unconfigured", "inactive", "active", "finalized"}

\* A transition, and where a failing callback leaves it: in its start state,
\* or through error processing in finalized.  Shutdown finalizes either way.
Outcomes(transition) ==
  CASE transition = "configure"  -> {"inactive", "unconfigured", "finalized"}
    [] transition = "activate"   -> {"active", "inactive", "finalized"}
    [] transition = "deactivate" -> {"inactive", "active", "finalized"}
    [] transition = "cleanup"    -> {"unconfigured", "inactive", "finalized"}
    [] transition = "shutdown"   -> {"finalized"}

Accepts(transition, state) ==
  CASE transition = "configure"  -> state = "unconfigured"
    [] transition = "activate"   -> state = "inactive"
    [] transition = "deactivate" -> state = "active"
    [] transition = "cleanup"    -> state = "inactive"
    [] transition = "shutdown"   -> state \in Primary \ {"finalized"}

Init ==
  /\ main = "construct"
  /\ watcher = "none"
  /\ stop = FALSE /\ spinFinished = FALSE /\ spinning = FALSE
  /\ lifecycle = "none"
  /\ exitCode = "success"
  /\ signals = 0 /\ commands = 0
  /\ throws = {}
  /\ firstAt = "nowhere"

-----------------------------------------------------------------------------
(* Bring-up.                                                               *)

Flags == <<stop, spinFinished, spinning>>
Counts == <<signals, commands, firstAt>>

\* Defective variant, for mutation: the failure does not reach the exit code.
CaughtUnrecorded(at) ==
  /\ exitCode' = exitCode
  /\ throws' = throws \union {at}

\* The catch clauses of main(): they only record the failure.
Caught(at) ==
  /\ exitCode' = "failure"
  /\ throws' = throws \union {at}

\* Whatever throws before the watcher exists goes straight to finalize().
Throw ==
  /\ main \in BringUpSteps \ {"bringup", "configured"}
  /\ Cardinality(throws) < MaxThrows
  /\ Caught(main)
  /\ main' = "finalize"
  /\ UNCHANGED <<watcher, Flags, lifecycle, Counts>>

Construct ==
  /\ main = "construct"
  /\ main' = "bringup"
  /\ lifecycle' = "unconfigured"
  /\ UNCHANGED <<watcher, Flags, exitCode, throws, Counts>>

\* Defective variant, for mutation: a stop during configure is overlooked.
CheckStopFirstOnly ==
  /\ main \in {"bringup", "configured"}
  /\ main' = CASE main = "bringup" /\ stop -> "finalize"
               [] main = "bringup" /\ ~stop -> "configure"
               [] main = "configured" -> "activate"
  /\ UNCHANGED <<watcher, Flags, lifecycle, exitCode, throws, Counts>>

\* The two looks at the stop flag, before configure and before activate.
CheckStop ==
  /\ main \in {"bringup", "configured"}
  /\ main' = CASE stop -> "finalize"
               [] ~stop /\ main = "bringup" -> "configure"
               [] ~stop /\ main = "configured" -> "activate"
  /\ UNCHANGED <<watcher, Flags, lifecycle, exitCode, throws, Counts>>

Configure ==
  /\ main = "configure"
  /\ lifecycle' \in Outcomes("configure")
  /\ IF lifecycle' = "inactive"
       THEN main' = "configured" /\ UNCHANGED exitCode
       ELSE main' = "finalize" /\ exitCode' = "failure"
  /\ UNCHANGED <<watcher, Flags, throws, Counts>>

Activate ==
  /\ main = "activate"
  /\ lifecycle' \in Outcomes("activate")
  /\ IF lifecycle' = "active"
       THEN main' = "start" /\ UNCHANGED exitCode
       ELSE main' = "finalize" /\ exitCode' = "failure"
  /\ UNCHANGED <<watcher, Flags, throws, Counts>>

\* add_node, the watcher thread and its guard; nothing between the thread's
\* start and the guard can throw.
StartWatcher ==
  /\ main = "start"
  /\ watcher' = "polling"
  /\ main' = "spin"
  /\ UNCHANGED <<Flags, lifecycle, exitCode, throws, Counts>>

-----------------------------------------------------------------------------
(* Spinning, and what the guard does when spin() is left.                  *)

\* spin() sets the executor's flag, then runs while it is set.
BeginSpin ==
  /\ main = "spin"
  /\ spinning' = TRUE
  /\ main' = "spinning"
  /\ UNCHANGED <<watcher, stop, spinFinished, lifecycle, exitCode, throws, Counts>>

\* A transition an operator requests through the lifecycle services.
Command ==
  /\ main = "spinning" /\ spinning
  /\ commands < MaxCommands
  /\ \E transition \in {"configure", "activate", "deactivate", "cleanup", "shutdown"} :
       /\ Accepts(transition, lifecycle)
       /\ lifecycle' \in Outcomes(transition)
  /\ commands' = commands + 1
  /\ UNCHANGED <<main, watcher, Flags, exitCode, throws, signals, firstAt>>

EndSpin ==
  /\ main = "spinning" /\ ~spinning
  /\ main' = "unwind"
  /\ UNCHANGED <<watcher, Flags, lifecycle, exitCode, throws, Counts>>

\* An exception of a callback: spin() clears its flag while unwinding.
SpinThrows ==
  /\ main = "spinning"
  /\ Cardinality(throws) < MaxThrows
  /\ Caught(main)
  /\ spinning' = FALSE
  /\ main' = "unwind"
  /\ UNCHANGED <<watcher, stop, spinFinished, lifecycle, Counts>>

\* Defective variant, for mutation: the guard only requests the stop.
FinishSpinUnsaid ==
  /\ main = "unwind"
  /\ main' = "release"
  /\ UNCHANGED <<watcher, Flags, lifecycle, exitCode, throws, Counts>>

\* ~WatcherGuard: spin_finished, then the stop flag, then the join.
FinishSpin ==
  /\ main = "unwind"
  /\ spinFinished' = TRUE
  /\ main' = "release"
  /\ UNCHANGED <<watcher, stop, spinning, lifecycle, exitCode, throws, Counts>>

RequestStop ==
  /\ main = "release"
  /\ stop' = TRUE
  /\ main' = "join"
  /\ UNCHANGED <<watcher, spinFinished, spinning, lifecycle, exitCode, throws, Counts>>

\* Defective variant, for mutation: the thread is detached.
JoinedNever == main = "join"

Joined == main = "join" /\ watcher = "done"

\* The join, after which the executor goes out of scope.
Join ==
  /\ Joined
  /\ main' = "finalize"
  /\ UNCHANGED <<watcher, Flags, lifecycle, exitCode, throws, Counts>>

-----------------------------------------------------------------------------
(* The watcher thread.                                                     *)

SeeStop ==
  /\ watcher = "polling"
  /\ stop
  /\ watcher' = "guarding"
  /\ UNCHANGED <<main, Flags, lifecycle, exitCode, throws, Counts>>

\* Defective variant, for mutation: the executor is cancelled at once.
MayCancelAtOnce == watcher = "guarding"

\* The cancel-before-spin guard.
MayCancel == watcher = "guarding" /\ (spinFinished \/ spinning)

PassGuard ==
  /\ MayCancel
  /\ watcher' = "cancel"
  /\ UNCHANGED <<main, Flags, lifecycle, exitCode, throws, Counts>>

Cancel ==
  /\ watcher = "cancel"
  /\ spinning' = FALSE
  /\ watcher' = "done"
  /\ UNCHANGED <<main, stop, spinFinished, lifecycle, exitCode, throws, Counts>>

-----------------------------------------------------------------------------
(* finalize(), and the end of main().                                      *)

\* Defective variant, for mutation: a node that stays ACTIVE is left there.
RungAfterSuccess(state, rung) ==
  CASE rung = "deactivate" /\ state = "inactive" -> "cleanup"
    [] rung = "cleanup" /\ state = "unconfigured" -> "shutdown"
    [] OTHER -> "destroy"

\* What follows on_deactivate and on_cleanup, whatever they returned.
RungAfter(state, rung) ==
  CASE rung = "deactivate" /\ state = "inactive" -> "cleanup"
    [] state = "finalized" -> "destroy"
    [] OTHER -> "shutdown"

\* No node, no teardown.
Finalize ==
  /\ main = "finalize"
  /\ main' = CASE lifecycle = "none"      -> "destroy"
               [] lifecycle = "active"    -> "deactivate"
               [] lifecycle = "inactive"  -> "cleanup"
               [] lifecycle = "unconfigured" -> "shutdown"
               [] lifecycle = "finalized" -> "destroy"
  /\ UNCHANGED <<watcher, Flags, lifecycle, exitCode, throws, Counts>>

\* One transition of the ladder.
TearDown ==
  /\ main \in {"deactivate", "cleanup", "shutdown"}
  /\ lifecycle' \in Outcomes(main)
  /\ main' = RungAfter(lifecycle', main)
  /\ UNCHANGED <<watcher, Flags, exitCode, throws, Counts>>

\* finalize() is noexcept: an exception ends the ladder and is logged.
TearDownThrows ==
  /\ main \in {"deactivate", "cleanup", "shutdown"}
  /\ Cardinality(throws) < MaxThrows
  /\ throws' = throws \union {main}
  /\ main' = "destroy"
  /\ UNCHANGED <<watcher, Flags, lifecycle, exitCode, Counts>>

\* node.reset(), rclcpp::shutdown() and the return.
Exit ==
  /\ main = "destroy"
  /\ main' = "exited"
  /\ UNCHANGED <<watcher, Flags, lifecycle, exitCode, throws, Counts>>

-----------------------------------------------------------------------------

\* Defective variant, for mutation: a signal during teardown counts as second.
ForcesInTeardown == stop \/ main \in TeardownSteps

\* handle_stop_signal(): the exchange tells a second request from the first.
Forces == stop

Signal ==
  /\ main \notin Ends
  /\ signals < MaxSignals
  /\ signals' = signals + 1
  /\ firstAt' = IF signals = 0 THEN main ELSE firstAt
  /\ stop' = TRUE
  /\ IF Forces THEN main' = "killed" /\ exitCode' = "failure"
               ELSE UNCHANGED <<main, exitCode>>
  /\ UNCHANGED <<watcher, spinFinished, spinning, lifecycle, commands, throws>>

MainStep ==
  \/ Construct \/ CheckStop \/ Configure \/ Activate \/ StartWatcher
  \/ BeginSpin \/ EndSpin \/ FinishSpin \/ RequestStop \/ Join
  \/ Finalize \/ TearDown \/ Exit

WatcherStep == main \notin Ends /\ (SeeStop \/ PassGuard \/ Cancel)

Next ==
  \/ MainStep \/ WatcherStep
  \/ Throw \/ SpinThrows \/ TearDownThrows
  \/ Command
  \/ Signal

Spec == Init /\ [][Next]_vars

\* The scheduler runs both threads, and callbacks return.  Nothing obliges a
\* signal, a command or an exception.
FairSpec == Spec /\ WF_vars(MainStep) /\ WF_vars(WatcherStep)

-----------------------------------------------------------------------------
(* Properties.                                                             *)

Steps == BringUpSteps \union SpinSteps \union TeardownSteps \union Ends

TypeOK ==
  /\ main \in Steps
  /\ watcher \in {"none", "polling", "guarding", "cancel", "done"}
  /\ stop \in BOOLEAN /\ spinFinished \in BOOLEAN /\ spinning \in BOOLEAN
  /\ lifecycle \in Primary \union {"none"}
  /\ exitCode \in {"success", "failure"}
  /\ signals \in 0 .. MaxSignals
  /\ commands \in 0 .. MaxCommands
  /\ throws \subseteq Steps /\ Cardinality(throws) <= MaxThrows
  /\ firstAt \in Steps \union {"nowhere"}

\* The watcher thread uses the executor and spin_finished by reference: it is
\* over before main() leaves the scope that holds them, exceptions included.
WatcherInScope ==
  watcher \in {"polling", "guarding", "cancel"} => main \in SpinSteps \union {"killed"}

\* Every exit that is not forced ran on_shutdown (or went through error
\* processing) before the node was destroyed, from whatever state an operator
\* or a failing callback left the node in, unless the teardown itself threw.
FinalizedAtExit ==
  (main = "exited" /\ lifecycle # "none" /\ throws \intersect TeardownSteps = {})
    => lifecycle = "finalized"

\* The process reports success only if somebody asked it to stop: spin() does
\* not end by itself, and no failed bring-up passes for a stop.
CleanExitWasAsked ==
  (main = "exited" /\ exitCode = "success") => signals > 0

\* No signal cuts the teardown short but a second one, or one that follows an
\* exception out of spin(): the guard has then set the flag the handler tests.
ForcedBySecondSignal ==
  main = "killed" => signals >= 2 \/ "spinning" \in throws

\* A stop that arrives before bring-up has activated the node is honoured: the
\* receiver is never brought into operation for a process that is to end.
EarlyStopHonoured ==
  firstAt \in {"construct", "bringup", "configure", "configured"}
    => lifecycle # "active"

\* Once a stop is requested or something threw, the process ends: the cancel
\* is not lost to a spin that has yet to begin, and the join does not wait for
\* a spin that is over.
EndsOnceStopped == (stop \/ throws # {}) ~> main \in Ends

=============================================================================
