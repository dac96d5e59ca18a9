--------------------------- MODULE NodeMain_proofs ---------------------------
(***************************************************************************)
(* Proofs about NodeMain, for any number of signals, commands and throws.  *)
(***************************************************************************)
EXTENDS NodeMain, FiniteSetTheorems, TLAPS

-----------------------------------------------------------------------------
(* The inductive invariant.                                                *)

\* Before the node is to be activated a stop is still honoured.
Early == {"construct", "bringup", "configure", "configured"}

\* Where main() is tells how far the node is.
BringUpShape ==
  /\ main = "construct" => lifecycle = "none"
  /\ main \in {"bringup", "configure"} => lifecycle = "unconfigured"
  /\ main = "configured" => lifecycle = "inactive"
  /\ main = "deactivate" => lifecycle = "active"

\* An early stop keeps main() from the steps that activate and spin.
EarlyStop ==
  firstAt \in Early =>
    /\ stop
    /\ main \notin {"activate", "start"} \union SpinSteps
    /\ lifecycle # "active"

\* Only the ladder's end, or the lack of a node, leads to its destruction.
TeardownShape ==
  (main \in {"destroy", "exited"} /\ lifecycle # "none"
     /\ throws \intersect TeardownSteps = {}) => lifecycle = "finalized"

\* Until the guard sets it too, the stop flag stands for a signal; the watcher
\* goes on, and the spin ends, because of it.
StopWasAsked ==
  /\ (stop /\ main \in BringUpSteps \union {"spin", "spinning"}) => signals > 0
  /\ watcher \in {"guarding", "cancel", "done"} => stop
  /\ (main = "spinning" /\ ~spinning) => stop

\* Past the spin, somebody asked for the end, or it is a failure.
EndWasAsked ==
  main \in {"unwind", "release", "join", "exited"} \union TeardownSteps =>
    /\ exitCode = "success" => signals > 0
    /\ (stop \/ main \in SpinSteps) => signals > 0 \/ "spinning" \in throws

IInv ==
  /\ TypeOK
  /\ IsFiniteSet(throws)
  /\ WatcherInScope
  /\ BringUpShape
  /\ EarlyStop
  /\ TeardownShape
  /\ StopWasAsked
  /\ EndWasAsked
  /\ ForcedBySecondSignal
-----------------------------------------------------------------------------
(* Lemmas.                                                                 *)

\* A throw is recorded only below the bound, so the record stays within it.
LEMMA RecordStaysBounded ==
  ASSUME NEW S, IsFiniteSet(S), NEW at, Cardinality(S) < MaxThrows
  PROVE  /\ IsFiniteSet(S \union {at})
         /\ Cardinality(S \union {at}) <= MaxThrows
<1>1. /\ IsFiniteSet(S \union {at})
      /\ \/ Cardinality(S \union {at}) = Cardinality(S)
         \/ Cardinality(S \union {at}) = Cardinality(S) + 1
  BY FS_AddElement
<1>2. Cardinality(S) \in Nat /\ MaxThrows \in Nat
  BY FS_CardinalityType, MainAssumption DEF MainAssumption
<1> QED BY <1>1, <1>2

\* The invariant holds when main() begins.
LEMMA InitEstablishes == Init => IInv
<1> SUFFICES ASSUME Init PROVE IInv
  OBVIOUS
<1>1. IsFiniteSet(throws) /\ Cardinality(throws) = 0
  BY FS_EmptySet DEF Init
<1>2. 0 \in 0 .. MaxSignals /\ 0 \in 0 .. MaxCommands /\ 0 <= MaxThrows
  BY MainAssumption DEF MainAssumption
<1>3. throws \subseteq Steps /\ Cardinality(throws) <= MaxThrows
  BY <1>1, <1>2 DEF Init
<1>4. TypeOK
  BY <1>2, <1>3 DEF Init, TypeOK, Steps, BringUpSteps
<1> QED
  BY <1>1, <1>4 DEF Init, IInv, WatcherInScope, BringUpShape, EarlyStop, Early,
     TeardownShape, StopWasAsked, EndWasAsked, ForcedBySecondSignal, SpinSteps,
     BringUpSteps, TeardownSteps

\* The steps that bring the node up, up to the watcher's start.
LEMMA BringUpKeeps ==
  ASSUME IInv, Construct \/ CheckStop \/ Configure \/ Activate \/ StartWatcher
  PROVE  IInv'
<1> USE DEF IInv, TypeOK, Steps, WatcherInScope, BringUpShape, EarlyStop, Early,
            TeardownShape, StopWasAsked, EndWasAsked, ForcedBySecondSignal,
            BringUpSteps, SpinSteps, TeardownSteps, Ends, Primary, Flags, Counts
<1>1. CASE Construct
  BY <1>1 DEF Construct
<1>2. CASE CheckStop
  BY <1>2 DEF CheckStop
<1>3. CASE Configure
  BY <1>3 DEF Configure, Outcomes
<1>4. CASE Activate
  BY <1>4 DEF Activate, Outcomes
<1>5. CASE StartWatcher
  BY <1>5 DEF StartWatcher
<1> QED BY <1>1, <1>2, <1>3, <1>4, <1>5

\* The spin, the guard's destructor, and the join.
LEMMA SpinKeeps ==
  ASSUME IInv,
         BeginSpin \/ Command \/ EndSpin \/ FinishSpin \/ RequestStop \/ Join
  PROVE  IInv'
<1> USE DEF IInv, TypeOK, Steps, WatcherInScope, BringUpShape, EarlyStop, Early,
            TeardownShape, StopWasAsked, EndWasAsked, ForcedBySecondSignal,
            BringUpSteps, SpinSteps, TeardownSteps, Ends, Primary, Flags, Counts
<1>1. CASE BeginSpin
  BY <1>1 DEF BeginSpin
<1>2. CASE Command
  BY <1>2, MainAssumption DEF Command, Outcomes, Accepts, MainAssumption
<1>3. CASE EndSpin
  BY <1>3 DEF EndSpin
<1>4. CASE FinishSpin
  BY <1>4 DEF FinishSpin
<1>5. CASE RequestStop
  BY <1>5 DEF RequestStop
<1>6. CASE Join
  BY <1>6 DEF Join, Joined
<1> QED BY <1>1, <1>2, <1>3, <1>4, <1>5, <1>6

\* The watcher thread's steps.
LEMMA WatcherKeeps ==
  ASSUME IInv, WatcherStep
  PROVE  IInv'
<1> USE DEF IInv, TypeOK, Steps, WatcherInScope, BringUpShape, EarlyStop, Early,
            TeardownShape, StopWasAsked, EndWasAsked, ForcedBySecondSignal,
            BringUpSteps, SpinSteps, TeardownSteps, Ends, Primary, Flags, Counts
<1>1. CASE SeeStop
  BY <1>1 DEF SeeStop
<1>2. CASE PassGuard
  BY <1>2 DEF PassGuard, MayCancel
<1>3. CASE Cancel
  <2>1. spinning' \in BOOLEAN /\ ~spinning'
    BY <1>3 DEF Cancel
  <2>2. StopWasAsked'
    BY <1>3 DEF Cancel
  <2>3. TypeOK'
    BY <1>3, <2>1 DEF Cancel
  <2> QED BY <1>3, <2>2, <2>3 DEF Cancel
<1> QED BY <1>1, <1>2, <1>3 DEF WatcherStep

\* finalize() and what follows it.
LEMMA TeardownKeeps ==
  ASSUME IInv, Finalize \/ TearDown \/ Exit
  PROVE  IInv'
<1> USE DEF IInv, TypeOK, Steps, WatcherInScope, BringUpShape, EarlyStop, Early,
            TeardownShape, StopWasAsked, EndWasAsked, ForcedBySecondSignal,
            BringUpSteps, SpinSteps, TeardownSteps, Ends, Primary, Flags, Counts
<1>1. CASE Finalize
  BY <1>1 DEF Finalize
<1>2. CASE TearDown
  BY <1>2 DEF TearDown, Outcomes, RungAfter
<1>3. CASE Exit
  BY <1>3 DEF Exit
<1> QED BY <1>1, <1>2, <1>3

\* An exception, wherever main() is.
LEMMA ThrowKeeps ==
  ASSUME IInv, Throw \/ SpinThrows \/ TearDownThrows
  PROVE  IInv'
<1>0. /\ IsFiniteSet(throws')
      /\ Cardinality(throws') <= MaxThrows
  BY RecordStaysBounded DEF IInv, Throw, SpinThrows, TearDownThrows, Caught
<1> USE DEF IInv, TypeOK, Steps, WatcherInScope, BringUpShape, EarlyStop, Early,
            TeardownShape, StopWasAsked, EndWasAsked, ForcedBySecondSignal,
            BringUpSteps, SpinSteps, TeardownSteps, Ends, Primary, Flags, Counts
<1>1. CASE Throw
  BY <1>0, <1>1 DEF Throw, Caught
<1>2. CASE SpinThrows
  <2>1. spinning' \in BOOLEAN /\ ~spinning'
    BY <1>2 DEF SpinThrows
  <2>2. StopWasAsked'
    BY <1>2 DEF SpinThrows, Caught
  <2>3. TypeOK'
    BY <1>0, <1>2, <2>1 DEF SpinThrows, Caught
  <2> QED BY <1>0, <1>2, <2>2, <2>3 DEF SpinThrows, Caught
<1>3. CASE TearDownThrows
  BY <1>0, <1>3 DEF TearDownThrows
<1> QED BY <1>1, <1>2, <1>3

\* A stop signal, the first or the one that forces the exit.
LEMMA SignalKeeps ==
  ASSUME IInv, Signal
  PROVE  IInv'
<1> USE DEF IInv, TypeOK, Steps, WatcherInScope, BringUpShape, EarlyStop, Early,
            TeardownShape, StopWasAsked, EndWasAsked, ForcedBySecondSignal,
            BringUpSteps, SpinSteps, TeardownSteps, Ends, Primary, Flags, Counts
<1>1. signals' \in 1 .. MaxSignals
  BY MainAssumption DEF Signal, MainAssumption
<1>2. CASE Forces
  BY <1>1, <1>2, MainAssumption DEF Signal, Forces, MainAssumption
<1>3. CASE ~Forces
  BY <1>1, <1>3, MainAssumption DEF Signal, Forces, MainAssumption
<1> QED BY <1>2, <1>3

\* Every step keeps the invariant.
LEMMA StepKeeps == IInv /\ [Next]_vars => IInv'
<1> SUFFICES ASSUME IInv, [Next]_vars PROVE IInv'
  OBVIOUS
<1>1. CASE MainStep
  BY <1>1, BringUpKeeps, SpinKeeps, TeardownKeeps DEF MainStep
<1>2. CASE WatcherStep
  BY <1>2, WatcherKeeps
<1>3. CASE Throw \/ SpinThrows \/ TearDownThrows
  BY <1>3, ThrowKeeps
<1>4. CASE Command
  BY <1>4, SpinKeeps
<1>5. CASE Signal
  BY <1>5, SignalKeeps
<1>6. CASE UNCHANGED vars
  BY <1>6 DEF vars, IInv, TypeOK, WatcherInScope, BringUpShape, EarlyStop,
     TeardownShape, StopWasAsked, EndWasAsked, ForcedBySecondSignal
<1> QED BY <1>1, <1>2, <1>3, <1>4, <1>5, <1>6 DEF Next

\* The invariant holds in every state of the process.
LEMMA Inductive == Spec => []IInv
<1> QED BY InitEstablishes, StepKeeps, PTL DEF Spec

-----------------------------------------------------------------------------
(* Theorems.                                                               *)

\* The state has its types, the counters within their bounds (main()).
THEOREM TypeCorrect == Spec => []TypeOK
<1>1. IInv => TypeOK BY DEF IInv
<1> QED BY <1>1, Inductive, PTL

\* The watcher never outlives the executor and the flag it refers to: the
\* guard's destructor joins it on every way out of the scope (~WatcherGuard).
THEOREM WatcherStaysInScope == Spec => []WatcherInScope
<1>1. IInv => WatcherInScope BY DEF IInv
<1> QED BY <1>1, Inductive, PTL

\* An exit that is not forced leaves the node finalized (finalize()).
THEOREM AlwaysFinalizedAtExit == Spec => []FinalizedAtExit
<1>1. IInv => FinalizedAtExit BY DEF IInv, TeardownShape, FinalizedAtExit
<1> QED BY <1>1, Inductive, PTL

\* Success is reported only to somebody who asked for the end (main()).
THEOREM CleanExitAlwaysAsked == Spec => []CleanExitWasAsked
<1>1. IInv => CleanExitWasAsked BY DEF IInv, EndWasAsked, CleanExitWasAsked
<1> QED BY <1>1, Inductive, PTL

\* Only a second signal, or one after an exception of the spin, cuts the
\* teardown short (handle_stop_signal()).
THEOREM OnlySecondSignalForces == Spec => []ForcedBySecondSignal
<1>1. IInv => ForcedBySecondSignal BY DEF IInv
<1> QED BY <1>1, Inductive, PTL

\* A stop during bring-up keeps the receiver out of operation (main()).
THEOREM EarlyStopAlwaysHonoured == Spec => []EarlyStopHonoured
<1>1. IInv => EarlyStopHonoured BY DEF IInv, EarlyStop, Early, EarlyStopHonoured
<1> QED BY <1>1, Inductive, PTL

=============================================================================
