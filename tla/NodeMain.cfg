CONSTANTS
  MaxSignals = 2
  MaxCommands = 3
  MaxThrows = 2
SPECIFICATION FairSpec
INVARIANTS
  WatcherInScope
  FinalizedAtExit
  CleanExitWasAsked
  ForcedBySecondSignal
  EarlyStopHonoured
PROPERTIES
  EndsOnceStopped
CHECK_DEADLOCK FALSE
