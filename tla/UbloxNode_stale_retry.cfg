CONSTANTS
  WatchdogTimeout = 2
  MaxFixGap = 2
  CycleTime = 1
  BackoffMax = 5
  MaxBackoffShift = 3
  GpioPulseLimit = 2
  LineOutcomes = {"issued", "peer", "skipped"}
  SaveOnShutdown = FALSE
  Commands = {"configure", "activate", "deactivate", "cleanup", "shutdown"}
  MaxDisturbances = 3
  MaxComponents = 2
SPECIFICATION Spec
PROPERTY RecoveryOnlyOnSilence
CHECK_DEADLOCK FALSE
