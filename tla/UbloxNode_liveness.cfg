CONSTANTS
  WatchdogTimeout = 2
  MaxFixGap = 1
  CycleTime = 1
  BackoffMax = 5
  MaxBackoffShift = 3
  GpioPulseLimit = 2
  LineOutcomes = {"issued", "peer"}
  SaveOnShutdown = FALSE
  Commands = {}
  MaxDisturbances = 3
  MaxComponents = 2
SPECIFICATION FairSpec
PROPERTIES
  EventuallyStreams
  LadderCuresFault
CHECK_DEADLOCK FALSE
