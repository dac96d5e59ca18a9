CONSTANTS
  Drivers = {"F9P", "F9H"}
  ResetTime = 2
  BootTimes = {1, 2}
  WatchdogTimeout = 5
  MaxFixGap = 1
  MaxFaults = 1
  CycleTime = 1
  BackoffMax = 10
  MaxBackoffShift = 3
  GpioPulseLimit = 3
SPECIFICATION FairSpec
INVARIANTS
  TypeOK
  PulseWaitedOut
  NoEcho
PROPERTIES
  LineLeftAlone
  LivingRecover
