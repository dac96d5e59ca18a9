CONSTANTS
  Drivers = {"F9P", "F9H"}
  ResetTime = 1
  BootTimes = {2}
  WatchdogTimeout = 3
  MaxFixGap = 1
  MaxFaults = 1
  CycleTime = 1
  BackoffMax = 8
  MaxBackoffShift = 3
  GpioPulseLimit = 3
SPECIFICATION FairSpec
PROPERTY LineLeftAlone
