SPECIFICATION Spec
CONSTANTS
  battery = battery
  backlight = backlight
  autodim = autodim
  PollTimers <- MCPollTimers
  DimTimer <- autodim
  PollInterval <- MCPollInterval
  DimDelays <- MCDimDelays
  NapTime = 2
  Slack = 1
  MaxDelay = 3
  MaxTime = 6
  MaxId = 6
INVARIANTS
  TypeOK
  QueueSorted
  NoDanglingTimer
  BoundedLateness
PROPERTIES
  NeverEarly
  ServiceSpec
  OverdueTimerServed
CHECK_DEADLOCK FALSE
