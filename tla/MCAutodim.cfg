SPECIFICATION Spec
CONSTANTS
  Drivers = {"omapfb"}
  MaxBrightness = 4
  Framebuffer = TRUE
  WriteMayFail = TRUE
  Percents <- Full
  ShutdownPercent = 100
  ClientLevels <- DarkLevel
  FirmwareLevels <- NoLevels
  Steps <- MCSteps
  MaxPercents <- FullOrLess
  ACFlags <- AnyFlag
  ACStates <- UnknownAC
  Lockable = TRUE
  Late = 1
  MaxIdle = 6
INVARIANTS
  AutodimTypeOK
  DimJustified
  DimInTime
  BrightnessApplied
  TimerArmed
PROPERTIES
  OnACBright
  SuspendedFollowsLock
CHECK_DEADLOCK FALSE
