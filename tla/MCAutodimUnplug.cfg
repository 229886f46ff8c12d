SPECIFICATION Spec
CONSTANTS
  Drivers = {"class"}
  MaxBrightness = 4
  Framebuffer = TRUE
  WriteMayFail = FALSE
  Percents <- Full
  ShutdownPercent = 100
  ClientLevels <- NoLevels
  FirmwareLevels <- NoLevels
  Steps <- MCSteps
  MaxPercents <- Full
  ACFlags <- ClearFlag
  ACStates <- AnyAC
  Lockable = FALSE
  Late = 1
  MaxIdle = 6
PROPERTIES
  DimsAtLast
CHECK_DEADLOCK FALSE
