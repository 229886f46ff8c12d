SPECIFICATION BacklightSpec
CONSTANTS
  Drivers = {"class"}
  MaxBrightness = 24
  Framebuffer = TRUE
  WriteMayFail = FALSE
  Percents <- MCPercents
  ShutdownPercent = 100
  ClientLevels <- NoLevels
  FirmwareLevels <- FirmwareSome
PROPERTIES
  FirmwareAmended
CHECK_DEADLOCK FALSE
