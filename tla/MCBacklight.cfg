SPECIFICATION BacklightSpec
CONSTANTS
  Drivers = {"class", "omapfb"}
  MaxBrightness = 24
  Framebuffer = TRUE
  WriteMayFail = TRUE
  Percents <- MCPercents
  ShutdownPercent = 100
  ClientLevels <- MCClientLevels
  FirmwareLevels <- FirmwareSome
INVARIANTS
  AnnouncedCurrent
  DeviceFollows
  ScreenMatchesLock
  VisibleAtExit
CHECK_DEADLOCK FALSE
