SPECIFICATION Spec
CONSTANTS
  p1 = p1
  p2 = p2
  p3 = p3
  Pids <- MCPids
  NoPid = NoPid
  Builds <- HelperBuild
PROPERTIES
  ForgottenOnlyWhenDead
CHECK_DEADLOCK FALSE
