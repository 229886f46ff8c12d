SPECIFICATION Spec
CONSTANTS
  p1 = p1
  p2 = p2
  p3 = p3
  Pids <- MCPids
  NoPid = NoPid
  Builds <- AllBuilds
INVARIANTS
  TypeOK
  OwnPid
  FollowsRequests
  OneInstance
  NoneLeftBehind
PROPERTIES
  ZombiesReaped
  ShutdownEnds
CHECK_DEADLOCK FALSE
