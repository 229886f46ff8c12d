SPECIFICATION StepsSpec
CONSTANTS
  Files <- MCFiles
  Hash <- MCHash
  Missing = Missing
  Step <- MCStep
  BadEntry = BadEntry
  Default <- MCDefault
INVARIANTS
  StepsGrow
  FollowsConfiguration
CHECK_DEADLOCK FALSE
