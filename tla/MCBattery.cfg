SPECIFICATION Spec
CONSTANTS
  NoFile = NoFile
  Machines <- MCMachines
  FullCharge = 4
  Threshold = 30
  CannotOpen = {"ac", "max", "now"}
  CannotRead = {"ac", "max", "now"}
INVARIANTS
  TypeOK
  ListenersCurrent
  ProbedBattery
  OncePerEmergency
PROPERTIES
  EmergencyOnlyWhenLow
  EmergencyDetected
