SPECIFICATION Spec
CONSTANTS
  MaxPayload = 2
  PipeCap = 4
  Staleness = 1
  Duties <- MCDuties
  Fallback = 255
  MaxCmds = 1
INVARIANTS
  ReadingsReal
  SilenceNoticed
PROPERTIES
  LinkHeals
  DeadSensorCools
  DutyConverges
