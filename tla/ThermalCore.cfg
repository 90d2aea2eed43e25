SPECIFICATION Spec
CONSTANTS
  CounterMax = 2
  IntMin <- MCIntMin
  IntMax = 4
  Zones <- MCZones
  Actuators <- MCActuators
  Sensors <- MCSensors
  ZoneSensors <- MCZoneSensors
  ZoneActuators <- MCZoneActuators
  ZoneCfg <- MCZoneCfg
  ActCfg <- MCActCfg
  StatePwm <- MCStatePwm
  FaultSets <- MCFaultSets
  StallPwm = 1
  CoolingPwm = 1
  Temps = {1, 3}
  NoSample = NoSample
  Modifiers <- MCModifiers
  PidOutputs = {1}
  MaxPwm = 3
  MaxTicks = 2
  MaxState = 2
INVARIANTS
  CriticalCooled
  LossCools
  ForcedHoldsMax
  ReasonTruthful
PROPERTIES
  ShutdownAnnounced
