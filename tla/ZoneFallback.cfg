SPECIFICATION Spec
CONSTANTS
  IntMin = 0
  IntMax = 4
  Zones <- MCZones
  ZoneCfg <- MCZoneCfg
  CurveCfg <- MCCurveCfg
  Stages <- MCStages
  MinPwm = 2
  MaxPwm = 3
  MaxState = 2
  Temps = {1, 2, 3, 4}
  Hysts = {0, 1}
  Xs = {0, 1, 2}
  Caps = {1, 2}
  Offsets <- MCOffsets
  NoSample = NoSample
  Samples <- MCSamples
INVARIANT
  SensorLossCools
