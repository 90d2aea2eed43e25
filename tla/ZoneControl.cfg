SPECIFICATION ChannelSpec
CONSTANTS
  IntMin = 0
  IntMax = 4
  Zones <- MCZones
  ZoneCfg <- MCZoneCfg
  CurveCfg <- MCCurveCfg
  Stages <- MCStages
  MinPwm = 2
  MaxPwm = 3
  MaxState = 2
  Temps = {1, 2, 3, 4}
  Hysts = {0, 1}
  Xs = {0, 1, 2}
  Caps = {1, 2}
  Offsets <- MCOffsets
  NoSample = NoSample
  Samples <- MCSamples
  ToolCommands <- MCToolCommands
  Ports = {1, 2}
  MaxRuns = 3
  QueueLength = 3
  One = 4
  QMin <- MCQMin
  QMax = 64
  Second = 2
  PidMax = 3
  DtMin = 1
  DtMax = 2
  Elapsed = {0, 1, 2, 5}
  PidTemps = {0, 1, 3, 4}
  PidSetpoints = {1, 2}
  GainMin <- MCGainMin
  GainMax <- MCGainMax
  Gains <- MCGains
  Alphas = {0, 1, 2, 4}
INVARIANTS
  ShadowsAccepted
  ActiveTripsNested
  EffectiveTablesLegal
  SafetyFloorHeld
  UnraisedLossCools
  VerdictTrue
  WindupBounded
