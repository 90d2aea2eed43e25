SPECIFICATION DetectorsSpec
CONSTANTS
  CounterMax = 3
  Horizon = 5
  MachineConfigs <- MCMachineConfigs
  Configs <- MCConfigs
  StallCfgs <- MCStallCfgs
  MaxPwm = 4
  MaxTicks = 3
  StallPwm = 2
  StuckCfgs <- MCStuckCfgs
  Values = {0, 1, 2}
  CtxValues = {0, 1}
  NoCtx = NoCtx
  RunawayCfgs <- MCRunawayCfgs
  Temps = {0, 1, 2}
  Requests <- MCRequests
  HealthCfgs <- MCHealthCfgs
  HealthDuties = {0, 20, 21, 40}
  Speeds = {60}
  StartLag = 2
  SpinupTicks = 1
  WornShare = 70
  Scale = 1
  WeightCap = 2
PROPERTY
  GraceCoversStart
