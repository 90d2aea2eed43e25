SPECIFICATION CanSpec
CONSTANTS
  CounterMax = 2
  One = 2
  ContextCfgs <- MCContextCfgs
  Values = {2}
  Wrap = 6
  PeriodMs = 1
  Cadence = 2
  TimeoutRange = 4
  MaxLag = 0
  InboxRoom = 1
  NoValue = NoValue
INVARIANT
  RequestsKeepCadence
