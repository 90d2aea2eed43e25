SPECIFICATION CanSpec
CONSTANTS
  CounterMax = 2
  One = 2
  ContextCfgs <- MCContextCfgs
  Values = {2}
  Wrap = 6
  PeriodMs = 1
  Cadence = 2
  TimeoutRange = 4
  MaxLag = 1
  InboxRoom = 2
  NoValue = NoValue
INVARIANTS
  StaleMeansFailSafe
  StaleWithinWrap
  SpeedAgeBounded
  CadenceKept
PROPERTY
  FreshNotRaised
