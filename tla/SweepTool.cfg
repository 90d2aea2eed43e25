SPECIFICATION BenchSpec
CONSTANTS
  RingSize = 8
  LineMax = 5
  MaxDuty = 20
  GovernorDuties = {0, 7}
  MaxLoss = 1
  Duties <- MCDuties
  Dwell = 2
  MaxAttempts = 2
  MaxHaste = 2
INVARIANT
  RowsMeasured
PROPERTY
  LoopComesBack
