SPECIFICATION Spec
CONSTANTS
  MaxJobs = 2
  MaxEpoch = 2
  MaxPending = 1
INVARIANT
  NoTickDuringOperation
