SPECIFICATION Spec
CONSTANTS
  MaxJobs = 2
  MaxEpoch = 2
  MaxPending = 1
INVARIANTS
  TypeOK
  JobsConfined
  RamIsDisk
PROPERTIES
  EpochEndsWork
  StepsAreOfTheEpoch
  BrokenGuardianEnds
  RequestEnds
  TicksResume
