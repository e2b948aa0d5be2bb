SPECIFICATION PartsSpec
CONSTANTS
  Named = {"n"}
  Unnamed = {"u"}
  StallTicks = 2
  MaxRotations = 1
  MaxFaults = 1
  MaxEpochs = 2
  MorningChats = {"c1", "c2"}
  MaxAttempts = 2
  MaxTicks = 3
  MaxDays = 1
  MaxRestarts = 1
  Secrets = {"settings", "session", "node"}
  ConfigSecrets = {"settings"}
  VpnSecrets = {"node"}
  MaxPhrase = 2
  MaxBegun = 5
  MaxCancels = 2
  Peers = {"p1", "p2", "p3"}
  Slots = 2
  Patience = 2
  MaxBatchCancels = 2
  MaxLeft = 4
  Budget = 3
  Drift = 1
  MaxNap = 2
  Credentials = {"k1", "k2", "k3"}
  MaxPasskeys = 2
  Starts = {1, 2, 3, 4}
  ChallengeTtl = 1
  BootstrapTtl = 2
  MaxGuesses = 1
  MaxTokens = 2
  MaxPolicies = 3
  Feeds = {1, 2}
  RowSizes = {0, 2, 4}
  RowSpace = 7
  LeastShare = 1
  Lookback = 1
  MaxScan = 2
  FinalDay = 2
  MaxPosts = 3
INVARIANTS
  PartsTypeOK
  DeviceIsNotForgotten
  TicksUseTheStoredNode
  MorningIsBoundedAndEarned
  NothingIsLost
  ReadyMeansClean
  NothingOutlives
  BatchIsAccounted
  OwnerKeepsAPasskey
  TextIsReadOrReported
  NoByteIsSoldTwice
  NobodyIsCrowdedOut
PROPERTIES
  EndedRepairsAreInert
  PromptsAreGranted
  RotationIsHealed
CHECK_DEADLOCK FALSE
