SPECIFICATION FairSpec
CONSTANTS
  c1 = c1
  c2 = c2
  Chats = {c1, c2}
  Locked = {c1}
  MaxMsg = 1
  Careful = TRUE
INVARIANTS
  TypeOK
  ReadsFollowBaseline
  MonitorNeverBreaks
PROPERTIES
  MonitorSettles
