SPECIFICATION Spec
CONSTANTS
  c1 = c1
  c2 = c2
  Chats = {c1, c2}
  Locked = {c1}
  MaxMsg = 2
  Careful = FALSE
INVARIANTS
  WatchStateLoads
  ReadsAreCheckpointed
PROPERTIES
  AcceptedIsNeverDropped
  MonitorAdvances
  StreamSpec
