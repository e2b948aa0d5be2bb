SPECIFICATION Spec
CONSTANTS
  c1 = c1
  c2 = c2
  Chats = {c1, c2}
  Locked = {c1}
  LastDay = 3
  MaxMsg = 2
  QuietOnly = FALSE
INVARIANTS CheckpointIsReceipted
PROPERTIES CheckpointAdvances
