SPECIFICATION Spec
CONSTANTS
  c1 = c1
  c2 = c2
  Chats = {c1, c2}
  Locked = {c1}
  LastDay = 2
  MaxMsg = 2
  QuietOnly = FALSE
INVARIANT NoChainBreak
