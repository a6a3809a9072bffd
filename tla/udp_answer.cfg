CONSTANTS
  c1 = c1
  c2 = c2
  Clients = {c1, c2}
  Server = server
  None = none
  Users = {u1}
  MaxCalls = 3
  MaxReplies = 3
  Settings <- LongLists
SPECIFICATION Spec
INVARIANTS AssociatedAnswer
CHECK_DEADLOCK FALSE
