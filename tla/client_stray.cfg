SPECIFICATION Spec
CONSTANTS
  MaxVisits = 2
  MaxOpened = 2
  MaxUnread = 1
  None = None
INVARIANTS NoStrayPointer
CHECK_DEADLOCK FALSE
