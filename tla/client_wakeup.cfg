SPECIFICATION Spec
CONSTANTS
  MaxVisits = 1
  MaxOpened = 1
  MaxUnread = 1
  None = None
PROPERTIES OwnerEnters
CHECK_DEADLOCK FALSE
