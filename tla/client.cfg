SPECIFICATION Spec
CONSTANTS
  MaxVisits = 3
  MaxOpened = 2
  MaxUnread = 1
  None = None
INVARIANTS TypeOK StrayOnlyTyped NoRefusal
PROPERTIES BackAfterLeaving ClosedRoomReleased
CONSTRAINT InTime
CHECK_DEADLOCK FALSE
