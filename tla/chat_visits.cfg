SPECIFICATION Safety
CONSTANTS
  Owner = o
  Guests = {g1}
  Mortal = {g1}
  Commands = {"leave", "detach"}
  Recent = 1
  MaxVisits = 2
  MaxSaid = 0
  MaxOpened = 2
  None = None
INVARIANTS ConnectedAreServed OpenRoomListens NoLineAfterExit
CHECK_DEADLOCK FALSE
