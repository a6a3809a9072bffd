SPECIFICATION Safety
CONSTANTS
  Owner = o
  Guests = {g1}
  Mortal = {g1}
  Commands = {}
  Recent = 1
  MaxVisits = 1
  MaxSaid = 1
  MaxOpened = 1
  None = None
INVARIANTS ServerSurvivesGuests
CHECK_DEADLOCK FALSE
