SPECIFICATION Safety
CONSTANTS
  Owner = o
  Guests = {g1, g2}
  Mortal = {}
  Commands = {}
  Recent = 1
  MaxVisits = 1
  MaxSaid = 1
  MaxOpened = 1
  None = None
SYMMETRY GuestSymmetry
INVARIANTS GreetingIntact
CHECK_DEADLOCK FALSE
