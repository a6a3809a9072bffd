SPECIFICATION Spec
CONSTANTS
  Owner = o
  Guests = {g1}
  Mortal = {g1}
  Commands = {"leave", "detach"}
  Recent = 1
  MaxVisits = 1
  MaxSaid = 2
  MaxOpened = 1
  None = None
INVARIANTS TypeOK NoMissedLine GreetingIsRecent SameOrder
PROPERTIES CommandsServed PromptReturns JoinServed
CHECK_DEADLOCK FALSE
