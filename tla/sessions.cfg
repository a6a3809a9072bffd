SPECIFICATION Spec
CONSTANTS
  Clients = {c1, c2}
  Users = {u1, u2}
  Tokens = {k1, k2, k3}
  LoginCaps = {1, 2}
  None = None
SYMMETRY SessionsSymmetry
INVARIANTS TypeOK SessionIntact InsideHoldsLock NoStaleRoomWrite OpenRoomKeepsSession ServedRoomIsOpen PortFreeUntilServed
PROPERTIES RoomsChangedByOwner
CHECK_DEADLOCK FALSE
