SPECIFICATION Spec
CONSTANTS
  Clients = {c1, c2}
  Users = {u1}
  Tokens = {k1, k2}
  LoginCaps = {2}
  None = None
SYMMETRY SessionsSymmetry
INVARIANTS ExitClosesRoom
CHECK_DEADLOCK FALSE
