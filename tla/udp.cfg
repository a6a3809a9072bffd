CONSTANTS
  c1 = c1
  c2 = c2
  Clients = {c1, c2}
  Server = server
  None = none
  Users = {u1}
  MaxCalls = 3
  MaxReplies = 3
  Settings <- MCSettings
SPECIFICATION FairSpec
INVARIANTS TypeOK AcksMeanHanded WholeMessages
PROPERTIES EffectOnce Answered
CONSTRAINT FewInFlight
CHECK_DEADLOCK FALSE
