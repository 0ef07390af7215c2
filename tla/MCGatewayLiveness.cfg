SPECIFICATION FairSpec
CONSTANTS
  Sessions = {s1, s2}
  Routers = {r1}
  Agents = {a1}
  NoAgent = NoAgent
  NoSession = NoSession
  OutCapacity = 1
  ForwardEvents = TRUE
  EventCapacity = 1
  MaxTurns = 0
PROPERTIES
  RegistryIsServed
  GoneClientIsForgotten
