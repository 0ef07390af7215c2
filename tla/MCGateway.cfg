SPECIFICATION Spec
CONSTANTS
  Sessions = {s1, s2}
  Routers = {r1}
  Agents = {a1, a2}
  NoAgent = NoAgent
  NoSession = NoSession
  OutCapacity = 1
  ForwardEvents = TRUE
  EventCapacity = 1
  MaxTurns = 1
INVARIANTS
  NoDanglingRoute
  SoleSessionIsRouted
