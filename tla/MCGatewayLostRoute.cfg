SPECIFICATION Spec
CONSTANTS
  Sessions = {s1, s2}
  Routers = {r1}
  Agents = {a1}
  NoAgent = NoAgent
  NoSession = NoSession
  OutCapacity = 1
  ForwardEvents = FALSE
  EventCapacity = 1
  MaxTurns = 0
INVARIANT
  ActiveAgentIsRouted
