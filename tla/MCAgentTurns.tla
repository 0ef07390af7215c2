---------------------------- MODULE MCAgentTurns -----------------------------
EXTENDS AgentTurns

CONSTANTS t1, t2

\* One turn may have two tool calls, the other has a message only.
MCMaxCalls == [t \in {t1, t2} |-> IF t = t1 THEN 2 ELSE 0]
=============================================================================
