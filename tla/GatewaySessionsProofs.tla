---------------------- MODULE GatewaySessionsProofs ----------------------
(***************************************************************************)
(* Theorems about GatewaySessions, for any sets of sessions, routers and   *)
(* agents and any capacities.                                              *)
(***************************************************************************)
EXTENDS GatewaySessions, SequenceTheorems, TLAPS

USE SessionsAssumption, CapacitiesAssumption

-----------------------------------------------------------------------------
(* Type correctness.  A prompt that is being worked on still fits in.      *)

PromptFits == \A s \in Sessions : frame[s] = "prompt" => turns[s] < MaxTurns

TypeInv == TypeOK /\ PromptFits

\* Pushing a frame into a session's channel keeps the channels bounded.
LEMMA PushType ==
    ASSUME TypeOK, NEW s \in Sessions,
           Push(s) \/ UNCHANGED outQ
    PROVE  outQ' \in [Sessions -> 0..OutCapacity]
<1>1. CASE UNCHANGED outQ
    BY <1>1 DEF TypeOK
<1>2. CASE outQ[s] < OutCapacity /\ outQ' = [outQ EXCEPT ![s] = outQ[s] + 1]
    <2>1. outQ[s] + 1 \in 0..OutCapacity
        BY <1>2 DEF TypeOK
    <2> QED
        BY <1>2, <2>1 DEF TypeOK
<1> QED
    BY <1>1, <1>2 DEF Push

\* Every step keeps the variables in their types.
LEMMA TypeStep == TypeInv /\ [Next]_vars => TypeInv'
<1> SUFFICES ASSUME TypeInv, [Next]_vars
             PROVE  TypeInv'
    OBVIOUS
<1> USE DEF TypeInv, TypeOK, PromptFits, Kinds, KindsNow, Ids, taskVars, outVars, lockVars

<1>1. ASSUME NEW s \in Sessions, Open(s)
      PROVE  TypeInv'
    BY <1>1 DEF Open
<1>2. ASSUME NEW s \in Sessions, AskForLock(s)
      PROVE  TypeInv'
    <2>1. waitq' \in Seq(Sessions \cup Routers)
        BY <1>2, AppendProperties DEF AskForLock, TypeOK
    <2> QED
        BY <1>2, <2>1 DEF AskForLock
<1>3. ASSUME NEW s \in Sessions, Register(s)
      PROVE  TypeInv'
    <2>1. waitq # <<>> /\ waitq' = Tail(waitq)
        BY <1>3 DEF Register, WriteGuard, Turn
    <2>2. waitq' \in Seq(Sessions \cup Routers)
        BY <2>1, HeadTailProperties DEF TypeOK
    <2> QED
        BY <1>3, <2>2 DEF Register, WriteGuard, Turn
<1>4. ASSUME NEW s \in Sessions, ReadFrame(s)
      PROVE  TypeInv'
    BY <1>4 DEF ReadFrame
<1>5. ASSUME NEW s \in Sessions, Ack(s)
      PROVE  TypeInv'
    <2>1. outQ' \in [Sessions -> 0..OutCapacity]
        BY <1>5, PushType DEF Ack
    <2> QED
        BY <1>5, <2>1 DEF Ack
<1>6. ASSUME NEW s \in Sessions, Forward(s)
      PROVE  TypeInv'
    <2>1. turns' \in [Sessions -> 0..MaxTurns]
        BY <1>6 DEF Forward
    <2>2. eventQ' \in 0..EventCapacity
        BY <1>6 DEF Forward
    <2>3. PromptFits'
        BY <1>6 DEF Forward
    <2> QED
        BY <1>6, <2>1, <2>2, <2>3 DEF Forward
<1>7. ASSUME NEW s \in Sessions, StreamEnds(s)
      PROVE  TypeInv'
    BY <1>7 DEF StreamEnds
<1>8. ASSUME NEW s \in Sessions, Unregister(s)
      PROVE  TypeInv'
    <2>1. waitq # <<>> /\ waitq' = Tail(waitq)
        BY <1>8 DEF Unregister, WriteGuard, Turn
    <2>2. waitq' \in Seq(Sessions \cup Routers)
        BY <2>1, HeadTailProperties DEF TypeOK
    <2> QED
        BY <1>8, <2>2 DEF Unregister, WriteGuard, Turn
<1>9. ASSUME NEW s \in Sessions, TurnFrame(s)
      PROVE  TypeInv'
    <2>1. outQ' \in [Sessions -> 0..OutCapacity]
        BY <1>9, PushType DEF TurnFrame
    <2> QED
        BY <1>9, <2>1 DEF TurnFrame
<1>10. ASSUME NEW s \in Sessions, TurnDone(s)
      PROVE  TypeInv'
    BY <1>10 DEF TurnDone
<1>11. ASSUME NEW s \in Sessions, ClientReads(s)
      PROVE  TypeInv'
    BY <1>11 DEF ClientReads
<1>12. ASSUME NEW s \in Sessions, ClientGoes(s)
      PROVE  TypeInv'
    BY <1>12 DEF ClientGoes
<1>13. ASSUME NEW r \in Routers, CallRegistry(r)
      PROVE  TypeInv'
    <2>1. waitq' \in Seq(Sessions \cup Routers)
        BY <1>13, AppendProperties DEF CallRegistry, TypeOK
    <2> QED
        BY <1>13, <2>1 DEF CallRegistry
<1>14. ASSUME NEW r \in Routers, ReadGuard(r)
      PROVE  TypeInv'
    <2>1. waitq # <<>> /\ waitq' = Tail(waitq)
        BY <1>14 DEF ReadGuard, Turn
    <2>2. waitq' \in Seq(Sessions \cup Routers)
        BY <2>1, HeadTailProperties DEF TypeOK
    <2> QED
        BY <1>14, <2>2 DEF ReadGuard, Turn
<1>15. ASSUME NEW r \in Routers, ReleaseGuard(r)
      PROVE  TypeInv'
    BY <1>15 DEF ReleaseGuard
<1>16. ASSUME NEW r \in Routers, RouteTo(r)
      PROVE  TypeInv'
    <2>1. at[r] \in Sessions
        BY <1>16 DEF RouteTo
    <2>2. outQ' \in [Sessions -> 0..OutCapacity]
        BY <1>16, <2>1, PushType DEF RouteTo
    <2> QED
        BY <1>16, <2>2 DEF RouteTo
<1>17. CASE TakeEvent
    BY <1>17 DEF TakeEvent
<1>18. ASSUME NEW r \in Routers, PickEntry(r)
      PROVE  TypeInv'
    BY <1>18 DEF PickEntry
<1>19. CASE UNCHANGED vars
    BY <1>19 DEF vars
<1> QED
    BY <1>1, <1>2, <1>3, <1>4, <1>5, <1>6, <1>7, <1>8, <1>9,
       <1>10, <1>11, <1>12, <1>13, <1>14, <1>15, <1>16, <1>17, <1>18,
       <1>19
       DEF Next, SessionNext, RouterNext

\* Type correctness: in particular no channel of the gateway overflows.
THEOREM TypeCorrect == Spec => []TypeOK
<1>1. Init => TypeInv
    BY DEF Init, TypeInv, TypeOK, PromptFits, Kinds, Ids
<1>2. TypeInv => TypeOK
    BY DEF TypeInv
<1> QED
    BY <1>1, <1>2, TypeStep, PTL DEF Spec

-----------------------------------------------------------------------------
(* The routes.  A session without an id is not in the map, and one that    *)
(* waits for the lock has an id; the two make the three properties         *)
(* inductive together.                                                     *)

HasId(s) ==
    /\ task[s] = "none" => agent[s] = NoAgent
    /\ task[s] \in {"register", "unregister"} => agent[s] # NoAgent

RouteInv ==
    /\ \A s \in Sessions : HasId(s)
    /\ NoDanglingRoute
    /\ RouteHeldWhileSending
    /\ SoleSessionIsRouted

\* Every step keeps the routes.
LEMMA RouteStep == TypeOK /\ RouteInv /\ [Next]_vars => RouteInv'
<1> SUFFICES ASSUME TypeOK /\ RouteInv, [Next]_vars
             PROVE  RouteInv'
    OBVIOUS
<1> USE DEF TypeOK, RouteInv, HasId, NoDanglingRoute, RouteHeldWhileSending,
        SoleSessionIsRouted, Enrolled, Ids, taskVars, outVars, lockVars

<1>1. ASSUME NEW s \in Sessions, Open(s)
      PROVE  RouteInv'
    BY <1>1 DEF Open
<1>2. ASSUME NEW s \in Sessions, AskForLock(s)
      PROVE  RouteInv'
    BY <1>2 DEF AskForLock
<1>3. ASSUME NEW s \in Sessions, Register(s)
      PROVE  RouteInv'
    BY <1>3 DEF Register, WriteGuard, Turn
<1>4. ASSUME NEW s \in Sessions, ReadFrame(s)
      PROVE  RouteInv'
    BY <1>4 DEF ReadFrame
<1>5. ASSUME NEW s \in Sessions, Ack(s)
      PROVE  RouteInv'
    BY <1>5 DEF Ack, Push
<1>6. ASSUME NEW s \in Sessions, Forward(s)
      PROVE  RouteInv'
    BY <1>6 DEF Forward
<1>7. ASSUME NEW s \in Sessions, StreamEnds(s)
      PROVE  RouteInv'
    BY <1>7 DEF StreamEnds
<1>8. ASSUME NEW s \in Sessions, Unregister(s)
      PROVE  RouteInv'
    BY <1>8 DEF Unregister, WriteGuard, Turn
<1>9. ASSUME NEW s \in Sessions, TurnFrame(s)
      PROVE  RouteInv'
    BY <1>9 DEF TurnFrame, Push
<1>10. ASSUME NEW s \in Sessions, TurnDone(s)
      PROVE  RouteInv'
    BY <1>10 DEF TurnDone
<1>11. ASSUME NEW s \in Sessions, ClientReads(s)
      PROVE  RouteInv'
    BY <1>11 DEF ClientReads
<1>12. ASSUME NEW s \in Sessions, ClientGoes(s)
      PROVE  RouteInv'
    BY <1>12 DEF ClientGoes
<1>13. ASSUME NEW r \in Routers, CallRegistry(r)
      PROVE  RouteInv'
    BY <1>13 DEF CallRegistry
<1>14. ASSUME NEW r \in Routers, ReadGuard(r)
      PROVE  RouteInv'
    BY <1>14 DEF ReadGuard, Turn
<1>15. ASSUME NEW r \in Routers, ReleaseGuard(r)
      PROVE  RouteInv'
    BY <1>15 DEF ReleaseGuard
<1>16. ASSUME NEW r \in Routers, RouteTo(r)
      PROVE  RouteInv'
    BY <1>16 DEF RouteTo, Push
<1>17. CASE TakeEvent
    BY <1>17 DEF TakeEvent
<1>18. ASSUME NEW r \in Routers, PickEntry(r)
      PROVE  RouteInv'
    BY <1>18 DEF PickEntry
<1>19. CASE UNCHANGED vars
    BY <1>19 DEF vars
<1> QED
    BY <1>1, <1>2, <1>3, <1>4, <1>5, <1>6, <1>7, <1>8, <1>9,
       <1>10, <1>11, <1>12, <1>13, <1>14, <1>15, <1>16, <1>17, <1>18,
       <1>19
       DEF Next, SessionNext, RouterNext

\* An entry of the registry always leads to a session that is still served.
THEOREM RoutesAreLive == Spec => []NoDanglingRoute
<1>1. Init => TypeInv
    BY DEF Init, TypeInv, TypeOK, PromptFits, Kinds, Ids
<1>2. Init => RouteInv
    BY DEF Init, RouteInv, HasId, NoDanglingRoute, RouteHeldWhileSending,
           SoleSessionIsRouted, Enrolled
<1>3. TypeInv => TypeOK
    BY DEF TypeInv
<1>4. RouteInv => NoDanglingRoute
    BY DEF RouteInv
<1> QED
    BY <1>1, <1>2, <1>3, <1>4, TypeStep, RouteStep, PTL DEF Spec

\* The read guard pins the route until every frame of the call is sent.
THEOREM RoutesAreHeld == Spec => []RouteHeldWhileSending
<1>1. Init => TypeInv
    BY DEF Init, TypeInv, TypeOK, PromptFits, Kinds, Ids
<1>2. Init => RouteInv
    BY DEF Init, RouteInv, HasId, NoDanglingRoute, RouteHeldWhileSending,
           SoleSessionIsRouted, Enrolled
<1>3. TypeInv => TypeOK
    BY DEF TypeInv
<1>4. RouteInv => RouteHeldWhileSending
    BY DEF RouteInv
<1> QED
    BY <1>1, <1>2, <1>3, <1>4, TypeStep, RouteStep, PTL DEF Spec

\* An agent with a single tunnel keeps its entry as long as it is served.
THEOREM SoleSessionRouted == Spec => []SoleSessionIsRouted
<1>1. Init => TypeInv
    BY DEF Init, TypeInv, TypeOK, PromptFits, Kinds, Ids
<1>2. Init => RouteInv
    BY DEF Init, RouteInv, HasId, NoDanglingRoute, RouteHeldWhileSending,
           SoleSessionIsRouted, Enrolled
<1>3. TypeInv => TypeOK
    BY DEF TypeInv
<1>4. RouteInv => SoleSessionIsRouted
    BY DEF RouteInv
<1> QED
    BY <1>1, <1>2, <1>3, <1>4, TypeStep, RouteStep, PTL DEF Spec

=============================================================================
