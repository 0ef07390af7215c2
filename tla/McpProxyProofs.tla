--------------------------- MODULE McpProxyProofs ---------------------------
(***************************************************************************)
(* Theorems about McpProxy, for any calls, ids, limits and capacities.     *)
(***************************************************************************)
EXTENDS McpProxy, FiniteSetTheorems, TLAPS

-----------------------------------------------------------------------------
(* Type correctness.                                                       *)

QueueInv ==
    /\ IsFiniteSet(stdinQ)
    /\ stdinQ \subseteq Calls
    /\ Cardinality(stdinQ) <= StdinCapacity

SupervisorTypes ==
    /\ loop \in LoopStates
    /\ gen \in Nat /\ child \in {"none", "running", "exited"}
    /\ is_alive \in BOOLEAN /\ shutdown_requested \in BOOLEAN
    /\ restart_count \in Nat
    /\ stdin_tx \in 0..gen
    /\ tasks \subseteq {"writer", "reader"}
    /\ inbox \subseteq Calls /\ replies \subseteq Calls
    /\ stopper \in {"none", "flagged", "closed", "stopped"}

CallTypes ==
    /\ pending \in [Ids -> Calls \cup {NoCall}]
    /\ call \in [Calls -> InFlight \cup {"idle", "refused", "ok", "error",
                                         "timeout"}]
    /\ box \in [Calls -> {"empty", "reply", "error", "closed"}]

BreakerTypes ==
    /\ state \in {"Closed", "Open", "HalfOpen"}
    /\ consecutive_failures \in Nat
    /\ opened_at \in BOOLEAN /\ cooled \in BOOLEAN

\* The channel to the stdin writer never overflows.
LEMMA QueueStep == QueueInv /\ [Next]_vars => QueueInv'
<1> SUFFICES ASSUME QueueInv, [Next]_vars
             PROVE  QueueInv'
    OBVIOUS
<1> USE LimitsAssumption
<1> USE DEF QueueInv, pipeVars

<1>1. CASE Spawn
    BY <1>1 DEF Spawn
<1>2. CASE LoopEnds
    BY <1>2 DEF LoopEnds
<1>3. CASE Install
    BY <1>3 DEF Install
<1>4. CASE Announce
    BY <1>4 DEF Announce
<1>5. CASE WaitReturns
    BY <1>5 DEF WaitReturns
<1>6. CASE TearDown
    <2>1. stdinQ' = {}
        BY <1>6 DEF TearDown
    <2> QED
        BY <2>1, FS_EmptySet DEF QueueInv
<1>7. CASE Backoff
    BY <1>7 DEF Backoff
<1>8. CASE ChildExits
    BY <1>8 DEF ChildExits
<1>9. CASE WriteFails
    <2>1. stdinQ' = {}
        BY <1>9 DEF WriteFails
    <2> QED
        BY <2>1, FS_EmptySet DEF QueueInv
<1>10. CASE EndOfStdout
    BY <1>10 DEF EndOfStdout
<1>11. CASE StopFlags
    BY <1>11 DEF StopFlags
<1>12. CASE StopCloses
    BY <1>12 DEF StopCloses
<1>13. CASE StopDrains
    BY <1>13 DEF StopDrains
<1>14. CASE Cool
    BY <1>14 DEF Cool
<1>15. ASSUME NEW c \in Calls, Refuse(c)
      PROVE  QueueInv'
    BY <1>15 DEF Refuse
<1>16. ASSUME NEW c \in Calls, Admit(c)
      PROVE  QueueInv'
    BY <1>16 DEF Admit
<1>17. ASSUME NEW c \in Calls, Check(c)
      PROVE  QueueInv'
    BY <1>17 DEF Check
<1>18. ASSUME NEW c \in Calls, Insert(c)
      PROVE  QueueInv'
    BY <1>18 DEF Insert
<1>19. ASSUME NEW c \in Calls, CloneStdin(c)
      PROVE  QueueInv'
    BY <1>19 DEF CloneStdin
<1>20. ASSUME NEW c \in Calls, SendLine(c)
      PROVE  QueueInv'
    <2>1. CASE UNCHANGED stdinQ
        BY <2>1 DEF QueueInv
    <2>2. CASE stdinQ' = stdinQ \cup {c} /\ StdinRoom
        <3>1. /\ IsFiniteSet(stdinQ')
              /\ Cardinality(stdinQ') = IF c \in stdinQ THEN Cardinality(stdinQ)
                                        ELSE Cardinality(stdinQ) + 1
            BY <2>2, FS_AddElement DEF QueueInv
        <3>2. Cardinality(stdinQ) \in Nat
            BY FS_CardinalityType DEF QueueInv
        <3> QED
            BY <2>2, <3>1, <3>2 DEF QueueInv, StdinRoom
    <2> QED
        BY <1>20, <2>1, <2>2 DEF SendLine
<1>21. ASSUME NEW c \in Calls, Return(c)
      PROVE  QueueInv'
    BY <1>21 DEF Return
<1>22. ASSUME NEW c \in Calls, Timeout(c)
      PROVE  QueueInv'
    BY <1>22 DEF Timeout
<1>23. ASSUME NEW c \in Calls, WriteLine(c)
      PROVE  QueueInv'
    <2>1. stdinQ' = stdinQ \ {c} /\ c \in stdinQ
        BY <1>23 DEF WriteLine
    <2>2. IsFiniteSet(stdinQ') /\ Cardinality(stdinQ') = Cardinality(stdinQ) - 1
        BY <2>1, FS_RemoveElement DEF QueueInv
    <2>3. Cardinality(stdinQ) \in Nat
        BY FS_CardinalityType DEF QueueInv
    <2> QED
        BY <2>1, <2>2, <2>3 DEF QueueInv
<1>24. ASSUME NEW c \in Calls, ChildAnswers(c)
      PROVE  QueueInv'
    BY <1>24 DEF ChildAnswers
<1>25. ASSUME NEW c \in Calls, ReadLine(c)
      PROVE  QueueInv'
    BY <1>25 DEF ReadLine
<1>26. CASE UNCHANGED vars
    BY <1>26 DEF vars
<1> QED
    BY <1>1, <1>2, <1>3, <1>4, <1>5, <1>6, <1>7, <1>8, <1>9,
       <1>10, <1>11, <1>12, <1>13, <1>14, <1>15, <1>16, <1>17, <1>18,
       <1>19, <1>20, <1>21, <1>22, <1>23, <1>24, <1>25, <1>26
       DEF Next, LoopNext, StopNext, CallNext

\* Every step keeps the supervisor's variables in their types.
LEMMA SupervisorStep == SupervisorTypes /\ QueueInv /\ [Next]_vars => SupervisorTypes'
<1> SUFFICES ASSUME SupervisorTypes /\ QueueInv, [Next]_vars
             PROVE  SupervisorTypes'
    OBVIOUS
<1> USE DEF SupervisorTypes, QueueInv, LoopStates, childVars, flagVars, pipeVars

<1>1. CASE Spawn
    BY <1>1 DEF Spawn
<1>2. CASE LoopEnds
    BY <1>2 DEF LoopEnds
<1>3. CASE Install
    BY <1>3 DEF Install
<1>4. CASE Announce
    BY <1>4 DEF Announce
<1>5. CASE WaitReturns
    BY <1>5 DEF WaitReturns
<1>6. CASE TearDown
    BY <1>6 DEF TearDown, RestartsLeft
<1>7. CASE Backoff
    BY <1>7 DEF Backoff
<1>8. CASE ChildExits
    BY <1>8 DEF ChildExits
<1>9. CASE WriteFails
    BY <1>9 DEF WriteFails
<1>10. CASE EndOfStdout
    BY <1>10 DEF EndOfStdout
<1>11. CASE StopFlags
    BY <1>11 DEF StopFlags
<1>12. CASE StopCloses
    BY <1>12 DEF StopCloses
<1>13. CASE StopDrains
    BY <1>13 DEF StopDrains
<1>14. CASE Cool
    BY <1>14 DEF Cool
<1>15. ASSUME NEW c \in Calls, Refuse(c)
      PROVE  SupervisorTypes'
    BY <1>15 DEF Refuse
<1>16. ASSUME NEW c \in Calls, Admit(c)
      PROVE  SupervisorTypes'
    BY <1>16 DEF Admit
<1>17. ASSUME NEW c \in Calls, Check(c)
      PROVE  SupervisorTypes'
    BY <1>17 DEF Check
<1>18. ASSUME NEW c \in Calls, Insert(c)
      PROVE  SupervisorTypes'
    BY <1>18 DEF Insert
<1>19. ASSUME NEW c \in Calls, CloneStdin(c)
      PROVE  SupervisorTypes'
    BY <1>19 DEF CloneStdin
<1>20. ASSUME NEW c \in Calls, SendLine(c)
      PROVE  SupervisorTypes'
    BY <1>20 DEF SendLine
<1>21. ASSUME NEW c \in Calls, Return(c)
      PROVE  SupervisorTypes'
    BY <1>21 DEF Return
<1>22. ASSUME NEW c \in Calls, Timeout(c)
      PROVE  SupervisorTypes'
    BY <1>22 DEF Timeout
<1>23. ASSUME NEW c \in Calls, WriteLine(c)
      PROVE  SupervisorTypes'
    BY <1>23 DEF WriteLine
<1>24. ASSUME NEW c \in Calls, ChildAnswers(c)
      PROVE  SupervisorTypes'
    BY <1>24 DEF ChildAnswers
<1>25. ASSUME NEW c \in Calls, ReadLine(c)
      PROVE  SupervisorTypes'
    BY <1>25 DEF ReadLine
<1>26. CASE UNCHANGED vars
    BY <1>26 DEF vars
<1> QED
    BY <1>1, <1>2, <1>3, <1>4, <1>5, <1>6, <1>7, <1>8, <1>9,
       <1>10, <1>11, <1>12, <1>13, <1>14, <1>15, <1>16, <1>17, <1>18,
       <1>19, <1>20, <1>21, <1>22, <1>23, <1>24, <1>25, <1>26
       DEF Next, LoopNext, StopNext, CallNext

\* Every step keeps the calls in their types.
LEMMA CallTypeStep == CallTypes /\ [Next]_vars => CallTypes'
<1> SUFFICES ASSUME CallTypes, [Next]_vars
             PROVE  CallTypes'
    OBVIOUS
<1> USE CallsAssumption
<1> USE DEF CallTypes, InFlight, callVars

<1>1. CASE Spawn
    BY <1>1 DEF Spawn
<1>2. CASE LoopEnds
    BY <1>2 DEF LoopEnds
<1>3. CASE Install
    BY <1>3 DEF Install
<1>4. CASE Announce
    BY <1>4 DEF Announce
<1>5. CASE WaitReturns
    BY <1>5 DEF WaitReturns
<1>6. CASE TearDown
    BY <1>6 DEF TearDown
<1>7. CASE Backoff
    BY <1>7 DEF Backoff
<1>8. CASE ChildExits
    BY <1>8 DEF ChildExits
<1>9. CASE WriteFails
    BY <1>9 DEF WriteFails
<1>10. CASE EndOfStdout
    BY <1>10 DEF EndOfStdout, Drain
<1>11. CASE StopFlags
    BY <1>11 DEF StopFlags
<1>12. CASE StopCloses
    BY <1>12 DEF StopCloses
<1>13. CASE StopDrains
    BY <1>13 DEF StopDrains, Drain
<1>14. CASE Cool
    BY <1>14 DEF Cool
<1>15. ASSUME NEW c \in Calls, Refuse(c)
      PROVE  CallTypes'
    BY <1>15 DEF Refuse, Goes
<1>16. ASSUME NEW c \in Calls, Admit(c)
      PROVE  CallTypes'
    BY <1>16 DEF Admit, Goes
<1>17. ASSUME NEW c \in Calls, Check(c)
      PROVE  CallTypes'
    BY <1>17 DEF Check, Goes
<1>18. ASSUME NEW c \in Calls, Insert(c)
      PROVE  CallTypes'
    BY <1>18 DEF Insert, Goes, Resolved
<1>19. ASSUME NEW c \in Calls, CloneStdin(c)
      PROVE  CallTypes'
    BY <1>19 DEF CloneStdin, Goes, TakeBack, Resolved
<1>20. ASSUME NEW c \in Calls, SendLine(c)
      PROVE  CallTypes'
    BY <1>20 DEF SendLine, Goes, TakeBack, Resolved
<1>21. ASSUME NEW c \in Calls, Return(c)
      PROVE  CallTypes'
    BY <1>21 DEF Return, Goes
<1>22. ASSUME NEW c \in Calls, Timeout(c)
      PROVE  CallTypes'
    BY <1>22 DEF Timeout, Goes
<1>23. ASSUME NEW c \in Calls, WriteLine(c)
      PROVE  CallTypes'
    BY <1>23 DEF WriteLine
<1>24. ASSUME NEW c \in Calls, ChildAnswers(c)
      PROVE  CallTypes'
    BY <1>24 DEF ChildAnswers
<1>25. ASSUME NEW c \in Calls, ReadLine(c)
      PROVE  CallTypes'
    BY <1>25 DEF ReadLine, Resolved
<1>26. CASE UNCHANGED vars
    BY <1>26 DEF vars
<1> QED
    BY <1>1, <1>2, <1>3, <1>4, <1>5, <1>6, <1>7, <1>8, <1>9,
       <1>10, <1>11, <1>12, <1>13, <1>14, <1>15, <1>16, <1>17, <1>18,
       <1>19, <1>20, <1>21, <1>22, <1>23, <1>24, <1>25, <1>26
       DEF Next, LoopNext, StopNext, CallNext

\* The breaker starts closed.
LEMMA InitBreaker == Init => BreakerTypes /\ BreakerCoherent
<1> SUFFICES ASSUME Init
             PROVE  BreakerTypes /\ BreakerCoherent
    OBVIOUS
<1>1. 0 < failure_threshold /\ 0 \in Nat
    BY LimitsAssumption
<1>2. /\ state = "Closed" /\ consecutive_failures = 0
      /\ opened_at = FALSE /\ cooled = FALSE
    BY DEF Init
<1> QED
    BY <1>1, <1>2, Zenon DEF BreakerTypes, BreakerCoherent

\* Either outcome of a call leaves the breaker coherent.
LEMMA SuccessCoherent ==
    record_success => (BreakerTypes /\ BreakerCoherent)'
<1> SUFFICES ASSUME record_success
             PROVE  (BreakerTypes /\ BreakerCoherent)'
    OBVIOUS
<1>1. state' = "Closed" /\ consecutive_failures' = 0
    BY DEF record_success
<1>2. opened_at' = FALSE /\ cooled' = FALSE
    BY DEF record_success
<1>3. consecutive_failures' < failure_threshold /\ consecutive_failures' \in Nat
    BY <1>1, LimitsAssumption
<1> QED
    BY <1>1, <1>2, <1>3, Zenon DEF BreakerTypes, BreakerCoherent

LEMMA FailureCoherent ==
    ASSUME BreakerTypes, BreakerCoherent, record_failure
    PROVE  (BreakerTypes /\ BreakerCoherent)'
<1>1. consecutive_failures' \in Nat /\ consecutive_failures' > 0
    BY DEF record_failure, BreakerTypes
<1>2. CASE state' = "Open" /\ opened_at' = TRUE /\ cooled' = FALSE
    BY <1>1, <1>2, Zenon DEF BreakerTypes, BreakerCoherent
<1>3. CASE /\ state # "HalfOpen" /\ consecutive_failures' < failure_threshold
           /\ UNCHANGED <<state, opened_at, cooled>>
    <2>1. state' = state /\ opened_at' = opened_at /\ cooled' = cooled
        BY <1>3
    <2>2. BreakerTypes'
        BY <1>1, <2>1, Zenon DEF BreakerTypes
    <2>3. state' = "Closed" => ~opened_at'
        BY <2>1, Zenon DEF BreakerCoherent
    <2>4. state' # "Closed" => opened_at'
        BY <2>1, Zenon DEF BreakerCoherent
    <2> QED
        BY <1>1, <1>3, <2>2, <2>3, <2>4, Zenon DEF BreakerCoherent
<1> QED
    BY <1>2, <1>3, Zenon DEF record_failure

\* However calls end, the breaker stays coherent.
LEMMA BreakerStep == BreakerTypes /\ BreakerCoherent /\ [Next]_vars => (BreakerTypes /\ BreakerCoherent)'
<1> SUFFICES ASSUME BreakerTypes /\ BreakerCoherent, [Next]_vars
             PROVE  (BreakerTypes /\ BreakerCoherent)'
    OBVIOUS
<1> USE DEF BreakerTypes, BreakerCoherent, breakerVars

<1>1. CASE Spawn
    BY <1>1 DEF Spawn
<1>2. CASE LoopEnds
    BY <1>2 DEF LoopEnds
<1>3. CASE Install
    BY <1>3 DEF Install
<1>4. CASE Announce
    BY <1>4 DEF Announce
<1>5. CASE WaitReturns
    BY <1>5 DEF WaitReturns
<1>6. CASE TearDown
    BY <1>6 DEF TearDown
<1>7. CASE Backoff
    BY <1>7 DEF Backoff
<1>8. CASE ChildExits
    BY <1>8 DEF ChildExits
<1>9. CASE WriteFails
    BY <1>9 DEF WriteFails
<1>10. CASE EndOfStdout
    BY <1>10 DEF EndOfStdout
<1>11. CASE StopFlags
    BY <1>11 DEF StopFlags
<1>12. CASE StopCloses
    BY <1>12 DEF StopCloses
<1>13. CASE StopDrains
    BY <1>13 DEF StopDrains
<1>14. CASE Cool
    BY <1>14 DEF Cool
<1>15. ASSUME NEW c \in Calls, Refuse(c)
      PROVE  (BreakerTypes /\ BreakerCoherent)'
    BY <1>15 DEF Refuse
<1>16. ASSUME NEW c \in Calls, Admit(c)
      PROVE  (BreakerTypes /\ BreakerCoherent)'
    BY <1>16 DEF Admit
<1>17. ASSUME NEW c \in Calls, Check(c)
      PROVE  (BreakerTypes /\ BreakerCoherent)'
    <2>1. CASE record_failure
        BY <2>1, FailureCoherent
    <2>2. CASE UNCHANGED breakerVars
        BY <2>2
    <2> QED
        BY <1>17, <2>1, <2>2 DEF Check
<1>18. ASSUME NEW c \in Calls, Insert(c)
      PROVE  (BreakerTypes /\ BreakerCoherent)'
    BY <1>18 DEF Insert
<1>19. ASSUME NEW c \in Calls, CloneStdin(c)
      PROVE  (BreakerTypes /\ BreakerCoherent)'
    <2>1. CASE record_failure
        BY <2>1, FailureCoherent
    <2>2. CASE UNCHANGED breakerVars
        BY <2>2
    <2> QED
        BY <1>19, <2>1, <2>2 DEF CloneStdin
<1>20. ASSUME NEW c \in Calls, SendLine(c)
      PROVE  (BreakerTypes /\ BreakerCoherent)'
    <2>1. CASE record_failure
        BY <2>1, FailureCoherent
    <2>2. CASE UNCHANGED breakerVars
        BY <2>2
    <2> QED
        BY <1>20, <2>1, <2>2 DEF SendLine
<1>21. ASSUME NEW c \in Calls, Return(c)
      PROVE  (BreakerTypes /\ BreakerCoherent)'
    <2>1. record_success \/ record_failure
        BY <1>21 DEF Return
    <2> HIDE DEF BreakerTypes, BreakerCoherent
    <2> QED
        BY <2>1, FailureCoherent, SuccessCoherent
<1>22. ASSUME NEW c \in Calls, Timeout(c)
      PROVE  (BreakerTypes /\ BreakerCoherent)'
    <2>1. record_failure
        BY <1>22 DEF Timeout
    <2> HIDE DEF BreakerTypes, BreakerCoherent
    <2> QED
        BY <2>1, FailureCoherent
<1>23. ASSUME NEW c \in Calls, WriteLine(c)
      PROVE  (BreakerTypes /\ BreakerCoherent)'
    BY <1>23 DEF WriteLine
<1>24. ASSUME NEW c \in Calls, ChildAnswers(c)
      PROVE  (BreakerTypes /\ BreakerCoherent)'
    BY <1>24 DEF ChildAnswers
<1>25. ASSUME NEW c \in Calls, ReadLine(c)
      PROVE  (BreakerTypes /\ BreakerCoherent)'
    BY <1>25 DEF ReadLine
<1>26. CASE UNCHANGED vars
    BY <1>26 DEF vars
<1> QED
    BY <1>1, <1>2, <1>3, <1>4, <1>5, <1>6, <1>7, <1>8, <1>9,
       <1>10, <1>11, <1>12, <1>13, <1>14, <1>15, <1>16, <1>17, <1>18,
       <1>19, <1>20, <1>21, <1>22, <1>23, <1>24, <1>25, <1>26
       DEF Next, LoopNext, StopNext, CallNext

\* Type correctness.
THEOREM TypeCorrect == Spec => []TypeOK
<1>1. Init => QueueInv
    BY FS_EmptySet, LimitsAssumption DEF Init, QueueInv
<1>2. Init => SupervisorTypes /\ CallTypes
    <2>1. Init => SupervisorTypes
        <3>1. 0 \in Nat /\ 0 \in 0..0
            OBVIOUS
        <3> QED
            BY <3>1, Zenon DEF Init, SupervisorTypes, LoopStates
    <2>2. Init => CallTypes
        BY DEF Init, CallTypes, InFlight
    <2> QED
        BY <2>1, <2>2
<1>3. Init => BreakerTypes /\ BreakerCoherent
    BY InitBreaker
<1>4. Init => held \in [Calls -> Nat]
    BY DEF Init
<1>5. SupervisorTypes /\ held \in [Calls -> Nat] /\ [Next]_vars
          => (held \in [Calls -> Nat])'
    <2> SUFFICES ASSUME SupervisorTypes, held \in [Calls -> Nat], [Next]_vars
                 PROVE  held' \in [Calls -> Nat]
        OBVIOUS
    <2>1. UNCHANGED held \/ \E c \in Calls : held' = [held EXCEPT ![c] = stdin_tx]
        BY DEF Next, LoopNext, StopNext, CallNext, vars, callVars, Spawn, LoopEnds,
               Install, Announce, WaitReturns, TearDown, Backoff, ChildExits,
               WriteFails, EndOfStdout, Drain, StopFlags, StopCloses, StopDrains,
               Cool, Refuse, Admit, Check, Insert, CloneStdin, SendLine, Return,
               Timeout, WriteLine, ChildAnswers, ReadLine
    <2>2. stdin_tx \in Nat
        BY DEF SupervisorTypes
    <2> QED
        BY <2>1, <2>2
<1>6. QueueInv /\ SupervisorTypes /\ CallTypes /\ BreakerTypes
          /\ held \in [Calls -> Nat] => TypeOK
    BY DEF QueueInv, SupervisorTypes, CallTypes, BreakerTypes, TypeOK
<1> QED
    BY <1>1, <1>2, <1>3, <1>4, <1>5, <1>6, QueueStep, SupervisorStep,
       CallTypeStep, BreakerStep, PTL DEF Spec

\* The circuit breaker cannot be left open for good or closed over the limit.
THEOREM BreakerCorrect == Spec => []BreakerCoherent
<1>1. Init => BreakerTypes /\ BreakerCoherent
    BY InitBreaker
<1> QED
    BY <1>1, BreakerStep, PTL DEF Spec

-----------------------------------------------------------------------------
(* The map of pending calls.  A sender is in one place: not made yet, in   *)
(* the map, or used up.                                                    *)

CallInv ==
    /\ NoOrphanCaller
    /\ EntriesAreOwed
    /\ \A i \in Ids : pending[i] # NoCall => box[pending[i]] = "empty"
    /\ \A c \in Calls :
         call[c] \in {"idle", "admitted", "checked"} => box[c] = "empty"

\* Every step keeps the account of the senders.
LEMMA CallStep == CallTypes /\ CallInv /\ [Next]_vars => CallInv'
<1> SUFFICES ASSUME CallTypes /\ CallInv, [Next]_vars
             PROVE  CallInv'
    OBVIOUS
<1> USE CallsAssumption
<1> USE DEF CallTypes, CallInv, NoOrphanCaller, EntriesAreOwed, InFlight, callVars

<1>1. CASE Spawn
    BY <1>1 DEF Spawn
<1>2. CASE LoopEnds
    BY <1>2 DEF LoopEnds
<1>3. CASE Install
    BY <1>3 DEF Install
<1>4. CASE Announce
    BY <1>4 DEF Announce
<1>5. CASE WaitReturns
    BY <1>5 DEF WaitReturns
<1>6. CASE TearDown
    BY <1>6 DEF TearDown
<1>7. CASE Backoff
    BY <1>7 DEF Backoff
<1>8. CASE ChildExits
    BY <1>8 DEF ChildExits
<1>9. CASE WriteFails
    BY <1>9 DEF WriteFails
<1>10. CASE EndOfStdout
    BY <1>10 DEF EndOfStdout, Drain
<1>11. CASE StopFlags
    BY <1>11 DEF StopFlags
<1>12. CASE StopCloses
    BY <1>12 DEF StopCloses
<1>13. CASE StopDrains
    BY <1>13 DEF StopDrains, Drain
<1>14. CASE Cool
    BY <1>14 DEF Cool
<1>15. ASSUME NEW c \in Calls, Refuse(c)
      PROVE  CallInv'
    BY <1>15 DEF Refuse, Goes
<1>16. ASSUME NEW c \in Calls, Admit(c)
      PROVE  CallInv'
    BY <1>16 DEF Admit, Goes
<1>17. ASSUME NEW c \in Calls, Check(c)
      PROVE  CallInv'
    BY <1>17 DEF Check, Goes
<1>18. ASSUME NEW c \in Calls, Insert(c)
      PROVE  CallInv'
    BY <1>18 DEF Insert, Goes, Resolved
<1>19. ASSUME NEW c \in Calls, CloneStdin(c)
      PROVE  CallInv'
    BY <1>19 DEF CloneStdin, Goes, TakeBack, Resolved
<1>20. ASSUME NEW c \in Calls, SendLine(c)
      PROVE  CallInv'
    BY <1>20 DEF SendLine, Goes, TakeBack, Resolved
<1>21. ASSUME NEW c \in Calls, Return(c)
      PROVE  CallInv'
    BY <1>21 DEF Return, Goes
<1>22. ASSUME NEW c \in Calls, Timeout(c)
      PROVE  CallInv'
    BY <1>22 DEF Timeout, Goes
<1>23. ASSUME NEW c \in Calls, WriteLine(c)
      PROVE  CallInv'
    BY <1>23 DEF WriteLine
<1>24. ASSUME NEW c \in Calls, ChildAnswers(c)
      PROVE  CallInv'
    BY <1>24 DEF ChildAnswers
<1>25. ASSUME NEW c \in Calls, ReadLine(c)
      PROVE  CallInv'
    BY <1>25 DEF ReadLine, Resolved
<1>26. CASE UNCHANGED vars
    BY <1>26 DEF vars
<1> QED
    BY <1>1, <1>2, <1>3, <1>4, <1>5, <1>6, <1>7, <1>8, <1>9,
       <1>10, <1>11, <1>12, <1>13, <1>14, <1>15, <1>16, <1>17, <1>18,
       <1>19, <1>20, <1>21, <1>22, <1>23, <1>24, <1>25, <1>26
       DEF Next, LoopNext, StopNext, CallNext

\* A waiting caller can always still be answered or drained.
THEOREM NoCallerForgotten == Spec => []NoOrphanCaller
<1>1. Init => CallTypes
    BY DEF Init, CallTypes, InFlight
<1>2. Init => CallInv
    BY DEF Init, CallInv, NoOrphanCaller, EntriesAreOwed
<1>3. CallInv => NoOrphanCaller
    BY DEF CallInv
<1> QED
    BY <1>1, <1>2, <1>3, CallTypeStep, CallStep, PTL DEF Spec

\* Only a timeout leaves an entry behind in the map.
THEOREM EntriesOwed == Spec => []EntriesAreOwed
<1>1. Init => CallTypes
    BY DEF Init, CallTypes, InFlight
<1>2. Init => CallInv
    BY DEF Init, CallInv, NoOrphanCaller, EntriesAreOwed
<1>3. CallInv => EntriesAreOwed
    BY DEF CallInv
<1> QED
    BY <1>1, <1>2, <1>3, CallTypeStep, CallStep, PTL DEF Spec

-----------------------------------------------------------------------------
(* Restarts.  The count runs ahead of the children by one from the exit of *)
(* a child to the start of the next.                                       *)

RestartInv ==
    /\ loop \in LoopStates /\ gen \in Nat /\ restart_count \in Nat
    /\ loop \in {"install", "announce", "wait", "down"} =>
         gen = restart_count + 1 /\ restart_count <= max_restart_attempts
    /\ loop \in {"spawn", "backoff"} =>
         gen = restart_count /\ restart_count <= max_restart_attempts
    /\ loop = "ended" => RestartsBounded

\* Every step keeps the count.
LEMMA RestartStep == RestartInv /\ [Next]_vars => RestartInv'
<1> SUFFICES ASSUME RestartInv, [Next]_vars
             PROVE  RestartInv'
    OBVIOUS
<1> USE LimitsAssumption
<1> USE DEF RestartInv, RestartsBounded, LoopStates, childVars, flagVars

<1>1. CASE Spawn
    BY <1>1 DEF Spawn
<1>2. CASE LoopEnds
    BY <1>2 DEF LoopEnds
<1>3. CASE Install
    BY <1>3 DEF Install
<1>4. CASE Announce
    BY <1>4 DEF Announce
<1>5. CASE WaitReturns
    BY <1>5 DEF WaitReturns
<1>6. CASE TearDown
    BY <1>6 DEF TearDown, RestartsLeft
<1>7. CASE Backoff
    BY <1>7 DEF Backoff
<1>8. CASE ChildExits
    BY <1>8 DEF ChildExits
<1>9. CASE WriteFails
    BY <1>9 DEF WriteFails
<1>10. CASE EndOfStdout
    BY <1>10 DEF EndOfStdout
<1>11. CASE StopFlags
    BY <1>11 DEF StopFlags
<1>12. CASE StopCloses
    BY <1>12 DEF StopCloses
<1>13. CASE StopDrains
    BY <1>13 DEF StopDrains
<1>14. CASE Cool
    BY <1>14 DEF Cool
<1>15. ASSUME NEW c \in Calls, Refuse(c)
      PROVE  RestartInv'
    BY <1>15 DEF Refuse
<1>16. ASSUME NEW c \in Calls, Admit(c)
      PROVE  RestartInv'
    BY <1>16 DEF Admit
<1>17. ASSUME NEW c \in Calls, Check(c)
      PROVE  RestartInv'
    BY <1>17 DEF Check
<1>18. ASSUME NEW c \in Calls, Insert(c)
      PROVE  RestartInv'
    BY <1>18 DEF Insert
<1>19. ASSUME NEW c \in Calls, CloneStdin(c)
      PROVE  RestartInv'
    BY <1>19 DEF CloneStdin
<1>20. ASSUME NEW c \in Calls, SendLine(c)
      PROVE  RestartInv'
    BY <1>20 DEF SendLine
<1>21. ASSUME NEW c \in Calls, Return(c)
      PROVE  RestartInv'
    BY <1>21 DEF Return
<1>22. ASSUME NEW c \in Calls, Timeout(c)
      PROVE  RestartInv'
    BY <1>22 DEF Timeout
<1>23. ASSUME NEW c \in Calls, WriteLine(c)
      PROVE  RestartInv'
    BY <1>23 DEF WriteLine
<1>24. ASSUME NEW c \in Calls, ChildAnswers(c)
      PROVE  RestartInv'
    BY <1>24 DEF ChildAnswers
<1>25. ASSUME NEW c \in Calls, ReadLine(c)
      PROVE  RestartInv'
    BY <1>25 DEF ReadLine
<1>26. CASE UNCHANGED vars
    BY <1>26 DEF vars
<1> QED
    BY <1>1, <1>2, <1>3, <1>4, <1>5, <1>6, <1>7, <1>8, <1>9,
       <1>10, <1>11, <1>12, <1>13, <1>14, <1>15, <1>16, <1>17, <1>18,
       <1>19, <1>20, <1>21, <1>22, <1>23, <1>24, <1>25, <1>26
       DEF Next, LoopNext, StopNext, CallNext

\* The child is started at most max_restart_attempts + 1 times.
THEOREM RestartsCorrect == Spec => []RestartsBounded
<1>1. Init => RestartInv
    BY LimitsAssumption DEF Init, RestartInv, LoopStates
<1>2. RestartInv => RestartsBounded
    BY LimitsAssumption DEF RestartInv, RestartsBounded, LoopStates
<1> QED
    BY <1>1, <1>2, RestartStep, PTL DEF Spec

=============================================================================
