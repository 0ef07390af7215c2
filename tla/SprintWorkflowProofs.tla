------------------------ MODULE SprintWorkflowProofs -------------------------
(***************************************************************************)
(* Theorems about SprintWorkflow, for any callers and bounds.              *)
(***************************************************************************)
EXTENDS SprintWorkflow, TLAPS

-----------------------------------------------------------------------------
(* The blackboard.                                                         *)

LEMMA PublishTyped ==
    ASSUME NEW b \in Boards, NEW u \in Uris, NEW a \in Agents
    PROVE  Publish(b, u, a) \in Boards
<1>1. b[u] \in Seq(Artifacts)
    BY DEF Boards
<1>2. NextVersion(b[u]) \in Nat
    <2>1. CASE b[u] = <<>>
        BY <2>1 DEF NextVersion
    <2>2. CASE b[u] # <<>>
        <3>1. Last(b[u]) \in Artifacts
            BY <1>1, <2>2 DEF Last
        <3>2. Last(b[u]).version \in Nat
            BY <3>1 DEF Artifacts
        <3> QED
            BY <2>2, <3>2 DEF NextVersion
    <2> QED
        BY <2>1, <2>2
<1>3. [author |-> a, version |-> NextVersion(b[u])] \in Artifacts
    BY <1>2 DEF Artifacts
<1>4. Append(b[u], [author |-> a, version |-> NextVersion(b[u])])
        \in Seq(Artifacts)
    BY <1>1, <1>3
<1> QED
    BY <1>4 DEF Publish, Boards

\* Publishing appends one artifact to one history and leaves the others alone.
LEMMA PublishAppends ==
    ASSUME NEW b \in Boards, NEW u \in Uris, NEW a \in Agents
    PROVE  /\ Len(Publish(b, u, a)[u]) = Len(b[u]) + 1
           /\ Publish(b, u, a)[u][Len(b[u]) + 1].author = a
           /\ \A i \in 1..Len(b[u]) : Publish(b, u, a)[u][i] = b[u][i]
           /\ \A v \in Uris \ {u} : Publish(b, u, a)[v] = b[v]
           /\ Last(Publish(b, u, a)[u]).author = a
<1> DEFINE art == [author |-> a, version |-> NextVersion(b[u])]
<1>1. b[u] \in Seq(Artifacts)
    BY DEF Boards
<1>2. /\ Publish(b, u, a)[u] = Append(b[u], art)
      /\ \A v \in Uris \ {u} : Publish(b, u, a)[v] = b[v]
    BY DEF Publish, Boards
<1>3. art.author = a
    OBVIOUS
<1> HIDE DEF art
<1>4. /\ Len(Append(b[u], art)) = Len(b[u]) + 1
      /\ Append(b[u], art)[Len(b[u]) + 1] = art
      /\ \A i \in 1..Len(b[u]) : Append(b[u], art)[i] = b[u][i]
    BY <1>1
<1> QED
    BY <1>2, <1>3, <1>4 DEF Last

LEMMA DeliveryTyped ==
    ASSUME NEW d \in Deliveries
    PROVE  UriOf(d) \in Uris /\ AuthorOf(d) \in Agents
    BY DEF Deliveries, UriOf, AuthorOf, Uris, Agents

-----------------------------------------------------------------------------
(* Type correctness.                                                       *)

LEMMA InitTyped == Init => TypeOK
<1> SUFFICES ASSUME Init PROVE TypeOK
    OBVIOUS
<1>1. EmptyBoard \in Boards
    <2>1. <<>> \in Seq(Artifacts)
        OBVIOUS
    <2> QED
        BY <2>1 DEF EmptyBoard, Boards
<1>2. phase \in Phases /\ feedback \in BOOLEAN
    BY DEF Init, Phases
<1>3. pc \in [Callers -> Deliveries \cup {"idle"}]
    BY DEF Init
<1>4. /\ token \in Nat /\ issued \in Nat /\ token <= issued
      /\ covers \in Nat /\ approved \in Nat /\ spent \subseteq 1..issued
    BY DEF Init, NoToken
<1> QED
    BY <1>1, <1>2, <1>3, <1>4 DEF Init, TypeOK

LEMMA TypeStep == TypeOK /\ [Next]_vars => TypeOK'
<1> SUFFICES ASSUME TypeOK, [Next]_vars PROVE TypeOK'
    OBVIOUS
<1> USE DEF TypeOK
<1>1. CASE start_planning
    BY <1>1 DEF start_planning, Phases, historyVars
<1>2. ASSUME NEW c \in Callers, NEW d \in Deliveries, Deliver(c, d)
      PROVE  TypeOK'
    <2>1. board' \in Boards
        BY <1>2, DeliveryTyped, PublishTyped DEF Deliver, Delivered
    <2> QED
        BY <1>2, <2>1 DEF Deliver, stateVars, historyVars
<1>3. ASSUME NEW c \in Callers, submit_plan(c)
      PROVE  TypeOK'
    <2>1. Len(board["plan"]) \in Nat
        BY DEF Boards, Uris
    <2>2. spent' \subseteq 1..issued'
        BY <1>3 DEF submit_plan, NoToken
    <2> QED
        BY <1>3, <2>1, <2>2 DEF submit_plan, PhaseOfPlan, Phases
<1>4. ASSUME NEW c \in Callers,
             complete_implementation(c) \/ finish_review(c)
      PROVE  TypeOK'
    BY <1>4 DEF complete_implementation, finish_review, Phases, historyVars
<1>5. ASSUME NEW k \in 1..issued, approve_phase_gate(k)
      PROVE  TypeOK'
    BY <1>5 DEF approve_phase_gate, Phases, NoToken
<1>6. CASE reject_and_backtrack
    BY <1>6 DEF reject_and_backtrack, TokenAfterReject, Phases, NoToken
<1>7. ASSUME NEW u \in Uris, LeadPublishes(u)
      PROVE  TypeOK'
    <2>1. board' \in Boards
        BY <1>7, PublishTyped DEF LeadPublishes, Agents
    <2> QED
        BY <1>7, <2>1 DEF LeadPublishes, stateVars, historyVars
<1>8. CASE UNCHANGED vars
    BY <1>8 DEF vars, stateVars, historyVars
<1> QED
    BY <1>1, <1>2, <1>3, <1>4, <1>5, <1>6, <1>7, <1>8 DEF Next

\* Every variable of the sprint keeps its type.
THEOREM TypeCorrect == Spec => []TypeOK
    BY InitTyped, TypeStep, PTL DEF Spec

-----------------------------------------------------------------------------
(* Tokens.                                                                 *)

LEMMA TokenStep == TypeOK /\ TokenIsLive /\ [Next]_vars => TokenIsLive'
<1> SUFFICES ASSUME TypeOK, TokenIsLive, [Next]_vars PROVE TokenIsLive'
    OBVIOUS
<1> USE DEF TokenIsLive, NoToken
<1>1. CASE start_planning
    BY <1>1 DEF start_planning, historyVars
<1>2. ASSUME NEW c \in Callers, NEW d \in Deliveries, Deliver(c, d)
      PROVE  TokenIsLive'
    BY <1>2 DEF Deliver, stateVars, historyVars
<1>3. ASSUME NEW c \in Callers, submit_plan(c)
      PROVE  TokenIsLive'
    BY <1>3 DEF submit_plan, PhaseOfPlan, TypeOK
<1>4. ASSUME NEW c \in Callers,
             complete_implementation(c) \/ finish_review(c)
      PROVE  TokenIsLive'
    BY <1>4 DEF complete_implementation, finish_review, historyVars
<1>5. ASSUME NEW k \in 1..issued, approve_phase_gate(k)
      PROVE  TokenIsLive'
    BY <1>5 DEF approve_phase_gate
<1>6. CASE reject_and_backtrack
    BY <1>6 DEF reject_and_backtrack, TokenAfterReject
<1>7. ASSUME NEW u \in Uris, LeadPublishes(u)
      PROVE  TokenIsLive'
    BY <1>7 DEF LeadPublishes, stateVars, historyVars
<1>8. CASE UNCHANGED vars
    BY <1>8 DEF vars, stateVars, historyVars
<1> QED
    BY <1>1, <1>2, <1>3, <1>4, <1>5, <1>6, <1>7, <1>8 DEF Next

\* For any number of concurrent calls, no token opens the gate after it was
\* used, rejected or superseded.
THEOREM TokensAreLive == Spec => []TokenIsLive
<1>1. Init => TokenIsLive
    BY DEF Init, TokenIsLive, NoToken
<1> QED
    BY <1>1, TokenStep, TypeCorrect, PTL DEF Spec

-----------------------------------------------------------------------------
(* Deliverables.                                                           *)

\* A delivery on the blackboard stays there.
LEMMA DeliveredStays ==
    ASSUME TypeOK, NEW u \in Uris, NEW a \in Agents,
           board' = Publish(board, u, a), NEW d \in Deliveries,
           HasDelivered(d)
    PROVE  HasDelivered(d)'
<1>1. board \in Boards /\ UriOf(d) \in Uris
    BY DeliveryTyped DEF TypeOK
<1>2. Len(board[u]) \in Nat
    BY <1>1 DEF Boards
<1>3. PICK i \in 1..Len(board[UriOf(d)]) :
        board[UriOf(d)][i].author = AuthorOf(d)
    BY DEF HasDelivered
<1>4. i \in 1..Len(board'[UriOf(d)]) /\
        board'[UriOf(d)][i] = board[UriOf(d)][i]
    <2>1. CASE UriOf(d) = u
        BY <1>1, <1>2, <1>3, <2>1, PublishAppends
    <2>2. CASE UriOf(d) # u
        BY <1>1, <1>3, <2>2, PublishAppends
    <2> QED
        BY <2>1, <2>2
<1> QED
    BY <1>3, <1>4 DEF HasDelivered

\* A call between its locks has delivered, and so has the phase.
BackedInv ==
    /\ PhaseIsBacked
    /\ \A c \in Callers : pc[c] # "idle" => HasDelivered(pc[c])

LEMMA FailIsPass == HasDelivered("fail") <=> HasDelivered("pass")
    BY DEF HasDelivered, UriOf, AuthorOf

LEMMA BackedStep == TypeOK /\ BackedInv /\ [Next]_vars => BackedInv'
<1> SUFFICES ASSUME TypeOK, BackedInv, [Next]_vars PROVE BackedInv'
    OBVIOUS
<1> USE DEF BackedInv
<1>0. ASSUME UNCHANGED board
      PROVE  \A d \in Deliveries : HasDelivered(d) => HasDelivered(d)'
    BY <1>0 DEF HasDelivered
<1>1. CASE start_planning
    BY <1>0, <1>1 DEF start_planning, PhaseIsBacked, TypeOK
<1>2. ASSUME NEW c \in Callers, NEW d \in Deliveries, Deliver(c, d)
      PROVE  BackedInv'
    <2>1. /\ board' = Publish(board, UriOf(d), AuthorOf(d))
          /\ pc' = [pc EXCEPT ![c] = d]
          /\ UNCHANGED phase
        BY <1>2 DEF Deliver, Delivered, stateVars
    <2>2. \A e \in Deliveries : HasDelivered(e) => HasDelivered(e)'
        BY <2>1, DeliveryTyped, DeliveredStays
    <2>3. HasDelivered(d)'
        <3>1. board \in Boards /\ UriOf(d) \in Uris /\ AuthorOf(d) \in Agents
            BY DeliveryTyped DEF TypeOK
        <3>2. Len(board[UriOf(d)]) \in Nat
            BY <3>1 DEF Boards
        <3> QED
            BY <2>1, <3>1, <3>2, PublishAppends DEF HasDelivered
    <2>4. PhaseIsBacked'
        BY <2>1, <2>2 DEF PhaseIsBacked, Deliveries
    <2> QED
        BY <2>1, <2>2, <2>3, <2>4 DEF TypeOK
<1>3. ASSUME NEW c \in Callers, submit_plan(c)
      PROVE  BackedInv'
    BY <1>0, <1>3 DEF submit_plan, PhaseOfPlan, PhaseIsBacked, TypeOK,
                      Deliveries
<1>4. ASSUME NEW c \in Callers, complete_implementation(c)
      PROVE  BackedInv'
    BY <1>0, <1>4 DEF complete_implementation, PhaseIsBacked, TypeOK,
                      Deliveries
<1>5. ASSUME NEW c \in Callers, finish_review(c)
      PROVE  BackedInv'
    <2>1. HasDelivered("pass")
        BY <1>5, FailIsPass DEF finish_review
    <2> QED
        BY <1>0, <1>5, <2>1 DEF finish_review, PhaseIsBacked, TypeOK,
                                Deliveries
<1>6. ASSUME NEW k \in 1..issued, approve_phase_gate(k)
      PROVE  BackedInv'
    BY <1>0, <1>6 DEF approve_phase_gate, PhaseIsBacked, TypeOK, Deliveries
<1>7. CASE reject_and_backtrack
    BY <1>0, <1>7 DEF reject_and_backtrack, PhaseIsBacked, TypeOK
<1>8. ASSUME NEW u \in Uris, LeadPublishes(u)
      PROVE  BackedInv'
    <2>1. \A e \in Deliveries : HasDelivered(e) => HasDelivered(e)'
        BY <1>8, DeliveredStays DEF LeadPublishes, Agents
    <2> QED
        BY <1>8, <2>1 DEF LeadPublishes, stateVars, PhaseIsBacked, TypeOK,
                          Deliveries
<1>9. CASE UNCHANGED vars
    BY <1>0, <1>9 DEF vars, stateVars, PhaseIsBacked, TypeOK, Deliveries
<1> QED
    BY <1>1, <1>2, <1>3, <1>4, <1>5, <1>6, <1>7, <1>8, <1>9 DEF Next

\* A phase reached by a delivery has it on the blackboard, signed by its role,
\* whatever calls run concurrently and whatever a lead takes over.
THEOREM PhasesAreBacked == Spec => []PhaseIsBacked
<1>1. Init => BackedInv
    BY DEF Init, BackedInv, PhaseIsBacked
<1>2. BackedInv => PhaseIsBacked
    BY DEF BackedInv
<1> QED
    BY <1>1, <1>2, BackedStep, TypeCorrect, PTL DEF Spec

-----------------------------------------------------------------------------
(* The approved plan.                                                      *)

\* No submission is between its locks, and no lead has replaced the plan.
Settled ==
    /\ \A c \in Callers : pc[c] # "plan"
    /\ Last(board["plan"]).author # "lead"

\* The token of a closed gate covers the plan, as an open one did.
PlanInv ==
    /\ ApprovedPlanIsCurrent
    /\ phase = "PhaseGateAwaitingApproval" /\ Settled =>
         covers = Len(board["plan"])

\* Other deliveries do not touch the plan.
LEMMA PlanUntouched ==
    ASSUME TypeOK, NEW u \in Uris \ {"plan"}, NEW a \in Agents,
           board' = Publish(board, u, a)
    PROVE  board'["plan"] = board["plan"]
    BY PublishAppends DEF TypeOK, Uris

LEMMA PlanStep == TypeOK /\ PlanInv /\ [Next]_vars => PlanInv'
<1> SUFFICES ASSUME TypeOK, PlanInv, [Next]_vars PROVE PlanInv'
    OBVIOUS
<1> USE DEF PlanInv, ApprovedPlanIsCurrent, Settled
<1>1. CASE start_planning
    BY <1>1 DEF start_planning
<1>2. ASSUME NEW c \in Callers, NEW d \in Deliveries, Deliver(c, d)
      PROVE  PlanInv'
    <2>1. /\ board' = Publish(board, UriOf(d), AuthorOf(d))
          /\ pc[c] = "idle" /\ pc' = [pc EXCEPT ![c] = d]
          /\ UNCHANGED <<phase, covers, approved>>
        BY <1>2 DEF Deliver, Delivered, stateVars, historyVars
    <2>2. CASE d = "plan"
        BY <2>1, <2>2 DEF TypeOK
    <2>3. CASE d # "plan"
        <3>1. UriOf(d) \in Uris \ {"plan"} /\ AuthorOf(d) \in Agents
            BY <2>3, DeliveryTyped DEF UriOf
        <3>2. board'["plan"] = board["plan"]
            BY <2>1, <3>1, PlanUntouched
        <3>3. Settled' => Settled
            BY <2>1, <3>2 DEF TypeOK
        <3> QED
            BY <2>1, <3>2, <3>3
    <2> QED
        BY <2>2, <2>3
<1>3. ASSUME NEW c \in Callers, submit_plan(c)
      PROVE  PlanInv'
    BY <1>3 DEF submit_plan, PhaseOfPlan
<1>4. ASSUME NEW c \in Callers,
             complete_implementation(c) \/ finish_review(c)
      PROVE  PlanInv'
    BY <1>4 DEF complete_implementation, finish_review
<1>5. ASSUME NEW k \in 1..issued, approve_phase_gate(k)
      PROVE  PlanInv'
    BY <1>5 DEF approve_phase_gate
<1>6. CASE reject_and_backtrack
    BY <1>6 DEF reject_and_backtrack
<1>7. ASSUME NEW u \in Uris, LeadPublishes(u)
      PROVE  PlanInv'
    <2>1. /\ board' = Publish(board, u, "lead")
          /\ UNCHANGED <<phase, pc, covers, approved>>
        BY <1>7 DEF LeadPublishes, stateVars, historyVars
    <2>2. CASE u = "plan"
        <3>1. Last(board'["plan"]).author = "lead"
            BY <2>1, <2>2, PublishAppends DEF TypeOK, Agents
        <3> QED
            BY <3>1
    <2>3. CASE u # "plan"
        <3>1. board'["plan"] = board["plan"]
            BY <2>1, <2>3, PlanUntouched DEF Agents
        <3> QED
            BY <2>1, <3>1
    <2> QED
        BY <2>2, <2>3
<1>8. CASE UNCHANGED vars
    BY <1>8 DEF vars, stateVars, historyVars
<1> QED
    BY <1>1, <1>2, <1>3, <1>4, <1>5, <1>6, <1>7, <1>8 DEF Next

\* For any number of concurrent submissions, rejections and approvals, a plan
\* that is being implemented is the one that was approved.
THEOREM ApprovedPlanCurrent == Spec => []ApprovedPlanIsCurrent
<1>1. Init => PlanInv
    BY DEF Init, PlanInv, ApprovedPlanIsCurrent
<1>2. PlanInv => ApprovedPlanIsCurrent
    BY DEF PlanInv
<1> QED
    BY <1>1, <1>2, PlanStep, TypeCorrect, PTL DEF Spec
=============================================================================
