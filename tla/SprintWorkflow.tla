--------------------------- MODULE SprintWorkflow ----------------------------
(***************************************************************************)
(* A sprint of the swarm orchestrator (workflow.rs of swarm-orchestrator): *)
(* its phase, the token that opens the gate before the implementation, and *)
(* the deliverables on the blackboard.  Calls run concurrently: a call     *)
(* that delivers something first publishes it under the blackboard's lock  *)
(* and then takes the lock of the sprint's state.  A call that is refused  *)
(* (InvalidTransition, PhaseGateBlocked, AccessDenied) changes nothing and *)
(* is no step of the model.                                                *)
(***************************************************************************)
EXTENDS Blackboard

CONSTANTS
    Callers,        \* concurrent calls
    MaxVersions,    \* bound on the versions of an artifact
    MaxTokens       \* bound on the tokens that are issued

ASSUME BoundsAssumption == MaxVersions \in Nat /\ MaxTokens \in Nat

NoToken == 0

VARIABLES
    phase,
    token,      \* approval_token: fresh tokens are 1, 2, ...
    feedback,   \* a rejection has left its feedback
    board,
    pc,         \* "idle", or the delivery a call has published
    issued,     \* tokens issued so far
    covers,     \* history: version of the plan when token was issued
    approved,   \* history: what the token that opened the gate covered
    spent       \* history: tokens used, withdrawn or superseded

stateVars == <<phase, token, feedback>>
historyVars == <<issued, covers, approved, spent>>
vars == <<stateVars, board, pc, historyVars>>

Phases == {"Initialization", "Planning", "PhaseGateAwaitingApproval",
           "Implementation", "Review", "Completed", "Failed"}

Deliveries == {"plan", "build", "pass", "fail"}

\* Where a delivery goes and who signs it.
UriOf(d) == IF d \in {"plan", "build"} THEN d ELSE "qa"
AuthorOf(d) ==
    CASE d = "plan" -> "planner-lead"
      [] d = "build" -> "code-implementer"
      [] OTHER -> "qa-reviewer"

Init ==
    /\ phase = "Initialization"
    /\ token = NoToken /\ feedback = FALSE
    /\ board = EmptyBoard
    /\ pc = [c \in Callers |-> "idle"]
    /\ issued = 0 /\ covers = 0 /\ approved = 0 /\ spent = {}

-----------------------------------------------------------------------------
start_planning ==
    /\ phase = "Initialization"
    /\ phase' = "Planning"
    /\ UNCHANGED <<token, feedback, board, pc, historyVars>>

\* The first half of submit_plan, complete_implementation and finish_review:
\* whatever the phase, the call publishes, and ends if that is refused.
DeliveredOrRefused(d) ==
    board' = IF MayPublish(board, UriOf(d), AuthorOf(d))
             THEN Publish(board, UriOf(d), AuthorOf(d)) ELSE board
Delivered(d) ==
    /\ MayPublish(board, UriOf(d), AuthorOf(d))
    /\ board' = Publish(board, UriOf(d), AuthorOf(d))

Deliver(c, d) ==
    /\ pc[c] = "idle"
    /\ Len(board[UriOf(d)]) < MaxVersions
    /\ Delivered(d)
    /\ pc' = [pc EXCEPT ![c] = d]
    /\ UNCHANGED <<stateVars, historyVars>>

\* The second half of submit_plan: the gate closes, with a new token.
PhaseUnlessStarted ==
    IF phase = "Implementation" THEN phase ELSE "PhaseGateAwaitingApproval"
PhaseOfPlan == "PhaseGateAwaitingApproval"

submit_plan(c) ==
    /\ pc[c] = "plan"
    /\ issued < MaxTokens
    /\ phase' = PhaseOfPlan
    /\ token' = issued + 1
    /\ issued' = issued + 1
    /\ covers' = Len(board["plan"])
    /\ spent' = spent \cup ({token} \ {NoToken})
    /\ pc' = [pc EXCEPT ![c] = "idle"]
    /\ UNCHANGED <<feedback, board, approved>>

\* Any token that was ever issued may be presented; only the expected one
\* opens the gate, and only while it is closed.
approve_phase_gate(k) ==
    /\ phase = "PhaseGateAwaitingApproval"
    /\ token = k
    /\ phase' = "Implementation"
    /\ token' = NoToken
    /\ approved' = covers
    /\ spent' = spent \cup {k}
    /\ UNCHANGED <<feedback, board, pc, issued, covers>>

\* From any phase.
TokenKept == token
TokenAfterReject == NoToken

reject_and_backtrack ==
    /\ feedback' = TRUE
    /\ phase' = "Planning"
    /\ token' = TokenAfterReject
    /\ spent' = spent \cup ({token} \ {NoToken})
    /\ UNCHANGED <<board, pc, issued, covers, approved>>

\* The second halves of complete_implementation and finish_review; the token
\* of a gate that was passed by stays.
complete_implementation(c) ==
    /\ pc[c] = "build"
    /\ phase' = "Review"
    /\ pc' = [pc EXCEPT ![c] = "idle"]
    /\ UNCHANGED <<token, feedback, board, historyVars>>

finish_review(c) ==
    /\ pc[c] \in {"pass", "fail"}
    /\ phase' = IF pc[c] = "pass" THEN "Completed" ELSE "Failed"
    /\ pc' = [pc EXCEPT ![c] = "idle"]
    /\ UNCHANGED <<token, feedback, board, historyVars>>

\* A lead takes an artifact over, past the workflow.
LeadPublishes(u) ==
    /\ Len(board[u]) < MaxVersions
    /\ MayPublish(board, u, "lead")
    /\ board' = Publish(board, u, "lead")
    /\ UNCHANGED <<stateVars, pc, historyVars>>

Next ==
    \/ start_planning
    \/ \E c \in Callers : \E d \in Deliveries : Deliver(c, d)
    \/ \E c \in Callers :
         submit_plan(c) \/ complete_implementation(c) \/ finish_review(c)
    \/ \E k \in 1..issued : approve_phase_gate(k)
    \/ reject_and_backtrack
    \/ \E u \in Uris : LeadPublishes(u)

Spec == Init /\ [][Next]_vars

-----------------------------------------------------------------------------
\* Type invariant.
TypeOK ==
    /\ phase \in Phases
    /\ token \in Nat /\ issued \in Nat /\ token <= issued
    /\ feedback \in BOOLEAN
    /\ board \in Boards
    /\ pc \in [Callers -> Deliveries \cup {"idle"}]
    /\ covers \in Nat /\ approved \in Nat
    /\ spent \subseteq 1..issued

\* While the implementation runs and no submission is between its two locks,
\* the plan on the blackboard is the one the accepted token was issued for,
\* unless a lead has replaced it: submit_plan publishes before it closes the
\* gate, so a plan that arrives late always closes it again.
ApprovedPlanIsCurrent ==
    /\ phase = "Implementation"
    /\ \A c \in Callers : pc[c] # "plan"
    /\ Last(board["plan"]).author # "lead"
    => approved = Len(board["plan"])

\* The gate can be opened whenever it is closed, and only by a token that has
\* not been used, rejected or superseded: no order of submissions, rejections
\* and approvals revives an old token.
TokenIsLive ==
    /\ phase = "PhaseGateAwaitingApproval" => token # NoToken
    /\ token # NoToken => token \notin spent
    /\ phase \in {"Initialization", "Planning", "Implementation"} =>
         token = NoToken

HasDelivered(d) ==
    \E i \in 1..Len(board[UriOf(d)]) : board[UriOf(d)][i].author = AuthorOf(d)

\* Although the phase is set from any phase, one that was reached by a
\* delivery has that delivery on the blackboard, signed by its role: a refused
\* publication ends the call before the phase changes.
PhaseIsBacked ==
    /\ phase \in {"PhaseGateAwaitingApproval", "Implementation"} =>
         HasDelivered("plan")
    /\ phase = "Review" => HasDelivered("build")
    /\ phase \in {"Completed", "Failed"} => HasDelivered("pass")
=============================================================================
