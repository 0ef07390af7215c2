----------------------------- MODULE Blackboard ------------------------------
(***************************************************************************)
(* The versioned artifacts that the agents of a sprint leave for each      *)
(* other (services/swarm-orchestrator/src/blackboard.rs).  A board maps    *)
(* every blackboard:// address to the sequence of its versions; contents   *)
(* and their hashes are left out, an artifact is its author and version.   *)
(* Addresses with another scheme are refused and are not in Uris.          *)
(***************************************************************************)
EXTENDS Naturals, Sequences, SequencesExt

Uris == {"plan", "build", "qa"}

\* The author strings the workflow uses; "lead" stands for those that start
\* with "lead_", which "planner-lead" does not.
Agents == {"planner-lead", "code-implementer", "qa-reviewer", "lead"}

Artifacts == [author : Agents, version : Nat]

Boards == [Uris -> Seq(Artifacts)]

EmptyBoard == [u \in Uris |-> <<>>]

\* The latest author owns the artifact; a lead may take it over.
MayPublish(board, uri, author) ==
    board[uri] # <<>> =>
        Last(board[uri]).author = author \/ author = "lead"

NextVersion(history) ==
    IF history = <<>> THEN 1 ELSE Last(history).version + 1

Publish(board, uri, author) ==
    [board EXCEPT ![uri] =
        Append(@, [author |-> author, version |-> NextVersion(@)])]
=============================================================================
