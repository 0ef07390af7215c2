----------------------------- MODULE AgentTurns ------------------------------
(***************************************************************************)
(* Turns of an agent, from the prompt to the last frame carried out:       *)
(*   - a front end (execute_turn_via_tunnel of ui.rs, `syntropy prompt` of *)
(*     main.rs) opens a tunnel of its own, sends the prompt and carries    *)
(*     out the frames that come back, until the final message, an error or *)
(*     a timeout;                                                          *)
(*   - the gateway (service.rs) runs a task for every prompt, which keeps  *)
(*     the channel of the stream that asked;                               *)
(*   - the turn engine (turn.rs) reads the session's history, asks the     *)
(*     model and appends the exchange to the history.                      *)
(* The tunnel is a queue of frames per turn: a lost connection is replaced *)
(* by the tunnel client (TunnelClient.tla), but the frames on the way and  *)
(* those the task sends later are gone.  The results a front end reports   *)
(* are read by nobody in the gateway and are left out, and so are channel  *)
(* limits (512 frames and more, a turn has a handful).                     *)
(***************************************************************************)
EXTENDS Naturals, Sequences, SequencesExt

CONSTANTS
    Turns,          \* prompts; each is asked once, by a front end of its own
    Sessions,
    NoSession,      \* the empty session_id
    MaxCalls,       \* bound on the tool calls of the answer, by turn
    MaxClears       \* bound on clear_session

ASSUME TurnsAssumption ==
    /\ NoSession \notin Sessions
    /\ MaxCalls \in [Turns -> Nat] /\ MaxClears \in Nat

VARIABLES
    sessions,   \* the histories, by session
    task,       \* the gateway's task, by turn
    history,    \* the history a task has read and still holds
    content,    \* the model's answer has a text
    planned,    \* the frames of the answer
    unsent,     \* those the task has still to send
    prompt,     \* the prompt on its way
    session,    \* its session_id
    asking,     \* the stream the prompt came on is still there
    wire,       \* frames on their way to the front end
    host,       \* the front end, by turn
    screen,     \* its multiplexer has the screen it uses for commands
    handled,    \* the tool frames it has carried out
    clears,
    recorded    \* history: turns appended to a session since it was cleared

engineVars == <<sessions, history, content, planned, clears, recorded>>
hostVars == <<host, screen, handled>>
vars == <<engineVars, session, task, unsent, prompt, asking, wire, hostVars>>

Tools == {"exec", "patch"}
Frames == Tools \cup {"final", "error"}
Messages == [role : {"user", "model"}, turn : Turns]
Ended == {"answered", "error", "timeout", "failed"}

Init ==
    /\ sessions = [s \in Sessions |-> <<>>]
    /\ recorded = [s \in Sessions |-> {}]
    /\ task = [t \in Turns |-> "none"]
    /\ history = [t \in Turns |-> <<>>]
    /\ content = [t \in Turns |-> FALSE]
    /\ planned = [t \in Turns |-> <<>>]
    /\ unsent = [t \in Turns |-> <<>>]
    /\ prompt = [t \in Turns |-> "none"]
    /\ session = [t \in Turns |-> NoSession]
    /\ asking = [t \in Turns |-> FALSE]
    /\ wire = [t \in Turns |-> <<>>]
    /\ host = [t \in Turns |-> "idle"]
    /\ screen = [t \in Turns |-> FALSE]
    /\ handled = [t \in Turns |-> <<>>]
    /\ clears = 0

-----------------------------------------------------------------------------
(* The tunnel (external: TunnelClient.tla and GatewaySessions.tla).        *)

\* The gateway reads the prompt and spawns a task for it.
PromptArrives(t) ==
    /\ prompt[t] = "queued"
    /\ prompt' = [prompt EXCEPT ![t] = "arrived"]
    /\ task' = [task EXCEPT ![t] = "spawned"]
    /\ asking' = [asking EXCEPT ![t] = host[t] \notin Ended]
    /\ UNCHANGED <<session, engineVars, unsent, wire, hostVars>>

\* The connection fails after the prompt was handed to it.
PromptLost(t) ==
    /\ prompt[t] = "queued"
    /\ prompt' = [prompt EXCEPT ![t] = "lost"]
    /\ UNCHANGED <<session, engineVars, task, unsent, asking, wire, hostVars>>

\* The stream that asked fails; the first n frames had already arrived.
ConnectionLost(t, n) ==
    /\ asking[t]
    /\ asking' = [asking EXCEPT ![t] = FALSE]
    /\ wire' = [wire EXCEPT ![t] = SubSeq(@, 1, n)]
    /\ UNCHANGED <<session, engineVars, task, unsent, prompt, hostVars>>

-----------------------------------------------------------------------------
(* process_prompt and the task that runs it.                               *)

ReadHistory(t) ==
    /\ task[t] = "spawned"
    /\ history' = [history EXCEPT ![t] =
         IF session[t] = NoSession THEN <<>> ELSE sessions[session[t]]]
    /\ task' = [task EXCEPT ![t] = "asked"]
    /\ UNCHANGED <<session, sessions, content, planned, clears, recorded,
                   unsent, prompt, asking, wire, hostVars>>

\* The frames of an answer: one per call of a known tool (others make none,
\* and are left out of calls), the message last.
server_frames(calls) == Append(calls, "final")

\* generate_turn returns, with any tool calls and with or without a text.
Generated(t, calls, text) ==
    /\ task[t] = "asked"
    /\ content' = [content EXCEPT ![t] = text]
    /\ planned' = [planned EXCEPT ![t] = server_frames(calls)]
    /\ unsent' = [unsent EXCEPT ![t] = server_frames(calls)]
    /\ task' = [task EXCEPT ![t] = "generated"]
    /\ UNCHANGED <<session, sessions, history, clears, recorded,
                   prompt, asking, wire, hostVars>>

\* It fails: nothing is recorded, an ErrorFrame is the whole answer.
GenerateFails(t) ==
    /\ task[t] = "asked"
    /\ unsent' = [unsent EXCEPT ![t] = <<"error">>]
    /\ history' = [history EXCEPT ![t] = <<>>]
    /\ task' = [task EXCEPT ![t] = "sending"]
    /\ UNCHANGED <<session, sessions, content, planned, clears, recorded,
                   prompt, asking, wire, hostVars>>

Exchange(t) ==
    <<[role |-> "user", turn |-> t]>> \o
    IF content[t] THEN <<[role |-> "model", turn |-> t]>> ELSE <<>>

\* Question and answer are appended to the history as it is now, under one
\* lock, not to the one that was read.
RecordedOnRead(t) == history[t] \o Exchange(t)
Recorded(t) == sessions[session[t]] \o Exchange(t)

Record(t) ==
    /\ task[t] = "generated"
    /\ IF session[t] = NoSession
       THEN UNCHANGED <<sessions, recorded>>
       ELSE /\ sessions' = [sessions EXCEPT ![session[t]] = Recorded(t)]
            /\ recorded' = [recorded EXCEPT ![session[t]] = @ \cup {t}]
    /\ history' = [history EXCEPT ![t] = <<>>]
    /\ task' = [task EXCEPT ![t] = "sending"]
    /\ UNCHANGED <<session, content, planned, clears, unsent,
                   prompt, asking, wire, hostVars>>

\* The channel the task has cloned belongs to the stream that asked.
ReachesClient(t) == host[t] \notin Ended
Reaches(t) == asking[t]

\* The next frame goes out, or nowhere: the result of send is ignored.
SendFrame(t) ==
    /\ task[t] = "sending"
    /\ wire' = IF Reaches(t)
               THEN [wire EXCEPT ![t] = Append(@, Head(unsent[t]))] ELSE wire
    /\ unsent' = [unsent EXCEPT ![t] = Tail(@)]
    /\ task' = [task EXCEPT ![t] = IF Len(unsent[t]) = 1 THEN "done" ELSE @]
    /\ UNCHANGED <<session, engineVars, prompt, asking, hostVars>>

clear_session(s) ==
    /\ clears < MaxClears
    /\ sessions' = [sessions EXCEPT ![s] = <<>>]
    /\ recorded' = [recorded EXCEPT ![s] = {}]
    /\ clears' = clears + 1
    /\ UNCHANGED <<session, history, content, planned, task, unsent, prompt,
                   asking, wire, hostVars>>

-----------------------------------------------------------------------------
(* The front end.                                                          *)

\* It connects, and sends the prompt, in a session or without one ...
Ask(t, s) ==
    /\ host[t] = "idle"
    /\ session' = [session EXCEPT ![t] = s]
    /\ host' = [host EXCEPT ![t] = "opening"]
    /\ prompt' = [prompt EXCEPT ![t] = "queued"]
    /\ UNCHANGED <<engineVars, task, unsent, asking, wire, screen, handled>>

\* ... and only then opens the jail and the audit ledger.
Open(t) ==
    /\ host[t] = "opening"
    /\ host' = [host EXCEPT ![t] = "waiting"]
    /\ UNCHANGED <<session, engineVars, task, unsent, prompt, asking, wire,
                   screen, handled>>

\* The turn's function returns; its tunnel client and multiplexer are dropped.
Return(t, outcome) ==
    /\ host' = [host EXCEPT ![t] = outcome]
    /\ asking' = [asking EXCEPT ![t] = FALSE]
    /\ wire' = [wire EXCEPT ![t] = <<>>]
    /\ screen' = [screen EXCEPT ![t] = FALSE]
    /\ UNCHANGED <<session, engineVars, task, unsent, prompt, handled>>

OpenFails(t) == host[t] = "opening" /\ Return(t, "failed")

\* recv returns a frame f.
Receives(t, f) == host[t] = "waiting" /\ wire[t] # <<>> /\ Head(wire[t]) = f

Continue(t, next) ==
    /\ wire' = [wire EXCEPT ![t] = Tail(@)]
    /\ host' = [host EXCEPT ![t] = next]
    /\ UNCHANGED <<session, engineVars, task, unsent, prompt, asking>>

\* The UI reads the ledger's root once more, which may fail.
ReceiveFinal(t) ==
    /\ Receives(t, "final")
    /\ \E outcome \in {"answered", "failed"} : Return(t, outcome)
ReceiveError(t) == Receives(t, "error") /\ Return(t, "error")

\* Every command of a turn gets the same screen id.
StartCommand(t) ==
    /\ Receives(t, "exec") /\ ~screen[t]
    /\ screen' = [screen EXCEPT ![t] = TRUE]
    /\ UNCHANGED handled
    /\ Continue(t, "running")

\* ScreenAlreadyExists, or the command cannot be spawned.
StartFails(t) == Receives(t, "exec") /\ Return(t, "failed")

\* The command's output ends (or the receiver lags), and is recorded.
FinishCommand(t) ==
    /\ host[t] = "running"
    /\ host' = [host EXCEPT ![t] = "waiting"]
    /\ handled' = [handled EXCEPT ![t] = Append(@, "exec")]
    /\ UNCHANGED <<session, engineVars, task, unsent, prompt, asking, wire,
                   screen>>

\* The ledger refuses the record.
RecordFails(t) == host[t] = "running" /\ Return(t, "failed")

\* The patch is applied and recorded, or refused and reported.
ApplyPatch(t) ==
    /\ Receives(t, "patch")
    /\ handled' = [handled EXCEPT ![t] = Append(@, "patch")]
    /\ UNCHANGED screen
    /\ Continue(t, "waiting")

\* The jail refuses its path, or the ledger its record.
PatchFails(t) == Receives(t, "patch") /\ Return(t, "failed")

\* No frame for 12 seconds, the turn's deadline, or the tunnel has closed.
DeadlineOnly(t) == host[t] = "waiting" /\ wire[t] # <<>>
TimesOut(t) == host[t] = "waiting"

GiveUp(t) == TimesOut(t) /\ Return(t, "timeout")

-----------------------------------------------------------------------------
Answers(t) == BoundedSeq(Tools, MaxCalls[t])

TunnelNext(t) ==
    \/ PromptArrives(t) \/ PromptLost(t)
    \/ \E n \in 0..Len(wire[t]) : ConnectionLost(t, n)

TaskNext(t) ==
    \/ ReadHistory(t)
    \/ \E calls \in Answers(t), text \in BOOLEAN : Generated(t, calls, text)
    \/ GenerateFails(t) \/ Record(t) \/ SendFrame(t)

HostNext(t) ==
    \/ \E s \in Sessions \cup {NoSession} : Ask(t, s)
    \/ Open(t) \/ OpenFails(t)
    \/ ReceiveFinal(t) \/ ReceiveError(t)
    \/ StartCommand(t) \/ StartFails(t) \/ FinishCommand(t) \/ RecordFails(t)
    \/ ApplyPatch(t) \/ PatchFails(t) \/ GiveUp(t)

Next ==
    \/ \E t \in Turns : TunnelNext(t) \/ TaskNext(t) \/ HostNext(t)
    \/ \E s \in Sessions : clear_session(s)

\* The front end's own steps are taken and its timers fire; a command ends
\* (external: nothing bounds it).  Nothing is assumed of tunnel and gateway.
HostEnds(t) == Open(t) \/ FinishCommand(t) \/ GiveUp(t)

Spec == Init /\ [][Next]_vars /\ \A t \in Turns : WF_vars(HostEnds(t))

-----------------------------------------------------------------------------
\* Type invariant.
TypeOK ==
    /\ sessions \in [Sessions -> Seq(Messages)]
    /\ recorded \in [Sessions -> SUBSET Turns]
    /\ task \in [Turns -> {"none", "spawned", "asked", "generated", "sending",
                           "done"}]
    /\ history \in [Turns -> Seq(Messages)]
    /\ content \in [Turns -> BOOLEAN]
    /\ planned \in [Turns -> Seq(Frames)] /\ unsent \in [Turns -> Seq(Frames)]
    /\ prompt \in [Turns -> {"none", "queued", "arrived", "lost"}]
    /\ session \in [Turns -> Sessions \cup {NoSession}]
    /\ asking \in [Turns -> BOOLEAN]
    /\ wire \in [Turns -> Seq(Frames)]
    /\ host \in [Turns -> {"idle", "opening", "waiting", "running"} \cup Ended]
    /\ screen \in [Turns -> BOOLEAN]
    /\ handled \in [Turns -> Seq(Tools)]
    /\ clears \in Nat

\* Every question of a history is followed at once by its own answer.
Paired(h) ==
    \A i \in 1..Len(h) :
        IF h[i].role = "user"
        THEN content[h[i].turn] =>
               i < Len(h) /\ h[i + 1] = [role |-> "model", turn |-> h[i].turn]
        ELSE i > 1 /\ h[i - 1] = [role |-> "user", turn |-> h[i].turn]

\* Turns of one session that overlap do not mix or undo each other: a history,
\* kept or read, is made of whole exchanges, and a session has every exchange
\* recorded since it was cleared, once.
SessionsAreWhole ==
    /\ \A t \in Turns : Paired(history[t])
    /\ \A s \in Sessions :
         /\ Paired(sessions[s])
         /\ \A t \in recorded[s] :
              \E i \in 1..Len(sessions[s]) :
                 /\ sessions[s][i] = [role |-> "user", turn |-> t]
                 /\ \A j \in 1..Len(sessions[s]) :
                      sessions[s][j] = sessions[s][i] => j = i

\* A front end that reports the turn as answered has carried out all the tool
\* calls of the answer, in order: a lost connection may cost the end of an
\* answer, and then its final message too, but never its middle.
AnsweredIsCarriedOut ==
    \A t \in Turns :
        host[t] = "answered" => planned[t] = handled[t] \o <<"final">>

\* A turn always ends, whatever becomes of its prompt and of its answer.
TurnsEnd == \A t \in Turns : host[t] = "opening" ~> host[t] \in Ended
=============================================================================
