---------------------------- MODULE DaemonFrames -----------------------------
(***************************************************************************)
(* The daemon's side of the tunnel (service.rs and orchestrator.rs of      *)
(* crates/syntropy-daemon): every frame that arrives is handled in a task  *)
(* of its own, and the tasks share the ledger's mutex, the table of        *)
(* screens, the channel to the tunnel and the runtime's worker threads.    *)
(*                                                                         *)
(* A task that calls blocking code (the ledger, spawn_screen, terminate, a *)
(* write to a child) keeps its worker thread until the call returns; one   *)
(* that awaits the mutex or room in the channel gives it up.  The receive  *)
(* loop runs on the main thread.  It never ends: the daemon's tunnel has   *)
(* no limit of attempts and nobody shuts it down.                          *)
(*                                                                         *)
(* What the ledger records is AuditLedger.tla, what a patch does to its    *)
(* file PatchCommit.tla, the threads of a screen PtyScreen.tla.            *)
(***************************************************************************)
EXTENDS Naturals, Sequences, FiniteSets

CONSTANTS
    Ids,            \* session ids of screens; frames without a command_id
                    \* share one
    NoId,           \* the id of frames that are not about a screen
    Workers,        \* worker threads of the runtime
    TxCapacity,     \* room in client_tx (1024)
    MaxFrames       \* bound on the frames received

ASSUME DaemonAssumption ==
    /\ NoId \notin Ids
    /\ Workers \in Nat \ {0} /\ TxCapacity \in Nat \ {0} /\ MaxFrames \in Nat

VARIABLES
    frames,     \* the frames received, in order; a task has its frame's number
    task,       \* where it is
    ledger,     \* who has the ledger's mutex, or 0
    screens,    \* the table of screens: the command that has opened it, or 0
    found,      \* the screen a task has looked up
    process,    \* the child of a command; "waited" once the waiter thread has
                \* locked its handle, to wait for the exit
    stdin,      \* whether its stdin is open
    forwarder,  \* the forwarder of its output
    queued,     \* frames in client_tx
    answered,   \* history: frames whose answer was sent (of a command: is_eof)
    raced       \* history: commands whose spawn_screen overlapped another's of
                \* the same id

taskVars == <<task, ledger, found>>
screenVars == <<screens, process, stdin, forwarder, raced>>
txVars == <<queued, answered>>
daemonVars == <<frames, taskVars, screenVars, txVars>>

Slots == 1..MaxFrames
Audited == {"exec", "patch", "mcp"}
Inputs == {"write", "resize", "end"}
Orders == [kind : {"exec"} \cup Inputs, id : Ids] \cup
          [kind : {"patch", "mcp", "ask", "message"}, id : {NoId}]

Kind(n) == frames[n].kind
Id(n) == frames[n].id
Goto(n, place) == task' = [task EXCEPT ![n] = place]

DaemonInit ==
    /\ frames = <<>>
    /\ task = [n \in Slots |-> "none"]
    /\ ledger = 0
    /\ screens = [i \in Ids |-> 0]
    /\ found = [n \in Slots |-> 0]
    /\ process = [n \in Slots |-> "none"]
    /\ stdin = [n \in Slots |-> FALSE]
    /\ forwarder = [n \in Slots |-> "off"]
    /\ queued = 0 /\ answered = {} /\ raced = {}

\* Tasks inside blocking code.
Occupied == {n \in Slots : task[n] \in {"append", "free", "started", "found",
                                        "writing", "ending"}}
Free == Cardinality(Occupied) < Workers
Room == queued < TxCapacity

-----------------------------------------------------------------------------
(* run and handle_frame.                                                   *)

\* Commands, patches and MCP calls go to the ledger first; input looks its
\* screen up; heartbeats and approval requests ("ask") are answered at once;
\* the agent's messages are logged.
handle_frame(kind) ==
    CASE kind \in Audited -> "lock"
      [] kind \in Inputs -> "find"
      [] kind = "ask" -> "answer"
      [] kind = "message" -> "done"

Receive(f) ==
    /\ Len(frames) < MaxFrames
    /\ frames' = Append(frames, f)
    /\ Goto(Len(frames'), handle_frame(f.kind))
    /\ UNCHANGED <<ledger, found, screenVars, txVars>>

\* The tunnel's worker takes a frame, connected or to keep it (external).
Drain ==
    /\ queued > 0 /\ Free
    /\ queued' = queued - 1
    /\ UNCHANGED <<frames, taskVars, screenVars, answered>>

\* client_tx.send(answer), the last thing a task does.
Send(n) ==
    /\ Room
    /\ queued' = queued + 1
    /\ answered' = answered \cup {n}
    /\ Goto(n, "done")

Answer(n) ==
    /\ task[n] = "answer" /\ Free
    /\ Send(n)
    /\ UNCHANGED <<frames, ledger, found, screenVars>>

-----------------------------------------------------------------------------
(* The handlers of commands, patches and MCP calls.                        *)

Lock(n) ==
    /\ task[n] = "lock" /\ ledger = 0 /\ Free
    /\ ledger' = n
    /\ Goto(n, "append")
    /\ UNCHANGED <<frames, found, screenVars, txVars>>

Appended(n) ==
    /\ task[n] = "append"
    /\ ledger' = 0
    /\ Goto(n, "audited")
    /\ UNCHANGED <<frames, found, screenVars, txVars>>

AppendFails(n) ==
    /\ task[n] = "append"
    /\ Goto(n, "denied")
    /\ UNCHANGED <<frames, ledger, found, screenVars, txVars>>

\* The failure is reported before the guard of the mutex is dropped.
DenySilently(n) ==
    /\ task[n] = "denied" /\ Free
    /\ ledger' = 0
    /\ Goto(n, "done")
    /\ UNCHANGED <<frames, found, screenVars, txVars>>
Deny(n) ==
    /\ task[n] = "denied" /\ Free
    /\ ledger' = 0
    /\ Send(n)
    /\ UNCHANGED <<frames, found, screenVars>>

\* The jail refuses the directory or the path, the allowlist the tool.
Refuse(n) ==
    /\ task[n] = "audited" /\ Free
    /\ Goto(n, "answer")
    /\ UNCHANGED <<frames, ledger, found, screenVars, txVars>>

\* A patch is applied, or fails; an MCP call is acknowledged and no more.
handle_apply_patch(n) ==
    /\ task[n] = "audited" /\ Kind(n) = "patch" /\ Free
    /\ Goto(n, "answer")
    /\ UNCHANGED <<frames, ledger, found, screenVars, txVars>>

handle_mcp_request(n) ==
    /\ task[n] = "audited" /\ Kind(n) = "mcp" /\ Free
    /\ Goto(n, "answer")
    /\ UNCHANGED <<frames, ledger, found, screenVars, txVars>>

-----------------------------------------------------------------------------
(* spawn_screen.                                                           *)

Spawning(i) ==
    {m \in Slots : task[m] \in {"free", "started"} /\ Id(m) = i}

\* The id is looked up under the read lock ...
IdTakenUnchecked(n) == FALSE
IdTaken(n) == screens[Id(n)] # 0

CheckId(n) ==
    /\ task[n] = "audited" /\ Kind(n) = "exec" /\ Free
    /\ \/ IdTaken(n) /\ Goto(n, "answer") /\ UNCHANGED raced
       \/ /\ ~IdTaken(n) /\ Goto(n, "free")
          /\ raced' = raced \cup
               IF Spawning(Id(n)) = {} THEN {} ELSE {n} \cup Spawning(Id(n))
    /\ UNCHANGED <<frames, ledger, found, screens, process, stdin, forwarder, txVars>>

\* ... the child is started without a lock ...
StartProcess(n) ==
    /\ task[n] = "free"
    /\ process' = [process EXCEPT ![n] = "running"]
    /\ stdin' = [stdin EXCEPT ![n] = TRUE]
    /\ Goto(n, "started")
    /\ UNCHANGED <<frames, ledger, found, screens, forwarder, raced, txVars>>

\* ... or not, or its terminal has no writer or reader and it is let go ...
ProcessFails(n) ==
    /\ task[n] = "free"
    /\ \E left \in {"none", "running"} : process' = [process EXCEPT ![n] = left]
    /\ Goto(n, "answer")
    /\ UNCHANGED <<frames, ledger, found, screens, stdin, forwarder, raced, txVars>>

\* ... and the screen is stored under the write lock, over one that has come
\* in between.  Its threads and the forwarder begin.
Insert(n) ==
    /\ task[n] = "started"
    /\ screens' = [screens EXCEPT ![Id(n)] = n]
    /\ forwarder' = [forwarder EXCEPT ![n] = "on"]
    /\ Goto(n, "done")
    /\ UNCHANGED <<frames, ledger, found, process, stdin, raced, txVars>>

\* A thread cannot be started: an error, with the screen in the table.
InsertFails(n) ==
    /\ task[n] = "started"
    /\ screens' = [screens EXCEPT ![Id(n)] = n]
    /\ Goto(n, "answer")
    /\ UNCHANGED <<frames, ledger, found, process, stdin, forwarder, raced, txVars>>

\* The screen of n has been stored, and nobody has ended it.
Opened(n) == stdin[n] /\ task[n] # "started"

\* The waiter thread locks the handle and waits.
WaiterWaits(n) ==
    /\ process[n] = "running" /\ Opened(n)
    /\ process' = [process EXCEPT ![n] = "waited"]
    /\ UNCHANGED <<frames, taskVars, screens, stdin, forwarder, raced, txVars>>

ProcessExits(n) ==
    /\ process[n] \in {"running", "waited"}
    /\ process' = [process EXCEPT ![n] = "exited"]
    /\ UNCHANGED <<frames, taskVars, screens, stdin, forwarder, raced, txVars>>

-----------------------------------------------------------------------------
(* The forwarder of a screen's output.                                     *)

\* What is left once the child has exited is bounded, and left out.
ForwardOutput(n) ==
    /\ forwarder[n] = "on" /\ process[n] # "exited" /\ Room /\ Free
    /\ queued' = queued + 1
    /\ UNCHANGED <<frames, taskVars, screenVars, answered>>

ForwardEnd(n) ==
    /\ forwarder[n] = "on" /\ process[n] = "exited" /\ Room /\ Free
    /\ queued' = queued + 1
    /\ answered' = answered \cup {n}
    /\ forwarder' = [forwarder EXCEPT ![n] = "done"]
    /\ UNCHANGED <<frames, taskVars, screens, process, stdin, raced>>

\* recv fails when 1024 chunks were missed, and the forwarder ends.
Lag(n) ==
    /\ forwarder[n] = "on" /\ Free
    /\ forwarder' = [forwarder EXCEPT ![n] = "lagged"]
    /\ UNCHANGED <<frames, taskVars, screens, process, stdin, raced, txVars>>

-----------------------------------------------------------------------------
(* handle_terminal_input.  Its errors are ignored.                         *)

Find(n) ==
    /\ task[n] = "find" /\ Free
    /\ found' = [found EXCEPT ![n] = screens[Id(n)]]
    /\ Goto(n, IF screens[Id(n)] = 0 THEN "done" ELSE "found")
    /\ UNCHANGED <<frames, ledger, screenVars, txVars>>

Writing(m) == {n \in Slots : task[n] = "writing" /\ found[n] = m}

\* write_all, under the mutex of the screen's writer ...
write_input(n) ==
    /\ task[n] = "found" /\ Kind(n) = "write" /\ Writing(found[n]) = {}
    /\ Goto(n, IF stdin[found[n]] THEN "writing" ELSE "done")
    /\ UNCHANGED <<frames, ledger, found, screenVars, txVars>>

\* ... returns when the child has read enough or is gone.
Written(n) ==
    /\ task[n] = "writing"
    /\ Goto(n, "done")
    /\ UNCHANGED <<frames, ledger, found, screenVars, txVars>>

resize(n) ==
    /\ task[n] = "found" /\ Kind(n) = "resize"
    /\ Goto(n, "done")
    /\ UNCHANGED <<frames, ledger, found, screenVars, txVars>>

\* The writer is closed.  The child is killed if its handle can be had, ...
terminate(n) ==
    /\ task[n] = "found" /\ Kind(n) = "end" /\ Writing(found[n]) = {}
    /\ stdin' = [stdin EXCEPT ![found[n]] = FALSE]
    /\ IF process[found[n]] = "waited"
       THEN Goto(n, "ending") /\ UNCHANGED process
       ELSE Goto(n, "done") /\ process' = [process EXCEPT ![found[n]] = "exited"]
    /\ UNCHANGED <<frames, ledger, found, screens, forwarder, raced, txVars>>

\* ... and while the waiter has it, terminate waits for the child's own exit.
Terminated(n) ==
    /\ task[n] = "ending" /\ process[found[n]] = "exited"
    /\ Goto(n, "done")
    /\ UNCHANGED <<frames, ledger, found, screenVars, txVars>>

-----------------------------------------------------------------------------
TaskNext(n) ==
    \/ Lock(n) \/ Appended(n) \/ AppendFails(n) \/ Deny(n) \/ Refuse(n)
    \/ handle_apply_patch(n) \/ handle_mcp_request(n) \/ Answer(n)
    \/ CheckId(n) \/ StartProcess(n) \/ ProcessFails(n) \/ Insert(n) \/ InsertFails(n)
    \/ Find(n) \/ write_input(n) \/ resize(n) \/ terminate(n) \/ Terminated(n)

ScreenNext(n) ==
    \/ WaiterWaits(n) \/ ProcessExits(n)
    \/ ForwardOutput(n) \/ ForwardEnd(n) \/ Lag(n)

DaemonNext ==
    \/ \E f \in Orders : Receive(f)
    \/ Drain
    \/ \E n \in Slots : TaskNext(n) \/ Written(n) \/ ScreenNext(n)

\* A write to a child that is gone fails.
WriteFails(n) == Written(n) /\ process[found[n]] = "exited"

\* Tasks are scheduled and the tunnel takes what is sent.  Children end: nothing
\* in the daemon bounds them.
DaemonFairness ==
    /\ WF_daemonVars(Drain)
    /\ \A n \in Slots :
         /\ WF_daemonVars(TaskNext(n)) /\ WF_daemonVars(WriteFails(n))
         /\ WF_daemonVars(ProcessExits(n)) /\ WF_daemonVars(ForwardEnd(n))

DaemonSpec == DaemonInit /\ [][DaemonNext]_daemonVars /\ DaemonFairness

-----------------------------------------------------------------------------
\* Type invariant.
DaemonTypeOK ==
    /\ frames \in Seq(Orders) /\ Len(frames) <= MaxFrames
    /\ task \in [Slots -> {"none", "lock", "append", "denied", "audited", "free",
                           "started", "answer", "find", "found", "writing",
                           "ending", "done"}]
    /\ ledger \in 0..MaxFrames
    /\ screens \in [Ids -> 0..MaxFrames]
    /\ found \in [Slots -> 0..MaxFrames]
    /\ process \in [Slots -> {"none", "running", "waited", "exited"}]
    /\ stdin \in [Slots -> BOOLEAN]
    /\ forwarder \in [Slots -> {"off", "on", "done", "lagged"}]
    /\ queued \in 0..TxCapacity
    /\ answered \in SUBSET Slots /\ raced \in SUBSET Slots

\* Between the look at the table and the insertion another command of the same
\* id may come (spawn_screen).  Only then can a screen be replaced in the table
\* while its child runs, where no frame can write to it or end it any more.
OrphanOnlyByOverlap ==
    \A n \in Slots :
        Opened(n) /\ process[n] # "exited" =>
            screens[Id(n)] = n \/ n \in raced

\* Every frame that asks for an answer gets one, and every other frame is
\* dealt with, although answers are sent with the ledger's mutex held
\* (handle_exec_command), the channel may be full and calls of terminate and
\* write_input keep worker threads from everybody else.  The one exception is a
\* command whose forwarder has missed output.
FramesAreAnswered ==
    \A n \in Slots :
        task[n] # "none" ~>
            \/ n \in answered \/ forwarder[n] = "lagged"
            \/ /\ task[n] = "done"
               /\ Kind(n) \notin Audited \cup {"ask"}
=============================================================================
