------------------------------ MODULE McpProxy ------------------------------
(***************************************************************************)
(* The MCP bridge of crates/syntropy-mcp: calls pass the allowlist, the    *)
(* circuit breaker and the timeout of McpProxy (proxy.rs) and reach a      *)
(* child process through McpSupervisor (supervisor.rs), whose run_loop     *)
(* restarts the child, whose reader and writer tasks serve its pipes and   *)
(* whose stop() may come at any time.                                      *)
(*                                                                         *)
(* A call is a JSON-RPC request with an id its caller has chosen: two      *)
(* calls may have the same.  Children are numbered; 0 is no child.         *)
(***************************************************************************)
EXTENDS Integers, FiniteSets

CONSTANTS
    Calls,
    Ids,                    \* JSON-RPC ids
    Id,                     \* the id of a call
    NoCall,
    auto_restart,
    max_restart_attempts,
    failure_threshold,
    StdinCapacity           \* the channel to the stdin writer (128 in the code)

ASSUME CallsAssumption == Id \in [Calls -> Ids] /\ NoCall \notin Calls
ASSUME LimitsAssumption ==
    /\ auto_restart \in BOOLEAN
    /\ max_restart_attempts \in Nat
    /\ failure_threshold \in Nat \ {0}
    /\ StdinCapacity \in Nat \ {0}

VARIABLES
    loop,                   \* where run_loop is
    gen,                    \* children spawned so far; the last is the current
    child,                  \* it runs, or has exited
    is_alive, restart_count, shutdown_requested,
    stdin_tx,               \* the child whose stdin channel is installed, or 0
    tasks,                  \* stdin writer and stdout reader that are running
    stdinQ,                 \* calls in the current child's stdin channel
    inbox,                  \* calls the child has read
    replies,                \* calls whose replies are in its stdout
    stopper,                \* where stop() is
    pending,                \* the map: the call whose sender is stored for an id
    call,                   \* where a call is, or how it ended
    held,                   \* the child whose stdin channel a call has cloned
    box,                    \* what the call's oneshot channel holds
    state, consecutive_failures,
    opened_at,              \* it is Some
    cooled                  \* reset_timeout has elapsed since

childVars == <<gen, child>>
flagVars == <<is_alive, restart_count, shutdown_requested>>
pipeVars == <<tasks, stdinQ, inbox, replies>>
callVars == <<pending, call, held, box>>
breakerVars == <<state, consecutive_failures, opened_at, cooled>>
vars == <<loop, childVars, flagVars, stdin_tx, pipeVars, stopper, callVars,
          breakerVars>>

Init ==
    /\ loop = "spawn" /\ gen = 0 /\ child = "none"
    /\ is_alive = FALSE /\ restart_count = 0 /\ shutdown_requested = FALSE
    /\ stdin_tx = 0 /\ tasks = {}
    /\ stdinQ = {} /\ inbox = {} /\ replies = {}
    /\ stopper = "none"
    /\ pending = [i \in Ids |-> NoCall]
    /\ call = [c \in Calls |-> "idle"]
    /\ held = [c \in Calls |-> 0]
    /\ box = [c \in Calls |-> "empty"]
    /\ state = "Closed" /\ consecutive_failures = 0
    /\ opened_at = FALSE /\ cooled = FALSE

-----------------------------------------------------------------------------
(* run_loop.                                                               *)

Spawn ==
    /\ loop = "spawn" /\ ~shutdown_requested
    /\ gen' = gen + 1 /\ child' = "running"
    /\ loop' = "install"
    /\ UNCHANGED <<flagVars, stdin_tx, pipeVars, stopper, callVars, breakerVars>>

\* Shut down before the child was started, or it cannot be started.
LoopEnds ==
    /\ loop = "spawn"
    /\ loop' = "ended"
    /\ UNCHANGED <<childVars, flagVars, stdin_tx, pipeVars, stopper, callVars,
                   breakerVars>>

Install ==
    /\ loop = "install"
    /\ stdin_tx' = gen
    /\ loop' = "announce"
    /\ UNCHANGED <<childVars, flagVars, pipeVars, stopper, callVars, breakerVars>>

\* is_alive is set whatever has been requested since the loop looked.
Announce ==
    /\ loop = "announce"
    /\ is_alive' = TRUE
    /\ tasks' = {"writer", "reader"}
    /\ loop' = "wait"
    /\ UNCHANGED <<childVars, restart_count, shutdown_requested, stdin_tx, stdinQ,
                   inbox, replies, stopper, callVars, breakerVars>>

\* child.wait()
WaitReturns ==
    /\ loop = "wait" /\ child = "exited"
    /\ is_alive' = FALSE
    /\ loop' = "down"
    /\ UNCHANGED <<childVars, restart_count, shutdown_requested, stdin_tx,
                   pipeVars, stopper, callVars, breakerVars>>

RestartsLeftOneMore(n) == auto_restart /\ n <= max_restart_attempts + 1
RestartsLeft(n) == auto_restart /\ n <= max_restart_attempts

\* The stdin channel is closed and the tasks are aborted, the reader too when
\* it has not come to the end of stdout; then a restart is due, or not.
TearDown ==
    /\ loop = "down"
    /\ stdin_tx' = 0
    /\ tasks' = {} /\ stdinQ' = {} /\ inbox' = {} /\ replies' = {}
    /\ LET counts == ~shutdown_requested /\ auto_restart
       IN  /\ restart_count' = IF counts THEN restart_count + 1
                               ELSE restart_count
           /\ loop' = IF counts /\ RestartsLeft(restart_count + 1)
                      THEN "backoff" ELSE "ended"
    /\ UNCHANGED <<childVars, is_alive, shutdown_requested, stopper, callVars,
                   breakerVars>>

Backoff ==
    /\ loop = "backoff"
    /\ loop' = "spawn"
    /\ UNCHANGED <<childVars, flagVars, stdin_tx, pipeVars, stopper, callVars,
                   breakerVars>>

-----------------------------------------------------------------------------
(* The child (external) and the tasks on its pipes.                        *)

ChildExits ==
    /\ child = "running"
    /\ child' = "exited"
    /\ inbox' = {}
    /\ UNCHANGED <<loop, gen, flagVars, stdin_tx, tasks, stdinQ, replies, stopper,
                   callVars, breakerVars>>

ChildAnswers(c) ==
    /\ child = "running" /\ c \in inbox
    /\ inbox' = inbox \ {c}
    /\ replies' = replies \cup {c}
    /\ UNCHANGED <<loop, childVars, flagVars, stdin_tx, tasks, stdinQ, stopper,
                   callVars, breakerVars>>

WriteLine(c) ==
    /\ "writer" \in tasks /\ c \in stdinQ
    /\ child = "running"
    /\ stdinQ' = stdinQ \ {c}
    /\ inbox' = inbox \cup {c}
    /\ UNCHANGED <<loop, childVars, flagVars, stdin_tx, tasks, replies, stopper,
                   callVars, breakerVars>>

\* The pipe is broken: the writer ends and drops its channel.
WriteFails ==
    /\ "writer" \in tasks /\ stdinQ # {}
    /\ child = "exited"
    /\ tasks' = tasks \ {"writer"}
    /\ stdinQ' = {}
    /\ UNCHANGED <<loop, childVars, flagVars, stdin_tx, inbox, replies, stopper,
                   callVars, breakerVars>>

\* The sender that is stored for an id is removed and used, or dropped.
Resolved(i, value) ==
    IF pending[i] = NoCall THEN box ELSE [box EXCEPT ![pending[i]] = value]

\* A reply goes to whoever is stored for its id.
ReadLine(c) ==
    /\ "reader" \in tasks /\ c \in replies
    /\ replies' = replies \ {c}
    /\ pending' = [pending EXCEPT ![Id[c]] = NoCall]
    /\ box' = Resolved(Id[c], "reply")
    /\ UNCHANGED <<loop, childVars, flagVars, stdin_tx, tasks, stdinQ, inbox,
                   stopper, call, held, breakerVars>>

\* pending.drain()
Drain ==
    /\ pending' = [i \in Ids |-> NoCall]
    /\ box' = [c \in Calls |-> IF pending[Id[c]] = c THEN "error" ELSE box[c]]
    /\ UNCHANGED <<call, held>>

EndOfStdout ==
    /\ "reader" \in tasks /\ replies = {}
    /\ child = "exited"
    /\ tasks' = tasks \ {"reader"}
    /\ Drain
    /\ UNCHANGED <<loop, childVars, flagVars, stdin_tx, stdinQ, inbox, replies,
                   stopper, breakerVars>>

-----------------------------------------------------------------------------
(* stop().  There is a supervisor to stop, and to call, once start() has   *)
(* returned, which it does as soon as the first child is there.            *)

StopFlags ==
    /\ stopper = "none" /\ gen > 0
    /\ shutdown_requested' = TRUE /\ is_alive' = FALSE
    /\ stopper' = "flagged"
    /\ UNCHANGED <<loop, childVars, restart_count, stdin_tx, pipeVars, callVars,
                   breakerVars>>

StopCloses ==
    /\ stopper = "flagged"
    /\ stdin_tx' = 0
    /\ stopper' = "closed"
    /\ UNCHANGED <<loop, childVars, flagVars, pipeVars, callVars, breakerVars>>

StopDrains ==
    /\ stopper = "closed"
    /\ Drain
    /\ stopper' = "stopped"
    /\ UNCHANGED <<loop, childVars, flagVars, stdin_tx, pipeVars, breakerVars>>

-----------------------------------------------------------------------------
(* The circuit breaker.                                                    *)

SuccessKeepsCount ==
    /\ state' = "Closed" /\ UNCHANGED consecutive_failures
    /\ opened_at' = FALSE /\ cooled' = FALSE
record_success ==
    /\ state' = "Closed" /\ consecutive_failures' = 0
    /\ opened_at' = FALSE /\ cooled' = FALSE

record_failure ==
    /\ consecutive_failures' = consecutive_failures + 1
    /\ \/ /\ state = "HalfOpen" \/ consecutive_failures' >= failure_threshold
          /\ state' = "Open" /\ opened_at' = TRUE /\ cooled' = FALSE
       \/ /\ state # "HalfOpen" /\ consecutive_failures' < failure_threshold
          /\ UNCHANGED <<state, opened_at, cooled>>

\* Time passes (external).
Cool ==
    /\ opened_at /\ ~cooled
    /\ cooled' = TRUE
    /\ UNCHANGED <<loop, childVars, flagVars, stdin_tx, pipeVars, stopper,
                   callVars, state, consecutive_failures, opened_at>>

-----------------------------------------------------------------------------
(* A call: forward_request around send_request.                            *)

Goes(c, where) == call' = [call EXCEPT ![c] = where]

\* The allowlist forbids the tool, or the circuit is open.
Refuse(c) ==
    /\ call[c] = "idle" /\ gen > 0
    /\ Goes(c, "refused")
    /\ UNCHANGED <<loop, childVars, flagVars, stdin_tx, pipeVars, stopper,
                   pending, held, box, breakerVars>>

\* can_execute
Admit(c) ==
    /\ call[c] = "idle" /\ gen > 0
    /\ state = "Open" => opened_at /\ cooled
    /\ state' = IF state = "Open" THEN "HalfOpen" ELSE state
    /\ Goes(c, "admitted")
    /\ UNCHANGED <<loop, childVars, flagVars, stdin_tx, pipeVars, stopper,
                   pending, held, box, consecutive_failures, opened_at, cooled>>

\* shutdown_requested and is_alive are looked at ...
Check(c) ==
    /\ call[c] = "admitted"
    /\ \/ /\ ~shutdown_requested /\ is_alive
          /\ Goes(c, "checked")
          /\ UNCHANGED breakerVars
       \/ /\ shutdown_requested \/ ~is_alive
          /\ Goes(c, "error")
          /\ record_failure
    /\ UNCHANGED <<loop, childVars, flagVars, stdin_tx, pipeVars, stopper,
                   pending, held, box>>

InsertSilently(c) ==
    /\ call[c] = "checked"
    /\ pending' = [pending EXCEPT ![Id[c]] = c]
    /\ Goes(c, "inserted")
    /\ UNCHANGED <<loop, childVars, flagVars, stdin_tx, pipeVars, stopper, held,
                   box, breakerVars>>

\* ... the sender is stored, and the one that was stored for the id dropped ...
Insert(c) ==
    /\ call[c] = "checked"
    /\ pending' = [pending EXCEPT ![Id[c]] = c]
    /\ box' = Resolved(Id[c], "closed")
    /\ Goes(c, "inserted")
    /\ UNCHANGED <<loop, childVars, flagVars, stdin_tx, pipeVars, stopper, held,
                   breakerVars>>

\* A call that cannot be sent takes back what is stored for its id and fails.
LeaveEntry(c) == UNCHANGED <<pending, box>>
TakeBack(c) ==
    /\ pending' = [pending EXCEPT ![Id[c]] = NoCall]
    /\ box' = Resolved(Id[c], "closed")

\* ... the stdin channel is cloned ...
CloneStdin(c) ==
    /\ call[c] = "inserted"
    /\ \/ /\ stdin_tx # 0
          /\ held' = [held EXCEPT ![c] = stdin_tx]
          /\ Goes(c, "sending")
          /\ UNCHANGED <<pending, box, breakerVars>>
       \/ /\ stdin_tx = 0
          /\ TakeBack(c)
          /\ Goes(c, "error")
          /\ record_failure
          /\ UNCHANGED held
    /\ UNCHANGED <<loop, childVars, flagVars, stdin_tx, pipeVars, stopper>>

\* Somebody will read what is put into the channel that was cloned.  Between
\* its installation and the start of the writer it only waits there.
StdinOpen(c) ==
    held[c] = gen /\ ("writer" \in tasks \/ loop = "announce")

StdinRoom == Cardinality(stdinQ) < StdinCapacity

\* ... and the request is put into it, once there is room, ...
SendLine(c) ==
    /\ call[c] = "sending"
    /\ \/ /\ StdinOpen(c) /\ StdinRoom
          /\ stdinQ' = stdinQ \cup {c}
          /\ Goes(c, "waiting")
          /\ UNCHANGED <<pending, box, breakerVars>>
       \/ /\ ~StdinOpen(c)
          /\ TakeBack(c)
          /\ Goes(c, "error")
          /\ record_failure
          /\ UNCHANGED stdinQ
    /\ UNCHANGED <<loop, childVars, flagVars, stdin_tx, tasks, inbox, replies,
                   stopper, held>>

\* ... the answer comes, or the sender is dropped, ...
Return(c) ==
    /\ call[c] = "waiting" /\ box[c] # "empty"
    /\ \/ box[c] = "reply" /\ record_success /\ Goes(c, "ok")
       \/ box[c] # "reply" /\ record_failure /\ Goes(c, "error")
    /\ UNCHANGED <<loop, childVars, flagVars, stdin_tx, pipeVars, stopper,
                   pending, held, box>>

\* ... unless the timeout comes first: send_request is dropped where it waits,
\* and what it stored stays stored.
NoTimeout(c) == FALSE /\ UNCHANGED vars
Timeout(c) ==
    /\ call[c] \in {"inserted", "sending", "waiting"}
    /\ call[c] = "waiting" => box[c] = "empty"
    /\ Goes(c, "timeout")
    /\ record_failure
    /\ UNCHANGED <<loop, childVars, flagVars, stdin_tx, pipeVars, stopper,
                   pending, held, box>>

-----------------------------------------------------------------------------
LoopNext ==
    \/ Spawn \/ LoopEnds \/ Install \/ Announce \/ WaitReturns \/ TearDown
    \/ Backoff \/ ChildExits \/ WriteFails \/ EndOfStdout

StopNext == StopFlags \/ StopCloses \/ StopDrains

CallNext(c) ==
    \/ Refuse(c) \/ Admit(c) \/ Check(c) \/ Insert(c) \/ CloneStdin(c)
    \/ SendLine(c) \/ Return(c) \/ Timeout(c)
    \/ WriteLine(c) \/ ChildAnswers(c) \/ ReadLine(c)

Next == LoopNext \/ StopNext \/ Cool \/ \E c \in Calls : CallNext(c)

Spec == Init /\ [][Next]_vars

(***************************************************************************)
(* Fairness.  The runtime polls what can go on and the timer of a call     *)
(* fires.  Nothing makes the child read, answer or exit, and nobody has to *)
(* stop the supervisor.                                                    *)
(***************************************************************************)
Fairness ==
    /\ WF_vars(Spawn \/ LoopEnds \/ Install \/ Announce \/ WaitReturns
               \/ TearDown \/ Backoff)
    /\ \A c \in Calls :
         /\ WF_vars(Check(c) \/ Insert(c) \/ CloneStdin(c) \/ Return(c))
         /\ WF_vars(Timeout(c))

FairSpec == Spec /\ Fairness

-----------------------------------------------------------------------------
(* What the bridge promises.                                               *)

InFlight == {"admitted", "checked", "inserted", "sending", "waiting"}
LoopStates == {"spawn", "install", "announce", "wait", "down", "backoff", "ended"}

\* Type invariant; the stdin channel does not overflow.
TypeOK ==
    /\ loop \in LoopStates
    /\ gen \in Nat /\ child \in {"none", "running", "exited"}
    /\ is_alive \in BOOLEAN /\ shutdown_requested \in BOOLEAN
    /\ restart_count \in Nat
    /\ stdin_tx \in 0..gen
    /\ tasks \subseteq {"writer", "reader"}
    /\ stdinQ \subseteq Calls /\ Cardinality(stdinQ) <= StdinCapacity
    /\ inbox \subseteq Calls /\ replies \subseteq Calls
    /\ stopper \in {"none", "flagged", "closed", "stopped"}
    /\ pending \in [Ids -> Calls \cup {NoCall}]
    /\ call \in [Calls -> InFlight \cup {"idle", "refused", "ok", "error",
                                         "timeout"}]
    /\ held \in [Calls -> Nat]
    /\ box \in [Calls -> {"empty", "reply", "error", "closed"}]
    /\ state \in {"Closed", "Open", "HalfOpen"}
    /\ consecutive_failures \in Nat
    /\ opened_at \in BOOLEAN /\ cooled \in BOOLEAN

\* No caller is forgotten: one that waits for its answer has its sender in the
\* map, under its id, or has been answered.  So it is for every order in which
\* calls with the same id replace, take back or receive each other's entries,
\* children die and stop() drains the map.
NoOrphanCaller ==
    \A c \in Calls :
        call[c] \in {"inserted", "sending", "waiting"} /\ box[c] = "empty"
            => pending[Id[c]] = c

\* No call leaves an entry behind in the map, except when it times out.
EntriesAreOwed ==
    \A i \in Ids :
        pending[i] # NoCall =>
            /\ Id[pending[i]] = i
            /\ call[pending[i]] \in {"inserted", "sending", "waiting", "timeout"}

\* The breaker is coherent however the answers and timeouts of concurrent calls
\* interleave: closed below the threshold, and never open without the instant
\* from which it can be tried again (it would refuse every call for good).
BreakerCoherent ==
    /\ state = "Closed" =>
         consecutive_failures < failure_threshold /\ ~opened_at
    /\ state # "Closed" => consecutive_failures > 0 /\ opened_at

\* Children are started at most once more than max_restart_attempts, and every
\* one that is replaced has been counted.
RestartsBounded ==
    /\ gen <= max_restart_attempts + 1
    /\ restart_count \in (gen - 1)..gen \/ gen = 0

\* Every call of the proxy comes back, even when the reader was aborted before
\* it could drain the map and nobody is left to answer: the timeout ends it.
CallsReturn == \A c \in Calls : call[c] \in InFlight ~> call[c] \notin InFlight

\* "supervisor.stop().await.unwrap(); assert!(!supervisor.is_alive());" (test
\* of supervisor.rs; "Stop the supervisor and terminate the child process"):
\* after stop() the supervisor is not alive.  Not kept by the code, and in no
\* run: a child that is being started is announced after stop() has returned.
StoppedIsNotAlive == stopper = "stopped" => ~is_alive

=============================================================================
