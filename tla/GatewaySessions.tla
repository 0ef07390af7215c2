-------------------------- MODULE GatewaySessions --------------------------
(***************************************************************************)
(* The cloud gateway of services/gateway: one task per open tunnel         *)
(* (`open_tunnel` in service.rs), the SessionRegistry they share           *)
(* (session.rs) and the callers that route frames through it.              *)
(*                                                                         *)
(* The registry is a map behind a tokio RwLock.  The lock serves its       *)
(* waiters in the order they came; a writer holds it only within one step, *)
(* a reader holds it while it waits for room in an agent's channel.        *)
(***************************************************************************)
EXTENDS Integers, Sequences, FiniteSets

CONSTANTS
    Sessions,       \* open_tunnel calls
    Routers,        \* callers of send_to_agent and broadcast
    Agents,         \* agent ids
    NoAgent,        \* no id yet: current_agent_id = None, or an empty id
    NoSession,      \* no entry in the map
    OutCapacity,    \* the out channel of a session (512 in the code)
    ForwardEvents,  \* client_frame_tx is Some (server.rs) or None (main.rs)
    EventCapacity,  \* client_frame_tx (256 in the code)
    MaxTurns        \* bound: prompts of a session in work at a time

ASSUME SessionsAssumption == NoSession \notin Sessions /\ NoAgent \notin Agents
ASSUME RoutersAssumption == Sessions \cap Routers = {}
ASSUME CapacitiesAssumption ==
    /\ OutCapacity \in Nat \ {0} /\ EventCapacity \in Nat \ {0}
    /\ MaxTurns \in Nat /\ ForwardEvents \in BOOLEAN

VARIABLES
    task,       \* where the task of a session is
    agent,      \* its current_agent_id
    frame,      \* kind of the client frame it works on
    client,     \* the client at the other end: "none", "open" or "gone"
    outQ,       \* frames in its out channel
    turns,      \* spawned turn tasks that still hold its out_tx
    eventQ,     \* frames in client_frame_tx
    registry,   \* the map: the session whose sender is stored for an agent
    waitq,      \* who waits for the lock, first come first served
    readers,    \* routers that hold the lock
    want,       \* agents a router asks for
    todo,       \* sessions a router that holds the lock still has to serve
    at          \* the session it is sending to, or NoSession

taskVars == <<task, agent, frame>>
outVars  == <<client, outQ>>
lockVars == <<waitq, readers, want, todo, at>>
vars == <<taskVars, outVars, turns, eventQ, registry, lockVars>>

Kinds == {"heartbeat", "prompt", "other"}
KindsNow(s) == IF turns[s] < MaxTurns THEN Kinds ELSE Kinds \ {"prompt"}
Ids == Agents \cup {NoAgent}

Init ==
    /\ task = [s \in Sessions |-> "none"]
    /\ agent = [s \in Sessions |-> NoAgent]
    /\ frame = [s \in Sessions |-> "none"]
    /\ client = [s \in Sessions |-> "none"]
    /\ outQ = [s \in Sessions |-> 0]
    /\ turns = [s \in Sessions |-> 0]
    /\ eventQ = 0
    /\ registry = [a \in Agents |-> NoSession]
    /\ waitq = <<>> /\ readers = {}
    /\ want = [r \in Routers |-> {}]
    /\ todo = [r \in Routers |-> {}]
    /\ at = [r \in Routers |-> NoSession]

-----------------------------------------------------------------------------
(* Channels and the lock.                                                  *)

Waits(x) == \E i \in DOMAIN waitq : waitq[i] = x

\* x is the next to get the lock.
Turn(x) == waitq # <<>> /\ Head(waitq) = x

\* The write guard needs the lock for itself.
WriteGuard(s) == Turn(s) /\ readers = {}

PushToOpenOnly(s) ==
    /\ client[s] = "open" /\ outQ[s] < OutCapacity
    /\ outQ' = [outQ EXCEPT ![s] = @ + 1]

\* out_tx.send(..).await on a session: waits for room, fails once the client
\* is gone (the transport has dropped out_rx).
Push(s) ==
    \/ /\ client[s] = "open" /\ outQ[s] < OutCapacity
       /\ outQ' = [outQ EXCEPT ![s] = @ + 1]
    \/ /\ client[s] = "gone"
       /\ UNCHANGED outQ

-----------------------------------------------------------------------------
(* A session's task.                                                       *)

\* open_tunnel, with the id of the x-agent-id header or without.
Open(s) ==
    /\ task[s] = "none"
    /\ \E a \in Ids :
         /\ agent' = [agent EXCEPT ![s] = a]
         /\ task' = [task EXCEPT
                       ![s] = IF a = NoAgent THEN "reading" ELSE "register"]
    /\ client' = [client EXCEPT ![s] = "open"]
    /\ UNCHANGED <<frame, outQ, turns, eventQ, registry, lockVars>>

\* sessions.write().await
AskForLock(s) ==
    /\ task[s] \in {"register", "unregister"}
    /\ ~Waits(s)
    /\ waitq' = Append(waitq, s)
    /\ UNCHANGED <<taskVars, outVars, turns, eventQ, registry, readers, want,
                   todo, at>>

\* SessionRegistry::register.  A frame that brought the id is handled next.
Register(s) ==
    /\ task[s] = "register"
    /\ WriteGuard(s)
    /\ waitq' = Tail(waitq)
    /\ registry' = [registry EXCEPT ![agent[s]] = s]
    /\ task' = [task EXCEPT ![s] = IF frame[s] = "none" THEN "reading" ELSE "ack"]
    /\ UNCHANGED <<agent, frame, outVars, turns, eventQ, readers, want, todo,
                   at>>

ReadFrameRenaming(s) ==
    /\ task[s] = "reading"
    /\ \E a \in Ids, k \in KindsNow(s) :
         /\ frame' = [frame EXCEPT ![s] = k]
         /\ agent' = [agent EXCEPT ![s] = IF a = NoAgent THEN @ ELSE a]
         /\ task' = [task EXCEPT
                       ![s] = IF a \in {NoAgent, agent[s]} THEN "ack"
                              ELSE "register"]
    /\ UNCHANGED <<outVars, turns, eventQ, registry, lockVars>>

ReadFrameForgetful(s) ==
    /\ task[s] = "reading"
    /\ \E a \in Ids, k \in KindsNow(s) :
         /\ frame' = [frame EXCEPT ![s] = k]
         /\ agent' = [agent EXCEPT ![s] = IF @ = NoAgent THEN a ELSE @]
         /\ task' = [task EXCEPT ![s] = "ack"]
    /\ UNCHANGED <<outVars, turns, eventQ, registry, lockVars>>

\* A frame with agent id a; the first id there is becomes the session's.
ReadFrame(s) ==
    /\ task[s] = "reading"
    /\ \E a \in Ids, k \in KindsNow(s) :
         LET late == agent[s] = NoAgent /\ a # NoAgent IN
         /\ frame' = [frame EXCEPT ![s] = k]
         /\ agent' = [agent EXCEPT ![s] = IF late THEN a ELSE @]
         /\ task' = [task EXCEPT ![s] = IF late THEN "register" ELSE "ack"]
    /\ UNCHANGED <<outVars, turns, eventQ, registry, lockVars>>

\* A heartbeat is answered on the session's own channel.
Ack(s) ==
    /\ task[s] = "ack"
    /\ task' = [task EXCEPT ![s] = "forward"]
    /\ \/ frame[s] = "heartbeat" /\ Push(s)
       \/ frame[s] # "heartbeat" /\ UNCHANGED outQ
    /\ UNCHANGED <<agent, frame, client, turns, eventQ, registry, lockVars>>

\* event_tx.send(..).await, and a turn task is spawned for a prompt.
Forward(s) ==
    /\ task[s] = "forward"
    /\ ForwardEvents => eventQ < EventCapacity
    /\ eventQ' = IF ForwardEvents THEN eventQ + 1 ELSE eventQ
    /\ turns' = IF frame[s] = "prompt" THEN [turns EXCEPT ![s] = @ + 1]
                ELSE turns
    /\ frame' = [frame EXCEPT ![s] = "none"]
    /\ task' = [task EXCEPT ![s] = "reading"]
    /\ UNCHANGED <<agent, outVars, registry, lockVars>>

StreamEndsEarly(s) ==
    /\ task[s] = "reading"
    /\ client[s] = "gone"
    /\ task' = [task EXCEPT ![s] = "ended"]
    /\ UNCHANGED <<agent, frame, outVars, turns, eventQ, registry, lockVars>>

\* in_stream.message() is None or an error.
StreamEnds(s) ==
    /\ task[s] = "reading"
    /\ client[s] = "gone"
    /\ task' = [task EXCEPT
                  ![s] = IF agent[s] = NoAgent THEN "ended" ELSE "unregister"]
    /\ UNCHANGED <<agent, frame, outVars, turns, eventQ, registry, lockVars>>

\* SessionRegistry::unregister: whatever is stored under the id goes.
Unregister(s) ==
    /\ task[s] = "unregister"
    /\ WriteGuard(s)
    /\ waitq' = Tail(waitq)
    /\ registry' = [registry EXCEPT ![agent[s]] = NoSession]
    /\ task' = [task EXCEPT ![s] = "ended"]
    /\ UNCHANGED <<agent, frame, outVars, turns, eventQ, readers, want, todo,
                   at>>

-----------------------------------------------------------------------------
(* The turn tasks of a session answer on the session's own channel.        *)

TurnFrame(s) ==
    /\ turns[s] > 0
    /\ Push(s)
    /\ UNCHANGED <<taskVars, client, turns, eventQ, registry, lockVars>>

TurnDone(s) ==
    /\ turns[s] > 0
    /\ turns' = [turns EXCEPT ![s] = @ - 1]
    /\ UNCHANGED <<taskVars, outVars, eventQ, registry, lockVars>>

-----------------------------------------------------------------------------
(* Callers of the registry.                                                *)

\* send_to_agent (one id) or broadcast (all of them): sessions.read().await
CallRegistry(r) ==
    /\ ~Waits(r) /\ r \notin readers
    /\ \E W \in {{a} : a \in Agents} \cup {Agents} :
         want' = [want EXCEPT ![r] = W]
    /\ waitq' = Append(waitq, r)
    /\ UNCHANGED <<taskVars, outVars, turns, eventQ, registry, readers, todo, at>>

\* The read guard; the senders are looked up under it.
ReadGuard(r) ==
    /\ Turn(r)
    /\ waitq' = Tail(waitq)
    /\ readers' = readers \cup {r}
    /\ todo' = [todo EXCEPT
                  ![r] = {registry[a] : a \in want[r]} \ {NoSession}]
    /\ UNCHANGED <<taskVars, outVars, turns, eventQ, registry, want, at>>

\* The next entry of the map, in the order of a HashMap: any.
PickEntry(r) ==
    /\ r \in readers /\ at[r] = NoSession
    /\ \E s \in todo[r] : at' = [at EXCEPT ![r] = s]
    /\ UNCHANGED <<taskVars, outVars, turns, eventQ, registry, waitq, readers,
                   want, todo>>

\* sender.send(..).await, the guard still held.
RouteTo(r) ==
    /\ r \in readers /\ at[r] # NoSession
    /\ Push(at[r])
    /\ todo' = [todo EXCEPT ![r] = @ \ {at[r]}]
    /\ at' = [at EXCEPT ![r] = NoSession]
    /\ UNCHANGED <<taskVars, client, turns, eventQ, registry, waitq, readers,
                   want>>

ReleaseGuard(r) ==
    /\ r \in readers /\ todo[r] = {}
    /\ readers' = readers \ {r}
    /\ want' = [want EXCEPT ![r] = {}]
    /\ UNCHANGED <<taskVars, outVars, turns, eventQ, registry, waitq, todo, at>>

-----------------------------------------------------------------------------
(* The clients and the consumer of forwarded frames (external).            *)

ClientReads(s) ==
    /\ client[s] = "open" /\ outQ[s] > 0
    /\ outQ' = [outQ EXCEPT ![s] = @ - 1]
    /\ UNCHANGED <<taskVars, client, turns, eventQ, registry, lockVars>>

ClientGoes(s) ==
    /\ client[s] = "open"
    /\ client' = [client EXCEPT ![s] = "gone"]
    /\ outQ' = [outQ EXCEPT ![s] = 0]
    /\ UNCHANGED <<taskVars, turns, eventQ, registry, lockVars>>

\* recv_client_frame
TakeEvent ==
    /\ eventQ > 0
    /\ eventQ' = eventQ - 1
    /\ UNCHANGED <<taskVars, outVars, turns, registry, lockVars>>

-----------------------------------------------------------------------------
SessionNext(s) ==
    \/ Open(s) \/ AskForLock(s) \/ Register(s) \/ ReadFrame(s) \/ Ack(s)
    \/ Forward(s) \/ StreamEnds(s) \/ Unregister(s)
    \/ TurnFrame(s) \/ TurnDone(s) \/ ClientReads(s) \/ ClientGoes(s)

RouterNext(r) ==
    \/ CallRegistry(r) \/ ReadGuard(r) \/ PickEntry(r) \/ RouteTo(r)
    \/ ReleaseGuard(r)

Next ==
    \/ \E s \in Sessions : SessionNext(s)
    \/ \E r \in Routers : RouterNext(r)
    \/ TakeEvent

Spec == Init /\ [][Next]_vars

(***************************************************************************)
(* Fairness.  The runtime polls what can go on: tasks, turns and routers   *)
(* that have begun (WF).  The senders of a channel get its places in the   *)
(* order they asked, and a stream whose client is gone runs out of         *)
(* buffered frames: SF where an action is only enabled now and then.  Of   *)
(* the environment: a client reads what it is sent and the forwarded       *)
(* frames are consumed.  Nobody has to open a tunnel, send a frame, route  *)
(* or go away.                                                             *)
(***************************************************************************)
Fairness ==
    /\ \A s \in Sessions :
         /\ WF_vars(AskForLock(s) \/ Register(s) \/ Unregister(s))
         /\ SF_vars(Ack(s) \/ Forward(s))
         /\ SF_vars(StreamEnds(s))
         /\ WF_vars(TurnDone(s))
         /\ WF_vars(ClientReads(s))
    /\ \A r \in Routers :
         /\ WF_vars(ReadGuard(r) \/ PickEntry(r) \/ ReleaseGuard(r))
         /\ SF_vars(RouteTo(r))
    /\ WF_vars(TakeEvent)

FairSpec == Spec /\ Fairness

-----------------------------------------------------------------------------
(* What the gateway promises.                                              *)

\* The task has registered the session and not unregistered it.
Enrolled(s) ==
    /\ agent[s] # NoAgent
    /\ task[s] \in {"reading", "ack", "forward", "unregister"}

\* Type invariant.
TypeOK ==
    /\ task \in [Sessions -> {"none", "register", "reading", "ack", "forward",
                              "unregister", "ended"}]
    /\ agent \in [Sessions -> Ids]
    /\ frame \in [Sessions -> Kinds \cup {"none"}]
    /\ client \in [Sessions -> {"none", "open", "gone"}]
    /\ outQ \in [Sessions -> 0..OutCapacity]
    /\ turns \in [Sessions -> 0..MaxTurns]
    /\ eventQ \in 0..EventCapacity
    /\ registry \in [Agents -> Sessions \cup {NoSession}]
    /\ waitq \in Seq(Sessions \cup Routers)
    /\ readers \subseteq Routers
    /\ want \in [Routers -> SUBSET Agents]
    /\ todo \in [Routers -> SUBSET Sessions]
    /\ at \in [Routers -> Sessions \cup {NoSession}]

\* No dangling route: an entry of the map leads to a session that is still
\* served, under the id it registered with.  Its task will still unregister it,
\* whichever sessions of the same agent registered or left in between.
NoDanglingRoute ==
    \A a \in Agents :
        registry[a] # NoSession =>
            Enrolled(registry[a]) /\ agent[registry[a]] = a

\* The map does not change under a caller: as long as a frame is still to be
\* sent to a session that was looked up, the session is the agent's entry.
RouteHeldWhileSending ==
    \A r \in readers : \A s \in todo[r] :
        agent[s] # NoAgent /\ registry[agent[s]] = s

\* An agent with one tunnel is reachable as long as its task serves it: only
\* another session of the same agent can take the entry away.
SoleSessionIsRouted ==
    \A s \in Sessions :
        Enrolled(s) =>
            \/ registry[agent[s]] = s
            \/ \E t \in Sessions \ {s} : agent[t] = agent[s]

\* "`SessionRegistry`: Maps active agent connections" (README.md): an agent
\* whose tunnel is up, registered and served has an entry.
ActiveAgentIsRouted ==
    \A s \in Sessions :
        Enrolled(s) /\ client[s] = "open" => registry[agent[s]] # NoSession

\* Whoever needs the registry gets it, although frames are sent, with back
\* pressure, while its lock is held (send_to_agent, broadcast): a tunnel is
\* registered in the end, and a caller that routes frames gets its answer.
RegistryIsServed ==
    /\ \A s \in Sessions : task[s] = "register" ~> task[s] # "register"
    /\ \A r \in Routers : Waits(r) ~> ~Waits(r) /\ r \notin readers

\* The task of a client that is gone comes to its end, through whatever frame
\* it is working on, and takes the session's entry along.
GoneClientIsForgotten ==
    \A s \in Sessions :
        client[s] = "gone"
            ~> task[s] = "ended" /\ \A a \in Agents : registry[a] # s
=============================================================================
