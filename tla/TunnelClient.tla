---------------------------- MODULE TunnelClient ----------------------------
(***************************************************************************)
(* The reconnecting gRPC tunnel client of crates/syntropy-tunnel:          *)
(* `run_tunnel_worker` (the background task), the application's side of    *)
(* its channels (`TunnelClient`, `TunnelHandle`) and the connection it     *)
(* opens.  The three run concurrently; an action is the code between two   *)
(* awaits that another of them can observe.                                *)
(*                                                                         *)
(* A client frame is its kind ("app": handed in by the application, "hb":  *)
(* made by the worker's ticker) and its number among the frames of its     *)
(* kind.  Frames that come from the gateway are only counted.              *)
(***************************************************************************)
EXTENDS Integers, Sequences

CONSTANTS
    Capacity,       \* channel_capacity: every mpsc channel of the client
    MaxAttempts,    \* max_reconnect_attempts, or NoLimit for Option::None
    NoLimit,
    InitialDelay,   \* initial_reconnect_delay
    MaxDelay,       \* max_reconnect_delay
    BackoffNum,     \* backoff_factor, as BackoffNum / BackoffDen
    BackoffDen,
    AttemptCap,     \* bound: `attempts` is counted up to here
    MaxFrames,      \* bound: frames the application sends
    MaxHeartbeats,  \* bound: ticks of the heartbeat timer
    MaxWaits        \* bound: calls of wait_connected

ASSUME CapacityAssumption == Capacity \in Nat \ {0}
ASSUME AttemptsAssumption ==
    /\ AttemptCap \in Nat
    /\ MaxAttempts # NoLimit => MaxAttempts \in 0..AttemptCap
ASSUME DelayAssumption ==
    /\ InitialDelay \in Nat /\ MaxDelay \in Nat
    /\ BackoffNum \in Nat /\ BackoffDen \in Nat \ {0}
ASSUME BoundsAssumption ==
    MaxFrames \in Nat /\ MaxHeartbeats \in Nat /\ MaxWaits \in Nat

VARIABLES
    worker,         \* where run_tunnel_worker is
    current_delay, attempts,
    pending_frame,  \* Option<frame>: the empty set or a singleton
    hand,           \* the frame inside `conn_tx.send(..).await`, or empty
    heartbeat_seq,
    outbound,       \* application -> worker channel
    accepted,       \* number of application frames put into it so far
    handed,         \* history: the frames put into a connection's channel
    conn,           \* frames in the current connection's channel conn_tx
    up, down,       \* its two directions still work
    inbound,        \* frames in the worker -> application channel
    connected,      \* value of the `connected` watch channel
    everSent,       \* the watch has been sent to since it was created
    shutdown,       \* value of the `shutdown` watch channel
    txOpen, rxOpen, \* the application still holds a sender / the receiver
    consumed,       \* TunnelClient::close has taken the client, rx included
    waiter,         \* the task inside wait_connected
    unseen,         \* its clone of the watch has a value it has not seen
    waits

retryVars == <<current_delay, attempts>>
frameVars == <<pending_frame, hand, heartbeat_seq, outbound, accepted, handed>>
linkVars  == <<conn, up, down>>
watchVars == <<connected, everSent, unseen>>
appVars   == <<shutdown, txOpen, rxOpen, consumed>>
waitVars  == <<waiter, waits>>
vars == <<worker, retryVars, frameVars, linkVars, inbound, watchVars, appVars,
          waitVars>>

App(n) == [kind |-> "app", seq |-> n]
Hb(n)  == [kind |-> "hb", seq |-> n]
Frames == [kind : {"app", "hb"}, seq : Nat]

Init ==
    /\ worker = "top"
    /\ current_delay = InitialDelay /\ attempts = 0
    /\ pending_frame = {} /\ hand = {} /\ heartbeat_seq = 0
    /\ outbound = <<>> /\ accepted = 0 /\ handed = <<>>
    /\ conn = 0 /\ up = FALSE /\ down = FALSE
    /\ inbound = 0
    /\ connected = FALSE /\ everSent = FALSE /\ unseen = FALSE
    /\ shutdown = FALSE /\ txOpen = TRUE /\ rxOpen = TRUE /\ consumed = FALSE
    /\ waiter = "idle" /\ waits = 0

-----------------------------------------------------------------------------
(* Pieces shared by the actions.                                           *)

\* connected_tx.send(v): every receiver has something new to see.
Announce(v) == connected' = v /\ everSent' = TRUE /\ unseen' = TRUE

\* conn_tx and inbound_stream go out of scope.  What the transport still
\* flushes of that connection is not followed.
HangUp == conn' = 0 /\ up' = FALSE /\ down' = FALSE

\* The worker returns: its last word on the watch, then everything is dropped.
\* Frames still queued stay in the variables, where nobody takes them.
StopSilently ==
    /\ worker' = "stopped" /\ HangUp
    /\ UNCHANGED <<connected, everSent, unseen>>
Stop == worker' = "stopped" /\ Announce(FALSE) /\ HangUp

\* A place is free in a channel that holds n frames.
Room(n) == n < Capacity

GrownDelay(d) ==
    LET grown == (d * BackoffNum) \div BackoffDen
    IN  IF grown < MaxDelay THEN grown ELSE MaxDelay

\* A stream is up: the next failure starts from the shortest delay again.
ResetAttemptsOnly == attempts' = 0 /\ UNCHANGED current_delay
ResetBackoff == attempts' = 0 /\ current_delay' = InitialDelay

GiveUp == MaxAttempts # NoLimit /\ attempts >= MaxAttempts

-----------------------------------------------------------------------------
(* The worker: connecting.                                                 *)

TopStop ==
    /\ worker = "top"
    /\ shutdown \/ GiveUp
    /\ Stop
    /\ UNCHANGED <<retryVars, frameVars, inbound, appVars, waitVars>>

TopAttempt ==
    /\ worker = "top"
    /\ ~shutdown /\ ~GiveUp
    /\ attempts' = IF attempts < AttemptCap THEN attempts + 1 ELSE attempts
    /\ worker' = "connecting"
    /\ UNCHANGED <<current_delay, frameVars, linkVars, inbound, watchVars,
                   appVars, waitVars>>

\* create_channel
ConnectOk ==
    /\ worker = "connecting"
    /\ worker' = "opening"
    /\ UNCHANGED <<retryVars, frameVars, linkVars, inbound, watchVars, appVars,
                   waitVars>>

ConnectFail ==
    /\ worker = "connecting"
    /\ worker' = "backoff"
    /\ UNCHANGED <<retryVars, frameVars, linkVars, inbound, watchVars, appVars,
                   waitVars>>

\* open_tunnel
OpenOk ==
    /\ worker = "opening"
    /\ worker' = "resend"
    /\ Announce(TRUE)
    /\ ResetBackoff
    /\ up' = TRUE /\ down' = TRUE /\ conn' = 0
    /\ UNCHANGED <<frameVars, inbound, appVars, waitVars>>

OpenFail ==
    /\ worker = "opening"
    /\ worker' = "backoff"
    /\ UNCHANGED <<retryVars, frameVars, linkVars, inbound, watchVars, appVars,
                   waitVars>>

\* The sleep of either back-off select, and of the one after a disconnection,
\* ends: the next iteration starts with a longer delay, the old connection is
\* dropped.
Sleep ==
    /\ worker \in {"backoff", "disconnected"}
    /\ worker' = "top"
    /\ current_delay' = GrownDelay(current_delay)
    /\ HangUp
    /\ UNCHANGED <<attempts, frameVars, inbound, watchVars, appVars, waitVars>>

\* The shutdown arm of those selects.
SleepShutdown ==
    /\ worker \in {"backoff", "disconnected"}
    /\ shutdown
    /\ Stop
    /\ UNCHANGED <<retryVars, frameVars, inbound, appVars, waitVars>>

-----------------------------------------------------------------------------
(* The worker: an established stream.                                      *)

\* conn_tx takes frame f.
Handed(f) == handed' = Append(handed, f) /\ conn' = conn + 1

\* pending_frame.take()
ClonePending == UNCHANGED pending_frame
TakePending == pending_frame' = {}

\* The error of conn_tx.send carries the frame back (`e.0`).
ForgetPending == pending_frame' = {}
KeepPending == UNCHANGED pending_frame

\* The frame kept from the previous connection goes first.  When this
\* connection is already broken it is kept again, and the stream is entered
\* all the same.
ResendPending ==
    /\ worker = "resend"
    /\ worker' = "streaming"
    /\ \/ \E f \in pending_frame :
             /\ up
             /\ Handed(f)
             /\ TakePending
       \/ /\ pending_frame = {} \/ ~up
          /\ KeepPending
          /\ UNCHANGED <<handed, conn>>
    /\ UNCHANGED <<retryVars, hand, heartbeat_seq, outbound, accepted, up, down,
                   inbound, watchVars, appVars, waitVars>>

StreamShutdownIgnored == worker = "streaming" /\ shutdown /\ UNCHANGED vars

StreamShutdown ==
    /\ worker = "streaming"
    /\ shutdown
    /\ worker' = "disconnected"
    /\ Announce(FALSE)
    /\ UNCHANGED <<retryVars, frameVars, linkVars, inbound, appVars, waitVars>>

\* inbound_stream.message() yields a frame ...
InboundFrame ==
    /\ worker = "streaming"
    /\ down
    /\ worker' = "delivering"
    /\ UNCHANGED <<retryVars, frameVars, linkVars, inbound, watchVars, appVars,
                   waitVars>>

\* ... or the end of the stream, or an error.
InboundEnd ==
    /\ worker = "streaming"
    /\ ~down
    /\ worker' = "disconnected"
    /\ Announce(FALSE)
    /\ UNCHANGED <<retryVars, frameVars, linkVars, inbound, appVars, waitVars>>

\* inbound_tx.send(..).await: waits while the channel is full.
Deliver ==
    /\ worker = "delivering"
    /\ rxOpen
    /\ Room(inbound)
    /\ inbound' = inbound + 1
    /\ worker' = "streaming"
    /\ UNCHANGED <<retryVars, frameVars, linkVars, watchVars, appVars, waitVars>>

DeliverClosed ==
    /\ worker = "delivering"
    /\ ~rxOpen
    /\ Stop
    /\ UNCHANGED <<retryVars, frameVars, inbound, appVars, waitVars>>

OutboundRecvUnlessPending ==
    /\ worker = "streaming"
    /\ outbound # <<>> /\ pending_frame = {}
    /\ hand' = {Head(outbound)}
    /\ outbound' = Tail(outbound)
    /\ worker' = "sending"
    /\ UNCHANGED <<retryVars, pending_frame, heartbeat_seq, accepted, handed,
                   linkVars, inbound, watchVars, appVars, waitVars>>

OutboundRecv ==
    /\ worker = "streaming"
    /\ outbound # <<>>
    /\ hand' = {Head(outbound)}
    /\ outbound' = Tail(outbound)
    /\ worker' = "sending"
    /\ UNCHANGED <<retryVars, pending_frame, heartbeat_seq, accepted, handed,
                   linkVars, inbound, watchVars, appVars, waitVars>>

\* recv() is None: no sender is left and the channel is empty.
OutboundClosed ==
    /\ worker = "streaming"
    /\ ~txOpen /\ outbound = <<>>
    /\ Stop
    /\ UNCHANGED <<retryVars, frameVars, inbound, appVars, waitVars>>

HeartbeatTick ==
    /\ worker = "streaming"
    /\ heartbeat_seq < MaxHeartbeats
    /\ heartbeat_seq' = heartbeat_seq + 1
    /\ hand' = {Hb(heartbeat_seq + 1)}
    /\ worker' = "sending"
    /\ UNCHANGED <<retryVars, pending_frame, outbound, accepted, handed,
                   linkVars, inbound, watchVars, appVars, waitVars>>

\* conn_tx.send(..).await: waits while the channel is full ...
SendToConn ==
    /\ worker = "sending"
    /\ up
    /\ Room(conn)
    /\ \E f \in hand : Handed(f)
    /\ hand' = {}
    /\ worker' = "streaming"
    /\ UNCHANGED <<retryVars, pending_frame, heartbeat_seq, outbound, accepted,
                   up, down, inbound, watchVars, appVars, waitVars>>

\* ... and gives the frame back once the connection no longer reads it.
SendFailed ==
    /\ worker = "sending"
    /\ ~up
    /\ pending_frame' = hand
    /\ hand' = {}
    /\ worker' = "disconnected"
    /\ Announce(FALSE)
    /\ UNCHANGED <<retryVars, heartbeat_seq, outbound, accepted, handed,
                   linkVars, inbound, appVars, waitVars>>

-----------------------------------------------------------------------------
(* The connection (tonic and the network; external).                       *)

Transmit ==
    /\ up /\ conn > 0
    /\ conn' = conn - 1
    /\ UNCHANGED <<worker, retryVars, frameVars, up, down, inbound, watchVars,
                   appVars, waitVars>>

\* The transport drops the receiving end of conn_tx, frames included.
BreakUp ==
    /\ up
    /\ up' = FALSE /\ conn' = 0
    /\ UNCHANGED <<worker, retryVars, frameVars, down, inbound, watchVars,
                   appVars, waitVars>>

BreakDown ==
    /\ down
    /\ down' = FALSE
    /\ UNCHANGED <<worker, retryVars, frameVars, conn, up, inbound, watchVars,
                   appVars, waitVars>>

-----------------------------------------------------------------------------
(* The application.                                                        *)

\* send().await or try_send returns Ok.  After the worker has returned they
\* return an error and change nothing.
Send ==
    /\ txOpen /\ worker # "stopped"
    /\ Room(Len(outbound))
    /\ accepted < MaxFrames
    /\ accepted' = accepted + 1
    /\ outbound' = Append(outbound, App(accepted + 1))
    /\ UNCHANGED <<worker, retryVars, pending_frame, hand, heartbeat_seq, handed,
                   linkVars, inbound, watchVars, appVars, waitVars>>

Recv ==
    /\ rxOpen /\ ~consumed
    /\ inbound > 0
    /\ inbound' = inbound - 1
    /\ UNCHANGED <<worker, retryVars, frameVars, linkVars, watchVars, appVars,
                   waitVars>>

\* The last sender is dropped (of the client, of split() and of sender()).
DropTx ==
    /\ txOpen /\ ~consumed
    /\ txOpen' = FALSE
    /\ UNCHANGED <<worker, retryVars, frameVars, linkVars, inbound, watchVars,
                   shutdown, rxOpen, consumed, waitVars>>

DropRx ==
    /\ rxOpen /\ ~consumed
    /\ rxOpen' = FALSE
    /\ inbound' = 0
    /\ UNCHANGED <<worker, retryVars, frameVars, linkVars, watchVars, shutdown,
                   txOpen, consumed, waitVars>>

\* TunnelHandle::close or its Drop, after split().  Both own the handle, which
\* a task in wait_connected would still borrow.
HandleClose ==
    /\ ~shutdown /\ waiter = "idle"
    /\ shutdown' = TRUE
    /\ UNCHANGED <<worker, retryVars, frameVars, linkVars, inbound, watchVars,
                   txOpen, rxOpen, consumed, waitVars>>

\* TunnelClient::close: the handle is closed while tx and rx are still held by
\* the future that waits for the worker.
ClientClose ==
    /\ ~shutdown /\ waiter = "idle" /\ rxOpen /\ txOpen
    /\ shutdown' = TRUE /\ consumed' = TRUE
    /\ UNCHANGED <<worker, retryVars, frameVars, linkVars, inbound, watchVars,
                   txOpen, rxOpen, waitVars>>

-----------------------------------------------------------------------------
(* A task in wait_connected.                                               *)

\* The first look at the watch.  borrow() does not mark the value seen.
WaitBegin ==
    /\ waiter = "idle" /\ ~shutdown
    /\ waits < MaxWaits
    /\ waits' = waits + 1
    /\ waiter' = IF connected THEN "idle" ELSE "looked"
    /\ UNCHANGED <<worker, retryVars, frameVars, linkVars, inbound, watchVars,
                   appVars>>

WaitSubscribe ==
    /\ waiter = "looked"
    /\ waiter' = "waiting"
    /\ unseen' = FALSE
    /\ UNCHANGED <<worker, retryVars, frameVars, linkVars, inbound, connected,
                   everSent, appVars, waits>>

\* The clone starts from the version the handle's receiver has seen: the one
\* the channel was created with.
WaitClone ==
    /\ waiter = "looked"
    /\ waiter' = "waiting"
    /\ unseen' = everSent
    /\ UNCHANGED <<worker, retryVars, frameVars, linkVars, inbound, connected,
                   everSent, appVars, waits>>

\* changed() returns Ok and marks the value seen; the value is read next.
WaitWake ==
    /\ waiter = "waiting"
    /\ unseen
    /\ unseen' = FALSE
    /\ waiter' = "woken"
    /\ UNCHANGED <<worker, retryVars, frameVars, linkVars, inbound, connected,
                   everSent, appVars, waits>>

WaitRead ==
    /\ waiter = "woken"
    /\ waiter' = IF connected THEN "idle" ELSE "waiting"
    /\ UNCHANGED <<worker, retryVars, frameVars, linkVars, inbound, watchVars,
                   appVars, waits>>

\* changed() fails (the worker has returned), or the timeout fires.
WaitFail ==
    /\ waiter = "waiting"
    /\ waiter' = "idle"
    /\ UNCHANGED <<worker, retryVars, frameVars, linkVars, inbound, watchVars,
                   appVars, waits>>

-----------------------------------------------------------------------------
WorkerNext ==
    \/ TopStop \/ TopAttempt \/ ConnectOk \/ ConnectFail \/ OpenOk \/ OpenFail
    \/ Sleep \/ SleepShutdown \/ ResendPending \/ StreamShutdown \/ InboundFrame
    \/ InboundEnd \/ Deliver \/ DeliverClosed \/ OutboundRecv \/ OutboundClosed
    \/ HeartbeatTick \/ SendToConn \/ SendFailed

LinkNext == Transmit \/ BreakUp \/ BreakDown

AppNext ==
    \/ Send \/ Recv \/ DropTx \/ DropRx \/ HandleClose \/ ClientClose
    \/ WaitBegin \/ WaitClone \/ WaitWake \/ WaitRead \/ WaitFail

Next == WorkerNext \/ LinkNext \/ AppNext

Spec == Init /\ [][Next]_vars

(***************************************************************************)
(* Fairness.  The runtime polls a task that can go on (WF of the worker's  *)
(* steps); select! picks at random among its ready arms, so an arm that is *)
(* ready again and again is taken (SF).  Of the environment: an open       *)
(* connection moves its frames, an application that still owns the         *)
(* receiver reads it.  Nothing makes a connection break, a frame arrive or *)
(* the application close anything.                                         *)
(***************************************************************************)
Fairness ==
    /\ WF_vars(TopStop \/ TopAttempt \/ ConnectOk \/ ConnectFail \/ OpenOk
               \/ OpenFail \/ Sleep \/ SleepShutdown \/ ResendPending)
    /\ WF_vars(Deliver \/ DeliverClosed \/ SendToConn \/ SendFailed)
    /\ SF_vars(StreamShutdown) /\ SF_vars(OutboundRecv) /\ SF_vars(InboundEnd)
    /\ WF_vars(Transmit)
    /\ WF_vars(Recv)

\* A gateway that, asked again and again, accepts in the end.
GatewayAccepts == SF_vars(ConnectOk) /\ SF_vars(OpenOk)

FairSpec == Spec /\ Fairness /\ GatewayAccepts

-----------------------------------------------------------------------------
(* What the client promises.                                               *)

Serving == {"resend", "streaming", "sending", "delivering"}
WorkerStates ==
    Serving \cup {"top", "connecting", "opening", "backoff", "disconnected",
                  "stopped"}

FlagsOK ==
    /\ up \in BOOLEAN /\ down \in BOOLEAN
    /\ connected \in BOOLEAN /\ everSent \in BOOLEAN /\ unseen \in BOOLEAN
    /\ shutdown \in BOOLEAN /\ consumed \in BOOLEAN
    /\ txOpen \in BOOLEAN /\ rxOpen \in BOOLEAN

ChannelsOK ==
    /\ outbound \in Seq(Frames) /\ Len(outbound) \in 0..Capacity
    /\ conn \in 0..Capacity
    /\ inbound \in 0..Capacity

DataOK ==
    /\ worker \in WorkerStates
    /\ current_delay \in Nat
    /\ attempts \in 0..AttemptCap
    /\ pending_frame \in SUBSET Frames
    /\ hand \in SUBSET Frames
    /\ heartbeat_seq \in Nat
    /\ accepted \in Nat
    /\ handed \in Seq(Frames)
    /\ ChannelsOK
    /\ waiter \in {"idle", "looked", "waiting", "woken"}
    /\ waits \in 0..MaxWaits

\* Type invariant: the worker's state, and no channel above its capacity.
TypeOK == DataOK /\ FlagsOK

\* Over all the connections of the client's life, however often they break,
\* the frames of a kind are handed to the transport in the order they were
\* made and never twice: a frame given back by a broken connection
\* (pending_frame) goes before everything still queued, once.
HandedInOrder ==
    \A i, j \in 1..Len(handed) :
        i < j /\ handed[i].kind = handed[j].kind
            => handed[i].seq < handed[j].seq

\* No lost wake-up in wait_connected: a task that waits for a change while the
\* tunnel is connected has a change to wake up for, whenever the worker
\* connected between its first look, its clone and its changed().
NoLostWakeup == waiter = "waiting" /\ connected => unseen

\* is_connected is true exactly while the worker serves a stream: on every way
\* out of the stream, the early returns included, the watch is set to false.
ConnectedWhileServing == connected <=> worker \in Serving

\* The delay before the (n+1)st attempt in a row, without the cap on counting.
BackoffStep[n \in Nat] ==
    IF n = 0 THEN InitialDelay ELSE GrownDelay(BackoffStep[n - 1])

\* The back-off is a function of the failed attempts since the last stream: at
\* the n-th attempt it has grown n - 1 times, or n times when a stream was up
\* before (losing it costs one sleep that is not an attempt).
BackoffTracksAttempts ==
    /\ worker = "top" =>
         current_delay \in {BackoffStep[attempts], BackoffStep[attempts + 1]}
    /\ worker \in {"connecting", "opening", "backoff"} =>
         current_delay \in {BackoffStep[attempts - 1], BackoffStep[attempts]}
    /\ worker \in Serving \cup {"disconnected"} =>
         current_delay = InitialDelay

\* The application frames the client still has.
Kept == {f \in pending_frame \cup hand : f.kind = "app"}
            \cup {outbound[i] : i \in DOMAIN outbound}

Leaves(f) == f \in Kept /\ f \notin Kept'

\* A frame that send() accepted leaves the client only into a connection, with
\* one exception: a frame kept for the next connection is replaced when that
\* connection breaks before the frame is resent and takes another one with it.
FramesAreKept ==
    [][\A n \in 1..accepted :
          Leaves(App(n)) =>
              \/ handed' = Append(handed, App(n))
              \/ worker = "sending" /\ App(n) \in pending_frame /\ ~up]_vars

\* "If disconnected, frames are queued in memory up to `channel_capacity` and
\* sent once reconnected" (doc of TunnelClient::send): what send() accepted
\* is, while the worker lives, still kept or has been handed to a connection.
\* Not kept by the code, and in no run: FramesAreKept has the exception.
NoFrameDropped ==
    worker # "stopped" =>
        \A n \in 1..accepted :
            App(n) \in Kept \/ \E i \in DOMAIN handed : handed[i] = App(n)

\* Shutting the handle down stops the worker, wherever it is, as long as the
\* application goes on reading what the worker delivers.
ShutdownStops == shutdown /\ ~consumed ~> worker = "stopped"

\* "Gracefully stops the background reconnection worker and waits for it to
\* complete" (doc of TunnelHandle::close), called by TunnelClient::close.
\* Not kept by the code, and in no run: the client that closes does not read.
CloseCompletes == consumed ~> worker = "stopped"

\* A queued frame does not stay queued: it is taken by a connection sooner or
\* later, through any number of reconnections and whatever the other arms of
\* the select do, until the worker stops or the client is closed.
QueueDrains ==
    \A n \in 1..MaxFrames :
        App(n) \in {outbound[i] : i \in DOMAIN outbound}
            ~> \/ App(n) \notin {outbound[i] : i \in DOMAIN outbound}
               \/ worker = "stopped" \/ consumed

=============================================================================
