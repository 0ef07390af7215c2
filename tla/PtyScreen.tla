----------------------------- MODULE PtyScreen ------------------------------
(***************************************************************************)
(* A screen of the terminal multiplexer of crates/syntropy-exec            *)
(* (pty_mux.rs), from spawn_screen to its end: the threads that read the   *)
(* child's output and wait for its exit, the forwarder that the daemon     *)
(* starts for it (orchestrator.rs) and the callers of terminate,           *)
(* cleanup_screen and write_input.                                         *)
(*                                                                         *)
(* The screen runs in a pseudo terminal (on Unix, where the reader sees    *)
(* the end once the child is gone) or on pipes.  A byte of output is its   *)
(* channel and its number; a chunk is a sequence of bytes and the end of   *)
(* the output is the empty chunk.                                          *)
(***************************************************************************)
EXTENDS Integers, Sequences, SequencesExt

CONSTANTS
    Callers,            \* callers of terminate, cleanup_screen, write_input
    Capacity,           \* buffer_capacity of the ring buffer
    Backlog,            \* chunks a broadcast receiver may be behind (1024)
    MaxBytes            \* bound: bytes the child writes

ASSUME SizesAssumption ==
    Capacity \in Nat /\ Backlog \in Nat \ {0} /\ MaxBytes \in Nat

VARIABLES
    pty,        \* opts.pty
    spawn,      \* where spawn_screen is
    listed,     \* the screen is in the table of screens
    proc,       \* the child
    child,      \* its handle: "stored", "waited" (the waiter holds the mutex
                \* while it waits) or "taken"
    exit_code,  \* exit_code_holder
    waiter,     \* the waiter thread
    writer,     \* the child's stdin is open; a caller that is "writing" has
                \* its mutex
    status,
    written,    \* bytes written by the child, by channel
    unread,     \* those of them that have not been read
    reader,     \* the reader thread of a channel
    hand,       \* the chunk it has put into the ring and not broadcast yet
    printed,    \* history: all bytes put into the ring
    ring,
    stream,     \* history: the chunks broadcast
    fwd,        \* the daemon's forwarder
    got,        \* the chunks it has given to the tunnel
    call        \* where a caller is

procVars == <<proc, child, exit_code>>
outVars == <<written, unread, reader, hand, printed, ring>>
fwdVars == <<fwd, got>>
vars == <<pty, spawn, listed, procVars, waiter, writer, status, outVars, stream,
          fwdVars, call>>

Channels == {"out", "err"}
MyChannels == IF pty THEN {"out"} ELSE Channels
EOF == <<>>
Exited(code) == IF code = "real" THEN "Exited(code)" ELSE "Exited(0)"

Init ==
    /\ pty \in BOOLEAN
    /\ spawn = "idle" /\ listed = FALSE
    /\ proc = "none" /\ child = "taken" /\ exit_code = "none"
    /\ waiter = "off" /\ writer = FALSE
    /\ status = "Running"
    /\ written = [c \in Channels |-> 0]
    /\ unread = [c \in Channels |-> 0]
    /\ reader = [c \in Channels |-> "off"]
    /\ hand = [c \in Channels |-> EOF]
    /\ printed = <<>> /\ ring = <<>> /\ stream = <<>>
    /\ fwd = "off" /\ got = <<>>
    /\ call = [k \in Callers |-> "idle"]

-----------------------------------------------------------------------------
(* spawn_screen, of an id that is free.                                    *)

\* The child is started ...
StartChild ==
    /\ spawn = "idle"
    /\ spawn' = "started"
    /\ proc' = "running" /\ child' = "stored" /\ writer' = TRUE
    /\ UNCHANGED <<pty, listed, exit_code, waiter, status, outVars, stream,
                   fwdVars, call>>

StartFails ==
    /\ spawn = "idle"
    /\ spawn' = "failed"
    /\ UNCHANGED <<pty, listed, procVars, waiter, writer, status, outVars, stream,
                   fwdVars, call>>

\* ... take_writer and try_clone_reader may fail, and the child is let go ...
LetGo ==
    /\ spawn = "started" /\ pty
    /\ spawn' = "failed"
    /\ child' = "taken" /\ writer' = FALSE
    /\ UNCHANGED <<pty, listed, proc, exit_code, waiter, status, outVars, stream,
                   fwdVars, call>>

\* ... the screen is stored, where callers find it ...
List ==
    /\ spawn = "started"
    /\ spawn' = "listed" /\ listed' = TRUE
    /\ UNCHANGED <<pty, procVars, waiter, writer, status, outVars, stream, fwdVars,
                   call>>

Readers(cs) ==
    reader' = [c \in Channels |-> IF c \in cs THEN "reading" ELSE "off"]

\* ... and its threads begin, and the forwarder of who has spawned it.
StartThreads ==
    /\ spawn = "listed"
    /\ spawn' = "done"
    /\ waiter' = "start" /\ Readers(MyChannels)
    /\ fwd' = "on"
    /\ UNCHANGED <<pty, listed, procVars, writer, status, written, unread, hand,
                   printed, ring, stream, got, call>>

\* A thread cannot be started: spawn_screen returns with those that were
\* started before it, and with the screen in the table.
ThreadFails ==
    /\ spawn = "listed"
    /\ spawn' = "failed"
    /\ \/ pty /\ waiter' \in {"off", "start"} /\ Readers({})
       \/ ~pty /\ waiter' = "off" /\ \E cs \in {{}, {"out"}, Channels} : Readers(cs)
    /\ UNCHANGED <<pty, listed, procVars, writer, status, written, unread, hand,
                   printed, ring, stream, fwdVars, call>>

-----------------------------------------------------------------------------
(* The child (external).                                                   *)

ChildWrites(c) ==
    /\ proc = "running" /\ c \in MyChannels
    /\ written["out"] + written["err"] < MaxBytes
    /\ written' = [written EXCEPT ![c] = @ + 1]
    /\ unread' = [unread EXCEPT ![c] = @ + 1]
    /\ UNCHANGED <<pty, spawn, listed, procVars, waiter, writer, status, reader,
                   hand, printed, ring, stream, fwdVars, call>>

ChildExits ==
    /\ proc = "running"
    /\ proc' = "exited"
    /\ UNCHANGED <<pty, spawn, listed, child, exit_code, waiter, writer, status,
                   outVars, stream, fwdVars, call>>

-----------------------------------------------------------------------------
(* The waiter thread.                                                      *)

\* Of a pseudo terminal the waiter has only the master to drop once it has the
\* exit code; on pipes it reports the end.
HaveCode(code) ==
    /\ exit_code' = code
    /\ waiter' = IF pty THEN "done" ELSE "waited"

\* child.lock().take(): the guard lives as long as the `if let`, so the mutex
\* stays locked while the child is waited for.
Wait ==
    /\ child = "stored"
    /\ child' = "waited" /\ waiter' = "waiting"
    /\ UNCHANGED exit_code

\* A waiter that has nothing to do once the handle has been taken.
TakeChildOrLeave ==
    /\ waiter = "start"
    /\ \/ Wait
       \/ child = "taken" /\ waiter' = "done" /\ UNCHANGED <<child, exit_code>>
    /\ UNCHANGED <<pty, spawn, listed, proc, writer, status, outVars, stream,
                   fwdVars, call>>
TakeChild ==
    /\ waiter = "start"
    /\ \/ Wait
       \/ child = "taken" /\ HaveCode("zero") /\ UNCHANGED child
    /\ UNCHANGED <<pty, spawn, listed, proc, writer, status, outVars, stream,
                   fwdVars, call>>

WaitReturns ==
    /\ waiter = "waiting" /\ proc = "exited"
    /\ child' = "taken"
    /\ HaveCode("real")
    /\ UNCHANGED <<pty, spawn, listed, proc, writer, status, outVars, stream,
                   fwdVars, call>>

\* On pipes: the status is set, then the end is broadcast, whatever the readers
\* have still to read.
SetExited ==
    /\ waiter = "waited"
    /\ status' = Exited(exit_code)
    /\ waiter' = "set"
    /\ UNCHANGED <<pty, spawn, listed, procVars, writer, outVars, stream, fwdVars,
                   call>>

SendEnd ==
    /\ waiter = "set"
    /\ stream' = Append(stream, EOF)
    /\ waiter' = "done"
    /\ UNCHANGED <<pty, spawn, listed, procVars, writer, status, outVars, fwdVars,
                   call>>

-----------------------------------------------------------------------------
(* The reader threads.                                                     *)

\* RingBuffer::write, on a buffer of max(Capacity, 1).
RingSize == IF Capacity < 1 THEN 1 ELSE Capacity

ring_write_off_by_one(old, data) ==
    LET overflow == Len(old) + Len(data) - RingSize - 1
    IN  IF overflow > 0 THEN SubSeq(old, overflow + 1, Len(old)) \o data
        ELSE old \o data
ring_write(old, data) ==
    LET overflow == Len(old) + Len(data) - RingSize
    IN  IF Len(data) >= RingSize
        THEN SubSeq(data, Len(data) - RingSize + 1, Len(data))
        ELSE IF overflow > 0 THEN SubSeq(old, overflow + 1, Len(old)) \o data
             ELSE old \o data

\* The next n bytes of channel c.
Bytes(c, n) == [k \in 1..n |-> <<c, written[c] - unread[c] + k>>]

\* A chunk is read and put into the ring ...
Read(c) ==
    /\ reader[c] = "reading"
    /\ \E n \in 1..unread[c] :
         LET data == Bytes(c, n) IN
         /\ unread' = [unread EXCEPT ![c] = @ - n]
         /\ hand' = [hand EXCEPT ![c] = data]
         /\ ring' = ring_write(ring, data)
         /\ printed' = printed \o data
    /\ reader' = [reader EXCEPT ![c] = "sending"]
    /\ UNCHANGED <<pty, spawn, listed, procVars, waiter, writer, status, written,
                   stream, fwdVars, call>>

\* ... and broadcast.
Broadcast(c) ==
    /\ reader[c] = "sending"
    /\ stream' = Append(stream, hand[c])
    /\ hand' = [hand EXCEPT ![c] = EOF]
    /\ reader' = [reader EXCEPT ![c] = "reading"]
    /\ UNCHANGED <<pty, spawn, listed, procVars, waiter, writer, status, written,
                   unread, printed, ring, fwdVars, call>>

Leave(c) ==
    /\ reader' = [reader EXCEPT ![c] = IF pty THEN "asking" ELSE "done"]
    /\ UNCHANGED <<pty, spawn, listed, procVars, waiter, writer, status, written,
                   unread, hand, printed, ring, stream, fwdVars, call>>

\* A reader that looks at the child, not at what is left to read.
ReadEndEarly(c) ==
    reader[c] = "reading" /\ proc = "exited" /\ Leave(c)
\* Nothing is left to read, and nothing will come.
ReadEnd(c) ==
    reader[c] = "reading" /\ proc = "exited" /\ unread[c] = 0 /\ Leave(c)

\* The reader of a pseudo terminal polls for the exit code, takes zero for it
\* when it has waited long enough, sets the status ...
ReadExitCode ==
    /\ reader["out"] = "asking"
    /\ status' = Exited(IF exit_code = "none" THEN "zero" ELSE exit_code)
    /\ reader' = [reader EXCEPT !["out"] = "ending"]
    /\ UNCHANGED <<pty, spawn, listed, procVars, waiter, writer, written, unread,
                   hand, printed, ring, stream, fwdVars, call>>

\* ... and broadcasts the end.
BroadcastEnd ==
    /\ reader["out"] = "ending"
    /\ stream' = Append(stream, EOF)
    /\ reader' = [reader EXCEPT !["out"] = "done"]
    /\ UNCHANGED <<pty, spawn, listed, procVars, waiter, writer, status, written,
                   unread, hand, printed, ring, fwdVars, call>>

-----------------------------------------------------------------------------
(* The forwarder of the daemon: chunks become frames of the tunnel.        *)

Behind == Len(stream) - Len(got)

Give(chunk) ==
    /\ got' = Append(got, chunk)
    /\ fwd' = IF chunk = EOF THEN "ended" ELSE "on"
    /\ UNCHANGED <<pty, spawn, listed, procVars, waiter, writer, status, outVars,
                   stream, call>>

\* A forwarder that takes Err(Lagged) for a reason to go on.
ForwardSkipping ==
    /\ fwd = "on" /\ Behind > 0
    /\ Give(IF Behind > Backlog THEN stream[Len(stream)] ELSE stream[Len(got) + 1])
Forward ==
    /\ fwd = "on" /\ Behind \in 1..Backlog
    /\ Give(stream[Len(got) + 1])

\* recv() is Err(Lagged), or the tunnel is closed: the forwarder ends without
\* a word.
ForwardStops ==
    /\ fwd = "on"
    /\ fwd' = "ended"
    /\ UNCHANGED <<pty, spawn, listed, procVars, waiter, writer, status, outVars,
                   stream, got, call>>

-----------------------------------------------------------------------------
(* write_input, terminate, and cleanup_screen around terminate.  Who only  *)
(* terminates is in "close", "kill", "mark"; who cleans up is in "Close",  *)
(* "Kill", "Mark" and then in "Remove".                                    *)

LookUp(k) ==
    /\ call[k] = "idle" /\ listed
    /\ \E op \in {"write", "close", "Close"} : call' = [call EXCEPT ![k] = op]
    /\ UNCHANGED <<pty, spawn, listed, procVars, waiter, writer, status, outVars,
                   stream, fwdVars>>

WriterFree == \A k \in Callers : call[k] # "writing"

\* write_all keeps the mutex of the writer until the child has read.
WriteInput(k) ==
    /\ call[k] = "write" /\ WriterFree
    /\ call' = [call EXCEPT ![k] = IF writer THEN "writing" ELSE "idle"]
    /\ UNCHANGED <<pty, spawn, listed, procVars, waiter, writer, status, outVars,
                   stream, fwdVars>>

WriteReturns(k) ==
    /\ call[k] = "writing"
    /\ call' = [call EXCEPT ![k] = "idle"]
    /\ UNCHANGED <<pty, spawn, listed, procVars, waiter, writer, status, outVars,
                   stream, fwdVars>>

Advance(k, from, to) ==
    \/ call[k] = from[1] /\ call' = [call EXCEPT ![k] = to[1]]
    \/ call[k] = from[2] /\ call' = [call EXCEPT ![k] = to[2]]

\* The writer is taken, and so is the master.
TerminateCloses(k) ==
    /\ Advance(k, <<"close", "Close">>, <<"kill", "Kill">>)
    /\ WriterFree
    /\ writer' = FALSE
    /\ UNCHANGED <<pty, spawn, listed, procVars, waiter, status, outVars, stream,
                   fwdVars>>

\* A terminate that does not wait for the mutex of the handle (try_lock).
TerminateGivesUp(k) ==
    /\ Advance(k, <<"kill", "Kill">>, <<"mark", "Mark">>)
    /\ \/ child = "stored" /\ child' = "taken" /\ proc' = "exited"
       \/ child # "stored" /\ UNCHANGED <<child, proc>>
    /\ UNCHANGED <<pty, spawn, listed, exit_code, waiter, writer, status, outVars,
                   stream, fwdVars>>
\* The mutex of the handle is waited for; a child that is still there is killed.
TerminateKills(k) ==
    /\ Advance(k, <<"kill", "Kill">>, <<"mark", "Mark">>)
    /\ child # "waited"
    /\ \/ child = "stored" /\ child' = "taken" /\ proc' = "exited"
       \/ child = "taken" /\ UNCHANGED <<child, proc>>
    /\ UNCHANGED <<pty, spawn, listed, exit_code, waiter, writer, status, outVars,
                   stream, fwdVars>>

TerminateMarks(k) ==
    /\ Advance(k, <<"mark", "Mark">>, <<"idle", "Remove">>)
    /\ status' = "Terminated"
    /\ UNCHANGED <<pty, spawn, listed, procVars, waiter, writer, outVars, stream,
                   fwdVars>>

CleanupRemoves(k) ==
    /\ call[k] = "Remove"
    /\ listed' = FALSE
    /\ call' = [call EXCEPT ![k] = "idle"]
    /\ UNCHANGED <<pty, spawn, procVars, waiter, writer, status, outVars, stream,
                   fwdVars>>

-----------------------------------------------------------------------------
SpawnNext ==
    StartChild \/ StartFails \/ LetGo \/ List \/ StartThreads \/ ThreadFails

WaiterNext == TakeChild \/ WaitReturns \/ SetExited \/ SendEnd

ReaderNext(c) == Read(c) \/ Broadcast(c) \/ ReadEnd(c)

TerminalEnd == ReadExitCode \/ BroadcastEnd

TerminateNext(k) ==
    TerminateCloses(k) \/ TerminateKills(k) \/ TerminateMarks(k) \/ CleanupRemoves(k)

Next ==
    \/ SpawnNext \/ WaiterNext \/ TerminalEnd
    \/ \E c \in Channels : ReaderNext(c) \/ ChildWrites(c)
    \/ ChildExits
    \/ Forward \/ ForwardStops
    \/ \E k \in Callers :
         LookUp(k) \/ WriteInput(k) \/ WriteReturns(k) \/ TerminateNext(k)

Spec == Init /\ [][Next]_vars

(***************************************************************************)
(* Fairness: threads that can go on are scheduled, and a child reads what  *)
(* is written to it.  Nothing makes a child exit, a caller call or the     *)
(* forwarder keep up.                                                      *)
(***************************************************************************)
Fairness ==
    /\ WF_vars(LetGo \/ List \/ StartThreads \/ ThreadFails)
    /\ WF_vars(WaiterNext) /\ WF_vars(TerminalEnd)
    /\ \A c \in Channels : WF_vars(ReaderNext(c))
    /\ \A k \in Callers :
         /\ WF_vars(WriteReturns(k))
         /\ SF_vars(TerminateNext(k))

FairSpec == Spec /\ Fairness

-----------------------------------------------------------------------------
(* What a screen promises.                                                 *)

CallStates == {"idle", "write", "writing", "close", "kill", "mark", "Close",
               "Kill", "Mark", "Remove"}

\* Type invariant; the ring stays within its capacity.
TypeOK ==
    /\ pty \in BOOLEAN
    /\ spawn \in {"idle", "failed", "started", "listed", "done"}
    /\ listed \in BOOLEAN
    /\ proc \in {"none", "running", "exited"}
    /\ child \in {"stored", "waited", "taken"}
    /\ exit_code \in {"none", "real", "zero"}
    /\ waiter \in {"off", "start", "waiting", "waited", "set", "done"}
    /\ writer \in BOOLEAN
    /\ status \in {"Running", "Terminated", Exited("real"), Exited("zero")}
    /\ written \in [Channels -> 0..MaxBytes]
    /\ unread \in [Channels -> 0..MaxBytes]
    /\ reader \in [Channels -> {"off", "reading", "sending", "asking", "ending",
                                "done"}]
    /\ Len(ring) <= RingSize
    /\ fwd \in {"off", "on", "ended"}
    /\ call \in [Callers -> CallStates]

Ends == {n \in 1..Len(stream) : stream[n] = EOF}

\* The end of a screen is broadcast once, and of a pseudo terminal it is the
\* last chunk: everything the child has written comes before it.
EofIsLast ==
    \A n \in Ends :
        /\ Ends = {n}
        /\ pty => n = Len(stream) /\ unread["out"] = 0 /\ hand["out"] = EOF

\* What the tunnel is given of a screen has no hole: a forwarder that falls too
\* far behind stops, it never skips.
ForwardedWithoutGaps == IsPrefix(got, stream)

\* get_history returns the last bytes read from the child, as many as fit,
\* in whatever chunks and from whichever channel they came.
HistoryIsSuffix ==
    LET n == Len(printed)
    IN  ring = IF n <= RingSize THEN printed
               ELSE SubSeq(printed, n - RingSize + 1, n)

\* A screen is "Terminated" only when its child is gone, whoever of the waiter
\* and the callers had the handle; and so it is removed only then.
TerminatedIsDead ==
    /\ status = "Terminated" => proc = "exited"
    /\ spawn = "done" /\ ~listed => proc = "exited"

\* The exit of a child is noticed: the end of its screen is broadcast, however
\* terminate, cleanup and the threads share its handle.
ExitIsNoticed == proc = "exited" ~> Ends # {} \/ spawn = "failed"

\* "Terminates an active screen session" (doc of PtyMultiplexer::terminate):
\* the child of a screen on which terminate is called goes away.  Not kept by
\* the code, and in no run: the waiter has the handle while the child lives.
TerminateEnds == \A k \in Callers : call[k] = "kill" ~> proc = "exited"

=============================================================================
