---------------------------- MODULE AuditLedger ----------------------------
(***************************************************************************)
(* The Merkle audit ledger of crates/syntropy-security (ledger.rs) and     *)
(* the actions that are recorded in it: by the daemon                      *)
(* (orchestrator.rs), which appends first and acts then, and by the local  *)
(* front ends (ui.rs, main.rs of the CLI), which act first.  They open the *)
(* same SQLite file, each through a connection of its own.                 *)
(*                                                                         *)
(* A task is one recorded action.  SHA-256 is taken to be injective: the   *)
(* hash of an entry is the list of what has been hashed into it.           *)
(***************************************************************************)
EXTENDS Integers, Sequences

CONSTANTS
    Procs,      \* processes; each has one connection behind a mutex
    Tasks,      \* actions to carry out and record
    Proc,       \* the process of a task
    Daemon,     \* the tasks of the daemon: audit first
    NoTask,
    Forged      \* a payload nobody appended

ASSUME TasksAssumption ==
    /\ Proc \in [Tasks -> Procs]
    /\ Daemon \subseteq Tasks
    /\ NoTask \notin Tasks
    /\ Forged \notin Tasks

VARIABLES
    phase,      \* where a task is
    snap,       \* the rows its transaction reads
    mutex,      \* the task that has locked a process's connection
    writer,     \* the task that has SQLite's write lock
    log,        \* table audit_ledger, by entry_id
    synced,     \* rows that survive a power loss
    effect,     \* tasks whose command has run, whose patch is applied
    lost,       \* a power loss has taken committed rows
    damage      \* 0, or the first row that was changed behind the ledger's back

lockVars == <<mutex, writer>>
ledgerVars == <<log, synced, lost, damage>>
vars == <<phase, snap, lockVars, ledgerVars, effect>>

GENESIS_HASH == <<>>

Init ==
    /\ phase = [t \in Tasks |-> "idle"]
    /\ snap = [t \in Tasks |-> <<>>]
    /\ mutex = [p \in Procs |-> NoTask]
    /\ writer = NoTask
    /\ log = <<>> /\ synced = 0
    /\ effect = {} /\ lost = FALSE /\ damage = 0

-----------------------------------------------------------------------------
(* Rows.                                                                   *)

hash_without_payload(id, payload, prev) ==
    Append(prev, [id |-> id, payload |-> Forged])
compute_entry_hash(id, payload, prev) ==
    Append(prev, [id |-> id, payload |-> payload])

LastHash(rows) ==
    IF rows = <<>> THEN GENESIS_HASH ELSE rows[Len(rows)].hash

LastId(rows) == IF rows = <<>> THEN 0 ELSE rows[Len(rows)].id

NextRow(rows, t) ==
    LET id == LastId(rows) + 1
    IN  [id |-> id, payload |-> t, prev |-> LastHash(rows),
         hash |-> compute_entry_hash(id, t, LastHash(rows))]

\* What verify_integrity asks of row i: its id, its link and its own hash.
RowVerifies(rows, i) ==
    /\ rows[i].id = i
    /\ rows[i].prev = IF i = 1 THEN GENESIS_HASH ELSE rows[i - 1].hash
    /\ rows[i].hash =
         compute_entry_hash(rows[i].id, rows[i].payload, rows[i].prev)

\* is_valid of its report; the rows before the first that fails are counted
\* as verified.
is_valid(rows) == \A i \in 1..Len(rows) : RowVerifies(rows, i)

-----------------------------------------------------------------------------
(* A task.                                                                 *)

\* A frame asks for the action.
StartActing(t) == "act"
Start(t) == IF t \in Daemon THEN "lock" ELSE "act"

Begin(t) ==
    /\ phase[t] = "idle"
    /\ phase' = [phase EXCEPT ![t] = Start(t)]
    /\ UNCHANGED <<snap, lockVars, ledgerVars, effect>>

\* The screen is spawned, the patch applied.
Act(t) ==
    /\ phase[t] = "act"
    /\ effect' = effect \cup {t}
    /\ phase' = [phase EXCEPT ![t] = IF t \in Daemon THEN "ok" ELSE "lock"]
    /\ UNCHANGED <<snap, lockVars, ledgerVars>>

\* The jail refuses the path, the spawn or the patch fails.
ActFails(t) ==
    /\ phase[t] = "act"
    /\ phase' = [phase EXCEPT ![t] = "error"]
    /\ UNCHANGED <<snap, lockVars, ledgerVars, effect>>

\* append_with_hash: the connection's mutex ...
Lock(t) ==
    /\ phase[t] = "lock"
    /\ mutex[Proc[t]] = NoTask
    /\ mutex' = [mutex EXCEPT ![Proc[t]] = t]
    /\ phase' = [phase EXCEPT ![t] = "select"]
    /\ UNCHANGED <<snap, writer, ledgerVars, effect>>

\* ... the deferred transaction reads the last row ...
Select(t) ==
    /\ phase[t] = "select"
    /\ snap' = [snap EXCEPT ![t] = log]
    /\ phase' = [phase EXCEPT ![t] = "insert"]
    /\ UNCHANGED <<lockVars, ledgerVars, effect>>

\* ... the INSERT takes the write lock, if no other connection has it or has
\* committed since the read (SQLITE_BUSY, SQLITE_BUSY_SNAPSHOT) ...
MayWriteStale(t) == writer = NoTask
MayWrite(t) == writer = NoTask /\ snap[t] = log

Insert(t) ==
    /\ phase[t] = "insert"
    /\ MayWrite(t)
    /\ writer' = t
    /\ phase' = [phase EXCEPT ![t] = "commit"]
    /\ UNCHANGED <<snap, mutex, ledgerVars, effect>>

\* ... and the row is there.
Commit(t) ==
    /\ phase[t] = "commit"
    /\ log' = Append(log, NextRow(snap[t], t))
    /\ writer' = NoTask
    /\ mutex' = [mutex EXCEPT ![Proc[t]] = NoTask]
    /\ phase' = [phase EXCEPT ![t] = IF t \in Daemon THEN "act" ELSE "ok"]
    /\ UNCHANGED <<snap, synced, lost, damage, effect>>

\* Any of the three statements fails: the transaction is rolled back.  The
\* daemon answers with an error and does not act; a front end ends its turn.
FailedIgnored(t) == IF t \in Daemon THEN "act" ELSE "ok"
Failed(t) == "error"

Rollback(t) == writer' = IF writer = t THEN NoTask ELSE writer

AppendFails(t) ==
    /\ phase[t] \in {"select", "insert", "commit"}
    /\ Rollback(t)
    /\ mutex' = [mutex EXCEPT ![Proc[t]] = NoTask]
    /\ phase' = [phase EXCEPT ![t] = Failed(t)]
    /\ UNCHANGED <<snap, ledgerVars, effect>>

-----------------------------------------------------------------------------
(* Crashes, the disk and damage (external).                                *)

Underway == {"act", "lock", "select", "insert", "commit"}

\* The phases after the processes P died; what has not begun can begin when
\* they are started again.
Killed(P) ==
    [t \in Tasks |-> IF Proc[t] \in P /\ phase[t] \in Underway THEN "dead"
                     ELSE phase[t]]

\* A process dies: its transaction is rolled back, committed rows stay.
Crash(p) ==
    /\ phase' = Killed({p})
    /\ mutex' = [mutex EXCEPT ![p] = NoTask]
    /\ writer' = IF writer \in Tasks /\ Proc[writer] = p THEN NoTask ELSE writer
    /\ UNCHANGED <<snap, ledgerVars, effect>>

\* The write-ahead log is flushed (a checkpoint): synchronous = NORMAL does
\* not do it on commit.
Sync ==
    /\ synced # Len(log)
    /\ synced' = Len(log)
    /\ UNCHANGED <<phase, snap, lockVars, log, lost, damage, effect>>

\* The machine dies: every process with it, and rows not flushed yet.
PowerLoss ==
    /\ \E k \in synced..Len(log) :
         /\ log' = SubSeq(log, 1, k)
         /\ synced' = k
         /\ lost' = (lost \/ k < Len(log))
         /\ damage' = IF damage > k THEN 0 ELSE damage
    /\ phase' = Killed(Procs)
    /\ mutex' = [p \in Procs |-> NoTask]
    /\ writer' = NoTask
    /\ UNCHANGED <<snap, effect>>

\* A row edited in the file: its payload, or its link.
Edited(row) ==
    {[row EXCEPT !.payload = Forged],
     [row EXCEPT !.prev = Append(@, [id |-> 0, payload |-> Forged])]}

EditRow ==
    /\ damage = 0 /\ writer = NoTask
    /\ \E i \in 1..Len(log) :
         /\ \E row \in Edited(log[i]) : log' = [log EXCEPT ![i] = row]
         /\ damage' = i
    /\ UNCHANGED <<phase, snap, lockVars, synced, lost, effect>>

\* A row that is not the last is deleted.
DeleteRow ==
    /\ damage = 0 /\ writer = NoTask
    /\ \E i \in 1..(Len(log) - 1) :
         /\ log' = [j \in 1..(Len(log) - 1) |->
                      IF j < i THEN log[j] ELSE log[j + 1]]
         /\ damage' = i
         /\ synced' = Len(log) - 1
    /\ UNCHANGED <<phase, snap, lockVars, lost, effect>>

-----------------------------------------------------------------------------
TaskNext(t) ==
    \/ Begin(t) \/ Act(t) \/ ActFails(t) \/ Lock(t) \/ Select(t) \/ Insert(t)
    \/ Commit(t) \/ AppendFails(t)

Next ==
    \/ \E t \in Tasks : TaskNext(t)
    \/ \E p \in Procs : Crash(p)
    \/ Sync \/ PowerLoss \/ EditRow \/ DeleteRow

Spec == Init /\ [][Next]_vars

-----------------------------------------------------------------------------
(* What the ledger promises.                                               *)

Payloads == Tasks \cup {Forged}
Hashes == Seq([id : Nat, payload : Payloads])
Rows == [id : Nat, payload : Payloads, prev : Hashes, hash : Hashes]

\* A lock is held by a task in the middle of its append, and by no other.
LocksOK ==
    /\ \A t \in Tasks :
         phase[t] \in {"select", "insert", "commit"} <=> mutex[Proc[t]] = t
    /\ \A t \in Tasks : phase[t] = "commit" <=> writer = t

\* Type invariant, with the discipline of the two locks.
TypeOK ==
    /\ phase \in [Tasks -> Underway \cup {"idle", "ok", "error", "dead"}]
    /\ snap \in [Tasks -> Seq(Rows)]
    /\ mutex \in [Procs -> Tasks \cup {NoTask}]
    /\ writer \in Tasks \cup {NoTask}
    /\ log \in Seq(Rows)
    /\ synced \in 0..Len(log)
    /\ effect \subseteq Tasks
    /\ lost \in BOOLEAN
    /\ damage \in 0..Len(log)
    /\ LocksOK

\* The chain verifies as long as nobody edits the file: whatever processes
\* append at the same time, fail, crash, and whatever a power loss takes.
ChainVerifies == damage = 0 => is_valid(log)

\* A damaged ledger stays visibly damaged at the row where it was touched,
\* however many rows are appended to it afterwards: verify_integrity counts
\* the rows before it as verified and reports that one.
DamageIsLocated ==
    damage # 0 =>
        /\ ~RowVerifies(log, damage)
        /\ \A i \in 1..(damage - 1) : RowVerifies(log, i)

Recorded(t) == \E i \in 1..Len(log) : log[i].payload = t

\* Rows may be missing that were there.
Impaired == lost \/ damage # 0

\* "Mandatory Audit Logging": the daemon has recorded what it has done, at
\* every instant, however its append raced with those of other processes.
DaemonActsAreRecorded ==
    \A t \in Daemon \cap effect : Impaired \/ Recorded(t)

\* No silent omission: an action that is reported done, by the daemon or by a
\* front end, is in the ledger.
DoneIsRecorded ==
    \A t \in Tasks : phase[t] = "ok" => Impaired \/ Recorded(t)

=============================================================================
