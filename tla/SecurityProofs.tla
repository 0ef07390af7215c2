---------------------------- MODULE SecurityProofs ----------------------------
(***************************************************************************)
(* Theorems about the two stores of crates/syntropy-security: AuditLedger, *)
(* for any processes and any tasks, and Keystore, for any processes, calls *)
(* and keys.                                                               *)
(***************************************************************************)
EXTENDS AuditLedger, Keystore, SequenceTheorems, TLAPS

-----------------------------------------------------------------------------
(* AuditLedger: type correctness and the locks.                            *)

TaskTypes ==
    /\ phase \in [Tasks -> Underway \cup {"idle", "ok", "error", "dead"}]
    /\ mutex \in [Procs -> Tasks \cup {NoTask}]
    /\ writer \in Tasks \cup {NoTask}
    /\ effect \subseteq Tasks
    /\ LocksOK

LogTypes ==
    /\ snap \in [Tasks -> Seq(Rows)]
    /\ log \in Seq(Rows)
    /\ synced \in 0..Len(log)
    /\ damage \in 0..Len(log)

\* Every step keeps the tasks and the two locks in order.
LEMMA TaskStep == TaskTypes /\ [Next]_vars => TaskTypes'
<1> SUFFICES ASSUME TaskTypes, [Next]_vars
             PROVE  TaskTypes'
    OBVIOUS
<1> USE TasksAssumption
<1> USE DEF TaskTypes, LocksOK, Underway, lockVars, ledgerVars

<1>1. ASSUME NEW t \in Tasks, Begin(t)
      PROVE  TaskTypes'
    BY <1>1 DEF Begin, Start
<1>2. ASSUME NEW t \in Tasks, Act(t)
      PROVE  TaskTypes'
    BY <1>2 DEF Act
<1>3. ASSUME NEW t \in Tasks, ActFails(t)
      PROVE  TaskTypes'
    BY <1>3 DEF ActFails
<1>4. ASSUME NEW t \in Tasks, Lock(t)
      PROVE  TaskTypes'
    BY <1>4 DEF Lock
<1>5. ASSUME NEW t \in Tasks, Select(t)
      PROVE  TaskTypes'
    BY <1>5 DEF Select
<1>6. ASSUME NEW t \in Tasks, Insert(t)
      PROVE  TaskTypes'
    BY <1>6 DEF Insert, MayWrite
<1>7. ASSUME NEW t \in Tasks, Commit(t)
      PROVE  TaskTypes'
    BY <1>7 DEF Commit
<1>8. ASSUME NEW t \in Tasks, AppendFails(t)
      PROVE  TaskTypes'
    BY <1>8 DEF AppendFails, Rollback, Failed
<1>9. ASSUME NEW p \in Procs, Crash(p)
      PROVE  TaskTypes'
    BY <1>9 DEF Crash, Killed
<1>10. CASE Sync
    BY <1>10 DEF Sync
<1>11. CASE PowerLoss
    BY <1>11 DEF PowerLoss, Killed
<1>12. CASE EditRow
    BY <1>12 DEF EditRow
<1>13. CASE DeleteRow
    BY <1>13 DEF DeleteRow
<1>14. CASE UNCHANGED vars
    BY <1>14 DEF vars
<1> QED
    BY <1>1, <1>2, <1>3, <1>4, <1>5, <1>6, <1>7, <1>8, <1>9,
       <1>10, <1>11, <1>12, <1>13, <1>14
       DEF Next, TaskNext

\* The row that is inserted is a row.
LEMMA NextRowType ==
    ASSUME NEW rows \in Seq(Rows), NEW t \in Tasks
    PROVE  NextRow(rows, t) \in Rows
<1>1. LastHash(rows) \in Hashes /\ LastId(rows) \in Nat
    <2>1. CASE rows = <<>>
        BY <2>1 DEF LastHash, LastId, GENESIS_HASH, Hashes
    <2>2. CASE rows # <<>>
        <3>1. Len(rows) \in 1..Len(rows)
            BY <2>2, EmptySeq
        <3>2. rows[Len(rows)] \in Rows
            BY <3>1, ElementOfSeq
        <3> QED
            BY <2>2, <3>2 DEF LastHash, LastId, Rows
    <2> QED
        BY <2>1, <2>2
<1>2. [id |-> LastId(rows) + 1, payload |-> t]
          \in [id : Nat, payload : Payloads]
    BY <1>1 DEF Payloads
<1>3. compute_entry_hash(LastId(rows) + 1, t, LastHash(rows)) \in Hashes
    BY <1>1, <1>2, AppendProperties DEF compute_entry_hash, Hashes
<1> QED
    BY <1>1, <1>3 DEF NextRow, Rows, Payloads

\* An edited row still has the columns of a row.
LEMMA EditedType ==
    ASSUME NEW row \in Rows
    PROVE  Edited(row) \subseteq Rows
<1>1. Append(row.prev, [id |-> 0, payload |-> Forged]) \in Hashes
    BY AppendProperties DEF Rows, Hashes, Payloads
<1> QED
    BY <1>1 DEF Edited, Rows, Payloads

\* Cutting a log leaves a log.
LEMMA CutType ==
    ASSUME NEW rows \in Seq(Rows), NEW k \in 0..Len(rows)
    PROVE  /\ SubSeq(rows, 1, k) \in Seq(Rows)
           /\ Len(SubSeq(rows, 1, k)) = k
           /\ \A i \in 1..k : SubSeq(rows, 1, k)[i] = rows[i]
OBVIOUS

\* Every step leaves a table of rows.
LEMMA LogStep == LogTypes /\ [Next]_vars => LogTypes'
<1> SUFFICES ASSUME LogTypes, [Next]_vars
             PROVE  LogTypes'
    OBVIOUS
<1> USE DEF LogTypes, lockVars, ledgerVars

<1>1. ASSUME NEW t \in Tasks, Begin(t)
      PROVE  LogTypes'
    BY <1>1 DEF Begin, Start
<1>2. ASSUME NEW t \in Tasks, Act(t)
      PROVE  LogTypes'
    BY <1>2 DEF Act
<1>3. ASSUME NEW t \in Tasks, ActFails(t)
      PROVE  LogTypes'
    BY <1>3 DEF ActFails
<1>4. ASSUME NEW t \in Tasks, Lock(t)
      PROVE  LogTypes'
    BY <1>4 DEF Lock
<1>5. ASSUME NEW t \in Tasks, Select(t)
      PROVE  LogTypes'
    BY <1>5 DEF Select
<1>6. ASSUME NEW t \in Tasks, Insert(t)
      PROVE  LogTypes'
    BY <1>6 DEF Insert, MayWrite
<1>7. ASSUME NEW t \in Tasks, Commit(t)
      PROVE  LogTypes'
    <2>1. NextRow(snap[t], t) \in Rows
        BY NextRowType
    <2> QED
        BY <1>7, <2>1, AppendProperties DEF Commit
<1>8. ASSUME NEW t \in Tasks, AppendFails(t)
      PROVE  LogTypes'
    BY <1>8 DEF AppendFails, Rollback, Failed
<1>9. ASSUME NEW p \in Procs, Crash(p)
      PROVE  LogTypes'
    BY <1>9 DEF Crash, Killed
<1>10. CASE Sync
    BY <1>10 DEF Sync
<1>11. CASE PowerLoss
    <2>1. PICK k \in synced..Len(log) :
              /\ log' = SubSeq(log, 1, k)
              /\ synced' = k
              /\ damage' = IF damage > k THEN 0 ELSE damage
        BY <1>11 DEF PowerLoss
    <2> QED
        BY <1>11, <2>1, CutType DEF PowerLoss
<1>12. CASE EditRow
    <2>1. PICK i \in 1..Len(log) :
              /\ \E row \in Edited(log[i]) : log' = [log EXCEPT ![i] = row]
              /\ damage' = i
        BY <1>12 DEF EditRow
    <2>2. PICK row \in Edited(log[i]) : log' = [log EXCEPT ![i] = row]
        BY <2>1
    <2>3. row \in Rows
        BY ElementOfSeq, EditedType
    <2>4. log' \in Seq(Rows) /\ Len(log') = Len(log)
        BY <2>2, <2>3
    <2> QED
        BY <1>12, <2>1, <2>4 DEF EditRow
<1>13. CASE DeleteRow
    <2>1. PICK i \in 1..(Len(log) - 1) :
              /\ log' = [j \in 1..(Len(log) - 1) |->
                           IF j < i THEN log[j] ELSE log[j + 1]]
              /\ damage' = i
              /\ synced' = Len(log) - 1
        BY <1>13 DEF DeleteRow
    <2>2. \A j \in 1..(Len(log) - 1) : log[j] \in Rows /\ log[j + 1] \in Rows
        BY ElementOfSeq
    <2>3. log' \in Seq(Rows) /\ Len(log') = Len(log) - 1
        BY <2>1, <2>2
    <2> QED
        BY <1>13, <2>1, <2>3 DEF DeleteRow
<1>14. CASE UNCHANGED vars
    BY <1>14 DEF vars
<1> QED
    BY <1>1, <1>2, <1>3, <1>4, <1>5, <1>6, <1>7, <1>8, <1>9,
       <1>10, <1>11, <1>12, <1>13, <1>14
       DEF Next, TaskNext

\* Type correctness, and the locks are held by appending tasks only.
THEOREM TypeCorrect == Spec => []TypeOK
<1>1. Init => TaskTypes
    BY TasksAssumption DEF Init, TaskTypes, LocksOK
<1>2. Init => LogTypes
    BY DEF Init, LogTypes
<1>3. Init => lost \in BOOLEAN
    BY DEF Init
<1>4. lost \in BOOLEAN /\ [Next]_vars => (lost \in BOOLEAN)'
    BY DEF Next, TaskNext, vars, ledgerVars, Begin, Act, ActFails, Lock, Select,
           Insert, Commit, AppendFails, Crash, Sync, PowerLoss, EditRow, DeleteRow
<1>5. TaskTypes /\ LogTypes /\ lost \in BOOLEAN => TypeOK
    BY DEF TaskTypes, LogTypes, TypeOK
<1> QED
    BY <1>1, <1>2, <1>3, <1>4, <1>5, TaskStep, LogStep, PTL DEF Spec

-----------------------------------------------------------------------------
(* The chain.  What a transaction is about to insert continues the table   *)
(* as it is, because nobody can have committed since it was read; and the  *)
(* rows before the damage, if any, are those that were appended.           *)

Sound(i) == RowVerifies(log, i) /\ log[i].payload \in Tasks

ChainInv ==
    /\ \A t \in Tasks : phase[t] = "commit" => snap[t] = log
    /\ \A i \in 1..Len(log) : damage = 0 \/ i < damage => Sound(i)
    /\ damage # 0 => ~RowVerifies(log, damage)

\* Whether a row verifies depends on that row and the one before it.
LEMMA RowLocal ==
    ASSUME NEW rows, NEW others, NEW i \in Nat \ {0},
           others[i] = rows[i],
           i > 1 => others[i - 1] = rows[i - 1]
    PROVE  RowVerifies(others, i) <=> RowVerifies(rows, i)
BY DEF RowVerifies

\* A new row leaves the verdict on the old ones as it was.
LEMMA AppendKeepsRows ==
    ASSUME NEW rows \in Seq(Rows), NEW row \in Rows
    PROVE  \A i \in 1..Len(rows) :
               /\ Append(rows, row)[i] = rows[i]
               /\ RowVerifies(Append(rows, row), i) <=> RowVerifies(rows, i)
<1>1. \A i \in 1..Len(rows) : Append(rows, row)[i] = rows[i]
    BY AppendProperties
<1> SUFFICES ASSUME NEW i \in 1..Len(rows)
             PROVE  RowVerifies(Append(rows, row), i) <=> RowVerifies(rows, i)
    BY <1>1
<1>2. i > 1 => i - 1 \in 1..Len(rows)
    OBVIOUS
<1> QED
    BY <1>1, <1>2 DEF RowVerifies

\* The row that an append makes of the table it has read verifies.
LEMMA NextRowVerifies ==
    ASSUME NEW rows \in Seq(Rows), NEW t \in Tasks,
           rows # <<>> => rows[Len(rows)].id = Len(rows)
    PROVE  RowVerifies(Append(rows, NextRow(rows, t)), Len(rows) + 1)
<1> DEFINE all == Append(rows, NextRow(rows, t))
<1>1. NextRow(rows, t) \in Rows
    BY NextRowType
<1>2. all[Len(rows) + 1] = NextRow(rows, t)
    BY <1>1, AppendProperties
<1>3. CASE rows = <<>>
    BY <1>2, <1>3 DEF RowVerifies, NextRow, LastId, LastHash
<1>4. CASE rows # <<>>
    <2>1. Len(rows) \in Nat \ {0}
        BY <1>4, EmptySeq
    <2>2. all[Len(rows)] = rows[Len(rows)]
        BY <1>1, <2>1, AppendProperties
    <2> HIDE DEF all
    <2> QED
        BY <1>2, <1>4, <2>1, <2>2 DEF RowVerifies, NextRow, LastId, LastHash
<1> QED
    BY <1>3, <1>4

\* Cutting the table leaves the verdict on what remains as it was.
LEMMA CutKeepsRows ==
    ASSUME NEW rows \in Seq(Rows), NEW k \in 0..Len(rows)
    PROVE  \A i \in 1..k :
               /\ SubSeq(rows, 1, k)[i] = rows[i]
               /\ RowVerifies(SubSeq(rows, 1, k), i) <=> RowVerifies(rows, i)
<1>1. \A i \in 1..k : SubSeq(rows, 1, k)[i] = rows[i]
    BY CutType
<1> SUFFICES ASSUME NEW i \in 1..k
             PROVE  RowVerifies(SubSeq(rows, 1, k), i) <=> RowVerifies(rows, i)
    BY <1>1
<1>2. i > 1 => i - 1 \in 1..k
    OBVIOUS
<1> QED
    BY <1>1, <1>2 DEF RowVerifies

\* An edited row no longer verifies.
LEMMA EditedRowFails ==
    ASSUME NEW rows \in Seq(Rows), NEW i \in 1..Len(rows),
           RowVerifies(rows, i), rows[i].payload \in Tasks,
           NEW row \in Edited(rows[i])
    PROVE  ~RowVerifies([rows EXCEPT ![i] = row], i)
<1> DEFINE all == [rows EXCEPT ![i] = row]
           forged == [id |-> 0, payload |-> Forged]
<1>1. rows[i] \in Rows
    BY ElementOfSeq
<1>2. all[i] = row /\ (i > 1 => all[i - 1] = rows[i - 1])
    OBVIOUS
<1>3. CASE row = [rows[i] EXCEPT !.payload = Forged]
    <2>1. /\ row.id = rows[i].id /\ row.prev = rows[i].prev
          /\ row.hash = rows[i].hash /\ row.payload = Forged
        BY <1>1, <1>3 DEF Rows
    <2>2. [id |-> rows[i].id, payload |-> rows[i].payload]
              # [id |-> rows[i].id, payload |-> Forged]
        BY TasksAssumption
    <2>3. /\ [id |-> rows[i].id, payload |-> rows[i].payload]
               \in [id : Nat, payload : Payloads]
          /\ [id |-> rows[i].id, payload |-> Forged]
               \in [id : Nat, payload : Payloads]
          /\ rows[i].prev \in Seq([id : Nat, payload : Payloads])
        BY <1>1 DEF Rows, Payloads, Hashes
    <2>4. Append(rows[i].prev, [id |-> rows[i].id, payload |-> rows[i].payload])
              # Append(rows[i].prev, [id |-> rows[i].id, payload |-> Forged])
        BY <2>2, <2>3, AppendInjective
    <2> HIDE DEF all
    <2> QED
        BY <1>2, <2>1, <2>4 DEF RowVerifies, compute_entry_hash
<1>4. CASE row = [rows[i] EXCEPT !.prev = Append(rows[i].prev, forged)]
    <2>1. /\ forged \in [id : Nat, payload : Payloads]
          /\ rows[i].prev \in Seq([id : Nat, payload : Payloads])
        BY <1>1 DEF Rows, Payloads, Hashes
    <2>2. Append(rows[i].prev, forged) # rows[i].prev
        BY <2>1, AppendProperties
    <2>3. row.prev = Append(rows[i].prev, forged)
        BY <1>1, <1>4 DEF Rows
    <2> HIDE DEF all, forged
    <2> QED
        BY <1>2, <2>2, <2>3 DEF RowVerifies
<1> QED
    BY <1>3, <1>4 DEF Edited

\* Every step keeps the chain.
LEMMA ChainStep == TaskTypes /\ LogTypes /\ ChainInv /\ [Next]_vars => ChainInv'
<1> SUFFICES ASSUME TaskTypes /\ LogTypes /\ ChainInv, [Next]_vars
             PROVE  ChainInv'
    OBVIOUS
<1> USE DEF LogTypes, ChainInv

<1>1. ASSUME NEW t \in Tasks, Begin(t)
      PROVE  ChainInv'
    <2>1. UNCHANGED <<log, damage>>
        BY <1>1 DEF Begin, ledgerVars
    <2>2. \A u \in Tasks : phase'[u] = "commit" => snap'[u] = log
        BY <1>1 DEF Begin, Start, TaskTypes, LocksOK
    <2> QED
        BY <2>1, <2>2 DEF Sound
<1>2. ASSUME NEW t \in Tasks, Act(t)
      PROVE  ChainInv'
    <2>1. UNCHANGED <<log, damage>>
        BY <1>2 DEF Act, ledgerVars
    <2>2. \A u \in Tasks : phase'[u] = "commit" => snap'[u] = log
        BY <1>2 DEF Act, TaskTypes, LocksOK
    <2> QED
        BY <2>1, <2>2 DEF Sound
<1>3. ASSUME NEW t \in Tasks, ActFails(t)
      PROVE  ChainInv'
    <2>1. UNCHANGED <<log, damage>>
        BY <1>3 DEF ActFails, ledgerVars
    <2>2. \A u \in Tasks : phase'[u] = "commit" => snap'[u] = log
        BY <1>3 DEF ActFails, TaskTypes, LocksOK
    <2> QED
        BY <2>1, <2>2 DEF Sound
<1>4. ASSUME NEW t \in Tasks, Lock(t)
      PROVE  ChainInv'
    <2>1. UNCHANGED <<log, damage>>
        BY <1>4 DEF Lock, ledgerVars
    <2>2. \A u \in Tasks : phase'[u] = "commit" => snap'[u] = log
        BY <1>4 DEF Lock, TaskTypes, LocksOK
    <2> QED
        BY <2>1, <2>2 DEF Sound
<1>5. ASSUME NEW t \in Tasks, Select(t)
      PROVE  ChainInv'
    <2>1. UNCHANGED <<log, damage>>
        BY <1>5 DEF Select, ledgerVars
    <2>2. \A u \in Tasks : phase'[u] = "commit" => snap'[u] = log
        BY <1>5 DEF Select, TaskTypes, LocksOK
    <2> QED
        BY <2>1, <2>2 DEF Sound
<1>6. ASSUME NEW t \in Tasks, Insert(t)
      PROVE  ChainInv'
    <2>1. UNCHANGED <<log, damage>>
        BY <1>6 DEF Insert, ledgerVars
    <2>2. \A u \in Tasks : phase'[u] = "commit" => snap'[u] = log
        BY <1>6 DEF Insert, MayWrite, TaskTypes, LocksOK
    <2> QED
        BY <2>1, <2>2 DEF Sound
<1>7. ASSUME NEW t \in Tasks, Commit(t)
      PROVE  ChainInv'
    <2> DEFINE row == NextRow(log, t)
    <2>1. log' = Append(log, row) /\ damage' = damage
        BY <1>7 DEF Commit
    <2>2. row \in Rows
        BY NextRowType
    <2>3. /\ Len(log') = Len(log) + 1
          /\ log'[Len(log) + 1] = row
        BY <2>1, <2>2, AppendProperties
    <2>4. \A i \in 1..Len(log) :
              log'[i] = log[i] /\ (RowVerifies(log', i) <=> RowVerifies(log, i))
        BY <2>1, <2>2, AppendKeepsRows
    <2>5. ASSUME damage = 0
          PROVE  RowVerifies(log', Len(log) + 1)
        <3>1. log # <<>> => Len(log) \in 1..Len(log)
            BY EmptySeq
        <3>2. log # <<>> => log[Len(log)].id = Len(log)
            BY <2>5, <3>1 DEF Sound, RowVerifies
        <3> QED
            BY <2>1, <3>2, NextRowVerifies
    <2>6. row.payload = t
        BY DEF NextRow
    <2>7. ASSUME NEW i \in 1..Len(log'), damage' = 0 \/ i < damage'
          PROVE  RowVerifies(log', i) /\ log'[i].payload \in Tasks
        <3>1. CASE i \in 1..Len(log)
            BY <2>1, <2>4, <2>7, <3>1 DEF Sound
        <3>2. CASE i = Len(log) + 1
            BY <2>1, <2>3, <2>5, <2>6, <2>7, <3>2
        <3> QED
            BY <2>3, <3>1, <3>2
    <2>8. damage' # 0 => ~RowVerifies(log', damage')
        BY <2>1, <2>4
    <2>9. \A u \in Tasks : phase'[u] # "commit"
        BY <1>7 DEF Commit, TaskTypes, LocksOK
    <2> QED
        BY <2>7, <2>8, <2>9 DEF Sound
<1>8. ASSUME NEW t \in Tasks, AppendFails(t)
      PROVE  ChainInv'
    <2>1. UNCHANGED <<log, damage>>
        BY <1>8 DEF AppendFails, ledgerVars
    <2>2. \A u \in Tasks : phase'[u] = "commit" => snap'[u] = log
        BY <1>8 DEF AppendFails, Rollback, Failed, TaskTypes, LocksOK
    <2> QED
        BY <2>1, <2>2 DEF Sound
<1>9. ASSUME NEW p \in Procs, Crash(p)
      PROVE  ChainInv'
    <2>1. UNCHANGED <<log, damage>>
        BY <1>9 DEF Crash, ledgerVars
    <2>2. \A u \in Tasks : phase'[u] = "commit" => snap'[u] = log
        BY <1>9 DEF Crash, Killed, TaskTypes, LocksOK
    <2> QED
        BY <2>1, <2>2 DEF Sound
<1>10. CASE Sync
    <2>1. UNCHANGED <<log, damage>>
        BY <1>10 DEF Sync, ledgerVars
    <2>2. \A u \in Tasks : phase'[u] = "commit" => snap'[u] = log
        BY <1>10 DEF Sync, TaskTypes, LocksOK
    <2> QED
        BY <2>1, <2>2 DEF Sound
<1>11. CASE PowerLoss
    <2>1. PICK k \in synced..Len(log) :
              /\ log' = SubSeq(log, 1, k)
              /\ damage' = IF damage > k THEN 0 ELSE damage
        BY <1>11 DEF PowerLoss
    <2>2. k \in 0..Len(log)
        OBVIOUS
    <2>3. Len(log') = k
        BY <2>1, <2>2, CutType
    <2>4. \A i \in 1..k :
              log'[i] = log[i] /\ (RowVerifies(log', i) <=> RowVerifies(log, i))
        BY <2>1, <2>2, CutKeepsRows
    <2>5. \A t \in Tasks : phase'[t] # "commit"
        BY <1>11, TasksAssumption DEF PowerLoss, Killed, TaskTypes, Underway
    <2>6. ASSUME NEW i \in 1..Len(log'), damage' = 0 \/ i < damage'
          PROVE  Sound(i)'
        <3>1. i \in 1..k /\ i \in 1..Len(log)
            BY <2>2, <2>3
        <3>2. damage = 0 \/ i < damage
            BY <2>1, <2>6, <3>1
        <3>3. Sound(i)
            BY <3>1, <3>2
        <3> QED
            BY <2>4, <3>1, <3>3 DEF Sound
    <2>7. ASSUME damage' # 0
          PROVE  ~RowVerifies(log', damage')
        <3>1. damage # 0 /\ damage' = damage /\ damage \in 1..k
            BY <2>1, <2>2, <2>7
        <3> QED
            BY <2>4, <3>1
    <2> QED
        BY <2>5, <2>6, <2>7
<1>12. CASE EditRow
    <2>1. PICK i \in 1..Len(log) :
              /\ \E row \in Edited(log[i]) : log' = [log EXCEPT ![i] = row]
              /\ damage' = i
        BY <1>12 DEF EditRow
    <2>2. PICK row \in Edited(log[i]) : log' = [log EXCEPT ![i] = row]
        BY <2>1
    <2>3. Sound(i)
        BY <1>12 DEF EditRow
    <2>4. ~RowVerifies(log', i)
        BY <2>2, <2>3, EditedRowFails DEF Sound
    <2>5. Len(log') = Len(log) /\ \A j \in 1..(i - 1) : log'[j] = log[j]
        BY <2>2
    <2>6. ASSUME NEW j \in 1..(i - 1)
          PROVE  RowVerifies(log', j) /\ log'[j].payload \in Tasks
        <3>1. Sound(j)
            BY <1>12 DEF EditRow
        <3>2. j > 1 => log'[j - 1] = log[j - 1]
            BY <2>5
        <3> QED
            BY <2>5, <3>1, <3>2, RowLocal DEF Sound
    <2>7. \A t \in Tasks : phase'[t] # "commit"
        BY <1>12, TasksAssumption DEF EditRow, TaskTypes, LocksOK
    <2>8. \A j \in 1..Len(log') : damage' = 0 \/ j < damage' => j \in 1..(i - 1)
        BY <2>1
    <2>9. \A j \in 1..Len(log') : damage' = 0 \/ j < damage' => Sound(j)'
        BY <2>6, <2>8 DEF Sound
    <2> QED
        BY <2>1, <2>4, <2>7, <2>9
<1>13. CASE DeleteRow
    <2>1. PICK i \in 1..(Len(log) - 1) :
              /\ log' = [j \in 1..(Len(log) - 1) |->
                           IF j < i THEN log[j] ELSE log[j + 1]]
              /\ damage' = i
        BY <1>13 DEF DeleteRow
    <2>2. log'[i] = log[i + 1] /\ \A j \in 1..(i - 1) : log'[j] = log[j]
        BY <2>1
    <2>3. log[i + 1].id = i + 1
        BY <1>13 DEF DeleteRow, Sound, RowVerifies
    <2>4. ~RowVerifies(log', i)
        BY <2>2, <2>3 DEF RowVerifies
    <2>5. ASSUME NEW j \in 1..(i - 1)
          PROVE  RowVerifies(log', j) /\ log'[j].payload \in Tasks
        <3>1. Sound(j)
            BY <1>13 DEF DeleteRow
        <3>2. j > 1 => log'[j - 1] = log[j - 1]
            BY <2>2
        <3> QED
            BY <2>2, <3>1, <3>2, RowLocal DEF Sound
    <2>6. \A t \in Tasks : phase'[t] # "commit"
        BY <1>13, TasksAssumption DEF DeleteRow, TaskTypes, LocksOK
    <2>7. \A j \in 1..Len(log') : damage' = 0 \/ j < damage' => j \in 1..(i - 1)
        BY <2>1
    <2>8. \A j \in 1..Len(log') : damage' = 0 \/ j < damage' => Sound(j)'
        BY <2>5, <2>7 DEF Sound
    <2> QED
        BY <2>1, <2>4, <2>6, <2>8
<1>14. CASE UNCHANGED vars
    BY <1>14 DEF vars, Sound, ledgerVars
<1> QED
    BY <1>1, <1>2, <1>3, <1>4, <1>5, <1>6, <1>7, <1>8, <1>9,
       <1>10, <1>11, <1>12, <1>13, <1>14
       DEF Next, TaskNext

\* The chain verifies until somebody edits the file behind the ledger's back:
\* concurrent appends of any number of processes, failed transactions, crashes
\* and power losses never break it.
THEOREM ChainCorrect == Spec => []ChainVerifies
<1>1. Init => TaskTypes
    BY TasksAssumption DEF Init, TaskTypes, LocksOK
<1>2. Init => LogTypes
    BY DEF Init, LogTypes
<1>3. Init => ChainInv
    BY DEF Init, ChainInv
<1>4. ChainInv => ChainVerifies
    BY DEF ChainInv, ChainVerifies, is_valid, Sound
<1> QED
    BY <1>1, <1>2, <1>3, <1>4, TaskStep, LogStep, ChainStep, PTL DEF Spec

\* An edited or deleted row is reported as the first that fails, for ever: no
\* later append repairs the chain or hides the place.
THEOREM DamageLocated == Spec => []DamageIsLocated
<1>1. Init => TaskTypes
    BY TasksAssumption DEF Init, TaskTypes, LocksOK
<1>2. Init => LogTypes
    BY DEF Init, LogTypes
<1>3. Init => ChainInv
    BY DEF Init, ChainInv
<1>4. LogTypes /\ ChainInv => DamageIsLocated
    BY DEF LogTypes, ChainInv, DamageIsLocated, Sound
<1> QED
    BY <1>1, <1>2, <1>3, <1>4, TaskStep, LogStep, ChainStep, PTL DEF Spec

-----------------------------------------------------------------------------
(* What is recorded.  A daemon task is due from its commit on, before its   *)
(* effect; any task is due once it is reported done.                        *)

Due(t) == (t \in Daemon /\ (t \in effect \/ phase[t] = "act")) \/ phase[t] = "ok"

RecordInv == \A t \in Tasks : Due(t) => Impaired \/ Recorded(t)

\* A ledger that may have lost rows stays one.
LEMMA ImpairedStays == LogTypes /\ Impaired /\ [Next]_vars => Impaired'
<1> SUFFICES ASSUME LogTypes, Impaired, [Next]_vars
             PROVE  Impaired'
    OBVIOUS
<1>1. CASE PowerLoss
    <2>1. PICK k \in synced..Len(log) :
              /\ lost' = (lost \/ k < Len(log))
              /\ damage' = IF damage > k THEN 0 ELSE damage
        BY <1>1 DEF PowerLoss
    <2>2. damage # 0 /\ damage' = 0 => k < Len(log)
        BY <2>1 DEF LogTypes
    <2> QED
        BY <2>1, <2>2, Zenon DEF Impaired
<1>2. CASE EditRow \/ DeleteRow
    BY <1>2 DEF EditRow, DeleteRow, Impaired, LogTypes
<1>3. CASE UNCHANGED <<lost, damage>>
    BY <1>3 DEF Impaired
<1>4. PowerLoss \/ EditRow \/ DeleteRow \/ UNCHANGED <<lost, damage>>
    BY DEF Next, TaskNext, vars, ledgerVars, Begin, Act, ActFails, Lock, Select,
           Insert, Commit, AppendFails, Crash, Sync
<1> QED
    BY <1>1, <1>2, <1>3, <1>4

\* A new row records its task and forgets none.
LEMMA AppendRecords ==
    ASSUME NEW rows \in Seq(Rows), NEW t \in Tasks
    PROVE  LET all == Append(rows, NextRow(rows, t))
           IN  /\ all[Len(all)].payload = t
               /\ Len(all) \in 1..Len(all)
               /\ \A i \in 1..Len(rows) : i \in 1..Len(all) /\ all[i] = rows[i]
<1>1. NextRow(rows, t) \in Rows
    BY NextRowType
<1>2. NextRow(rows, t).payload = t
    BY DEF NextRow
<1> QED
    BY <1>1, <1>2, AppendProperties

\* Every step keeps the record of what is due.
LEMMA RecordStep ==
    TaskTypes /\ LogTypes /\ ChainInv /\ RecordInv /\ [Next]_vars => RecordInv'
<1> SUFFICES ASSUME TaskTypes, LogTypes, ChainInv, RecordInv, [Next]_vars
             PROVE  RecordInv'
    OBVIOUS
<1>0. CASE Impaired
    BY <1>0, ImpairedStays DEF RecordInv
<1> SUFFICES ASSUME ~Impaired
             PROVE  RecordInv'
    BY <1>0
<1> USE DEF RecordInv

<1>1. ASSUME NEW t \in Tasks, Begin(t)
      PROVE  RecordInv'
    <2>1. UNCHANGED log
        BY <1>1 DEF Begin, ledgerVars
    <2>2. \A u \in Tasks : Due(u)' => Due(u)
        BY <1>1 DEF Begin, Start, Due, TaskTypes, Underway
    <2> QED
        BY <2>1, <2>2 DEF Recorded
<1>2. ASSUME NEW t \in Tasks, Act(t)
      PROVE  RecordInv'
    <2>1. UNCHANGED log
        BY <1>2 DEF Act, ledgerVars
    <2>2. \A u \in Tasks : Due(u)' => Due(u)
        BY <1>2 DEF Act, Due, TaskTypes, Underway
    <2> QED
        BY <2>1, <2>2 DEF Recorded
<1>3. ASSUME NEW t \in Tasks, ActFails(t)
      PROVE  RecordInv'
    <2>1. UNCHANGED log
        BY <1>3 DEF ActFails, ledgerVars
    <2>2. \A u \in Tasks : Due(u)' => Due(u)
        BY <1>3 DEF ActFails, Due, TaskTypes, Underway
    <2> QED
        BY <2>1, <2>2 DEF Recorded
<1>4. ASSUME NEW t \in Tasks, Lock(t)
      PROVE  RecordInv'
    <2>1. UNCHANGED log
        BY <1>4 DEF Lock, ledgerVars
    <2>2. \A u \in Tasks : Due(u)' => Due(u)
        BY <1>4 DEF Lock, Due, TaskTypes, Underway
    <2> QED
        BY <2>1, <2>2 DEF Recorded
<1>5. ASSUME NEW t \in Tasks, Select(t)
      PROVE  RecordInv'
    <2>1. UNCHANGED log
        BY <1>5 DEF Select, ledgerVars
    <2>2. \A u \in Tasks : Due(u)' => Due(u)
        BY <1>5 DEF Select, Due, TaskTypes, Underway
    <2> QED
        BY <2>1, <2>2 DEF Recorded
<1>6. ASSUME NEW t \in Tasks, Insert(t)
      PROVE  RecordInv'
    <2>1. UNCHANGED log
        BY <1>6 DEF Insert, ledgerVars
    <2>2. \A u \in Tasks : Due(u)' => Due(u)
        BY <1>6 DEF Insert, Due, TaskTypes, Underway
    <2> QED
        BY <2>1, <2>2 DEF Recorded
<1>7. ASSUME NEW t \in Tasks, Commit(t)
      PROVE  RecordInv'
    <2>1. log' = Append(log, NextRow(log, t)) /\ snap[t] = log
        BY <1>7 DEF Commit, ChainInv
    <2>2. /\ \A u \in Tasks : Recorded(u) => Recorded(u)'
          /\ Recorded(t)'
        BY <2>1, AppendRecords DEF Recorded, LogTypes
    <2>3. \A u \in Tasks : Due(u)' => u = t \/ Due(u)
        BY <1>7 DEF Commit, Due, TaskTypes
    <2> QED
        BY <2>2, <2>3
<1>8. ASSUME NEW t \in Tasks, AppendFails(t)
      PROVE  RecordInv'
    <2>1. UNCHANGED log
        BY <1>8 DEF AppendFails, ledgerVars
    <2>2. \A u \in Tasks : Due(u)' => Due(u)
        BY <1>8 DEF AppendFails, Failed, Due, TaskTypes, Underway
    <2> QED
        BY <2>1, <2>2 DEF Recorded
<1>9. ASSUME NEW p \in Procs, Crash(p)
      PROVE  RecordInv'
    <2>1. UNCHANGED log
        BY <1>9 DEF Crash, ledgerVars
    <2>2. \A u \in Tasks : Due(u)' => Due(u)
        BY <1>9, TasksAssumption DEF Crash, Killed, Due, TaskTypes, Underway
    <2> QED
        BY <2>1, <2>2 DEF Recorded
<1>10. CASE Sync
    <2>1. UNCHANGED log
        BY <1>10 DEF Sync, ledgerVars
    <2>2. \A u \in Tasks : Due(u)' => Due(u)
        BY <1>10 DEF Sync, Due, TaskTypes, Underway
    <2> QED
        BY <2>1, <2>2 DEF Recorded
<1>11. CASE PowerLoss
    <2>1. PICK k \in synced..Len(log) :
              log' = SubSeq(log, 1, k) /\ lost' = (lost \/ k < Len(log))
        BY <1>11 DEF PowerLoss
    <2>2. CASE k < Len(log)
        BY <2>1, <2>2 DEF Impaired
    <2>3. CASE k = Len(log)
        <3>1. Len(log') = Len(log) /\ \A i \in 1..Len(log) : log'[i] = log[i]
            BY <2>1, <2>3, CutType DEF LogTypes
        <3>2. \A u \in Tasks : Recorded(u) => Recorded(u)'
            BY <3>1 DEF Recorded
        <3>3. \A u \in Tasks : Due(u)' => Due(u)
            BY <1>11, TasksAssumption
               DEF PowerLoss, Killed, Due, TaskTypes, Underway
        <3> QED
            BY <3>2, <3>3
    <2> QED
        BY <2>2, <2>3 DEF LogTypes
<1>12. CASE EditRow
    BY <1>12 DEF EditRow, Impaired, LogTypes
<1>13. CASE DeleteRow
    BY <1>13 DEF DeleteRow, Impaired, LogTypes
<1>14. CASE UNCHANGED vars
    BY <1>14 DEF vars, ledgerVars, Recorded, Due, Impaired
<1> QED
    BY <1>1, <1>2, <1>3, <1>4, <1>5, <1>6, <1>7, <1>8, <1>9,
       <1>10, <1>11, <1>12, <1>13, <1>14
       DEF Next, TaskNext

\* The daemon never acts without a record: what it has done is in a ledger
\* that has lost nothing, at every instant.
THEOREM DaemonActsRecorded == Spec => []DaemonActsAreRecorded
<1>1. Init => TaskTypes
    BY TasksAssumption DEF Init, TaskTypes, LocksOK
<1>2. Init => LogTypes
    BY DEF Init, LogTypes
<1>3. Init => ChainInv
    BY DEF Init, ChainInv
<1>4. Init => RecordInv
    BY DEF Init, RecordInv, Due
<1>5. TaskTypes /\ RecordInv => DaemonActsAreRecorded
    BY DEF TaskTypes, RecordInv, Due, DaemonActsAreRecorded
<1> QED
    BY <1>1, <1>2, <1>3, <1>4, <1>5, TaskStep, LogStep, ChainStep, RecordStep,
       PTL DEF Spec

\* No action is reported done without its record, whoever carried it out.
THEOREM DoneRecorded == Spec => []DoneIsRecorded
<1>1. Init => TaskTypes
    BY TasksAssumption DEF Init, TaskTypes, LocksOK
<1>2. Init => LogTypes
    BY DEF Init, LogTypes
<1>3. Init => ChainInv
    BY DEF Init, ChainInv
<1>4. Init => RecordInv
    BY DEF Init, RecordInv, Due
<1>5. TaskTypes /\ RecordInv => DoneIsRecorded
    BY DEF TaskTypes, RecordInv, Due, DoneIsRecorded
<1> QED
    BY <1>1, <1>2, <1>3, <1>4, <1>5, TaskStep, LogStep, ChainStep, RecordStep,
       PTL DEF Spec


-----------------------------------------------------------------------------
(* Keystore: type correctness.  A handle is open exactly while it is       *)
(* written to or synced; of that the type of what Write and SyncFile do    *)
(* depends.                                                                *)

Handles == \A a \in Actors : handle[a] # Absent <=> pc[a] \in {"write", "sync"}

CallTypes ==
    /\ fixed \in BOOLEAN
    /\ mem \in [Processes -> Maps]
    /\ pc \in [Actors -> Pcs]
    /\ op \in [Calls -> [proc : Processes, kind : {"set", "delete"}, key : Keys]]
    /\ changes \in [Keys -> Seq(Calls)]

FileTypes ==
    /\ buffer \in [Actors -> Maps]
    /\ handle \in [Actors -> Inodes \cup {Absent}]
    /\ data \in [Inodes -> Maps \cup {Blank, Torn}]
    /\ durable \subseteq Inodes
    /\ temp \in [Actors -> Inodes \cup {Absent}]
    /\ path \in Inodes \cup {Absent}
    /\ Handles

Flags == shared \in BOOLEAN /\ overlapped \in BOOLEAN

TypeInv == CallTypes /\ FileTypes /\ Flags

LEMMA EmptyMapType == EmptyMap \in Maps
BY DEF EmptyMap, Maps

LEMMA HomeType ==
    ASSUME CallTypes, NEW a \in Actors
    PROVE  Home(a) \in Processes
BY DEF CallTypes, Home, Actors

\* Every actor has a temporary name.
LEMMA TempNameType ==
    ASSUME NEW a \in Actors
    PROVE  TempName(a) \in Actors
<1>1. (CHOOSE p \in Processes : TRUE) \in Processes
    BY CallsAssumption
<1> QED
    BY <1>1 DEF TempName, Actors

\* The file that Create opens.
Target(a) ==
    IF temp[TempName(a)] = Absent THEN CHOOSE i \in Unused : TRUE
    ELSE temp[TempName(a)]

\* What Create does, by the file it opens, which is new or has its name.
LEMMA CreateIs ==
    ASSUME FileTypes, NEW a \in Actors, Create(a)
    PROVE  /\ Target(a) \in Inodes
           /\ temp[TempName(a)] = Absent => Target(a) \in Unused
           /\ temp[TempName(a)] # Absent => Target(a) = temp[TempName(a)]
           /\ pc[a] = "persist" /\ pc' = [pc EXCEPT ![a] = "write"]
           /\ buffer' = [buffer EXCEPT ![a] = mem[Home(a)]]
           /\ temp' = [temp EXCEPT ![TempName(a)] = Target(a)]
           /\ handle' = [handle EXCEPT ![a] = Target(a)]
           /\ data' = [data EXCEPT ![Target(a)] = Blank]
           /\ durable' = durable \ {Target(a)}
<1>1. TempName(a) \in Actors
    BY TempNameType
<1>2. temp[TempName(a)] = Absent => Target(a) \in Unused
    BY DEF Create, Target
<1>3. Target(a) \in Inodes
    BY <1>1, <1>2 DEF Target, Unused, FileTypes
<1> QED
    BY <1>2, <1>3 DEF Create, Target, Goto

\* The flags stay flags.
LEMMA FlagStep == Flags /\ [KeystoreNext]_keystoreVars => Flags'
<1> SUFFICES ASSUME Flags, [KeystoreNext]_keystoreVars
             PROVE  Flags'
    OBVIOUS
<1> USE DEF Flags
<1>1. ASSUME NEW p \in Processes, Open(p) \/ OpenNew(p)
      PROVE  Flags'
    BY <1>1, Zenon DEF Open, OpenNew
<1>2. ASSUME NEW p \in Processes, ProcessDies(p)
      PROVE  Flags'
    BY <1>2 DEF ProcessDies, historyVars
<1>3. ASSUME NEW c \in Calls, NEW p \in Processes, NEW k \in Keys,
             set(c, p, k) \/ delete(c, p, k)
      PROVE  Flags'
    BY <1>3 DEF set, delete, Called
<1>4. ASSUME NEW a \in Actors, Create(a)
      PROVE  Flags'
    BY <1>4, Zenon DEF Create
<1>5. ASSUME NEW a \in Actors, Write(a) \/ SyncFile(a) \/ Rename(a) \/ PersistFails(a)
      PROVE  Flags'
    BY <1>5 DEF Write, SyncFile, Rename, PersistFails, historyVars
<1>6. CASE PowerFails
    BY <1>6 DEF PowerFails, historyVars
<1>7. CASE UNCHANGED keystoreVars
    BY <1>7 DEF keystoreVars, historyVars
<1> QED
    BY <1>1, <1>2, <1>3, <1>4, <1>5, <1>6, <1>7 DEF KeystoreNext, ActorNext

\* Every step keeps the processes and the calls in their types.
LEMMA CallStep == CallTypes /\ FileTypes /\ [KeystoreNext]_keystoreVars => CallTypes'
<1> SUFFICES ASSUME CallTypes, FileTypes, [KeystoreNext]_keystoreVars
             PROVE  CallTypes'
    OBVIOUS
<1> USE EmptyMapType
<1> USE DEF CallTypes, Pcs, Persisting, Goto, Actors
<1>1. ASSUME NEW p \in Processes, Open(p)
      PROVE  CallTypes'
    <2>1. Loaded \in Maps
        BY <1>1 DEF Open, Readable, Loaded, FileTypes
    <2> QED
        BY <1>1, <2>1 DEF Open
<1>2. ASSUME NEW p \in Processes, OpenNew(p)
      PROVE  CallTypes'
    BY <1>2 DEF OpenNew
<1>3. ASSUME NEW c \in Calls, NEW p \in Processes, NEW k \in Keys, NEW v,
             v \in Calls \cup {Absent}, Changed(c, p, k, v),
             \E kind \in {"set", "delete"} : Called(c, p, kind, k)
      PROVE  CallTypes'
    <2>1. [mem[p] EXCEPT ![k] = v] \in Maps
        BY <1>3 DEF Maps
    <2>2. Append(changes[k], c) \in Seq(Calls)
        BY AppendProperties
    <2> QED
        BY <1>3, <2>1, <2>2 DEF Called, Changed
<1>4. ASSUME NEW c \in Calls, NEW p \in Processes, NEW k \in Keys, set(c, p, k)
      PROVE  CallTypes'
    BY <1>3, <1>4 DEF set
<1>5. ASSUME NEW c \in Calls, NEW p \in Processes, NEW k \in Keys, delete(c, p, k)
      PROVE  CallTypes'
    <2>1. CASE Changed(c, p, k, Absent)
        BY <1>3, <1>5, <2>1 DEF delete
    <2>2. CASE Goto(c, "ok") /\ UNCHANGED <<mem, changes>>
        BY <1>5, <2>2 DEF delete, Called
    <2> QED
        BY <1>5, <2>1, <2>2 DEF delete
<1>6. ASSUME NEW a \in Actors, ActorNext(a)
      PROVE  CallTypes'
    BY <1>6 DEF ActorNext, Create, Write, SyncFile, Rename, PersistFails, historyVars
<1>7. ASSUME NEW p \in Processes, ProcessDies(p)
      PROVE  CallTypes'
    BY <1>7 DEF ProcessDies, historyVars
<1>8. CASE PowerFails
    BY <1>8 DEF PowerFails, historyVars
<1>9. CASE UNCHANGED keystoreVars
    BY <1>9 DEF keystoreVars, historyVars
<1> QED
    BY <1>1, <1>2, <1>4, <1>5, <1>6, <1>7, <1>8, <1>9 DEF KeystoreNext

\* Every step keeps the files in their types.
LEMMA FileStep == CallTypes /\ FileTypes /\ [KeystoreNext]_keystoreVars => FileTypes'
<1> SUFFICES ASSUME CallTypes, FileTypes, [KeystoreNext]_keystoreVars
             PROVE  FileTypes'
    OBVIOUS
<1> USE EmptyMapType, CallsAssumption
<1> USE DEF FileTypes, Handles, fileVars, ioVars, Goto
<1>1. ASSUME NEW p \in Processes, Open(p) \/ OpenNew(p)
      PROVE  FileTypes'
    BY <1>1 DEF Open, OpenNew, CallTypes, Actors
<1>2. ASSUME NEW c \in Calls, NEW p \in Processes, NEW k \in Keys,
             set(c, p, k) \/ delete(c, p, k)
      PROVE  FileTypes'
    BY <1>2 DEF set, delete, Called, Changed, CallTypes, Actors
<1>3. ASSUME NEW a \in Actors, Create(a)
      PROVE  FileTypes'
    <2>1. Target(a) \in Inodes /\ TempName(a) \in Actors
        BY <1>3, CreateIs, TempNameType
    <2>2. mem[Home(a)] \in Maps
        BY HomeType DEF CallTypes
    <2>3. path' = path
        BY <1>3 DEF Create
    <2>4. /\ pc' = [pc EXCEPT ![a] = "write"]
          /\ buffer' = [buffer EXCEPT ![a] = mem[Home(a)]]
          /\ temp' = [temp EXCEPT ![TempName(a)] = Target(a)]
          /\ handle' = [handle EXCEPT ![a] = Target(a)]
          /\ data' = [data EXCEPT ![Target(a)] = Blank]
          /\ durable' = durable \ {Target(a)}
        BY <1>3, CreateIs
    <2>5. Handles'
        BY <2>1, <2>4 DEF CallTypes
    <2> HIDE DEF Handles
    <2> QED
        BY <2>1, <2>2, <2>3, <2>4, <2>5
<1>4. ASSUME NEW a \in Actors, Write(a)
      PROVE  FileTypes'
    BY <1>4 DEF Write, CallTypes
<1>5. ASSUME NEW a \in Actors, SyncFile(a)
      PROVE  FileTypes'
    BY <1>5 DEF SyncFile, SyncAll, CallTypes
<1>6. ASSUME NEW a \in Actors, Rename(a)
      PROVE  FileTypes'
    BY <1>6, TempNameType DEF Rename, Forget, CallTypes
<1>7. ASSUME NEW a \in Actors, PersistFails(a)
      PROVE  FileTypes'
    BY <1>7 DEF PersistFails, Forget, CallTypes
<1>8. ASSUME NEW p \in Processes, ProcessDies(p)
      PROVE  FileTypes'
    <2>1. Handles'
        BY <1>8 DEF ProcessDies, CallTypes, Persisting, Home, Actors
    <2>2. data' \in [Inodes -> Maps \cup {Blank, Torn}]
        BY <1>8 DEF ProcessDies
    <2> QED
        BY <1>8, <2>1, <2>2 DEF ProcessDies
<1>9. CASE PowerFails
    BY <1>9 DEF PowerFails, CallTypes, Persisting
<1>10. CASE UNCHANGED keystoreVars
    BY <1>10 DEF keystoreVars
<1> QED
    BY <1>1, <1>2, <1>3, <1>4, <1>5, <1>6, <1>7, <1>8, <1>9, <1>10
       DEF KeystoreNext, ActorNext

LEMMA TypeInit == KeystoreInit => TypeInv
<1> SUFFICES ASSUME KeystoreInit
             PROVE  TypeInv
    OBVIOUS
<1>1. (CHOOSE p \in Processes : TRUE) \in Processes /\ (CHOOSE k \in Keys : TRUE) \in Keys
    BY CallsAssumption
<1>2. CallTypes
    BY <1>1, EmptyMapType DEF KeystoreInit, CallTypes, Actors, Pcs
<1>3. FileTypes
    BY EmptyMapType DEF KeystoreInit, FileTypes, Handles, Actors
<1> QED
    BY <1>2, <1>3 DEF KeystoreInit, TypeInv, Flags

LEMMA TypeStep == TypeInv /\ [KeystoreNext]_keystoreVars => TypeInv'
BY CallStep, FileStep, FlagStep DEF TypeInv

\* Type correctness of the keystore.
THEOREM KeystoreTypes == KeystoreSpec => []KeystoreTypeOK
<1>1. TypeInv => KeystoreTypeOK
    BY DEF TypeInv, CallTypes, FileTypes, Flags, KeystoreTypeOK
<1> QED
    BY <1>1, TypeInit, TypeStep, PTL DEF KeystoreSpec

-----------------------------------------------------------------------------
(* The file is whole.  The read lock keeps the map as persist has          *)
(* serialized it; a temporary name leads to a file of its own, which is    *)
(* never the store's; and, unless two persists have shared a name, only    *)
(* its actor writes to it, so that it holds the whole map when it is       *)
(* renamed, and holds it after a power loss too.                           *)

InCall == Persisting \cup {"persist"}

Homes == \A c \in Calls : pc[c] \in InCall => pc[op[c].proc] = "up"

Buffers == \A a \in Actors : pc[a] \in Persisting => buffer[a] = mem[Home(a)]

LockInv == Homes /\ Buffers

\* The map does not change between its serialization and the rename.
LEMMA LockStep == TypeInv /\ LockInv /\ [KeystoreNext]_keystoreVars => LockInv'
<1> SUFFICES ASSUME TypeInv, LockInv, [KeystoreNext]_keystoreVars
             PROVE  LockInv'
    OBVIOUS
<1> USE CallsAssumption
<1> USE DEF LockInv, Homes, Buffers, InCall, Persisting, TypeInv, CallTypes,
        Actors, Goto, Home, ioVars
<1>1. ASSUME NEW p \in Processes, Open(p)
      PROVE  LockInv'
    BY <1>1 DEF Open
<1>2. ASSUME NEW p \in Processes, OpenNew(p)
      PROVE  LockInv'
    BY <1>2 DEF OpenNew
<1>3. ASSUME NEW c \in Calls, NEW p \in Processes, NEW k \in Keys, NEW v,
             NEW kind \in {"set", "delete"},
             Changed(c, p, k, v), Called(c, p, kind, k)
      PROVE  LockInv'
    <2>1. /\ pc[c] = "idle" /\ pc[p] = "up" /\ ~ReadLocked(p)
          /\ pc' = [pc EXCEPT ![c] = "persist"]
          /\ op' = [op EXCEPT ![c] = [proc |-> p, kind |-> kind, key |-> k]]
          /\ mem' = [mem EXCEPT ![p] = [mem[p] EXCEPT ![k] = v]]
          /\ buffer' = buffer
        BY <1>3 DEF Changed, Called, IsOpen
    <2>2. Homes'
        BY <2>1
    <2>3. ASSUME NEW a \in Actors, pc'[a] \in Persisting
          PROVE  buffer'[a] = mem'[Home(a)']
        <3>1. a # c /\ pc[a] \in Persisting /\ Home(a)' = Home(a)
            BY <2>1, <2>3
        <3>2. Home(a) # p
            BY <2>1, <3>1 DEF ReadLocked
        <3>3. Home(a) \in Processes
            OBVIOUS
        <3> HIDE DEF Home
        <3> QED
            BY <2>1, <3>1, <3>2, <3>3
    <2> QED
        BY <2>2, <2>3
<1>4. ASSUME NEW c \in Calls, NEW p \in Processes, NEW k \in Keys, set(c, p, k)
      PROVE  LockInv'
    BY <1>3, <1>4 DEF set
<1>5. ASSUME NEW c \in Calls, NEW p \in Processes, NEW k \in Keys, delete(c, p, k)
      PROVE  LockInv'
    <2>1. CASE Changed(c, p, k, Absent)
        BY <1>3, <1>5, <2>1 DEF delete
    <2>2. CASE Goto(c, "ok") /\ UNCHANGED <<mem, changes>>
        BY <1>5, <2>2 DEF delete, Called
    <2> QED
        BY <1>5, <2>1, <2>2 DEF delete
<1>6. ASSUME NEW a \in Actors, Create(a)
      PROVE  LockInv'
    <2>1. /\ pc[a] = "persist" /\ pc' = [pc EXCEPT ![a] = "write"]
          /\ buffer' = [buffer EXCEPT ![a] = mem[Home(a)]]
          /\ mem' = mem /\ op' = op
        BY <1>6 DEF Create
    <2> QED
        BY <2>1 DEF FileTypes
<1>7. ASSUME NEW a \in Actors, Write(a) \/ SyncFile(a)
      PROVE  LockInv'
    <2>1. /\ pc[a] \in Persisting /\ UNCHANGED <<mem, op, buffer>>
          /\ \E l \in Persisting : pc' = [pc EXCEPT ![a] = l]
        BY <1>7 DEF Write, SyncFile
    <2> QED
        BY <2>1
<1>8. ASSUME NEW a \in Actors, Rename(a) \/ PersistFails(a)
      PROVE  LockInv'
    <2>1. /\ pc[a] \in Persisting /\ UNCHANGED <<mem, op>>
          /\ \A b \in Actors \ {a} : pc'[b] = pc[b] /\ buffer'[b] = buffer[b]
          /\ pc'[a] \notin InCall
        BY <1>8 DEF Rename, PersistFails, Forget, FileTypes
    <2> QED
        BY <2>1
<1>9. ASSUME NEW p \in Processes, ProcessDies(p)
      PROVE  LockInv'
    BY <1>9 DEF ProcessDies
<1>10. CASE PowerFails
    BY <1>10 DEF PowerFails
<1>11. CASE UNCHANGED keystoreVars
    BY <1>11 DEF keystoreVars
<1> QED
    BY <1>1, <1>2, <1>4, <1>5, <1>6, <1>7, <1>8, <1>9, <1>10, <1>11
       DEF KeystoreNext, ActorNext

\* A temporary name has a file of its own, and not the store's.
Temps ==
    /\ \A m, n \in Actors : temp[m] = temp[n] /\ temp[n] # Absent => m = n
    /\ \A n \in Actors : temp[n] # Absent => temp[n] # path

\* Only Create and Rename change where a name leads.
LEMMA UntouchedNames ==
    ASSUME [KeystoreNext]_keystoreVars
    PROVE  \/ \E a \in Actors : Create(a) \/ Rename(a)
           \/ UNCHANGED <<temp, path>>
<1>1. ASSUME NEW p \in Processes, Open(p) \/ OpenNew(p) \/ ProcessDies(p)
      PROVE  UNCHANGED <<temp, path>>
    BY <1>1 DEF Open, OpenNew, ProcessDies, fileVars
<1>2. ASSUME NEW c \in Calls, NEW p \in Processes, NEW k \in Keys,
             set(c, p, k) \/ delete(c, p, k)
      PROVE  UNCHANGED <<temp, path>>
    BY <1>2 DEF set, delete, Called, fileVars
<1>3. ASSUME NEW a \in Actors, Write(a) \/ SyncFile(a) \/ PersistFails(a)
      PROVE  UNCHANGED <<temp, path>>
    BY <1>3 DEF Write, SyncFile, PersistFails, fileVars
<1>4. PowerFails \/ UNCHANGED keystoreVars => UNCHANGED <<temp, path>>
    BY DEF PowerFails, keystoreVars, fileVars
<1> QED
    BY <1>1, <1>2, <1>3, <1>4 DEF KeystoreNext, ActorNext

\* Every step keeps the files of the names apart.
LEMMA TempStep == TypeInv /\ Temps /\ [KeystoreNext]_keystoreVars => Temps'
<1> SUFFICES ASSUME TypeInv, Temps, [KeystoreNext]_keystoreVars
             PROVE  Temps'
    OBVIOUS
<1> USE CallsAssumption
<1> USE DEF Temps, TypeInv, FileTypes
<1>1. ASSUME NEW a \in Actors, Create(a)
      PROVE  Temps'
    <2>1. /\ Target(a) \in Inodes /\ TempName(a) \in Actors
          /\ temp[TempName(a)] = Absent => Target(a) \in Unused
          /\ temp[TempName(a)] # Absent => Target(a) = temp[TempName(a)]
          /\ temp' = [temp EXCEPT ![TempName(a)] = Target(a)]
        BY <1>1, CreateIs, TempNameType
    <2>2. path' = path
        BY <1>1 DEF Create
    <2> QED
        BY <2>1, <2>2 DEF Unused
<1>2. ASSUME NEW a \in Actors, Rename(a)
      PROVE  Temps'
    <2>1. TempName(a) \in Actors
        BY TempNameType
    <2> QED
        BY <1>2, <2>1 DEF Rename
<1>3. CASE UNCHANGED <<temp, path>>
    BY <1>3
<1> QED
    BY <1>1, <1>2, <1>3, UntouchedNames

\* The file of a's temporary name.
Mine(a) == temp[TempName(a)]

Apart ==
    \A a, b \in Actors :
        a # b /\ pc[a] \in Persisting /\ pc[b] \in Persisting =>
            TempName(a) # TempName(b)

Written(a) ==
    /\ pc[a] \in Persisting => Mine(a) # Absent
    /\ pc[a] \in {"write", "sync"} => handle[a] = Mine(a)
    /\ pc[a] = "write" => data[Mine(a)] = Blank
    /\ pc[a] \in {"sync", "rename"} => data[Mine(a)] = buffer[a]
    /\ pc[a] = "rename" => Mine(a) \in durable

Whole == path # Absent => data[path] \in Maps /\ path \in durable

SafeInv == ~Unsafe => Apart /\ Whole /\ \A a \in Actors : Written(a)

\* Persists that are apart have files that are apart.
LEMMA OwnFile ==
    ASSUME TypeInv, Temps, Apart, NEW a \in Actors, NEW b \in Actors, a # b,
           pc[a] \in Persisting, pc[b] \in Persisting, Mine(a) # Absent
    PROVE  Mine(a) # Mine(b)
<1>1. TempName(a) \in Actors /\ TempName(b) \in Actors
    BY TempNameType
<1> QED
    BY <1>1 DEF Temps, Apart, Mine

\* An overlap is never forgotten.
LEMMA OverlapStays ==
    ASSUME [KeystoreNext]_keystoreVars
    PROVE  /\ fixed' = fixed
           /\ overlapped => overlapped'
           /\ shared => shared'
<1>1. ASSUME NEW p \in Processes, Open(p) \/ OpenNew(p) \/ ProcessDies(p)
      PROVE  fixed' = fixed /\ (overlapped => overlapped') /\ (shared => shared')
    <2>1. UNCHANGED <<fixed, overlapped>>
        BY <1>1 DEF Open, OpenNew, ProcessDies, historyVars
    <2>2. CASE Open(p) \/ OpenNew(p)
        BY <2>1, <2>2, Zenon DEF Open, OpenNew
    <2>3. CASE ProcessDies(p)
        BY <2>1, <2>3 DEF ProcessDies, historyVars
    <2> QED
        BY <1>1, <2>2, <2>3
<1>2. ASSUME NEW c \in Calls, NEW p \in Processes, NEW k \in Keys,
             set(c, p, k) \/ delete(c, p, k)
      PROVE  UNCHANGED <<fixed, overlapped, shared>>
    BY <1>2 DEF set, delete, Called
<1>3. ASSUME NEW a \in Actors, Create(a)
      PROVE  fixed' = fixed /\ shared' = shared /\ (overlapped => overlapped')
    BY <1>3, Zenon DEF Create
<1>4. ASSUME NEW a \in Actors, Write(a) \/ SyncFile(a) \/ Rename(a) \/ PersistFails(a)
      PROVE  UNCHANGED <<fixed, overlapped, shared>>
    BY <1>4 DEF Write, SyncFile, Rename, PersistFails, historyVars
<1>5. PowerFails \/ UNCHANGED keystoreVars => UNCHANGED <<fixed, overlapped, shared>>
    BY DEF PowerFails, keystoreVars, historyVars
<1> QED
    BY <1>1, <1>2, <1>3, <1>4, <1>5 DEF KeystoreNext, ActorNext

\* Every step keeps the store's file and the temporary ones as they should be.
LEMMA SafeStep ==
    TypeInv /\ LockInv /\ Temps /\ SafeInv /\ [KeystoreNext]_keystoreVars => SafeInv'
<1> SUFFICES ASSUME TypeInv, LockInv, Temps, SafeInv, [KeystoreNext]_keystoreVars, ~Unsafe'
             PROVE  (Apart /\ Whole /\ \A a \in Actors : Written(a))'
    BY DEF SafeInv
<1>0. fixed' = fixed /\ (overlapped => overlapped')
    BY OverlapStays
<1>1. Apart /\ Whole /\ \A a \in Actors : Written(a)
    BY <1>0 DEF SafeInv, Unsafe
<1>2. \A a \in Actors : TempName(a)' = TempName(a) /\ TempName(a) \in Actors
    BY <1>0, TempNameType DEF TempName
<1>3. ASSUME NEW a \in Actors, Create(a)
      PROVE  (Apart /\ Whole /\ \A b \in Actors : Written(b))'
    <2>1. /\ Target(a) \in Inodes
          /\ temp[TempName(a)] = Absent => Target(a) \in Unused
          /\ temp[TempName(a)] # Absent => Target(a) = temp[TempName(a)]
          /\ pc[a] = "persist" /\ pc' = [pc EXCEPT ![a] = "write"]
          /\ buffer' = [buffer EXCEPT ![a] = mem[Home(a)]]
          /\ temp' = [temp EXCEPT ![TempName(a)] = Target(a)]
          /\ handle' = [handle EXCEPT ![a] = Target(a)]
          /\ data' = [data EXCEPT ![Target(a)] = Blank]
          /\ durable' = durable \ {Target(a)}
        BY <1>3, CreateIs DEF TypeInv
    <2>2. path' = path
        BY <1>3 DEF Create
    <2>3. ASSUME NEW b \in Actors, b # a, pc[b] \in Persisting
          PROVE  TempName(b) # TempName(a)
        <3>1. CASE fixed
            BY <1>0, <1>3, <2>3, <3>1 DEF Create, Unsafe
        <3>2. CASE ~fixed
            BY <2>3, <3>2 DEF TempName
        <3> QED
            BY <3>1, <3>2
    <2>4. Apart'
        BY <1>1, <1>2, <2>1, <2>3 DEF Apart, TypeInv, CallTypes
    <2>5. path # Absent => Target(a) # path
        BY <1>2, <2>1 DEF Temps, Unused
    <2>6. Whole'
        BY <1>1, <2>1, <2>2, <2>5 DEF Whole, TypeInv, FileTypes
    <2>7. Written(a)'
        BY <1>2, <2>1, CallsAssumption
           DEF Written, Mine, TypeInv, CallTypes, FileTypes, Persisting
    <2>8. ASSUME NEW b \in Actors, b # a
          PROVE  Written(b)'
        <3>1. /\ pc'[b] = pc[b] /\ handle'[b] = handle[b]
              /\ buffer'[b] = buffer[b]
            BY <2>1, <2>8 DEF TypeInv, CallTypes, FileTypes
        <3>2. CASE pc[b] \in Persisting
            <4>1. TempName(b) # TempName(a) /\ Mine(b) # Absent
                BY <1>1, <2>3, <2>8, <3>2 DEF Written
            <4>2. Mine(b)' = Mine(b) /\ Mine(b) \in Inodes
                BY <1>2, <2>1, <4>1 DEF Mine, TypeInv, FileTypes
            <4>3. Mine(b) # Target(a)
                BY <1>2, <2>1, <4>1 DEF Mine, Temps, Unused
            <4>4. /\ data'[Mine(b)] = data[Mine(b)]
                  /\ Mine(b) \in durable => Mine(b) \in durable'
                BY <2>1, <4>2, <4>3 DEF TypeInv, FileTypes
            <4> HIDE DEF Mine
            <4> QED
                BY <1>1, <3>1, <4>1, <4>2, <4>4 DEF Written
        <3>3. CASE pc[b] \notin Persisting
            BY <3>1, <3>3 DEF Written, Persisting
        <3> QED
            BY <3>2, <3>3
    <2> QED
        BY <2>4, <2>6, <2>7, <2>8
<1>4. ASSUME NEW a \in Actors, Write(a)
      PROVE  (Apart /\ Whole /\ \A b \in Actors : Written(b))'
    <2>1. /\ pc[a] = "write" /\ pc' = [pc EXCEPT ![a] = "sync"]
          /\ durable' = durable \ {Mine(a)}
          /\ UNCHANGED <<buffer, handle, temp, path>>
          /\ Mine(a) # Absent /\ data[Mine(a)] = Blank /\ handle[a] = Mine(a)
        BY <1>1, <1>4 DEF Write, Goto, Written, Persisting, ioVars
    <2>2. data' = [data EXCEPT ![Mine(a)] = buffer[a]]
        BY <1>4, <2>1 DEF Write
    <2>3. Mine(a) \in Inodes
        BY <1>2, <2>1 DEF Mine, TypeInv, FileTypes
    <2>4. Apart'
        BY <1>1, <1>2, <2>1 DEF Apart, TypeInv, CallTypes, Persisting
    <2>5. path # Absent => Mine(a) # path
        BY <1>2, <2>1 DEF Temps, Mine
    <2>6. Whole'
        BY <1>1, <2>1, <2>2, <2>5 DEF Whole, TypeInv, FileTypes
    <2>7. \A b \in Actors : Mine(b)' = Mine(b)
        BY <1>2, <2>1 DEF Mine
    <2>8. Written(a)'
        BY <2>1, <2>2, <2>3, <2>7
           DEF Written, TypeInv, CallTypes, FileTypes, Persisting
    <2>9. ASSUME NEW b \in Actors, b # a
          PROVE  Written(b)'
        <3>1. pc'[b] = pc[b]
            BY <2>1, <2>9 DEF TypeInv, CallTypes
        <3>2. CASE pc[b] \in Persisting
            <4>1. Mine(b) # Mine(a)
                BY <1>1, <2>1, <2>9, <3>2, OwnFile DEF Persisting
            <4>2. Mine(b) \in Inodes
                BY <1>1, <1>2, <3>2 DEF Written, Mine, TypeInv, FileTypes
            <4>3. /\ data'[Mine(b)] = data[Mine(b)]
                  /\ Mine(b) \in durable => Mine(b) \in durable'
                BY <2>1, <2>2, <4>1, <4>2 DEF TypeInv, FileTypes
            <4> HIDE DEF Mine
            <4> QED
                BY <1>1, <2>1, <2>7, <3>1, <4>3 DEF Written
        <3>3. CASE pc[b] \notin Persisting
            BY <3>1, <3>3 DEF Written, Persisting
        <3> QED
            BY <3>2, <3>3
    <2> QED
        BY <2>4, <2>6, <2>8, <2>9
<1>5. ASSUME NEW a \in Actors, SyncFile(a)
      PROVE  (Apart /\ Whole /\ \A b \in Actors : Written(b))'
    <2>1. /\ pc[a] = "sync" /\ pc' = [pc EXCEPT ![a] = "rename"]
          /\ durable' = durable \cup {handle[a]}
          /\ handle' = [handle EXCEPT ![a] = Absent]
          /\ UNCHANGED <<buffer, temp, path, data>>
          /\ handle[a] = Mine(a)
        BY <1>1, <1>5 DEF SyncFile, SyncAll, Goto, Written
    <2>2. Apart'
        BY <1>1, <1>2, <2>1 DEF Apart, TypeInv, CallTypes, Persisting
    <2>3. Whole'
        BY <1>1, <2>1 DEF Whole
    <2>4. \A b \in Actors : Mine(b)' = Mine(b)
        BY <1>2, <2>1 DEF Mine
    <2>5. \A b \in Actors : Written(b)'
        BY <1>1, <2>1, <2>4 DEF Written, TypeInv, CallTypes, FileTypes, Persisting
    <2> QED
        BY <2>2, <2>3, <2>5
<1>6. ASSUME NEW a \in Actors, Rename(a)
      PROVE  (Apart /\ Whole /\ \A b \in Actors : Written(b))'
    <2>1. /\ pc[a] = "rename" /\ Mine(a) # Absent /\ path' = Mine(a)
          /\ temp' = [temp EXCEPT ![TempName(a)] = Absent]
          /\ data' = [i \in Inodes |->
                        IF i = path /\ Closed(i) THEN Blank ELSE data[i]]
          /\ durable' = {i \in durable : i = path => ~Closed(i)}
          /\ buffer' = [buffer EXCEPT ![a] = EmptyMap]
          /\ handle' = handle
          /\ data[Mine(a)] = buffer[a] /\ Mine(a) \in durable
        BY <1>1, <1>6 DEF Rename, Forget, Written, Mine
    <2>2. /\ pc'[a] \notin Persisting
          /\ \A b \in Actors \ {a} : pc'[b] = pc[b]
        BY <1>6 DEF Rename, Goto, TypeInv, CallTypes, Persisting
    <2>3. Apart'
        BY <1>1, <1>2, <2>2 DEF Apart
    <2>4. Mine(a) \in Inodes /\ Mine(a) # path
        BY <1>2, <2>1 DEF Mine, Temps, TypeInv, FileTypes
    <2>5. Whole'
        BY <2>1, <2>4 DEF Whole, TypeInv, FileTypes
    <2>6. ASSUME NEW b \in Actors, pc'[b] \in Persisting
          PROVE  Written(b)'
        <3>1. b # a /\ pc[b] = pc'[b]
            BY <2>2, <2>6
        <3>2. TempName(b) # TempName(a) /\ Mine(b) # Absent
            BY <1>1, <2>1, <2>6, <3>1 DEF Apart, Written, Persisting
        <3>3. Mine(b)' = Mine(b) /\ Mine(b) \in Inodes /\ Mine(b) # path
            BY <1>2, <2>1, <3>2 DEF Mine, Temps, TypeInv, FileTypes
        <3>4. /\ data'[Mine(b)] = data[Mine(b)]
              /\ Mine(b) \in durable => Mine(b) \in durable'
            BY <2>1, <3>3
        <3>5. buffer'[b] = buffer[b] /\ handle'[b] = handle[b]
            BY <2>1, <3>1 DEF TypeInv, FileTypes
        <3> HIDE DEF Mine
        <3> QED
            BY <1>1, <3>1, <3>2, <3>3, <3>4, <3>5 DEF Written
    <2>7. ASSUME NEW b \in Actors, pc'[b] \notin Persisting
          PROVE  Written(b)'
        BY <2>7 DEF Written, Persisting
    <2> QED
        BY <2>3, <2>5, <2>6, <2>7
<1>7. ASSUME NEW a \in Actors, PersistFails(a)
      PROVE  (Apart /\ Whole /\ \A b \in Actors : Written(b))'
    <2>1. /\ UNCHANGED <<data, durable, temp, path>>
          /\ pc'[a] \notin Persisting
          /\ \A b \in Actors \ {a} :
               pc'[b] = pc[b] /\ handle'[b] = handle[b] /\ buffer'[b] = buffer[b]
        BY <1>7 DEF PersistFails, Goto, Forget, TypeInv, CallTypes, FileTypes,
                    Persisting, fileVars
    <2>2. Apart' /\ Whole'
        BY <1>1, <1>2, <2>1 DEF Apart, Whole
    <2>3. \A b \in Actors : Mine(b)' = Mine(b)
        BY <1>2, <2>1 DEF Mine
    <2>4. \A b \in Actors : Written(b)'
        BY <1>1, <2>1, <2>3 DEF Written, Persisting
    <2> QED
        BY <2>2, <2>4
<1>8. ASSUME NEW p \in Processes, ProcessDies(p)
      PROVE  (Apart /\ Whole /\ \A b \in Actors : Written(b))'
    <2>1. UNCHANGED <<durable, temp, path>>
        BY <1>8 DEF ProcessDies
    <2>2. \A b \in Actors : pc'[b] \in Persisting =>
              /\ Home(b) # p /\ pc'[b] = pc[b]
              /\ handle'[b] = handle[b] /\ buffer'[b] = buffer[b]
        BY <1>8 DEF ProcessDies, Persisting, Home
    <2>3. Apart'
        BY <1>1, <1>2, <2>2 DEF Apart
    <2>4. PICK A \in SUBSET {a \in Actors : Home(a) = p /\ pc[a] = "write"} :
             data' = [i \in Inodes |->
                        IF \E a \in A : handle[a] = i THEN Torn ELSE data[i]]
        BY <1>8 DEF ProcessDies
    <2>5. \A a \in A : /\ a \in Actors /\ Home(a) = p /\ pc[a] \in Persisting
                       /\ handle[a] = Mine(a) /\ Mine(a) # Absent
        BY <1>1 DEF Written, Persisting
    <2>6. \A a \in A : handle[a] # path
        BY <1>2, <2>5 DEF Mine, Temps
    <2>7. Whole'
        BY <1>1, <2>1, <2>4, <2>6 DEF Whole, TypeInv, FileTypes
    <2>8. \A b \in Actors : Mine(b)' = Mine(b)
        BY <1>2, <2>1 DEF Mine
    <2>9. ASSUME NEW b \in Actors, pc'[b] \in Persisting
          PROVE  Written(b)'
        <3>1. /\ Home(b) # p /\ pc'[b] = pc[b] /\ pc[b] \in Persisting
              /\ handle'[b] = handle[b] /\ buffer'[b] = buffer[b]
            BY <2>2, <2>9
        <3>2. Mine(b) # Absent /\ Mine(b) \in Inodes
            BY <1>1, <1>2, <3>1 DEF Written, Mine, TypeInv, FileTypes
        <3>3. \A a \in A : handle[a] # Mine(b)
            BY <1>1, <2>5, <3>1, OwnFile
        <3>4. data'[Mine(b)] = data[Mine(b)]
            BY <2>4, <3>2, <3>3
        <3> HIDE DEF Mine
        <3> QED
            BY <1>1, <2>1, <2>8, <3>1, <3>2, <3>4 DEF Written
    <2>10. ASSUME NEW b \in Actors, pc'[b] \notin Persisting
          PROVE  Written(b)'
        BY <2>10 DEF Written, Persisting
    <2> QED
        BY <2>3, <2>7, <2>9, <2>10
<1>9. CASE PowerFails
    <2>1. \A b \in Actors : pc'[b] \notin Persisting
        BY <1>9 DEF PowerFails, Persisting
    <2>2. Whole'
        BY <1>1, <1>9 DEF PowerFails, Whole, TypeInv, FileTypes
    <2> QED
        BY <2>1, <2>2 DEF Apart, Written, Persisting
<1>10. CASE /\ UNCHANGED <<buffer, handle, data, durable, temp, path>>
            /\ \A a \in Actors : \/ pc'[a] = pc[a]
                                 \/ pc[a] \notin Persisting /\ pc'[a] \notin Persisting
    <2>1. Apart' /\ Whole'
        BY <1>1, <1>2, <1>10 DEF Apart, Whole
    <2>2. \A b \in Actors : Mine(b)' = Mine(b)
        BY <1>2, <1>10 DEF Mine
    <2>3. \A b \in Actors : Written(b)'
        BY <1>1, <1>10, <2>2 DEF Written, Persisting
    <2> QED
        BY <2>1, <2>3
<1>11. ASSUME NEW p \in Processes, Open(p) \/ OpenNew(p)
       PROVE  (Apart /\ Whole /\ \A b \in Actors : Written(b))'
    BY <1>10, <1>11 DEF Open, OpenNew, Goto, ioVars, fileVars, Persisting, TypeInv,
                        CallTypes
<1>12. ASSUME NEW c \in Calls, NEW p \in Processes, NEW k \in Keys,
              set(c, p, k) \/ delete(c, p, k)
       PROVE  (Apart /\ Whole /\ \A b \in Actors : Written(b))'
    BY <1>10, <1>12 DEF set, delete, Called, Changed, Goto, ioVars, fileVars,
                        Persisting, TypeInv, CallTypes
<1>13. CASE UNCHANGED keystoreVars
    BY <1>10, <1>13 DEF keystoreVars, ioVars, fileVars
<1> QED
    BY <1>3, <1>4, <1>5, <1>6, <1>7, <1>8, <1>9, <1>11, <1>12, <1>13
       DEF KeystoreNext, ActorNext

WholeInv == TypeInv /\ LockInv /\ Temps /\ SafeInv

LEMMA WholeInit == KeystoreInit => WholeInv
<1>1. KeystoreInit => TypeInv
    BY TypeInit
<1>2. KeystoreInit => LockInv /\ Temps
    BY CallsAssumption DEF KeystoreInit, LockInv, Homes, Buffers, InCall, Persisting, Temps,
                           Actors
<1>3. KeystoreInit => SafeInv
    BY DEF KeystoreInit, SafeInv, Apart, Whole, Written, Persisting, Actors
<1> QED
    BY <1>1, <1>2, <1>3 DEF WholeInv

LEMMA WholeStep == WholeInv /\ [KeystoreNext]_keystoreVars => WholeInv'
BY TypeStep, LockStep, TempStep, SafeStep DEF WholeInv

\* The store's file is a whole map at any time.
THEOREM FileWhole == KeystoreSpec => []FileIsWhole
<1>1. WholeInv => FileIsWhole
    BY DEF WholeInv, SafeInv, Whole, FileIsWhole
<1> QED
    BY <1>1, WholeInit, WholeStep, PTL DEF KeystoreSpec


-----------------------------------------------------------------------------
(* What is acknowledged is kept.  While one process at a time has the      *)
(* store open, its map is at least as new as every change that has been    *)
(* acknowledged or is on its way to the file, and the file as every change *)
(* that has been acknowledged.                                             *)

\* The changes of k whose calls are in one of the places S.
Marks(k, S) == {j \in 1..Len(changes[k]) : pc[changes[k][j]] \in S}

\* The values of k that are as new as all of them.
Since(k, S) ==
    {ValueOf(changes[k][i]) :
       i \in {i \in 1..Len(changes[k]) : \A j \in Marks(k, S) : j <= i}}
    \cup (IF Marks(k, S) = {} THEN {Absent} ELSE {})

Alive == InCall \cup {"ok"}

\* A call that has changed a key has begun; without a file none is acknowledged.
Begun ==
    \A k \in Keys : \A j \in 1..Len(changes[k]) :
        /\ pc[changes[k][j]] # "idle"
        /\ path = Absent => pc[changes[k][j]] # "ok"

Alone ==
    ~shared =>
        \A p, q \in Processes : pc[p] # "down" /\ pc[q] # "down" => p = q

OnDisk == path # Absent => \A k \in Keys : data[path][k] \in Since(k, {"ok"})

InMemory ==
    \A p \in Processes : pc[p] # "down" =>
        \A k \in Keys : mem[p][k] \in Since(k, Alive)

AckInv ==
    /\ Begun /\ Alone
    /\ ~shared /\ ~Unsafe => OnDisk /\ InMemory

LEMMA LegitimateIs == \A k \in Keys : Legitimate(k) = Since(k, {"ok"})
BY DEF Legitimate, Since, Marks

\* What is as new as more changes is as new as fewer.
LEMMA SinceLess ==
    ASSUME NEW k \in Keys, NEW S, NEW T, Marks(k, S) \subseteq Marks(k, T)
    PROVE  Since(k, T) \subseteq Since(k, S)
BY DEF Since

\* A step that changes no value and marks no new change leaves a value as new
\* as before.
LEMMA SinceStays ==
    ASSUME NEW k \in Keys, NEW S, NEW T, changes'[k] = changes[k],
           \A j \in 1..Len(changes[k]) : ValueOf(changes[k][j])' = ValueOf(changes[k][j]),
           Marks(k, S)' \subseteq Marks(k, T)
    PROVE  Since(k, T) \subseteq Since(k, S)'
<1> DEFINE D == 1..Len(changes[k])
<1>1. Since(k, S)' = {ValueOf(changes[k][i]) :
                        i \in {i \in D : \A j \in Marks(k, S)' : j <= i}}
                     \cup (IF Marks(k, S)' = {} THEN {Absent} ELSE {})
    BY DEF Since
<1> QED
    BY <1>1 DEF Since


\* Steps that begin no call leave the changes and their values alone.
Begins(c) == \E p \in Processes, k \in Keys : set(c, p, k) \/ delete(c, p, k)

LEMMA ChangesStay ==
    ASSUME [KeystoreNext]_keystoreVars, \A c \in Calls : ~Begins(c)
    PROVE  UNCHANGED <<changes, op>>
<1>1. ASSUME NEW p \in Processes, Open(p) \/ OpenNew(p) \/ ProcessDies(p)
      PROVE  UNCHANGED <<changes, op>>
    BY <1>1 DEF Open, OpenNew, ProcessDies, historyVars
<1>2. ASSUME NEW a \in Actors, ActorNext(a)
      PROVE  UNCHANGED <<changes, op>>
    BY <1>2 DEF ActorNext, Create, Write, SyncFile, Rename, PersistFails, historyVars
<1>3. PowerFails \/ UNCHANGED keystoreVars => UNCHANGED <<changes, op>>
    BY DEF PowerFails, keystoreVars, historyVars
<1> QED
    BY <1>1, <1>2, <1>3 DEF KeystoreNext, Begins

\* Nor do they bring a call back to life, and only Rename acknowledges one.
LEMMA CallsGoOn ==
    ASSUME TypeInv, [KeystoreNext]_keystoreVars, \A c \in Calls : ~Begins(c), NEW c \in Calls
    PROVE  /\ pc'[c] = "idle" => pc[c] = "idle"
           /\ pc'[c] \in Alive => pc[c] \in Alive
           /\ pc'[c] = "ok" => pc[c] = "ok" \/ Rename(c)
<1> USE CallsAssumption
<1> USE DEF TypeInv, CallTypes, Alive, InCall, Persisting, Actors
<1>1. ASSUME NEW p \in Processes, Open(p) \/ OpenNew(p)
      PROVE  pc'[c] = pc[c]
    BY <1>1 DEF Open, OpenNew, Goto
<1>2. ASSUME NEW p \in Processes, ProcessDies(p)
      PROVE  pc'[c] = pc[c] \/ pc'[c] = "dead"
    BY <1>2 DEF ProcessDies
<1>3. ASSUME NEW a \in Actors, ActorNext(a)
      PROVE  \/ pc'[c] = pc[c]
             \/ pc[c] \in InCall /\ pc'[c] \in Persisting \cup {"error"}
             \/ pc[c] \in InCall /\ pc'[c] = "ok" /\ Rename(c)
    BY <1>3 DEF ActorNext, Create, Write, SyncFile, Rename, PersistFails, Goto
<1>4. PowerFails \/ UNCHANGED keystoreVars => pc'[c] = pc[c] \/ pc'[c] = "dead"
    BY DEF PowerFails, keystoreVars
<1> QED
    BY <1>1, <1>2, <1>3, <1>4 DEF KeystoreNext, Begins

\* A call that begins is not among the changes; if it changes a key, its change
\* is the last one.
LEMMA BeginIs ==
    ASSUME TypeInv, Begun, NEW c \in Calls, NEW p \in Processes, NEW k \in Keys,
           set(c, p, k) \/ delete(c, p, k)
    PROVE  /\ pc[c] = "idle" /\ pc[p] = "up" /\ UNCHANGED <<path, data, shared>>
           /\ \A l \in Keys : \A j \in 1..Len(changes[l]) :
                /\ changes[l][j] \in Calls /\ changes[l][j] # c
                /\ ValueOf(changes[l][j])' = ValueOf(changes[l][j])
           /\ \A a \in Actors \ {c} : pc'[a] = pc[a]
           /\ \/ /\ pc'[c] = "persist"
                 /\ changes' = [changes EXCEPT ![k] = Append(changes[k], c)]
                 /\ mem' = [mem EXCEPT ![p] = [mem[p] EXCEPT ![k] = ValueOf(c)']]
              \/ pc'[c] = "ok" /\ UNCHANGED <<mem, changes>>
<1> USE DEF TypeInv, CallTypes, Actors
<1>1. /\ pc[c] = "idle" /\ pc[p] = "up" /\ UNCHANGED <<path, data, shared>>
      /\ \E kind \in {"set", "delete"} :
           op' = [op EXCEPT ![c] = [proc |-> p, kind |-> kind, key |-> k]]
    BY DEF set, delete, Called, IsOpen, fileVars
<1>2. \A l \in Keys : \A j \in 1..Len(changes[l]) : changes[l][j] \in Calls
    BY ElementOfSeq
<1>3. \A l \in Keys : \A j \in 1..Len(changes[l]) : changes[l][j] # c
    BY <1>1 DEF Begun
<1>4. \A d \in Calls \ {c} : ValueOf(d)' = ValueOf(d)
    BY <1>1 DEF ValueOf
<1>5. \A a \in Actors \ {c} : pc'[a] = pc[a]
    BY DEF set, delete, Changed, Goto
<1>6. CASE set(c, p, k)
    <2>1. ValueOf(c)' = c
        BY <1>6 DEF set, Called, ValueOf
    <2> QED
        BY <1>1, <1>2, <1>3, <1>4, <1>5, <1>6, <2>1 DEF set, Changed, Goto
<1>7. CASE delete(c, p, k)
    <2>1. ValueOf(c)' = Absent
        BY <1>7 DEF delete, Called, ValueOf
    <2>2. CASE Changed(c, p, k, Absent)
        <3>1. /\ pc'[c] = "persist"
              /\ changes' = [changes EXCEPT ![k] = Append(changes[k], c)]
              /\ mem' = [mem EXCEPT ![p] = [mem[p] EXCEPT ![k] = Absent]]
            BY <2>2 DEF Changed, Goto
        <3> QED
            BY <1>1, <1>2, <1>3, <1>4, <1>5, <2>1, <3>1
    <2>3. CASE Goto(c, "ok") /\ UNCHANGED <<mem, changes>>
        BY <1>1, <1>2, <1>3, <1>4, <1>5, <2>3 DEF Goto
    <2> QED
        BY <1>7, <2>2, <2>3 DEF delete
<1> QED
    BY <1>6, <1>7

\* Every step keeps what is known of the calls that have begun, and of the
\* processes that have the store open.
LEMMA BegunStep == TypeInv /\ Begun /\ [KeystoreNext]_keystoreVars => Begun'
<1> SUFFICES ASSUME TypeInv, Begun, [KeystoreNext]_keystoreVars
             PROVE  Begun'
    OBVIOUS
<1>1. \A l \in Keys : \A j \in 1..Len(changes[l]) : changes[l][j] \in Calls
    BY ElementOfSeq DEF TypeInv, CallTypes
<1>2. ASSUME NEW c \in Calls, NEW p \in Processes, NEW k \in Keys,
             set(c, p, k) \/ delete(c, p, k)
      PROVE  Begun'
    <2>1. /\ path' = path
          /\ \A l \in Keys : \A j \in 1..Len(changes[l]) :
               pc'[changes[l][j]] = pc[changes[l][j]]
        BY <1>2, BeginIs DEF Actors
    <2>2. CASE UNCHANGED changes
        BY <2>1, <2>2 DEF Begun
    <2>3. CASE /\ pc'[c] = "persist"
               /\ changes' = [changes EXCEPT ![k] = Append(changes[k], c)]
        <3>1. ASSUME NEW l \in Keys, NEW j \in 1..Len(changes'[l])
              PROVE  \/ changes'[l][j] = c
                     \/ j \in 1..Len(changes[l]) /\ changes'[l][j] = changes[l][j]
            <4>1. CASE l # k
                BY <2>3, <4>1 DEF TypeInv, CallTypes
            <4>2. CASE l = k
                <5>1. changes[k] \in Seq(Calls) /\ changes'[k] = Append(changes[k], c)
                    BY <2>3 DEF TypeInv, CallTypes
                <5>2. /\ Len(changes'[k]) = Len(changes[k]) + 1
                      /\ Len(changes[k]) \in Nat
                      /\ \A i \in 1..Len(changes[k]) :
                           changes'[k][i] = changes[k][i]
                      /\ changes'[k][Len(changes[k]) + 1] = c
                    BY <5>1, AppendProperties
                <5> QED
                    BY <3>1, <4>2, <5>2
            <4> QED
                BY <4>1, <4>2
        <3> QED
            BY <2>1, <2>3, <3>1 DEF Begun
    <2> QED
        BY <1>2, <2>2, <2>3, BeginIs
<1>3. CASE \A c \in Calls : ~Begins(c)
    <2>1. changes' = changes
        BY <1>3, ChangesStay
    <2>2. ASSUME NEW k \in Keys, NEW j \in 1..Len(changes[k])
          PROVE  /\ pc'[changes[k][j]] # "idle"
                 /\ path' = Absent => pc'[changes[k][j]] # "ok"
        <3> DEFINE c == changes[k][j]
        <3>1. /\ c \in Calls /\ pc[c] # "idle" /\ (path = Absent => pc[c] # "ok")
            BY <1>1 DEF Begun
        <3>2. /\ pc'[c] = "idle" => pc[c] = "idle"
              /\ pc'[c] = "ok" => pc[c] = "ok" \/ Rename(c)
            BY <1>3, <3>1, CallsGoOn
        <3>3. path' = Absent => path = Absent /\ ~Rename(c)
            <4>1. \A a \in Actors : Rename(a) => path' # Absent
                BY DEF Rename
            <4>2. \A a \in Actors : Create(a) => path' = path
                BY DEF Create
            <4> QED
                BY <3>1, <4>1, <4>2, UntouchedNames DEF Actors
        <3> QED
            BY <3>1, <3>2, <3>3
    <2> QED
        BY <2>1, <2>2 DEF Begun
<1> QED
    BY <1>2, <1>3 DEF Begins

LEMMA AloneStep == TypeInv /\ Alone /\ [KeystoreNext]_keystoreVars => Alone'
<1> SUFFICES ASSUME TypeInv, Alone, [KeystoreNext]_keystoreVars, ~shared'
             PROVE  \A p, q \in Processes : pc'[p] # "down" /\ pc'[q] # "down" => p = q
    BY DEF Alone
<1>1. \A p, q \in Processes : pc[p] # "down" /\ pc[q] # "down" => p = q
    BY OverlapStays DEF Alone
<1> USE CallsAssumption
<1> USE DEF TypeInv, CallTypes, Actors, Goto
<1>2. ASSUME NEW o \in Processes, Open(o) \/ OpenNew(o)
      PROVE  \A p, q \in Processes : pc'[p] # "down" /\ pc'[q] # "down" => p = q
    <2>1. \A q \in Processes : pc[q] = "down"
        BY <1>2, Zenon DEF Open, OpenNew
    <2> QED
        BY <1>2, <2>1 DEF Open, OpenNew
<1>3. CASE \A p \in Processes : pc'[p] # "down" => pc[p] # "down"
    BY <1>1, <1>3
<1>4. ASSUME NEW c \in Calls, NEW p \in Processes, NEW k \in Keys,
             set(c, p, k) \/ delete(c, p, k)
      PROVE  \A q \in Processes : pc'[q] = pc[q]
    BY <1>4 DEF set, delete, Changed
<1>5. ASSUME NEW a \in Actors, ActorNext(a)
      PROVE  \A p \in Processes : pc'[p] # "down" => pc[p] # "down"
    <2>1. pc[a] \in Persisting \cup {"persist"} /\ \E l : Goto(a, l)
        BY <1>5 DEF ActorNext, Create, Write, SyncFile, Rename, PersistFails, Persisting
    <2> QED
        BY <2>1 DEF Persisting
<1>6. ASSUME NEW p \in Processes, ProcessDies(p)
      PROVE  \A q \in Processes : pc'[q] # "down" => pc[q] # "down"
    BY <1>6 DEF ProcessDies, Home, Persisting
<1>7. PowerFails \/ UNCHANGED keystoreVars =>
        \A p \in Processes : pc'[p] # "down" => pc[p] # "down"
    BY DEF PowerFails, keystoreVars
<1> QED
    BY <1>2, <1>3, <1>4, <1>5, <1>6, <1>7 DEF KeystoreNext


\* As long as no persists have shared a name, only Rename changes the file.
LEMMA DiskStays ==
    ASSUME WholeInv, [KeystoreNext]_keystoreVars, ~Unsafe, path # Absent,
           \A a \in Actors : ~Rename(a)
    PROVE  path' = path /\ data'[path] = data[path]
<1>1. Apart /\ Whole /\ \A a \in Actors : Written(a)
    BY DEF WholeInv, SafeInv
<1>2. \A a \in Actors : TempName(a) \in Actors
    BY TempNameType
<1>3. path' = path
    <2>1. \A a \in Actors : Create(a) => path' = path
        BY DEF Create
    <2> QED
        BY <2>1, UntouchedNames
<1> USE DEF WholeInv, TypeInv, FileTypes
<1>4. ASSUME NEW p \in Processes, Open(p) \/ OpenNew(p)
      PROVE  data' = data
    BY <1>4 DEF Open, OpenNew, fileVars
<1>5. ASSUME NEW c \in Calls, NEW p \in Processes, NEW k \in Keys,
             set(c, p, k) \/ delete(c, p, k)
      PROVE  data' = data
    BY <1>5 DEF set, delete, Called, fileVars
<1>6. ASSUME NEW a \in Actors, Create(a)
      PROVE  data'[path] = data[path]
    <2>1. /\ Target(a) \in Inodes
          /\ temp[TempName(a)] = Absent => Target(a) \in Unused
          /\ temp[TempName(a)] # Absent => Target(a) = temp[TempName(a)]
          /\ data' = [data EXCEPT ![Target(a)] = Blank]
        BY <1>6, CreateIs
    <2>2. Target(a) # path
        BY <1>2, <2>1 DEF Temps, Unused
    <2> QED
        BY <2>1, <2>2
<1>7. ASSUME NEW a \in Actors, Write(a)
      PROVE  data'[path] = data[path]
    <2>1. /\ handle[a] = Mine(a) /\ Mine(a) # Absent
          /\ \E d : data' = [data EXCEPT ![handle[a]] = d]
        BY <1>1, <1>7 DEF Write, Written, Persisting
    <2>2. handle[a] # path
        BY <1>2, <2>1 DEF Mine, Temps
    <2> QED
        BY <2>1, <2>2
<1>8. ASSUME NEW a \in Actors, SyncFile(a) \/ PersistFails(a)
      PROVE  data' = data
    BY <1>8 DEF SyncFile, PersistFails, fileVars
<1>9. ASSUME NEW p \in Processes, ProcessDies(p)
      PROVE  data'[path] = data[path]
    <2>1. PICK A \in SUBSET {a \in Actors : Home(a) = p /\ pc[a] = "write"} :
             data' = [i \in Inodes |->
                        IF \E a \in A : handle[a] = i THEN Torn ELSE data[i]]
        BY <1>9 DEF ProcessDies
    <2>2. \A a \in A : handle[a] # path
        BY <1>1, <1>2 DEF Written, Persisting, Mine, Temps
    <2> QED
        BY <2>1, <2>2
<1>10. CASE PowerFails
    BY <1>1, <1>10 DEF PowerFails, Whole
<1>11. CASE UNCHANGED keystoreVars
    BY <1>11 DEF keystoreVars, fileVars
<1> QED
    BY <1>3, <1>4, <1>5, <1>6, <1>7, <1>8, <1>9, <1>10, <1>11
       DEF KeystoreNext, ActorNext

\* A step that begins no call leaves what was as new as the live changes as
\* new as them.
LEMMA AliveStays ==
    ASSUME TypeInv, [KeystoreNext]_keystoreVars, \A c \in Calls : ~Begins(c), NEW k \in Keys
    PROVE  /\ Since(k, Alive) \subseteq Since(k, Alive)'
           /\ Since(k, Alive) \subseteq Since(k, {"ok"})'
           /\ (\A c \in Calls : ~Rename(c)) =>
                Since(k, {"ok"}) \subseteq Since(k, {"ok"})'
<1>1. \A j \in 1..Len(changes[k]) : changes[k][j] \in Calls
    BY ElementOfSeq DEF TypeInv, CallTypes
<1>2. changes' = changes /\ op' = op
    BY ChangesStay
<1>3. \A j \in 1..Len(changes[k]) : ValueOf(changes[k][j])' = ValueOf(changes[k][j])
    BY <1>2 DEF ValueOf
<1>4. Marks(k, Alive)' \subseteq Marks(k, Alive)
    BY <1>1, <1>2, CallsGoOn DEF Marks
<1>5. Marks(k, {"ok"})' \subseteq Marks(k, Alive)
    BY <1>1, <1>2, CallsGoOn DEF Marks, Alive
<1>6. (\A c \in Calls : ~Rename(c)) => Marks(k, {"ok"})' \subseteq Marks(k, {"ok"})
    BY <1>1, <1>2, CallsGoOn DEF Marks
<1> QED
    BY <1>2, <1>3, <1>4, <1>5, <1>6, SinceStays

\* Every step keeps the file and the map of the open process new enough.
LEMMA AckStep == WholeInv /\ AckInv /\ [KeystoreNext]_keystoreVars => AckInv'
<1> SUFFICES ASSUME WholeInv, AckInv, [KeystoreNext]_keystoreVars
             PROVE  AckInv'
    OBVIOUS
<1>1. Begun' /\ Alone'
    BY BegunStep, AloneStep DEF WholeInv, AckInv
<1> SUFFICES ASSUME ~shared', ~Unsafe'
             PROVE  OnDisk' /\ InMemory'
    BY <1>1 DEF AckInv
<1>2. /\ ~shared /\ ~Unsafe /\ OnDisk /\ InMemory
      /\ \A p, q \in Processes : pc[p] # "down" /\ pc[q] # "down" => p = q
    BY OverlapStays DEF AckInv, Alone, Unsafe
<1>3. Whole /\ \A a \in Actors : Written(a)
    BY <1>2 DEF WholeInv, SafeInv
<1>4. TypeInv /\ LockInv /\ Begun
    BY DEF WholeInv, AckInv
<1> USE CallsAssumption

<1>5. ASSUME NEW c \in Calls, NEW p \in Processes, NEW k \in Keys,
             set(c, p, k) \/ delete(c, p, k)
      PROVE  OnDisk' /\ InMemory'
    <2>1. /\ pc[c] = "idle" /\ pc[p] = "up" /\ UNCHANGED <<path, data>>
          /\ \A l \in Keys : \A j \in 1..Len(changes[l]) :
               /\ changes[l][j] \in Calls /\ changes[l][j] # c
               /\ ValueOf(changes[l][j])' = ValueOf(changes[l][j])
          /\ \A a \in Actors \ {c} : pc'[a] = pc[a]
        BY <1>4, <1>5, BeginIs
    <2>2. \A q \in Processes : pc'[q] = pc[q]
        BY <2>1 DEF Actors
    <2>3. ASSUME NEW l \in Keys, changes'[l] = changes[l], NEW S
          PROVE  Since(l, S) \subseteq Since(l, S)'
        <3>1. Marks(l, S)' \subseteq Marks(l, S)
            BY <2>1, <2>3 DEF Marks, Actors
        <3> QED
            BY <2>1, <2>3, <3>1, SinceStays
    <2>4. CASE UNCHANGED <<mem, changes>>
        BY <1>2, <2>1, <2>2, <2>3, <2>4 DEF OnDisk, InMemory
    <2>5. CASE /\ pc'[c] = "persist"
               /\ changes' = [changes EXCEPT ![k] = Append(changes[k], c)]
               /\ mem' = [mem EXCEPT ![p] = [mem[p] EXCEPT ![k] = ValueOf(c)']]
        <3> DEFINE n == Len(changes[k])
        <3>1. changes[k] \in Seq(Calls) /\ changes'[k] = Append(changes[k], c)
            BY <1>4, <2>5 DEF TypeInv, CallTypes
        <3>2. /\ n \in Nat /\ Len(changes'[k]) = n + 1
              /\ \A i \in 1..n : changes'[k][i] = changes[k][i]
              /\ changes'[k][n + 1] = c
            BY <3>1, AppendProperties
        <3>3. \A l \in Keys \ {k} : changes'[l] = changes[l]
            BY <1>4, <2>5 DEF TypeInv, CallTypes
        <3>4. Since(k, {"ok"}) \subseteq Since(k, {"ok"})'
            <4>1. \A j \in 1..n : pc'[changes[k][j]] = pc[changes[k][j]]
                BY <2>1 DEF Actors
            <4>2. Marks(k, {"ok"})' = Marks(k, {"ok"})
                BY <2>5, <3>2, <4>1 DEF Marks
            <4>3. \A i \in 1..n : /\ i \in 1..(n + 1)
                                  /\ ValueOf(changes[k][i])' = ValueOf(changes[k][i])
                BY <2>1, <3>2
            <4>4. Since(k, {"ok"})' =
                    {ValueOf(changes[k][i])' :
                       i \in {i \in 1..(n + 1) : \A j \in Marks(k, {"ok"}) : j <= i}}
                    \cup (IF Marks(k, {"ok"}) = {} THEN {Absent} ELSE {})
                BY <3>2, <4>2 DEF Since
            <4>5. ASSUME NEW i \in 1..n, \A j \in Marks(k, {"ok"}) : j <= i
                  PROVE  ValueOf(changes[k][i]) \in Since(k, {"ok"})'
                BY <4>3, <4>4, <4>5
            <4> QED
                BY <4>4, <4>5 DEF Since
        <3>5. ValueOf(c)' \in Since(k, Alive)'
            <4>1. \A j \in Marks(k, Alive)' : j <= n + 1
                BY <3>2 DEF Marks
            <4> QED
                BY <3>2, <4>1 DEF Since, ValueOf
        <3>6. OnDisk'
            BY <1>2, <2>1, <2>3, <3>3, <3>4 DEF OnDisk
        <3>7. ASSUME NEW q \in Processes, pc'[q] # "down", NEW l \in Keys
              PROVE  mem'[q][l] \in Since(l, Alive)'
            <4>1. q = p
                BY <1>2, <2>1, <2>2, <3>7
            <4>2. CASE l = k
                BY <1>4, <2>5, <3>5, <4>1, <4>2 DEF TypeInv, CallTypes, Maps
            <4>3. CASE l # k
                <5>1. mem'[q][l] = mem[q][l]
                    BY <1>4, <2>5, <4>1, <4>3 DEF TypeInv, CallTypes, Maps
                <5> QED
                    BY <1>2, <2>3, <3>3, <2>1, <4>1, <4>3, <5>1 DEF InMemory
            <4> QED
                BY <4>2, <4>3
        <3> QED
            BY <3>6, <3>7 DEF InMemory
    <2> QED
        BY <1>4, <1>5, <2>4, <2>5, BeginIs
<1>6. CASE \A c \in Calls : ~Begins(c)
    <2>1. ASSUME NEW k \in Keys
          PROVE  /\ Since(k, Alive) \subseteq Since(k, Alive)'
                 /\ Since(k, Alive) \subseteq Since(k, {"ok"})'
                 /\ (\A c \in Calls : ~Rename(c)) =>
                      Since(k, {"ok"}) \subseteq Since(k, {"ok"})'
        BY <1>4, <1>6, AliveStays
    <2>2. CASE \A a \in Actors : ~Rename(a)
        <3>1. OnDisk'
            <4>1. path' = path
                <5>1. \A a \in Actors : Create(a) => path' = path
                    BY DEF Create
                <5> QED
                    BY <2>2, <5>1, UntouchedNames
            <4>2. path # Absent => data'[path] = data[path]
                BY <1>2, <2>2, DiskStays
            <4> QED
                BY <1>2, <2>1, <2>2, <4>1, <4>2 DEF OnDisk, Actors
        <3>2. CASE \A p \in Processes : pc'[p] # "down" =>
                       pc[p] # "down" /\ mem'[p] = mem[p]
            BY <1>2, <2>1, <3>1, <3>2 DEF InMemory
        <3>3. ASSUME NEW p \in Processes, Open(p) \/ OpenNew(p)
              PROVE  InMemory'
            <4>1. \A q \in Processes : pc[q] = "down"
                BY <3>3, Zenon DEF Open, OpenNew
            <4>2. \A c \in Calls : pc[c] \notin InCall
                BY <1>4, <4>1 DEF LockInv, Homes, TypeInv, CallTypes
            <4>3. \A q \in Processes : pc'[q] # "down" => q = p
                BY <1>4, <3>3, <4>1
                   DEF Open, OpenNew, Goto, TypeInv, CallTypes, Actors
            <4>4. ASSUME NEW k \in Keys
                  PROVE  Marks(k, Alive) = Marks(k, {"ok"})
                <5>1. \A j \in 1..Len(changes[k]) : changes[k][j] \in Calls
                    BY <1>4, ElementOfSeq DEF TypeInv, CallTypes
                <5> QED
                    BY <4>2, <5>1 DEF Marks, Alive
            <4>5. ASSUME NEW k \in Keys
                  PROVE  mem'[p][k] \in Since(k, Alive)'
                <5>1. CASE Open(p)
                    <6>1. path # Absent /\ mem'[p] = data[path]
                        BY <1>3, <1>4, <5>1
                           DEF Open, Loaded, Whole, TypeInv, CallTypes
                    <6>2. mem'[p][k] \in Since(k, {"ok"})
                        BY <1>2, <6>1 DEF OnDisk
                    <6> QED
                        BY <2>1, <4>4, <6>2, SinceLess
                <5>2. CASE OpenNew(p)
                    <6>1. Marks(k, Alive) = {}
                        BY <1>4, <4>4, <5>2 DEF OpenNew, Begun, Marks
                    <6>2. mem'[p][k] = Absent
                        BY <1>4, <5>2 DEF OpenNew, EmptyMap, TypeInv, CallTypes
                    <6> QED
                        BY <2>1, <6>1, <6>2 DEF Since
                <5> QED
                    BY <3>3, <5>1, <5>2
            <4> QED
                BY <4>3, <4>5 DEF InMemory
        <3>4. ASSUME NEW a \in Actors, ActorNext(a)
              PROVE  \A p \in Processes : pc'[p] # "down" =>
                         pc[p] # "down" /\ mem'[p] = mem[p]
            <4>1. /\ pc[a] \in InCall /\ mem' = mem
                  /\ \E l : pc' = [pc EXCEPT ![a] = l]
                BY <3>4 DEF ActorNext, Create, Write, SyncFile, Rename, PersistFails,
                            Goto, InCall, Persisting
            <4> QED
                BY <1>4, <4>1 DEF InCall, Persisting, TypeInv, CallTypes, Actors
        <3>5. ASSUME NEW o \in Processes, ProcessDies(o)
              PROVE  \A p \in Processes : pc'[p] # "down" =>
                         pc[p] # "down" /\ mem'[p] = mem[p]
            BY <1>4, <3>5 DEF ProcessDies, Home, Persisting, TypeInv, CallTypes, Actors
        <3>6. PowerFails => \A p \in Processes : pc'[p] = "down"
            BY DEF PowerFails, Actors
        <3>7. UNCHANGED keystoreVars => pc' = pc /\ mem' = mem
            BY DEF keystoreVars
        <3> QED
            BY <1>6, <3>1, <3>2, <3>3, <3>4, <3>5, <3>6, <3>7 DEF KeystoreNext, Begins
    <2>3. ASSUME NEW a \in Actors, Rename(a)
          PROVE  OnDisk' /\ InMemory'
        <3>1. /\ pc[a] = "rename" /\ Mine(a) # Absent /\ path' = Mine(a)
              /\ data' = [i \in Inodes |->
                            IF i = path /\ Closed(i) THEN Blank ELSE data[i]]
              /\ data[Mine(a)] = buffer[a]
              /\ mem' = mem
            BY <1>3, <2>3 DEF Rename, Written, Mine
        <3>2. Mine(a) \in Inodes /\ Mine(a) # path
            BY <3>1, TempNameType DEF Mine, WholeInv, Temps, TypeInv, FileTypes
        <3>3. data'[path'] = mem[Home(a)]
            BY <1>4, <3>1, <3>2 DEF LockInv, Buffers, Persisting
        <3>4. Home(a) \in Processes /\ pc[Home(a)] # "down"
            BY <1>4, <3>1, HomeType
               DEF Home, LockInv, Homes, InCall, Persisting, Actors, TypeInv
        <3>5. OnDisk'
            BY <1>2, <2>1, <3>3, <3>4 DEF OnDisk, InMemory
        <3>6. \A p \in Processes : pc'[p] # "down" => pc[p] # "down"
            BY <2>3, <1>4, <3>1 DEF Rename, Goto, TypeInv, CallTypes, Actors
        <3>7. InMemory'
            BY <1>2, <2>1, <3>1, <3>6 DEF InMemory
        <3> QED
            BY <3>5, <3>7
    <2> QED
        BY <2>2, <2>3
<1> QED
    BY <1>5, <1>6 DEF Begins

\* An acknowledged change is on the disk and never undone, for any processes,
\* calls and keys.
THEOREM AcknowledgedKept == KeystoreSpec => []AcknowledgedIsKept
<1>1. KeystoreInit => AckInv
    <2> SUFFICES ASSUME KeystoreInit
                 PROVE  AckInv
        OBVIOUS
    <2>1. \A k \in Keys : Len(changes[k]) = 0
        BY DEF KeystoreInit
    <2>2. Begun
        BY <2>1 DEF Begun
    <2>3. \A p \in Processes : pc[p] = "down"
        BY DEF KeystoreInit, Actors
    <2> QED
        BY <2>2, <2>3 DEF KeystoreInit, AckInv, Alone, OnDisk, InMemory
<1>2. AckInv => AcknowledgedIsKept
    BY LegitimateIs DEF AckInv, OnDisk, AcknowledgedIsKept
<1> QED
    BY <1>1, <1>2, WholeInit, WholeStep, AckStep, PTL DEF KeystoreSpec

=============================================================================
