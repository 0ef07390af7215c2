-------------------------- MODULE PatchCommitProofs --------------------------
(***************************************************************************)
(* Theorems about PatchCommit, for any tasks and any options, about        *)
(* WorkspaceJail, for any trees and paths, and about PatchText, for any    *)
(* texts and changes.                                                      *)
(***************************************************************************)
EXTENDS MCPatchCommit, SequenceTheorems, WellFoundedInduction, TLAPS

-----------------------------------------------------------------------------
(* Type correctness.                                                       *)

TaskTypes ==
    /\ pc \in [Tasks -> Pcs]
    /\ opts \in [Tasks -> Options]
    /\ base \in [Tasks -> Texts]

DiskTypes ==
    /\ shadow \in [Tasks -> Texts \cup {Gone, Torn}]
    /\ flushed \subseteq Tasks
    /\ file \in Texts \cup {Gone}
    /\ durable = TRUE /\ readonly \in BOOLEAN
    /\ held \in {"free", "exclusive", "shared"}

HistoryTypes ==
    /\ since \in [Tasks -> Nat]
    /\ order \in Seq(Tasks)
    /\ refused \in BOOLEAN /\ removed \in BOOLEAN

\* What a task knows of its shadow file, from the write on.
ShadowInv ==
    \A t \in Tasks :
        /\ pc[t] \in {"sync", "rename", "clear", "remove", "retry"} =>
             shadow[t] = modified_content(t)
        /\ pc[t] \in {"rename", "clear", "remove", "retry"} => t \in flushed
        /\ pc[t] \in {"clear", "remove", "retry"} => refused

\* The inductive invariant: the file is never torn and always durable because
\* whatever is moved into its place is whole and has been flushed.
CommitInv == TaskTypes /\ DiskTypes /\ HistoryTypes /\ ShadowInv

\* The text a task makes is a text.
LEMMA ModifiedIsText ==
    ASSUME TaskTypes, NEW t \in Tasks
    PROVE  modified_content(t) \in Texts
    BY DEF TaskTypes, modified_content, Texts

LEMMA InitCommit == Init => CommitInv
<1> SUFFICES ASSUME Init PROVE CommitInv
    OBVIOUS
<1>1. TaskTypes /\ DiskTypes
    BY DEF Init, TaskTypes, DiskTypes, Pcs, Options, Texts
<1>2. HistoryTypes
    <2>1. order = <<>> /\ since = [t \in Tasks |-> 0]
        BY DEF Init
    <2>2. order \in Seq(Tasks) /\ since \in [Tasks -> Nat]
        BY <2>1
    <2>3. refused \in BOOLEAN /\ removed \in BOOLEAN
        BY DEF Init
    <2> QED
        BY <2>2, <2>3 DEF HistoryTypes
<1>3. ShadowInv
    BY DEF Init, ShadowInv
<1> QED
    BY <1>1, <1>2, <1>3 DEF CommitInv

\* What a task finds in the file is a text.
LEMMA ContentIsText ==
    ASSUME DiskTypes
    PROVE  Content \in Texts
    BY DEF DiskTypes, Content, Texts

LEMMA CommitStep == CommitInv /\ [Next]_vars => CommitInv'
<1> SUFFICES ASSUME CommitInv, [Next]_vars
             PROVE  CommitInv'
    OBVIOUS
<1> USE DEF CommitInv
<1>1. ASSUME NEW t \in Tasks, NEW o \in Asked, Ask(t, o)
      PROVE  CommitInv'
    BY <1>1, AskedAssumption
       DEF Ask, Goto, TaskTypes, DiskTypes, HistoryTypes, ShadowInv,
           modified_content, Pcs, diskVars, otherVars, historyVars
<1>2. ASSUME NEW t \in Tasks, Read(t)
      PROVE  CommitInv'
    <2>1. TaskTypes'
        BY <1>2, ContentIsText DEF Read, Goto, TaskTypes, Pcs, Ended
    <2>2. DiskTypes'
        BY <1>2 DEF Read, DiskTypes, diskVars, otherVars
    <2>3. HistoryTypes'
        BY <1>2 DEF Read, HistoryTypes
    <2>4. ShadowInv'
        BY <1>2 DEF Read, Goto, ShadowInv, modified_content, diskVars,
                    TaskTypes
    <2> QED
        BY <2>1, <2>2, <2>3, <2>4
<1>3. ASSUME NEW t \in Tasks, Reject(t) \/ CommitFails(t)
      PROVE  CommitInv'
    BY <1>3
       DEF Reject, CommitFails, Goto, TaskTypes, DiskTypes, HistoryTypes,
           ShadowInv, modified_content, Pcs, Ended, diskVars, otherVars,
           historyVars
<1>4. ASSUME NEW t \in Tasks, CreateShadow(t)
      PROVE  CommitInv'
    BY <1>4
       DEF CreateShadow, Goto, TaskTypes, DiskTypes, HistoryTypes, ShadowInv,
           modified_content, Pcs, otherVars, historyVars
<1>5. ASSUME NEW t \in Tasks, WriteShadow(t)
      PROVE  CommitInv'
    <2>1. TaskTypes' /\ HistoryTypes'
        BY <1>5 DEF WriteShadow, Goto, TaskTypes, HistoryTypes, Pcs,
                    historyVars
    <2>2. DiskTypes'
        BY <1>5, ModifiedIsText DEF WriteShadow, DiskTypes, otherVars
    <2>3. ShadowInv'
        BY <1>5 DEF WriteShadow, Goto, ShadowInv, modified_content, TaskTypes,
                    DiskTypes, historyVars
    <2> QED
        BY <2>1, <2>2, <2>3
<1>6. ASSUME NEW t \in Tasks, SyncShadow(t)
      PROVE  CommitInv'
    BY <1>6
       DEF SyncShadow, Flush, Goto, TaskTypes, DiskTypes, HistoryTypes,
           ShadowInv, modified_content, Pcs, otherVars, historyVars
<1>7. ASSUME NEW t \in Tasks, Rename(t) \/ Retry(t)
      PROVE  CommitInv'
    <2>1. TaskTypes'
        BY <1>7 DEF Rename, Retry, Goto, TaskTypes, Pcs, Ended
    <2>2. shadow[t] \in Texts /\ t \in flushed
        BY <1>7, ModifiedIsText DEF Rename, Retry, ShadowInv
    <2>3. DiskTypes'
        BY <1>7, <2>2
           DEF Rename, Retry, MoveIntoPlace, DiskTypes
    <2>4. order' = Append(order, t) /\ UNCHANGED <<since, refused, removed>>
        BY <1>7 DEF Rename, Retry, MoveIntoPlace
    <2>5. HistoryTypes'
        BY <2>4 DEF HistoryTypes
    <2>6. ShadowInv'
        <3>1. /\ pc' = [pc EXCEPT ![t] = "ok"]
              /\ shadow' = [shadow EXCEPT ![t] = Gone]
              /\ UNCHANGED <<opts, base, flushed, refused>>
            BY <1>7 DEF Rename, Retry, MoveIntoPlace, Goto
        <3> QED
            BY <3>1 DEF ShadowInv, modified_content, TaskTypes, DiskTypes
    <2> QED
        BY <2>1, <2>3, <2>5, <2>6
<1>8. ASSUME NEW t \in Tasks, RenameRefused(t) \/ ClearReadonly(t)
      PROVE  CommitInv'
    BY <1>8
       DEF RenameRefused, ClearReadonly, Goto, TaskTypes, DiskTypes,
           HistoryTypes, ShadowInv, modified_content, Pcs, diskVars,
           otherVars, historyVars
<1>9. ASSUME NEW t \in Tasks, RemoveTarget(t)
      PROVE  CommitInv'
    BY <1>9
       DEF RemoveTarget, Goto, TaskTypes, DiskTypes, HistoryTypes, ShadowInv,
           modified_content, Pcs, otherVars
<1>10. ASSUME NEW t \in Tasks, RetryRefused(t)
       PROVE  CommitInv'
    BY <1>10
       DEF RetryRefused, Goto, TaskTypes, DiskTypes, HistoryTypes, ShadowInv,
           modified_content, Pcs, Ended, otherVars
<1>11. ASSUME NEW t \in Tasks, Crash(t)
       PROVE  CommitInv'
    BY <1>11
       DEF Crash, Goto, TaskTypes, DiskTypes, HistoryTypes, ShadowInv,
           modified_content, Pcs, Ended, diskVars, otherVars, historyVars
<1>12. ASSUME NEW mode \in {"exclusive", "shared"},
              OpenFile(mode) \/ CloseFile
       PROVE  CommitInv'
    BY <1>12
       DEF OpenFile, CloseFile, TaskTypes, DiskTypes, HistoryTypes, ShadowInv,
           modified_content, diskVars, historyVars
<1>13. CASE PowerLoss
    BY <1>13
       DEF PowerLoss, TaskTypes, DiskTypes, HistoryTypes, ShadowInv,
           modified_content, Pcs, Ended, historyVars
<1>14. CASE UNCHANGED vars
    BY <1>14
       DEF vars, TaskTypes, DiskTypes, HistoryTypes, ShadowInv,
           modified_content, diskVars, otherVars, historyVars
<1> QED
    BY <1>1, <1>2, <1>3, <1>4, <1>5, <1>6, <1>7, <1>8, <1>9, <1>10, <1>11,
       <1>12, <1>13, <1>14
       DEF Next, TaskNext

LEMMA CommitCorrect == Spec => []CommitInv
    BY InitCommit, CommitStep, PTL DEF Spec

\* Every variable of the applicator keeps its type, in every behaviour with
\* crashes, power losses and other programs.
THEOREM TypeCorrect == Spec => []TypeOK
<1>1. CommitInv => TypeOK
    BY DEF CommitInv, TaskTypes, DiskTypes, HistoryTypes, TypeOK
<1> QED
    BY <1>1, CommitCorrect, PTL

-----------------------------------------------------------------------------
(* The applicator implements AtomicFile.                                   *)

Seen == <<file, base, {t \in Tasks : pc[t] = "ok"}, refused>>

LEMMA InitImplements == Init => Abstract!Init
    BY DEF Init, Abstract!Init

\* Every step is one of AtomicFile or changes nothing it can see.
LEMMA StepImplements ==
    ASSUME CommitInv, [Next]_vars
    PROVE  Abstract!Next \/ UNCHANGED Seen
<1> USE DEF CommitInv, Seen
<1>1. ASSUME NEW t \in Tasks, NEW o \in Asked, Ask(t, o)
      PROVE  UNCHANGED Seen
    BY <1>1 DEF Ask, Goto, TaskTypes, diskVars, historyVars
<1>2. ASSUME NEW t \in Tasks, Read(t)
      PROVE  Abstract!Read(t)
    BY <1>2 DEF Read, Goto, TaskTypes, diskVars, Content, Abstract!Read,
                Abstract!Text
<1>3. ASSUME NEW t \in Tasks, Reject(t) \/ CommitFails(t)
      PROVE  UNCHANGED Seen
    BY <1>3 DEF Reject, CommitFails, Goto, TaskTypes, diskVars, historyVars
<1>4. ASSUME NEW t \in Tasks,
             CreateShadow(t) \/ WriteShadow(t) \/ SyncShadow(t)
      PROVE  UNCHANGED Seen
    BY <1>4 DEF CreateShadow, WriteShadow, SyncShadow, Goto, TaskTypes,
                historyVars
<1>5. ASSUME NEW t \in Tasks, Rename(t) \/ Retry(t)
      PROVE  Abstract!Replace(t)
    <2>1. file' \in {base[t] \cup {t}, {t}}
        BY <1>5 DEF Rename, Retry, MoveIntoPlace, ShadowInv, modified_content
    <2>2. /\ pc[t] # "ok" /\ pc' = [pc EXCEPT ![t] = "ok"]
          /\ UNCHANGED <<base, refused>>
        BY <1>5 DEF Rename, Retry, Goto
    <2>3. {u \in Tasks : pc'[u] = "ok"} = {u \in Tasks : pc[u] = "ok"} \cup {t}
        BY <2>2 DEF TaskTypes
    <2> QED
        BY <2>1, <2>2, <2>3 DEF Abstract!Replace
<1>6. ASSUME NEW t \in Tasks, RenameRefused(t) \/ RetryRefused(t)
      PROVE  Abstract!Refuse
    BY <1>6 DEF RenameRefused, RetryRefused, Goto, TaskTypes, diskVars,
                Abstract!Refuse
<1>7. ASSUME NEW t \in Tasks, ClearReadonly(t)
      PROVE  UNCHANGED Seen
    BY <1>7 DEF ClearReadonly, Goto, TaskTypes, diskVars, historyVars
<1>8. ASSUME NEW t \in Tasks, RemoveTarget(t)
      PROVE  Abstract!Vanish \/ UNCHANGED Seen
    <2>1. refused /\ UNCHANGED <<base, refused>>
        BY <1>8 DEF RemoveTarget, ShadowInv
    <2>2. UNCHANGED {u \in Tasks : pc[u] = "ok"}
        BY <1>8 DEF RemoveTarget, Goto, TaskTypes
    <2>3. file' = Gone \/ UNCHANGED file
        BY <1>8 DEF RemoveTarget
    <2> QED
        BY <2>1, <2>2, <2>3 DEF Abstract!Vanish
<1>9. ASSUME NEW t \in Tasks, Crash(t)
      PROVE  UNCHANGED Seen
    BY <1>9 DEF Crash, Ended, Goto, TaskTypes, diskVars, historyVars
<1>10. ASSUME NEW mode \in {"exclusive", "shared"},
              OpenFile(mode) \/ CloseFile
       PROVE  UNCHANGED Seen
    BY <1>10 DEF OpenFile, CloseFile, diskVars, historyVars
<1>11. CASE PowerLoss
    BY <1>11 DEF PowerLoss, Ended, TaskTypes, DiskTypes, historyVars
<1>12. CASE UNCHANGED vars
    BY <1>12 DEF vars, diskVars, historyVars
<1> QED
    BY <1>1, <1>2, <1>3, <1>4, <1>5, <1>6, <1>7, <1>8, <1>9, <1>10, <1>11,
       <1>12
       DEF Next, TaskNext, Abstract!Next

\* The applicator implements AtomicFile: whatever the tasks, their options,
\* the other programs and the crashes, a reader finds a whole text, replaced
\* in one step by the task that answers with success.
THEOREM ImplementsAtomicFile == Spec => AtomicReplacement
<1>1. CommitInv /\ [Next]_vars => Abstract!Next \/ UNCHANGED Seen
    BY StepImplements
<1> QED
    BY <1>1, InitImplements, CommitCorrect, PTL
       DEF Spec, AtomicReplacement, Abstract!Spec, Seen

-----------------------------------------------------------------------------
(* Lost edits.                                                             *)

\* The tasks that have read the file and may still replace it.
Editing == {"create", "write", "sync", "rename", "clear", "remove", "retry"}

\* The i-th replacement has been overwritten by a later one that had not seen
\* it, or on purpose.
Overwritten(i) ==
    \E j \in 1..Len(order) :
        i < j /\ (since[order[j]] < i \/ opts[order[j]].full)

\* order lists the tasks that have answered "ok", each once.
OrderInv ==
    /\ \A t \in Tasks : pc[t] = "ok" => \E i \in 1..Len(order) : order[i] = t
    /\ \A i \in 1..Len(order) : pc[order[i]] = "ok"
    /\ \A i, j \in 1..Len(order) : order[i] = order[j] => i = j
    /\ \A t \in Tasks : since[t] <= Len(order)

\* The same is said of the file and of every text that has been read and not
\* yet written back.
LossInv ==
    /\ file = Gone => removed \/ order = <<>>
    /\ \A i \in 1..Len(order) :
         file # Gone /\ order[i] \notin file => removed \/ Overwritten(i)
    /\ \A u \in Tasks : pc[u] \in Editing =>
         \A i \in 1..Len(order) :
           i <= since[u] /\ order[i] \notin base[u] =>
             removed \/ Overwritten(i)

LEMMA InitOrder == Init => OrderInv /\ LossInv
<1> SUFFICES ASSUME Init PROVE OrderInv /\ LossInv
    OBVIOUS
<1>1. /\ order = <<>> /\ since = [t \in Tasks |-> 0]
      /\ pc = [t \in Tasks |-> "idle"]
    BY DEF Init
<1>2. Len(order) = 0
    BY <1>1
<1> QED
    BY <1>1, <1>2 DEF OrderInv, LossInv, Editing

\* A step that replaces nothing and reads nothing.
LEMMA QuietStep ==
    ASSUME CommitInv, OrderInv, LossInv,
           UNCHANGED <<order, since, base>>,
           \A t \in Tasks : pc[t] = "ok" \/ pc'[t] = "ok" =>
                              pc'[t] = pc[t] /\ opts'[t] = opts[t],
           \A t \in Tasks : pc'[t] \in Editing => pc[t] \in Editing,
           file' = file \/ (file' = Gone /\ removed'),
           removed => removed'
    PROVE  OrderInv' /\ LossInv'
<1> USE DEF CommitInv
<1>1. OrderInv'
    BY DEF OrderInv, HistoryTypes
<1>2. \A i \in 1..Len(order) : order[i] \in Tasks /\ pc[order[i]] = "ok"
    BY DEF OrderInv, HistoryTypes
<1>3. ASSUME NEW i \in 1..Len(order), Overwritten(i)
      PROVE  Overwritten(i)'
    BY <1>2, <1>3 DEF Overwritten
<1>4. LossInv'
    BY <1>3 DEF LossInv
<1> QED
    BY <1>1, <1>4

LEMMA ReadStep ==
    ASSUME CommitInv, OrderInv, LossInv, NEW t \in Tasks, Read(t)
    PROVE  OrderInv' /\ LossInv'
<1> USE DEF CommitInv
<1>1. /\ pc[t] = "read"
      /\ pc' = [pc EXCEPT ![t] =
                  IF opts[t].dry_run THEN "planned" ELSE "create"]
      /\ base' = [base EXCEPT ![t] = Content]
      /\ since' = [since EXCEPT ![t] = Len(order)]
      /\ UNCHANGED <<order, file, opts, removed>>
    BY DEF Read, Goto, diskVars
<1>2. order \in Seq(Tasks) /\ Len(order) \in Nat
    BY DEF HistoryTypes
<1>3. OrderInv'
    BY <1>1, <1>2 DEF OrderInv, TaskTypes, HistoryTypes
<1>4. \A i \in 1..Len(order) : order[i] \in Tasks /\ order[i] # t
    BY <1>1, <1>2 DEF OrderInv
<1>5. ASSUME NEW i \in 1..Len(order), Overwritten(i)
      PROVE  Overwritten(i)'
    BY <1>1, <1>4, <1>5 DEF Overwritten, HistoryTypes
<1>6. ASSUME NEW u \in Tasks, pc'[u] \in Editing, NEW i \in 1..Len(order),
             i <= since'[u], order[i] \notin base'[u]
      PROVE  removed \/ Overwritten(i)
    <2>1. CASE u = t
        <3>1. order[i] \notin Content
            BY <1>1, <1>6, <2>1 DEF TaskTypes
        <3>2. CASE file = Gone
            BY <3>2, <1>2 DEF LossInv
        <3>3. CASE file # Gone
            BY <3>1, <3>3 DEF LossInv, Content
        <3> QED
            BY <3>2, <3>3
    <2>2. CASE u # t
        BY <1>1, <1>6, <2>2 DEF LossInv, TaskTypes, HistoryTypes
    <2> QED
        BY <2>1, <2>2
<1>7. LossInv'
    BY <1>1, <1>5, <1>6 DEF LossInv
<1> QED
    BY <1>3, <1>7

LEMMA ReplaceStep ==
    ASSUME CommitInv, OrderInv, LossInv, NEW t \in Tasks,
           Rename(t) \/ Retry(t)
    PROVE  OrderInv' /\ LossInv'
<1> USE DEF CommitInv
<1>1. /\ pc[t] \in Editing /\ pc[t] # "ok" /\ pc' = [pc EXCEPT ![t] = "ok"]
      /\ file' = shadow[t] /\ shadow[t] = modified_content(t)
      /\ order' = Append(order, t)
      /\ UNCHANGED <<base, since, opts, removed>>
    BY DEF Rename, Retry, MoveIntoPlace, Goto, ShadowInv, Editing
<1>2. order \in Seq(Tasks) /\ Len(order) \in Nat
    BY DEF HistoryTypes
<1>3. /\ Len(order') = Len(order) + 1
      /\ order'[Len(order) + 1] = t
      /\ \A i \in 1..Len(order) : order'[i] = order[i]
    BY <1>1, <1>2
<1>4. \A i \in 1..Len(order) : order[i] \in Tasks /\ order[i] # t
    BY <1>1, <1>2 DEF OrderInv
<1>5. OrderInv'
    <2>1. \A u \in Tasks : pc'[u] = "ok" =>
            \E i \in 1..Len(order') : order'[i] = u
        BY <1>1, <1>2, <1>3 DEF OrderInv, TaskTypes
    <2>2. \A i \in 1..Len(order') : pc'[order'[i]] = "ok"
        BY <1>1, <1>2, <1>3, <1>4 DEF OrderInv, TaskTypes
    <2>3. \A i, j \in 1..Len(order') : order'[i] = order'[j] => i = j
        BY <1>2, <1>3, <1>4 DEF OrderInv
    <2>4. \A u \in Tasks : since'[u] <= Len(order')
        BY <1>1, <1>2, <1>3 DEF OrderInv, HistoryTypes
    <2> QED
        BY <2>1, <2>2, <2>3, <2>4 DEF OrderInv
<1>6. ASSUME NEW i \in 1..Len(order), Overwritten(i)
      PROVE  Overwritten(i)'
    BY <1>1, <1>2, <1>3, <1>6 DEF Overwritten
<1>7. ASSUME NEW i \in 1..Len(order), since[t] < i \/ opts[t].full
      PROVE  Overwritten(i)'
    <2>1. Len(order) + 1 \in 1..Len(order')
        BY <1>2, <1>3
    <2>2. i < Len(order) + 1
        BY <1>2
    <2> QED
        BY <1>1, <1>3, <1>7, <2>1, <2>2 DEF Overwritten
<1>8. file' # Gone
    BY <1>1, ModifiedIsText, ValuesAssumption
<1>9. ASSUME NEW i \in 1..Len(order'), order'[i] \notin file'
      PROVE  removed \/ Overwritten(i)'
    <2>1. t \in file'
        BY <1>1 DEF modified_content
    <2>2. i \in 1..Len(order) /\ order[i] \notin file'
        BY <1>2, <1>3, <1>9, <2>1
    <2>3. CASE opts[t].full \/ since[t] < i
        BY <1>7, <2>2, <2>3
    <2>4. CASE ~opts[t].full /\ ~(since[t] < i)
        <3>1. file' = base[t] \cup {t}
            BY <1>1, <2>4 DEF modified_content
        <3>2. order[i] \notin base[t] /\ i <= since[t]
            BY <2>2, <2>4, <3>1, <1>2 DEF HistoryTypes
        <3> QED
            BY <1>1, <1>6, <2>2, <3>2 DEF LossInv
    <2> QED
        BY <2>3, <2>4
<1>10. ASSUME NEW u \in Tasks, pc'[u] \in Editing, NEW i \in 1..Len(order'),
              i <= since'[u], order'[i] \notin base'[u]
       PROVE  removed \/ Overwritten(i)'
    <2>1. pc[u] \in Editing
        BY <1>1, <1>10 DEF TaskTypes, Editing
    <2>2. i \in 1..Len(order) /\ order[i] \notin base[u] /\ i <= since[u]
        BY <1>1, <1>2, <1>3, <1>10 DEF OrderInv, HistoryTypes
    <2> QED
        BY <1>6, <2>1, <2>2 DEF LossInv
<1>11. LossInv'
    BY <1>1, <1>8, <1>9, <1>10 DEF LossInv
<1> QED
    BY <1>5, <1>11

LEMMA LossStep ==
    CommitInv /\ OrderInv /\ LossInv /\ [Next]_vars => OrderInv' /\ LossInv'
<1> SUFFICES ASSUME CommitInv, OrderInv, LossInv, [Next]_vars
             PROVE  OrderInv' /\ LossInv'
    OBVIOUS
<1> DEFINE
      Quiet ==
        /\ UNCHANGED <<order, since, base>>
        /\ \A t \in Tasks : pc[t] = "ok" \/ pc'[t] = "ok" =>
                              pc'[t] = pc[t] /\ opts'[t] = opts[t]
        /\ \A t \in Tasks : pc'[t] \in Editing => pc[t] \in Editing
        /\ file' = file \/ (file' = Gone /\ removed')
        /\ removed => removed'
<1>1. ASSUME NEW t \in Tasks, NEW o \in Asked, Ask(t, o)
      PROVE  Quiet
    BY <1>1 DEF Ask, Goto, CommitInv, TaskTypes, Editing, diskVars, historyVars
<1>2. ASSUME NEW t \in Tasks, Reject(t) \/ CommitFails(t)
      PROVE  Quiet
    BY <1>2 DEF Reject, CommitFails, Goto, CommitInv, TaskTypes, Editing,
                diskVars, historyVars
<1>3. ASSUME NEW t \in Tasks,
             CreateShadow(t) \/ WriteShadow(t) \/ SyncShadow(t)
      PROVE  Quiet
    BY <1>3 DEF CreateShadow, WriteShadow, SyncShadow, Goto, CommitInv,
                TaskTypes, Editing, historyVars
<1>4. ASSUME NEW t \in Tasks, RenameRefused(t) \/ RetryRefused(t)
      PROVE  Quiet
    BY <1>4 DEF RenameRefused, RetryRefused, Goto, CommitInv, TaskTypes,
                Editing, diskVars
<1>5. ASSUME NEW t \in Tasks, ClearReadonly(t)
      PROVE  Quiet
    BY <1>5 DEF ClearReadonly, Goto, CommitInv, TaskTypes, Editing, diskVars,
                historyVars
<1>6. ASSUME NEW t \in Tasks, RemoveTarget(t)
      PROVE  Quiet
    BY <1>6 DEF RemoveTarget, Goto, CommitInv, TaskTypes, Editing
<1>7. ASSUME NEW t \in Tasks, Crash(t)
      PROVE  Quiet
    BY <1>7 DEF Crash, Goto, CommitInv, TaskTypes, Editing, Ended, diskVars,
                historyVars
<1>8. ASSUME NEW mode \in {"exclusive", "shared"},
             OpenFile(mode) \/ CloseFile
      PROVE  Quiet
    BY <1>8 DEF OpenFile, CloseFile, diskVars, historyVars
<1>9. ASSUME PowerLoss
      PROVE  Quiet
    BY <1>9 DEF PowerLoss, CommitInv, TaskTypes, DiskTypes, Editing, Ended,
                historyVars
<1>10. ASSUME UNCHANGED vars
       PROVE  Quiet
    BY <1>10 DEF vars, diskVars, historyVars
<1>11. Quiet => OrderInv' /\ LossInv'
    BY QuietStep
<1> QED
    BY <1>1, <1>2, <1>3, <1>4, <1>5, <1>6, <1>7, <1>8, <1>9, <1>10, <1>11,
       ReadStep, ReplaceStep
       DEF Next, TaskNext

\* Where a task is in order.
LEMMA PositionIs ==
    ASSUME OrderInv, NEW i \in 1..Len(order)
    PROVE  Position(order[i]) = i
    BY DEF OrderInv, Position

\* For any number of tasks: an edit that was reported and is not in the file
\* was overwritten by a task that had read the file before it, by a full
\* replacement, or removed by the fallback.
THEOREM LossesAreOverlaps == Spec => []LostOnlyByOverlap
<1>1. CommitInv /\ OrderInv /\ LossInv => LostOnlyByOverlap
    <2> SUFFICES ASSUME CommitInv, OrderInv, LossInv,
                        NEW t \in Tasks, pc[t] = "ok", file # Gone,
                        t \notin file, ~removed
                 PROVE  \E u \in ToSet(order) :
                          /\ Position(u) > Position(t)
                          /\ since[u] < Position(t) \/ opts[u].full
        BY DEF LostOnlyByOverlap
    <2>1. PICK i \in 1..Len(order) : order[i] = t
        BY DEF OrderInv
    <2>2. PICK j \in 1..Len(order) :
            i < j /\ (since[order[j]] < i \/ opts[order[j]].full)
        BY <2>1 DEF LossInv, Overwritten
    <2>3. order[j] \in ToSet(order)
        BY <2>2 DEF ToSet
    <2>4. Position(t) = i /\ Position(order[j]) = j
        BY <2>1, PositionIs
    <2> QED
        BY <2>2, <2>3, <2>4
<1> QED
    BY <1>1, InitOrder, LossStep, CommitCorrect, PTL DEF Spec

-----------------------------------------------------------------------------
(* The jail, for every tree, every path and any bounds of the operating    *)
(* system: walks along paths.                                              *)

LEMMA NatSetInduction ==
    ASSUME NEW T, 0 \in T, \A n \in Nat : n \in T => n + 1 \in T
    PROVE  Nat \subseteq T
<1> DEFINE Less == {p \in Nat \X Nat : p[1] < p[2]}
           Rest == Nat \ T
<1> SUFFICES ASSUME Rest # {}
             PROVE  FALSE
    OBVIOUS
<1>1. IsWellFoundedOn(Less, Nat)
    BY NatLessThanWellFounded, Zenon DEF OpToRel
<1>2. PICK x \in Rest : \A y \in Rest : ~(<<y, x>> \in Less)
    <2>1. Rest \subseteq Nat
        OBVIOUS
    <2> HIDE DEF Less, Rest
    <2> QED
        BY <1>1, <2>1, WFMin
<1>3. \A y \in Rest : ~(y < x)
    BY <1>2
<1>4. x - 1 \in Nat
    BY <1>2
<1> QED
    BY <1>3, <1>4

\* g is the first n steps of a walk.
FirstSteps(tree, path, n, g) ==
    /\ g[0] = Start(path)
    /\ \A i \in 1..n : g[i] = Step(tree, g[i - 1])

LEMMA FirstStepsExist ==
    ASSUME NEW tree, NEW path
    PROVE  \A n \in Nat : \E g : FirstSteps(tree, path, n, g)
<1> DEFINE T == {n \in Nat : \E g : FirstSteps(tree, path, n, g)}
<1>1. 0 \in T
    <2>1. FirstSteps(tree, path, 0, [i \in 0..0 |-> Start(path)])
        BY DEF FirstSteps
    <2> QED
        BY <2>1
<1>2. ASSUME NEW n \in Nat, n \in T
      PROVE  n + 1 \in T
    <2>1. PICK g : FirstSteps(tree, path, n, g)
        BY <1>2
    <2> DEFINE h == [i \in 0..n + 1 |->
                        IF i = n + 1 THEN Step(tree, g[n]) ELSE g[i]]
    <2>2. h[0] = Start(path)
        BY <2>1 DEF FirstSteps
    <2>3. ASSUME NEW i \in 1..n + 1
          PROVE  h[i] = Step(tree, h[i - 1])
        <3>1. h[i - 1] = g[i - 1]
            OBVIOUS
        <3>2. CASE i = n + 1
            <4>1. h[i] = Step(tree, g[n]) /\ i - 1 = n
                BY <3>2
            <4> QED
                BY <3>1, <4>1
        <3>3. CASE i \in 1..n
            <4>1. h[i] = g[i] /\ g[i] = Step(tree, g[i - 1])
                BY <2>1, <3>3 DEF FirstSteps
            <4> QED
                BY <3>1, <4>1
        <3> QED
            BY <3>2, <3>3
    <2>4. FirstSteps(tree, path, n + 1, h)
        BY <2>2, <2>3 DEF FirstSteps
    <2> QED
        BY <2>4
<1>3. Nat \subseteq T
    <2> HIDE DEF T
    <2> QED
        BY <1>1, <1>2, NatSetInduction
<1> QED
    BY <1>3

LEMMA FirstStepsAgree ==
    ASSUME NEW tree, NEW path, NEW m \in Nat, NEW n \in Nat, m <= n,
           NEW g, FirstSteps(tree, path, m, g), NEW h, FirstSteps(tree, path, n, h)
    PROVE  \A i \in 0..m : g[i] = h[i]
<1> DEFINE T == {i \in Nat : i <= m => g[i] = h[i]}
<1>1. 0 \in T
    BY DEF FirstSteps
<1>2. ASSUME NEW i \in Nat, i \in T
      PROVE  i + 1 \in T
    <2> SUFFICES ASSUME i + 1 <= m
                 PROVE  g[i + 1] = h[i + 1]
        OBVIOUS
    <2>1. g[i] = h[i]
        BY <1>2
    <2>2. i + 1 \in 1..m /\ i + 1 \in 1..n /\ (i + 1) - 1 = i
        OBVIOUS
    <2> QED
        BY <2>1, <2>2 DEF FirstSteps
<1>3. Nat \subseteq T
    <2> HIDE DEF T
    <2> QED
        BY <1>1, <1>2, NatSetInduction
<1> QED
    BY <1>3

\* A walk is what its definition says.
LEMMA WalkSteps ==
    ASSUME NEW tree, NEW path
    PROVE  /\ Walk(tree, path)[0] = Start(path)
           /\ \A n \in Nat : Walk(tree, path)[n + 1] = Step(tree, Walk(tree, path)[n])
<1> DEFINE First(n) == CHOOSE g : FirstSteps(tree, path, n, g)
           F == [n \in Nat |-> First(n)[n]]
           W == Walk(tree, path)
<1>1. \A n \in Nat : FirstSteps(tree, path, n, First(n))
    BY FirstStepsExist
<1> HIDE DEF First
<1>2. ASSUME NEW n \in Nat
      PROVE  F[n] = IF n = 0 THEN Start(path) ELSE Step(tree, F[n - 1])
    <2>1. CASE n = 0
        BY <1>1, <2>1 DEF FirstSteps
    <2>2. CASE n # 0
        <3>1. n - 1 \in Nat /\ n - 1 <= n
            BY <2>2
        <3>2. FirstSteps(tree, path, n - 1, First(n - 1))
              /\ FirstSteps(tree, path, n, First(n))
            BY <1>1, <3>1
        <3>3. First(n - 1)[n - 1] = First(n)[n - 1]
            BY <3>1, <3>2, FirstStepsAgree
        <3>4. First(n)[n] = Step(tree, First(n)[n - 1])
            BY <2>2, <3>2 DEF FirstSteps
        <3> QED
            BY <2>2, <3>1, <3>3, <3>4
    <2> QED
        BY <2>1, <2>2
<1>3. F = [n \in Nat |-> IF n = 0 THEN Start(path) ELSE Step(tree, F[n - 1])]
    BY <1>2
<1> HIDE DEF F
<1>4. \E g : g = [n \in Nat |-> IF n = 0 THEN Start(path) ELSE Step(tree, g[n - 1])]
    BY <1>3
<1>5. W = [n \in Nat |-> IF n = 0 THEN Start(path) ELSE Step(tree, W[n - 1])]
    BY <1>4 DEF Walk
<1> HIDE DEF W
<1>6. \A n \in Nat : W[n] = IF n = 0 THEN Start(path) ELSE Step(tree, W[n - 1])
    BY <1>5
<1>7. ASSUME NEW n \in Nat
      PROVE  W[n + 1] = Step(tree, W[n])
    <2>1. n + 1 \in Nat /\ n + 1 # 0 /\ (n + 1) - 1 = n
        OBVIOUS
    <2> QED
        BY <1>6, <2>1
<1>8. W[0] = Start(path)
    BY <1>6
<1> QED
    BY <1>7, <1>8 DEF W

-----------------------------------------------------------------------------
(* The jail: the steps of a walk.                                          *)

IsTree(tree) ==
    DOMAIN tree \subseteq Seq(Names) /\ \A p \in DOMAIN tree : tree[p] \in Nodes

Configs == [at : Seq(Names), comps : Seq(Components), links : Nat]

LEMMA Kinds ==
    ASSUME NEW tree, IsTree(tree), NEW p
    PROVE  /\ KindOf(tree, p) \in {"none", "dir", "file", "link"}
           /\ KindOf(tree, p) # "none" => p \in Seq(Names)
           /\ KindOf(tree, p) = "link" =>
                tree[p].abs \in BOOLEAN /\ tree[p].to \in Seq(Components)
BY DEF IsTree, KindOf, Nodes

Child(c) == Append(c.at, Head(c.comps))
ToGo(tree, c) == c.comps # <<>> /\ KindOf(tree, c.at) = "dir"

\* The steps there are: up, down, through a link, or none.
Up(tree, c) == ToGo(tree, c) /\ Head(c.comps) = ".."
Down(tree, c) ==
    ToGo(tree, c) /\ Head(c.comps) # ".." /\ KindOf(tree, Child(c)) \in {"dir", "file"}
AtLink(tree, c) ==
    ToGo(tree, c) /\ Head(c.comps) # ".." /\ KindOf(tree, Child(c)) = "link"
DeadEnd(tree, c) ==
    \/ c.comps # <<>> /\ KindOf(tree, c.at) # "dir"
    \/ ToGo(tree, c) /\ Head(c.comps) # ".." /\ KindOf(tree, Child(c)) = "none"

LEMMA StepCases ==
    ASSUME NEW tree, IsTree(tree), NEW c \in Configs
    PROVE  /\ \/ c.comps = <<>> \/ Up(tree, c) \/ Down(tree, c)
              \/ AtLink(tree, c) \/ DeadEnd(tree, c)
           /\ c.comps = <<>> \/ DeadEnd(tree, c) => Step(tree, c) = c
           /\ Up(tree, c) =>
                Step(tree, c) = [at |-> Parent(c.at), comps |-> Tail(c.comps),
                                 links |-> c.links]
           /\ Down(tree, c) =>
                Step(tree, c) = [at |-> Child(c), comps |-> Tail(c.comps),
                                 links |-> c.links]
           /\ AtLink(tree, c) /\ c.links > 0 =>
                Step(tree, c) = [at |-> IF tree[Child(c)].abs THEN <<>> ELSE c.at,
                                 comps |-> tree[Child(c)].to \o Tail(c.comps),
                                 links |-> c.links - 1]
           /\ AtLink(tree, c) /\ c.links = 0 => Step(tree, c) = c
<1>1. KindOf(tree, Child(c)) \in {"none", "dir", "file", "link"}
    BY Kinds
<1>3. c.links \in Nat
    BY DEF Configs
<1>4. \/ c.comps = <<>> \/ Up(tree, c) \/ Down(tree, c)
      \/ AtLink(tree, c) \/ DeadEnd(tree, c)
    BY <1>1 DEF Up, Down, AtLink, DeadEnd, ToGo
<1>5. c.comps = <<>> \/ DeadEnd(tree, c) => Step(tree, c) = c
    BY DEF Step, DeadEnd, ToGo, Child
<1>6. Up(tree, c) =>
        Step(tree, c) = [at |-> Parent(c.at), comps |-> Tail(c.comps),
                         links |-> c.links]
    BY DEF Step, Up, ToGo
<1>7. Down(tree, c) =>
        Step(tree, c) = [at |-> Child(c), comps |-> Tail(c.comps), links |-> c.links]
    BY DEF Step, Down, ToGo, Child
<1>8. ASSUME AtLink(tree, c), c.links > 0
      PROVE  Step(tree, c) = [at |-> IF tree[Child(c)].abs THEN <<>> ELSE c.at,
                              comps |-> tree[Child(c)].to \o Tail(c.comps),
                              links |-> c.links - 1]
    BY <1>8 DEF Step, AtLink, ToGo, Child
<1>9. ASSUME AtLink(tree, c), c.links = 0
      PROVE  Step(tree, c) = c
    <2>1. ~(c.links > 0)
        BY <1>9
    <2> QED
        BY <1>9, <2>1 DEF Step, AtLink, ToGo, Child
<1> QED
    BY <1>4, <1>5, <1>6, <1>7, <1>8, <1>9

LEMMA PrefixOf ==
    ASSUME NEW S, NEW s \in Seq(S), NEW k \in 0..Len(s)
    PROVE  /\ SubSeq(s, 1, k) \in Seq(S) /\ Len(SubSeq(s, 1, k)) = k
           /\ \A i \in 1..k : SubSeq(s, 1, k)[i] = s[i]
           /\ \A i \in 0..k : SubSeq(SubSeq(s, 1, k), 1, i) = SubSeq(s, 1, i)
<1>1. Len(s) \in Nat /\ k \in Nat /\ k \in Int /\ 1 \in Int
    BY LenProperties
<1>2. ASSUME NEW i \in 0..k
      PROVE  /\ SubSeq(s, 1, i) \in Seq(S) /\ Len(SubSeq(s, 1, i)) = i
             /\ \A j \in 1..i : SubSeq(s, 1, i)[j] = s[j]
    <2>1. i \in Int /\ \A j \in 1..i : s[j] \in S
        BY <1>1, ElementOfSeq
    <2>2. /\ SubSeq(s, 1, i) \in Seq(S)
          /\ Len(SubSeq(s, 1, i)) = IF 1 <= i THEN i - 1 + 1 ELSE 0
          /\ \A j \in 1..i - 1 + 1 : SubSeq(s, 1, i)[j] = s[1 + j - 1]
        BY <1>1, <2>1, SubSeqProperties
    <2>3. i - 1 + 1 = i /\ \A j \in 1..i : 1 + j - 1 = j
        BY <2>1
    <2> QED
        BY <1>1, <2>2, <2>3
<1>3. ASSUME NEW i \in 0..k
      PROVE  SubSeq(SubSeq(s, 1, k), 1, i) = SubSeq(s, 1, i)
    <2> DEFINE t == SubSeq(s, 1, k)
    <2>1. t \in Seq(S) /\ Len(t) = k /\ \A j \in 1..k : t[j] = s[j]
        BY <1>1, <1>2
    <2> HIDE DEF t
    <2>2. i \in Int /\ \A j \in 1..i : t[j] \in S /\ t[j] = s[j]
        BY <1>1, <2>1, ElementOfSeq
    <2>3. /\ SubSeq(t, 1, i) \in Seq(S)
          /\ Len(SubSeq(t, 1, i)) = IF 1 <= i THEN i - 1 + 1 ELSE 0
          /\ \A j \in 1..i - 1 + 1 : SubSeq(t, 1, i)[j] = t[1 + j - 1]
        BY <1>1, <2>2, SubSeqProperties
    <2>4. Len(SubSeq(t, 1, i)) = i /\ \A j \in 1..i : SubSeq(t, 1, i)[j] = s[j]
        <3>1. i - 1 + 1 = i /\ \A j \in 1..i : 1 + j - 1 = j
            BY <2>2
        <3> QED
            BY <2>2, <2>3, <3>1
    <2>5. SubSeq(t, 1, i) = SubSeq(s, 1, i)
        BY <1>2, <2>3, <2>4, SeqEqual
    <2> QED
        BY <2>5 DEF t
<1> QED
    BY <1>1, <1>2, <1>3

LEMMA ParentIs ==
    ASSUME NEW p \in Seq(Names)
    PROVE  \E k \in 0..Len(p) : Parent(p) = SubSeq(p, 1, k)
<1>1. CASE p = <<>>
    <2>1. Len(p) = 0 /\ SubSeq(p, 1, 0) = <<>>
        BY <1>1, EmptySeq, SubSeqEmpty
    <2> QED
        BY <1>1, <2>1 DEF Parent
<1>2. CASE p # <<>>
    <2>1. Len(p) \in Nat /\ Len(p) > 0
        BY <1>2, EmptySeq, LenProperties
    <2>2. Parent(p) = SubSeq(p, 1, Len(p) - 1)
        BY <1>2 DEF Parent, Front
    <2> QED
        BY <2>1, <2>2
<1> QED
    BY <1>1, <1>2

LEMMA PrefixEqual ==
    ASSUME NEW S, NEW s \in Seq(S), NEW t \in Seq(S), NEW k \in Nat,
           k <= Len(s), k <= Len(t), \A i \in 1..k : s[i] = t[i]
    PROVE  SubSeq(s, 1, k) = SubSeq(t, 1, k)
<1>1. Len(s) \in Nat /\ Len(t) \in Nat
    BY LenProperties
<1>2. k \in 0..Len(s) /\ k \in 0..Len(t)
    BY <1>1
<1>3. /\ SubSeq(s, 1, k) \in Seq(S) /\ Len(SubSeq(s, 1, k)) = k
      /\ \A i \in 1..k : SubSeq(s, 1, k)[i] = s[i]
    BY <1>2, PrefixOf
<1>4. /\ SubSeq(t, 1, k) \in Seq(S) /\ Len(SubSeq(t, 1, k)) = k
      /\ \A i \in 1..k : SubSeq(t, 1, k)[i] = t[i]
    BY <1>2, PrefixOf
<1> QED
    BY <1>3, <1>4, SeqEqual

\* A path without links, to something that is there.
Physical(tree, p) ==
    /\ \A k \in 0..Len(p) - 1 : KindOf(tree, SubSeq(p, 1, k)) = "dir"
    /\ \A k \in 1..Len(p) : KindOf(tree, SubSeq(p, 1, k)) \in {"dir", "file"}

LEMMA PhysicalPrefix ==
    ASSUME NEW tree, NEW p \in Seq(Names), Physical(tree, p), NEW k \in 0..Len(p)
    PROVE  Physical(tree, SubSeq(p, 1, k))
<1>1. Len(p) \in Nat
    BY LenProperties
<1>2. /\ Len(SubSeq(p, 1, k)) = k
      /\ \A i \in 0..k : SubSeq(SubSeq(p, 1, k), 1, i) = SubSeq(p, 1, i)
    BY PrefixOf
<1>3. ASSUME NEW i \in 0..k - 1
      PROVE  KindOf(tree, SubSeq(SubSeq(p, 1, k), 1, i)) = "dir"
    <2>1. i \in 0..k /\ i \in 0..Len(p) - 1
        BY <1>1
    <2> QED
        BY <1>2, <2>1 DEF Physical
<1>4. ASSUME NEW i \in 1..k
      PROVE  KindOf(tree, SubSeq(SubSeq(p, 1, k), 1, i)) \in {"dir", "file"}
    <2>1. i \in 0..k /\ i \in 1..Len(p)
        BY <1>1
    <2> QED
        BY <1>2, <2>1 DEF Physical
<1> QED
    BY <1>2, <1>3, <1>4 DEF Physical

LEMMA PhysicalChild ==
    ASSUME NEW tree, NEW p \in Seq(Names), Physical(tree, p), NEW e \in Names,
           KindOf(tree, p) = "dir", KindOf(tree, Append(p, e)) \in {"dir", "file"}
    PROVE  Physical(tree, Append(p, e))
<1> DEFINE q == Append(p, e)
<1>1. Len(p) \in Nat
    BY LenProperties
<1>2. /\ q \in Seq(Names) /\ Len(q) = Len(p) + 1
      /\ \A i \in 1..Len(p) : q[i] = p[i]
    BY AppendProperties
<1>3. KindOf(tree, q) \in {"dir", "file"}
    OBVIOUS
<1> HIDE DEF q
<1>4. \A k \in 0..Len(p) : SubSeq(q, 1, k) = SubSeq(p, 1, k)
    BY <1>1, <1>2, PrefixEqual
<1>5. SubSeq(p, 1, Len(p)) = p /\ SubSeq(q, 1, Len(p) + 1) = q
    BY <1>2, SubSeqFull
<1>6. ASSUME NEW k \in 0..Len(q) - 1
      PROVE  KindOf(tree, SubSeq(q, 1, k)) = "dir"
    <2>1. k \in 0..Len(p) /\ (k = Len(p) \/ k \in 0..Len(p) - 1)
        BY <1>1, <1>2
    <2>2. SubSeq(q, 1, k) = SubSeq(p, 1, k)
        BY <1>4, <2>1
    <2>3. CASE k = Len(p)
        BY <1>5, <2>2, <2>3
    <2>4. CASE k \in 0..Len(p) - 1
        BY <2>2, <2>4 DEF Physical
    <2> QED
        BY <2>1, <2>3, <2>4
<1>7. ASSUME NEW k \in 1..Len(q)
      PROVE  KindOf(tree, SubSeq(q, 1, k)) \in {"dir", "file"}
    <2>1. k \in 1..Len(p) \/ k = Len(p) + 1
        BY <1>1, <1>2
    <2>2. CASE k \in 1..Len(p)
        <3>1. k \in 0..Len(p)
            BY <2>2
        <3>2. SubSeq(q, 1, k) = SubSeq(p, 1, k)
            BY <1>4, <3>1
        <3> QED
            BY <2>2, <3>2 DEF Physical
    <2> QED
        BY <1>3, <1>5, <2>1, <2>2
<1> QED
    BY <1>6, <1>7 DEF Physical, q

LEMMA PhysicalTop == ASSUME NEW tree PROVE Physical(tree, <<>>)
<1>1. Len(<<>>) = 0
    BY EmptySeq
<1> QED
    BY <1>1 DEF Physical

\* A step keeps the types; it gets at most one deeper, and only to what is
\* there.
LEMMA StepKeeps ==
    ASSUME NEW tree, IsTree(tree), NEW c \in Configs
    PROVE  /\ Step(tree, c) \in Configs
           /\ Len(Step(tree, c).at) <= Len(c.at) + 1
           /\ Step(tree, c).links <= c.links
           /\ Physical(tree, c.at) => Physical(tree, Step(tree, c).at)
<1> DEFINE d == Step(tree, c)
<1>1. /\ c.at \in Seq(Names) /\ c.comps \in Seq(Components) /\ c.links \in Nat
      /\ Len(c.at) \in Nat
    BY LenProperties DEF Configs
<1>2. CASE d = c
    BY <1>1, <1>2
<1>3. c.comps # <<>> =>
        Head(c.comps) \in Components /\ Tail(c.comps) \in Seq(Components)
    BY <1>1, HeadTailProperties
<1>4. CASE Up(tree, c)
    <2>1. d = [at |-> Parent(c.at), comps |-> Tail(c.comps), links |-> c.links]
        BY <1>4, StepCases
    <2>2. PICK k \in 0..Len(c.at) : Parent(c.at) = SubSeq(c.at, 1, k)
        BY <1>1, ParentIs
    <2>3. /\ Parent(c.at) \in Seq(Names) /\ Len(Parent(c.at)) = k
          /\ Physical(tree, c.at) => Physical(tree, Parent(c.at))
        BY <1>1, <2>2, PrefixOf, PhysicalPrefix
    <2>4. Tail(c.comps) \in Seq(Components)
        BY <1>3, <1>4 DEF Up, ToGo
    <2> HIDE DEF d
    <2>5. d \in Configs /\ d.at = Parent(c.at) /\ d.links = c.links
        BY <1>1, <2>1, <2>3, <2>4 DEF Configs
    <2>6. k <= Len(c.at) + 1 /\ c.links <= c.links
        BY <1>1
    <2> QED
        BY <2>3, <2>5, <2>6 DEF d
<1>5. CASE Down(tree, c)
    <2>1. d = [at |-> Child(c), comps |-> Tail(c.comps), links |-> c.links]
        BY <1>5, StepCases
    <2>2. Head(c.comps) \in Names /\ Tail(c.comps) \in Seq(Components)
        BY <1>3, <1>5 DEF Down, ToGo, Components
    <2>3. /\ Child(c) \in Seq(Names) /\ Len(Child(c)) = Len(c.at) + 1
          /\ Physical(tree, c.at) => Physical(tree, Child(c))
        BY <1>1, <1>5, <2>2, AppendProperties, PhysicalChild DEF Child, Down, ToGo
    <2> HIDE DEF d
    <2>4. d \in Configs /\ d.at = Child(c) /\ d.links = c.links
        BY <1>1, <2>1, <2>2, <2>3 DEF Configs
    <2>5. Len(c.at) + 1 <= Len(c.at) + 1 /\ c.links <= c.links
        BY <1>1
    <2> QED
        BY <2>3, <2>4, <2>5 DEF d
<1>6. CASE AtLink(tree, c) /\ c.links > 0
    <2> DEFINE to == tree[Child(c)].to
               at == IF tree[Child(c)].abs THEN <<>> ELSE c.at
    <2>1. d = [at |-> at, comps |-> to \o Tail(c.comps), links |-> c.links - 1]
        BY <1>6, StepCases
    <2>2. to \in Seq(Components)
        BY <1>6, Kinds DEF AtLink
    <2>3. to \o Tail(c.comps) \in Seq(Components)
        BY <1>3, <1>6, <2>2, ConcatProperties DEF AtLink, ToGo
    <2>4. at = <<>> \/ at = c.at
        OBVIOUS
    <2>5. /\ at \in Seq(Names) /\ Len(at) <= Len(c.at) + 1
          /\ Physical(tree, c.at) => Physical(tree, at)
        <3>1. Len(<<>>) = 0 /\ <<>> \in Seq(Names)
            BY EmptySeq
        <3> HIDE DEF at
        <3>2. CASE at = <<>>
            <4>1. Len(at) = 0
                BY <3>1, <3>2
            <4>2. Len(at) <= Len(c.at) + 1
                BY <1>1, <4>1
            <4> QED
                BY <3>1, <3>2, <4>2, PhysicalTop
        <3>3. CASE at = c.at
            <4>1. Len(at) <= Len(c.at) + 1
                BY <1>1, <3>3
            <4> QED
                BY <1>1, <3>3, <4>1
        <3> QED
            BY <2>4, <3>2, <3>3
    <2>6. c.links - 1 \in Nat /\ c.links - 1 <= c.links
        BY <1>1, <1>6
    <2> HIDE DEF d, at, to
    <2>7. d \in Configs /\ d.at = at /\ d.links = c.links - 1
        BY <2>1, <2>3, <2>5, <2>6 DEF Configs
    <2> QED
        BY <2>5, <2>6, <2>7 DEF d
<1>7. CASE AtLink(tree, c) /\ c.links = 0
    BY <1>2, <1>7, StepCases
<1>8. CASE c.comps = <<>> \/ DeadEnd(tree, c)
    BY <1>2, <1>8, StepCases
<1>9. c.links > 0 \/ c.links = 0
    BY <1>1
<1> QED
    BY <1>4, <1>5, <1>6, <1>7, <1>8, <1>9, StepCases

LEMMA HeadTailConcat ==
    ASSUME NEW S, NEW s \in Seq(S), s # <<>>, NEW t \in Seq(S)
    PROVE  /\ s \o t # <<>> /\ Head(s \o t) = Head(s)
           /\ Tail(s \o t) = Tail(s) \o t
<1> DEFINE u == s \o t
<1>1. Len(s) \in Nat \ {0} /\ Len(t) \in Nat
    BY EmptySeq, LenProperties
<1>2. /\ u \in Seq(S) /\ Len(u) = Len(s) + Len(t)
      /\ \A i \in 1..Len(s) + Len(t) : u[i] = IF i <= Len(s) THEN s[i] ELSE t[i - Len(s)]
    BY ConcatProperties
<1> HIDE DEF u
<1>3. u # <<>>
    BY <1>1, <1>2, EmptySeq
<1>4. Head(u) = u[1] /\ Head(s) = s[1] /\ u[1] = s[1]
    BY <1>1, <1>2, <1>3
<1>5. /\ Tail(u) \in Seq(S) /\ Len(Tail(u)) = Len(u) - 1
      /\ \A i \in 1..Len(Tail(u)) : Tail(u)[i] = u[i + 1]
    BY <1>2, <1>3, HeadTailProperties
<1>6. /\ Tail(s) \in Seq(S) /\ Len(Tail(s)) = Len(s) - 1
      /\ \A i \in 1..Len(Tail(s)) : Tail(s)[i] = s[i + 1]
    BY HeadTailProperties
<1> DEFINE v == Tail(s) \o t
<1>7. /\ v \in Seq(S) /\ Len(v) = Len(Tail(s)) + Len(t)
      /\ \A i \in 1..Len(Tail(s)) + Len(t) :
           v[i] = IF i <= Len(Tail(s)) THEN Tail(s)[i] ELSE t[i - Len(Tail(s))]
    BY <1>6, ConcatProperties
<1> HIDE DEF v
<1>8. Len(v) = Len(Tail(u))
    BY <1>1, <1>2, <1>5, <1>6, <1>7
<1>9. ASSUME NEW i \in 1..Len(Tail(u))
      PROVE  Tail(u)[i] = v[i]
    <2>1. /\ i + 1 \in 1..Len(s) + Len(t) /\ i \in 1..Len(Tail(s)) + Len(t)
          /\ (i <= Len(Tail(s)) <=> i + 1 <= Len(s))
          /\ (i + 1) - Len(s) = i - Len(Tail(s))
        BY <1>1, <1>2, <1>5, <1>6
    <2>2. Tail(u)[i] = u[i + 1]
        BY <1>5
    <2>3. CASE i <= Len(Tail(s))
        <3>1. i \in 1..Len(Tail(s))
            BY <1>1, <1>6, <2>3
        <3> QED
            BY <1>2, <1>6, <1>7, <2>1, <2>2, <2>3, <3>1
    <2>4. CASE ~(i <= Len(Tail(s)))
        BY <1>2, <1>7, <2>1, <2>2, <2>4
    <2> QED
        BY <2>3, <2>4
<1>10. Tail(u) = v
    BY <1>5, <1>7, <1>8, <1>9, SeqEqual
<1> QED
    BY <1>3, <1>4, <1>10 DEF u, v

-----------------------------------------------------------------------------
(* The jail: whole walks.                                                  *)

\* w is a walk, from wherever it begins.
IsWalk(tree, w) ==
    \A n \in Nat : w[n] \in Configs /\ w[n + 1] = Step(tree, w[n])

\* Where a walk may be after n steps.
LEMMA WalkIs ==
    ASSUME NEW tree, IsTree(tree), NEW path \in Seq(Components)
    PROVE  /\ IsWalk(tree, Walk(tree, path))
           /\ \A n \in Nat :
                LET c == Walk(tree, path)[n]
                IN  /\ Len(c.at) <= n /\ c.links <= MaxLinks
                    /\ Physical(tree, c.at)
<1> DEFINE w == Walk(tree, path)
           T == {n \in Nat : /\ w[n] \in Configs /\ Len(w[n].at) <= n
                             /\ w[n].links <= MaxLinks /\ Physical(tree, w[n].at)}
<1>1. w[0] = Start(path) /\ \A n \in Nat : w[n + 1] = Step(tree, w[n])
    BY WalkSteps
<1> HIDE DEF w
<1>2. 0 \in T
    <2>1. <<>> \in Seq(Names) /\ Len(<<>>) = 0 /\ MaxLinks \in Nat
        BY EmptySeq, JailAssumption
    <2>2. Start(path) \in Configs /\ Start(path).at = <<>>
          /\ Start(path).links = MaxLinks
        BY <2>1 DEF Start, Configs
    <2>3. MaxLinks <= MaxLinks /\ Len(Start(path).at) <= 0
        BY <2>1, <2>2
    <2> QED
        BY <1>1, <2>2, <2>3, PhysicalTop
<1>3. ASSUME NEW n \in Nat, n \in T
      PROVE  n + 1 \in T
    <2> DEFINE c == w[n]
               d == w[n + 1]
    <2>1. /\ c \in Configs /\ Len(c.at) <= n /\ c.links <= MaxLinks
          /\ Physical(tree, c.at) /\ d = Step(tree, c)
        BY <1>1, <1>3
    <2>2. /\ d \in Configs /\ Len(d.at) <= Len(c.at) + 1 /\ d.links <= c.links
          /\ Physical(tree, d.at)
        BY <2>1, StepKeeps
    <2>3. /\ Len(c.at) \in Nat /\ Len(d.at) \in Nat /\ c.links \in Nat
          /\ d.links \in Nat /\ MaxLinks \in Nat
        BY <2>1, <2>2, LenProperties, JailAssumption DEF Configs
    <2> HIDE DEF c, d
    <2>4. Len(d.at) <= n + 1 /\ d.links <= MaxLinks
        BY <2>1, <2>2, <2>3
    <2> QED
        BY <2>2, <2>4 DEF d
<1>4. Nat \subseteq T
    <2> HIDE DEF T
    <2> QED
        BY <1>2, <1>3, NatSetInduction
<1> QED
    BY <1>1, <1>4 DEF IsWalk, w

\* A walk that has come to rest stays.
LEMMA WalkRests ==
    ASSUME NEW tree, NEW w, IsWalk(tree, w), NEW m \in Nat, Step(tree, w[m]) = w[m],
           NEW n \in Nat, m <= n
    PROVE  w[n] = w[m]
<1> DEFINE T == {i \in Nat : w[m + i] = w[m]}
<1>1. 0 \in T
    OBVIOUS
<1>2. ASSUME NEW i \in Nat, i \in T
      PROVE  i + 1 \in T
    <2>1. m + i \in Nat /\ m + (i + 1) = (m + i) + 1
        OBVIOUS
    <2>2. w[(m + i) + 1] = Step(tree, w[m + i])
        BY <2>1 DEF IsWalk
    <2> QED
        BY <1>2, <2>1, <2>2
<1>3. Nat \subseteq T
    <2> HIDE DEF T
    <2> QED
        BY <1>1, <1>2, NatSetInduction
<1>4. n - m \in Nat /\ m + (n - m) = n
    OBVIOUS
<1> QED
    BY <1>3, <1>4

\* What is done was there at some step, and is there from then on.
LEMMA WalkDone ==
    ASSUME NEW tree, IsTree(tree), NEW w, IsWalk(tree, w),
           NEW m \in Nat, w[m].comps = <<>>, NEW n \in Nat, m <= n
    PROVE  w[n] = w[m]
<1>1. Step(tree, w[m]) = w[m]
    BY StepCases DEF IsWalk
<1> QED
    BY <1>1, WalkRests

\* The same place on a longer way, with more links to follow.
Shifted(c, more, extra) ==
    [at |-> c.at, comps |-> c.comps \o more, links |-> c.links + extra]

Goes(tree, c, extra) ==
    c.comps # <<>> /\ (extra > 0 => ~(AtLink(tree, c) /\ c.links = 0))

LEMMA StepShifted ==
    ASSUME NEW tree, IsTree(tree), NEW c \in Configs, NEW more \in Seq(Components),
           NEW extra \in Nat, Goes(tree, c, extra)
    PROVE  /\ Shifted(c, more, extra) \in Configs
           /\ Step(tree, Shifted(c, more, extra)) = Shifted(Step(tree, c), more, extra)
<1> DEFINE b == Shifted(c, more, extra)
<1>1. /\ c.at \in Seq(Names) /\ c.comps \in Seq(Components) /\ c.links \in Nat
      /\ c.comps # <<>>
    BY DEF Configs, Goes
<1>2. /\ Head(c.comps) \in Components /\ Tail(c.comps) \in Seq(Components)
      /\ c.comps \o more \in Seq(Components)
    BY <1>1, HeadTailProperties, ConcatProperties
<1>3. /\ c.comps \o more # <<>> /\ Head(c.comps \o more) = Head(c.comps)
      /\ Tail(c.comps \o more) = Tail(c.comps) \o more
    BY <1>1, HeadTailConcat
<1>4. /\ b \in Configs /\ b.at = c.at /\ b.comps = c.comps \o more
      /\ b.links = c.links + extra /\ b.links \in Nat
    BY <1>1, <1>2 DEF Shifted, Configs
<1> HIDE DEF b
<1>5. /\ b.comps # <<>> /\ Head(b.comps) = Head(c.comps) /\ Child(b) = Child(c)
      /\ Tail(b.comps) = Tail(c.comps) \o more
    BY <1>3, <1>4 DEF Child
<1>6. /\ Up(tree, b) <=> Up(tree, c)
      /\ Down(tree, b) <=> Down(tree, c)
      /\ AtLink(tree, b) <=> AtLink(tree, c)
      /\ DeadEnd(tree, b) <=> DeadEnd(tree, c)
    BY <1>1, <1>4, <1>5 DEF Up, Down, AtLink, DeadEnd, ToGo
<1> DEFINE Same == Step(tree, b) = Shifted(Step(tree, c), more, extra)
<1>7. ASSUME Up(tree, c)
      PROVE  Same
    <2>1. Step(tree, c) = [at |-> Parent(c.at), comps |-> Tail(c.comps),
                           links |-> c.links]
        BY <1>7, StepCases
    <2>2. Step(tree, b) = [at |-> Parent(b.at), comps |-> Tail(b.comps),
                           links |-> b.links]
        BY <1>4, <1>6, <1>7, StepCases
    <2>3. Step(tree, b) = [at |-> Parent(c.at), comps |-> Tail(c.comps) \o more,
                           links |-> c.links + extra]
        BY <1>4, <1>5, <2>2, Zenon
    <2>4. Shifted(Step(tree, c), more, extra)
            = [at |-> Parent(c.at), comps |-> Tail(c.comps) \o more,
               links |-> c.links + extra]
        BY <2>1 DEF Shifted
    <2> QED
        BY <2>3, <2>4
<1>8. ASSUME Down(tree, c)
      PROVE  Same
    <2>1. Step(tree, c) = [at |-> Child(c), comps |-> Tail(c.comps), links |-> c.links]
        BY <1>8, StepCases
    <2>2. Step(tree, b) = [at |-> Child(b), comps |-> Tail(b.comps), links |-> b.links]
        BY <1>4, <1>6, <1>8, StepCases
    <2>3. Step(tree, b) = [at |-> Child(c), comps |-> Tail(c.comps) \o more,
                           links |-> c.links + extra]
        BY <1>4, <1>5, <2>2, Zenon
    <2>4. Shifted(Step(tree, c), more, extra)
            = [at |-> Child(c), comps |-> Tail(c.comps) \o more,
               links |-> c.links + extra]
        BY <2>1 DEF Shifted
    <2> QED
        BY <2>3, <2>4
<1>9. ASSUME AtLink(tree, c), c.links > 0
      PROVE  Same
    <2> DEFINE to == tree[Child(c)].to
               at == IF tree[Child(c)].abs THEN <<>> ELSE c.at
    <2>1. b.links > 0 /\ b.links - 1 = (c.links - 1) + extra
        BY <1>1, <1>4, <1>9
    <2>2. Step(tree, c) = [at |-> at, comps |-> to \o Tail(c.comps),
                           links |-> c.links - 1]
        BY <1>9, StepCases
    <2>3. Step(tree, b) = [at |-> at, comps |-> to \o Tail(b.comps),
                           links |-> b.links - 1]
        BY <1>4, <1>5, <1>6, <1>9, <2>1, StepCases
    <2>4. to \in Seq(Components)
        BY <1>9, Kinds DEF AtLink
    <2> HIDE DEF to, at
    <2>5. to \o (Tail(c.comps) \o more) = (to \o Tail(c.comps)) \o more
        <3> DEFINE rest == Tail(c.comps)
        <3>1. rest \in Seq(Components)
            BY <1>2
        <3> HIDE DEF rest
        <3>2. to \o (rest \o more) = (to \o rest) \o more
            BY <2>4, <3>1, ConcatAssociative
        <3> QED
            BY <3>2 DEF rest
    <2>6. Step(tree, b) = [at |-> at, comps |-> (to \o Tail(c.comps)) \o more,
                           links |-> (c.links - 1) + extra]
        BY <1>5, <2>1, <2>3, <2>5, Zenon
    <2>7. Shifted(Step(tree, c), more, extra)
            = [at |-> at, comps |-> (to \o Tail(c.comps)) \o more,
               links |-> (c.links - 1) + extra]
        BY <2>2 DEF Shifted
    <2> QED
        BY <2>6, <2>7
<1>10. ASSUME DeadEnd(tree, c) PROVE Same
    <2>1. Step(tree, c) = c /\ Step(tree, b) = b
        BY <1>4, <1>6, <1>10, StepCases
    <2> QED
        BY <2>1 DEF b
<1>11. ASSUME AtLink(tree, c), c.links = 0 PROVE Same
    <2>1. extra = 0 /\ b.links = 0
        BY <1>1, <1>4, <1>11 DEF Goes
    <2>2. Step(tree, c) = c /\ Step(tree, b) = b
        BY <1>4, <1>6, <1>11, <2>1, StepCases
    <2> QED
        BY <2>2 DEF b
<1>12. c.links > 0 \/ c.links = 0
    BY <1>1
<1>13. \/ Up(tree, c) \/ Down(tree, c) \/ AtLink(tree, c) \/ DeadEnd(tree, c)
    BY <1>1, StepCases
<1>14. Same
    <2> HIDE DEF Same
    <2> QED
        BY <1>7, <1>8, <1>9, <1>10, <1>11, <1>12, <1>13
<1> QED
    BY <1>4, <1>14 DEF b

\* From its step s on, v begins like w from its step m on.
Copies(tree, w, m, v, s, k, more, extra) ==
    /\ IsWalk(tree, w) /\ IsWalk(tree, v)
    /\ m \in Nat /\ s \in Nat /\ k \in Nat
    /\ more \in Seq(Components) /\ extra \in Nat
    /\ v[s] = Shifted(w[m], more, extra)
    /\ \A i \in 0..k - 1 : Goes(tree, w[m + i], extra)

\* A walk goes on as the walk does that it is a shifted copy of.
LEMMA Mirror ==
    ASSUME NEW tree, IsTree(tree), NEW w, NEW m, NEW v, NEW s, NEW k,
           NEW more, NEW extra, Copies(tree, w, m, v, s, k, more, extra)
    PROVE  v[s + k] = Shifted(w[m + k], more, extra)
<1> USE DEF Copies
<1> DEFINE T == {i \in Nat : i <= k => v[s + i] = Shifted(w[m + i], more, extra)}
<1>1. 0 \in T
    <2>1. s + 0 = s /\ m + 0 = m
        OBVIOUS
    <2> QED
        BY <2>1
<1>2. ASSUME NEW i \in Nat, i \in T
      PROVE  i + 1 \in T
    <2> SUFFICES ASSUME i + 1 <= k
                 PROVE  v[s + (i + 1)] = Shifted(w[m + (i + 1)], more, extra)
        OBVIOUS
    <2>1. /\ i \in 0..k - 1 /\ s + i \in Nat /\ m + i \in Nat
          /\ s + (i + 1) = (s + i) + 1 /\ m + (i + 1) = (m + i) + 1
        OBVIOUS
    <2>2. v[s + i] = Shifted(w[m + i], more, extra) /\ Goes(tree, w[m + i], extra)
        BY <1>2, <2>1
    <2>3. /\ w[m + i] \in Configs /\ w[(m + i) + 1] = Step(tree, w[m + i])
          /\ v[(s + i) + 1] = Step(tree, v[s + i])
        BY <2>1 DEF IsWalk
    <2>4. Step(tree, Shifted(w[m + i], more, extra))
            = Shifted(Step(tree, w[m + i]), more, extra)
        BY <2>2, <2>3, StepShifted
    <2> QED
        BY <2>1, <2>2, <2>3, <2>4
<1>3. Nat \subseteq T
    <2> HIDE DEF T
    <2> QED
        BY <1>1, <1>2, NatSetInduction
<1>4. k \in T /\ k <= k
    BY <1>3
<1> QED
    BY <1>4

\* The walk along a longer path begins like the one along the path.
LEMMA LongerWalk ==
    ASSUME NEW tree, IsTree(tree), NEW x \in Seq(Components), NEW y \in Seq(Components),
           NEW m \in Nat, \A i \in 0..m - 1 : Walk(tree, x)[i].comps # <<>>
    PROVE  Walk(tree, x \o y)[m] = Shifted(Walk(tree, x)[m], y, 0)
<1> DEFINE w == Walk(tree, x)
           v == Walk(tree, x \o y)
<1>1. x \o y \in Seq(Components) /\ MaxLinks + 0 = MaxLinks
    BY ConcatProperties, JailAssumption
<1>2. IsWalk(tree, w) /\ IsWalk(tree, v)
    BY <1>1, WalkIs
<1>3. w[0] = Start(x) /\ v[0] = Start(x \o y)
    BY WalkSteps
<1>4. Start(x \o y) = Shifted(Start(x), y, 0)
    BY <1>1 DEF Start, Shifted
<1>5. \A i \in 0..m - 1 : w[i].comps # <<>>
    OBVIOUS
<1> HIDE DEF w, v
<1>6. v[0] = Shifted(w[0], y, 0)
    BY <1>3, <1>4
<1> DEFINE z == 0
<1>7. z \in Nat /\ ~(z > 0) /\ z + m = m /\ \A i \in 0..m - 1 : z + i = i
    OBVIOUS
<1>8. v[z] = Shifted(w[z], y, z)
    BY <1>6
<1>9. z = 0
    OBVIOUS
<1> HIDE DEF z
<1>10. \A i \in 0..m - 1 : Goes(tree, w[z + i], z)
    BY <1>5, <1>7 DEF Goes
<1>11. v[z + m] = Shifted(w[z + m], y, z)
    <2>1. Copies(tree, w, z, v, z, m, y, z)
        BY <1>2, <1>7, <1>8, <1>10 DEF Copies
    <2> QED
        BY <2>1, Mirror
<1> QED
    BY <1>7, <1>9, <1>11 DEF w, v

\* A walk that is not done after n steps was not done before.
LEMMA NotDoneBefore ==
    ASSUME NEW tree, IsTree(tree), NEW w, IsWalk(tree, w), NEW n \in Nat,
           w[n].comps # <<>>
    PROVE  \A i \in 0..n : w[i].comps # <<>>
<1> SUFFICES ASSUME NEW i \in 0..n, w[i].comps = <<>>
             PROVE  FALSE
    OBVIOUS
<1>1. i \in Nat /\ i <= n
    OBVIOUS
<1>2. w[n] = w[i]
    BY <1>1, WalkDone
<1> QED
    BY <1>2

\* Where the walk along a path ends that does not exist, it ends along every
\* longer one.
LEMMA LongerEnd ==
    ASSUME NEW tree, IsTree(tree), NEW x \in Seq(Components), NEW y \in Seq(Components),
           ~exists(tree, x)
    PROVE  Walk(tree, x \o y)[MaxSteps] = Shifted(Walk(tree, x)[MaxSteps], y, 0)
<1> DEFINE w == Walk(tree, x)
<1>1. IsWalk(tree, w) /\ MaxSteps \in Nat /\ w[MaxSteps].comps # <<>>
    BY WalkIs, JailAssumption DEF exists
<1> HIDE DEF w
<1>2. \A i \in 0..MaxSteps : w[i].comps # <<>>
    BY <1>1, NotDoneBefore
<1>3. \A i \in 0..MaxSteps - 1 : w[i].comps # <<>>
    BY <1>1, <1>2
<1> QED
    BY <1>1, <1>3, LongerWalk DEF w

\* What a path exists through exists.
LEMMA AncestorExists ==
    ASSUME NEW tree, IsTree(tree), NEW x \in Seq(Components), NEW y \in Seq(Components),
           exists(tree, x \o y)
    PROVE  exists(tree, x)
<1> SUFFICES ASSUME ~exists(tree, x)
             PROVE  FALSE
    OBVIOUS
<1> DEFINE c == Walk(tree, x)[MaxSteps]
<1>1. Walk(tree, x \o y)[MaxSteps] = Shifted(c, y, 0)
    BY LongerEnd
<1>2. IsWalk(tree, Walk(tree, x)) /\ MaxSteps \in Nat
    BY WalkIs, JailAssumption
<1>3. c.comps \in Seq(Components) /\ c.comps # <<>>
    BY <1>2 DEF IsWalk, Configs, exists
<1> HIDE DEF c
<1>4. c.comps \o y # <<>>
    BY <1>3, HeadTailConcat
<1> QED
    BY <1>1, <1>4 DEF exists, Shifted

\* A walk along a path has come to an end, and to a dead one if the path does
\* not exist, unless the walk along some longer path gives up.
LEMMA NotGivenUp ==
    ASSUME NEW tree, IsTree(tree), NEW x \in Seq(Components), NEW y \in Seq(Components),
           ~exists(tree, x), ~GaveUp(tree, x \o y)
    PROVE  DeadEnd(tree, Walk(tree, x)[MaxSteps])
<1> DEFINE c == Walk(tree, x)[MaxSteps]
           d == Walk(tree, x \o y)[MaxSteps]
           b == [d EXCEPT !.links = @ + 1]
<1>1. d = Shifted(c, y, 0)
    BY LongerEnd
<1>2. x \o y \in Seq(Components) /\ MaxSteps \in Nat
    BY ConcatProperties, JailAssumption
<1>3. c \in Configs /\ d \in Configs /\ c.comps # <<>>
    BY <1>2, WalkIs DEF IsWalk, exists
<1>4. Step(tree, b) = b
    BY DEF GaveUp
<1> HIDE DEF c, d
<1>5. c.at \in Seq(Names) /\ c.comps \in Seq(Components) /\ c.links \in Nat
    BY <1>3 DEF Configs
<1>6. d.at = c.at /\ d.comps = c.comps \o y /\ d.links = c.links
    BY <1>1, <1>5 DEF Shifted
<1>7. b = [at |-> c.at, comps |-> c.comps \o y, links |-> c.links + 1]
    <2>1. b = [at |-> d.at, comps |-> d.comps, links |-> d.links + 1]
        BY <1>3 DEF Configs
    <2> HIDE DEF b
    <2> QED
        BY <1>6, <2>1
<1> HIDE DEF b
<1>8. /\ b.at = c.at /\ b.comps = c.comps \o y /\ b.links = c.links + 1
      /\ b.links \in Nat /\ b.links > 0
    BY <1>5, <1>7
<1>9. c.comps \o y \in Seq(Components) /\ b \in Configs
    <2>1. c.comps \o y \in Seq(Components)
        BY <1>5, ConcatProperties
    <2> QED
        BY <1>5, <1>7, <2>1 DEF Configs
<1>10. /\ c.comps \o y # <<>> /\ Head(c.comps \o y) = Head(c.comps)
    BY <1>3, <1>5, HeadTailConcat
<1>11. /\ b.comps # <<>> /\ Head(b.comps) = Head(c.comps) /\ Child(b) = Child(c)
       /\ b.comps \in Seq(Components)
    BY <1>8, <1>9, <1>10 DEF Child
<1>12. DeadEnd(tree, b) => DeadEnd(tree, c)
    BY <1>3, <1>8, <1>11 DEF DeadEnd, ToGo
<1>13. Tail(b.comps) # b.comps
    <2> DEFINE s == b.comps
               t == Tail(s)
    <2>1. Len(t) = Len(s) - 1 /\ Len(s) \in Nat
        BY <1>11, HeadTailProperties, LenProperties
    <2> HIDE DEF s, t
    <2>2. t # s
        BY <2>1
    <2> QED
        BY <2>2 DEF s, t
<1>14. ~Up(tree, b)
    <2> SUFFICES ASSUME Up(tree, b)
                 PROVE  FALSE
        OBVIOUS
    <2>1. b = [at |-> Parent(b.at), comps |-> Tail(b.comps), links |-> b.links]
        BY <1>4, <1>9, StepCases
    <2>2. b.comps = Tail(b.comps)
        BY <2>1
    <2> QED
        BY <1>13, <2>2
<1>15. ~Down(tree, b)
    <2> SUFFICES ASSUME Down(tree, b)
                 PROVE  FALSE
        OBVIOUS
    <2>1. b = [at |-> Child(b), comps |-> Tail(b.comps), links |-> b.links]
        BY <1>4, <1>9, StepCases
    <2>2. b.comps = Tail(b.comps)
        BY <2>1
    <2> QED
        BY <1>13, <2>2
<1>16. ~AtLink(tree, b)
    <2> SUFFICES ASSUME AtLink(tree, b)
                 PROVE  FALSE
        OBVIOUS
    <2>1. b = [at |-> IF tree[Child(b)].abs THEN <<>> ELSE b.at,
               comps |-> tree[Child(b)].to \o Tail(b.comps), links |-> b.links - 1]
        BY <1>4, <1>8, <1>9, StepCases
    <2>2. b.links = b.links - 1
        BY <2>1
    <2> QED
        BY <1>8, <2>2
<1> QED
    BY <1>9, <1>11, <1>12, <1>14, <1>15, <1>16, StepCases DEF c

LEMMA SuffixOf ==
    ASSUME NEW S, NEW s \in Seq(S), NEW t \in Seq(S)
    PROVE  SubSeq(s \o t, Len(s) + 1, Len(s) + Len(t)) = t
<1> DEFINE u == s \o t
           n == Len(s)
<1>1. n \in Nat /\ Len(t) \in Nat
    BY LenProperties
<1>2. /\ u \in Seq(S) /\ Len(u) = n + Len(t)
      /\ \A i \in 1..n + Len(t) : u[i] = IF i <= n THEN s[i] ELSE t[i - n]
    BY ConcatProperties
<1> HIDE DEF u, n
<1>3. n + 1 \in Int /\ n + Len(t) \in Int /\ \A i \in n + 1..n + Len(t) : u[i] \in S
    <2>1. \A i \in 1..Len(u) : u[i] \in S
        BY <1>2, ElementOfSeq
    <2> QED
        BY <1>1, <1>2, <2>1
<1> DEFINE j == n + 1
           k == n + Len(t)
           r == SubSeq(u, j, k)
<1>4. j \in Int /\ k \in Int /\ \A i \in j..k : u[i] \in S
    BY <1>3
<1>5. j = n + 1 /\ k = n + Len(t)
    OBVIOUS
<1> HIDE DEF j, k
<1>6. /\ r \in Seq(S) /\ Len(r) = IF j <= k THEN k - j + 1 ELSE 0
      /\ \A i \in 1..k - j + 1 : r[i] = u[j + i - 1]
    BY <1>4, SubSeqProperties
<1> HIDE DEF r
<1>7. Len(r) = Len(t) /\ k - j + 1 = Len(t)
    BY <1>1, <1>5, <1>6
<1>8. ASSUME NEW i \in 1..Len(t)
      PROVE  r[i] = t[i]
    <2>1. /\ j + i - 1 = n + i /\ n + i \in 1..n + Len(t) /\ ~(n + i <= n)
          /\ (n + i) - n = i
        BY <1>1, <1>5
    <2>2. r[i] = u[n + i]
        BY <1>6, <1>7, <2>1
    <2> QED
        BY <1>2, <2>1, <2>2
<1>9. r = t
    BY <1>6, <1>7, <1>8, SeqEqual
<1> QED
    BY <1>5, <1>9 DEF r, u, n

\* A path without links is walked a component at a step.
LEMMA PlainWalk ==
    ASSUME NEW tree, IsTree(tree), NEW p \in Seq(Names), Physical(tree, p),
           NEW y \in Seq(Components)
    PROVE  Walk(tree, p \o y)[Len(p)] = [at |-> p, comps |-> y, links |-> MaxLinks]
<1> DEFINE z == p \o y
           v == Walk(tree, z)
           n == Len(p)
           T == {i \in Nat : i <= n =>
                   v[i] = [at |-> SubSeq(p, 1, i), comps |-> SubSeq(z, i + 1, Len(z)),
                           links |-> MaxLinks]}
<1>1. p \in Seq(Components) /\ n \in Nat /\ Len(y) \in Nat
    BY LenProperties DEF Components
<1>2. /\ z \in Seq(Components) /\ Len(z) = n + Len(y)
      /\ \A i \in 1..n + Len(y) : z[i] = IF i <= n THEN p[i] ELSE y[i - n]
    BY <1>1, ConcatProperties
<1>3. v[0] = Start(z) /\ IsWalk(tree, v)
    BY <1>2, WalkSteps, WalkIs
<1>4. SubSeq(z, n + 1, n + Len(y)) = y
    BY <1>1, SuffixOf
<1> HIDE DEF v, z
<1>5. 0 \in T
    <2>1. SubSeq(p, 1, 0) = <<>>
        BY SubSeqEmpty
    <2>2. SubSeq(z, 0 + 1, Len(z)) = z
        BY <1>2, SubSeqFull
    <2>3. v[0] = [at |-> SubSeq(p, 1, 0), comps |-> SubSeq(z, 0 + 1, Len(z)),
                  links |-> MaxLinks]
        BY <1>3, <2>1, <2>2 DEF Start
    <2> QED
        BY <2>3
<1>6. ASSUME NEW i \in Nat, i \in T, i + 1 <= n
      PROVE  v[i + 1] = [at |-> SubSeq(p, 1, i + 1),
                         comps |-> SubSeq(z, (i + 1) + 1, Len(z)), links |-> MaxLinks]
    <2> DEFINE c == v[i]
               a == SubSeq(p, 1, i)
               s == SubSeq(z, i + 1, Len(z))
    <2>1. c = [at |-> a, comps |-> s, links |-> MaxLinks]
        BY <1>1, <1>6
    <2>2. c \in Configs /\ v[i + 1] = Step(tree, c)
        BY <1>3 DEF IsWalk
    <2>3. /\ i \in 0..n - 1 /\ i + 1 \in 1..n /\ i + 1 \in 1..Len(z)
          /\ Len(z) \in (i + 1)..Len(z) /\ i + 1 <= n
          /\ 1 \in 1..Len(p) /\ i + 1 \in 1..Len(p) /\ (i + 1) - 1 = i
        BY <1>1, <1>2, <1>6
    <2>4. KindOf(tree, a) = "dir" /\ KindOf(tree, SubSeq(p, 1, i + 1)) \in {"dir", "file"}
        BY <2>3 DEF Physical
    <2>5. Head(s) = z[i + 1] /\ Tail(s) = SubSeq(z, (i + 1) + 1, Len(z))
        BY <1>2, <2>3, HeadTailOfSubSeq
    <2>6. z[i + 1] = p[i + 1]
        BY <1>1, <1>2, <2>3
    <2>7. p[i + 1] \in Names /\ p[i + 1] # ".."
        BY <2>3, ElementOfSeq, JailAssumption
    <2>8. SubSeq(p, 1, i + 1) = Append(a, p[i + 1])
        <3>1. SubSeq(p, 1, i + 1) = SubSeq(p, 1, (i + 1) - 1) \o <<p[i + 1]>>
            <4>1. i + 1 \in 1..Len(p) /\ 1 \in 1..Len(p) /\ i + 1 \in 1..Len(p)
                BY <2>3
            <4> QED
                BY <4>1, SubSeqRecursiveSecond
        <3>2. a \in Seq(Names)
            <4>1. i \in 0..Len(p)
                BY <2>3
            <4> QED
                BY <4>1, PrefixOf
        <3>3. a \o <<p[i + 1]>> = Append(a, p[i + 1])
            BY <2>7, <3>2, AppendIsConcat
        <3> QED
            BY <2>3, <3>1, <3>3
    <2>9. s # <<>>
        <3>1. i + 1 \in Int /\ Len(z) \in Int /\ \A j \in i + 1..Len(z) : z[j] \in Components
            <4>1. \A j \in 1..Len(z) : z[j] \in Components
                BY <1>2, ElementOfSeq
            <4> QED
                BY <1>1, <1>2, <4>1
        <3>2. Len(s) = IF i + 1 <= Len(z) THEN Len(z) - (i + 1) + 1 ELSE 0
            BY <3>1, SubSeqProperties
        <3>3. Len(s) # 0
            BY <1>1, <1>2, <2>3, <3>2
        <3> QED
            BY <3>3, EmptySeq
    <2> HIDE DEF c, a, s
    <2>10. c.at = a /\ c.comps = s /\ c.links = MaxLinks
        BY <2>1
    <2>11. Child(c) = SubSeq(p, 1, i + 1)
        BY <2>5, <2>6, <2>8, <2>10 DEF Child
    <2>12. Down(tree, c)
        BY <2>4, <2>5, <2>6, <2>7, <2>9, <2>10, <2>11 DEF Down, ToGo
    <2>13. Step(tree, c) = [at |-> Child(c), comps |-> Tail(c.comps), links |-> c.links]
        BY <2>2, <2>12, StepCases
    <2> QED
        BY <2>2, <2>5, <2>10, <2>11, <2>13
<1>7. ASSUME NEW i \in Nat, i \in T
      PROVE  i + 1 \in T
    <2>1. i + 1 \in Nat
        OBVIOUS
    <2>2. ASSUME i + 1 <= n
          PROVE  v[i + 1] = [at |-> SubSeq(p, 1, i + 1),
                             comps |-> SubSeq(z, (i + 1) + 1, Len(z)),
                             links |-> MaxLinks]
        BY <1>6, <1>7, <2>2
    <2> QED
        BY <2>1, <2>2
<1>8. Nat \subseteq T
    <2> HIDE DEF T
    <2> QED
        BY <1>5, <1>7, NatSetInduction
<1>9. v[n] = [at |-> SubSeq(p, 1, n), comps |-> SubSeq(z, n + 1, Len(z)),
              links |-> MaxLinks]
    <2>1. n \in T /\ n <= n
        BY <1>1, <1>8
    <2> QED
        BY <2>1
<1>10. SubSeq(p, 1, n) = p
    BY SubSeqFull
<1> HIDE DEF n
<1>11. v[n] = [at |-> p, comps |-> y, links |-> MaxLinks]
    BY <1>2, <1>4, <1>9, <1>10
<1> QED
    BY <1>11 DEF v, z, n

\* It exists, and is its own canonical path.
LEMMA PlainIsCanonical ==
    ASSUME NEW tree, IsTree(tree), NEW p \in Seq(Names), Physical(tree, p),
           Len(p) <= MaxSteps
    PROVE  exists(tree, p) /\ canonicalize(tree, p) = p
<1> DEFINE w == Walk(tree, p)
           e == <<>>
<1>1. /\ p \in Seq(Components) /\ e \in Seq(Components) /\ p \o e = p
      /\ Len(p) \in Nat /\ MaxSteps \in Nat
    BY LenProperties, EmptySeq, ConcatEmptySeq, JailAssumption DEF Components
<1> HIDE DEF e
<1>2. w[Len(p)] = [at |-> p, comps |-> e, links |-> MaxLinks]
    <2>1. Walk(tree, p \o e)[Len(p)] = [at |-> p, comps |-> e, links |-> MaxLinks]
        BY <1>1, PlainWalk
    <2> QED
        BY <1>1, <2>1
<1>3. IsWalk(tree, w)
    BY <1>1, WalkIs
<1> HIDE DEF w
<1>4. w[Len(p)].comps = <<>> /\ w[Len(p)].at = p
    BY <1>2 DEF e
<1>5. w[MaxSteps] = w[Len(p)]
    BY <1>1, <1>3, <1>4, WalkDone
<1> QED
    BY <1>4, <1>5 DEF w, exists, canonicalize

\* Where a path leads that exists.
LEMMA CanonicalIs ==
    ASSUME NEW tree, IsTree(tree), NEW x \in Seq(Components), exists(tree, x)
    PROVE  LET a == canonicalize(tree, x)
           IN  a \in Seq(Names) /\ Physical(tree, a) /\ Len(a) <= MaxSteps
<1> DEFINE c == Walk(tree, x)[MaxSteps]
<1>1. MaxSteps \in Nat
    BY JailAssumption
<1>2. c \in Configs /\ Len(c.at) <= MaxSteps /\ Physical(tree, c.at)
    BY <1>1, WalkIs DEF IsWalk
<1>3. canonicalize(tree, x) = c.at
    BY DEF canonicalize, exists
<1> QED
    BY <1>2, <1>3 DEF Configs

LEMMA LastOf ==
    ASSUME NEW T, 0 \in T, NEW n \in Nat
    PROVE  \E k \in 0..n : k \in T /\ \A j \in k + 1..n : j \notin T
<1> DEFINE U == {i \in Nat : \E k \in 0..i : k \in T /\ \A j \in k + 1..i : j \notin T}
<1>1. 0 \in U
    OBVIOUS
<1>2. ASSUME NEW i \in Nat, i \in U
      PROVE  i + 1 \in U
    <2>1. CASE i + 1 \in T
        <3>1. i + 1 \in 0..i + 1 /\ \A j \in (i + 1) + 1..i + 1 : j \notin T
            OBVIOUS
        <3> QED
            BY <2>1, <3>1
    <2>2. CASE i + 1 \notin T
        <3>1. PICK k \in 0..i : k \in T /\ \A j \in k + 1..i : j \notin T
            BY <1>2
        <3>2. k \in 0..i + 1 /\ \A j \in k + 1..i + 1 : j \notin T
            BY <2>2, <3>1
        <3> QED
            BY <3>1, <3>2
    <2> QED
        BY <2>1, <2>2
<1>3. Nat \subseteq U
    <2> HIDE DEF U
    <2> QED
        BY <1>1, <1>2, NatSetInduction
<1> QED
    BY <1>3

LEMMA FirstOf ==
    ASSUME NEW T, NEW n \in Nat, n \in T
    PROVE  \E k \in 0..n : k \in T /\ \A j \in 0..k - 1 : j \notin T
<1> DEFINE U == {i \in Nat : \A j \in 0..i - 1 : j \notin T}
<1>1. 0 \in U
    OBVIOUS
<1>2. PICK k \in 0..n : k \in U /\ \A j \in k + 1..n : j \notin U
    <2> HIDE DEF U
    <2> QED
        BY <1>1, LastOf
<1>3. CASE k = n
    BY <1>2, <1>3
<1>4. CASE k # n
    <2>1. k + 1 \in k + 1..n /\ k + 1 \in Nat
        BY <1>4
    <2>2. k + 1 \notin U
        BY <1>2, <2>1
    <2>3. PICK j \in 0..(k + 1) - 1 : j \in T
        BY <2>1, <2>2
    <2>4. j = k
        <3>1. j \in 0..k - 1 \/ j = k
            OBVIOUS
        <3> QED
            BY <1>2, <2>3, <3>1
    <2> QED
        BY <1>2, <2>3, <2>4
<1> QED
    BY <1>3, <1>4

\* What is new under a path that exists is new where that path leads: from
\* there the walk goes as it went, with more links and steps to spare.
LEMMA NewIsNew ==
    ASSUME NEW tree, IsTree(tree), NEW x \in Seq(Components), exists(tree, x),
           NEW e \in Components, ~exists(tree, x \o <<e>>),
           NEW y \in Seq(Components), ~GaveUp(tree, (x \o <<e>>) \o y)
    PROVE  ~exists(tree, canonicalize(tree, x) \o <<e>>)
<1> DEFINE one == <<e>>
           w == Walk(tree, x)
           v == Walk(tree, x \o one)
           T == {i \in Nat : w[i].comps = <<>>}
           a == canonicalize(tree, x)
           u == Walk(tree, a \o one)
<1>1. /\ MaxSteps \in Nat /\ MaxLinks \in Nat /\ one \in Seq(Components)
      /\ x \o one \in Seq(Components)
    <2>1. one \in Seq(Components)
        OBVIOUS
    <2> QED
        BY <2>1, ConcatProperties, JailAssumption
<1>2. /\ a \in Seq(Names) /\ Physical(tree, a) /\ Len(a) \in Nat
    BY CanonicalIs, LenProperties
<1>3. a \in Seq(Components) /\ a \o one \in Seq(Components)
    <2>1. a \in Seq(Components)
        BY <1>2 DEF Components
    <2> QED
        BY <1>1, <2>1, ConcatProperties
<1>4. IsWalk(tree, w) /\ IsWalk(tree, v) /\ IsWalk(tree, u)
    BY <1>1, <1>3, WalkIs
<1>5. w[MaxSteps].comps = <<>> /\ w[MaxSteps].at = a
    BY DEF exists, canonicalize
<1>6. u[Len(a)] = [at |-> a, comps |-> one, links |-> MaxLinks]
    BY <1>1, <1>2, PlainWalk
<1>7. v[MaxSteps].comps # <<>>
    BY DEF exists
<1>8. DeadEnd(tree, v[MaxSteps])
    <2>1. ~exists(tree, x \o one) /\ ~GaveUp(tree, (x \o one) \o y)
        OBVIOUS
    <2> HIDE DEF one
    <2> QED
        BY <1>1, <2>1, NotGivenUp
<1>9. \A i \in Nat : Len(w[i].at) <= i /\ w[i].links <= MaxLinks
    BY WalkIs
<1>10. ASSUME NEW k \in Nat, \A i \in 0..k - 1 : w[i].comps # <<>>
       PROVE  v[k] = Shifted(w[k], one, 0)
    BY <1>1, <1>10, LongerWalk
<1>11. u[MaxSteps].comps # <<>> => ~exists(tree, a \o <<e>>)
    BY DEF exists
<1> HIDE DEF one, w, v, a, u
<1>12. PICK m \in 0..MaxSteps : m \in T /\ \A i \in 0..m - 1 : i \notin T
    <2>1. MaxSteps \in T
        BY <1>1, <1>5
    <2> HIDE DEF T
    <2> QED
        BY <1>1, <2>1, FirstOf
<1>13. m \in Nat /\ w[m].comps = <<>> /\ m <= MaxSteps
    BY <1>1, <1>12
<1>14. w[MaxSteps] = w[m]
    BY <1>1, <1>4, <1>13, WalkDone
<1> DEFINE l == w[m].links
           d == MaxLinks - l
           n == Len(a)
<1>15. /\ w[m].at = a /\ l \in Nat /\ l <= MaxLinks /\ n <= m
       /\ d \in Nat /\ l + d = MaxLinks
    <2>1. w[m] \in Configs
        BY <1>4, <1>13 DEF IsWalk
    <2> QED
        BY <1>1, <1>5, <1>9, <1>13, <1>14, <2>1 DEF Configs
<1>16. v[m] = [at |-> a, comps |-> one, links |-> l]
    <2>1. \A i \in 0..m - 1 : w[i].comps # <<>>
        BY <1>12
    <2>2. v[m] = Shifted(w[m], one, 0)
        BY <1>10, <1>13, <2>1
    <2>3. <<>> \o one = one /\ l + 0 = l
        BY <1>1, <1>15, ConcatEmptySeq
    <2>4. Shifted(w[m], one, 0)
            = [at |-> w[m].at, comps |-> w[m].comps \o one, links |-> l + 0]
        BY DEF Shifted
    <2> HIDE DEF l
    <2> QED
        BY <1>13, <1>15, <2>2, <2>3, <2>4
<1> DEFINE none == <<>>
<1>17. none \in Seq(Components) /\ \A s \in Seq(Components) : s \o none = s
    BY EmptySeq, ConcatEmptySeq
<1> HIDE DEF none, l, d, n
<1>18. u[n] = Shifted(v[m], none, d)
    <2>1. Shifted(v[m], none, d) = [at |-> a, comps |-> one \o none, links |-> l + d]
        BY <1>16 DEF Shifted
    <2> QED
        BY <1>1, <1>6, <1>15, <1>17, <2>1 DEF n
<1> DEFINE k == MaxSteps - m
<1>19. k \in Nat /\ m + k = MaxSteps /\ n \in Nat /\ n + k <= MaxSteps /\ n + k \in Nat
    BY <1>1, <1>2, <1>13, <1>15 DEF n
<1>20. ASSUME NEW i \in 0..k
       PROVE  Goes(tree, v[m + i], d)
    <2> DEFINE c == v[m + i]
    <2>1. m + i \in Nat /\ m + i \in 0..MaxSteps /\ m + i <= MaxSteps
        BY <1>1, <1>13, <1>19
    <2>2. c.comps # <<>> /\ c \in Configs
        BY <1>1, <1>4, <1>7, <2>1, NotDoneBefore DEF IsWalk
    <2>3. ASSUME AtLink(tree, c), c.links = 0
          PROVE  FALSE
        <3>1. Step(tree, c) = c
            BY <2>2, <2>3, StepCases
        <3>2. v[MaxSteps] = c
            BY <1>1, <1>4, <2>1, <3>1, WalkRests
        <3>3. DeadEnd(tree, c)
            BY <1>8, <3>2
        <3> QED
            BY <2>3, <3>3 DEF AtLink, DeadEnd, ToGo
    <2> QED
        BY <2>2, <2>3 DEF Goes
<1> HIDE DEF k
<1>21. u[n + k] = Shifted(v[MaxSteps], none, d)
    <2>1. \A i \in 0..k - 1 : Goes(tree, v[m + i], d)
        BY <1>19, <1>20
    <2>2. Copies(tree, v, m, u, n, k, none, d)
        BY <1>4, <1>13, <1>15, <1>17, <1>18, <1>19, <2>1 DEF Copies
    <2>3. u[n + k] = Shifted(v[m + k], none, d)
        BY <2>2, Mirror
    <2> QED
        BY <1>19, <2>3
<1> DEFINE c == v[MaxSteps]
           b == u[n + k]
<1>22. c \in Configs /\ b \in Configs
    BY <1>1, <1>4, <1>19 DEF IsWalk
<1>23. c.comps \in Seq(Components)
    BY <1>22 DEF Configs
<1>24. b.at = c.at /\ b.comps = c.comps
    <2>1. b.at = c.at /\ b.comps = c.comps \o none
        BY <1>21 DEF Shifted
    <2> QED
        BY <1>17, <1>23, <2>1
<1> HIDE DEF b, c
<1>25. DeadEnd(tree, b) /\ b.comps # <<>>
    <2>1. Child(b) = Child(c)
        BY <1>24 DEF Child
    <2>2. DeadEnd(tree, c) /\ c.comps # <<>>
        BY <1>7, <1>8 DEF c
    <2> QED
        BY <1>24, <2>1, <2>2 DEF DeadEnd, ToGo
<1>26. Step(tree, b) = b
    BY <1>22, <1>25, StepCases
<1>27. u[MaxSteps] = b
    <2>1. Step(tree, u[n + k]) = u[n + k]
        BY <1>26 DEF b
    <2>2. u[MaxSteps] = u[n + k]
        BY <1>1, <1>4, <1>19, <2>1, WalkRests
    <2> QED
        BY <2>2 DEF b
<1> QED
    BY <1>11, <1>25, <1>27 DEF a

-----------------------------------------------------------------------------
(* The jail: what it accepts.                                              *)

\* The way up from a path ends at the deepest ancestor that exists.
LEMMA ResolvedAt ==
    ASSUME NEW tree, IsTree(tree), NEW jail, NEW path,
           Target(jail, path) \in Seq(Components)
    PROVE  LET target == Target(jail, path)
           IN  \E n \in 0..Len(target) :
                 LET ancestor == canonicalize(tree, SubSeq(target, 1, n))
                     rest == SubSeq(target, n + 1, Len(target))
                 IN  /\ exists(tree, SubSeq(target, 1, n))
                     /\ \A j \in (n + 1)..Len(target) : ~exists(tree, SubSeq(target, 1, j))
                     /\ resolve_path(jail, tree, path) =
                          IF \/ Contains(rest, "..") \/ ~is_contained(jail, ancestor)
                             \/ ~is_contained(jail, ancestor \o rest)
                          THEN OutsideWorkspace
                          ELSE [ok |-> TRUE, path |-> ancestor \o rest]
<1> DEFINE target == Target(jail, path)
           Is(k) == /\ exists(tree, SubSeq(target, 1, k))
                    /\ \A j \in (k + 1)..Len(target) : ~exists(tree, SubSeq(target, 1, j))
           n == CHOOSE k \in 0..Len(target) : Is(k)
           T == {k \in Nat : exists(tree, SubSeq(target, 1, k))}
<1>1. Len(target) \in Nat
    BY LenProperties
<1>2. 0 \in T
    <2>1. SubSeq(target, 1, 0) = <<>>
        BY SubSeqEmpty
    <2> DEFINE none == <<>>
    <2>2. none \in Seq(Names) /\ Len(none) <= MaxSteps
        BY EmptySeq, JailAssumption
    <2>3. Physical(tree, none)
        BY PhysicalTop
    <2> HIDE DEF none
    <2>4. exists(tree, none)
        BY <2>2, <2>3, PlainIsCanonical
    <2> QED
        BY <2>1, <2>4 DEF none
<1>3. \E k \in 0..Len(target) : Is(k)
    <2> HIDE DEF target
    <2>1. PICK k \in 0..Len(target) : k \in T /\ \A j \in k + 1..Len(target) : j \notin T
        <3> HIDE DEF T
        <3> QED
            BY <1>1, <1>2, LastOf
    <2>2. \A j \in k + 1..Len(target) : j \in Nat
        BY <1>1
    <2> QED
        BY <2>1, <2>2
<1>4. n \in 0..Len(target) /\ Is(n)
    <2> HIDE DEF Is
    <2> QED
        BY <1>3
<1>5. resolve_path(jail, tree, path) =
        IF \/ Contains(SubSeq(target, n + 1, Len(target)), "..")
           \/ ~is_contained(jail, canonicalize(tree, SubSeq(target, 1, n)))
           \/ ~is_contained(jail, canonicalize(tree, SubSeq(target, 1, n))
                                    \o SubSeq(target, n + 1, Len(target)))
        THEN OutsideWorkspace
        ELSE [ok |-> TRUE, path |-> canonicalize(tree, SubSeq(target, 1, n))
                                      \o SubSeq(target, n + 1, Len(target))]
    BY Zenon DEF resolve_path, CanonicalAncestor
<1> HIDE DEF n
<1> QED
    BY <1>4, <1>5

\* The root and the allowed paths of a jail.
LEMMA JailIs ==
    ASSUME NEW tree, IsTree(tree),
           KindOf(tree, with_allowed_paths(tree, Root, Allowed).root) = "dir"
    PROVE  LET jail == with_allowed_paths(tree, Root, Allowed)
           IN  /\ jail.root \in Seq(Components)
               /\ \A top \in {jail.root} \cup jail.allowed : top \in Seq(Components)
<1> DEFINE jail == with_allowed_paths(tree, Root, Allowed)
<1>1. /\ jail.root = canonicalize(tree, Root)
      /\ jail.allowed = {IF exists(tree, p) THEN canonicalize(tree, p) ELSE p : p \in Allowed}
    BY DEF with_allowed_paths
<1>2. jail.root \in Seq(Names)
    BY Kinds
<1> HIDE DEF jail
<1>3. jail.root \in Seq(Components)
    BY <1>2 DEF Components
<1>4. ASSUME NEW top \in jail.allowed
      PROVE  top \in Seq(Components)
    <2>1. PICK p \in Allowed : top = IF exists(tree, p) THEN canonicalize(tree, p) ELSE p
        BY <1>1, <1>4
    <2>2. p \in Seq(Components)
        BY JailAssumption
    <2>3. CASE exists(tree, p)
        <3>1. canonicalize(tree, p) \in Seq(Names)
            BY <2>2, <2>3, CanonicalIs
        <3> QED
            BY <2>1, <2>3, <3>1 DEF Components
    <2> QED
        BY <2>1, <2>2, <2>3
<1> QED
    BY <1>3, <1>4 DEF jail

LEMMA ContainedBelow ==
    ASSUME NEW jail, \A top \in {jail.root} \cup jail.allowed : top \in Seq(Components),
           NEW p \in Seq(Components), NEW q \in Seq(Components), is_contained(jail, p)
    PROVE  is_contained(jail, p \o q)
<1>1. PICK top \in {jail.root} \cup jail.allowed : IsPrefix(top, p)
    BY DEF is_contained, is_path_within
<1> DEFINE n == Len(top)
           r == p \o q
<1>2. /\ n \in Nat /\ Len(p) \in Nat /\ Len(q) \in Nat /\ top \in Seq(Components)
    BY LenProperties
<1>3. /\ r \in Seq(Components) /\ Len(r) = Len(p) + Len(q)
      /\ \A i \in 1..Len(p) + Len(q) : r[i] = IF i <= Len(p) THEN p[i] ELSE q[i - Len(p)]
    BY ConcatProperties
<1>4. n <= Len(p) /\ SubSeq(top, 1, n) = SubSeq(p, 1, n)
    BY <1>1 DEF IsPrefix
<1> HIDE DEF r
<1>5. n <= Len(r) /\ \A i \in 1..n : p[i] = r[i]
    BY <1>2, <1>3, <1>4
<1>6. SubSeq(p, 1, n) = SubSeq(r, 1, n)
    <2> HIDE DEF n
    <2> QED
        BY <1>2, <1>3, <1>4, <1>5, PrefixEqual
<1>7. IsPrefix(top, r)
    BY <1>4, <1>5, <1>6 DEF IsPrefix
<1> QED
    BY <1>7 DEF is_contained, is_path_within, r

LEMMA JailHoldsInTree ==
    ASSUME NEW tree, IsTree(tree)
    PROVE  JailHoldsIn(tree)
<1> DEFINE jail == with_allowed_paths(tree, Root, Allowed)
           Existing(path) ==
             LET target == Target(jail, path)
                 r == resolve_path(jail, tree, path)
             IN  exists(tree, target) =>
                   /\ r.ok <=> is_contained(jail, canonicalize(tree, target))
                   /\ r.ok => r.path = canonicalize(tree, target)
           Inside(path) ==
             LET r == resolve_path(jail, tree, path)
             IN  r.ok => /\ is_contained(jail, r.path)
                         /\ check_contained(jail, tree, path) = r
           InPlace(path) ==
             LET target == Target(jail, path)
                 r == resolve_path(jail, tree, path)
             IN  r.ok => \A k \in 0..Len(r.path) :
                           LET p == SubSeq(r.path, 1, k)
                           IN  exists(tree, p) /\ ~GaveUp(tree, target) =>
                                 canonicalize(tree, p) = p
           Directory(path) ==
             LET target == Target(jail, path)
                 r == resolve_path(jail, tree, path)
                 cwd == validate_cwd(jail, tree, path)
             IN  cwd.ok => /\ cwd = r
                           /\ KindOf(tree, cwd.path) = "dir" \/ GaveUp(tree, target)
<1>1. ASSUME KindOf(tree, jail.root) = "dir", NEW path \in Paths
      PROVE  Existing(path) /\ Inside(path) /\ InPlace(path) /\ Directory(path)
    <2>1. /\ jail.root \in Seq(Components)
          /\ \A top \in {jail.root} \cup jail.allowed : top \in Seq(Components)
        BY <1>1, JailIs
    <2> HIDE DEF jail
    <2> DEFINE target == Target(jail, path)
               r == resolve_path(jail, tree, path)
    <2>2. target \in Seq(Components) /\ Len(target) \in Nat
        <3>1. path.comps \in Seq(Components)
            BY JailAssumption
        <3>2. jail.root \o path.comps \in Seq(Components)
            BY <2>1, <3>1, ConcatProperties
        <3>3. target \in Seq(Components)
            BY <3>1, <3>2 DEF Target
        <3> QED
            BY <3>3, LenProperties
    <2>3. PICK n \in 0..Len(target) :
            /\ exists(tree, SubSeq(target, 1, n))
            /\ \A j \in (n + 1)..Len(target) : ~exists(tree, SubSeq(target, 1, j))
            /\ r = IF \/ Contains(SubSeq(target, n + 1, Len(target)), "..")
                      \/ ~is_contained(jail, canonicalize(tree, SubSeq(target, 1, n)))
                      \/ ~is_contained(jail, canonicalize(tree, SubSeq(target, 1, n))
                                               \o SubSeq(target, n + 1, Len(target)))
                   THEN OutsideWorkspace
                   ELSE [ok |-> TRUE, path |-> canonicalize(tree, SubSeq(target, 1, n))
                                                 \o SubSeq(target, n + 1, Len(target))]
        BY <2>2, ResolvedAt
    <2> DEFINE x == SubSeq(target, 1, n)
               a == canonicalize(tree, x)
               rest == SubSeq(target, n + 1, Len(target))
    <2>4. x \in Seq(Components)
        BY <2>2, PrefixOf
    <2>5. /\ a \in Seq(Names) /\ Physical(tree, a) /\ Len(a) <= MaxSteps
          /\ Len(a) \in Nat /\ MaxSteps \in Nat
        <3>1. exists(tree, x)
            BY <2>3
        <3> HIDE DEF x
        <3> QED
            BY <2>4, <3>1, CanonicalIs, LenProperties, JailAssumption
    <2>6. a \in Seq(Components)
        BY <2>5 DEF Components
    <2>7. rest \in Seq(Components) /\ Len(rest) = Len(target) - n
        <3> DEFINE i == n + 1
                   j == Len(target)
        <3>1. i \in Int /\ j \in Int /\ \A m \in i..j : target[m] \in Components
            <4>1. \A m \in 1..Len(target) : target[m] \in Components
                BY <2>2, ElementOfSeq
            <4> QED
                BY <2>2, <4>1
        <3>2. i = n + 1 /\ j = Len(target)
            OBVIOUS
        <3> HIDE DEF i, j
        <3>3. /\ SubSeq(target, i, j) \in Seq(Components)
              /\ Len(SubSeq(target, i, j)) = IF i <= j THEN j - i + 1 ELSE 0
            BY <3>1, SubSeqProperties
        <3> QED
            BY <2>2, <3>2, <3>3
    <2>8. r.ok => r = [ok |-> TRUE, path |-> a \o rest] /\ r.path = a \o rest
                  /\ is_contained(jail, a)
        <3>1. r = IF \/ Contains(rest, "..") \/ ~is_contained(jail, a)
                     \/ ~is_contained(jail, a \o rest)
                  THEN OutsideWorkspace
                  ELSE [ok |-> TRUE, path |-> a \o rest]
            BY <2>3, Zenon
        <3> HIDE DEF r, a, rest
        <3> QED
            BY <3>1 DEF OutsideWorkspace
    <2>9. exists(tree, x)
        BY <2>3
    <2>10. Existing(path)
        <3> SUFFICES ASSUME exists(tree, target)
                     PROVE  /\ r.ok <=> is_contained(jail, canonicalize(tree, target))
                            /\ r.ok => r.path = canonicalize(tree, target)
            OBVIOUS
        <3>1. SubSeq(target, 1, Len(target)) = target
            BY <2>2, SubSeqFull
        <3>2. n = Len(target)
            <4> SUFFICES ASSUME n # Len(target)
                         PROVE  FALSE
                OBVIOUS
            <4>1. Len(target) \in (n + 1)..Len(target)
                BY <2>2
            <4> QED
                BY <2>3, <3>1, <4>1
        <3>3. x = target
            BY <3>1, <3>2
        <3>4. Len(rest) = 0
            BY <2>2, <2>7, <3>2
        <3>5. rest = <<>> /\ ~Contains(rest, "..")
            BY <2>7, <3>4, EmptySeq DEF Contains
        <3>6. a \o rest = a
            BY <2>6, <3>5, ConcatEmptySeq
        <3>7. r = IF ~is_contained(jail, a) THEN OutsideWorkspace
                  ELSE [ok |-> TRUE, path |-> a]
            BY <2>3, <3>5, <3>6
        <3> HIDE DEF r
        <3>8. a = canonicalize(tree, target)
            BY <3>3
        <3> HIDE DEF a
        <3>9. CASE is_contained(jail, a)
            <4>1. r.ok = TRUE /\ r.path = a
                BY <3>7, <3>9
            <4> QED
                BY <3>8, <3>9, <4>1
        <3>10. CASE ~is_contained(jail, a)
            <4>1. r.ok = FALSE
                BY <3>7, <3>10 DEF OutsideWorkspace
            <4> QED
                BY <3>8, <3>10, <4>1
        <3> QED
            BY <3>9, <3>10
    <2> HIDE DEF a, rest
    <2>11. Inside(path)
        <3> SUFFICES ASSUME r.ok
                     PROVE  is_contained(jail, r.path) /\ check_contained(jail, tree, path) = r
            OBVIOUS
        <3>1. is_contained(jail, r.path)
            BY <2>1, <2>6, <2>7, <2>8, ContainedBelow
        <3>2. check_contained(jail, tree, path) = r
            BY <3>1 DEF check_contained
        <3> QED
            BY <3>1, <3>2
    <2>12. a \o rest \in Seq(Components) /\ Len(a \o rest) = Len(a) + Len(rest)
        BY <2>6, <2>7, ConcatProperties
    <2>13. ASSUME NEW k \in 0..Len(a \o rest), exists(tree, SubSeq(a \o rest, 1, k)),
                  ~GaveUp(tree, target)
           PROVE  canonicalize(tree, SubSeq(a \o rest, 1, k)) = SubSeq(a \o rest, 1, k)
        <3> DEFINE b == a \o rest
                   p == SubSeq(b, 1, k)
        <3>1. \A i \in 1..Len(a) : b[i] = a[i]
            BY <2>5, <2>6, <2>7, ConcatProperties
        <3>2. CASE k <= Len(a)
            <4>1. p = SubSeq(a, 1, k)
                <5>1. k \in Nat /\ k <= Len(b) /\ \A i \in 1..k : b[i] = a[i]
                    BY <2>5, <2>7, <2>12, <3>1, <3>2
                <5> HIDE DEF b
                <5>2. b \in Seq(Components)
                    BY <2>12 DEF b
                <5> QED
                    BY <2>6, <3>2, <5>1, <5>2, PrefixEqual
            <4>2. k \in 0..Len(a)
                BY <3>2, <2>5
            <4>3. /\ SubSeq(a, 1, k) \in Seq(Names) /\ Len(SubSeq(a, 1, k)) = k
                  /\ Physical(tree, SubSeq(a, 1, k))
                BY <2>5, <4>2, PrefixOf, PhysicalPrefix
            <4>4. k <= MaxSteps
                BY <2>5, <3>2
            <4>5. canonicalize(tree, SubSeq(a, 1, k)) = SubSeq(a, 1, k)
                BY <4>3, <4>4, PlainIsCanonical
            <4> QED
                BY <4>1, <4>5
        <3>3. CASE k > Len(a)
            <4> DEFINE e == target[n + 1]
                       y == SubSeq(target, n + 2, Len(target))
                       z == SubSeq(b, Len(a) + 2, k)
            <4>1. Len(rest) \in Nat /\ Len(rest) > 0 /\ n < Len(target)
                BY <2>2, <2>5, <2>7, <2>12, <3>3
            <4>2. e \in Components /\ <<e>> \in Seq(Components)
                BY <2>2, <4>1, ElementOfSeq
            <4>3. b[Len(a) + 1] = e
                <5>1. b[Len(a) + 1] = rest[1]
                    <6>1. /\ Len(a) + 1 \in 1..Len(a) + Len(rest)
                          /\ ~(Len(a) + 1 <= Len(a)) /\ (Len(a) + 1) - Len(a) = 1
                        BY <2>5, <4>1
                    <6>2. b[Len(a) + 1] = IF Len(a) + 1 <= Len(a) THEN a[Len(a) + 1]
                                          ELSE rest[(Len(a) + 1) - Len(a)]
                        BY <2>6, <2>7, <6>1, ConcatProperties
                    <6> QED
                        BY <6>1, <6>2
                <5>2. rest[1] = Head(rest)
                    OBVIOUS
                <5>3. Head(rest) = target[n + 1]
                    <6>1. n + 1 \in 1..Len(target) /\ Len(target) \in n + 1..Len(target)
                        BY <2>2, <4>1
                    <6> QED
                        BY <2>2, <6>1, HeadTailOfSubSeq DEF rest
                <5> QED
                    BY <5>1, <5>2, <5>3
            <4>4. SubSeq(target, 1, n + 1) = x \o <<e>>
                <5>1. 1 \in 1..Len(target) /\ n + 1 \in 1..Len(target) /\ (n + 1) - 1 = n
                    BY <2>2, <4>1
                <5> QED
                    BY <2>2, <5>1, SubSeqRecursiveSecond
            <4>5. target = (x \o <<e>>) \o y /\ y \in Seq(Components)
                <5>1. /\ 1 \in 1..Len(target) + 1 /\ n + 1 \in 1 - 1..Len(target)
                      /\ Len(target) \in n + 1..Len(target) /\ (n + 1) + 1 = n + 2
                    BY <2>2, <4>1
                <5>2. SubSeq(target, 1, n + 1) \o SubSeq(target, (n + 1) + 1, Len(target))
                        = SubSeq(target, 1, Len(target))
                    BY <2>2, <5>1, ConcatAdjacentSubSeq
                <5>3. SubSeq(target, 1, Len(target)) = target
                    BY <2>2, SubSeqFull
                <5>4. y \in Seq(Components)
                    <6>1. n + 2 \in Int /\ Len(target) \in Int
                          /\ \A m \in n + 2..Len(target) : target[m] \in Components
                        BY <2>2, ElementOfSeq
                    <6> QED
                        BY <6>1, SubSeqProperties
                <5> QED
                    BY <4>4, <5>1, <5>2, <5>3, <5>4
            <4>6. ~exists(tree, x \o <<e>>)
                <5>1. n + 1 \in (n + 1)..Len(target)
                    BY <2>2, <4>1
                <5> QED
                    BY <2>3, <4>4, <5>1
            <4>7. ~exists(tree, a \o <<e>>)
                <5> HIDE DEF x, e, y
                <5>1. ~GaveUp(tree, (x \o <<e>>) \o y)
                    BY <2>13, <4>5
                <5> QED
                    BY <2>4, <2>9, <4>2, <4>5, <4>6, <5>1, NewIsNew DEF a
            <4> HIDE DEF e, y
            <4>8. SubSeq(b, 1, Len(a) + 1) = a \o <<e>>
                <5>1. /\ 1 \in 1..Len(b) /\ Len(a) + 1 \in 1..Len(b)
                      /\ (Len(a) + 1) - 1 = Len(a)
                    BY <2>5, <2>12, <4>1
                <5>2. SubSeq(b, 1, Len(a) + 1) = SubSeq(b, 1, (Len(a) + 1) - 1) \o <<b[Len(a) + 1]>>
                    BY <2>12, <5>1, SubSeqRecursiveSecond
                <5>3. SubSeq(b, 1, Len(a)) = SubSeq(a, 1, Len(a))
                    <6>1. Len(a) \in Nat /\ Len(a) <= Len(b) /\ Len(a) <= Len(a)
                        BY <2>5, <2>12, <4>1
                    <6> HIDE DEF b
                    <6>2. b \in Seq(Components)
                        BY <2>12 DEF b
                    <6> QED
                        BY <2>6, <3>1, <6>1, <6>2, PrefixEqual
                <5>4. SubSeq(a, 1, Len(a)) = a
                    BY <2>6, SubSeqFull
                <5> QED
                    BY <4>3, <5>1, <5>2, <5>3, <5>4
            <4>9. p = (a \o <<e>>) \o z /\ z \in Seq(Components)
                <5>1. /\ 1 \in 1..Len(b) + 1 /\ Len(a) + 1 \in 1 - 1..Len(b)
                      /\ k \in Len(a) + 1..Len(b) /\ (Len(a) + 1) + 1 = Len(a) + 2
                    BY <2>5, <2>12, <3>3, <4>1
                <5>2. SubSeq(b, 1, Len(a) + 1) \o SubSeq(b, (Len(a) + 1) + 1, k)
                        = SubSeq(b, 1, k)
                    BY <2>12, <5>1, ConcatAdjacentSubSeq
                <5>3. z \in Seq(Components)
                    <6>1. Len(a) + 2 \in Int /\ k \in Int
                          /\ \A m \in Len(a) + 2..k : b[m] \in Components
                        BY <2>5, <2>12, <3>3, ElementOfSeq
                    <6> QED
                        BY <6>1, SubSeqProperties
                <5> QED
                    BY <4>8, <5>1, <5>2, <5>3
            <4>10. a \o <<e>> \in Seq(Components)
                BY <2>6, <4>2, ConcatProperties
            <4>11. exists(tree, p)
                BY <2>13
            <4> HIDE DEF p, z, b
            <4>12. exists(tree, a \o <<e>>)
                BY <4>9, <4>10, <4>11, AncestorExists
            <4> QED
                BY <4>7, <4>12
        <3>4. k <= Len(a) \/ k > Len(a)
            BY <2>5
        <3> QED
            BY <3>2, <3>3, <3>4
    <2>14. InPlace(path)
        BY <2>8, <2>13
    <2>15. Directory(path)
        <3> DEFINE cwd == validate_cwd(jail, tree, path)
        <3> SUFFICES ASSUME cwd.ok
                     PROVE  cwd = r /\ (KindOf(tree, cwd.path) = "dir" \/ GaveUp(tree, target))
            OBVIOUS
        <3>1. r.ok /\ cwd = r /\ KindOf(tree, canonicalize(tree, r.path)) = "dir"
            BY DEF validate_cwd, OutsideWorkspace
        <3> DEFINE q == r.path
        <3>2. q = a \o rest /\ q \in Seq(Components) /\ Len(q) \in Nat
            BY <2>8, <2>12, <3>1, LenProperties
        <3>3. exists(tree, q)
            <4> SUFFICES ASSUME ~exists(tree, q)
                         PROVE  FALSE
                OBVIOUS
            <4>1. canonicalize(tree, q) = Missing
                BY DEF exists, canonicalize
            <4>2. Missing \in Seq(Names)
                <5>1. KindOf(tree, Missing) = "dir"
                    BY <3>1, <4>1
                <5> QED
                    BY <5>1, Kinds
            <4>3. "/" \in Names
                BY <4>2 DEF Missing
            <4> QED
                BY <4>3, JailAssumption
        <3>4. SubSeq(q, 1, Len(q)) = q /\ Len(q) \in 0..Len(q)
            BY <3>2, SubSeqFull
        <3>5. ASSUME ~GaveUp(tree, target)
              PROVE  KindOf(tree, q) = "dir"
            <4>1. canonicalize(tree, q) = q
                BY <2>13, <3>2, <3>3, <3>4, <3>5
            <4> QED
                BY <3>1, <4>1
        <3> QED
            BY <3>1, <3>5
    <2> QED
        BY <2>10, <2>11, <2>14, <2>15
<1> QED
    BY <1>1 DEF JailHoldsIn

-----------------------------------------------------------------------------
(* The jail, as the run looks at it.                                       *)

InputInv == input.kind = "tree" => input.tree \in Trees

\* What resolve_path, check_contained and validate_cwd accept stays inside, in
\* every tree, by whatever links and ".." a path goes: see JailHoldsIn.
THEOREM JailIsSound == MCSpec => []JailHolds
<1>1. MCInit => InputInv
    BY DEF MCInit, InputInv
<1>2. InputInv /\ [MCNext]_<<vars, input>> => InputInv'
    <2> SUFFICES ASSUME InputInv, [MCNext]_<<vars, input>>
                 PROVE  InputInv'
        OBVIOUS
    <2>1. CASE PickInput
        BY <2>1 DEF PickInput, InputInv
    <2>2. CASE input' = input
        BY <2>2 DEF InputInv
    <2> QED
        BY <2>1, <2>2 DEF MCNext
<1>3. InputInv => JailHolds
    <2> SUFFICES ASSUME input.kind = "tree", input.tree \in Trees
                 PROVE  JailHoldsIn(input.tree)
        BY DEF InputInv, JailHolds
    <2>1. IsTree(input.tree)
        BY JailAssumption DEF IsTree
    <2> QED
        BY <2>1, JailHoldsInTree
<1> QED
    BY <1>1, <1>2, <1>3, PTL DEF MCSpec

-----------------------------------------------------------------------------
(* What a patch does to the lines of a file.  Parts of sequences first.    *)

\* What a part of a sequence is.
LEMMA Part ==
    ASSUME NEW S, NEW s \in Seq(S), NEW m \in Nat, NEW n \in Int, 1 <= m, n <= Len(s)
    PROVE  /\ SubSeq(s, m, n) \in Seq(S)
           /\ Len(SubSeq(s, m, n)) = IF m <= n THEN n - m + 1 ELSE 0
           /\ \A i \in 1..n - m + 1 : SubSeq(s, m, n)[i] = s[m + i - 1]
<1>1. Len(s) \in Nat /\ m \in Int
    BY LenProperties
<1>2. \A i \in 1..Len(s) : s[i] \in S
    BY ElementOfSeq
<1>3. \A i \in m..n : s[i] \in S
    BY <1>1, <1>2
<1> QED
    BY <1>1, <1>3, SubSeqProperties

\* A part of a prefix is a part of the sequence.
LEMMA PartOfPrefix ==
    ASSUME NEW S, NEW s \in Seq(S), NEW b \in 0..Len(s),
           NEW m \in Nat, NEW n \in Int, 1 <= m, n <= b
    PROVE  SubSeq(SubSeq(s, 1, b), m, n) = SubSeq(s, m, n)
<1> DEFINE p == SubSeq(s, 1, b)
           u == SubSeq(p, m, n)
           v == SubSeq(s, m, n)
<1>1. Len(s) \in Nat /\ b \in Nat /\ n <= Len(s)
    BY LenProperties
<1>2. p \in Seq(S) /\ Len(p) = b /\ \A i \in 1..b : p[i] = s[i]
    BY PrefixOf
<1> HIDE DEF p
<1>3. /\ u \in Seq(S) /\ Len(u) = IF m <= n THEN n - m + 1 ELSE 0
      /\ \A i \in 1..n - m + 1 : u[i] = p[m + i - 1]
    BY <1>1, <1>2, Part
<1>4. /\ v \in Seq(S) /\ Len(v) = IF m <= n THEN n - m + 1 ELSE 0
      /\ \A i \in 1..n - m + 1 : v[i] = s[m + i - 1]
    BY <1>1, Part
<1> HIDE DEF u, v
<1>5. ASSUME NEW i \in 1..Len(u)
      PROVE  u[i] = v[i]
    <2>1. i \in 1..n - m + 1 /\ m + i - 1 \in 1..b
        BY <1>1, <1>3
    <2> QED
        BY <1>2, <1>3, <1>4, <2>1
<1>6. u = v
    BY <1>3, <1>4, <1>5, SeqEqual
<1> QED
    BY <1>6 DEF u, v, p

\* A part that ends within s is the same part of s \o t.
LEMMA PartOfLeft ==
    ASSUME NEW S, NEW s \in Seq(S), NEW t \in Seq(S),
           NEW m \in Nat, NEW n \in Int, 1 <= m, n <= Len(s)
    PROVE  SubSeq(s \o t, m, n) = SubSeq(s, m, n)
<1> DEFINE p == s \o t
           u == SubSeq(p, m, n)
           v == SubSeq(s, m, n)
<1>1. Len(s) \in Nat /\ Len(t) \in Nat
    BY LenProperties
<1>2. /\ p \in Seq(S) /\ Len(p) = Len(s) + Len(t)
      /\ \A i \in 1..Len(s) + Len(t) : p[i] = IF i <= Len(s) THEN s[i] ELSE t[i - Len(s)]
    BY ConcatProperties
<1> HIDE DEF p
<1>3. n <= Len(p) /\ \A i \in 1..Len(s) : p[i] = s[i]
    BY <1>1, <1>2
<1>4. /\ u \in Seq(S) /\ Len(u) = IF m <= n THEN n - m + 1 ELSE 0
      /\ \A i \in 1..n - m + 1 : u[i] = p[m + i - 1]
    BY <1>2, <1>3, Part
<1>5. /\ v \in Seq(S) /\ Len(v) = IF m <= n THEN n - m + 1 ELSE 0
      /\ \A i \in 1..n - m + 1 : v[i] = s[m + i - 1]
    BY Part
<1> HIDE DEF u, v
<1>6. ASSUME NEW i \in 1..Len(u)
      PROVE  u[i] = v[i]
    <2>1. i \in 1..n - m + 1 /\ m + i - 1 \in 1..Len(s)
        BY <1>1, <1>4
    <2> QED
        BY <1>3, <1>4, <1>5, <2>1
<1>7. u = v
    BY <1>4, <1>5, <1>6, SeqEqual
<1> QED
    BY <1>7 DEF u, v, p

\* s \o t without its first c elements, where s has as many.
LEMMA DropFromLeft ==
    ASSUME NEW S, NEW s \in Seq(S), NEW t \in Seq(S), NEW c \in 0..Len(s)
    PROVE  SubSeq(s \o t, c + 1, Len(s) + Len(t)) = SubSeq(s, c + 1, Len(s)) \o t
<1> DEFINE p == s \o t
           k == c + 1
           e == Len(s) + Len(t)
           u == SubSeq(p, k, e)
           w == SubSeq(s, k, Len(s))
           v == w \o t
<1>1. Len(s) \in Nat /\ Len(t) \in Nat /\ k \in Nat /\ e \in Nat /\ 1 <= k
      /\ c \in Nat /\ k = c + 1 /\ e = Len(s) + Len(t)
    BY LenProperties
<1>2. /\ p \in Seq(S) /\ Len(p) = Len(s) + Len(t)
      /\ \A i \in 1..Len(s) + Len(t) : p[i] = IF i <= Len(s) THEN s[i] ELSE t[i - Len(s)]
    BY ConcatProperties
<1> HIDE DEF p, k, e
<1>3. e <= Len(p)
    BY <1>1, <1>2
<1>4. /\ u \in Seq(S) /\ Len(u) = IF k <= e THEN e - k + 1 ELSE 0
      /\ \A i \in 1..e - k + 1 : u[i] = p[k + i - 1]
    BY <1>1, <1>2, <1>3, Part
<1>5. /\ w \in Seq(S) /\ Len(w) = IF k <= Len(s) THEN Len(s) - k + 1 ELSE 0
      /\ \A i \in 1..Len(s) - k + 1 : w[i] = s[k + i - 1]
    BY <1>1, Part
<1> HIDE DEF u, w
<1>6. /\ v \in Seq(S) /\ Len(v) = Len(w) + Len(t)
      /\ \A i \in 1..Len(w) + Len(t) : v[i] = IF i <= Len(w) THEN w[i] ELSE t[i - Len(w)]
    BY <1>5, ConcatProperties
<1> HIDE DEF v
<1>7. Len(w) = Len(s) - c /\ Len(u) = Len(s) + Len(t) - c /\ Len(v) = Len(u)
      /\ e - k + 1 = Len(u) /\ Len(s) - k + 1 = Len(w)
    BY <1>1, <1>4, <1>5, <1>6
<1>8. ASSUME NEW i \in 1..Len(u)
      PROVE  u[i] = v[i]
    <2>1. /\ k + i - 1 = c + i /\ c + i \in 1..Len(s) + Len(t)
          /\ i \in 1..Len(w) + Len(t)
          /\ (c + i <= Len(s) <=> i <= Len(w)) /\ (c + i) - Len(s) = i - Len(w)
          /\ (i <= Len(w) => i \in 1..Len(s) - k + 1)
        BY <1>1, <1>7
    <2>2. u[i] = p[c + i]
        BY <1>4, <1>7, <2>1
    <2>3. CASE i <= Len(w)
        <3>1. w[i] = s[c + i]
            BY <1>5, <2>1, <2>3
        <3> QED
            BY <1>2, <1>6, <2>1, <2>2, <2>3, <3>1
    <2>4. CASE ~(i <= Len(w))
        BY <1>2, <1>6, <2>1, <2>2, <2>4
    <2> QED
        BY <2>3, <2>4
<1>9. u = v
    BY <1>4, <1>6, <1>7, <1>8, SeqEqual
<1> QED
    BY <1>9 DEF u, v, w, p, k, e

\* A prefix that is one element longer.
LEMMA PrefixStep ==
    ASSUME NEW S, NEW s \in Seq(S), NEW m \in Nat, m + 1 <= Len(s)
    PROVE  SubSeq(s, 1, m + 1) = Append(SubSeq(s, 1, m), s[m + 1])
<1> DEFINE p == SubSeq(s, 1, m)
           q == SubSeq(s, 1, m + 1)
           a == Append(p, s[m + 1])
<1>1. Len(s) \in Nat /\ m \in 0..Len(s) /\ m + 1 \in 0..Len(s) /\ m + 1 \in 1..Len(s)
    BY LenProperties
<1>2. p \in Seq(S) /\ Len(p) = m /\ \A i \in 1..m : p[i] = s[i]
    BY <1>1, PrefixOf
<1>3. q \in Seq(S) /\ Len(q) = m + 1 /\ \A i \in 1..m + 1 : q[i] = s[i]
    BY <1>1, PrefixOf
<1>4. s[m + 1] \in S
    BY <1>1, ElementOfSeq
<1> HIDE DEF p, q
<1>5. a \in Seq(S) /\ Len(a) = Len(p) + 1
    BY <1>2, <1>4, AppendProperties
<1>6. a[Len(p) + 1] = s[m + 1] /\ \A i \in 1..Len(p) : a[i] = p[i]
    BY <1>2, <1>4, AppendProperties
<1> HIDE DEF a
<1>7. ASSUME NEW i \in 1..m + 1
      PROVE  q[i] = a[i]
    <2>1. CASE i = m + 1
        BY <1>2, <1>3, <1>6, <2>1
    <2>2. CASE i \in 1..m
        BY <1>2, <1>3, <1>6, <2>2
    <2> QED
        BY <2>1, <2>2
<1>8. q = a
    BY <1>2, <1>3, <1>5, <1>7, SeqEqual
<1> QED
    BY <1>8 DEF p, q, a

LEMMA SeqOfFunction ==
    ASSUME NEW S, NEW n \in Nat, NEW t \in [1..n -> S]
    PROVE  t \in Seq(S) /\ Len(t) = n
OBVIOUS

\* s \o t without s.
LEMMA RightPart ==
    ASSUME NEW S, NEW s \in Seq(S), NEW t \in Seq(S)
    PROVE  SubSeq(s \o t, Len(s) + 1, Len(s) + Len(t)) = t
<1> DEFINE c == Len(s)
           none == <<>>
<1>1. Len(s) \in Nat /\ c \in 0..Len(s) /\ c = Len(s)
    BY LenProperties
<1>2. SubSeq(s, c + 1, Len(s)) = none
    BY <1>1
<1>3. none \o t = t
    BY ConcatEmptySeq
<1> HIDE DEF none
<1>4. SubSeq(s \o t, c + 1, Len(s) + Len(t)) = SubSeq(s, c + 1, Len(s)) \o t
    <2> HIDE DEF c
    <2> QED
        BY <1>1, DropFromLeft
<1> QED
    BY <1>1, <1>2, <1>3, <1>4

\* A sequence cut in two, and put together again.
LEMMA Halves ==
    ASSUME NEW S, NEW s \in Seq(S), NEW k \in 0..Len(s)
    PROVE  SubSeq(s, 1, k) \o SubSeq(s, k + 1, Len(s)) = s
<1> DEFINE e == Len(s)
           n == k + 1
           u == SubSeq(s, 1, k)
           v == SubSeq(s, n, e)
           w == u \o v
<1>1. e \in Nat /\ k \in Nat /\ k <= e /\ n = k + 1 /\ n \in Nat /\ 1 <= n /\ e = Len(s)
      /\ e \in Int
      /\ e <= Len(s)
    BY LenProperties
<1>2. u \in Seq(S) /\ Len(u) = k /\ \A i \in 1..k : u[i] = s[i]
    BY PrefixOf
<1> HIDE DEF e, n
<1>3. /\ v \in Seq(S) /\ Len(v) = IF n <= e THEN e - n + 1 ELSE 0
      /\ \A i \in 1..e - n + 1 : v[i] = s[n + i - 1]
    BY <1>1, Part
<1> HIDE DEF u, v
<1>4. /\ w \in Seq(S) /\ Len(w) = Len(u) + Len(v)
      /\ \A i \in 1..Len(u) + Len(v) : w[i] = IF i <= Len(u) THEN u[i] ELSE v[i - Len(u)]
    BY <1>2, <1>3, ConcatProperties
<1> HIDE DEF w
<1>5. Len(v) = e - k /\ Len(w) = e /\ e - n + 1 = e - k
    BY <1>1, <1>2, <1>3, <1>4
<1>6. ASSUME NEW i \in 1..e
      PROVE  w[i] = s[i]
    <2>1. i \in 1..Len(u) + Len(v)
        BY <1>1, <1>2, <1>5
    <2>2. CASE i <= k
        BY <1>1, <1>2, <1>4, <2>1, <2>2
    <2>3. CASE ~(i <= k)
        <3>1. i - k \in 1..e - n + 1 /\ n + (i - k) - 1 = i
            BY <1>1, <2>3
        <3>2. v[i - k] = s[i]
            BY <1>3, <3>1
        <3> QED
            BY <1>2, <1>4, <2>1, <2>3, <3>2
    <2> QED
        BY <2>2, <2>3
<1>7. w = s
    BY <1>1, <1>4, <1>5, <1>6, SeqEqual
<1> QED
    BY <1>7 DEF w, u, v, e, n

\* A sequence cut in three, and put together again.
LEMMA Thirds ==
    ASSUME NEW S, NEW s \in Seq(S), NEW k \in 0..Len(s), NEW b \in 0..k
    PROVE  (SubSeq(s, 1, b) \o SubSeq(s, b + 1, k)) \o SubSeq(s, k + 1, Len(s)) = s
<1> DEFINE p == SubSeq(s, 1, k)
           c == b + 1
<1>1. Len(s) \in Nat /\ k \in Nat /\ b \in Nat /\ b \in Int /\ k \in Int /\ c \in Nat /\ 1 <= c
      /\ 1 \in Nat /\ 1 <= 1 /\ b <= k /\ k <= k /\ c = b + 1
    BY LenProperties
<1>2. p \in Seq(S) /\ Len(p) = k
    BY PrefixOf
<1> HIDE DEF c
<1>3. SubSeq(p, 1, b) = SubSeq(s, 1, b) /\ SubSeq(p, c, k) = SubSeq(s, c, k)
    BY <1>1, PartOfPrefix
<1> HIDE DEF p
<1>4. SubSeq(p, 1, b) \o SubSeq(p, b + 1, Len(p)) = p
    BY <1>2, Halves
<1>5. p \o SubSeq(s, k + 1, Len(s)) = s
    BY Halves DEF p
<1> QED
    BY <1>1, <1>2, <1>3, <1>4, <1>5

Keep(kept, line, tags) == IF line.tag \in tags THEN Append(kept, line.text) ELSE kept

\* f is how TextsOf comes about.
Keeps(h, tags, m, f) ==
    /\ f[0] = <<>>
    /\ \A i \in 1..m : f[i] = Keep(f[i - 1], h.lines[i], tags)

LEMMA TextsLoop ==
    ASSUME NEW h, NEW tags, Len(h.lines) \in Nat
    PROVE  \E f : Keeps(h, tags, Len(h.lines), f) /\ TextsOf(h, tags) = f[Len(h.lines)]
<1> DEFINE T == {m \in Nat : \E f : Keeps(h, tags, m, f)}
<1>1. 0 \in T
    <2>1. Keeps(h, tags, 0, [i \in 0..0 |-> <<>>])
        BY DEF Keeps
    <2> QED
        BY <2>1
<1>2. ASSUME NEW m \in Nat, m \in T
      PROVE  m + 1 \in T
    <2>1. PICK f : Keeps(h, tags, m, f)
        BY <1>2
    <2> DEFINE h1 == [i \in 0..m + 1 |->
                       IF i = m + 1 THEN Keep(f[m], h.lines[m + 1], tags) ELSE f[i]]
    <2>2. h1[0] = <<>>
        BY <2>1 DEF Keeps
    <2>3. ASSUME NEW i \in 1..m + 1
          PROVE  h1[i] = Keep(h1[i - 1], h.lines[i], tags)
        <3>1. h1[i - 1] = f[i - 1]
            OBVIOUS
        <3>2. CASE i = m + 1
            <4>1. h1[i] = Keep(f[m], h.lines[m + 1], tags) /\ i - 1 = m
                BY <3>2
            <4> QED
                BY <3>1, <3>2, <4>1
        <3>3. CASE i \in 1..m
            <4>1. h1[i] = f[i] /\ f[i] = Keep(f[i - 1], h.lines[i], tags)
                BY <2>1, <3>3 DEF Keeps
            <4> QED
                BY <3>1, <4>1
        <3> QED
            BY <3>2, <3>3
    <2>4. Keeps(h, tags, m + 1, h1)
        BY <2>2, <2>3 DEF Keeps
    <2> QED
        BY <2>4
<1>3. Nat \subseteq T
    <2> HIDE DEF T
    <2> QED
        BY <1>1, <1>2, NatSetInduction
<1>4. PICK f : Keeps(h, tags, Len(h.lines), f)
    BY <1>3
<1> DEFINE F == [n \in 0..Len(h.lines) |-> f[n]]
<1>5. F[0] = <<>> /\ F[Len(h.lines)] = f[Len(h.lines)]
      /\ \A n \in 1..Len(h.lines) : F[n] = Keep(F[n - 1], h.lines[n], tags)
    BY <1>4 DEF Keeps
<1>6. F = [n \in 0..Len(h.lines) |->
             IF n = 0 THEN <<>> ELSE Keep(F[n - 1], h.lines[n], tags)]
    <2>1. F = [n \in 0..Len(h.lines) |-> F[n]]
        OBVIOUS
    <2> HIDE DEF F
    <2>2. \A n \in 0..Len(h.lines) : F[n] = IF n = 0 THEN <<>> ELSE Keep(F[n - 1], h.lines[n], tags)
        BY <1>5
    <2> QED
        BY <2>1, <2>2, Zenon
<1> HIDE DEF F
<1> DEFINE W == CHOOSE g : g = [n \in 0..Len(h.lines) |->
             IF n = 0 THEN <<>> ELSE Keep(g[n - 1], h.lines[n], tags)]
<1>7. W = [n \in 0..Len(h.lines) |->
             IF n = 0 THEN <<>> ELSE Keep(W[n - 1], h.lines[n], tags)]
    BY <1>6
<1>8. TextsOf(h, tags) = W[Len(h.lines)]
    BY DEF TextsOf, Keep
<1> HIDE DEF W
<1>9. \A n \in 0..Len(h.lines) : W[n] = IF n = 0 THEN <<>> ELSE Keep(W[n - 1], h.lines[n], tags)
    BY <1>7
<1>10. Keeps(h, tags, Len(h.lines), W)
    BY <1>9 DEF Keeps
<1> QED
    BY <1>8, <1>10

-----------------------------------------------------------------------------
(* The lines of a hunk. *)

Strings ==
    Letters \cup Markers \cup {Blank, Newline}
    \cup {"-- file", "++ file", " No newline at end of file"}
DiffLines == [tag : {" ", "-", "+"}, text : Strings]

LEMMA LinesTyped ==
    ASSUME NEW ls \in Seq(DiffLines)
    PROVE  /\ Len(ls) \in Nat
           /\ \A j \in 1..Len(ls) : ls[j].text \in Strings /\ ls[j].tag \in {" ", "-", "+"}
<1>1. Len(ls) \in Nat /\ \A j \in 1..Len(ls) : ls[j] \in DiffLines
    BY ElementOfSeq, LenProperties
<1> QED
    BY <1>1 DEF DiffLines

\* What TextsOf keeps on its way is a sequence of lines.
LEMMA KeepsSeq ==
    ASSUME NEW h, h.lines \in Seq(DiffLines), NEW tags, NEW f,
           Keeps(h, tags, Len(h.lines), f)
    PROVE  \A i \in 0..Len(h.lines) : f[i] \in Seq(Strings)
<1> DEFINE N == Len(h.lines)
           T == {i \in Nat : i <= N => f[i] \in Seq(Strings)}
<1>1. N \in Nat /\ \A i \in 1..N : h.lines[i].text \in Strings
    BY LinesTyped
<1>2. 0 \in T
    BY EmptySeq DEF Keeps, Keep
<1>3. ASSUME NEW i \in Nat, i \in T
      PROVE  i + 1 \in T
    <2> SUFFICES ASSUME i + 1 <= N
                 PROVE  f[i + 1] \in Seq(Strings)
        OBVIOUS
    <2>1. i + 1 \in 1..N /\ (i + 1) - 1 = i /\ f[i] \in Seq(Strings)
        BY <1>1, <1>3
    <2>2. f[i + 1] = IF h.lines[i + 1].tag \in tags THEN Append(f[i], h.lines[i + 1].text)
                     ELSE f[i]
        BY <2>1 DEF Keeps, Keep
    <2> QED
        BY <1>1, <2>1, <2>2, AppendProperties
<1>4. Nat \subseteq T
    <2> HIDE DEF T
    <2> QED
        BY <1>2, <1>3, NatSetInduction
<1> QED
    BY <1>1, <1>4

\* ... and never gets shorter.
LEMMA KeepsMonotone ==
    ASSUME NEW h, h.lines \in Seq(DiffLines), NEW tags, NEW f,
           Keeps(h, tags, Len(h.lines), f), NEW i \in 0..Len(h.lines)
    PROVE  Len(f[i]) <= Len(f[Len(h.lines)])
<1> DEFINE N == Len(h.lines)
           T == {d \in Nat : i + d <= N => Len(f[i]) <= Len(f[i + d])}
<1>1. N \in Nat /\ i \in Nat /\ \A j \in 1..N : h.lines[j].text \in Strings
    <2>1. N \in Nat /\ \A j \in 1..N : h.lines[j].text \in Strings
        BY LinesTyped
    <2> QED
        BY <2>1
<1>2. \A j \in 0..N : f[j] \in Seq(Strings) /\ Len(f[j]) \in Nat
    BY KeepsSeq, LenProperties
<1>3. 0 \in T
    BY <1>1, <1>2
<1>4. ASSUME NEW d \in Nat, d \in T
      PROVE  d + 1 \in T
    <2> SUFFICES ASSUME i + (d + 1) <= N
                 PROVE  Len(f[i]) <= Len(f[i + (d + 1)])
        OBVIOUS
    <2> DEFINE j == i + d
    <2>1. j + 1 \in 1..N /\ (j + 1) - 1 = j /\ j \in 0..N /\ j + 1 \in 0..N
          /\ i + (d + 1) = j + 1 /\ Len(f[i]) <= Len(f[j])
        BY <1>1, <1>4
    <2> HIDE DEF j
    <2>2. f[j + 1] = IF h.lines[j + 1].tag \in tags THEN Append(f[j], h.lines[j + 1].text)
                     ELSE f[j]
        BY <2>1 DEF Keeps, Keep
    <2>3. Len(f[j + 1]) \in {Len(f[j]), Len(f[j]) + 1}
        BY <1>1, <1>2, <2>1, <2>2, AppendProperties
    <2>4. Len(f[i]) \in Nat /\ Len(f[j]) \in Nat
        BY <1>2, <2>1
    <2>5. Len(f[i]) <= Len(f[j + 1])
        BY <2>1, <2>3, <2>4
    <2> QED
        BY <2>1, <2>5
<1>5. Nat \subseteq T
    <2> HIDE DEF T
    <2> QED
        BY <1>3, <1>4, NatSetInduction
<1>6. N - i \in Nat /\ i + (N - i) = N
    BY <1>1
<1>7. N - i \in T
    BY <1>5, <1>6
<1> QED
    BY <1>1, <1>6, <1>7

\* f is how ApplyHunk comes about.
AppliesLines(text, s, hunk, m, f) ==
    /\ f[0] = UpToHunk(text, s, hunk)
    /\ \A i \in 1..m : f[i] = DiffLine(text, f[i - 1], hunk.lines[i])

LEMMA HunkLoop ==
    ASSUME NEW text, NEW s, NEW hunk, Len(hunk.lines) \in Nat
    PROVE  \E f : /\ AppliesLines(text, s, hunk, Len(hunk.lines), f)
                  /\ ApplyHunk(text, s, hunk) = f[Len(hunk.lines)]
<1> DEFINE T == {m \in Nat : \E f : AppliesLines(text, s, hunk, m, f)}
<1>1. 0 \in T
    <2>1. AppliesLines(text, s, hunk, 0, [i \in 0..0 |-> UpToHunk(text, s, hunk)])
        BY DEF AppliesLines
    <2> QED
        BY <2>1
<1>2. ASSUME NEW m \in Nat, m \in T
      PROVE  m + 1 \in T
    <2>1. PICK f : AppliesLines(text, s, hunk, m, f)
        BY <1>2
    <2> DEFINE h1 == [i \in 0..m + 1 |->
                       IF i = m + 1 THEN DiffLine(text, f[m], hunk.lines[m + 1]) ELSE f[i]]
    <2>2. h1[0] = UpToHunk(text, s, hunk)
        BY <2>1 DEF AppliesLines
    <2>3. ASSUME NEW i \in 1..m + 1
          PROVE  h1[i] = DiffLine(text, h1[i - 1], hunk.lines[i])
        <3>1. h1[i - 1] = f[i - 1]
            OBVIOUS
        <3>2. CASE i = m + 1
            <4>1. h1[i] = DiffLine(text, f[m], hunk.lines[m + 1]) /\ i - 1 = m
                BY <3>2
            <4> QED
                BY <3>1, <3>2, <4>1
        <3>3. CASE i \in 1..m
            <4>1. h1[i] = f[i] /\ f[i] = DiffLine(text, f[i - 1], hunk.lines[i])
                BY <2>1, <3>3 DEF AppliesLines
            <4> QED
                BY <3>1, <4>1
        <3> QED
            BY <3>2, <3>3
    <2>4. AppliesLines(text, s, hunk, m + 1, h1)
        BY <2>2, <2>3 DEF AppliesLines
    <2> QED
        BY <2>4
<1>3. Nat \subseteq T
    <2> HIDE DEF T
    <2> QED
        BY <1>1, <1>2, NatSetInduction
<1>4. PICK f : AppliesLines(text, s, hunk, Len(hunk.lines), f)
    BY <1>3
<1> DEFINE F == [n \in 0..Len(hunk.lines) |-> f[n]]
<1>5. F[0] = UpToHunk(text, s, hunk) /\ F[Len(hunk.lines)] = f[Len(hunk.lines)]
      /\ \A n \in 1..Len(hunk.lines) : F[n] = DiffLine(text, F[n - 1], hunk.lines[n])
    BY <1>4 DEF AppliesLines
<1>6. F = [n \in 0..Len(hunk.lines) |->
             IF n = 0 THEN UpToHunk(text, s, hunk) ELSE DiffLine(text, F[n - 1], hunk.lines[n])]
    <2>1. F = [n \in 0..Len(hunk.lines) |-> F[n]]
        OBVIOUS
    <2> HIDE DEF F
    <2>2. \A n \in 0..Len(hunk.lines) : F[n] =
              IF n = 0 THEN UpToHunk(text, s, hunk) ELSE DiffLine(text, F[n - 1], hunk.lines[n])
        BY <1>5
    <2> QED
        BY <2>1, <2>2, Zenon
<1> HIDE DEF F
<1> DEFINE W == CHOOSE g : g = [n \in 0..Len(hunk.lines) |->
             IF n = 0 THEN UpToHunk(text, s, hunk) ELSE DiffLine(text, g[n - 1], hunk.lines[n])]
<1>7. W = [n \in 0..Len(hunk.lines) |->
             IF n = 0 THEN UpToHunk(text, s, hunk) ELSE DiffLine(text, W[n - 1], hunk.lines[n])]
    BY <1>6
<1>8. ApplyHunk(text, s, hunk) = W[Len(hunk.lines)]
    BY DEF ApplyHunk
<1> HIDE DEF W
<1>9. \A n \in 0..Len(hunk.lines) : W[n] =
          IF n = 0 THEN UpToHunk(text, s, hunk) ELSE DiffLine(text, W[n - 1], hunk.lines[n])
    BY <1>7
<1>10. AppliesLines(text, s, hunk, Len(hunk.lines), W)
    BY <1>9 DEF AppliesLines
<1> QED
    BY <1>8, <1>10

\* The state of a diff that is being applied and has not failed.
Going(i, ls, a, d) ==
    [idx |-> i, out |-> ls, added |-> a, removed |-> d, failed |-> FALSE]

HasFailed(q) == "failed" \in DOMAIN q /\ q.failed

\* A line after a failure changes nothing that matters.
LEMMA FailedStays ==
    ASSUME NEW text, NEW l, NEW q, HasFailed(q)
    PROVE  HasFailed(DiffLine(text, q, l))
BY DEF DiffLine, HasFailed

LEMMA AppendToConcat ==
    ASSUME NEW S, NEW s \in Seq(S), NEW t \in Seq(S), NEW e \in S
    PROVE  s \o Append(t, e) = Append(s \o t, e)
<1>1. s \o t \in Seq(S) /\ <<e>> \in Seq(S)
    BY ConcatProperties
<1>2. Append(t, e) = t \o <<e>> /\ Append(s \o t, e) = (s \o t) \o <<e>>
    BY <1>1, AppendIsConcat
<1>3. (s \o t) \o <<e>> = s \o (t \o <<e>>)
    BY <1>1, ConcatAssociative
<1> QED
    BY <1>2, <1>3

\* The old and the new lines, the additions and the deletions of the first lines
\* of a hunk, and the state after them.
AreApplied(text, k0, ls, a, d, o, w, p, m, q) ==
    IF \A k \in 1..Len(o) : text[k0 + k] = o[k]
    THEN q = Going(k0 + Len(o), ls \o w, a + Len(p), d + Len(m))
    ELSE HasFailed(q)

\* DiffLine does what it should with one more line of a hunk.
LEMMA NextLine ==
    ASSUME NEW text, Len(text) \in Nat, NEW k0 \in Nat, NEW ls \in Seq(Strings),
           NEW a \in Nat, NEW d \in Nat, NEW o \in Seq(Strings), NEW w \in Seq(Strings),
           NEW p \in Seq(Strings), NEW m \in Seq(Strings), NEW q, NEW l \in DiffLines,
           AreApplied(text, k0, ls, a, d, o, w, p, m, q),
           l.tag # "+" => k0 + Len(o) < Len(text)
    PROVE  AreApplied(text, k0, ls, a, d,
                      IF l.tag \in {" ", "-"} THEN Append(o, l.text) ELSE o,
                      IF l.tag \in {" ", "+"} THEN Append(w, l.text) ELSE w,
                      IF l.tag \in {"+"} THEN Append(p, l.text) ELSE p,
                      IF l.tag \in {"-"} THEN Append(m, l.text) ELSE m,
                      DiffLine(text, q, l))
<1>1. l.text \in Strings /\ l.tag \in {" ", "-", "+"}
    BY DEF DiffLines
<1>2. Len(o) \in Nat /\ Len(w) \in Nat /\ Len(p) \in Nat /\ Len(m) \in Nat
    BY LenProperties
<1> DEFINE Fit(x) == \A k \in 1..Len(x) : text[k0 + k] = x[k]
           e == l.text
           i == k0 + Len(o)
           ow == ls \o w
           ai == a + Len(p)
           di == d + Len(m)
           r == DiffLine(text, q, l)
<1>3. e \in Strings /\ e = l.text
    BY <1>1
<1> HIDE DEF e
<1>4. /\ Len(Append(o, e)) = Len(o) + 1 /\ Append(o, e)[Len(o) + 1] = e
      /\ \A k \in 1..Len(o) : Append(o, e)[k] = o[k]
    BY <1>3, AppendProperties
<1>5. Len(Append(p, e)) = Len(p) + 1 /\ Len(Append(m, e)) = Len(m) + 1
    BY <1>3, AppendProperties
<1>6. ls \o Append(w, e) = Append(ow, e) /\ ow \in Seq(Strings)
    <2>1. ow \in Seq(Strings)
        BY ConcatProperties
    <2> QED
        BY <1>3, <2>1, AppendToConcat
<1>7. /\ i \in Nat /\ ai \in Nat /\ di \in Nat
      /\ i = k0 + Len(o) /\ ai = a + Len(p) /\ di = d + Len(m) /\ ow = ls \o w
      /\ k0 + Len(Append(o, e)) = i + 1 /\ k0 + (Len(o) + 1) = i + 1
      /\ a + Len(Append(p, e)) = ai + 1 /\ d + Len(Append(m, e)) = di + 1
    BY <1>2, <1>4, <1>5
<1> HIDE DEF i, ow, ai, di
<1>8. CASE Fit(o)
    <2>1. q = Going(i, ow, ai, di)
        BY <1>7, <1>8 DEF AreApplied
    <2>5. q.failed = FALSE /\ q.idx = i /\ q.out = ow /\ q.added = ai /\ q.removed = di
        BY <2>1 DEF Going
    <2>2. CASE l.tag = "+"
        <3>1. r = Going(i, Append(ow, e), ai + 1, di)
            BY <1>3, <2>1, <2>2, <2>5 DEF DiffLine, Going
        <3>2. AreApplied(text, k0, ls, a, d, o, Append(w, e), Append(p, e), m, r)
            BY <1>6, <1>7, <1>8, <3>1 DEF AreApplied
        <3> QED
            BY <1>3, <2>2, <3>2
    <2>3. CASE l.tag # "+" /\ text[i + 1] = e
        <3>1. Fit(Append(o, e))
            <4> SUFFICES ASSUME NEW k \in 1..Len(Append(o, e))
                         PROVE  text[k0 + k] = Append(o, e)[k]
                OBVIOUS
            <4>1. CASE k \in 1..Len(o)
                BY <1>4, <1>8, <4>1
            <4>2. CASE k = Len(o) + 1
                BY <1>4, <1>7, <2>3, <4>2
            <4> QED
                BY <1>2, <1>4, <4>1, <4>2
        <3>2. i < Len(text)
            BY <1>7, <2>3
        <3>5. ~(i >= Len(text)) /\ text[i + 1] = l.text
            BY <1>3, <1>7, <2>3, <3>2
        <3>3. CASE l.tag = " "
            <4>1. r = Going(i + 1, Append(ow, e), ai, di)
                BY <1>3, <2>1, <2>5, <3>2, <3>3, <3>5 DEF DiffLine, Going
            <4>2. AreApplied(text, k0, ls, a, d, Append(o, e), Append(w, e), p, m, r)
                BY <1>6, <1>7, <3>1, <4>1 DEF AreApplied
            <4> QED
                BY <1>3, <3>3, <4>2
        <3>4. CASE l.tag = "-"
            <4>1. r = Going(i + 1, ow, ai, di + 1)
                BY <2>1, <2>5, <3>2, <3>4, <3>5 DEF DiffLine, Going
            <4>2. AreApplied(text, k0, ls, a, d, Append(o, e), w, p, Append(m, e), r)
                BY <1>6, <1>7, <3>1, <4>1 DEF AreApplied
            <4> QED
                BY <1>3, <3>4, <4>2
        <3> QED
            BY <1>1, <2>3, <3>3, <3>4
    <2>4. CASE l.tag # "+" /\ text[i + 1] # e
        <3>1. i < Len(text)
            BY <1>7, <2>4
        <3>2. HasFailed(r)
            <4>1. ~(i >= Len(text)) /\ text[i + 1] # l.text
                BY <1>3, <1>7, <2>4, <3>1
            <4>2. "failed" \in DOMAIN q
                BY <2>1 DEF Going
            <4>3. r = [q EXCEPT !.failed = TRUE]
                BY <2>4, <2>5, <4>1 DEF DiffLine
            <4> QED
                BY <4>2, <4>3 DEF HasFailed
        <3>3. ~Fit(Append(o, e))
            <4>1. Len(o) + 1 \in 1..Len(Append(o, e))
                BY <1>2, <1>4
            <4>2. text[k0 + (Len(o) + 1)] # Append(o, e)[Len(o) + 1]
                BY <1>4, <1>7, <2>4
            <4> QED
                BY <4>1, <4>2
        <3>4. \A w1, p1, m1 : AreApplied(text, k0, ls, a, d, Append(o, e), w1, p1, m1, r)
            BY <3>2, <3>3 DEF AreApplied
        <3> QED
            BY <1>1, <1>3, <2>4, <3>4
    <2> QED
        BY <2>2, <2>3, <2>4
<1>9. CASE ~Fit(o)
    <2>1. HasFailed(q)
        BY <1>9 DEF AreApplied
    <2>2. HasFailed(r)
        BY <2>1, FailedStays
    <2>3. ~Fit(Append(o, e))
        <3>1. PICK k \in 1..Len(o) : text[k0 + k] # o[k]
            BY <1>9
        <3>2. k \in 1..Len(Append(o, e)) /\ Append(o, e)[k] = o[k]
            BY <1>2, <1>4
        <3> QED
            BY <3>1, <3>2
    <2>4. \A o1 \in {o, Append(o, e)} : \A w1, p1, m1 :
            AreApplied(text, k0, ls, a, d, o1, w1, p1, m1, r)
        BY <1>9, <2>2, <2>3 DEF AreApplied
    <2> QED
        BY <1>3, <2>4
<1> QED
    BY <1>8, <1>9

\* The lines of a hunk, from a state that has not failed: they are applied if the
\* lines of the text are the old lines of the hunk, and fail if they are not.
LEMMA HunkLines ==
    ASSUME NEW text, Len(text) \in Nat, NEW s, NEW hunk, hunk.lines \in Seq(DiffLines),
           NEW k0 \in Nat, NEW ls \in Seq(Strings), NEW a \in Nat, NEW d \in Nat,
           UpToHunk(text, s, hunk) = Going(k0, ls, a, d),
           k0 + Len(OldLines(hunk)) <= Len(text)
    PROVE  \E p, m : /\ Count(hunk, "+") = Len(p) /\ Count(hunk, "-") = Len(m)
                     /\ AreApplied(text, k0, ls, a, d, OldLines(hunk), NewLines(hunk),
                                   p, m, ApplyHunk(text, s, hunk))
<1> DEFINE N == Len(hunk.lines)
<1>1. N \in Nat /\ \A i \in 1..N : hunk.lines[i] \in DiffLines
    BY LenProperties, ElementOfSeq
<1>2. PICK f : AppliesLines(text, s, hunk, N, f) /\ ApplyHunk(text, s, hunk) = f[N]
    BY <1>1, HunkLoop
<1>3. PICK o : Keeps(hunk, {" ", "-"}, N, o) /\ OldLines(hunk) = o[N]
    BY <1>1, TextsLoop DEF OldLines
<1>4. PICK w : Keeps(hunk, {" ", "+"}, N, w) /\ NewLines(hunk) = w[N]
    BY <1>1, TextsLoop DEF NewLines
<1>5. PICK p : Keeps(hunk, {"+"}, N, p) /\ Count(hunk, "+") = Len(p[N])
    BY <1>1, TextsLoop DEF Count
<1>6. PICK m : Keeps(hunk, {"-"}, N, m) /\ Count(hunk, "-") = Len(m[N])
    BY <1>1, TextsLoop DEF Count
<1>7. \A i \in 0..N : /\ o[i] \in Seq(Strings) /\ w[i] \in Seq(Strings)
                      /\ p[i] \in Seq(Strings) /\ m[i] \in Seq(Strings)
    BY <1>3, <1>4, <1>5, <1>6, KeepsSeq
<1>8. \A i \in 0..N : Len(o[i]) \in Nat /\ Len(o[i]) <= Len(o[N])
    BY <1>3, <1>7, KeepsMonotone, LenProperties
<1>9. k0 + Len(o[N]) <= Len(text) /\ Len(o[N]) \in Nat
    <2>1. N \in 0..N
        BY <1>1
    <2> HIDE DEF N
    <2> QED
        BY <1>3, <1>8, <2>1
<1> DEFINE Is(i) == AreApplied(text, k0, ls, a, d, o[i], w[i], p[i], m[i], f[i])
           T == {i \in Nat : i <= N => Is(i)}
<1>10. Is(0)
    <2>1. /\ o[0] = <<>> /\ w[0] = <<>> /\ p[0] = <<>> /\ m[0] = <<>>
          /\ f[0] = Going(k0, ls, a, d)
        BY <1>2, <1>3, <1>4, <1>5, <1>6 DEF Keeps, Keep, AppliesLines
    <2>2. ls \o <<>> = ls /\ Len(<<>>) = 0
        BY ConcatEmptySeq, EmptySeq
    <2>3. k0 + 0 = k0 /\ a + 0 = a /\ d + 0 = d
        OBVIOUS
    <2>4. f[0] = Going(k0 + Len(o[0]), ls \o w[0], a + Len(p[0]), d + Len(m[0]))
        BY <2>1, <2>2, <2>3
    <2>5. \A k \in 1..Len(o[0]) : text[k0 + k] = o[0][k]
        BY <2>1, <2>2
    <2> QED
        BY <2>4, <2>5 DEF AreApplied
<1>11. ASSUME NEW i \in Nat, i + 1 <= N, Is(i)
       PROVE  Is(i + 1)
    <2> DEFINE j == i + 1
               l == hunk.lines[j]
    <2>1. j \in 1..N /\ j \in 0..N /\ i \in 0..N /\ j - 1 = i
        BY <1>1, <1>11
    <2>2. f[j] = DiffLine(text, f[i], l)
        BY <1>2, <2>1 DEF AppliesLines
    <2>3. /\ o[j] = IF l.tag \in {" ", "-"} THEN Append(o[i], l.text) ELSE o[i]
          /\ w[j] = IF l.tag \in {" ", "+"} THEN Append(w[i], l.text) ELSE w[i]
          /\ p[j] = IF l.tag \in {"+"} THEN Append(p[i], l.text) ELSE p[i]
          /\ m[j] = IF l.tag \in {"-"} THEN Append(m[i], l.text) ELSE m[i]
        BY <1>3, <1>4, <1>5, <1>6, <2>1 DEF Keeps, Keep
    <2>4. l \in DiffLines /\ l.text \in Strings /\ l.tag \in {" ", "-", "+"}
        BY <1>1, <2>1 DEF DiffLines
    <2> HIDE DEF l, j, N
    <2>5. /\ o[i] \in Seq(Strings) /\ w[i] \in Seq(Strings)
          /\ p[i] \in Seq(Strings) /\ m[i] \in Seq(Strings)
        BY <1>7, <2>1
    <2>6. l.tag # "+" => k0 + Len(o[i]) < Len(text)
        <3> SUFFICES ASSUME l.tag # "+"
                     PROVE  k0 + Len(o[i]) < Len(text)
            OBVIOUS
        <3>1. o[j] = Append(o[i], l.text)
            BY <2>3, <2>4
        <3>2. Len(o[j]) = Len(o[i]) + 1
            <4> DEFINE e == l.text
                       oi == o[i]
            <4>1. e \in Strings /\ oi \in Seq(Strings) /\ o[j] = Append(oi, e)
                BY <2>4, <2>5, <3>1
            <4> HIDE DEF e, oi
            <4>2. Len(Append(oi, e)) = Len(oi) + 1
                BY <4>1, AppendProperties
            <4> QED
                BY <4>1, <4>2 DEF oi
        <3>3. Len(o[i]) \in Nat /\ Len(o[j]) <= Len(o[N])
            BY <1>8, <2>1
        <3> QED
            BY <1>9, <3>2, <3>3
    <2>7. AreApplied(text, k0, ls, a, d, o[j], w[j], p[j], m[j], f[j])
        <3> DEFINE oi == o[i]
                   wi == w[i]
                   pi == p[i]
                   mi == m[i]
                   q == f[i]
        <3>1. /\ oi \in Seq(Strings) /\ wi \in Seq(Strings)
              /\ pi \in Seq(Strings) /\ mi \in Seq(Strings)
            BY <2>5
        <3>2. AreApplied(text, k0, ls, a, d, oi, wi, pi, mi, q)
            BY <1>11
        <3>3. l.tag # "+" => k0 + Len(oi) < Len(text)
            BY <2>6
        <3>4. /\ o[j] = IF l.tag \in {" ", "-"} THEN Append(oi, l.text) ELSE oi
              /\ w[j] = IF l.tag \in {" ", "+"} THEN Append(wi, l.text) ELSE wi
              /\ p[j] = IF l.tag \in {"+"} THEN Append(pi, l.text) ELSE pi
              /\ m[j] = IF l.tag \in {"-"} THEN Append(mi, l.text) ELSE mi
              /\ f[j] = DiffLine(text, q, l)
            BY <2>2, <2>3
        <3> HIDE DEF oi, wi, pi, mi, q
        <3>5. AreApplied(text, k0, ls, a, d,
                      IF l.tag \in {" ", "-"} THEN Append(oi, l.text) ELSE oi,
                      IF l.tag \in {" ", "+"} THEN Append(wi, l.text) ELSE wi,
                      IF l.tag \in {"+"} THEN Append(pi, l.text) ELSE pi,
                      IF l.tag \in {"-"} THEN Append(mi, l.text) ELSE mi,
                      DiffLine(text, q, l))
            BY <2>4, <3>1, <3>2, <3>3, NextLine
        <3> QED
            BY <3>4, <3>5
    <2> QED
        BY <2>7 DEF j
<1> HIDE DEF Is, N
<1>12. 0 \in T
    BY <1>10
<1>13. \A i \in Nat : i \in T => i + 1 \in T
    <2> SUFFICES ASSUME NEW i \in Nat, i \in T, i + 1 <= N
                 PROVE  Is(i + 1)
        OBVIOUS
    <2>1. Is(i)
        BY <1>1
    <2> QED
        BY <1>11, <2>1
<1>14. Nat \subseteq T
    <2> HIDE DEF T
    <2> QED
        BY <1>12, <1>13, NatSetInduction
<1>15. Is(N)
    BY <1>1, <1>14
<1>16. AreApplied(text, k0, ls, a, d, OldLines(hunk), NewLines(hunk),
                 p[N], m[N], ApplyHunk(text, s, hunk))
    BY <1>2, <1>3, <1>4, <1>15 DEF Is
<1> QED
    BY <1>5, <1>6, <1>16

\* The lines before a hunk are copied.
LEMMA UpToHunkIs ==
    ASSUME NEW text, Len(text) \in Nat, NEW i \in Nat, NEW ls, NEW a, NEW d, NEW hunk,
           NEW b \in Nat, hunk.old_start = b + 1, i <= b, b <= Len(text)
    PROVE  UpToHunk(text, Going(i, ls, a, d), hunk)
             = Going(b, ls \o SubSeq(text, i + 1, b), a, d)
<1> DEFINE s == Going(i, ls, a, d)
<1>1. s.failed = FALSE /\ s.idx = i /\ s.out = ls /\ s.added = a /\ s.removed = d
    BY DEF Going
<1>2. target_start(hunk) = b
    BY DEF target_start
<1>3. UpTo(text, b) = b
    BY DEF UpTo
<1>4. (IF b > i THEN b ELSE i) = b
    OBVIOUS
<1>5. UpToHunk(text, s, hunk) =
        [s EXCEPT !.out = ls \o SubSeq(text, i + 1, b), !.idx = IF b > i THEN b ELSE i]
    BY <1>1, <1>2, <1>3 DEF UpToHunk
<1> QED
    BY <1>4, <1>5 DEF Going

\* A hunk after a failed one has failed.
LEMMA FailedHunk ==
    ASSUME NEW text, NEW s, HasFailed(s), NEW hunk, Len(hunk.lines) \in Nat
    PROVE  HasFailed(ApplyHunk(text, s, hunk))
<1> DEFINE N == Len(hunk.lines)
<1>1. PICK f : AppliesLines(text, s, hunk, N, f) /\ ApplyHunk(text, s, hunk) = f[N]
    BY HunkLoop
<1> DEFINE T == {i \in Nat : i <= N => HasFailed(f[i])}
<1>2. 0 \in T
    <2>1. f[0] = UpToHunk(text, s, hunk)
        BY <1>1 DEF AppliesLines
    <2>2. HasFailed(UpToHunk(text, s, hunk))
        BY DEF UpToHunk, HasFailed
    <2> QED
        BY <2>1, <2>2
<1>3. ASSUME NEW i \in Nat, i \in T
      PROVE  i + 1 \in T
    <2> SUFFICES ASSUME i + 1 <= N
                 PROVE  HasFailed(f[i + 1])
        OBVIOUS
    <2>1. HasFailed(f[i]) /\ i + 1 \in 1..N /\ (i + 1) - 1 = i
        BY <1>3
    <2>2. f[i + 1] = DiffLine(text, f[i], hunk.lines[i + 1])
        BY <1>1, <2>1 DEF AppliesLines
    <2> QED
        BY <2>1, <2>2, FailedStays
<1>4. Nat \subseteq T
    <2> HIDE DEF T
    <2> QED
        BY <1>2, <1>3, NatSetInduction
<1>5. HasFailed(f[N])
    BY <1>4
<1> QED
    BY <1>1, <1>5

\* The lines TextsOf keeps are lines.
LEMMA HunkTexts ==
    ASSUME NEW h, h.lines \in Seq(DiffLines), NEW tags
    PROVE  TextsOf(h, tags) \in Seq(Strings)
<1>1. Len(h.lines) \in Nat
    BY LenProperties
<1>2. PICK f : Keeps(h, tags, Len(h.lines), f) /\ TextsOf(h, tags) = f[Len(h.lines)]
    BY <1>1, TextsLoop
<1>3. \A i \in 0..Len(h.lines) : f[i] \in Seq(Strings)
    BY <1>2, KeepsSeq
<1> QED
    BY <1>1, <1>2, <1>3

\* f is how ApplyHunks comes about.
AppliesHunks(text, hunks, m, f) ==
    /\ f[0] = Going(0, <<>>, 0, 0)
    /\ \A i \in 1..m : f[i] = ApplyHunk(text, f[i - 1], hunks[i])

LEMMA HunksLoop ==
    ASSUME NEW text, NEW hunks, Len(hunks) \in Nat
    PROVE  \E f : /\ AppliesHunks(text, hunks, Len(hunks), f)
                  /\ ApplyHunks(text, hunks) = f[Len(hunks)]
<1> DEFINE T == {m \in Nat : \E f : AppliesHunks(text, hunks, m, f)}
<1>1. 0 \in T
    <2>1. AppliesHunks(text, hunks, 0, [i \in 0..0 |-> Going(0, <<>>, 0, 0)])
        BY DEF AppliesHunks
    <2> QED
        BY <2>1
<1>2. ASSUME NEW m \in Nat, m \in T
      PROVE  m + 1 \in T
    <2>1. PICK f : AppliesHunks(text, hunks, m, f)
        BY <1>2
    <2> DEFINE h1 == [i \in 0..m + 1 |->
                       IF i = m + 1 THEN ApplyHunk(text, f[m], hunks[m + 1]) ELSE f[i]]
    <2>2. h1[0] = Going(0, <<>>, 0, 0)
        BY <2>1 DEF AppliesHunks
    <2>3. ASSUME NEW i \in 1..m + 1
          PROVE  h1[i] = ApplyHunk(text, h1[i - 1], hunks[i])
        <3>1. h1[i - 1] = f[i - 1]
            OBVIOUS
        <3>2. CASE i = m + 1
            <4>1. h1[i] = ApplyHunk(text, f[m], hunks[m + 1]) /\ i - 1 = m
                BY <3>2
            <4> QED
                BY <3>1, <3>2, <4>1
        <3>3. CASE i \in 1..m
            <4>1. h1[i] = f[i] /\ f[i] = ApplyHunk(text, f[i - 1], hunks[i])
                BY <2>1, <3>3 DEF AppliesHunks
            <4> QED
                BY <3>1, <4>1
        <3> QED
            BY <3>2, <3>3
    <2>4. AppliesHunks(text, hunks, m + 1, h1)
        BY <2>2, <2>3 DEF AppliesHunks
    <2> QED
        BY <2>4
<1>3. Nat \subseteq T
    <2> HIDE DEF T
    <2> QED
        BY <1>1, <1>2, NatSetInduction
<1>4. PICK f : AppliesHunks(text, hunks, Len(hunks), f)
    BY <1>3
<1> DEFINE F == [n \in 0..Len(hunks) |-> f[n]]
<1>5. F[0] = Going(0, <<>>, 0, 0) /\ F[Len(hunks)] = f[Len(hunks)]
      /\ \A n \in 1..Len(hunks) : F[n] = ApplyHunk(text, F[n - 1], hunks[n])
    BY <1>4 DEF AppliesHunks
<1>6. F = [n \in 0..Len(hunks) |->
             IF n = 0 THEN Going(0, <<>>, 0, 0) ELSE ApplyHunk(text, F[n - 1], hunks[n])]
    <2>1. F = [n \in 0..Len(hunks) |-> F[n]]
        OBVIOUS
    <2> HIDE DEF F
    <2>2. \A n \in 0..Len(hunks) : F[n] =
              IF n = 0 THEN Going(0, <<>>, 0, 0) ELSE ApplyHunk(text, F[n - 1], hunks[n])
        BY <1>5
    <2> QED
        BY <2>1, <2>2, Zenon
<1> HIDE DEF F
<1> DEFINE W == CHOOSE g : g = [n \in 0..Len(hunks) |->
             IF n = 0 THEN Going(0, <<>>, 0, 0) ELSE ApplyHunk(text, g[n - 1], hunks[n])]
<1>7. W = [n \in 0..Len(hunks) |->
             IF n = 0 THEN Going(0, <<>>, 0, 0) ELSE ApplyHunk(text, W[n - 1], hunks[n])]
    BY <1>6
<1>8. ApplyHunks(text, hunks) = W[Len(hunks)]
    BY DEF ApplyHunks, Going
<1> HIDE DEF W
<1>9. \A n \in 0..Len(hunks) : W[n] =
          IF n = 0 THEN Going(0, <<>>, 0, 0) ELSE ApplyHunk(text, W[n - 1], hunks[n])
    BY <1>7
<1>10. AppliesHunks(text, hunks, Len(hunks), W)
    BY <1>9 DEF AppliesHunks
<1> QED
    BY <1>8, <1>10

\* The old lines of h are the lines of the text from b + 1 on.
StandsAt(text, h, b) == SubSeq(text, b + 1, b + Len(OldLines(h))) = OldLines(h)

\* One hunk, applied after others that end at line i.
LEMMA HunkApplies ==
    ASSUME NEW text \in Seq(Strings), NEW i \in Nat, NEW ls \in Seq(Strings), NEW a \in Nat,
           NEW d \in Nat, NEW h, h.lines \in Seq(DiffLines), NEW b \in Nat,
           h.old_start = b + 1, i <= b, b + Len(OldLines(h)) <= Len(text)
    PROVE  IF StandsAt(text, h, b)
           THEN ApplyHunk(text, Going(i, ls, a, d), h) =
                  Going(b + Len(OldLines(h)), (ls \o SubSeq(text, i + 1, b)) \o NewLines(h),
                        a + Count(h, "+"), d + Count(h, "-"))
           ELSE HasFailed(ApplyHunk(text, Going(i, ls, a, d), h))
<1> DEFINE s == Going(i, ls, a, d)
           o == OldLines(h)
           k1 == b + 1
           k2 == b + Len(o)
           mid == SubSeq(text, i + 1, b)
           out == ls \o mid
           sub == SubSeq(text, k1, k2)
<1>1. o \in Seq(Strings) /\ Len(text) \in Nat /\ Len(o) \in Nat
    BY HunkTexts, LenProperties DEF OldLines
<1>2. b <= Len(text) /\ i + 1 \in Nat /\ 1 <= i + 1 /\ b \in Int
    BY <1>1
<1>3. mid \in Seq(Strings)
    BY <1>2, Part
<1> HIDE DEF mid
<1>4. out \in Seq(Strings)
    BY <1>3, ConcatProperties
<1>5. UpToHunk(text, s, h) = Going(b, out, a, d)
    BY <1>1, <1>2, UpToHunkIs DEF mid
<1> HIDE DEF s, out
<1>6. PICK p, m : /\ Count(h, "+") = Len(p) /\ Count(h, "-") = Len(m)
                  /\ AreApplied(text, b, out, a, d, o, NewLines(h), p, m, ApplyHunk(text, s, h))
    BY <1>1, <1>4, <1>5, HunkLines
<1>7. StandsAt(text, h, b) <=> \A k \in 1..Len(o) : text[b + k] = o[k]
    <2>1. k1 \in Nat /\ k2 \in Int /\ 1 <= k1 /\ k2 <= Len(text)
          /\ k2 - k1 + 1 = Len(o) /\ (k1 <= k2 <=> Len(o) > 0)
        BY <1>1
    <2>2. \A k \in 1..Len(o) : k1 + k - 1 = b + k
        BY <1>1
    <2> HIDE DEF k1, k2
    <2>3. /\ sub \in Seq(Strings) /\ Len(sub) = IF k1 <= k2 THEN k2 - k1 + 1 ELSE 0
          /\ \A k \in 1..k2 - k1 + 1 : sub[k] = text[k1 + k - 1]
        BY <2>1, Part
    <2> HIDE DEF sub, o
    <2>4. Len(sub) = Len(o) /\ \A k \in 1..Len(o) : sub[k] = text[b + k]
        <3>1. Len(sub) = Len(o)
            BY <1>1, <2>1, <2>3
        <3>2. \A k \in 1..Len(o) : sub[k] = text[k1 + k - 1]
            BY <2>1, <2>3
        <3> QED
            BY <2>2, <3>1, <3>2
    <2>5. (\A k \in 1..Len(o) : sub[k] = o[k]) => sub = o
        BY <1>1, <2>3, <2>4, SeqEqual
    <2>6. sub = o <=> \A k \in 1..Len(o) : text[b + k] = o[k]
        BY <2>4, <2>5
    <2> QED
        BY <2>6 DEF StandsAt, sub, o, k1, k2
<1>8. CASE StandsAt(text, h, b)
    <2>1. ApplyHunk(text, s, h) = Going(b + Len(o), out \o NewLines(h), a + Len(p), d + Len(m))
        BY <1>6, <1>7, <1>8 DEF AreApplied
    <2> QED
        BY <1>6, <1>8, <2>1 DEF s, out, mid
<1>9. CASE ~StandsAt(text, h, b)
    <2>1. HasFailed(ApplyHunk(text, s, h))
        BY <1>6, <1>7, <1>9 DEF AreApplied
    <2> QED
        BY <1>9, <2>1 DEF s
<1> QED
    BY <1>8, <1>9

-----------------------------------------------------------------------------
(* The parser of hunks. *)

DiffHunks == [old_start : Nat, lines : Seq(DiffLines)]
HunkOf(start, ls) == [old_start |-> start, lines |-> ls]
NewHunk(start) == HunkOf(start, <<>>)

\* The lines of a diff from k + 1 on are ls, and f goes through them.
Through(diff, f, k, ls) ==
    \A i \in 1..Len(ls) :
      f[k + i] = ParseLine(f[k + i - 1], diff[k + i]) /\ diff[k + i] = ls[i]

\* A new hunk has been begun after k lines.
Begun(diff, f, k, ls, hunks, start) ==
    /\ k \in Nat /\ ls \in Seq(DiffLines) /\ Through(diff, f, k, ls)
    /\ hunks \in Seq(DiffHunks) /\ start \in Nat
    /\ f[k] = Append(hunks, NewHunk(start))

\* The lines of a diff that follow a header are the lines of its hunk.
LEMMA ParsedLines ==
    ASSUME NEW diff, NEW f, NEW k, NEW ls, NEW hunks, NEW start,
           Begun(diff, f, k, ls, hunks, start)
    PROVE  f[k + Len(ls)] = Append(hunks, HunkOf(start, ls))
<1> DEFINE N == Len(ls)
           Hunk(i) == [old_start |-> start, lines |-> SubSeq(ls, 1, i)]
           T == {i \in Nat : i <= N => f[k + i] = Append(hunks, Hunk(i))}
<1> USE DEF Begun
<1>1. N \in Nat /\ Len(hunks) \in Nat
    BY LenProperties
<1>2. 0 \in T
    <2>1. SubSeq(ls, 1, 0) = <<>> /\ k + 0 = k
        BY SubSeqEmpty
    <2> QED
        BY <2>1 DEF NewHunk, HunkOf
<1>3. ASSUME NEW i \in Nat, i + 1 <= N, f[k + i] = Append(hunks, Hunk(i))
      PROVE  f[k + (i + 1)] = Append(hunks, Hunk(i + 1))
    <2> DEFINE j == i + 1
               l == ls[j]
               old == Hunk(i)
               new == Hunk(j)
               n == Len(hunks) + 1
    <2>1. j \in 1..N /\ k + j - 1 = k + i /\ i \in 0..N /\ j \in Nat
        BY <1>1, <1>3
    <2>2. l \in DiffLines /\ l.tag \in {" ", "-", "+"}
        BY <2>1, ElementOfSeq, LinesTyped
    <2>3. SubSeq(ls, 1, i) \in Seq(DiffLines) /\ SubSeq(ls, 1, j) \in Seq(DiffLines)
        BY <2>1, PrefixOf
    <2>4. SubSeq(ls, 1, j) = Append(SubSeq(ls, 1, i), l)
        <3>1. 1 \in 1..N /\ j \in 1..N /\ j - 1 = i
            BY <1>1, <2>1
        <3>2. SubSeq(ls, 1, j) = SubSeq(ls, 1, i) \o <<l>>
            BY <2>1, <3>1, SubSeqRecursiveSecond
        <3> QED
            BY <2>2, <2>3, <3>2, AppendIsConcat
    <2>5. f[k + j] = ParseLine(Append(hunks, old), l)
        <3>1. f[k + j] = ParseLine(f[k + j - 1], diff[k + j]) /\ diff[k + j] = l
            BY <2>1 DEF Through
        <3> QED
            BY <1>3, <2>1, <3>1
    <2>6. old \in DiffHunks /\ new \in DiffHunks
        BY <2>3 DEF DiffHunks
    <2>7. new = [old EXCEPT !.lines = Append(@, l)]
        <3> DEFINE x == SubSeq(ls, 1, i)
        <3>1. old = [old_start |-> start, lines |-> x]
              /\ new = [old_start |-> start, lines |-> Append(x, l)]
            BY <2>4
        <3> HIDE DEF x, old, new, l
        <3>2. old.lines = x
            BY <3>1
        <3> DEFINE y == Append(x, l)
        <3> HIDE DEF y
        <3>3. [old EXCEPT !.lines = y] = [old_start |-> start, lines |-> y]
            BY <3>1
        <3> QED
            BY <3>1, <3>2, <3>3 DEF y
    <2> HIDE DEF old, new, l, j
    <2> DEFINE u == Append(hunks, old)
               v == Append(hunks, new)
    <2>8. /\ u \in Seq(DiffHunks) /\ u # <<>> /\ Len(u) = n /\ u[n] = old
          /\ \A e \in 1..Len(hunks) : u[e] = hunks[e]
        BY <2>6, AppendProperties
    <2>9. /\ v \in Seq(DiffHunks) /\ Len(v) = n /\ v[n] = new
          /\ \A e \in 1..Len(hunks) : v[e] = hunks[e]
        BY <2>6, AppendProperties
    <2> HIDE DEF u, v
    <2>10. ParseLine(u, l) = [u EXCEPT ![n] = new]
        <3>1. ParseLine(u, l) = [u EXCEPT ![Len(u)].lines = Append(@, l)]
            BY <2>2, <2>8 DEF ParseLine
        <3>2. n \in DOMAIN u
            BY <1>1, <2>8, LenProperties
        <3> QED
            BY <2>7, <2>8, <3>1, <3>2
    <2>11. [u EXCEPT ![n] = new] = v
        <3> DEFINE x == [u EXCEPT ![n] = new]
        <3>1. n \in 1..Len(u)
            BY <1>1, <2>8
        <3>2. /\ x \in Seq(DiffHunks) /\ Len(x) = n
              /\ \A e \in 1..n : x[e] = IF e = n THEN new ELSE u[e]
            BY <2>6, <2>8, <3>1, ExceptSeq
        <3> HIDE DEF x
        <3>3. ASSUME NEW e \in 1..n
              PROVE  x[e] = v[e]
            <4>1. CASE e = n
                BY <2>9, <3>2, <4>1
            <4>2. CASE e \in 1..Len(hunks)
                <5>1. e # n
                    BY <1>1, <4>2
                <5> QED
                    BY <2>8, <2>9, <3>2, <4>2, <5>1
            <4> QED
                BY <1>1, <4>1, <4>2
        <3>4. x = v
            BY <2>9, <3>2, <3>3, SeqEqual
        <3> QED
            BY <3>4 DEF x
    <2> QED
        BY <2>5, <2>10, <2>11 DEF u, v, new, j
<1> HIDE DEF Hunk, N
<1>4. \A i \in Nat : i \in T => i + 1 \in T
    <2> SUFFICES ASSUME NEW i \in Nat, i \in T, i + 1 <= N
                 PROVE  f[k + (i + 1)] = Append(hunks, Hunk(i + 1))
        OBVIOUS
    <2>1. f[k + i] = Append(hunks, Hunk(i))
        BY <1>1
    <2> QED
        BY <1>3, <2>1
<1>5. Nat \subseteq T
    <2> HIDE DEF T
    <2> QED
        BY <1>2, <1>4, NatSetInduction
<1>6. f[k + N] = Append(hunks, Hunk(N))
    <2>1. N \in Nat /\ N <= N
        BY <1>1
    <2>2. N \in T
        BY <1>5, <2>1, Zenon
    <2> QED
        BY <2>1, <2>2, Zenon
<1>7. Hunk(N) = HunkOf(start, ls)
    BY SubSeqFull DEF Hunk, N, HunkOf
<1> QED
    BY <1>6, <1>7 DEF N

\* f is how parse_unified_diff_hunks comes about.
Parses(diff, m, f) ==
    /\ f[0] = <<>>
    /\ \A i \in 1..m : f[i] = ParseLine(f[i - 1], diff[i])

LEMMA ParseLoop ==
    ASSUME NEW diff, Len(diff) \in Nat
    PROVE  \E f : Parses(diff, Len(diff), f) /\ parse_unified_diff_hunks(diff) = f[Len(diff)]
<1> DEFINE T == {m \in Nat : \E f : Parses(diff, m, f)}
<1>1. 0 \in T
    <2>1. Parses(diff, 0, [i \in 0..0 |-> <<>>])
        BY DEF Parses
    <2> QED
        BY <2>1
<1>2. ASSUME NEW m \in Nat, m \in T
      PROVE  m + 1 \in T
    <2>1. PICK f : Parses(diff, m, f)
        BY <1>2
    <2> DEFINE h1 == [i \in 0..m + 1 |->
                       IF i = m + 1 THEN ParseLine(f[m], diff[m + 1]) ELSE f[i]]
    <2>2. h1[0] = <<>>
        BY <2>1 DEF Parses
    <2>3. ASSUME NEW i \in 1..m + 1
          PROVE  h1[i] = ParseLine(h1[i - 1], diff[i])
        <3>1. h1[i - 1] = f[i - 1]
            OBVIOUS
        <3>2. CASE i = m + 1
            <4>1. h1[i] = ParseLine(f[m], diff[m + 1]) /\ i - 1 = m
                BY <3>2
            <4> QED
                BY <3>1, <3>2, <4>1
        <3>3. CASE i \in 1..m
            <4>1. h1[i] = f[i] /\ f[i] = ParseLine(f[i - 1], diff[i])
                BY <2>1, <3>3 DEF Parses
            <4> QED
                BY <3>1, <4>1
        <3> QED
            BY <3>2, <3>3
    <2>4. Parses(diff, m + 1, h1)
        BY <2>2, <2>3 DEF Parses
    <2> QED
        BY <2>4
<1>3. Nat \subseteq T
    <2> HIDE DEF T
    <2> QED
        BY <1>1, <1>2, NatSetInduction
<1>4. PICK f : Parses(diff, Len(diff), f)
    BY <1>3
<1> DEFINE F == [n \in 0..Len(diff) |-> f[n]]
<1>5. F[0] = <<>> /\ F[Len(diff)] = f[Len(diff)]
      /\ \A n \in 1..Len(diff) : F[n] = ParseLine(F[n - 1], diff[n])
    BY <1>4 DEF Parses
<1>6. F = [n \in 0..Len(diff) |->
             IF n = 0 THEN <<>> ELSE ParseLine(F[n - 1], diff[n])]
    <2>1. F = [n \in 0..Len(diff) |-> F[n]]
        OBVIOUS
    <2> HIDE DEF F
    <2>2. \A n \in 0..Len(diff) : F[n] = IF n = 0 THEN <<>> ELSE ParseLine(F[n - 1], diff[n])
        BY <1>5
    <2> QED
        BY <2>1, <2>2, Zenon
<1> HIDE DEF F
<1> DEFINE W == CHOOSE g : g = [n \in 0..Len(diff) |->
             IF n = 0 THEN <<>> ELSE ParseLine(g[n - 1], diff[n])]
<1>7. W = [n \in 0..Len(diff) |->
             IF n = 0 THEN <<>> ELSE ParseLine(W[n - 1], diff[n])]
    BY <1>6
<1>8. parse_unified_diff_hunks(diff) = W[Len(diff)]
    BY DEF parse_unified_diff_hunks
<1> HIDE DEF W
<1>9. \A n \in 0..Len(diff) : W[n] = IF n = 0 THEN <<>> ELSE ParseLine(W[n - 1], diff[n])
    BY <1>7
<1>10. Parses(diff, Len(diff), W)
    BY <1>9 DEF Parses
<1> QED
    BY <1>8, <1>10

PatchLines == DiffLines \cup [tag : {"@@"}, start : Nat] \cup [tag : {"\\"}, text : Strings]

\* A rendered hunk is its header and its lines.
LEMMA RenderedIs ==
    ASSUME NEW h \in DiffHunks
    PROVE  /\ Rendered(h) \in Seq(PatchLines) /\ Len(Rendered(h)) = Len(h.lines) + 1
           /\ Rendered(h)[1] = [tag |-> "@@", start |-> h.old_start]
           /\ \A i \in 1..Len(h.lines) : Rendered(h)[i + 1] = h.lines[i]
<1> DEFINE e == [tag |-> "@@", start |-> h.old_start]
           one == <<e>>
           ls == h.lines
           r == one \o ls
<1>1. h.old_start \in Nat /\ ls \in Seq(DiffLines)
    BY DEF DiffHunks
<1>2. DiffLines \subseteq PatchLines /\ e \in PatchLines
    BY <1>1 DEF PatchLines
<1>3. ls \in Seq(PatchLines) /\ Len(ls) \in Nat
    BY <1>1, <1>2, SeqMonotonic, LenProperties
<1> HIDE DEF e, ls
<1>4. one \in Seq(PatchLines) /\ Len(one) = 1 /\ one[1] = e
    BY <1>2
<1> HIDE DEF one
<1>5. /\ r \in Seq(PatchLines) /\ Len(r) = Len(one) + Len(ls)
      /\ \A i \in 1..Len(one) + Len(ls) : r[i] = IF i <= Len(one) THEN one[i] ELSE ls[i - Len(one)]
    BY <1>3, <1>4, ConcatProperties
<1> HIDE DEF r
<1>6. Len(r) = Len(ls) + 1 /\ r[1] = e
    BY <1>3, <1>4, <1>5
<1>7. ASSUME NEW i \in 1..Len(ls)
      PROVE  r[i + 1] = ls[i]
    <2>1. i + 1 \in 1..Len(one) + Len(ls) /\ ~(i + 1 <= Len(one)) /\ (i + 1) - Len(one) = i
        BY <1>3, <1>4
    <2> QED
        BY <1>5, <2>1
<1> QED
    BY <1>5, <1>6, <1>7 DEF Rendered, r, one, e, ls

\* The next hunk of a diff, after k lines.
Comes(diff, f, k, h, hunks) ==
    /\ k \in Nat /\ h \in DiffHunks /\ hunks \in Seq(DiffHunks)
    /\ Through(diff, f, k, Rendered(h)) /\ f[k] = hunks

\* A rendered hunk is parsed as the hunk it is.
LEMMA ParsedHunk ==
    ASSUME NEW diff, NEW f, NEW k, NEW h, NEW hunks, Comes(diff, f, k, h, hunks)
    PROVE  f[k + (Len(h.lines) + 1)] = Append(hunks, h)
<1> DEFINE ls == h.lines
           j == k + 1
           start == h.old_start
<1> USE DEF Comes
<1>1. start \in Nat /\ ls \in Seq(DiffLines) /\ Len(ls) \in Nat
      /\ h = [old_start |-> start, lines |-> ls]
    BY LenProperties DEF DiffHunks
<1>2. /\ Len(Rendered(h)) = Len(ls) + 1
      /\ Rendered(h)[1] = [tag |-> "@@", start |-> start]
      /\ \A i \in 1..Len(ls) : Rendered(h)[i + 1] = ls[i]
    BY RenderedIs
<1>3. j \in Nat /\ 1 \in 1..Len(ls) + 1 /\ k + 1 = j /\ k + 1 - 1 = k
    BY <1>1
<1>4. f[j] = Append(hunks, NewHunk(start))
    <2> DEFINE e == diff[j]
    <2>1. f[j] = ParseLine(hunks, e) /\ e = [tag |-> "@@", start |-> start]
        BY <1>2, <1>3 DEF Through
    <2> HIDE DEF e, start, j
    <2>2. e.tag = "@@" /\ e.start = start
        BY <2>1
    <2> QED
        BY <2>1, <2>2 DEF ParseLine, NewHunk, HunkOf
<1>5. Through(diff, f, j, ls)
    <2> SUFFICES ASSUME NEW i \in 1..Len(ls)
                 PROVE  /\ f[j + i] = ParseLine(f[j + i - 1], diff[j + i])
                        /\ diff[j + i] = ls[i]
        BY DEF Through
    <2> DEFINE n == Len(ls)
    <2>1. n \in Nat /\ i \in 1..n
        BY <1>1
    <2> HIDE DEF n
    <2>2. i + 1 \in 1..n + 1 /\ k + (i + 1) = j + i /\ k + (i + 1) - 1 = j + i - 1
        BY <2>1
    <2>3. f[k + (i + 1)] = ParseLine(f[k + (i + 1) - 1], diff[k + (i + 1)])
          /\ diff[k + (i + 1)] = Rendered(h)[i + 1]
        BY <1>2, <2>2 DEF Through, n
    <2> QED
        BY <1>2, <2>2, <2>3
<1>7. k + (Len(h.lines) + 1) = j + Len(ls)
    BY <1>1
<1> HIDE DEF ls, j, start
<1>8. f[j + Len(ls)] = Append(hunks, HunkOf(start, ls))
    <2>1. Begun(diff, f, j, ls, hunks, start)
        BY <1>1, <1>3, <1>4, <1>5 DEF Begun
    <2> QED
        BY <2>1, ParsedLines
<1> QED
    BY <1>1, <1>7, <1>8 DEF HunkOf

\* A diff has two lines before its hunks and one after them.
LEMMA AsDiffIs ==
    ASSUME NEW R \in Seq(PatchLines)
    PROVE  /\ Len(AsDiff(R)) = Len(R) + 3
           /\ AsDiff(R)[1].tag = "-" /\ AsDiff(R)[2].tag = "+"
           /\ \A i \in 1..Len(R) : AsDiff(R)[2 + i] = R[i]
           /\ AsDiff(R)[Len(R) + 3].tag = "\\"
<1> DEFINE e1 == [tag |-> "-", text |-> "-- file"]
           e2 == [tag |-> "+", text |-> "++ file"]
           e3 == [tag |-> "\\", text |-> " No newline at end of file"]
           P == <<e1, e2>>
           E == <<e3>>
           u == P \o R
           v == u \o E
<1>1. e1 \in PatchLines /\ e2 \in PatchLines /\ e3 \in PatchLines
    <2>1. /\ "-- file" \in Strings /\ "++ file" \in Strings
          /\ " No newline at end of file" \in Strings
        BY DEF Strings
    <2>2. e1 \in DiffLines /\ e2 \in DiffLines
        BY <2>1 DEF DiffLines
    <2>3. e3 \in [tag : {"\\"}, text : Strings]
        BY <2>1
    <2> HIDE DEF e1, e2, e3
    <2> QED
        BY <2>2, <2>3 DEF PatchLines
<1>2. e1.tag = "-" /\ e2.tag = "+" /\ e3.tag = "\\"
    OBVIOUS
<1> HIDE DEF e1, e2, e3
<1>3. /\ P \in Seq(PatchLines) /\ Len(P) = 2 /\ P[1] = e1 /\ P[2] = e2
      /\ E \in Seq(PatchLines) /\ Len(E) = 1 /\ E[1] = e3
    BY <1>1
<1> HIDE DEF P, E
<1>4. /\ u \in Seq(PatchLines) /\ Len(u) = Len(P) + Len(R)
      /\ \A i \in 1..Len(P) + Len(R) : u[i] = IF i <= Len(P) THEN P[i] ELSE R[i - Len(P)]
    BY <1>3, ConcatProperties
<1>13. u \in Seq(PatchLines) /\ E \in Seq(PatchLines)
    BY <1>3, <1>4
<1> HIDE DEF u
<1>5. /\ v \in Seq(PatchLines) /\ Len(v) = Len(u) + Len(E)
      /\ \A i \in 1..Len(u) + Len(E) : v[i] = IF i <= Len(u) THEN u[i] ELSE E[i - Len(u)]
    BY <1>13, ConcatProperties
<1> HIDE DEF v
<1> DEFINE n == Len(R)
<1>6. n \in Nat /\ n = Len(R)
    BY LenProperties
<1> HIDE DEF n
<1>7. Len(u) = n + 2 /\ Len(v) = n + 3
    BY <1>3, <1>4, <1>5, <1>6
<1>8. ASSUME NEW i \in 1..n + 2
      PROVE  v[i] = u[i]
    <2>1. i \in 1..Len(u) + Len(E) /\ i <= Len(u)
        BY <1>3, <1>6, <1>7
    <2> QED
        BY <1>5, <2>1
<1>9. v[1] = e1 /\ v[2] = e2
    <2>1. 1 \in 1..n + 2 /\ 2 \in 1..n + 2 /\ 1 \in 1..Len(P) + Len(R) /\ 2 \in 1..Len(P) + Len(R)
        BY <1>3, <1>6
    <2>2. u[1] = P[1] /\ u[2] = P[2]
        BY <1>3, <1>4, <2>1
    <2> QED
        BY <1>3, <1>8, <2>1, <2>2
<1>10. ASSUME NEW i \in 1..n
       PROVE  v[2 + i] = R[i]
    <2>1. 2 + i \in 1..n + 2 /\ 2 + i \in 1..Len(P) + Len(R) /\ ~(2 + i <= Len(P))
          /\ (2 + i) - Len(P) = i
        BY <1>3, <1>6
    <2>2. u[2 + i] = R[i]
        BY <1>4, <2>1
    <2> QED
        BY <1>8, <2>1, <2>2
<1>11. v[n + 3] = e3
    <2>1. n + 3 \in 1..Len(u) + Len(E) /\ ~(n + 3 <= Len(u)) /\ (n + 3) - Len(u) = 1
        BY <1>3, <1>6, <1>7
    <2> QED
        BY <1>3, <1>5, <2>1
<1>12. AsDiff(R) = v
    BY DEF AsDiff, v, u, P, E, e1, e2, e3
<1> QED
    BY <1>2, <1>6, <1>7, <1>9, <1>10, <1>11, <1>12

\* How the parse of a diff begins and ends.
LEMMA ParseFrame ==
    ASSUME NEW R \in Seq(PatchLines)
    PROVE  \E f : /\ \A k \in Nat, r \in Seq(PatchLines) :
                       k + Len(r) <= Len(R) /\ (\A i \in 1..Len(r) : R[k + i] = r[i])
                         => Through(AsDiff(R), f, k + 2, r)
                  /\ f[2] = <<>>
                  /\ parse_unified_diff_hunks(AsDiff(R)) = f[Len(R) + 2]
<1> DEFINE D == AsDiff(R)
           n == Len(R)
<1>1. n \in Nat /\ n = Len(R)
    BY LenProperties
<1>2. /\ Len(D) = n + 3 /\ D[1].tag = "-" /\ D[2].tag = "+"
      /\ \A i \in 1..n : D[2 + i] = R[i]
      /\ D[n + 3].tag = "\\"
    BY AsDiffIs
<1> HIDE DEF D, n
<1>3. PICK f : Parses(D, Len(D), f) /\ parse_unified_diff_hunks(D) = f[Len(D)]
    BY <1>1, <1>2, ParseLoop
<1>4. f[0] = <<>> /\ \A i \in 1..n + 3 : f[i] = ParseLine(f[i - 1], D[i])
    BY <1>2, <1>3 DEF Parses
<1>5. f[2] = <<>>
    <2>1. 1 \in 1..n + 3 /\ 2 \in 1..n + 3 /\ 1 - 1 = 0 /\ 2 - 1 = 1
        BY <1>1
    <2>2. f[1] = ParseLine(<<>>, D[1]) /\ f[2] = ParseLine(f[1], D[2])
        BY <1>4, <2>1
    <2>3. ParseLine(<<>>, D[1]) = <<>> /\ ParseLine(<<>>, D[2]) = <<>>
        BY <1>2 DEF ParseLine
    <2> QED
        BY <2>2, <2>3
<1>6. f[n + 3] = f[n + 2]
    <2>1. n + 3 \in 1..n + 3 /\ (n + 3) - 1 = n + 2
        BY <1>1
    <2>2. f[n + 3] = ParseLine(f[n + 2], D[n + 3])
        BY <1>4, <2>1
    <2> QED
        BY <1>2, <2>2 DEF ParseLine
<1>7. ASSUME NEW k \in Nat, NEW r \in Seq(PatchLines), k + Len(r) <= n,
             \A i \in 1..Len(r) : R[k + i] = r[i], NEW i \in 1..Len(r)
      PROVE  /\ f[(k + 2) + i] = ParseLine(f[(k + 2) + i - 1], D[(k + 2) + i])
             /\ D[(k + 2) + i] = r[i]
    <2>1. Len(r) \in Nat
        BY LenProperties
    <2>2. (k + 2) + i \in 1..n + 3 /\ k + i \in 1..n /\ 2 + (k + i) = (k + 2) + i
        BY <1>1, <1>7, <2>1
    <2>3. f[(k + 2) + i] = ParseLine(f[(k + 2) + i - 1], D[(k + 2) + i])
        BY <1>4, <2>2
    <2>4. D[2 + (k + i)] = R[k + i] /\ R[k + i] = r[i]
        BY <1>2, <1>7, <2>2
    <2> QED
        BY <2>2, <2>3, <2>4
<1> QED
    BY <1>1, <1>2, <1>3, <1>5, <1>6, <1>7 DEF Through, D, n

\* A diff of one hunk is parsed as this hunk.
LEMMA ParsedOne ==
    ASSUME NEW g \in DiffHunks
    PROVE  parse_unified_diff_hunks(AsDiff(Rendered(g))) = <<g>>
<1> DEFINE R == Rendered(g)
           n == Len(g.lines) + 1
           none == <<>>
<1>1. R \in Seq(PatchLines) /\ Len(R) = n /\ n \in Nat
    BY RenderedIs, LenProperties DEF DiffHunks
<1> HIDE DEF R, n
<1>2. PICK f : /\ \A k \in Nat, r \in Seq(PatchLines) :
                       k + Len(r) <= Len(R) /\ (\A i \in 1..Len(r) : R[k + i] = r[i])
                         => Through(AsDiff(R), f, k + 2, r)
               /\ f[2] = <<>>
               /\ parse_unified_diff_hunks(AsDiff(R)) = f[Len(R) + 2]
    BY <1>1, ParseFrame
<1>3. Through(AsDiff(R), f, 2, R)
    <2>1. 0 + Len(R) <= Len(R) /\ 0 \in Nat /\ \A i \in 1..Len(R) : R[0 + i] = R[i]
        BY <1>1
    <2>2. Through(AsDiff(R), f, 0 + 2, R)
        BY <1>1, <1>2, <2>1
    <2> QED
        BY <2>2
<1>4. none \in Seq(DiffHunks) /\ f[2] = none /\ Append(none, g) = <<g>>
    BY <1>2
<1> HIDE DEF none
<1>5. Comes(AsDiff(R), f, 2, g, none)
    BY <1>3, <1>4 DEF Comes, R
<1>6. f[2 + n] = Append(none, g)
    BY <1>5, ParsedHunk DEF n
<1>7. Len(R) + 2 = 2 + n
    BY <1>1
<1> QED
    BY <1>2, <1>4, <1>6, <1>7 DEF R

LEMMA TwoOf ==
    ASSUME NEW T, NEW x \in T, NEW y \in T
    PROVE  Append(<<x>>, y) = <<x, y>>
<1> DEFINE o == <<x>>
           p == <<x, y>>
           q == Append(o, y)
<1>1. p \in Seq(T) /\ Len(p) = 2 /\ p[1] = x /\ p[2] = y
    OBVIOUS
<1>2. o \in Seq(T) /\ Len(o) = 1 /\ o[1] = x
    OBVIOUS
<1> HIDE DEF o, p
<1>3. q \in Seq(T) /\ Len(q) = Len(o) + 1
    BY <1>2, AppendProperties
<1>4. q[Len(o) + 1] = y
    BY <1>2, AppendProperties
<1>5. \A i \in 1..Len(o) : q[i] = o[i]
    BY <1>2, AppendProperties
<1>6. Len(q) = 2 /\ q[2] = y /\ q[1] = x
    <2>1. 1 \in 1..Len(o) /\ Len(o) + 1 = 2
        BY <1>2
    <2> QED
        BY <1>2, <1>3, <1>4, <1>5, <2>1
<1> HIDE DEF q
<1>7. \A i \in 1..2 : p[i] = q[i]
    BY <1>1, <1>6
<1>8. p = q
    BY <1>1, <1>3, <1>6, <1>7, SeqEqual
<1> QED
    BY <1>8 DEF o, p, q

\* A diff of two hunks is parsed as these two, in their order.
LEMMA ParsedTwo ==
    ASSUME NEW g \in DiffHunks, NEW h \in DiffHunks
    PROVE  parse_unified_diff_hunks(AsDiff(Rendered(g) \o Rendered(h))) = <<g, h>>
<1> DEFINE G == Rendered(g)
           H == Rendered(h)
           R == G \o H
           n == Len(g.lines) + 1
           m == Len(h.lines) + 1
           none == <<>>
           one == Append(none, g)
<1>1. /\ G \in Seq(PatchLines) /\ Len(G) = n /\ n \in Nat
      /\ H \in Seq(PatchLines) /\ Len(H) = m /\ m \in Nat
    BY RenderedIs, LenProperties DEF DiffHunks
<1> HIDE DEF G, H, n, m
<1>2. /\ R \in Seq(PatchLines) /\ Len(R) = Len(G) + Len(H)
      /\ \A i \in 1..Len(G) + Len(H) : R[i] = IF i <= Len(G) THEN G[i] ELSE H[i - Len(G)]
    BY <1>1, ConcatProperties
<1> HIDE DEF R
<1>3. PICK f : /\ \A k \in Nat, r \in Seq(PatchLines) :
                       k + Len(r) <= Len(R) /\ (\A i \in 1..Len(r) : R[k + i] = r[i])
                         => Through(AsDiff(R), f, k + 2, r)
               /\ f[2] = <<>>
               /\ parse_unified_diff_hunks(AsDiff(R)) = f[Len(R) + 2]
    BY <1>2, ParseFrame
<1>4. Through(AsDiff(R), f, 2, G)
    <2>1. ASSUME NEW i \in 1..Len(G)
          PROVE  R[0 + i] = G[i]
        <3>1. i \in 1..Len(G) + Len(H) /\ i <= Len(G) /\ 0 + i = i
            BY <1>1
        <3> QED
            BY <1>2, <3>1
    <2>2. 0 + Len(G) <= Len(R) /\ 0 \in Nat
        BY <1>1, <1>2
    <2>3. Through(AsDiff(R), f, 0 + 2, G)
        BY <1>1, <1>3, <2>1, <2>2
    <2> QED
        BY <2>3
<1>5. Through(AsDiff(R), f, 2 + n, H)
    <2>1. ASSUME NEW i \in 1..Len(H)
          PROVE  R[n + i] = H[i]
        <3>1. n + i \in 1..Len(G) + Len(H) /\ ~(n + i <= Len(G)) /\ (n + i) - Len(G) = i
            BY <1>1
        <3> QED
            BY <1>2, <3>1
    <2>2. n + Len(H) <= Len(R) /\ n + 2 = 2 + n
        BY <1>1, <1>2
    <2>3. Through(AsDiff(R), f, n + 2, H)
        BY <1>1, <1>3, <2>1, <2>2
    <2> QED
        BY <2>2, <2>3
<1>6. /\ none \in Seq(DiffHunks) /\ f[2] = none /\ one \in Seq(DiffHunks)
      /\ Append(one, h) = <<g, h>>
    <2>1. none \in Seq(DiffHunks) /\ f[2] = none
        BY <1>3
    <2>2. one = <<g>>
        OBVIOUS
    <2>3. <<g>> \in Seq(DiffHunks) /\ Append(<<g>>, h) = <<g, h>>
        BY TwoOf
    <2> QED
        BY <2>1, <2>2, <2>3
<1>7. one = Append(none, g)
    OBVIOUS
<1> HIDE DEF none, one
<1>8. Comes(AsDiff(R), f, 2, g, none)
    BY <1>4, <1>6 DEF Comes, G
<1>9. f[2 + n] = one
    BY <1>7, <1>8, ParsedHunk DEF n
<1>10. Comes(AsDiff(R), f, 2 + n, h, one)
    BY <1>1, <1>5, <1>6, <1>9 DEF Comes, H
<1>11. f[2 + n + m] = Append(one, h)
    BY <1>10, ParsedHunk DEF m
<1>12. Len(R) + 2 = 2 + n + m
    BY <1>1, <1>2
<1> QED
    BY <1>3, <1>6, <1>11, <1>12 DEF R, G, H

-----------------------------------------------------------------------------
(* Two hunks. *)

\* What the lines of a text become when two places of it are replaced.
Patched(lines, b, og, ng, c, oh, nh) ==
    (((SubSeq(lines, 1, b) \o ng) \o SubSeq(lines, b + Len(og) + 1, c)) \o nh)
      \o SubSeq(lines, c + Len(oh) + 1, Len(lines))

\* Two ways to concatenate q, p and n.
Glued(S, q, p, n, a, b) ==
    /\ q \in Seq(S) /\ p \in Seq(S) /\ n \in Seq(S)
    /\ a = q \o p /\ b = p \o n

LEMMA Associates ==
    ASSUME NEW S, NEW q, NEW p, NEW n, NEW a, NEW b, Glued(S, q, p, n, a, b)
    PROVE  a \o n = q \o b
<1>1. /\ q \in Seq(S) /\ p \in Seq(S) /\ n \in Seq(S)
      /\ a = q \o p /\ b = p \o n
    BY DEF Glued
<1> QED
    BY <1>1, ConcatAssociative

\* Two places of the lines, one after the other.
Places(S, ls, b, og, ng, c, oh, nh) ==
    /\ ls \in Seq(S) /\ b \in Nat /\ c \in Nat
    /\ og \in Seq(S) /\ ng \in Seq(S) /\ oh \in Seq(S) /\ nh \in Seq(S)
    /\ b + Len(og) <= c /\ c + Len(oh) <= Len(ls)

\* To replace the lower place first and the upper one then is to replace both.
LEMMA SplicedTwice ==
    ASSUME NEW S, NEW ls, NEW b, NEW c, NEW og, NEW ng, NEW oh, NEW nh,
           Places(S, ls, b, og, ng, c, oh, nh)
    PROVE  Spliced(Spliced(ls, c + 1, oh, nh), b + 1, og, ng)
             = Patched(ls, b, og, ng, c, oh, nh)
<1> USE DEF Places
<1> DEFINE P == SubSeq(ls, 1, c)
           e == c + Len(oh) + 1
           R == SubSeq(ls, e, Len(ls))
           t == nh \o R
           X == P \o t
           k == b + Len(og)
           A == SubSeq(ls, 1, b)
           B == SubSeq(ls, k + 1, c)
<1>1. Len(ls) \in Nat /\ Len(og) \in Nat /\ Len(oh) \in Nat
    BY LenProperties
<1>2. /\ c \in 0..Len(ls) /\ e \in Nat /\ 1 <= e /\ Len(ls) \in Int /\ k \in 0..c
      /\ b \in Int /\ b <= c /\ b <= Len(ls) /\ c <= Len(ls) /\ c \in Int /\ k + 1 \in Nat
      /\ 1 <= k + 1 /\ 1 \in Nat /\ 1 <= 1
    BY <1>1
<1>3. /\ (c + 1) - 1 = c /\ (c + 1) + Len(oh) = e
      /\ (b + 1) - 1 = b /\ (b + 1) + Len(og) = k + 1
    BY <1>1
<1>4. P \in Seq(S) /\ Len(P) = c
    BY <1>2, PrefixOf
<1> HIDE DEF e, k
<1>5. R \in Seq(S) /\ A \in Seq(S) /\ B \in Seq(S)
    BY <1>2, Part
<1>6. t \in Seq(S) /\ X \in Seq(S) /\ Len(X) = Len(P) + Len(t)
    BY <1>4, <1>5, ConcatProperties
<1>7. Spliced(ls, c + 1, oh, nh) = X
    <2>1. Spliced(ls, c + 1, oh, nh) = (P \o nh) \o R
        BY <1>3 DEF Spliced
    <2> DEFINE a == P \o nh
    <2>2. a = P \o nh /\ t = nh \o R
        OBVIOUS
    <2> HIDE DEF P, R, a, t
    <2>3. Glued(S, P, nh, R, a, t)
        BY <1>4, <1>5, <2>2 DEF Glued
    <2>4. a \o R = P \o t
        BY ONLY <2>3, Associates
    <2> QED
        BY <2>1, <2>4 DEF a
<1>8. SubSeq(X, 1, b) = A
    <2> HIDE DEF P, t
    <2>1. SubSeq(X, 1, b) = SubSeq(P, 1, b)
        BY <1>2, <1>4, <1>6, PartOfLeft
    <2>2. SubSeq(P, 1, b) = A
        BY <1>2, PartOfPrefix DEF P
    <2> QED
        BY <2>1, <2>2
<1>9. SubSeq(X, k + 1, Len(X)) = B \o t
    <2> HIDE DEF P, t
    <2>1. SubSeq(X, k + 1, Len(P) + Len(t)) = SubSeq(P, k + 1, Len(P)) \o t
        BY <1>2, <1>4, <1>6, DropFromLeft
    <2>2. SubSeq(P, k + 1, c) = B
        BY <1>2, PartOfPrefix DEF P
    <2> QED
        BY <1>4, <1>6, <2>1, <2>2
<1> HIDE DEF X
<1>10. Spliced(X, b + 1, og, ng) = (A \o ng) \o (B \o t)
    BY <1>3, <1>8, <1>9 DEF Spliced
<1>11. (A \o ng) \o (B \o t) = (((A \o ng) \o B) \o nh) \o R
    <2> DEFINE Q == A \o ng
    <2> HIDE DEF A, B, R
    <2>1. Q \in Seq(S)
        BY <1>5, ConcatProperties
    <2> HIDE DEF Q
    <2> DEFINE x == B \o t
               v == Q \o B
               w == v \o nh
    <2>2. t = nh \o R /\ x = B \o t /\ v = Q \o B /\ w = v \o nh
        OBVIOUS
    <2> HIDE DEF t, x, v, w
    <2>3. t \in Seq(S) /\ v \in Seq(S)
        BY <1>5, <1>6, <2>1, <2>2, ConcatProperties
    <2>4. Glued(S, v, nh, R, w, t) /\ Glued(S, Q, B, t, v, x)
        BY <1>5, <2>1, <2>2, <2>3 DEF Glued
    <2>5. w \o R = v \o t
        BY ONLY <2>4, Associates
    <2>6. v \o t = Q \o x
        BY ONLY <2>4, Associates
    <2> QED
        BY <2>5, <2>6 DEF Q, x, v, w
<1>12. Patched(ls, b, og, ng, c, oh, nh) = (((A \o ng) \o B) \o nh) \o R
    BY DEF Patched, e, k
<1> QED
    BY <1>7, <1>10, <1>11, <1>12

\* The lines of a text, and those both algorithms copy at its end.
LEMMA TextLines ==
    ASSUME NEW S, NEW text \in Seq(S), text # <<>>
    PROVE  \E L \in 0..Len(text) :
             /\ LinesOf(text) = SubSeq(text, 1, L) /\ LinesOf(text) \in Seq(S)
             /\ Len(LinesOf(text)) = L
             /\ \A n \in Nat : Remaining(text, n) = SubSeq(text, n + 1, L)
<1> DEFINE L == IF EndsWithNewline(text) THEN Len(text) - 1 ELSE Len(text)
<1>1. Len(text) \in Nat /\ L \in 0..Len(text)
    BY LenProperties, EmptySeq DEF EndsWithNewline
<1>2. \A n \in Nat : Remaining(text, n) = SubSeq(text, n + 1, L)
    BY DEF Remaining
<1> HIDE DEF L
<1>3. LinesOf(text) = SubSeq(text, 1, L)
    BY <1>2 DEF LinesOf
<1>4. SubSeq(text, 1, L) \in Seq(S) /\ Len(SubSeq(text, 1, L)) = L
    BY <1>1, PrefixOf
<1> QED
    BY <1>1, <1>2, <1>3, <1>4

\* Two hunks in their order: both are applied, or it fails.
LEMMA TwoHunks ==
    ASSUME NEW text \in Seq(Strings), NEW g \in DiffHunks, NEW h \in DiffHunks,
           NEW b \in Nat, NEW c \in Nat, g.old_start = b + 1, h.old_start = c + 1,
           b + Len(OldLines(g)) <= c, c + Len(OldLines(h)) <= Len(text)
    PROVE  IF StandsAt(text, g, b) /\ StandsAt(text, h, c)
           THEN ApplyHunks(text, <<g, h>>) =
                  Going(c + Len(OldLines(h)),
                        ((SubSeq(text, 1, b) \o NewLines(g))
                           \o SubSeq(text, b + Len(OldLines(g)) + 1, c)) \o NewLines(h),
                        Count(g, "+") + Count(h, "+"), Count(g, "-") + Count(h, "-"))
           ELSE HasFailed(ApplyHunks(text, <<g, h>>))
<1> DEFINE hs == <<g, h>>
           none == <<>>
           og == OldLines(g)
           oh == OldLines(h)
           ng == NewLines(g)
           k == b + Len(og)
           A == SubSeq(text, 1, b)
           out == A \o ng
           ga == Count(g, "+")
           gd == Count(g, "-")
           ha == Count(h, "+")
           hd == Count(h, "-")
<1>1. Len(hs) = 2 /\ hs[1] = g /\ hs[2] = h
    OBVIOUS
<1>2. none \in Seq(Strings) /\ g.lines \in Seq(DiffLines) /\ h.lines \in Seq(DiffLines)
    BY DEF DiffHunks
<1>3. /\ og \in Seq(Strings) /\ oh \in Seq(Strings) /\ ng \in Seq(Strings)
      /\ TextsOf(g, {"+"}) \in Seq(Strings) /\ TextsOf(g, {"-"}) \in Seq(Strings)
      /\ TextsOf(h, {"+"}) \in Seq(Strings) /\ TextsOf(h, {"-"}) \in Seq(Strings)
    BY <1>2, HunkTexts DEF OldLines, NewLines
<1>4. /\ Len(og) \in Nat /\ Len(oh) \in Nat /\ Len(text) \in Nat
      /\ ga \in Nat /\ gd \in Nat /\ ha \in Nat /\ hd \in Nat
    BY <1>3, LenProperties DEF Count
<1>5. PICK f : AppliesHunks(text, hs, Len(hs), f) /\ ApplyHunks(text, hs) = f[Len(hs)]
    <2>1. Len(hs) \in Nat
        BY <1>1
    <2> HIDE DEF hs
    <2> QED
        BY <2>1, HunksLoop
<1>6. /\ f[1] = ApplyHunk(text, Going(0, none, 0, 0), g) /\ f[2] = ApplyHunk(text, f[1], h)
      /\ ApplyHunks(text, hs) = f[2]
    <2>1. 1 \in 1..Len(hs) /\ 2 \in 1..Len(hs) /\ 1 - 1 = 0 /\ 2 - 1 = 1
        BY <1>1
    <2>2. /\ f[0] = Going(0, none, 0, 0)
          /\ \A i \in 1..Len(hs) : f[i] = ApplyHunk(text, f[i - 1], hs[i])
        BY <1>5 DEF AppliesHunks
    <2> HIDE DEF hs, none
    <2> QED
        BY <1>1, <1>5, <2>1, <2>2
<1>7. /\ 0 \in Nat /\ 0 <= b /\ b <= Len(text) /\ b + Len(og) <= Len(text) /\ k \in Nat /\ k <= c
      /\ 0 + 1 = 1 /\ b \in Int /\ 1 <= 1 /\ 1 \in Nat
    BY <1>4
<1>8. A \in Seq(Strings) /\ none \o A = A
    <2>1. A \in Seq(Strings)
        BY <1>7, Part
    <2> HIDE DEF A
    <2> QED
        BY <2>1
<1> HIDE DEF none, A
<1>9. out \in Seq(Strings)
    BY <1>3, <1>8, ConcatProperties
<1> HIDE DEF og, oh, ng, k, ga, gd, ha, hd
<1>10. IF StandsAt(text, g, b) THEN f[1] = Going(k, out, ga, gd) ELSE HasFailed(f[1])
    <2> DEFINE r == ApplyHunk(text, Going(0, none, 0, 0), g)
    <2>1. IF StandsAt(text, g, b)
          THEN r = Going(b + Len(OldLines(g)), (none \o SubSeq(text, 0 + 1, b)) \o NewLines(g),
                         0 + Count(g, "+"), 0 + Count(g, "-"))
          ELSE HasFailed(r)
        <3> HIDE DEF r
        <3>1. b + Len(OldLines(g)) <= Len(text)
            BY <1>7 DEF og
        <3> QED
            BY <1>2, <1>7, <3>1, HunkApplies DEF r
    <2>2. 0 + ga = ga /\ 0 + gd = gd /\ none \o SubSeq(text, 0 + 1, b) = A
        BY <1>4, <1>7, <1>8 DEF A
    <2> QED
        BY <1>6, <2>1, <2>2 DEF ga, gd, og, ng, k
<1>11. CASE ~StandsAt(text, g, b)
    <2>1. HasFailed(f[1]) /\ Len(h.lines) \in Nat
        BY <1>2, <1>10, <1>11, LenProperties
    <2>2. HasFailed(ApplyHunk(text, f[1], h))
        BY <2>1, FailedHunk
    <2> QED
        BY <1>6, <1>11, <2>2
<1>12. CASE StandsAt(text, g, b)
    <2> HIDE DEF out
    <2>1. f[2] = ApplyHunk(text, Going(k, out, ga, gd), h)
        BY <1>6, <1>10, <1>12
    <2>2. IF StandsAt(text, h, c)
          THEN f[2] = Going(c + Len(OldLines(h)), (out \o SubSeq(text, k + 1, c)) \o NewLines(h),
                            ga + Count(h, "+"), gd + Count(h, "-"))
          ELSE HasFailed(f[2])
        <3> DEFINE r == ApplyHunk(text, Going(k, out, ga, gd), h)
        <3>1. IF StandsAt(text, h, c)
              THEN r = Going(c + Len(OldLines(h)), (out \o SubSeq(text, k + 1, c)) \o NewLines(h),
                             ga + Count(h, "+"), gd + Count(h, "-"))
              ELSE HasFailed(r)
            <4> HIDE DEF r
            <4>1. k \in Nat /\ k <= c /\ ga \in Nat /\ gd \in Nat
                BY <1>4, <1>7
            <4> QED
                BY <1>2, <1>9, <4>1, HunkApplies DEF r
        <3> QED
            BY <2>1, <3>1
    <2> QED
        BY <1>6, <1>12, <2>2 DEF ga, gd, k, out, A, ng, og
<1> QED
    BY <1>11, <1>12

\* The text of lines the last of which is not blank.
LEMMA PlainText ==
    ASSUME NEW ls, Plain(ls), NEW nl
    PROVE  Terminate(Join(ls), nl) = TextOf(ls, nl)
<1>1. ls # <<>> /\ Last(ls) # Blank /\ Join(ls) = ls
    BY DEF Plain, Join
<1>2. ~EndsWithNewline(ls)
    BY <1>1 DEF EndsWithNewline
<1>3. ls # Empty
    <2>1. Last(Empty) = Blank
        BY DEF Last, Empty
    <2> QED
        BY <1>1, <2>1
<1> QED
    BY <1>1, <1>2, <1>3 DEF Terminate, TextOf

LEMMA BoundedSeqIs ==
    ASSUME NEW S, NEW n \in Nat, NEW s \in BoundedSeq(S, n)
    PROVE  s \in Seq(S) /\ Len(s) <= n
<1>1. PICK m \in 0..n : s \in [1..m -> S]
    BY DEF BoundedSeq, SeqOf
<1> QED
    BY <1>1

\* The hunks of the references are hunks the parser returns.
LEMMA HunksAre ==
    ASSUME NEW h \in Hunks
    PROVE  /\ h \in DiffHunks /\ h.old_start \in Nat /\ h.old_start >= 1
           /\ h.lines \in Seq(DiffLines)
<1> DEFINE D == [tag : {" ", "-", "+"}, text : Letters]
<1>1. /\ h = [old_start |-> h.old_start, lines |-> h.lines]
      /\ h.old_start \in 1..MaxLines /\ h.lines \in BoundedSeq(D, MaxHunk)
    BY DEF Hunks
<1>2. D \subseteq DiffLines
    BY DEF DiffLines, Strings
<1> HIDE DEF D
<1>3. h.lines \in Seq(D)
    BY <1>1, BoundsAssumption, BoundedSeqIs
<1>4. h.lines \in Seq(DiffLines)
    BY <1>2, <1>3, SeqMonotonic
<1>5. h.old_start \in Nat /\ h.old_start >= 1
    BY <1>1, BoundsAssumption
<1>6. h \in DiffHunks
    BY <1>1, <1>4, <1>5 DEF DiffHunks
<1> QED
    BY <1>4, <1>5, <1>6

\* To fit the lines of a text is to stand in the text.
LEMMA FitsWhere ==
    ASSUME NEW text \in Seq(Strings), NEW L \in 0..Len(text), NEW h,
           h.lines \in Seq(DiffLines), NEW b \in Nat, h.old_start = b + 1,
           b + Len(OldLines(h)) <= L
    PROVE  Fits(h, SubSeq(text, 1, L)) <=> StandsAt(text, h, b)
<1> DEFINE o == OldLines(h)
           k1 == b + 1
           k2 == b + Len(o)
<1>1. Len(o) \in Nat
    BY HunkTexts, LenProperties DEF OldLines
<1>2. k1 \in Nat /\ k2 \in Int /\ 1 <= k1 /\ k2 <= L /\ (b + 1) - 1 + Len(o) = k2
    BY <1>1
<1> HIDE DEF k2, k1, o
<1>3. SubSeq(SubSeq(text, 1, L), k1, k2) = SubSeq(text, k1, k2)
    BY <1>2, PartOfPrefix
<1> QED
    BY <1>2, <1>3 DEF Fits, StandsAt, o, k1, k2

\* UnifiedDiffAppliesTo, for any text.
LEMMA DiffApplies ==
    ASSUME NEW text \in Seq(Strings), text # <<>>
    PROVE  UnifiedDiffAppliesTo(text)
<1> DEFINE lines == LinesOf(text)
           Result(g, h) == apply_unified_diff_in_memory(text, AsDiff(Rendered(g) \o Rendered(h)))
           New(g, h) == Spliced(Spliced(lines, h.old_start, OldLines(h), NewLines(h)),
                                g.old_start, OldLines(g), NewLines(g))
           Added(g, h) == Count(g, "+") + Count(h, "+")
           Removed(g, h) == Count(g, "-") + Count(h, "-")
           Nl(g, h) == EndsWithNewline(text) \/ Added(g, h) > 0
<1> SUFFICES ASSUME NEW g \in Hunks, NEW h \in Hunks,
                    Within(h, lines), g.old_start + Len(OldLines(g)) <= h.old_start
             PROVE  /\ Result(g, h).ok <=> Fits(g, lines) /\ Fits(h, lines)
                    /\ Result(g, h).ok /\ Plain(New(g, h)) =>
                         Result(g, h) = [ok |-> TRUE, text |-> TextOf(New(g, h), Nl(g, h)),
                                         added |-> Added(g, h), removed |-> Removed(g, h)]
    BY DEF UnifiedDiffAppliesTo
<1> DEFINE b == g.old_start - 1
           c == h.old_start - 1
           og == OldLines(g)
           oh == OldLines(h)
           ng == NewLines(g)
           nh == NewLines(h)
           hs == <<g, h>>
           s == ApplyHunks(text, hs)
           k == c + Len(oh)
           out == ((SubSeq(text, 1, b) \o ng) \o SubSeq(text, b + Len(og) + 1, c)) \o nh
           new == New(g, h)
           good == StandsAt(text, g, b) /\ StandsAt(text, h, c)
<1>1. PICK L \in 0..Len(text) :
             /\ lines = SubSeq(text, 1, L) /\ lines \in Seq(Strings) /\ Len(lines) = L
             /\ \A n \in Nat : Remaining(text, n) = SubSeq(text, n + 1, L)
    BY TextLines
<1>2. /\ g \in DiffHunks /\ g.old_start \in Nat /\ g.old_start >= 1 /\ g.lines \in Seq(DiffLines)
      /\ h \in DiffHunks /\ h.old_start \in Nat /\ h.old_start >= 1 /\ h.lines \in Seq(DiffLines)
    BY HunksAre
<1>3. og \in Seq(Strings) /\ oh \in Seq(Strings) /\ ng \in Seq(Strings) /\ nh \in Seq(Strings)
    BY <1>2, HunkTexts DEF OldLines, NewLines
<1>4. Len(og) \in Nat /\ Len(oh) \in Nat /\ Len(text) \in Nat
    BY <1>3, LenProperties
<1>5. c + Len(oh) <= Len(lines) /\ g.old_start + Len(og) <= h.old_start
    BY DEF Within
<1> HIDE DEF lines, og, oh, ng, nh
<1>6. /\ b \in Nat /\ c \in Nat /\ g.old_start = b + 1 /\ h.old_start = c + 1
      /\ b + Len(og) <= c /\ k <= L /\ k <= Len(text) /\ b + Len(og) <= L /\ k \in Nat
    <2> DEFINE x == g.old_start
               y == h.old_start
               l == Len(text)
               m == Len(og)
               n == Len(oh)
    <2>1. /\ x \in Nat /\ x >= 1 /\ y \in Nat /\ y >= 1 /\ m \in Nat /\ n \in Nat /\ l \in Nat
          /\ L \in 0..l /\ (y - 1) + n <= L /\ x + m <= y
        BY <1>1, <1>2, <1>4, <1>5
    <2> HIDE DEF x, y, l, m, n
    <2>2. /\ x - 1 \in Nat /\ y - 1 \in Nat /\ x = (x - 1) + 1 /\ y = (y - 1) + 1
          /\ (x - 1) + m <= y - 1 /\ (y - 1) + n <= l /\ (x - 1) + m <= L /\ (y - 1) + n \in Nat
        BY ONLY <2>1
    <2> QED
        BY <2>1, <2>2 DEF x, y, l, m, n
<1> HIDE DEF b, c
<1>7. IF good THEN s = Going(k, out, Added(g, h), Removed(g, h)) ELSE HasFailed(s)
    <2>1. b + Len(OldLines(g)) <= c /\ c + Len(OldLines(h)) <= Len(text)
        BY <1>6 DEF og, oh
    <2> QED
        BY <1>2, <1>6, <2>1, TwoHunks DEF og, oh, ng, nh
<1>8. (Fits(g, lines) <=> StandsAt(text, g, b)) /\ (Fits(h, lines) <=> StandsAt(text, h, c))
    <2>1. b + Len(OldLines(g)) <= L /\ c + Len(OldLines(h)) <= L
        BY <1>6 DEF og, oh
    <2> QED
        BY <1>1, <1>2, <1>6, <2>1, FitsWhere
<1>9. out \o Remaining(text, k) = new
    <2>1. new = Spliced(Spliced(lines, c + 1, oh, nh), b + 1, og, ng)
        BY <1>6 DEF og, oh, ng, nh
    <2>2. new = Patched(lines, b, og, ng, c, oh, nh)
        <3>1. c + Len(oh) <= Len(lines) /\ b + Len(og) <= c /\ b \in Nat /\ c \in Nat
              /\ lines \in Seq(Strings)
            BY <1>1, <1>6
        <3>2. Spliced(Spliced(lines, c + 1, oh, nh), b + 1, og, ng)
                = Patched(lines, b, og, ng, c, oh, nh)
            <4>1. Places(Strings, lines, b, og, ng, c, oh, nh)
                BY <1>3, <3>1 DEF Places
            <4> QED
                BY ONLY <4>1, SplicedTwice
        <3> QED
            BY <2>1, <3>2
    <2> DEFINE k1 == b + Len(og) + 1
               k2 == k + 1
    <2>3. /\ 1 \in Nat /\ 1 <= 1 /\ b \in Int /\ b <= L /\ k1 \in Nat /\ 1 <= k1
             /\ c \in Int /\ c <= L
          /\ k2 \in Nat /\ 1 <= k2 /\ L \in Int /\ L <= L
        BY <1>4, <1>6
    <2> HIDE DEF k1, k2
    <2>4. SubSeq(lines, 1, b) = SubSeq(text, 1, b)
        BY <1>1, <2>3, PartOfPrefix
    <2>5. SubSeq(lines, k1, c) = SubSeq(text, k1, c)
        BY <1>1, <2>3, PartOfPrefix
    <2>6. SubSeq(lines, k2, L) = SubSeq(text, k2, L)
        BY <1>1, <2>3, PartOfPrefix
    <2>7. Remaining(text, k) = SubSeq(text, k2, L)
        BY <1>1, <1>6 DEF k2
    <2> QED
        BY <1>1, <2>2, <2>4, <2>5, <2>6, <2>7 DEF Patched, k1, k2
<1>10. Result(g, h) = IF s.failed THEN Failed
                      ELSE Applied(Terminate(Join(s.out \o Remaining(text, s.idx)),
                                             EndsWithNewline(text) \/ s.added > 0), s)
    <2>1. parse_unified_diff_hunks(AsDiff(Rendered(g) \o Rendered(h))) = hs
        BY <1>2, ParsedTwo
    <2>2. Len(hs) = 2 /\ hs[1] = g /\ hs[2] = h
        OBVIOUS
    <2>3. ~(hs = <<>> \/ \E i \in 1..Len(hs) : hs[i].old_start = -1)
        BY <1>2, <2>2
    <2> HIDE DEF hs, s
    <2> QED
        BY <2>1, <2>3 DEF apply_unified_diff_in_memory, s
<1> HIDE DEF s, out, new, k
<1>11. CASE ~good
    <2>1. s.failed
        BY <1>7, <1>11 DEF HasFailed
    <2>2. ~Result(g, h).ok
        BY <1>10, <2>1 DEF Failed
    <2> QED
        BY <1>8, <1>11, <2>2
<1>12. CASE good
    <2>1. /\ s.failed = FALSE /\ s.out = out /\ s.idx = k /\ s.added = Added(g, h)
          /\ s.removed = Removed(g, h)
        BY <1>7, <1>12 DEF Going
    <2>2. Result(g, h) = Applied(Terminate(Join(new), Nl(g, h)), s)
        BY <1>9, <1>10, <2>1
    <2>3. Result(g, h) = [ok |-> TRUE, text |-> Terminate(Join(new), Nl(g, h)),
                          added |-> Added(g, h), removed |-> Removed(g, h)]
        BY <2>1, <2>2 DEF Applied
    <2>4. Plain(new) => Terminate(Join(new), Nl(g, h)) = TextOf(new, Nl(g, h))
        BY PlainText
    <2>5. Result(g, h).ok
        BY <2>3
    <2> QED
        BY <1>8, <1>12, <2>3, <2>4, <2>5 DEF new
<1> QED
    BY <1>11, <1>12

-----------------------------------------------------------------------------
(* Line replacements. *)

\* The state of replacements that are being applied and have not failed.
Cut(c, ls, a, d) ==
    [cursor |-> c, out |-> ls, added |-> a, removed |-> d, failed |-> FALSE]

\* f is how ReplaceLines comes about.
Replaces(text, sorted, m, f) ==
    /\ f[0] = Cut(1, <<>>, 0, 0)
    /\ \A i \in 1..m : f[i] = Replacement(text, f[i - 1], sorted[i])

LEMMA ReplaceLoop ==
    ASSUME NEW text, NEW sorted, Len(sorted) \in Nat
    PROVE  \E f : /\ Replaces(text, sorted, Len(sorted), f)
                  /\ ReplaceLines(text, sorted) = f[Len(sorted)]
<1> DEFINE T == {m \in Nat : \E f : Replaces(text, sorted, m, f)}
<1>1. 0 \in T
    <2>1. Replaces(text, sorted, 0, [i \in 0..0 |-> Cut(1, <<>>, 0, 0)])
        BY DEF Replaces
    <2> QED
        BY <2>1
<1>2. ASSUME NEW m \in Nat, m \in T
      PROVE  m + 1 \in T
    <2>1. PICK f : Replaces(text, sorted, m, f)
        BY <1>2
    <2> DEFINE h1 == [i \in 0..m + 1 |->
                       IF i = m + 1 THEN Replacement(text, f[m], sorted[m + 1]) ELSE f[i]]
    <2>2. h1[0] = Cut(1, <<>>, 0, 0)
        BY <2>1 DEF Replaces
    <2>3. ASSUME NEW i \in 1..m + 1
          PROVE  h1[i] = Replacement(text, h1[i - 1], sorted[i])
        <3>1. h1[i - 1] = f[i - 1]
            OBVIOUS
        <3>2. CASE i = m + 1
            <4>1. h1[i] = Replacement(text, f[m], sorted[m + 1]) /\ i - 1 = m
                BY <3>2
            <4> QED
                BY <3>1, <3>2, <4>1
        <3>3. CASE i \in 1..m
            <4>1. h1[i] = f[i] /\ f[i] = Replacement(text, f[i - 1], sorted[i])
                BY <2>1, <3>3 DEF Replaces
            <4> QED
                BY <3>1, <4>1
        <3> QED
            BY <3>2, <3>3
    <2>4. Replaces(text, sorted, m + 1, h1)
        BY <2>2, <2>3 DEF Replaces
    <2> QED
        BY <2>4
<1>3. Nat \subseteq T
    <2> HIDE DEF T
    <2> QED
        BY <1>1, <1>2, NatSetInduction
<1>4. PICK f : Replaces(text, sorted, Len(sorted), f)
    BY <1>3
<1> DEFINE F == [n \in 0..Len(sorted) |-> f[n]]
<1>5. F[0] = Cut(1, <<>>, 0, 0) /\ F[Len(sorted)] = f[Len(sorted)]
      /\ \A n \in 1..Len(sorted) : F[n] = Replacement(text, F[n - 1], sorted[n])
    BY <1>4 DEF Replaces
<1>6. F = [n \in 0..Len(sorted) |->
             IF n = 0 THEN Cut(1, <<>>, 0, 0) ELSE Replacement(text, F[n - 1], sorted[n])]
    <2>1. F = [n \in 0..Len(sorted) |-> F[n]]
        OBVIOUS
    <2> HIDE DEF F
    <2>2. \A n \in 0..Len(sorted) : F[n] =
              IF n = 0 THEN Cut(1, <<>>, 0, 0) ELSE Replacement(text, F[n - 1], sorted[n])
        BY <1>5
    <2> QED
        BY <2>1, <2>2, Zenon
<1> HIDE DEF F
<1> DEFINE W == CHOOSE g : g = [n \in 0..Len(sorted) |->
             IF n = 0 THEN Cut(1, <<>>, 0, 0) ELSE Replacement(text, g[n - 1], sorted[n])]
<1>7. W = [n \in 0..Len(sorted) |->
             IF n = 0 THEN Cut(1, <<>>, 0, 0) ELSE Replacement(text, W[n - 1], sorted[n])]
    BY <1>6
<1>8. ReplaceLines(text, sorted) = W[Len(sorted)]
    BY DEF ReplaceLines, Cut
<1> HIDE DEF W
<1>9. \A n \in 0..Len(sorted) : W[n] =
          IF n = 0 THEN Cut(1, <<>>, 0, 0) ELSE Replacement(text, W[n - 1], sorted[n])
    BY <1>7
<1>10. Replaces(text, sorted, Len(sorted), W)
    BY <1>9 DEF Replaces
<1> QED
    BY <1>8, <1>10

\* Where a replacement ends, the first line after it, and the lines it removes.
EndOf(text, r) == IF r.end_line < Len(text) THEN r.end_line ELSE Len(text)
PastOf(text, r) == IF EndOf(text, r) >= r.start THEN EndOf(text, r) + 1 ELSE r.start
Dropped(text, r, d) ==
    IF EndOf(text, r) >= r.start THEN d + EndOf(text, r) - r.start + 1 ELSE d

\* A replacement that the lines of the text from c on can take.
Takes(text, c, r) ==
    /\ Len(text) \in Nat /\ c \in Nat /\ r.start \in Nat /\ r.end_line \in Nat
    /\ c <= r.start /\ r.start <= Len(text) + 1
    /\ \/ r.target = <<>>
       \/ r.target = Join(SubSeq(text, r.start, EndOf(text, r)))

\* One replacement that can be taken.
LEMMA Replaced ==
    ASSUME NEW text, NEW c, NEW ls, NEW a, NEW d, NEW r, Takes(text, c, r)
    PROVE  Replacement(text, Cut(c, ls, a, d), r) =
             Cut(PastOf(text, r), (ls \o SubSeq(text, c, r.start - 1)) \o r.lines,
                 a + Len(r.lines), Dropped(text, r, d))
<1> DEFINE s == Cut(c, ls, a, d)
<1>1. s.failed = FALSE /\ s.cursor = c /\ s.out = ls /\ s.added = a /\ s.removed = d
    BY DEF Cut
<1>2. /\ ~(s.failed \/ Overlaps(s, r) \/ r.start > Len(text) + 1)
      /\ r.target # <<>> => r.target = Join(SubSeq(text, r.start, EndOf(text, r)))
    BY <1>1 DEF Takes, Overlaps
<1>3. Replacement(text, s, r) =
        [s EXCEPT !.out = (@ \o SubSeq(text, s.cursor, r.start - 1)) \o r.lines,
                  !.cursor = IF EndOf(text, r) >= r.start THEN EndOf(text, r) + 1 ELSE r.start,
                  !.added = @ + Len(r.lines),
                  !.removed = IF EndOf(text, r) >= r.start
                              THEN @ + EndOf(text, r) - r.start + 1 ELSE @]
    BY <1>2 DEF Replacement, EndOf
<1> QED
    BY <1>1, <1>3 DEF Cut, PastOf, Dropped

\* sort_by_key leaves one replacement alone.
LEMMA SortedOne ==
    ASSUME NEW q
    PROVE  Sorted(<<q>>) = <<q>>
<1> DEFINE rs == <<q>>
           D == DOMAIN rs
           Before(i, j) == \/ rs[i].start < rs[j].start
                           \/ rs[i].start = rs[j].start /\ i < j

           perm == CHOOSE p \in [D -> D] : \A i, j \in D : i < j => Before(p[i], p[j])
<1>1. D = {1}
    OBVIOUS
<1>2. [i \in D |-> i] \in [D -> D] /\ \A i, j \in D : ~(i < j)
    BY <1>1
<1>3. perm \in [D -> D]
    BY <1>2
<1>4. perm[1] = 1
    BY <1>1, <1>3
<1>5. Sorted(rs) = [i \in D |-> rs[perm[i]]]
    BY DEF Sorted
<1> HIDE DEF perm
<1>6. [i \in D |-> rs[perm[i]]] = rs
    BY <1>1, <1>4
<1> QED
    BY <1>5, <1>6

\* sort_by_key puts two replacements in the order of their lines.
LEMMA SortedTwo ==
    ASSUME NEW r, NEW q, r.start \in Int, q.start \in Int, r.start < q.start
    PROVE  Sorted(<<r, q>>) = <<r, q>> /\ Sorted(<<q, r>>) = <<r, q>>
<1>1. Sorted(<<r, q>>) = <<r, q>>
    <2> DEFINE rs == <<r, q>>
               D == DOMAIN rs
               Before(i, j) == \/ rs[i].start < rs[j].start
                               \/ rs[i].start = rs[j].start /\ i < j
               perm == CHOOSE p \in [D -> D] : \A i, j \in D : i < j => Before(p[i], p[j])
               id == [i \in D |-> i]
    <2>1. D = {1, 2} /\ rs[1] = r /\ rs[2] = q
        OBVIOUS
    <2>2. \A i, j \in D : Before(i, j) <=> i = 1 /\ j = 2
        BY <2>1
    <2>3. id \in [D -> D] /\ \A i, j \in D : i < j => Before(id[i], id[j])
        BY <2>1, <2>2
    <2> HIDE DEF id
    <2>4. perm \in [D -> D] /\ \A i, j \in D : i < j => Before(perm[i], perm[j])
        BY <2>3
    <2>5. Sorted(rs) = [i \in D |-> rs[perm[i]]]
        BY DEF Sorted
    <2> HIDE DEF perm, Before
    <2>6. perm[1] = 1 /\ perm[2] = 2
        BY <2>1, <2>2, <2>4
    <2>7. [i \in D |-> rs[perm[i]]] = rs
        BY <2>1, <2>6
    <2> QED
        BY <2>5, <2>7
<1>2. Sorted(<<q, r>>) = <<r, q>>
    <2> DEFINE rs == <<q, r>>
               D == DOMAIN rs
               Before(i, j) == \/ rs[i].start < rs[j].start
                               \/ rs[i].start = rs[j].start /\ i < j
               perm == CHOOSE p \in [D -> D] : \A i, j \in D : i < j => Before(p[i], p[j])
               swap == [i \in D |-> 3 - i]
    <2>1. D = {1, 2} /\ rs[1] = q /\ rs[2] = r
        OBVIOUS
    <2>2. \A i, j \in D : Before(i, j) <=> i = 2 /\ j = 1
        BY <2>1
    <2>3. swap \in [D -> D] /\ \A i, j \in D : i < j => Before(swap[i], swap[j])
        BY <2>1, <2>2
    <2> HIDE DEF swap
    <2>4. perm \in [D -> D] /\ \A i, j \in D : i < j => Before(perm[i], perm[j])
        BY <2>3
    <2>5. Sorted(rs) = [i \in D |-> rs[perm[i]]]
        BY DEF Sorted
    <2> HIDE DEF perm, Before
    <2>6. perm[1] = 2 /\ perm[2] = 1
        BY <2>1, <2>2, <2>4
    <2>7. [i \in D |-> rs[perm[i]]] = <<r, q>>
        BY <2>1, <2>6
    <2> QED
        BY <2>5, <2>7
<1> QED
    BY <1>1, <1>2

\* One replacement, applied to a text.
LEMMA ReplacesOne ==
    ASSUME NEW text \in Seq(Strings), NEW q, Takes(text, 1, q), q.lines \in Seq(Strings)
    PROVE  apply_replacements_in_memory(text, <<q>>) =
             [ok |-> TRUE,
              text |-> Terminate(Join((SubSeq(text, 1, q.start - 1) \o q.lines)
                                        \o Remaining(text, PastOf(text, q) - 1)),
                                 EndsWithNewline(text)),
              added |-> Len(q.lines), removed |-> Dropped(text, q, 0)]
<1> DEFINE rs == <<q>>
           none == <<>>
           s == ReplaceLines(text, rs)
           A == SubSeq(text, 1, q.start - 1)
<1>1. Len(rs) = 1 /\ rs[1] = q /\ Sorted(rs) = rs
    BY SortedOne
<1>2. A \in Seq(Strings)
    <2>1. q.start - 1 \in Int /\ q.start - 1 <= Len(text) /\ 1 \in Nat /\ 1 <= 1
        BY DEF Takes
    <2> QED
        BY <2>1, Part
<1>3. none \o A = A
    <2> HIDE DEF A
    <2> QED
        BY <1>2
<1> HIDE DEF A
<1>4. Len(q.lines) \in Nat
    BY LenProperties
<1>5. s = Replacement(text, Cut(1, none, 0, 0), q)
    <2> HIDE DEF rs
    <2>1. PICK f : Replaces(text, rs, Len(rs), f) /\ ReplaceLines(text, rs) = f[Len(rs)]
        <3>1. Len(rs) \in Nat
            BY ONLY <1>1
        <3> QED
            BY ONLY <3>1, ReplaceLoop
    <2>2. /\ f[0] = Cut(1, none, 0, 0)
          /\ \A i \in 1..Len(rs) : f[i] = Replacement(text, f[i - 1], rs[i])
        BY <2>1 DEF Replaces
    <2>3. 1 \in 1..Len(rs) /\ 1 - 1 = 0
        BY <1>1
    <2> HIDE DEF none
    <2> QED
        BY <1>1, <2>1, <2>2, <2>3
<1> HIDE DEF none, s, rs
<1>6. s = Cut(PastOf(text, q), A \o q.lines, Len(q.lines), Dropped(text, q, 0))
    <2>1. Replacement(text, Cut(1, none, 0, 0), q) =
            Cut(PastOf(text, q), (none \o SubSeq(text, 1, q.start - 1)) \o q.lines,
                0 + Len(q.lines), Dropped(text, q, 0))
        BY Replaced
    <2>2. 0 + Len(q.lines) = Len(q.lines)
        BY <1>4
    <2> QED
        BY <1>3, <1>5, <2>1, <2>2 DEF A
<1>7. /\ s.failed = FALSE /\ s.out = A \o q.lines /\ s.cursor = PastOf(text, q)
      /\ s.added = Len(q.lines) /\ s.removed = Dropped(text, q, 0)
    BY <1>6 DEF Cut
<1>8. apply_replacements_in_memory(text, rs) =
        IF s.failed THEN Failed
        ELSE Applied(Terminate(Join(s.out \o Remaining(text, s.cursor - 1)),
                               EndsWithNewline(text)), s)
    BY <1>1 DEF apply_replacements_in_memory, s
<1> QED
    BY <1>7, <1>8 DEF Applied, rs, A

\* Two replacements, in the order of their lines.
LEMMA ReplacesTwo ==
    ASSUME NEW text \in Seq(Strings), NEW r, NEW q, r.start < q.start,
           Takes(text, 1, r), Takes(text, PastOf(text, r), q),
           r.lines \in Seq(Strings), q.lines \in Seq(Strings)
    PROVE  \E a, d :
             apply_replacements_in_memory(text, <<r, q>>) =
               [ok |-> TRUE,
                text |-> Terminate(Join((((SubSeq(text, 1, r.start - 1) \o r.lines)
                                            \o SubSeq(text, PastOf(text, r), q.start - 1))
                                          \o q.lines)
                                        \o Remaining(text, PastOf(text, q) - 1)),
                                   EndsWithNewline(text)),
                added |-> a, removed |-> d]
<1> DEFINE rs == <<r, q>>
           none == <<>>
           s == ReplaceLines(text, rs)
           A == SubSeq(text, 1, r.start - 1)
           k == PastOf(text, r)
           ar == Len(r.lines)
           aq == Len(q.lines)
           out == A \o r.lines
           all == (out \o SubSeq(text, k, q.start - 1)) \o q.lines
           dr == Dropped(text, r, 0)
           d == Dropped(text, q, dr)
<1>1. Len(rs) = 2 /\ rs[1] = r /\ rs[2] = q /\ Sorted(rs) = rs
    <2>1. r.start \in Int /\ q.start \in Int
        BY DEF Takes
    <2>2. Sorted(rs) = rs
        BY <2>1, SortedTwo
    <2>3. Len(rs) = 2 /\ rs[1] = r /\ rs[2] = q
        OBVIOUS
    <2> QED
        BY <2>2, <2>3
<1>2. A \in Seq(Strings)
    <2>1. r.start - 1 \in Int /\ r.start - 1 <= Len(text) /\ 1 \in Nat /\ 1 <= 1
        BY DEF Takes
    <2> QED
        BY <2>1, Part
<1>3. none \o A = A
    <2> HIDE DEF A
    <2> QED
        BY <1>2
<1> HIDE DEF A
<1>4. ar \in Nat /\ aq \in Nat
    BY LenProperties
<1>5. s = Replacement(text, Replacement(text, Cut(1, none, 0, 0), r), q)
    <2> HIDE DEF rs
    <2>1. PICK f : Replaces(text, rs, Len(rs), f) /\ ReplaceLines(text, rs) = f[Len(rs)]
        <3>1. Len(rs) \in Nat
            BY ONLY <1>1
        <3> QED
            BY ONLY <3>1, ReplaceLoop
    <2>2. /\ f[0] = Cut(1, none, 0, 0)
          /\ \A i \in 1..Len(rs) : f[i] = Replacement(text, f[i - 1], rs[i])
        BY <2>1 DEF Replaces
    <2>3. 1 \in 1..Len(rs) /\ 1 - 1 = 0 /\ 2 \in 1..Len(rs) /\ 2 - 1 = 1
        BY <1>1
    <2> HIDE DEF none
    <2>4. f[1] = Replacement(text, Cut(1, none, 0, 0), r) /\ f[2] = Replacement(text, f[1], q)
        BY <1>1, <2>2, <2>3
    <2> QED
        BY <1>1, <2>1, <2>4
<1> HIDE DEF none, s, rs
<1>6. Replacement(text, Cut(1, none, 0, 0), r) = Cut(k, out, ar, dr)
    <2>1. Replacement(text, Cut(1, none, 0, 0), r) =
            Cut(PastOf(text, r), (none \o SubSeq(text, 1, r.start - 1)) \o r.lines,
                0 + Len(r.lines), Dropped(text, r, 0))
        BY Replaced
    <2>2. 0 + ar = ar
        BY <1>4
    <2> QED
        BY <1>3, <2>1, <2>2 DEF A
<1> HIDE DEF out, k, dr, ar
<1>7. s = Cut(PastOf(text, q), all, ar + aq, d)
    <2>1. Takes(text, k, q)
        BY DEF k
    <2>2. Replacement(text, Cut(k, out, ar, dr), q) =
            Cut(PastOf(text, q), (out \o SubSeq(text, k, q.start - 1)) \o q.lines,
                ar + Len(q.lines), Dropped(text, q, dr))
        BY <2>1, Replaced
    <2> QED
        BY <1>5, <1>6, <2>2
<1> HIDE DEF all, d, aq
<1>8. /\ s.failed = FALSE /\ s.out = all /\ s.cursor = PastOf(text, q)
      /\ s.added = ar + aq /\ s.removed = d
    BY <1>7 DEF Cut
<1>9. apply_replacements_in_memory(text, rs) =
        IF s.failed THEN Failed
        ELSE Applied(Terminate(Join(s.out \o Remaining(text, s.cursor - 1)),
                               EndsWithNewline(text)), s)
    BY <1>1 DEF apply_replacements_in_memory, s
<1> QED
    BY <1>8, <1>9 DEF Applied, rs, A, all, out, k

LEMMA TextIsLonger ==
    ASSUME NEW F \in Seq(Strings), F # <<>>, NEW nl
    PROVE  /\ Terminate(Join(F), nl) \in Seq(Strings)
           /\ Len(Terminate(Join(F), nl)) >= Len(F)
<1>1. Join(F) = F /\ Len(F) \in Nat
    BY LenProperties DEF Join
<1>2. Blank \in Strings
    BY DEF Strings
<1>3. Append(F, Blank) \in Seq(Strings) /\ Len(Append(F, Blank)) = Len(F) + 1
    BY <1>2, AppendProperties
<1>4. Terminate(F, nl) = Append(F, Blank) \/ Terminate(F, nl) = F
    BY DEF Terminate
<1> QED
    BY <1>1, <1>3, <1>4

\* What a text was made of can be read from it.
LEMMA TextOfPlain ==
    ASSUME NEW F \in Seq(Strings), Plain(F), NEW nl \in BOOLEAN
    PROVE  /\ TextOf(F, nl) \in Seq(Strings)
           /\ EndsWithNewline(TextOf(F, nl)) = nl
           /\ \A n \in Nat : Remaining(TextOf(F, nl), n) = SubSeq(F, n + 1, Len(F))
           /\ \A m \in Nat, n \in Int : 1 <= m /\ n <= Len(F) =>
                SubSeq(TextOf(F, nl), m, n) = SubSeq(F, m, n)
<1>1. F # <<>> /\ Last(F) # Blank /\ Len(F) \in Nat /\ Join(F) = F
    BY LenProperties DEF Plain, Join
<1>2. CASE ~nl
    <2>1. TextOf(F, nl) = F
        BY <1>1, <1>2 DEF TextOf
    <2>2. ~EndsWithNewline(F)
        BY <1>1 DEF EndsWithNewline
    <2>3. \A n \in Nat : Remaining(F, n) = SubSeq(F, n + 1, Len(F))
        BY <2>2 DEF Remaining
    <2>4. EndsWithNewline(F) = nl
        BY <1>2, <2>2 DEF EndsWithNewline
    <2> QED
        BY <2>1, <2>3, <2>4
<1>3. CASE nl
    <2> DEFINE e == <<Blank>>
               T == F \o e
    <2>1. Blank \in Strings
        BY DEF Strings
    <2>2. e \in Seq(Strings) /\ Len(e) = 1 /\ e[1] = Blank
        BY <2>1
    <2>3. TextOf(F, nl) = T
        <3>1. TextOf(F, nl) = Append(F, Blank)
            BY <1>3 DEF TextOf
        <3>2. Append(F, Blank) = F \o <<Blank>>
            BY <2>1, AppendIsConcat
        <3> QED
            BY <3>1, <3>2
    <2> HIDE DEF e
    <2>4. /\ T \in Seq(Strings) /\ Len(T) = Len(F) + Len(e)
          /\ \A i \in 1..Len(F) + Len(e) : T[i] = IF i <= Len(F) THEN F[i] ELSE e[i - Len(F)]
        BY <2>2, ConcatProperties
    <2>5. Len(F) > 0
        BY <1>1, EmptySeq
    <2>6. Len(T) = Len(F) + 1 /\ T[Len(F) + 1] = Blank
        <3>1. Len(F) + 1 \in 1..Len(F) + Len(e) /\ ~(Len(F) + 1 <= Len(F))
              /\ (Len(F) + 1) - Len(F) = 1
              /\ Len(F) + Len(e) = Len(F) + 1
            BY <1>1, <2>2
        <3> QED
            BY <2>2, <2>4, <3>1
    <2>7. \A m \in Nat, n \in Int : 1 <= m /\ n <= Len(F) => SubSeq(T, m, n) = SubSeq(F, m, n)
        BY <2>2, PartOfLeft
    <2> HIDE DEF T
    <2>8. EndsWithNewline(T)
        <3>1. Last(T) = T[Len(T)]
            BY DEF Last
        <3> QED
            BY <1>1, <2>5, <2>6, <3>1 DEF EndsWithNewline
    <2>9. ASSUME NEW n \in Nat
          PROVE  Remaining(T, n) = SubSeq(F, n + 1, Len(F))
        <3>1. Len(T) - 1 = Len(F) /\ n + 1 \in Nat /\ 1 <= n + 1 /\ Len(F) \in Int
              /\ Len(F) <= Len(F)
            BY <1>1, <2>6
        <3>2. Remaining(T, n) = SubSeq(T, n + 1, Len(T) - 1)
            BY <2>8 DEF Remaining
        <3>3. SubSeq(T, n + 1, Len(F)) = SubSeq(F, n + 1, Len(F))
            BY <2>7, <3>1
        <3> QED
            BY <3>1, <3>2, <3>3
    <2>10. EndsWithNewline(T) = nl
        BY <1>3, <2>8 DEF EndsWithNewline
    <2> QED
        BY <2>3, <2>4, <2>7, <2>9, <2>10
<1> QED
    BY <1>2, <1>3

\* The two replacements of a text with L lines.
Apart(text, L, r, q) ==
    /\ text \in Seq(Strings) /\ Len(text) \in Nat /\ L \in Nat /\ L <= Len(text)
    /\ r.start \in Nat /\ r.end_line \in Nat /\ r.target = <<>> /\ r.lines \in Seq(Strings)
    /\ q.start \in Nat /\ q.end_line \in Nat /\ q.target = <<>> /\ q.lines \in Seq(Strings)
    /\ 1 <= r.start /\ r.start < q.start /\ r.end_line < q.start /\ q.start <= L

\* Both can be taken, in either way to apply them.
LEMMA ApartTakes ==
    ASSUME NEW text, NEW L, NEW r, NEW q, Apart(text, L, r, q)
    PROVE  /\ Takes(text, 1, r) /\ Takes(text, 1, q) /\ Takes(text, PastOf(text, r), q)
           /\ PastOf(text, r) = (IF r.end_line >= r.start THEN r.end_line + 1 ELSE r.start)
           /\ PastOf(text, r) \in Nat /\ PastOf(text, r) >= 1 /\ PastOf(text, r) <= q.start
           /\ PastOf(text, q) \in Nat /\ PastOf(text, q) >= q.start
<1> DEFINE n == Len(text)
           rs == r.start
           re == r.end_line
           qs == q.start
           qe == q.end_line
           er == EndOf(text, r)
           eq == EndOf(text, q)
           pr == PastOf(text, r)
           pq == PastOf(text, q)
<1>1. /\ n \in Nat /\ rs \in Nat /\ re \in Nat /\ qs \in Nat /\ qe \in Nat /\ L \in Nat
      /\ L <= n /\ 1 <= rs /\ rs < qs /\ re < qs /\ qs <= L
      /\ r.target = <<>> /\ q.target = <<>>
    BY DEF Apart
<1>2. /\ er = (IF re < n THEN re ELSE n) /\ eq = (IF qe < n THEN qe ELSE n)
      /\ pr = (IF er >= rs THEN er + 1 ELSE rs) /\ pq = (IF eq >= qs THEN eq + 1 ELSE qs)
    BY DEF EndOf, PastOf
<1> HIDE DEF n, rs, re, qs, qe, er, eq, pr, pq
<1>3. /\ er = re /\ pr = (IF re >= rs THEN re + 1 ELSE rs) /\ pr \in Nat /\ pr >= 1 /\ pr <= qs
      /\ pq \in Nat /\ pq >= qs /\ rs <= n + 1 /\ qs <= n + 1 /\ 1 <= qs /\ 1 \in Nat
    BY ONLY <1>1, <1>2
<1>4. Takes(text, 1, r) /\ Takes(text, 1, q) /\ Takes(text, pr, q)
    BY <1>1, <1>3 DEF Takes, n, rs, re, qs, qe
<1> QED
    BY <1>3, <1>4 DEF n, rs, re, qs, qe, pr, pq

\* The text after the lower replacement.
LEMMA LowerReplaced ==
    ASSUME NEW text, NEW L, NEW r, NEW q, Apart(text, L, r, q), NEW last,
           last = IF q.end_line < L THEN q.end_line ELSE L
    PROVE  Spliced(SubSeq(text, 1, L), q.start, SubSeq(SubSeq(text, 1, L), q.start, last), q.lines)
             = (SubSeq(text, 1, q.start - 1) \o q.lines) \o SubSeq(text, PastOf(text, q), L)
<1> DEFINE n == Len(text)
           qs == q.start
           qe == q.end_line
           eq == EndOf(text, q)
           pq == PastOf(text, q)
           ls == SubSeq(text, 1, L)
           old == SubSeq(ls, qs, last)
           k == qs + Len(old)
<1>1. /\ text \in Seq(Strings) /\ n \in Nat /\ qs \in Nat /\ qe \in Nat /\ L \in Nat
      /\ L <= n /\ 1 <= qs /\ qs <= L /\ L \in 0..n
    BY DEF Apart
<1>2. /\ eq = (IF qe < n THEN qe ELSE n) /\ pq = (IF eq >= qs THEN eq + 1 ELSE qs)
      /\ last = (IF qe < L THEN qe ELSE L)
    BY DEF EndOf, PastOf
<1>3. ls \in Seq(Strings) /\ Len(ls) = L
    BY <1>1, PrefixOf
<1> HIDE DEF n, qs, qe, eq, pq, ls
<1>4. last \in Int /\ last <= L /\ qs - 1 \in Int /\ qs - 1 <= L /\ 1 \in Nat /\ 1 <= 1
      /\ L <= L /\ L \in Int /\ pq \in Nat /\ 1 <= pq
    BY ONLY <1>1, <1>2
<1>5. Len(old) = IF qs <= last THEN last - qs + 1 ELSE 0
    BY <1>1, <1>3, <1>4, Part
<1> HIDE DEF old
<1>6. (k = pq \/ (k > L /\ pq > L)) /\ k \in Nat /\ 1 <= k
    BY ONLY <1>1, <1>2, <1>5
<1>7. SubSeq(ls, 1, qs - 1) = SubSeq(text, 1, qs - 1)
    BY <1>1, <1>4, PartOfPrefix DEF ls, n
<1> HIDE DEF k
<1>8. SubSeq(ls, k, L) = SubSeq(text, pq, L)
    <2>1. CASE k = pq
        BY <1>1, <1>4, <2>1, PartOfPrefix DEF ls, n
    <2>2. CASE k > L /\ pq > L
        <3> DEFINE u == SubSeq(ls, k, L)
                   v == SubSeq(text, pq, L)
        <3>1. u \in Seq(Strings) /\ Len(u) = IF k <= L THEN L - k + 1 ELSE 0
            BY <1>3, <1>4, <1>6, Part
        <3>2. v \in Seq(Strings) /\ Len(v) = IF pq <= L THEN L - pq + 1 ELSE 0
            BY <1>1, <1>4, Part DEF n
        <3> HIDE DEF u, v
        <3>3. Len(u) = 0 /\ Len(v) = 0
            BY <1>1, <1>4, <1>6, <2>2, <3>1, <3>2
        <3>4. u = <<>> /\ v = <<>>
            BY <3>1, <3>2, <3>3, EmptySeq
        <3> QED
            BY <3>4 DEF u, v
    <2> QED
        BY <1>6, <2>1, <2>2
<1>9. Spliced(ls, qs, old, q.lines) = (SubSeq(ls, 1, qs - 1) \o q.lines) \o SubSeq(ls, k, L)
    BY <1>3 DEF Spliced, k
<1> QED
    BY <1>7, <1>8, <1>9 DEF ls, qs, pq, old

LEMMA ReplacementsAre ==
    ASSUME NEW r \in Replacements
    PROVE  /\ r.start \in Nat /\ 1 <= r.start /\ r.end_line \in Nat /\ r.target = <<>>
           /\ r.lines \in Seq(Strings)
<1>1. /\ r.start \in 1..MaxLines /\ r.end_line \in 0..MaxLines /\ r.target \in {<<>>}
      /\ r.lines \in BoundedSeq(Letters, 1)
    BY DEF Replacements
<1>2. Letters \subseteq Strings /\ 1 \in Nat
    BY DEF Strings
<1>3. r.lines \in Seq(Letters)
    BY <1>1, <1>2, BoundedSeqIs
<1>4. r.lines \in Seq(Strings)
    BY <1>2, <1>3, SeqMonotonic
<1> QED
    BY <1>1, <1>4, BoundsAssumption

\* ReplacementsDoNotShiftIn, for any text.
LEMMA ReplacementsHold ==
    ASSUME NEW text \in Seq(Strings), text # <<>>
    PROVE  ReplacementsDoNotShiftIn(text)
<1> DEFINE lines == LinesOf(text)
           Last1(q) == IF q.end_line < Len(lines) THEN q.end_line ELSE Len(lines)
           Both(r, q) == apply_replacements_in_memory(text, <<r, q>>)
           Low(q) == apply_replacements_in_memory(text, <<q>>)
           High(r, q) == apply_replacements_in_memory(Low(q).text, <<r>>)
           New(q) == Spliced(lines, q.start, SubSeq(lines, q.start, Last1(q)), q.lines)
<1> SUFFICES ASSUME NEW r \in Replacements, NEW q \in Replacements,
                    r.start < q.start, r.end_line < q.start, q.start <= Len(lines)
             PROVE  /\ Both(r, q) = apply_replacements_in_memory(text, <<q, r>>)
                    /\ Both(r, q).ok /\ Low(q).ok /\ High(r, q).ok
                    /\ Plain(New(q)) => Both(r, q).text = High(r, q).text
    BY DEF ReplacementsDoNotShiftIn
<1> DEFINE E == EndsWithNewline(text)
           c1 == PastOf(text, r)
           c2 == PastOf(text, q)
           A == SubSeq(text, 1, r.start - 1)
           B == SubSeq(text, 1, q.start - 1)
           M == SubSeq(text, c1, q.start - 1)
           T == Remaining(text, c2 - 1)
           F == (B \o q.lines) \o T
           out == (((A \o r.lines) \o M) \o q.lines) \o T
           low == Low(q).text
<1>1. PICK L \in 0..Len(text) :
             /\ lines = SubSeq(text, 1, L) /\ lines \in Seq(Strings) /\ Len(lines) = L
             /\ \A n \in Nat : Remaining(text, n) = SubSeq(text, n + 1, L)
    BY TextLines
<1>2. Len(text) \in Nat
    BY LenProperties
<1>3. Apart(text, L, r, q)
    <2>1. /\ r.start \in Nat /\ r.end_line \in Nat /\ r.target = <<>> /\ r.lines \in Seq(Strings)
          /\ 1 <= r.start
        BY ReplacementsAre
    <2>2. /\ q.start \in Nat /\ q.end_line \in Nat /\ q.target = <<>> /\ q.lines \in Seq(Strings)
        BY ReplacementsAre
    <2>3. r.start < q.start /\ r.end_line < q.start /\ q.start <= Len(lines)
          /\ text \in Seq(Strings)
        OBVIOUS
    <2> HIDE DEF lines
    <2>4. L \in Nat /\ L <= Len(text) /\ q.start <= L
        <3> DEFINE n == Len(text)
                   qs == q.start
        <3>1. L \in 0..n /\ n \in Nat
            BY <1>2
        <3>2. qs <= L
            BY <1>1, <2>3
        <3> HIDE DEF n, qs
        <3>3. L \in Nat /\ L <= n
            BY ONLY <3>1
        <3> QED
            BY <3>2, <3>3 DEF n, qs
    <2> QED
        BY ONLY <1>2, <2>1, <2>2, <2>3, <2>4 DEF Apart
<1>4. /\ Takes(text, 1, r) /\ Takes(text, 1, q) /\ Takes(text, c1, q)
      /\ c1 = (IF r.end_line >= r.start THEN r.end_line + 1 ELSE r.start)
      /\ c1 \in Nat /\ c1 >= 1 /\ c1 <= q.start /\ c2 \in Nat /\ c2 >= q.start
    BY <1>3, ApartTakes
<1>5. /\ r.start \in Nat /\ 1 <= r.start /\ r.lines \in Seq(Strings) /\ r.end_line \in Nat
      /\ q.start \in Nat /\ q.lines \in Seq(Strings) /\ r.target = <<>>
    BY ReplacementsAre
<1> HIDE DEF lines, c1, c2
<1>6. T = SubSeq(text, c2, L)
    <2>1. c2 - 1 \in Nat /\ (c2 - 1) + 1 = c2
        BY <1>4, <1>5
    <2> QED
        BY <1>1, <2>1
<1>7. Both(r, q).ok /\ Both(r, q).text = Terminate(Join(out), E)
    <2>1. PICK a, d : Both(r, q) = [ok |-> TRUE, text |-> Terminate(Join(out), E),
                                    added |-> a, removed |-> d]
        BY <1>4, <1>5, ReplacesTwo DEF c1, c2
    <2> QED
        BY <2>1
<1>8. Low(q).ok /\ low = Terminate(Join(F), E)
    <2>1. Low(q) = [ok |-> TRUE, text |-> Terminate(Join(F), E),
                    added |-> Len(q.lines), removed |-> Dropped(text, q, 0)]
        BY <1>4, <1>5, ReplacesOne DEF c2
    <2> QED
        BY <2>1
<1>9. Both(r, q) = apply_replacements_in_memory(text, <<q, r>>)
    <2>1. Sorted(<<r, q>>) = Sorted(<<q, r>>)
        <3>1. r.start \in Int /\ q.start \in Int /\ r.start < q.start
            BY <1>5
        <3> QED
            BY ONLY <3>1, SortedTwo
    <2> QED
        BY <2>1 DEF apply_replacements_in_memory
<1>10. /\ A \in Seq(Strings) /\ B \in Seq(Strings) /\ Len(B) = q.start - 1 /\ M \in Seq(Strings)
       /\ T \in Seq(Strings)
    <2>1. /\ r.start - 1 \in Int /\ r.start - 1 <= Len(text) /\ 1 \in Nat /\ 1 <= 1
          /\ q.start - 1 \in 0..Len(text) /\ q.start - 1 \in Int /\ q.start - 1 <= Len(text)
          /\ 1 <= c2 /\ L \in Int /\ L <= Len(text) /\ 1 <= c1
        <3> DEFINE rs == r.start
                   qs == q.start
                   n == Len(text)
        <3>1. /\ rs \in Nat /\ qs \in Nat /\ rs < qs /\ qs <= L /\ L \in 0..n /\ n \in Nat
              /\ c1 \in Nat /\ c1 >= 1 /\ c2 \in Nat /\ c2 >= qs
            BY <1>1, <1>2, <1>4, <1>5
        <3> HIDE DEF rs, qs, n
        <3>2. /\ rs - 1 \in Int /\ rs - 1 <= n /\ qs - 1 \in 0..n /\ qs - 1 \in Int /\ qs - 1 <= n
              /\ 1 <= c2 /\ L \in Int /\ L <= n /\ 1 <= c1
            BY ONLY <3>1
        <3> QED
            BY <3>2 DEF rs, qs, n
    <2>2. A \in Seq(Strings)
        BY <2>1, Part
    <2>3. B \in Seq(Strings) /\ Len(B) = q.start - 1
        BY <2>1, PrefixOf
    <2>4. M \in Seq(Strings)
        BY <1>4, <2>1, Part
    <2>5. SubSeq(text, c2, L) \in Seq(Strings)
        BY <1>4, <2>1, Part
    <2> QED
        BY <1>6, <2>2, <2>3, <2>4, <2>5
<1> HIDE DEF A, B, M, T
<1>11. F \in Seq(Strings) /\ Len(F) \in Nat /\ Len(F) >= q.start - 1 /\ F # <<>>
    <2> DEFINE BQ == B \o q.lines
    <2>1. BQ \in Seq(Strings) /\ Len(BQ) = Len(B) + Len(q.lines)
        BY <1>5, <1>10, ConcatProperties
    <2> HIDE DEF BQ
    <2>2. BQ \o T \in Seq(Strings) /\ Len(BQ \o T) = Len(BQ) + Len(T)
        BY ONLY <1>10, <2>1, ConcatProperties
    <2>3. F = BQ \o T
        BY DEF BQ
    <2> HIDE DEF F
    <2>4. F \in Seq(Strings) /\ Len(F) = (q.start - 1) + Len(q.lines) + Len(T)
        BY <1>10, <2>1, <2>2, <2>3
    <2>5. Len(q.lines) \in Nat /\ Len(T) \in Nat /\ Len(F) \in Nat
        BY <1>5, <1>10, <2>4, LenProperties
    <2> DEFINE rs == r.start
               qs == q.start
               m == Len(F)
               x == Len(q.lines)
               y == Len(T)
    <2>6. /\ rs \in Nat /\ 1 <= rs /\ qs \in Nat /\ rs < qs /\ m \in Nat /\ x \in Nat /\ y \in Nat
          /\ m = (qs - 1) + x + y
        BY <1>5, <2>4, <2>5
    <2> HIDE DEF rs, qs, m, x, y
    <2>7. m >= qs - 1 /\ m # 0
        BY ONLY <2>6
    <2>8. F # <<>>
        BY <2>7, LenProperties DEF m
    <2> QED
        BY <2>4, <2>5, <2>7, <2>8 DEF m, qs
<1> HIDE DEF F, low
<1>12. low \in Seq(Strings) /\ Len(low) >= Len(F) /\ Len(low) \in Nat
    BY <1>8, <1>11, TextIsLonger, LenProperties
<1>13. Takes(low, 1, r) /\ PastOf(low, r) = c1
    <2> DEFINE rs == r.start
               re == r.end_line
               qs == q.start
               n == Len(low)
               m == Len(F)
               e == EndOf(low, r)
    <2>1. /\ rs \in Nat /\ 1 <= rs /\ re \in Nat /\ qs \in Nat /\ n \in Nat /\ m \in Nat
          /\ rs < qs /\ re < qs /\ m >= qs - 1 /\ n >= m
        BY <1>5, <1>11, <1>12
    <2>2. e = IF re < n THEN re ELSE n
        BY DEF EndOf
    <2> HIDE DEF rs, re, qs, n, m, e
    <2>3. e = re /\ 1 <= rs /\ rs <= n + 1 /\ 1 \in Nat
        BY ONLY <2>1, <2>2
    <2>4. Takes(low, 1, r)
        BY <1>5, <1>12, <2>3 DEF Takes, rs, n
    <2>5. PastOf(low, r) = c1
        BY <1>4, <2>3 DEF PastOf, e, re, rs
    <2> QED
        BY <2>4, <2>5
<1> DEFINE over == (SubSeq(low, 1, r.start - 1) \o r.lines) \o Remaining(low, c1 - 1)
<1>14. High(r, q).ok /\ High(r, q).text = Terminate(Join(over), EndsWithNewline(low))
    <2>1. High(r, q) = [ok |-> TRUE, text |-> Terminate(Join(over), EndsWithNewline(low)),
                        added |-> Len(r.lines), removed |-> Dropped(low, r, 0)]
        <3>1. apply_replacements_in_memory(low, <<r>>) =
                [ok |-> TRUE,
                 text |-> Terminate(Join((SubSeq(low, 1, r.start - 1) \o r.lines)
                                        \o Remaining(low, PastOf(low, r) - 1)),
                                 EndsWithNewline(low)),
                 added |-> Len(r.lines), removed |-> Dropped(low, r, 0)]
            BY <1>5, <1>12, <1>13, ReplacesOne
        <3> QED
            BY <1>13, <3>1 DEF low
    <2> QED
        BY <2>1
<1>15. ASSUME Plain(New(q))
       PROVE  Both(r, q).text = High(r, q).text
    <2>1. New(q) = F
        BY <1>1, <1>3, <1>6, LowerReplaced DEF F, B, c2
    <2>2. Plain(F) /\ E \in BOOLEAN
        BY <1>15, <2>1 DEF EndsWithNewline
    <2> HIDE DEF E
    <2>3. low = TextOf(F, E)
        BY <1>8, <2>2, PlainText
    <2>4. /\ EndsWithNewline(low) = E
          /\ \A n \in Nat : Remaining(low, n) = SubSeq(F, n + 1, Len(F))
          /\ \A m \in Nat, n \in Int : 1 <= m /\ n <= Len(F) => SubSeq(low, m, n) = SubSeq(F, m, n)
        BY <1>11, <2>2, <2>3, TextOfPlain
    <2> DEFINE QT == q.lines \o T
               R == SubSeq(F, c1, Len(F))
    <2>5. QT \in Seq(Strings) /\ F = B \o QT /\ Len(F) = Len(B) + Len(QT)
        <3> DEFINE BQ == B \o q.lines
        <3>1. QT \in Seq(Strings) /\ QT = q.lines \o T /\ BQ = B \o q.lines
            BY <1>5, <1>10, ConcatProperties
        <3>2. F = BQ \o T
            BY DEF F
        <3> HIDE DEF BQ, QT
        <3>3. Glued(Strings, B, q.lines, T, BQ, QT)
            BY <1>5, <1>10, <3>1 DEF Glued
        <3>4. BQ \o T = B \o QT
            BY ONLY <3>3, Associates
        <3>5. Len(B \o QT) = Len(B) + Len(QT)
            BY <1>10, <3>1, ConcatProperties
        <3> QED
            BY <3>1, <3>2, <3>4, <3>5
    <2> HIDE DEF QT
    <2>6. /\ r.start - 1 \in Int /\ r.start - 1 <= Len(B) /\ r.start - 1 <= Len(F)
          /\ r.start - 1 <= q.start - 1 /\ 1 \in Nat /\ 1 <= 1
          /\ q.start - 1 \in Int /\ q.start - 1 \in 0..Len(text)
          /\ c1 - 1 \in Nat /\ c1 - 1 \in 0..Len(B) /\ (c1 - 1) + 1 = c1
        <3> DEFINE rs == r.start
                   qs == q.start
                   n == Len(text)
                   m == Len(F)
                   l == Len(B)
        <3>1. /\ rs \in Nat /\ 1 <= rs /\ qs \in Nat /\ rs < qs /\ qs <= L /\ L \in 0..n
                 /\ n \in Nat
              /\ m \in Nat /\ m >= qs - 1 /\ l = qs - 1 /\ c1 \in Nat /\ c1 >= 1 /\ c1 <= qs
            BY <1>1, <1>2, <1>4, <1>5, <1>10, <1>11
        <3> HIDE DEF rs, qs, n, m, l
        <3>2. /\ rs - 1 \in Int /\ rs - 1 <= l /\ rs - 1 <= m /\ rs - 1 <= qs - 1
              /\ qs - 1 \in Int /\ qs - 1 \in 0..n
              /\ c1 - 1 \in Nat /\ c1 - 1 \in 0..l /\ (c1 - 1) + 1 = c1
            BY ONLY <3>1
        <3> QED
            BY <3>2 DEF rs, qs, n, m, l
    <2>7. SubSeq(low, 1, r.start - 1) = A
        <3>1. SubSeq(low, 1, r.start - 1) = SubSeq(F, 1, r.start - 1)
            BY <2>4, <2>6
        <3>2. SubSeq(B \o QT, 1, r.start - 1) = SubSeq(B, 1, r.start - 1)
            BY <1>10, <2>5, <2>6, PartOfLeft
        <3>3. SubSeq(B, 1, r.start - 1) = A
            BY <2>6, PartOfPrefix DEF A, B
        <3> QED
            BY <2>5, <3>1, <3>2, <3>3
    <2>8. Remaining(low, c1 - 1) = M \o QT
        <3>1. Remaining(low, c1 - 1) = SubSeq(F, c1, Len(F))
            BY <2>4, <2>6
        <3>2. SubSeq(B \o QT, (c1 - 1) + 1, Len(B) + Len(QT))
                = SubSeq(B, (c1 - 1) + 1, Len(B)) \o QT
            BY <1>10, <2>5, <2>6, DropFromLeft
        <3>3. SubSeq(B, c1, q.start - 1) = M
            <4> DEFINE b == q.start - 1
            <4>1. c1 \in Nat /\ 1 <= c1 /\ b \in Int /\ b \in 0..Len(text) /\ b <= b
                BY <1>4, <2>6
            <4> HIDE DEF b
            <4>2. SubSeq(SubSeq(text, 1, b), c1, b) = SubSeq(text, c1, b)
                BY <4>1, PartOfPrefix
            <4> QED
                BY <4>2 DEF M, B, b
        <3> QED
            BY <1>10, <2>5, <2>6, <3>1, <3>2, <3>3
    <2>9. over = out
        <3> DEFINE a == A \o r.lines
                   v == a \o M
                   w == v \o q.lines
                   x == M \o QT
        <3>1. a \in Seq(Strings)
            BY <1>5, <1>10, ConcatProperties
        <3> HIDE DEF a
        <3>2. v = a \o M /\ w = v \o q.lines /\ x = M \o QT /\ QT = q.lines \o T
            BY DEF QT
        <3>3. v \in Seq(Strings)
            BY <1>10, <3>1, ConcatProperties
        <3> HIDE DEF v, w, x
        <3>4. Glued(Strings, v, q.lines, T, w, QT) /\ Glued(Strings, a, M, QT, v, x)
            BY <1>5, <1>10, <2>5, <3>1, <3>2, <3>3 DEF Glued
        <3>5. w \o T = v \o QT
            BY ONLY <3>4, Associates
        <3>6. v \o QT = a \o x
            BY ONLY <3>4, Associates
        <3> QED
            BY <2>7, <2>8, <3>5, <3>6 DEF a, v, w, x
    <2> QED
        BY <1>7, <1>14, <2>4, <2>9
<1> QED
    BY <1>7, <1>8, <1>9, <1>14, <1>15

\* The texts of the input are texts.
LEMMA SmallTextsAre ==
    ASSUME NEW text \in SmallTexts
    PROVE  text \in Seq(Strings) /\ text # <<>>
<1>1. Blank \in Strings /\ Letters \cup {Blank} \subseteq Strings
    BY DEF Strings
<1>2. CASE text = Empty
    BY <1>1, <1>2 DEF Empty
<1>3. CASE text # Empty
    <2> DEFINE S == Letters \cup {Blank}
    <2>1. PICK ls \in BoundedSeq(S, MaxLines) \ {<<>>} : text = ls \/ text = Terminate(ls, TRUE)
        BY <1>3 DEF SmallTexts
    <2> HIDE DEF S
    <2>2. ls \in Seq(S) /\ ls # <<>>
        BY <2>1, BoundsAssumption, BoundedSeqIs
    <2>3. ls \in Seq(Strings)
        BY <1>1, <2>2, SeqMonotonic DEF S
    <2>4. Len(ls) \in Nat /\ Len(ls) > 0
        BY <2>2, <2>3, LenProperties, EmptySeq
    <2>5. Join(ls) = ls
        BY <2>2 DEF Join
    <2>6. Terminate(ls, TRUE) \in Seq(Strings) /\ Len(Terminate(ls, TRUE)) >= Len(ls)
        BY <2>2, <2>3, <2>5, TextIsLonger
    <2>7. text \in Seq(Strings) /\ Len(text) >= Len(ls)
        <3> DEFINE t == Terminate(ls, TRUE)
        <3>1. t \in Seq(Strings) /\ Len(t) >= Len(ls) /\ (text = ls \/ text = t)
            BY <2>1, <2>6
        <3> HIDE DEF t
        <3>2. CASE text = ls
            BY ONLY <2>3, <2>4, <3>2
        <3>3. CASE text = t
            BY ONLY <3>1, <3>3
        <3> QED
            BY <3>1, <3>2, <3>3
    <2> QED
        BY <2>4, <2>7
<1> QED
    BY <1>2, <1>3

-----------------------------------------------------------------------------
(* One change, as a hunk and as a replacement. *)

\* Tagged lines are lines of a diff.
LEMMA TaggedIs ==
    ASSUME NEW ls \in Seq(Strings), NEW tag \in {" ", "-", "+"}
    PROVE  /\ Tagged(ls, tag) \in Seq(DiffLines) /\ Len(Tagged(ls, tag)) = Len(ls)
           /\ \A k \in 1..Len(ls) : Tagged(ls, tag)[k] = [tag |-> tag, text |-> ls[k]]
<1>1. Len(ls) \in Nat /\ \A k \in 1..Len(ls) : ls[k] \in Strings
    BY ElementOfSeq, LenProperties
<1>2. \A k \in 1..Len(ls) : [tag |-> tag, text |-> ls[k]] \in DiffLines
    BY <1>1 DEF DiffLines
<1> DEFINE t == Tagged(ls, tag)
           n == Len(ls)
<1>3. /\ n \in Nat /\ t \in [1..n -> DiffLines]
      /\ \A k \in 1..Len(ls) : t[k] = [tag |-> tag, text |-> ls[k]]
    <2>1. t = [k \in 1..n |-> [tag |-> tag, text |-> ls[k]]]
        BY DEF Tagged
    <2> HIDE DEF t
    <2> QED
        BY <1>1, <1>2, <2>1
<1> HIDE DEF t
<1>4. n = Len(ls)
    OBVIOUS
<1> HIDE DEF n
<1>5. t \in Seq(DiffLines) /\ Len(t) = n
    BY ONLY <1>3, SeqOfFunction
<1> QED
    BY <1>3, <1>4, <1>5 DEF t

\* The lines of the hunk from k0 + 1 on are ls, all of them with this tag.
Run(h, k0, ls, tag) ==
    /\ ls \in Seq(Strings) /\ k0 \in Nat /\ k0 + Len(ls) <= Len(h.lines)
    /\ Len(h.lines) \in Nat
    /\ \A k \in 1..Len(ls) : h.lines[k0 + k] = [tag |-> tag, text |-> ls[k]]

\* f has kept these lines when it comes to them.
KeepsFrom(h, tags, f, k0, ls, tag, kept) ==
    /\ Keeps(h, tags, Len(h.lines), f) /\ Run(h, k0, ls, tag)
    /\ kept \in Seq(Strings) /\ f[k0] = kept

Kept(tag, tags, ls) == IF tag \in tags THEN ls ELSE <<>>

\* Of a run of lines with one tag, all are kept or none.
LEMMA KeptRun ==
    ASSUME NEW h, NEW tags, NEW f, NEW k0, NEW ls, NEW tag, NEW kept,
           KeepsFrom(h, tags, f, k0, ls, tag, kept)
    PROVE  f[k0 + Len(ls)] = kept \o Kept(tag, tags, ls)
<1> DEFINE N == Len(h.lines)
           Want(m) == kept \o (IF tag \in tags THEN SubSeq(ls, 1, m) ELSE <<>>)
           T == {m \in Nat : m <= Len(ls) => f[k0 + m] = Want(m)}
<1>0. Keeps(h, tags, Len(h.lines), f) /\ kept \in Seq(Strings) /\ f[k0] = kept
    BY DEF KeepsFrom
<1>1. /\ ls \in Seq(Strings) /\ k0 \in Nat /\ k0 + Len(ls) <= N /\ Len(ls) \in Nat /\ N \in Nat
      /\ \A k \in 1..Len(ls) : h.lines[k0 + k] = [tag |-> tag, text |-> ls[k]]
    BY LenProperties DEF KeepsFrom, Run
<1>2. 0 \in T
    <2>1. SubSeq(ls, 1, 0) = <<>>
        BY <1>1
    <2>2. k0 + 0 = k0 /\ kept \o <<>> = kept
        BY <1>0, <1>1
    <2> QED
        BY <1>0, <2>1, <2>2
<1>3. ASSUME NEW m \in Nat, m \in T
      PROVE  m + 1 \in T
    <2> SUFFICES ASSUME m + 1 <= Len(ls)
                 PROVE  f[k0 + (m + 1)] = Want(m + 1)
        OBVIOUS
    <2> DEFINE k == k0 + m
               l == h.lines[k + 1]
    <2>1. /\ k + 1 \in 1..N /\ (k + 1) - 1 = k /\ k0 + (m + 1) = k + 1 /\ m + 1 \in 1..Len(ls)
          /\ m \in 0..Len(ls) /\ f[k] = Want(m)
        BY <1>1, <1>3
    <2>2. l = [tag |-> tag, text |-> ls[m + 1]]
        BY <1>1, <2>1
    <2>3. l.tag = tag /\ l.text = ls[m + 1] /\ ls[m + 1] \in Strings
        BY <1>1, <2>1, <2>2, ElementOfSeq
    <2> HIDE DEF k
    <2>4. f[k + 1] = IF l.tag \in tags THEN Append(f[k], l.text) ELSE f[k]
        BY <1>0, <2>1 DEF Keeps, Keep
    <2> HIDE DEF l
    <2>5. CASE tag \in tags
        <3> DEFINE p == SubSeq(ls, 1, m)
                   q == SubSeq(ls, 1, m + 1)
        <3>1. p \in Seq(Strings)
            BY <1>1, <2>1, PrefixOf
        <3>2. q = Append(p, ls[m + 1])
            BY <1>1, <2>1, PrefixStep
        <3> DEFINE e == ls[m + 1]
        <3>4. e \in Strings
            BY <2>3
        <3> HIDE DEF p, q, e
        <3>3. kept \o Append(p, e) = Append(kept \o p, e)
            BY <1>0, <3>1, <3>4, AppendToConcat
        <3> QED
            BY <2>1, <2>3, <2>4, <2>5, <3>2, <3>3 DEF p, q, e
    <2>6. CASE tag \notin tags
        BY <2>1, <2>3, <2>4, <2>6
    <2> QED
        BY <2>5, <2>6
<1>4. Nat \subseteq T
    <2> HIDE DEF T
    <2> QED
        BY <1>2, <1>3, NatSetInduction
<1>5. SubSeq(ls, 1, Len(ls)) = ls
    BY <1>1
<1>6. f[k0 + Len(ls)] = Want(Len(ls))
    BY <1>1, <1>4
<1> QED
    BY <1>5, <1>6 DEF Kept

\* The lines of a hunk that replaces the lines old by the lines new.
LEMMA AsHunkTexts ==
    ASSUME NEW i, NEW old \in Seq(Strings), NEW new \in Seq(Strings), NEW tags
    PROVE  TextsOf(AsHunk(i, old, new), tags) =
             Kept("-", tags, old) \o Kept("+", tags, new)
<1> DEFINE h == AsHunk(i, old, new)
           to == Tagged(old, "-")
           tn == Tagged(new, "+")
           ls == to \o tn
           none == <<>>
           first == Kept("-", tags, old)
<1>1. /\ to \in Seq(DiffLines) /\ Len(to) = Len(old)
      /\ \A k \in 1..Len(old) : to[k] = [tag |-> "-", text |-> old[k]]
    BY TaggedIs
<1>2. /\ tn \in Seq(DiffLines) /\ Len(tn) = Len(new)
      /\ \A k \in 1..Len(new) : tn[k] = [tag |-> "+", text |-> new[k]]
    BY TaggedIs
<1>3. h.lines = ls
    BY DEF AsHunk
<1>4. Len(old) \in Nat /\ Len(new) \in Nat /\ none \in Seq(Strings) /\ first \in Seq(Strings)
    BY LenProperties DEF Kept
<1> HIDE DEF h, to, tn, first
<1>5. /\ ls \in Seq(DiffLines) /\ Len(ls) = Len(to) + Len(tn)
      /\ \A k \in 1..Len(to) + Len(tn) : ls[k] = IF k <= Len(to) THEN to[k] ELSE tn[k - Len(to)]
    <2>1. to \in Seq(DiffLines) /\ tn \in Seq(DiffLines)
        BY <1>1, <1>2
    <2> QED
        BY ONLY <2>1, ConcatProperties
<1>6. none \o first = first
    BY <1>4
<1> HIDE DEF ls, none
<1>7. Len(h.lines) = Len(old) + Len(new) /\ Len(h.lines) \in Nat
    BY <1>1, <1>2, <1>3, <1>4, <1>5
<1>8. Run(h, 0, old, "-")
    <2>1. ASSUME NEW k \in 1..Len(old)
          PROVE  h.lines[0 + k] = [tag |-> "-", text |-> old[k]]
        <3>1. k \in 1..Len(to) + Len(tn) /\ k <= Len(to) /\ 0 + k = k
            BY <1>1, <1>2, <1>4
        <3> QED
            BY <1>1, <1>3, <1>5, <3>1
    <2>2. 0 \in Nat /\ 0 + Len(old) <= Len(h.lines)
        BY <1>4, <1>7
    <2> QED
        BY <1>7, <2>1, <2>2 DEF Run
<1>9. Run(h, Len(old), new, "+")
    <2>1. ASSUME NEW k \in 1..Len(new)
          PROVE  h.lines[Len(old) + k] = [tag |-> "+", text |-> new[k]]
        <3> DEFINE j == Len(old) + k
        <3>1. j \in 1..Len(to) + Len(tn) /\ ~(j <= Len(to)) /\ j - Len(to) = k
            BY <1>1, <1>2, <1>4
        <3> HIDE DEF j
        <3>2. ls[j] = tn[k]
            BY <1>5, <3>1
        <3> QED
            BY <1>2, <1>3, <3>2 DEF j
    <2>2. Len(old) + Len(new) <= Len(h.lines)
        BY <1>4, <1>7
    <2> QED
        BY <1>4, <1>7, <2>1, <2>2 DEF Run
<1>10. PICK f : Keeps(h, tags, Len(h.lines), f) /\ TextsOf(h, tags) = f[Len(h.lines)]
    BY <1>7, TextsLoop
<1>11. f[0] = none
    BY <1>10 DEF Keeps, Keep, none
<1>12. f[Len(old)] = first
    <2>1. f[0 + Len(old)] = none \o first
        <3>1. KeepsFrom(h, tags, f, 0, old, "-", none)
            BY <1>4, <1>8, <1>10, <1>11 DEF KeepsFrom
        <3> QED
            BY <3>1, KeptRun DEF first
    <2> QED
        BY <1>4, <1>6, <2>1
<1>13. f[Len(old) + Len(new)] = first \o Kept("+", tags, new)
    <2>1. KeepsFrom(h, tags, f, Len(old), new, "+", first)
        BY <1>4, <1>9, <1>10, <1>12 DEF KeepsFrom
    <2> DEFINE k0 == Len(old)
    <2>2. KeepsFrom(h, tags, f, k0, new, "+", first)
        BY <2>1
    <2> HIDE DEF k0
    <2>3. f[k0 + Len(new)] = first \o Kept("+", tags, new)
        BY <2>2, KeptRun
    <2> QED
        BY <2>3 DEF k0
<1> QED
    BY <1>7, <1>10, <1>13 DEF first, h

LEMMA AsHunkIs ==
    ASSUME NEW b \in Nat, NEW old \in Seq(Strings), NEW new \in Seq(Strings), NEW h,
           h = AsHunk(b + 1, old, new)
    PROVE  /\ h \in DiffHunks /\ h.old_start = b + 1 /\ h.lines \in Seq(DiffLines)
           /\ OldLines(h) = old /\ NewLines(h) = new
           /\ Count(h, "+") = Len(new) /\ Count(h, "-") = Len(old)
<1>1. Tagged(old, "-") \in Seq(DiffLines) /\ Tagged(new, "+") \in Seq(DiffLines)
    BY TaggedIs
<1> DEFINE ls == Tagged(old, "-") \o Tagged(new, "+")
<1>2. ls \in Seq(DiffLines)
    BY <1>1, ConcatProperties
<1>3. h = [old_start |-> b + 1, lines |-> ls] /\ b + 1 \in Nat
    BY DEF AsHunk
<1> HIDE DEF ls
<1>4. h \in DiffHunks /\ h.old_start = b + 1 /\ h.lines \in Seq(DiffLines)
    BY <1>2, <1>3 DEF DiffHunks
<1>5. \A tags : TextsOf(h, tags) = Kept("-", tags, old) \o Kept("+", tags, new)
    BY AsHunkTexts
<1> DEFINE none == <<>>
<1>6. old \o none = old /\ none \o new = new
    BY ConcatEmptySeq
<1>7. ASSUME NEW tags, "-" \in tags, "+" \notin tags
      PROVE  TextsOf(h, tags) = old
    <2>1. Kept("-", tags, old) = old /\ Kept("+", tags, new) = none
        BY <1>7 DEF Kept
    <2> HIDE DEF none
    <2> QED
        BY <1>5, <1>6, <2>1
<1>8. ASSUME NEW tags, "-" \notin tags, "+" \in tags
      PROVE  TextsOf(h, tags) = new
    <2>1. Kept("-", tags, old) = none /\ Kept("+", tags, new) = new
        BY <1>8 DEF Kept
    <2> HIDE DEF none
    <2> QED
        BY <1>5, <1>6, <2>1
<1>9. OldLines(h) = old /\ TextsOf(h, {"-"}) = old
    BY <1>7 DEF OldLines
<1>10. NewLines(h) = new /\ TextsOf(h, {"+"}) = new
    BY <1>8 DEF NewLines
<1> QED
    BY <1>4, <1>9, <1>10 DEF Count

\* A hunk that stands where it says is applied.
LEMMA OneHunk ==
    ASSUME NEW text \in Seq(Strings), NEW h \in DiffHunks,
           NEW b \in Nat, h.old_start = b + 1,
           b + Len(OldLines(h)) <= Len(text), StandsAt(text, h, b)
    PROVE  ApplyHunks(text, <<h>>) =
             Going(b + Len(OldLines(h)), SubSeq(text, 1, b) \o NewLines(h),
                   Count(h, "+"), Count(h, "-"))
<1> DEFINE hs == <<h>>
           none == <<>>
           A == SubSeq(text, 1, b)
<1>1. Len(hs) = 1 /\ hs[1] = h /\ none \in Seq(Strings) /\ h.lines \in Seq(DiffLines)
    BY DEF DiffHunks
<1>2. /\ Len(OldLines(h)) \in Nat /\ Count(h, "+") \in Nat /\ Count(h, "-") \in Nat
      /\ Len(text) \in Nat
    BY <1>1, HunkTexts, LenProperties DEF OldLines, Count
<1>3. A \in Seq(Strings)
    BY <1>2, Part
<1>4. none \o A = A
    BY <1>3, ConcatEmptySeq
<1> HIDE DEF hs
<1>5. PICK f : AppliesHunks(text, hs, Len(hs), f) /\ ApplyHunks(text, hs) = f[Len(hs)]
    <2>1. Len(hs) \in Nat
        BY ONLY <1>1
    <2> QED
        BY ONLY <2>1, HunksLoop
<1>6. ApplyHunks(text, hs) = ApplyHunk(text, Going(0, none, 0, 0), h)
    <2>1. 1 \in 1..Len(hs) /\ 1 - 1 = 0
        BY <1>1
    <2>2. /\ f[0] = Going(0, none, 0, 0)
          /\ \A i \in 1..Len(hs) : f[i] = ApplyHunk(text, f[i - 1], hs[i])
        BY <1>5 DEF AppliesHunks
    <2> HIDE DEF none
    <2> QED
        BY <1>1, <1>5, <2>1, <2>2
<1> HIDE DEF none, A
<1>7. ApplyHunk(text, Going(0, none, 0, 0), h) =
        Going(b + Len(OldLines(h)), (none \o SubSeq(text, 0 + 1, b)) \o NewLines(h),
              0 + Count(h, "+"), 0 + Count(h, "-"))
    <2>1. 0 \in Nat /\ 0 <= b
        OBVIOUS
    <2> QED
        BY <1>1, <2>1, HunkApplies
<1>8. 0 + Count(h, "+") = Count(h, "+") /\ 0 + Count(h, "-") = Count(h, "-")
      /\ SubSeq(text, 0 + 1, b) = A
    BY <1>2 DEF A
<1> QED
    BY <1>4, <1>6, <1>7, <1>8 DEF A, hs

\* The lines old of a text that ends with a newline, after its first b lines, are
\* to be replaced by the lines new.
Changes(text, b, old, new) ==
    /\ text \in Seq(Strings) /\ EndsWithNewline(text)
    /\ b \in Nat /\ old \in Seq(Strings) /\ new \in Seq(Strings) /\ old # <<>>
    /\ b + Len(old) < Len(text) /\ old = SubSeq(text, b + 1, b + Len(old))

\* What they have to become.
Changed(text, b, old, new) ==
    [ok |-> TRUE,
     text |-> Terminate(Join((SubSeq(text, 1, b) \o new) \o Remaining(text, b + Len(old))), TRUE),
     added |-> Len(new), removed |-> Len(old)]

\* A unified diff makes the change.
LEMMA ChangedByDiff ==
    ASSUME NEW text, NEW b, NEW old, NEW new, Changes(text, b, old, new)
    PROVE  apply_unified_diff_in_memory(text, AsDiff(Rendered(AsHunk(b + 1, old, new))))
             = Changed(text, b, old, new)
<1> DEFINE h == AsHunk(b + 1, old, new)
           hs == <<h>>
           s == ApplyHunks(text, hs)
           D == AsDiff(Rendered(h))
           A == SubSeq(text, 1, b) \o new
           k == b + Len(old)
<1>1. /\ text \in Seq(Strings) /\ EndsWithNewline(text)
      /\ b \in Nat /\ old \in Seq(Strings) /\ new \in Seq(Strings) /\ old # <<>>
      /\ b + Len(old) < Len(text) /\ old = SubSeq(text, b + 1, b + Len(old))
    BY DEF Changes
<1>2. Len(text) \in Nat /\ Len(old) \in Nat /\ Len(new) \in Nat
    BY <1>1, LenProperties
<1>3. /\ h \in DiffHunks /\ h.old_start = b + 1 /\ h.lines \in Seq(DiffLines)
      /\ OldLines(h) = old /\ NewLines(h) = new
      /\ Count(h, "+") = Len(new) /\ Count(h, "-") = Len(old)
    BY <1>1, AsHunkIs
<1> HIDE DEF h
<1>4. s = Going(k, A, Len(new), Len(old))
    <2>1. b + Len(OldLines(h)) <= Len(text)
        BY <1>1, <1>2, <1>3
    <2>2. StandsAt(text, h, b)
        BY <1>1, <1>3 DEF StandsAt
    <2> QED
        BY <1>1, <1>3, <2>1, <2>2, OneHunk
<1>5. parse_unified_diff_hunks(D) = hs
    BY <1>3, ParsedOne
<1>6. ~(hs = <<>> \/ \E i \in 1..Len(hs) : hs[i].old_start = -1)
    <2>1. Len(hs) = 1 /\ hs[1] = h
        OBVIOUS
    <2> QED
        BY <1>1, <1>3, <2>1
<1> HIDE DEF hs, D, k, A
<1>7. /\ s.failed = FALSE /\ s.out = A /\ s.idx = k /\ s.added = Len(new)
      /\ s.removed = Len(old)
    BY <1>4 DEF Going
<1> HIDE DEF s
<1>8. apply_unified_diff_in_memory(text, D) =
        Applied(Terminate(Join(A \o Remaining(text, k)), EndsWithNewline(text) \/ s.added > 0), s)
    BY <1>5, <1>6, <1>7 DEF apply_unified_diff_in_memory, s
<1>9. (EndsWithNewline(text) \/ s.added > 0) = TRUE
    BY <1>1 DEF EndsWithNewline
<1> QED
    BY <1>7, <1>8, <1>9 DEF Applied, Changed, D, h, k, A

\* A line replacement makes the change.
LEMMA ChangedByLines ==
    ASSUME NEW text, NEW b, NEW old, NEW new, Changes(text, b, old, new)
    PROVE  apply_replacements_in_memory(text, <<AsReplacement(b + 1, old, new)>>)
             = Changed(text, b, old, new)
<1> DEFINE q == AsReplacement(b + 1, old, new)
           k == b + Len(old)
<1>1. /\ text \in Seq(Strings) /\ EndsWithNewline(text)
      /\ b \in Nat /\ old \in Seq(Strings) /\ new \in Seq(Strings) /\ old # <<>>
      /\ b + Len(old) < Len(text) /\ old = SubSeq(text, b + 1, b + Len(old))
    BY DEF Changes
<1>2. Len(text) \in Nat /\ Len(old) \in Nat /\ Len(new) \in Nat /\ Len(old) > 0
    BY <1>1, LenProperties, EmptySeq
<1>3. q.start = b + 1 /\ q.end_line = (b + 1) + Len(old) - 1 /\ q.target = old /\ q.lines = new
    BY DEF AsReplacement
<1> HIDE DEF q
<1>4. /\ q.end_line = k /\ k \in Nat /\ q.start \in Nat /\ k < Len(text) /\ k >= q.start
      /\ q.start <= Len(text) + 1 /\ 1 <= q.start /\ q.start - 1 = b /\ (k + 1) - 1 = k
      /\ 0 + k - q.start + 1 = Len(old)
    <2> DEFINE x == q.start
               y == q.end_line
               n == Len(old)
               m == Len(text)
    <2>1. /\ x = b + 1 /\ y = (b + 1) + n - 1 /\ b \in Nat /\ n \in Nat /\ m \in Nat /\ n > 0
          /\ b + n < m /\ k = b + n
        BY <1>1, <1>2, <1>3
    <2> HIDE DEF x, y, n, m, k
    <2>2. /\ y = k /\ k \in Nat /\ x \in Nat /\ k < m /\ k >= x
          /\ x <= m + 1 /\ 1 <= x /\ x - 1 = b /\ (k + 1) - 1 = k
          /\ 0 + k - x + 1 = n
        BY ONLY <2>1
    <2> QED
        BY <2>2 DEF x, y, n, m
<1> HIDE DEF k
<1>5. EndOf(text, q) = k
    BY <1>4 DEF EndOf
<1>6. PastOf(text, q) = k + 1 /\ Dropped(text, q, 0) = Len(old)
    BY <1>4, <1>5 DEF PastOf, Dropped
<1>7. Takes(text, 1, q)
    <2>1. Join(old) = old
        BY <1>1 DEF Join
    <2>2. q.target = Join(SubSeq(text, q.start, EndOf(text, q)))
        BY <1>1, <1>3, <1>5, <2>1 DEF k
    <2>3. 1 \in Nat
        OBVIOUS
    <2> QED
        BY <1>2, <1>4, <2>2, <2>3 DEF Takes
<1> DEFINE Res == [ok |-> TRUE,
              text |-> Terminate(Join((SubSeq(text, 1, q.start - 1) \o q.lines)
                                        \o Remaining(text, PastOf(text, q) - 1)),
                                 EndsWithNewline(text)),
              added |-> Len(q.lines), removed |-> Dropped(text, q, 0)]
<1>8. apply_replacements_in_memory(text, <<q>>) = Res
    BY <1>1, <1>3, <1>7, ReplacesOne
<1>9. EndsWithNewline(text) = TRUE
    BY <1>1 DEF EndsWithNewline
<1>10. Res = Changed(text, b, old, new)
    BY <1>3, <1>4, <1>6, <1>9 DEF Changed, k
<1> QED
    BY <1>8, <1>10 DEF q

-----------------------------------------------------------------------------
(* Search and replace. *)

Spelled(s, l) == s \o LineChars(l)

\* f is how Chars comes about.
Spells(lines, m, f) ==
    /\ f[0] = <<>>
    /\ \A i \in 1..m : f[i] = Spelled(f[i - 1], lines[i])

LEMMA CharsLoop ==
    ASSUME NEW lines, Len(lines) \in Nat
    PROVE  \E f : Spells(lines, Len(lines), f) /\ Chars(lines) = f[Len(lines)]
<1> DEFINE T == {m \in Nat : \E f : Spells(lines, m, f)}
<1>1. 0 \in T
    <2>1. Spells(lines, 0, [i \in 0..0 |-> <<>>])
        BY DEF Spells
    <2> QED
        BY <2>1
<1>2. ASSUME NEW m \in Nat, m \in T
      PROVE  m + 1 \in T
    <2>1. PICK f : Spells(lines, m, f)
        BY <1>2
    <2> DEFINE h1 == [i \in 0..m + 1 |->
                       IF i = m + 1 THEN Spelled(f[m], lines[m + 1]) ELSE f[i]]
    <2>2. h1[0] = <<>>
        BY <2>1 DEF Spells
    <2>3. ASSUME NEW i \in 1..m + 1
          PROVE  h1[i] = Spelled(h1[i - 1], lines[i])
        <3>1. h1[i - 1] = f[i - 1]
            OBVIOUS
        <3>2. CASE i = m + 1
            <4>1. h1[i] = Spelled(f[m], lines[m + 1]) /\ i - 1 = m
                BY <3>2
            <4> QED
                BY <3>1, <3>2, <4>1
        <3>3. CASE i \in 1..m
            <4>1. h1[i] = f[i] /\ f[i] = Spelled(f[i - 1], lines[i])
                BY <2>1, <3>3 DEF Spells
            <4> QED
                BY <3>1, <4>1
        <3> QED
            BY <3>2, <3>3
    <2>4. Spells(lines, m + 1, h1)
        BY <2>2, <2>3 DEF Spells
    <2> QED
        BY <2>4
<1>3. Nat \subseteq T
    <2> HIDE DEF T
    <2> QED
        BY <1>1, <1>2, NatSetInduction
<1>4. PICK f : Spells(lines, Len(lines), f)
    BY <1>3
<1> DEFINE F == [n \in 0..Len(lines) |-> f[n]]
<1>5. F[0] = <<>> /\ F[Len(lines)] = f[Len(lines)]
      /\ \A n \in 1..Len(lines) : F[n] = Spelled(F[n - 1], lines[n])
    BY <1>4 DEF Spells
<1>6. F = [n \in 0..Len(lines) |->
             IF n = 0 THEN <<>> ELSE Spelled(F[n - 1], lines[n])]
    <2>1. F = [n \in 0..Len(lines) |-> F[n]]
        OBVIOUS
    <2> HIDE DEF F
    <2>2. \A n \in 0..Len(lines) : F[n] = IF n = 0 THEN <<>> ELSE Spelled(F[n - 1], lines[n])
        BY <1>5
    <2> QED
        BY <2>1, <2>2, Zenon
<1> HIDE DEF F
<1> DEFINE W == CHOOSE g : g = [n \in 0..Len(lines) |->
             IF n = 0 THEN <<>> ELSE Spelled(g[n - 1], lines[n])]
<1>7. W = [n \in 0..Len(lines) |->
             IF n = 0 THEN <<>> ELSE Spelled(W[n - 1], lines[n])]
    BY <1>6
<1>8. Chars(lines) = W[Len(lines)]
    BY DEF Chars, Spelled
<1> HIDE DEF W
<1>9. \A n \in 0..Len(lines) : W[n] = IF n = 0 THEN <<>> ELSE Spelled(W[n - 1], lines[n])
    BY <1>7
<1>10. Spells(lines, Len(lines), W)
    BY <1>9 DEF Spells
<1> QED
    BY <1>8, <1>10

\* f is how Newlines comes about.
Counts(s, m, f) ==
    /\ f[0] = 0
    /\ \A i \in 1..m : f[i] = f[i - 1] + (IF s[i] = Newline THEN 1 ELSE 0)

LEMMA NewlinesLoop ==
    ASSUME NEW s, Len(s) \in Nat
    PROVE  \E f : Counts(s, Len(s), f) /\ Newlines(s) = f[Len(s)]
<1> DEFINE T == {m \in Nat : \E f : Counts(s, m, f)}
<1>1. 0 \in T
    <2>1. Counts(s, 0, [i \in 0..0 |-> 0])
        BY DEF Counts
    <2> QED
        BY <2>1
<1>2. ASSUME NEW m \in Nat, m \in T
      PROVE  m + 1 \in T
    <2>1. PICK f : Counts(s, m, f)
        BY <1>2
    <2> DEFINE h1 == [i \in 0..m + 1 |->
                       IF i = m + 1 THEN f[m] + (IF s[m + 1] = Newline THEN 1 ELSE 0) ELSE f[i]]
    <2>2. h1[0] = 0
        BY <2>1 DEF Counts
    <2>3. ASSUME NEW i \in 1..m + 1
          PROVE  h1[i] = h1[i - 1] + (IF s[i] = Newline THEN 1 ELSE 0)
        <3>1. h1[i - 1] = f[i - 1]
            OBVIOUS
        <3>2. CASE i = m + 1
            <4>1. h1[i] = f[m] + (IF s[m + 1] = Newline THEN 1 ELSE 0) /\ i - 1 = m
                BY <3>2
            <4> QED
                BY <3>1, <3>2, <4>1
        <3>3. CASE i \in 1..m
            <4>1. h1[i] = f[i] /\ f[i] = f[i - 1] + (IF s[i] = Newline THEN 1 ELSE 0)
                BY <2>1, <3>3 DEF Counts
            <4> QED
                BY <3>1, <4>1
        <3> QED
            BY <3>2, <3>3
    <2>4. Counts(s, m + 1, h1)
        BY <2>2, <2>3 DEF Counts
    <2> QED
        BY <2>4
<1>3. Nat \subseteq T
    <2> HIDE DEF T
    <2> QED
        BY <1>1, <1>2, NatSetInduction
<1>4. PICK f : Counts(s, Len(s), f)
    BY <1>3
<1> DEFINE F == [n \in 0..Len(s) |-> f[n]]
<1>5. F[0] = 0 /\ F[Len(s)] = f[Len(s)]
      /\ \A n \in 1..Len(s) : F[n] = F[n - 1] + (IF s[n] = Newline THEN 1 ELSE 0)
    BY <1>4 DEF Counts
<1>6. F = [n \in 0..Len(s) |->
             IF n = 0 THEN 0 ELSE F[n - 1] + (IF s[n] = Newline THEN 1 ELSE 0)]
    <2>1. F = [n \in 0..Len(s) |-> F[n]]
        OBVIOUS
    <2> HIDE DEF F
    <2>2. \A n \in 0..Len(s) : F[n] =
              IF n = 0 THEN 0 ELSE F[n - 1] + (IF s[n] = Newline THEN 1 ELSE 0)
        BY <1>5
    <2> QED
        BY <2>1, <2>2, Zenon
<1> HIDE DEF F
<1> DEFINE W == CHOOSE g : g = [n \in 0..Len(s) |->
             IF n = 0 THEN 0 ELSE g[n - 1] + (IF s[n] = Newline THEN 1 ELSE 0)]
<1>7. W = [n \in 0..Len(s) |->
             IF n = 0 THEN 0 ELSE W[n - 1] + (IF s[n] = Newline THEN 1 ELSE 0)]
    BY <1>6
<1>8. Newlines(s) = W[Len(s)]
    BY DEF Newlines
<1> HIDE DEF W
<1>9. \A n \in 0..Len(s) : W[n] = IF n = 0 THEN 0 ELSE W[n - 1] + (IF s[n] = Newline THEN 1 ELSE 0)
    BY <1>7
<1>10. Counts(s, Len(s), W)
    BY <1>9 DEF Counts
<1> QED
    BY <1>8, <1>10

Unparsed(chars) == [remaining |-> chars, blocks |-> <<>>, ok |-> TRUE]

\* f is how parse_search_replace_blocks comes about.
TakesBlocks(chars, m, f) ==
    /\ f[0] = Unparsed(chars)
    /\ \A i \in 1..m : f[i] = ParseBlock(f[i - 1])

LEMMA BlocksLoop ==
    ASSUME NEW chars, Len(chars) \in Nat
    PROVE  \E f : /\ TakesBlocks(chars, Len(chars), f)
                  /\ parse_search_replace_blocks(chars) = f[Len(chars)]
<1> DEFINE T == {m \in Nat : \E f : TakesBlocks(chars, m, f)}
<1>1. 0 \in T
    <2>1. TakesBlocks(chars, 0, [i \in 0..0 |-> Unparsed(chars)])
        BY DEF TakesBlocks
    <2> QED
        BY <2>1
<1>2. ASSUME NEW m \in Nat, m \in T
      PROVE  m + 1 \in T
    <2>1. PICK f : TakesBlocks(chars, m, f)
        BY <1>2
    <2> DEFINE h1 == [i \in 0..m + 1 |->
                       IF i = m + 1 THEN ParseBlock(f[m]) ELSE f[i]]
    <2>2. h1[0] = Unparsed(chars)
        BY <2>1 DEF TakesBlocks
    <2>3. ASSUME NEW i \in 1..m + 1
          PROVE  h1[i] = ParseBlock(h1[i - 1])
        <3>1. h1[i - 1] = f[i - 1]
            OBVIOUS
        <3>2. CASE i = m + 1
            <4>1. h1[i] = ParseBlock(f[m]) /\ i - 1 = m
                BY <3>2
            <4> QED
                BY <3>1, <3>2, <4>1
        <3>3. CASE i \in 1..m
            <4>1. h1[i] = f[i] /\ f[i] = ParseBlock(f[i - 1])
                BY <2>1, <3>3 DEF TakesBlocks
            <4> QED
                BY <3>1, <4>1
        <3> QED
            BY <3>2, <3>3
    <2>4. TakesBlocks(chars, m + 1, h1)
        BY <2>2, <2>3 DEF TakesBlocks
    <2> QED
        BY <2>4
<1>3. Nat \subseteq T
    <2> HIDE DEF T
    <2> QED
        BY <1>1, <1>2, NatSetInduction
<1>4. PICK f : TakesBlocks(chars, Len(chars), f)
    BY <1>3
<1> DEFINE F == [n \in 0..Len(chars) |-> f[n]]
<1>5. F[0] = Unparsed(chars) /\ F[Len(chars)] = f[Len(chars)]
      /\ \A n \in 1..Len(chars) : F[n] = ParseBlock(F[n - 1])
    BY <1>4 DEF TakesBlocks
<1>6. F = [n \in 0..Len(chars) |->
             IF n = 0 THEN Unparsed(chars) ELSE ParseBlock(F[n - 1])]
    <2>1. F = [n \in 0..Len(chars) |-> F[n]]
        OBVIOUS
    <2> HIDE DEF F
    <2>2. \A n \in 0..Len(chars) : F[n] = IF n = 0 THEN Unparsed(chars) ELSE ParseBlock(F[n - 1])
        BY <1>5
    <2> QED
        BY <2>1, <2>2, Zenon
<1> HIDE DEF F
<1> DEFINE W == CHOOSE g : g = [n \in 0..Len(chars) |->
             IF n = 0 THEN Unparsed(chars) ELSE ParseBlock(g[n - 1])]
<1>7. W = [n \in 0..Len(chars) |->
             IF n = 0 THEN Unparsed(chars) ELSE ParseBlock(W[n - 1])]
    BY <1>6
<1>8. parse_search_replace_blocks(chars) = W[Len(chars)]
    BY DEF parse_search_replace_blocks, Unparsed
<1> HIDE DEF W
<1>9. \A n \in 0..Len(chars) : W[n] = IF n = 0 THEN Unparsed(chars) ELSE ParseBlock(W[n - 1])
    BY <1>7
<1>10. TakesBlocks(chars, Len(chars), W)
    BY <1>9 DEF TakesBlocks
<1> QED
    BY <1>8, <1>10

Searched(chars, a, d) == [current |-> chars, added |-> a, removed |-> d, failed |-> FALSE]

\* f is how ReplaceBlocks comes about.
ReplacesBlocks(chars, blocks, m, f) ==
    /\ f[0] = Searched(chars, 0, 0)
    /\ \A i \in 1..m : f[i] = ReplaceBlock(f[i - 1], blocks[i])

LEMMA SearchLoop ==
    ASSUME NEW chars, NEW blocks, Len(blocks) \in Nat
    PROVE  \E f : /\ ReplacesBlocks(chars, blocks, Len(blocks), f)
                  /\ ReplaceBlocks(chars, blocks) = f[Len(blocks)]
<1> DEFINE T == {m \in Nat : \E f : ReplacesBlocks(chars, blocks, m, f)}
<1>1. 0 \in T
    <2>1. ReplacesBlocks(chars, blocks, 0, [i \in 0..0 |-> Searched(chars, 0, 0)])
        BY DEF ReplacesBlocks
    <2> QED
        BY <2>1
<1>2. ASSUME NEW m \in Nat, m \in T
      PROVE  m + 1 \in T
    <2>1. PICK f : ReplacesBlocks(chars, blocks, m, f)
        BY <1>2
    <2> DEFINE h1 == [i \in 0..m + 1 |->
                       IF i = m + 1 THEN ReplaceBlock(f[m], blocks[m + 1]) ELSE f[i]]
    <2>2. h1[0] = Searched(chars, 0, 0)
        BY <2>1 DEF ReplacesBlocks
    <2>3. ASSUME NEW i \in 1..m + 1
          PROVE  h1[i] = ReplaceBlock(h1[i - 1], blocks[i])
        <3>1. h1[i - 1] = f[i - 1]
            OBVIOUS
        <3>2. CASE i = m + 1
            <4>1. h1[i] = ReplaceBlock(f[m], blocks[m + 1]) /\ i - 1 = m
                BY <3>2
            <4> QED
                BY <3>1, <3>2, <4>1
        <3>3. CASE i \in 1..m
            <4>1. h1[i] = f[i] /\ f[i] = ReplaceBlock(f[i - 1], blocks[i])
                BY <2>1, <3>3 DEF ReplacesBlocks
            <4> QED
                BY <3>1, <4>1
        <3> QED
            BY <3>2, <3>3
    <2>4. ReplacesBlocks(chars, blocks, m + 1, h1)
        BY <2>2, <2>3 DEF ReplacesBlocks
    <2> QED
        BY <2>4
<1>3. Nat \subseteq T
    <2> HIDE DEF T
    <2> QED
        BY <1>1, <1>2, NatSetInduction
<1>4. PICK f : ReplacesBlocks(chars, blocks, Len(blocks), f)
    BY <1>3
<1> DEFINE F == [n \in 0..Len(blocks) |-> f[n]]
<1>5. F[0] = Searched(chars, 0, 0) /\ F[Len(blocks)] = f[Len(blocks)]
      /\ \A n \in 1..Len(blocks) : F[n] = ReplaceBlock(F[n - 1], blocks[n])
    BY <1>4 DEF ReplacesBlocks
<1>6. F = [n \in 0..Len(blocks) |->
             IF n = 0 THEN Searched(chars, 0, 0) ELSE ReplaceBlock(F[n - 1], blocks[n])]
    <2>1. F = [n \in 0..Len(blocks) |-> F[n]]
        OBVIOUS
    <2> HIDE DEF F
    <2>2. \A n \in 0..Len(blocks) : F[n] =
              IF n = 0 THEN Searched(chars, 0, 0) ELSE ReplaceBlock(F[n - 1], blocks[n])
        BY <1>5
    <2> QED
        BY <2>1, <2>2, Zenon
<1> HIDE DEF F
<1> DEFINE W == CHOOSE g : g = [n \in 0..Len(blocks) |->
             IF n = 0 THEN Searched(chars, 0, 0) ELSE ReplaceBlock(g[n - 1], blocks[n])]
<1>7. W = [n \in 0..Len(blocks) |->
             IF n = 0 THEN Searched(chars, 0, 0) ELSE ReplaceBlock(W[n - 1], blocks[n])]
    BY <1>6
<1>8. ReplaceBlocks(chars, blocks) = W[Len(blocks)]
    BY DEF ReplaceBlocks, Searched
<1> HIDE DEF W
<1>9. \A n \in 0..Len(blocks) : W[n] =
          IF n = 0 THEN Searched(chars, 0, 0) ELSE ReplaceBlock(W[n - 1], blocks[n])
    BY <1>7
<1>10. ReplacesBlocks(chars, blocks, Len(blocks), W)
    BY <1>9 DEF ReplacesBlocks
<1> QED
    BY <1>8, <1>10

TextLetters == Letters \cup {Blank}
TextChars == Letters \cup {Newline}

LEMMA CharsOfNone == Chars(<<>>) = <<>>
<1> DEFINE none == <<>>
<1>1. Len(none) = 0 /\ 0 \in Nat
    OBVIOUS
<1> HIDE DEF none
<1>2. PICK f : Spells(none, Len(none), f) /\ Chars(none) = f[Len(none)]
    BY <1>1, CharsLoop
<1> QED
    BY <1>1, <1>2 DEF Spells, none

\* The characters of one line more.
LEMMA CharsOfMore ==
    ASSUME NEW S, NEW ls \in Seq(S), NEW l \in S
    PROVE  Chars(Append(ls, l)) = Chars(ls) \o LineChars(l)
<1> DEFINE n == Len(ls)
           ms == Append(ls, l)
<1>1. ms \in Seq(S) /\ Len(ms) = Len(ls) + 1 /\ Len(ls) \in Nat
    BY AppendProperties, LenProperties
<1>2. ms[Len(ls) + 1] = l
    BY AppendProperties
<1>3. \A i \in 1..Len(ls) : ms[i] = ls[i]
    BY AppendProperties
<1> HIDE DEF ms
<1>4. PICK f : Spells(ls, Len(ls), f) /\ Chars(ls) = f[Len(ls)]
    BY <1>1, CharsLoop
<1>5. PICK g : Spells(ms, Len(ms), g) /\ Chars(ms) = g[Len(ms)]
    <2>1. Len(ms) \in Nat
        BY <1>1
    <2> QED
        BY <2>1, CharsLoop
<1>6. n \in Nat /\ n = Len(ls) /\ Len(ms) = n + 1
    BY <1>1
<1> HIDE DEF n
<1>7. f[0] = <<>> /\ \A i \in 1..n : f[i] = Spelled(f[i - 1], ls[i])
    BY <1>4, <1>6 DEF Spells
<1>8. g[0] = <<>> /\ \A i \in 1..n + 1 : g[i] = Spelled(g[i - 1], ms[i])
    BY <1>5, <1>6 DEF Spells
<1> DEFINE T == {m \in Nat : m <= n => g[m] = f[m]}
<1>9. 0 \in T
    BY <1>7, <1>8
<1>10. ASSUME NEW m \in Nat, m \in T
       PROVE  m + 1 \in T
    <2> SUFFICES ASSUME m + 1 <= n
                 PROVE  g[m + 1] = f[m + 1]
        OBVIOUS
    <2>1. m + 1 \in 1..n /\ m + 1 \in 1..n + 1 /\ (m + 1) - 1 = m /\ g[m] = f[m]
        BY <1>6, <1>10
    <2>2. g[m + 1] = Spelled(g[m], ms[m + 1])
        BY <1>8, <2>1
    <2>3. f[m + 1] = Spelled(f[m], ls[m + 1])
        BY <1>7, <2>1
    <2> QED
        BY <1>3, <1>6, <2>1, <2>2, <2>3
<1>11. Nat \subseteq T
    <2> HIDE DEF T
    <2> QED
        BY <1>9, <1>10, NatSetInduction
<1>12. g[n] = f[n]
    BY <1>6, <1>11
<1>13. g[n + 1] = Spelled(g[n], ms[n + 1])
    <2>1. n + 1 \in 1..n + 1 /\ (n + 1) - 1 = n
        BY <1>6
    <2> QED
        BY <1>8, <2>1
<1> QED
    BY <1>2, <1>4, <1>5, <1>6, <1>12, <1>13 DEF Spelled, ms

LEMMA NewlinesOfNone == Newlines(<<>>) = 0
<1> DEFINE none == <<>>
<1>1. Len(none) = 0 /\ 0 \in Nat
    OBVIOUS
<1> HIDE DEF none
<1>2. PICK f : Counts(none, Len(none), f) /\ Newlines(none) = f[Len(none)]
    BY <1>1, NewlinesLoop
<1> QED
    BY <1>1, <1>2 DEF Counts, none

\* The newlines of one character more.
LEMMA NewlinesOfMore ==
    ASSUME NEW S, NEW ls \in Seq(S), NEW l \in S
    PROVE  Newlines(Append(ls, l)) = Newlines(ls) + (IF l = Newline THEN 1 ELSE 0)
<1> DEFINE n == Len(ls)
           ms == Append(ls, l)
           More(k, c) == k + (IF c = Newline THEN 1 ELSE 0)
<1>1. ms \in Seq(S) /\ Len(ms) = Len(ls) + 1 /\ Len(ls) \in Nat
    BY AppendProperties, LenProperties
<1>2. ms[Len(ls) + 1] = l
    BY AppendProperties
<1>3. \A i \in 1..Len(ls) : ms[i] = ls[i]
    BY AppendProperties
<1> HIDE DEF ms
<1>4. PICK f : Counts(ls, Len(ls), f) /\ Newlines(ls) = f[Len(ls)]
    BY <1>1, NewlinesLoop
<1>5. PICK g : Counts(ms, Len(ms), g) /\ Newlines(ms) = g[Len(ms)]
    <2>1. Len(ms) \in Nat
        BY <1>1
    <2> QED
        BY <2>1, NewlinesLoop
<1>6. n \in Nat /\ n = Len(ls) /\ Len(ms) = n + 1
    BY <1>1
<1> HIDE DEF n
<1>7. f[0] = 0 /\ \A i \in 1..n : f[i] = More(f[i - 1], ls[i])
    BY <1>4, <1>6 DEF Counts
<1>8. g[0] = 0 /\ \A i \in 1..n + 1 : g[i] = More(g[i - 1], ms[i])
    BY <1>5, <1>6 DEF Counts
<1> HIDE DEF More
<1> DEFINE T == {m \in Nat : m <= n => g[m] = f[m]}
<1>9. 0 \in T
    BY <1>7, <1>8
<1>10. ASSUME NEW m \in Nat, m \in T
       PROVE  m + 1 \in T
    <2> SUFFICES ASSUME m + 1 <= n
                 PROVE  g[m + 1] = f[m + 1]
        OBVIOUS
    <2>1. m + 1 \in 1..n /\ m + 1 \in 1..n + 1 /\ (m + 1) - 1 = m /\ g[m] = f[m]
        BY <1>6, <1>10
    <2>2. g[m + 1] = More(g[m], ms[m + 1])
        BY <1>8, <2>1
    <2>3. f[m + 1] = More(f[m], ls[m + 1])
        BY <1>7, <2>1
    <2> QED
        BY <1>3, <1>6, <2>1, <2>2, <2>3
<1>11. Nat \subseteq T
    <2> HIDE DEF T
    <2> QED
        BY <1>9, <1>10, NatSetInduction
<1>12. g[n] = f[n]
    BY <1>6, <1>11
<1>13. g[n + 1] = More(g[n], ms[n + 1])
    <2>1. n + 1 \in 1..n + 1 /\ (n + 1) - 1 = n
        BY <1>6
    <2> QED
        BY <1>8, <2>1
<1> QED
    BY <1>2, <1>4, <1>5, <1>6, <1>12, <1>13 DEF More, ms

\* The characters of a line end with its newline, and have no other.
LEMMA LineAdded ==
    ASSUME NEW C \in Seq(TextChars), Newlines(C) \in Nat, NEW l \in TextLetters
    PROVE  \E D \in Seq(TextChars) :
             C \o LineChars(l) = Append(D, Newline) /\ Newlines(D) = Newlines(C)
<1>1. Newline \in TextChars /\ Letters \subseteq TextChars
    BY DEF TextChars
<1>2. CASE l = Blank
    <2>1. LineChars(l) = <<Newline>>
        BY <1>2 DEF LineChars
    <2>2. Append(C, Newline) = C \o <<Newline>>
        BY <1>1, AppendIsConcat
    <2> QED
        BY <2>1, <2>2
<1>3. CASE l # Blank
    <2> DEFINE one == <<l>>
               D == Append(C, l)
    <2>1. l \in Letters /\ l \in TextChars /\ l # Newline
        BY <1>1, <1>3, LettersAssumption DEF TextLetters, Newline
    <2>2. LineChars(l) = <<l, Newline>>
        BY <1>3 DEF LineChars
    <2>3. <<l, Newline>> = Append(one, Newline)
        BY <1>1, <2>1, TwoOf
    <2>4. one \in Seq(TextChars) /\ D = C \o one
        BY <2>1, AppendIsConcat
    <2>5. D \in Seq(TextChars)
        BY <2>1, AppendProperties
    <2>6. Newlines(D) = Newlines(C)
        <3>1. Newlines(D) = Newlines(C) + (IF l = Newline THEN 1 ELSE 0)
            BY <2>1, NewlinesOfMore
        <3> QED
            BY <2>1, <3>1
    <2> HIDE DEF one, D
    <2>7. C \o Append(one, Newline) = Append(C \o one, Newline)
        BY <1>1, <2>4, AppendToConcat
    <2> QED
        BY <2>2, <2>3, <2>4, <2>5, <2>6, <2>7
<1> QED
    BY <1>2, <1>3

\* The characters of n lines.
Spelling(C, n) ==
    /\ C \in Seq(TextChars) /\ Newlines(C) = n
    /\ n = 0 => C = <<>>
    /\ n > 0 => C # <<>> /\ Last(C) = Newline

\* As many newlines as lines, the last of them at the end.
LEMMA CharsSpell ==
    ASSUME NEW ls \in Seq(TextLetters)
    PROVE  Spelling(Chars(ls), Len(ls))
<1> DEFINE T == {m \in Nat : m <= Len(ls) => Spelling(Chars(SubSeq(ls, 1, m)), m)}
<1>1. Len(ls) \in Nat
    BY LenProperties
<1>2. 0 \in T
    <2> DEFINE none == <<>>
    <2>1. SubSeq(ls, 1, 0) = none /\ Chars(none) = none /\ Newlines(none) = 0
          /\ none \in Seq(TextChars)
        BY CharsOfNone, NewlinesOfNone
    <2>2. Spelling(none, 0)
        BY <2>1 DEF Spelling
    <2> HIDE DEF none
    <2> QED
        BY <2>1, <2>2
<1>3. ASSUME NEW m \in Nat, m \in T
      PROVE  m + 1 \in T
    <2> SUFFICES ASSUME m + 1 <= Len(ls)
                 PROVE  Spelling(Chars(SubSeq(ls, 1, m + 1)), m + 1)
        OBVIOUS
    <2> DEFINE p == SubSeq(ls, 1, m)
               l == ls[m + 1]
               C == Chars(p)
    <2>1. m \in 0..Len(ls) /\ m + 1 \in 1..Len(ls) /\ Spelling(C, m)
        BY <1>1, <1>3
    <2>2. p \in Seq(TextLetters) /\ l \in TextLetters
        BY <2>1, PrefixOf, ElementOfSeq
    <2>3. SubSeq(ls, 1, m + 1) = Append(p, l)
        BY PrefixStep
    <2> HIDE DEF p, l
    <2>4. Chars(Append(p, l)) = C \o LineChars(l)
        BY <2>2, CharsOfMore
    <2>5. C \in Seq(TextChars) /\ Newlines(C) = m
        BY <2>1 DEF Spelling
    <2> HIDE DEF C
    <2>6. PICK D \in Seq(TextChars) :
                C \o LineChars(l) = Append(D, Newline) /\ Newlines(D) = m
        BY <2>2, <2>5, LineAdded
    <2> DEFINE E == Append(D, Newline)
    <2>7. Newline \in TextChars
        BY DEF TextChars
    <2>8. E \in Seq(TextChars) /\ Len(E) = Len(D) + 1 /\ Len(D) \in Nat
        BY <2>7, AppendProperties, LenProperties
    <2>9. E[Len(D) + 1] = Newline
        BY <2>7, AppendProperties
    <2>10. Newlines(E) = m + 1
        <3>1. Newlines(E) = Newlines(D) + (IF Newline = Newline THEN 1 ELSE 0)
            BY <2>7, NewlinesOfMore
        <3> QED
            BY <2>6, <3>1
    <2> HIDE DEF E
    <2>11. Last(E) = Newline
        BY <2>8, <2>9 DEF Last
    <2>12. E # <<>>
        BY <2>8
    <2>13. Spelling(E, m + 1)
        BY <2>8, <2>10, <2>11, <2>12 DEF Spelling
    <2> QED
        BY <2>3, <2>4, <2>6, <2>13 DEF E
<1>4. Nat \subseteq T
    <2> HIDE DEF T
    <2> QED
        BY <1>2, <1>3, NatSetInduction
<1>5. SubSeq(ls, 1, Len(ls)) = ls
    BY <1>1
<1>6. Spelling(Chars(SubSeq(ls, 1, Len(ls))), Len(ls))
    <2> DEFINE n == Len(ls)
    <2>1. n \in Nat /\ n = Len(ls)
        BY <1>1
    <2> HIDE DEF n
    <2>2. Spelling(Chars(SubSeq(ls, 1, n)), n)
        BY <1>4, <2>1
    <2> QED
        BY <2>1, <2>2
<1> QED
    BY <1>5, <1>6

\* lines().count() of the characters of lines is their number.
LEMMA CharsCounted ==
    ASSUME NEW ls \in Seq(TextLetters)
    PROVE  Chars(ls) \in Seq(TextChars) /\ LineCount(Chars(ls)) = Len(ls)
<1>1. Spelling(Chars(ls), Len(ls)) /\ Len(ls) \in Nat
    BY CharsSpell, LenProperties
<1> DEFINE C == Chars(ls)
<1> HIDE DEF C
<1>2. /\ C \in Seq(TextChars) /\ Newlines(C) = Len(ls)
      /\ ~(C # <<>> /\ Last(C) # Newline)
    BY <1>1 DEF Spelling, C
<1>3. LineCount(C) = Len(ls) + 0
    BY <1>2 DEF LineCount
<1> QED
    BY <1>1, <1>2, <1>3 DEF C

\* The characters of lines and of those after them.
LEMMA CharsOfBoth ==
    ASSUME NEW x \in Seq(TextLetters), NEW y \in Seq(TextLetters)
    PROVE  Chars(x \o y) = Chars(x) \o Chars(y)
<1> DEFINE X == Chars(x)
           T == {m \in Nat : m <= Len(y) =>
                   Chars(x \o SubSeq(y, 1, m)) = X \o Chars(SubSeq(y, 1, m))}
<1>1. Len(y) \in Nat /\ X \in Seq(TextChars)
    BY LenProperties, CharsCounted
<1> HIDE DEF X
<1>2. 0 \in T
    <2> DEFINE none == <<>>
    <2>1. SubSeq(y, 1, 0) = none /\ Chars(none) = none /\ x \o none = x /\ X \o none = X
        BY <1>1, CharsOfNone, ConcatEmptySeq
    <2> HIDE DEF none
    <2> QED
        BY <2>1 DEF X
<1>3. ASSUME NEW m \in Nat, m \in T
      PROVE  m + 1 \in T
    <2> SUFFICES ASSUME m + 1 <= Len(y)
                 PROVE  Chars(x \o SubSeq(y, 1, m + 1)) = X \o Chars(SubSeq(y, 1, m + 1))
        OBVIOUS
    <2> DEFINE p == SubSeq(y, 1, m)
               l == y[m + 1]
               C == Chars(p)
               xp == x \o p
               t == LineChars(l)
               XC == X \o C
               Ct == C \o t
    <2>1. m \in 0..Len(y) /\ m + 1 \in 1..Len(y) /\ Chars(xp) = XC
        BY <1>1, <1>3
    <2>2. p \in Seq(TextLetters) /\ l \in TextLetters
        BY <2>1, PrefixOf, ElementOfSeq
    <2>3. SubSeq(y, 1, m + 1) = Append(p, l)
        BY PrefixStep
    <2> HIDE DEF p, l
    <2>4. Chars(Append(p, l)) = Ct
        BY <2>2, CharsOfMore
    <2>5. x \o Append(p, l) = Append(xp, l)
        BY <2>2, AppendToConcat
    <2>6. xp \in Seq(TextLetters)
        BY <2>2, ConcatProperties
    <2> HIDE DEF xp
    <2>7. Chars(Append(xp, l)) = Chars(xp) \o t
        BY <2>2, <2>6, CharsOfMore
    <2>8. C \in Seq(TextChars) /\ t \in Seq(TextChars)
        <3>1. C \in Seq(TextChars)
            BY <2>2, CharsCounted
        <3>2. l \in Letters \/ l = Blank
            BY <2>2 DEF TextLetters
        <3>3. t = <<Newline>> \/ (l \in Letters /\ t = <<l, Newline>>)
            BY <3>2 DEF LineChars
        <3>4. \A z \in TextChars :
                  <<Newline>> \in Seq(TextChars) /\ <<z, Newline>> \in Seq(TextChars)
            BY DEF TextChars
        <3>5. Letters \subseteq TextChars /\ Newline \in TextChars
            BY DEF TextChars
        <3> HIDE DEF t
        <3> QED
            BY <3>1, <3>3, <3>4, <3>5
    <2> HIDE DEF C, t
    <2>9. Glued(TextChars, X, C, t, XC, Ct)
        BY <1>1, <2>8 DEF Glued
    <2>10. XC \o t = X \o Ct
        BY <2>9, Associates
    <2> HIDE DEF XC, Ct
    <2> QED
        BY <2>1, <2>3, <2>4, <2>5, <2>7, <2>10
<1>4. Nat \subseteq T
    <2> HIDE DEF T
    <2> QED
        BY <1>2, <1>3, NatSetInduction
<1>5. SubSeq(y, 1, Len(y)) = y
    BY <1>1
<1>6. Chars(x \o SubSeq(y, 1, Len(y))) = X \o Chars(SubSeq(y, 1, Len(y)))
    <2> DEFINE n == Len(y)
    <2>1. n \in Nat /\ n = Len(y)
        BY <1>1
    <2> HIDE DEF n
    <2>2. Chars(x \o SubSeq(y, 1, n)) = X \o Chars(SubSeq(y, 1, n))
        BY <1>4, <2>1
    <2> QED
        BY <2>1, <2>2
<1> QED
    BY <1>5, <1>6 DEF X

PatchChars == TextChars \cup Markers

\* Min, of numbers.
LEMMA LeastIs ==
    ASSUME NEW I, I \subseteq Nat, NEW n \in I, \A i \in I : n <= i
    PROVE  Min(I) = n
<1> DEFINE m == Min(I)
<1>1. m \in I /\ \A y \in I : m <= y
    BY DEF Min
<1> HIDE DEF m
<1>2. m \in Nat /\ n \in Nat /\ m <= n /\ n <= m
    BY <1>1
<1> QED
    BY ONLY <1>2 DEF m

\* find returns the first place.
LEMMA FoundFirst ==
    ASSUME NEW s, NEW c, Len(s) \in Nat, NEW n \in 1..Len(s), s[n] = c,
           \A i \in 1..n - 1 : s[i] # c
    PROVE  Find(s, c) = n
<1> DEFINE I == {i \in 1..Len(s) : s[i] = c}
<1>1. Find(s, c) = IF I # {} THEN Min(I) ELSE 0
    BY DEF Find, SelectInSeq
<1>2. n \in I /\ \A i \in I : n <= i
    OBVIOUS
<1>3. I \subseteq Nat
    OBVIOUS
<1> HIDE DEF I
<1>4. Min(I) = n
    BY <1>2, <1>3, LeastIs
<1> QED
    BY <1>1, <1>2, <1>4

LEMMA FoundNowhere ==
    ASSUME NEW s, NEW c, \A i \in 1..Len(s) : s[i] # c
    PROVE  Find(s, c) = 0
BY DEF Find, SelectInSeq

\* A marker after the characters of some lines, and what comes after the marker.
MarkedAt(s, a, c, z) ==
    /\ a \in Seq(TextChars) /\ c \in Markers /\ z \in Seq(PatchChars)
    /\ s = a \o Marked(c, z)

\* find finds a marker after lines, for no line contains one.
LEMMA MarkerFound ==
    ASSUME NEW s, NEW a, NEW c, NEW z, MarkedAt(s, a, c, z)
    PROVE  /\ s \in Seq(PatchChars) /\ Len(s) >= 2
           /\ Find(s, c) = Len(a) + 1
           /\ SubSeq(s, 1, (Len(a) + 1) - 1) = a
           /\ After(s, Len(a) + 1) = <<Newline>> \o z
<1> DEFINE two == <<c, Newline>>
           one == <<Newline>>
           M == two \o z
           R == one \o z
           n == Len(a)
           u == SubSeq(s, n + 2, Len(s))
<1>1. /\ a \in Seq(TextChars) /\ c \in Markers /\ z \in Seq(PatchChars) /\ s = a \o M
      /\ Newline \in PatchChars /\ c \in PatchChars
    BY DEF MarkedAt, Marked, PatchChars, TextChars
<1>2. a \in Seq(PatchChars)
    <2>1. TextChars \subseteq PatchChars
        BY DEF PatchChars
    <2> QED
        BY <1>1, <2>1, SeqMonotonic
<1>3. two \in Seq(PatchChars) /\ Len(two) = 2 /\ two[1] = c /\ two[2] = Newline
    BY <1>1
<1>4. one \in Seq(PatchChars) /\ Len(one) = 1 /\ one[1] = Newline
    BY <1>1
<1>5. Len(a) \in Nat /\ Len(z) \in Nat
    BY <1>1, LenProperties
<1> HIDE DEF two, one
<1>6. /\ M \in Seq(PatchChars) /\ Len(M) = Len(two) + Len(z)
      /\ \A i \in 1..Len(two) + Len(z) : M[i] = IF i <= Len(two) THEN two[i] ELSE z[i - Len(two)]
    BY <1>1, <1>3, ConcatProperties
<1>7. /\ R \in Seq(PatchChars) /\ Len(R) = Len(one) + Len(z)
      /\ \A i \in 1..Len(one) + Len(z) : R[i] = IF i <= Len(one) THEN one[i] ELSE z[i - Len(one)]
    BY <1>1, <1>4, ConcatProperties
<1> HIDE DEF M, R
<1>8. /\ s \in Seq(PatchChars) /\ Len(s) = Len(a) + Len(M)
      /\ \A i \in 1..Len(a) + Len(M) : s[i] = IF i <= Len(a) THEN a[i] ELSE M[i - Len(a)]
    <2>1. a \in Seq(PatchChars) /\ M \in Seq(PatchChars) /\ s = a \o M
        BY <1>1, <1>2, <1>6
    <2> QED
        BY ONLY <2>1, ConcatProperties
<1>9. Len(s) = n + 2 + Len(z) /\ n \in Nat /\ n = Len(a)
    BY <1>3, <1>5, <1>6, <1>8
<1> HIDE DEF n
<1>10. \A i \in 1..n : s[i] = a[i]
    BY <1>3, <1>5, <1>6, <1>8, <1>9
<1>11. s[n + 1] = c
    <2>1. n + 1 \in 1..Len(a) + Len(M) /\ ~(n + 1 <= Len(a)) /\ (n + 1) - Len(a) = 1
          /\ 1 \in 1..Len(two) + Len(z) /\ 1 <= Len(two)
        BY <1>3, <1>5, <1>6, <1>9
    <2> QED
        BY <1>3, <1>6, <1>8, <2>1
<1>12. \A i \in 1..1 + Len(z) : s[n + 1 + i] = R[i]
    <2> SUFFICES ASSUME NEW i \in 1..1 + Len(z)
                 PROVE  s[n + 1 + i] = R[i]
        OBVIOUS
    <2>1. n + 1 + i \in 1..Len(a) + Len(M) /\ ~(n + 1 + i <= Len(a)) /\ (n + 1 + i) - Len(a) = i + 1
          /\ i + 1 \in 1..Len(two) + Len(z) /\ i \in 1..Len(one) + Len(z)
        BY <1>3, <1>4, <1>5, <1>6, <1>9
    <2>2. s[n + 1 + i] = M[i + 1]
        BY <1>8, <2>1
    <2>3. CASE i = 1
        <3>1. i + 1 = 2 /\ 2 <= Len(two) /\ i <= Len(one)
            BY <1>3, <1>4, <2>3
        <3> QED
            BY <1>3, <1>4, <1>6, <1>7, <2>1, <2>2, <2>3, <3>1
    <2>4. CASE i # 1
        <3>1. ~(i + 1 <= Len(two)) /\ ~(i <= Len(one)) /\ (i + 1) - Len(two) = i - Len(one)
            BY <1>3, <1>4, <2>4
        <3> QED
            BY <1>6, <1>7, <2>1, <2>2, <3>1
    <2> QED
        BY <2>3, <2>4
<1>13. Find(s, c) = n + 1
    <2>1. Len(s) \in Nat /\ n + 1 \in 1..Len(s) /\ (n + 1) - 1 = n
        BY <1>5, <1>9
    <2>2. \A i \in 1..n : a[i] # c
        <3>1. \A x \in TextChars : x # c
            BY <1>1, LettersAssumption DEF TextChars, Markers, Newline
        <3>2. \A i \in 1..n : a[i] \in TextChars
            BY <1>1, <1>9, ElementOfSeq
        <3> QED
            BY <3>1, <3>2
    <2>3. \A i \in 1..(n + 1) - 1 : s[i] # c
        BY <1>10, <2>1, <2>2
    <2> QED
        BY <1>11, <2>1, <2>3, FoundFirst
<1>14. SubSeq(s, 1, n) = a
    <2> DEFINE p == SubSeq(s, 1, n)
    <2>1. n \in 0..Len(s)
        BY <1>5, <1>9
    <2>2. p \in Seq(PatchChars) /\ Len(p) = n /\ \A i \in 1..n : p[i] = s[i]
        BY <1>8, <2>1, PrefixOf
    <2> HIDE DEF p
    <2>3. p = a
        BY <1>2, <1>9, <1>10, <2>2, SeqEqual
    <2> QED
        BY <2>3 DEF p
<1>15. SubSeq(s, n + 2, Len(s)) = R
    <2> DEFINE k == n + 2
               e == Len(s)
               m == Len(z) + 1
    <2>1. /\ k \in Nat /\ 1 <= k /\ e \in Int /\ e <= Len(s) /\ k <= e /\ e - k + 1 = m
          /\ m = Len(z) + 1 /\ Len(R) = m /\ m \in Nat
          /\ \A i \in 1..m : k + i - 1 = n + 1 + i /\ i \in 1..1 + Len(z)
        BY <1>4, <1>5, <1>7, <1>9
    <2> HIDE DEF k, e, m
    <2> DEFINE v == SubSeq(s, k, e)
    <2>2. /\ v \in Seq(PatchChars) /\ Len(v) = IF k <= e THEN e - k + 1 ELSE 0
          /\ \A i \in 1..e - k + 1 : v[i] = s[k + i - 1]
        BY <1>8, <2>1, Part
    <2> HIDE DEF v
    <2>3. Len(v) = Len(R) /\ \A i \in 1..Len(v) : v[i] = R[i]
        <3>1. Len(v) = m /\ \A i \in 1..m : v[i] = s[k + i - 1]
            BY <2>1, <2>2
        <3>2. \A i \in 1..m : v[i] = R[i]
            BY <1>12, <2>1, <3>1
        <3> QED
            BY <2>1, <3>1, <3>2
    <2>4. v = R
        BY <1>7, <2>2, <2>3, SeqEqual
    <2> QED
        BY <2>4 DEF v, k, e
<1>16. (n + 1) - 1 = n /\ (n + 1) + 1 = n + 2 /\ Len(s) >= 2
    BY <1>5, <1>9
<1>17. After(s, n + 1) = R
    BY <1>15, <1>16 DEF After
<1> QED
    BY <1>8, <1>9, <1>13, <1>14, <1>16, <1>17 DEF R, one

\* strip_prefix takes the newline after a marker.
LEMMA NewlineStripped ==
    ASSUME NEW S, NEW z \in Seq(S), Newline \in S
    PROVE  StripNewline(<<Newline>> \o z) = z
<1> DEFINE one == <<Newline>>
           R == one \o z
           t == Tail(R)
<1>1. one \in Seq(S) /\ Len(one) = 1 /\ one[1] = Newline /\ Len(z) \in Nat
    BY LenProperties
<1> HIDE DEF one
<1>2. /\ R \in Seq(S) /\ Len(R) = Len(one) + Len(z)
      /\ \A i \in 1..Len(one) + Len(z) : R[i] = IF i <= Len(one) THEN one[i] ELSE z[i - Len(one)]
    BY <1>1, ConcatProperties
<1> HIDE DEF R
<1>3. R[1] = Newline /\ R # <<>> /\ Len(R) = Len(z) + 1
    <2>1. 1 \in 1..Len(one) + Len(z) /\ 1 <= Len(one) /\ Len(R) = Len(z) + 1
        BY <1>1, <1>2
    <2> QED
        BY <1>1, <1>2, <2>1
<1>4. \A i \in 1..Len(z) : R[i + 1] = z[i]
    <2> SUFFICES ASSUME NEW i \in 1..Len(z)
                 PROVE  R[i + 1] = z[i]
        OBVIOUS
    <2>1. i + 1 \in 1..Len(one) + Len(z) /\ ~(i + 1 <= Len(one)) /\ (i + 1) - Len(one) = i
        BY <1>1
    <2> QED
        BY <1>2, <2>1
<1>5. /\ Head(R) = R[1] /\ t \in Seq(S) /\ Len(t) = Len(R) - 1
      /\ \A i \in 1..Len(t) : t[i] = R[i + 1]
    BY <1>2, <1>3, HeadTailProperties
<1> HIDE DEF t
<1>6. t = z
    <2>1. Len(t) = Len(z) /\ \A i \in 1..Len(t) : t[i] = z[i]
        BY <1>1, <1>3, <1>4, <1>5
    <2> QED
        BY <1>5, <2>1, SeqEqual
<1>7. StripNewline(R) = t
    BY <1>3, <1>5 DEF StripNewline, t
<1> QED
    BY <1>6, <1>7 DEF R, one

\* A round of the parser that finds the three markers.
Complete(r, sch, rep, i, j, k) ==
    /\ Find(r, "search") = i /\ i # 0 /\ StripNewline(After(r, i)) = sch
    /\ Find(sch, "sep") = j /\ j # 0 /\ StripNewline(After(sch, j)) = rep
    /\ Find(rep, "replace") = k /\ k # 0

\* The parser after these blocks, with r to go.
Parsed(r, bs) == [remaining |-> r, blocks |-> bs, ok |-> TRUE]

GoesOn(p, rest, more) == [p EXCEPT !.remaining = rest, !.blocks = more]

LEMMA ParsedMore ==
    ASSUME NEW r, NEW bs, NEW rest, NEW more
    PROVE  GoesOn(Parsed(r, bs), rest, more) = Parsed(rest, more)
<1> DEFINE p == Parsed(r, bs)
           q == [p EXCEPT !.remaining = rest, !.blocks = more]
<1>1. DOMAIN p = {"remaining", "blocks", "ok"} /\ p.ok = TRUE
    BY DEF Parsed
<1> HIDE DEF p
<1>2. q = [x \in {"remaining", "blocks", "ok"} |->
             IF x = "remaining" THEN rest ELSE IF x = "blocks" THEN more ELSE p[x]]
    BY <1>1
<1>3. [x \in {"remaining", "blocks", "ok"} |->
         IF x = "remaining" THEN rest ELSE IF x = "blocks" THEN more ELSE p[x]] =
      [remaining |-> rest, blocks |-> more, ok |-> p.ok]
    OBVIOUS
<1> QED
    BY <1>1, <1>2, <1>3 DEF p, Parsed, GoesOn

\* A round of the parser takes the block.
LEMMA RoundParsed ==
    ASSUME NEW r, NEW bs, NEW sch, NEW rep, NEW i, NEW j, NEW k,
           Complete(r, sch, rep, i, j, k)
    PROVE  ParseBlock(Parsed(r, bs)) =
             Parsed(After(rep, k), Append(bs, [search |-> SubSeq(sch, 1, j - 1),
                                               replace |-> SubSeq(rep, 1, k - 1)]))
<1> DEFINE p == Parsed(r, bs)
           blk == [search |-> SubSeq(sch, 1, j - 1), replace |-> SubSeq(rep, 1, k - 1)]
           rest == After(rep, k)
           more == Append(bs, blk)
<1>1. p.remaining = r /\ p.blocks = bs /\ p.ok = TRUE
    BY DEF Parsed
<1>2. GoesOn(p, rest, more) = Parsed(rest, more)
    <2> HIDE DEF rest, more
    <2> QED
        BY ParsedMore
<1> HIDE DEF p
<1>3. ParseBlock(p) = GoesOn(p, rest, more)
    BY <1>1 DEF ParseBlock, Complete, GoesOn
<1> QED
    BY <1>2, <1>3 DEF p

\* A rendered block is parsed as the block it is, and as no other.
LEMMA BlockParsed ==
    ASSUME NEW old \in Seq(TextLetters), NEW new \in Seq(TextLetters)
    PROVE  LET p == parse_search_replace_blocks(AsBlock(old, new))
           IN  p.ok = TRUE /\ p.blocks = <<[search |-> Chars(old), replace |-> Chars(new)]>>
<1> DEFINE X == Chars(old)
           Y == Chars(new)
           none == <<>>
           nl == <<Newline>>
           blk == [search |-> X, replace |-> Y]
           c3 == Y \o Marked("replace", none)
           c2 == X \o Marked("sep", c3)
           c1 == Marked("search", c2)
           p0 == Unparsed(c1)
           p1 == Parsed(nl, <<blk>>)
<1>1. X \in Seq(TextChars) /\ Y \in Seq(TextChars) /\ none \in Seq(TextChars)
      /\ none \in Seq(PatchChars) /\ Newline \in PatchChars
    BY CharsCounted DEF PatchChars, TextChars
<1>2. nl \in Seq(PatchChars) /\ nl \o none = nl /\ Len(nl) = 1 /\ nl[1] = Newline
    BY <1>1
<1>3. Len(none) = 0 /\ Append(none, blk) = <<blk>>
    OBVIOUS
<1>4. c1 = AsBlock(old, new)
    BY DEF AsBlock
<1> HIDE DEF X, Y, none, nl
<1>5. MarkedAt(c3, Y, "replace", none)
    BY <1>1 DEF MarkedAt, Markers
<1>6. /\ c3 \in Seq(PatchChars) /\ Find(c3, "replace") = Len(Y) + 1
      /\ SubSeq(c3, 1, (Len(Y) + 1) - 1) = Y /\ After(c3, Len(Y) + 1) = nl
    BY <1>2, <1>5, MarkerFound DEF nl
<1> HIDE DEF c3
<1>7. MarkedAt(c2, X, "sep", c3)
    BY <1>1, <1>6 DEF MarkedAt, Markers
<1>8. /\ c2 \in Seq(PatchChars) /\ Find(c2, "sep") = Len(X) + 1
      /\ SubSeq(c2, 1, (Len(X) + 1) - 1) = X /\ After(c2, Len(X) + 1) = nl \o c3
    BY <1>7, MarkerFound DEF nl
<1> HIDE DEF c2
<1>9. c1 = none \o Marked("search", c2)
    <2>1. Marked("search", c2) \in Seq(PatchChars)
        <3> DEFINE two == <<"search", Newline>>
        <3>1. two \in Seq(PatchChars)
            BY <1>1 DEF PatchChars, Markers
        <3> HIDE DEF two
        <3>2. two \o c2 \in Seq(PatchChars)
            BY <1>8, <3>1, ConcatProperties
        <3> QED
            BY <3>2 DEF Marked, two
    <2> HIDE DEF c1
    <2>2. c1 \in Seq(PatchChars)
        BY <2>1 DEF c1
    <2>3. none \o c1 = c1
        BY <2>2, ConcatEmptySeq DEF none
    <2> QED
        BY <2>3 DEF c1
<1>10. MarkedAt(c1, none, "search", c2)
    BY <1>1, <1>8, <1>9 DEF MarkedAt, Markers
<1> HIDE DEF c1
<1>11. /\ c1 \in Seq(PatchChars) /\ Len(c1) >= 2 /\ Find(c1, "search") = 1
       /\ After(c1, 1) = nl \o c2
    <2>1. /\ c1 \in Seq(PatchChars) /\ Len(c1) >= 2 /\ Find(c1, "search") = Len(none) + 1
          /\ After(c1, Len(none) + 1) = nl \o c2
        BY <1>10, MarkerFound DEF nl
    <2>2. Len(none) + 1 = 1
        BY <1>3
    <2> QED
        BY <2>1, <2>2
<1>12. StripNewline(nl \o c2) = c2 /\ StripNewline(nl \o c3) = c3
    BY <1>1, <1>6, <1>8, NewlineStripped DEF nl
<1>13. Len(X) \in Nat /\ Len(Y) \in Nat
    BY <1>1, LenProperties
<1>14. ParseBlock(p0) = p1
    <2> DEFINE j == Len(X) + 1
               k == Len(Y) + 1
    <2>1. j # 0 /\ k # 0
        BY <1>13
    <2>2. Find(c2, "sep") = j /\ SubSeq(c2, 1, j - 1) = X /\ After(c2, j) = nl \o c3
          /\ Find(c3, "replace") = k /\ SubSeq(c3, 1, k - 1) = Y /\ After(c3, k) = nl
        BY <1>6, <1>8
    <2> HIDE DEF j, k, blk
    <2>3. p0 = Parsed(c1, none)
        BY DEF Unparsed, none, Parsed
    <2>4. Complete(c1, c2, c3, 1, j, k)
        <3>1. StripNewline(After(c1, 1)) = c2 /\ StripNewline(After(c2, j)) = c3
            BY ONLY <1>11, <1>12, <2>2
        <3>2. 1 # 0
            OBVIOUS
        <3> QED
            BY ONLY <1>11, <2>1, <2>2, <3>1, <3>2 DEF Complete
    <2>5. ParseBlock(Parsed(c1, none)) =
            Parsed(After(c3, k), Append(none, [search |-> SubSeq(c2, 1, j - 1),
                                               replace |-> SubSeq(c3, 1, k - 1)]))
        BY ONLY <2>4, RoundParsed
    <2>6. Append(none, blk) = <<blk>> /\ blk = [search |-> X, replace |-> Y]
        BY <1>3 DEF blk
    <2>7. ParseBlock(Parsed(c1, none)) = Parsed(nl, <<blk>>)
        BY ONLY <2>2, <2>5, <2>6
    <2> QED
        BY <2>3, <2>7
<1>15. ParseBlock(p1) = p1
    <2>1. Find(nl, "search") = 0
        <3>1. \A i \in 1..Len(nl) : nl[i] # "search"
            BY <1>2 DEF Newline
        <3> QED
            BY <3>1, FoundNowhere
    <2>2. p1.remaining = nl
        BY DEF Parsed
    <2> HIDE DEF p1
    <2> QED
        BY <2>1, <2>2 DEF ParseBlock
<1> HIDE DEF p0, p1
<1>16. PICK f : TakesBlocks(c1, Len(c1), f) /\ parse_search_replace_blocks(c1) = f[Len(c1)]
    <2>1. Len(c1) \in Nat
        BY <1>11, LenProperties
    <2> QED
        BY <2>1, BlocksLoop
<1> DEFINE n == Len(c1)
           T == {m \in Nat : m + 1 <= n => f[m + 1] = p1}
<1>17. n \in Nat /\ n >= 2 /\ f[0] = p0 /\ \A i \in 1..n : f[i] = ParseBlock(f[i - 1])
    BY <1>11, <1>16, LenProperties DEF TakesBlocks, p0
<1> HIDE DEF n
<1>18. 0 \in T
    <2>1. 1 \in 1..n /\ 1 - 1 = 0 /\ 0 + 1 = 1
        BY <1>17
    <2> QED
        BY <1>14, <1>17, <2>1
<1>19. ASSUME NEW m \in Nat, m \in T
       PROVE  m + 1 \in T
    <2> SUFFICES ASSUME (m + 1) + 1 <= n
                 PROVE  f[(m + 1) + 1] = p1
        OBVIOUS
    <2>1. (m + 1) + 1 \in 1..n /\ ((m + 1) + 1) - 1 = m + 1 /\ f[m + 1] = p1
        BY <1>17, <1>19
    <2> QED
        BY <1>15, <1>17, <2>1
<1>20. Nat \subseteq T
    <2> HIDE DEF T
    <2> QED
        BY <1>18, <1>19, NatSetInduction
<1>21. f[n] = p1
    <2> DEFINE m == n - 1
    <2>1. m \in Nat /\ m + 1 = n /\ m + 1 <= n
        BY <1>17
    <2> HIDE DEF m
    <2>2. f[m + 1] = p1
        BY <1>20, <2>1
    <2> QED
        BY <2>1, <2>2
<1>22. p1.ok = TRUE /\ p1.blocks = <<blk>>
    BY DEF p1, Parsed
<1> QED
    BY <1>4, <1>16, <1>21, <1>22 DEF n, X, Y

\* C is P, then X, then Z.
InThree(S, C, P, X, Z) ==
    P \in Seq(S) /\ X \in Seq(S) /\ Z \in Seq(S) /\ C = (P \o X) \o Z

\* X is found in C, and what is around it are P and Z.
LEMMA ThreeParts ==
    ASSUME NEW S, NEW C, NEW P, NEW X, NEW Z, InThree(S, C, P, X, Z)
    PROVE  /\ C \in Seq(S) /\ Len(P) \in Found(C, X)
           /\ SubSeq(C, 1, Len(P)) = P
           /\ After(C, Len(P) + Len(X)) = Z
<1> DEFINE PX == P \o X
           p == Len(P)
           x == Len(X)
           z == Len(Z)
<1>1. P \in Seq(S) /\ X \in Seq(S) /\ Z \in Seq(S) /\ C = PX \o Z
    BY DEF InThree
<1>2. p \in Nat /\ x \in Nat /\ z \in Nat
    BY <1>1, LenProperties
<1>3. PX \in Seq(S) /\ Len(PX) = p + x
    BY <1>1, ConcatProperties
<1>4. SubSeq(PX, p + 1, p + x) = X
    BY <1>1, RightPart
<1>5. SubSeq(PX, 1, p) = P
    <2>1. 1 \in Nat /\ p \in Int /\ 1 <= 1 /\ p <= Len(P)
        BY <1>2
    <2>2. SubSeq(PX, 1, p) = SubSeq(P, 1, p)
        BY <1>1, <2>1, PartOfLeft
    <2>3. SubSeq(P, 1, p) = P
        BY <1>1
    <2> QED
        BY <2>2, <2>3
<1> HIDE DEF PX
<1>6. C \in Seq(S) /\ Len(C) = (p + x) + z
    BY <1>1, <1>3, ConcatProperties
<1>7. SubSeq(C, Len(PX) + 1, Len(PX) + Len(Z)) = Z
    BY <1>1, <1>3, RightPart
<1> HIDE DEF p, x, z
<1>8. 1 \in Nat /\ 1 <= 1 /\ p + 1 \in Nat /\ 1 <= p + 1 /\ p \in Int /\ p + x \in Int
      /\ p <= Len(PX) /\ p + x <= Len(PX)
    BY <1>2, <1>3
<1>9. SubSeq(C, 1, p) = P
    <2>1. SubSeq(PX \o Z, 1, p) = SubSeq(PX, 1, p)
        BY <1>1, <1>3, <1>8, PartOfLeft
    <2> QED
        BY <1>1, <1>5, <2>1
<1>10. SubSeq(C, p + 1, p + x) = X
    <2> DEFINE k == p + 1
               e == p + x
    <2>1. k \in Nat /\ 1 <= k /\ e \in Int /\ e <= Len(PX)
        BY <1>8
    <2>2. SubSeq(PX, k, e) = X
        BY <1>4
    <2> HIDE DEF k, e
    <2>3. SubSeq(PX \o Z, k, e) = SubSeq(PX, k, e)
        BY <1>1, <1>3, <2>1, PartOfLeft
    <2> QED
        BY <1>1, <2>2, <2>3 DEF k, e
<1>11. p \in 0..Len(C) - x
    BY <1>2, <1>6
<1>12. p \in Found(C, X)
    BY <1>10, <1>11 DEF Found, x
<1>13. After(C, p + x) = Z
    BY <1>3, <1>6, <1>7 DEF After, z
<1> QED
    BY <1>6, <1>9, <1>12, <1>13 DEF p, x

\* The first place where X is found becomes Y.
LEMMA BlockReplaced ==
    ASSUME NEW C, NEW X, NEW Y, Found(C, X) # {},
           LineCount(X) \in Nat, LineCount(Y) \in Nat
    PROVE  ReplaceBlock(Searched(C, 0, 0), [search |-> X, replace |-> Y]) =
             Searched((SubSeq(C, 1, Min(Found(C, X))) \o Y)
                        \o After(C, Min(Found(C, X)) + Len(X)),
                      LineCount(Y), LineCount(X))
<1> DEFINE s == Searched(C, 0, 0)
           b == [search |-> X, replace |-> Y]
           pos == Min(Found(C, X))
           D == (SubSeq(C, 1, pos) \o Y) \o After(C, pos + Len(X))
           a == LineCount(Y)
           d == LineCount(X)
<1>1. s.current = C /\ s.added = 0 /\ s.removed = 0 /\ s.failed = FALSE
    BY DEF Searched
<1>2. b.search = X /\ b.replace = Y
    OBVIOUS
<1>3. DOMAIN s = {"current", "added", "removed", "failed"}
    BY DEF Searched
<1> HIDE DEF s, b
<1>4. 0 + a = a /\ 0 + d = d
    OBVIOUS
<1>5. ReplaceBlock(s, b) = [s EXCEPT !.current = D, !.added = 0 + a, !.removed = 0 + d]
    BY <1>1, <1>2 DEF ReplaceBlock
<1> HIDE DEF D, a, d
<1>6. ReplaceBlock(s, b) = [s EXCEPT !.current = D, !.added = a, !.removed = d]
    BY <1>4, <1>5
<1>7. [s EXCEPT !.current = D, !.added = a, !.removed = d] =
        [f \in {"current", "added", "removed", "failed"} |->
           IF f = "current" THEN D ELSE IF f = "added" THEN a
           ELSE IF f = "removed" THEN d ELSE s[f]]
    BY <1>3
<1>8. [f \in {"current", "added", "removed", "failed"} |->
           IF f = "current" THEN D ELSE IF f = "added" THEN a
           ELSE IF f = "removed" THEN d ELSE s[f]] =
        [current |-> D, added |-> a, removed |-> d, failed |-> s.failed]
    OBVIOUS
<1>9. [current |-> D, added |-> a, removed |-> d, failed |-> s.failed] = Searched(D, a, d)
    BY <1>1 DEF Searched
<1> QED
    BY <1>6, <1>7, <1>8, <1>9 DEF s, b, D, a, d

\* The lines of a file, in three parts.
LinesInThree(pre, old, post, new) ==
    /\ pre \in Seq(TextLetters) /\ old \in Seq(TextLetters)
    /\ post \in Seq(TextLetters) /\ new \in Seq(TextLetters)

\* A search and replace block makes the change, where its text is found first.
LEMMA ChangedBySearch ==
    ASSUME NEW pre, NEW old, NEW post, NEW new, LinesInThree(pre, old, post, new),
           NEW C, C = Chars((pre \o old) \o post), NEW res,
           res = apply_search_replace_in_memory(C, AsBlock(old, new))
    PROVE  /\ res.ok
           /\ Min(Found(C, Chars(old))) = Len(Chars(pre)) =>
                res = [ok |-> TRUE, text |-> Chars((pre \o new) \o post),
                       added |-> Len(new), removed |-> Len(old)]
<1> DEFINE P == Chars(pre)
           X == Chars(old)
           Y == Chars(new)
           Z == Chars(post)
           blk == [search |-> X, replace |-> Y]
           bs == <<blk>>
           q == parse_search_replace_blocks(AsBlock(old, new))
           s == ReplaceBlocks(C, bs)
           pos == Min(Found(C, X))
           D == (SubSeq(C, 1, pos) \o Y) \o After(C, pos + Len(X))
           po == pre \o old
           pn == pre \o new
<1>1. /\ pre \in Seq(TextLetters) /\ old \in Seq(TextLetters)
      /\ post \in Seq(TextLetters) /\ new \in Seq(TextLetters)
    BY DEF LinesInThree
<1>2. /\ P \in Seq(TextChars) /\ Z \in Seq(TextChars)
      /\ X \in Seq(TextChars) /\ LineCount(X) = Len(old)
      /\ Y \in Seq(TextChars) /\ LineCount(Y) = Len(new)
      /\ Len(old) \in Nat /\ Len(new) \in Nat
    BY <1>1, CharsCounted, LenProperties
<1>3. C = (P \o X) \o Z
    <2>1. po \in Seq(TextLetters)
        BY <1>1, ConcatProperties
    <2>2. Chars(po) = P \o X
        BY <1>1, CharsOfBoth
    <2> HIDE DEF po
    <2>3. Chars(po \o post) = Chars(po) \o Z
        BY <1>1, <2>1, CharsOfBoth
    <2> QED
        BY <2>2, <2>3 DEF po
<1>4. Chars(pn \o post) = (P \o Y) \o Z
    <2>1. pn \in Seq(TextLetters)
        BY <1>1, ConcatProperties
    <2>2. Chars(pn) = P \o Y
        BY <1>1, CharsOfBoth
    <2> HIDE DEF pn
    <2>3. Chars(pn \o post) = Chars(pn) \o Z
        BY <1>1, <2>1, CharsOfBoth
    <2> QED
        BY <2>2, <2>3
<1>5. q.ok = TRUE /\ q.blocks = bs
    BY <1>1, BlockParsed
<1> HIDE DEF P, X, Y, Z, q, po, pn
<1>6. InThree(TextChars, C, P, X, Z)
    BY <1>2, <1>3 DEF InThree
<1>7. /\ Len(P) \in Found(C, X) /\ SubSeq(C, 1, Len(P)) = P
      /\ After(C, Len(P) + Len(X)) = Z
    BY ONLY <1>6, ThreeParts
<1>8. ReplaceBlock(Searched(C, 0, 0), blk) = Searched(D, Len(new), Len(old))
    <2>1. Found(C, X) # {} /\ LineCount(X) \in Nat /\ LineCount(Y) \in Nat
        BY <1>2, <1>7
    <2>2. ReplaceBlock(Searched(C, 0, 0), [search |-> X, replace |-> Y]) =
             Searched((SubSeq(C, 1, Min(Found(C, X))) \o Y)
                        \o After(C, Min(Found(C, X)) + Len(X)),
                      LineCount(Y), LineCount(X))
        BY ONLY <2>1, BlockReplaced
    <2> QED
        BY <1>2, <2>2
<1>9. Len(bs) = 1 /\ bs[1] = blk /\ bs # <<>>
    OBVIOUS
<1> HIDE DEF bs, blk
<1>10. s = Searched(D, Len(new), Len(old))
    <2>1. PICK f : ReplacesBlocks(C, bs, Len(bs), f) /\ ReplaceBlocks(C, bs) = f[Len(bs)]
        <3>1. Len(bs) \in Nat
            BY ONLY <1>9
        <3> QED
            BY ONLY <3>1, SearchLoop
    <2>2. /\ f[0] = Searched(C, 0, 0)
          /\ \A i \in 1..Len(bs) : f[i] = ReplaceBlock(f[i - 1], bs[i])
        BY <2>1 DEF ReplacesBlocks
    <2>3. 1 \in 1..Len(bs) /\ 1 - 1 = 0
        BY <1>9
    <2>4. f[1] = ReplaceBlock(Searched(C, 0, 0), blk)
        BY <1>9, <2>2, <2>3
    <2> HIDE DEF D
    <2> QED
        BY <1>8, <1>9, <2>1, <2>4
<1> HIDE DEF s, D
<1>11. s.failed = FALSE /\ s.current = D /\ s.added = Len(new) /\ s.removed = Len(old)
    BY <1>10 DEF Searched
<1>12. res = Applied(s.current, s)
    <2>1. q.ok = TRUE /\ q.blocks = bs /\ s = ReplaceBlocks(C, q.blocks) /\ bs # <<>>
        BY <1>5, <1>9 DEF s
    <2>2. res = IF ~q.ok \/ q.blocks = <<>> \/ s.failed THEN Failed ELSE Applied(s.current, s)
        BY <2>1 DEF apply_search_replace_in_memory, q
    <2> QED
        BY <1>11, <2>1, <2>2
<1>13. res = [ok |-> TRUE, text |-> D, added |-> Len(new), removed |-> Len(old)]
    BY <1>11, <1>12 DEF Applied
<1>14. ASSUME pos = Len(P)
       PROVE  D = Chars(pn \o post)
    <2>1. SubSeq(C, 1, pos) = P /\ After(C, pos + Len(X)) = Z
        BY <1>7, <1>14
    <2> QED
        BY <1>4, <2>1 DEF D
<1>15. res.ok
    BY <1>13
<1> QED
    BY <1>13, <1>14, <1>15 DEF P, X, pn

\* FormatsAgreeOn, for any text.
LEMMA FormatsAreOne ==
    ASSUME NEW text \in Seq(TextLetters)
    PROVE  FormatsAgreeOn(text)
<1> DEFINE lines == LinesOf(text)
           L == Len(text) - 1
           Old(i, j) == SubSeq(lines, i, j)
           ByDiff(new, i, j) == apply_unified_diff_in_memory(text,
                                  AsDiff(Rendered(AsHunk(i, Old(i, j), new))))
           ByLines(new, i, j) == apply_replacements_in_memory(text,
                                   <<AsReplacement(i, Old(i, j), new)>>)
           BySearch(new, i, j) == apply_search_replace_in_memory(Chars(lines),
                                    AsBlock(Old(i, j), new))
           Here(i) == Len(Chars(SubSeq(lines, 1, i - 1)))
<1> SUFFICES ASSUME NEW new \in BoundedSeq(Letters, MaxHunk), NEW i \in 1..Len(lines),
                    NEW j \in i..Len(lines), EndsWithNewline(text),
                    Plain(Spliced(lines, i, Old(i, j), new))
             PROVE  /\ ByDiff(new, i, j) = ByLines(new, i, j)
                    /\ BySearch(new, i, j).ok
                    /\ Min(Found(Chars(lines), Chars(Old(i, j)))) = Here(i) =>
                         BySearch(new, i, j) =
                           [ByDiff(new, i, j) EXCEPT !.text = Chars(LinesOf(@))]
    BY DEF FormatsAgreeOn
<1> DEFINE b == i - 1
           old == SubSeq(lines, i, j)
           pre == SubSeq(lines, 1, b)
           post == SubSeq(lines, j + 1, L)
           F == (pre \o new) \o post
<1>1. Len(text) \in Nat /\ L \in Nat /\ L \in 0..Len(text) /\ L < Len(text)
    BY LenProperties DEF EndsWithNewline
<1>2. lines = SubSeq(text, 1, L)
    BY DEF LinesOf, Remaining
<1>3. lines \in Seq(TextLetters) /\ Len(lines) = L
    BY <1>1, <1>2, PrefixOf
<1>4. new \in Seq(Letters)
    BY BoundsAssumption, BoundedSeqIs
<1>5. /\ new \in Seq(TextLetters) /\ new \in Seq(Strings) /\ text \in Seq(Strings)
      /\ TextLetters \subseteq Strings
    <2>1. Letters \subseteq TextLetters /\ TextLetters \subseteq Strings
          /\ Letters \subseteq Strings
        BY DEF TextLetters, Strings
    <2> QED
        BY <1>4, <2>1, SeqMonotonic
<1>6. /\ i \in Nat /\ 1 <= i /\ j \in Nat /\ i <= j /\ j <= L /\ i <= L
      /\ b \in Nat /\ i = b + 1 /\ b <= L /\ b \in Int /\ j \in Int /\ j + 1 \in Nat /\ 1 <= j + 1
      /\ j \in 0..L /\ b \in 0..j /\ 1 \in Nat /\ 1 <= 1 /\ L \in Int /\ L <= L
    <2>1. i \in 1..L /\ j \in i..L
        BY <1>3
    <2> QED
        BY <1>1, <2>1
<1> HIDE DEF b, L
<1>7. old = SubSeq(text, i, j) /\ pre = SubSeq(text, 1, b) /\ post = SubSeq(text, j + 1, L)
    <2> DEFINE k == j + 1
    <2>1. k \in Nat /\ 1 <= k
        BY <1>6
    <2> HIDE DEF k
    <2>2. SubSeq(lines, k, L) = SubSeq(text, k, L)
        BY <1>1, <1>2, <1>6, <2>1, PartOfPrefix
    <2>3. old = SubSeq(text, i, j) /\ pre = SubSeq(text, 1, b)
        BY <1>1, <1>2, <1>6, PartOfPrefix
    <2> QED
        BY <2>2, <2>3 DEF k
<1>8. Remaining(text, j) = post
    BY <1>7 DEF Remaining, L
<1> HIDE DEF lines
<1>9. old \in Seq(TextLetters) /\ Len(old) = j - i + 1
    BY <1>3, <1>6, Part
<1>10. pre \in Seq(TextLetters)
    BY <1>3, <1>6, Part
<1>11. post \in Seq(TextLetters)
    <2> DEFINE k == j + 1
    <2>1. k \in Nat /\ 1 <= k
        BY <1>6
    <2> HIDE DEF k
    <2>2. SubSeq(lines, k, L) \in Seq(TextLetters)
        BY <1>3, <1>6, <2>1, Part
    <2> QED
        BY <2>2 DEF k
<1>12. (pre \o old) \o post = lines
    <2>1. (SubSeq(lines, 1, b) \o SubSeq(lines, b + 1, j)) \o SubSeq(lines, j + 1, Len(lines))
            = lines
        BY <1>3, <1>6, Thirds
    <2> QED
        BY <1>3, <1>6, <2>1
<1>13. b + Len(old) = j /\ b + Len(old) < Len(text) /\ Len(old) > 0 /\ i + Len(old) = j + 1
    <2> DEFINE n == Len(old)
               m == Len(text)
    <2>1. n = j - i + 1 /\ i = b + 1 /\ j <= L /\ L < m /\ i <= j /\ i \in Nat /\ j \in Nat
          /\ b \in Nat /\ m \in Nat /\ L \in Nat
        BY <1>1, <1>6, <1>9
    <2> HIDE DEF n, m
    <2>2. b + n = j /\ b + n < m /\ n > 0 /\ i + n = j + 1
        BY ONLY <2>1
    <2> QED
        BY <2>2 DEF n, m
<1>14. F = Spliced(lines, i, old, new)
    BY <1>3, <1>13 DEF Spliced, b
<1> HIDE DEF old, pre, post
<1>15. Changes(text, b, old, new)
    <2>1. old \in Seq(Strings)
        BY <1>5, <1>9, SeqMonotonic
    <2>2. old # <<>>
        BY <1>9, <1>13
    <2>3. old = SubSeq(text, b + 1, b + Len(old))
        BY <1>6, <1>7, <1>13
    <2> QED
        BY <1>5, <1>6, <1>13, <2>1, <2>2, <2>3 DEF Changes
<1> DEFINE change == Changed(text, b, old, new)
<1>16. ByDiff(new, i, j) = change /\ ByLines(new, i, j) = change
    <2>1. ByDiff(new, i, j) = apply_unified_diff_in_memory(text,
                                AsDiff(Rendered(AsHunk(b + 1, old, new))))
        BY <1>6 DEF old
    <2>2. ByLines(new, i, j) = apply_replacements_in_memory(text,
                                 <<AsReplacement(b + 1, old, new)>>)
        BY <1>6 DEF old
    <2> HIDE DEF ByDiff, ByLines
    <2> QED
        BY <1>15, <2>1, <2>2, ChangedByDiff, ChangedByLines
<1>17. F \in Seq(TextLetters) /\ F \in Seq(Strings) /\ Plain(F)
    <2> DEFINE pn == pre \o new
    <2>1. pn \in Seq(TextLetters)
        BY <1>5, <1>10, ConcatProperties
    <2> HIDE DEF pn
    <2>2. pn \o post \in Seq(TextLetters)
        BY <1>11, <2>1, ConcatProperties
    <2>3. F \in Seq(TextLetters)
        BY <2>2 DEF pn
    <2> HIDE DEF F
    <2> QED
        BY <1>5, <1>14, <2>3, SeqMonotonic DEF old
<1>18. change = [ok |-> TRUE, text |-> TextOf(F, TRUE), added |-> Len(new), removed |-> Len(old)]
    <2>1. (SubSeq(text, 1, b) \o new) \o Remaining(text, b + Len(old)) = F
        BY <1>7, <1>8, <1>13
    <2> HIDE DEF F
    <2>2. Terminate(Join(F), TRUE) = TextOf(F, TRUE)
        BY <1>17, PlainText
    <2> QED
        BY <2>1, <2>2 DEF Changed
<1> HIDE DEF F
<1>19. LinesOf(TextOf(F, TRUE)) = F
    <2>1. TRUE \in BOOLEAN /\ 0 \in Nat /\ 0 + 1 = 1
        OBVIOUS
    <2>2. Remaining(TextOf(F, TRUE), 0) = SubSeq(F, 0 + 1, Len(F))
        BY <1>17, <2>1, TextOfPlain
    <2>3. SubSeq(F, 1, Len(F)) = F
        BY <1>17
    <2> QED
        BY <2>1, <2>2, <2>3 DEF LinesOf
<1> HIDE DEF change
<1>20. [change EXCEPT !.text = Chars(LinesOf(@))] =
         [ok |-> TRUE, text |-> Chars(F), added |-> Len(new), removed |-> Len(old)]
    <2> DEFINE t == Chars(F)
               N == Len(new)
               O == Len(old)
    <2>1. Chars(LinesOf(change.text)) = t
        BY <1>18, <1>19
    <2>2. /\ DOMAIN change = {"ok", "text", "added", "removed"} /\ change.ok = TRUE
          /\ change.added = N /\ change.removed = O
        BY <1>18
    <2> HIDE DEF t, N, O
    <2>3. [change EXCEPT !.text = t] =
            [x \in {"ok", "text", "added", "removed"} |-> IF x = "text" THEN t ELSE change[x]]
        BY <2>2
    <2>4. [x \in {"ok", "text", "added", "removed"} |-> IF x = "text" THEN t ELSE change[x]] =
            [ok |-> change.ok, text |-> t, added |-> change.added, removed |-> change.removed]
        OBVIOUS
    <2> QED
        BY <2>1, <2>2, <2>3, <2>4 DEF t, N, O
<1>21. LinesInThree(pre, old, post, new)
    BY <1>5, <1>9, <1>10, <1>11 DEF LinesInThree
<1> DEFINE C == Chars(lines)
           res == apply_search_replace_in_memory(C, AsBlock(old, new))
<1>22. C = Chars((pre \o old) \o post)
    BY <1>12
<1> HIDE DEF C, res
<1>23. /\ res.ok
       /\ Min(Found(C, Chars(old))) = Len(Chars(pre)) =>
            res = [ok |-> TRUE, text |-> Chars((pre \o new) \o post),
                   added |-> Len(new), removed |-> Len(old)]
    BY <1>21, <1>22, ChangedBySearch DEF res
<1>24. BySearch(new, i, j) = res /\ Here(i) = Len(Chars(pre))
       /\ Found(Chars(lines), Chars(Old(i, j))) = Found(C, Chars(old))
    BY DEF res, C, old, pre, b
<1> HIDE DEF BySearch, ByDiff, ByLines, Here, Old
<1> QED
    BY <1>16, <1>20, <1>23, <1>24 DEF F

\* The lines of the texts of the input hold no marker.
LEMMA SmallTextsSpell ==
    ASSUME NEW text \in SmallTexts
    PROVE  text \in Seq(TextLetters)
<1>1. Blank \in TextLetters
    BY DEF TextLetters
<1>2. CASE text = Empty
    BY <1>1, <1>2 DEF Empty
<1>3. CASE text # Empty
    <2>1. PICK ls \in BoundedSeq(Letters \cup {Blank}, MaxLines) \ {<<>>} :
                text = ls \/ text = Terminate(ls, TRUE)
        BY <1>3 DEF SmallTexts
    <2>2. ls \in BoundedSeq(TextLetters, MaxLines)
        BY <2>1 DEF TextLetters
    <2>3. ls \in Seq(TextLetters)
        BY <2>2, BoundsAssumption, BoundedSeqIs
    <2>4. Append(ls, Blank) \in Seq(TextLetters)
        BY <1>1, <2>3, AppendProperties
    <2>5. text = ls \/ text = Append(ls, Blank)
        BY <2>1 DEF Terminate
    <2> QED
        BY <2>3, <2>4, <2>5
<1> QED
    BY <1>2, <1>3

-----------------------------------------------------------------------------
(* The texts of the input. *)

TextInv == input.kind = "text" => input.text \in SmallTexts

\* The input is one of the texts PickInput picks from.
LEMMA TextsAreSmall == MCSpec => []TextInv
<1>1. MCInit => TextInv
    BY DEF MCInit, TextInv
<1>2. TextInv /\ [MCNext]_<<vars, input>> => TextInv'
    <2> SUFFICES ASSUME TextInv, [MCNext]_<<vars, input>>
                 PROVE  TextInv'
        OBVIOUS
    <2>1. CASE PickInput
        BY <2>1 DEF PickInput, TextInv
    <2>2. CASE input' = input
        BY <2>2 DEF TextInv
    <2> QED
        BY <2>1, <2>2 DEF MCNext
<1> QED
    BY <1>1, <1>2, PTL DEF MCSpec

\* What apply_unified_diff_in_memory and apply_replacements_in_memory make of a
\* text is the edit that was asked for, on the lines it was asked for, whatever
\* the lines and however many: see UnifiedDiffAppliesTo and
\* ReplacementsDoNotShiftIn.
THEOREM EditsAreApplied == MCSpec => []EditsApply
<1>1. TextInv => EditsApply
    <2> SUFFICES ASSUME input.text \in SmallTexts
                 PROVE  UnifiedDiffAppliesTo(input.text) /\ ReplacementsDoNotShiftIn(input.text)
        BY DEF TextInv, EditsApply
    <2>1. input.text \in Seq(Strings) /\ input.text # <<>>
        BY SmallTextsAre
    <2> QED
        BY <2>1, DiffApplies, ReplacementsHold
<1> QED
    BY <1>1, TextsAreSmall, PTL

\* The same change of a text, sent as a unified diff, as a line replacement or as
\* a search and replace block, gives the same text and the same counts, whatever
\* the lines and however many: see FormatsAgreeOn.
THEOREM FormatsMatch == MCSpec => []FormatsAgree
<1>1. TextInv => FormatsAgree
    <2> SUFFICES ASSUME input.text \in SmallTexts
                 PROVE  FormatsAgreeOn(input.text)
        BY DEF TextInv, FormatsAgree
    <2> QED
        BY SmallTextsSpell, FormatsAreOne
<1> QED
    BY <1>1, TextsAreSmall, PTL
=============================================================================
