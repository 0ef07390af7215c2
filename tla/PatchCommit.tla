----------------------------- MODULE PatchCommit -----------------------------
(***************************************************************************)
(* The patch applicator of crates/syntropy-exec (diff.rs): apply_patch,    *)
(* apply_line_replacements and apply_full_content on one file, called by   *)
(* concurrent tasks of the daemon, the local UI and the CLI.  The file     *)
(* system is that of Windows, the only platform whose branch of            *)
(* commit_atomically compiles: a rename onto a file that is read-only or   *)
(* held open by another program is refused.                                *)
(*                                                                         *)
(* A text is the set of tasks whose edits it contains, the original one    *)
(* (and what is read when there is no file) the empty set; its hash is     *)
(* the text.  What the edits do to the lines is in module PatchText.       *)
(***************************************************************************)
EXTENDS Integers, Sequences, SequencesExt

CONSTANTS
    Tasks,
    Gone,       \* no such file
    Torn,       \* a file that is not completely written
    AnyHash,    \* expected_sha256 is None or empty
    Asked       \* the options patches come with

Texts == SUBSET Tasks

ASSUME ValuesAssumption ==
    /\ \A x \in Texts : x # Gone /\ x # Torn /\ x # AnyHash
    /\ Gone # Torn

Options == [dry_run : BOOLEAN, full : BOOLEAN, expected : Texts \cup {AnyHash}]

ASSUME AskedAssumption == Asked \subseteq Options

VARIABLES
    pc,         \* where a task is
    opts,       \* its PatchOptions; full: apply_full_content
    base,       \* original_content
    since,      \* history: how many replacements it knew when it read
    shadow,     \* its shadow file
    flushed,    \* tasks whose shadow has been synced
    file,       \* the file
    durable,    \* its contents survive a power loss
    readonly,
    held,       \* another program has it open: "free", "exclusive", or
                \* "shared" (deletion allowed)
    order,      \* history: the tasks that have replaced the file
    refused,    \* history: a rename onto it has been refused
    removed     \* history: the fallback has removed it

diskVars == <<shadow, flushed, file, durable>>
otherVars == <<readonly, held>>
historyVars == <<since, order, refused, removed>>
vars == <<pc, opts, base, diskVars, otherVars, historyVars>>

Init ==
    /\ pc = [t \in Tasks |-> "idle"]
    /\ opts = [t \in Tasks |->
                 [dry_run |-> FALSE, full |-> FALSE, expected |-> AnyHash]]
    /\ base = [t \in Tasks |-> {}] /\ since = [t \in Tasks |-> 0]
    /\ shadow = [t \in Tasks |-> Gone] /\ flushed = {}
    /\ file \in {{}, Gone} /\ durable = TRUE
    /\ readonly \in BOOLEAN /\ held = "free"
    /\ order = <<>> /\ refused = FALSE /\ removed = FALSE

Goto(t, l) == pc' = [pc EXCEPT ![t] = l]

-----------------------------------------------------------------------------
(* Reading and editing.                                                    *)

\* A patch arrives; the ledger has it and the jail has resolved its path.
Ask(t, o) ==
    /\ pc[t] = "idle"
    /\ opts' = [opts EXCEPT ![t] = o]
    /\ Goto(t, "read")
    /\ UNCHANGED <<base, diskVars, otherVars, historyVars>>

Content == IF file = Gone THEN {} ELSE file

\* read_and_verify, with the edit in memory that follows.
Verified(t) == opts[t].expected \in {AnyHash, Content}

Read(t) ==
    /\ pc[t] = "read"
    /\ Verified(t)
    /\ base' = [base EXCEPT ![t] = Content]
    /\ since' = [since EXCEPT ![t] = Len(order)]
    /\ Goto(t, IF opts[t].dry_run THEN "planned" ELSE "create")
    /\ UNCHANGED <<opts, diskVars, otherVars, order, refused, removed>>

\* HashMismatch, ContextMismatch, InvalidPatch, an I/O error; before that the
\* ledger or the jail.
Reject(t) ==
    /\ pc[t] \in {"idle", "read"}
    /\ Goto(t, "error")
    /\ UNCHANGED <<opts, base, diskVars, otherVars, historyVars>>

only_its_own(t) == {t}
modified_content(t) == IF opts[t].full THEN {t} ELSE base[t] \cup {t}

-----------------------------------------------------------------------------
(* commit_atomically.                                                      *)

\* The shadow's name is new (a UUID, create_new).
CreateShadow(t) ==
    /\ pc[t] = "create"
    /\ shadow' = [shadow EXCEPT ![t] = Torn]
    /\ Goto(t, "write")
    /\ UNCHANGED <<opts, base, flushed, file, durable, otherVars, historyVars>>

WriteShadow(t) ==
    /\ pc[t] = "write"
    /\ shadow' = [shadow EXCEPT ![t] = modified_content(t)]
    /\ Goto(t, "sync")
    /\ UNCHANGED <<opts, base, flushed, file, durable, otherVars, historyVars>>

NoFlush(t) == UNCHANGED flushed
Flush(t) == flushed' = flushed \cup {t}

SyncShadow(t) ==
    /\ pc[t] = "sync"
    /\ Flush(t)
    /\ Goto(t, "rename")
    /\ UNCHANGED <<opts, base, shadow, file, durable, otherVars, historyVars>>

\* An I/O error in one of the three (a missing parent, a full disk): the
\* shadow is left as it is.
CommitFails(t) ==
    /\ pc[t] \in {"create", "write", "sync"}
    /\ Goto(t, "error")
    /\ UNCHANGED <<opts, base, diskVars, otherVars, historyVars>>

\* A removed file keeps its name until the program that holds it closes it.
Renamable == held = "free" /\ (file = Gone \/ ~readonly)

MoveIntoPlace(t) ==
    /\ Renamable
    /\ file' = shadow[t]
    /\ durable' = (t \in flushed)
    /\ shadow' = [shadow EXCEPT ![t] = Gone]
    /\ readonly' = FALSE
    /\ order' = Append(order, t)

Rename(t) ==
    /\ pc[t] = "rename"
    /\ MoveIntoPlace(t)
    /\ Goto(t, "ok")
    /\ UNCHANGED <<opts, base, flushed, held, since, refused, removed>>

RenameRefused(t) ==
    /\ pc[t] = "rename"
    /\ ~Renamable
    /\ refused' = TRUE
    /\ Goto(t, "clear")
    /\ UNCHANGED <<opts, base, diskVars, otherVars, since, order, removed>>

\* path.exists(), and the read-only attribute, whose removal may fail ...
ClearReadonly(t) ==
    /\ pc[t] = "clear"
    /\ readonly' \in {readonly, FALSE}
    /\ file = Gone => UNCHANGED readonly
    /\ Goto(t, IF file = Gone THEN "retry" ELSE "remove")
    /\ UNCHANGED <<opts, base, diskVars, held, historyVars>>

\* ... the file itself, whoever has put it there meanwhile, unless that is
\* refused too ...
RemoveTarget(t) ==
    /\ pc[t] = "remove"
    /\ \/ /\ file # Gone /\ ~readonly /\ held # "exclusive"
          /\ file' = Gone /\ durable' = TRUE
          /\ removed' = TRUE
       \/ /\ file = Gone \/ readonly \/ held = "exclusive"
          /\ UNCHANGED <<file, durable, removed>>
    /\ Goto(t, "retry")
    /\ UNCHANGED <<opts, base, shadow, flushed, otherVars, since, order, refused>>

\* ... and the rename again ...
Retry(t) ==
    /\ pc[t] = "retry"
    /\ MoveIntoPlace(t)
    /\ Goto(t, "ok")
    /\ UNCHANGED <<opts, base, flushed, held, since, refused, removed>>

\* ... which may be refused again: the shadow goes as well.
RetryRefused(t) ==
    /\ pc[t] = "retry"
    /\ ~Renamable
    /\ shadow' = [shadow EXCEPT ![t] = Gone]
    /\ refused' = TRUE
    /\ Goto(t, "error")
    /\ UNCHANGED <<opts, base, flushed, file, durable, otherVars, since, order,
                   removed>>

-----------------------------------------------------------------------------
(* Other programs and crashes (external).                                  *)

OpenFile(mode) ==
    /\ held = "free" /\ file # Gone
    /\ held' = mode
    /\ UNCHANGED <<pc, opts, base, diskVars, readonly, historyVars>>

CloseFile ==
    /\ held # "free"
    /\ held' = "free"
    /\ UNCHANGED <<pc, opts, base, diskVars, readonly, historyVars>>

Ended == {"ok", "planned", "error", "dead"}

\* The process of a task dies.
Crash(t) ==
    /\ pc[t] \notin Ended \cup {"idle"}
    /\ Goto(t, "dead")
    /\ UNCHANGED <<opts, base, diskVars, otherVars, historyVars>>

\* The machine dies: what has not been flushed is torn.
PowerLoss ==
    /\ pc' = [t \in Tasks |->
                IF pc[t] \in Ended \cup {"idle"} THEN pc[t] ELSE "dead"]
    /\ shadow' = [t \in Tasks |->
                    IF shadow[t] = Gone \/ t \in flushed THEN shadow[t]
                    ELSE Torn]
    /\ file' = IF durable THEN file ELSE Torn
    /\ held' = "free"
    /\ UNCHANGED <<opts, base, flushed, durable, readonly, historyVars>>

-----------------------------------------------------------------------------
TaskNext(t) ==
    \/ \E o \in Asked : Ask(t, o)
    \/ Read(t) \/ Reject(t)
    \/ CreateShadow(t) \/ WriteShadow(t) \/ SyncShadow(t) \/ CommitFails(t)
    \/ Rename(t) \/ RenameRefused(t) \/ ClearReadonly(t) \/ RemoveTarget(t)
    \/ Retry(t) \/ RetryRefused(t)
    \/ Crash(t)

Next ==
    \/ \E t \in Tasks : TaskNext(t)
    \/ \E mode \in {"exclusive", "shared"} : OpenFile(mode)
    \/ CloseFile
    \/ PowerLoss

Spec == Init /\ [][Next]_vars

-----------------------------------------------------------------------------
(* What the applicator promises.                                           *)

Pcs == {"idle", "read", "create", "write", "sync", "rename", "clear", "remove",
        "retry"} \cup Ended

\* Type invariant.
TypeOK ==
    /\ pc \in [Tasks -> Pcs]
    /\ opts \in [Tasks -> Options]
    /\ base \in [Tasks -> Texts]
    /\ since \in [Tasks -> Nat]
    /\ shadow \in [Tasks -> Texts \cup {Gone, Torn}]
    /\ flushed \subseteq Tasks
    /\ file \in Texts \cup {Gone, Torn}
    /\ durable \in BOOLEAN /\ readonly \in BOOLEAN
    /\ held \in {"free", "exclusive", "shared"}
    /\ order \in Seq(Tasks)
    /\ refused \in BOOLEAN /\ removed \in BOOLEAN

Abstract ==
    INSTANCE AtomicFile WITH
        content <- file,
        done <- {t \in Tasks : pc[t] = "ok"}

\* "Crash-safe atomic shadow file replacement": whoever looks at the file, at
\* any time and after any crash or power loss, finds a whole text; it changes
\* only in the step in which a task answers that it has replaced it, and by
\* that task's result; a task that answers with an error, or only planned (dry
\* run), has not touched it.  The file is absent only after a refused rename.
AtomicReplacement == Abstract!Spec

Position(t) == CHOOSE i \in 1..Len(order) : order[i] = t

\* An edit that was reported and is no longer in the file was overwritten by a
\* task that had read the file before the edit was there, or on purpose by
\* apply_full_content; the hash is compared at the read only.  The fallback
\* that removes the file first is the only other way to lose it.
LostOnlyByOverlap ==
    \A t \in Tasks :
        pc[t] = "ok" /\ file # Gone /\ t \notin file =>
            \/ removed
            \/ \E u \in ToSet(order) :
                 /\ Position(u) > Position(t)
                 /\ since[u] < Position(t) \/ opts[u].full
=============================================================================
