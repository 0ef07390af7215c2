----------------------------- MODULE AtomicFile ------------------------------
(***************************************************************************)
(* What "crash-safe atomic shadow file replacement" (diff.rs) means to     *)
(* someone who looks at the file: it holds a whole text, which a task      *)
(* replaces in one step by the text it made from what it has read.  The    *)
(* one exception the code makes is Vanish: after a refused rename the file *)
(* may be removed first.                                                   *)
(*                                                                         *)
(* A text is the set of tasks whose edits it contains.                     *)
(***************************************************************************)
CONSTANTS Tasks, Gone

VARIABLES
    content,    \* the file: a text, or Gone
    base,       \* the text a task has read
    done,       \* the tasks that have answered "replaced"
    refused     \* a rename onto the file has been refused

Text == IF content = Gone THEN {} ELSE content

Init ==
    /\ content \in {{}, Gone}
    /\ base = [t \in Tasks |-> {}]
    /\ done = {} /\ refused = FALSE

Read(t) ==
    /\ t \notin done
    /\ base' = [base EXCEPT ![t] = Text]
    /\ UNCHANGED <<content, done, refused>>

Replace(t) ==
    /\ t \notin done
    /\ content' \in {base[t] \cup {t}, {t}}
    /\ done' = done \cup {t}
    /\ UNCHANGED <<base, refused>>

Refuse ==
    /\ refused' = TRUE
    /\ UNCHANGED <<content, base, done>>

Vanish ==
    /\ refused
    /\ content' = Gone
    /\ UNCHANGED <<base, done, refused>>

Next == (\E t \in Tasks : Read(t) \/ Replace(t)) \/ Refuse \/ Vanish

Spec == Init /\ [][Next]_<<content, base, done, refused>>
=============================================================================
