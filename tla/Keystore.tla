------------------------------ MODULE Keystore -------------------------------
(***************************************************************************)
(* The file-backed keystores of crates/syntropy-security (keystore.rs):    *)
(* EncryptedFileKeyStore, whose temporary file has a new name every time,  *)
(* and DpapiKeyStore, whose temporary file always has the same one.  The   *)
(* credential broker (broker.rs) and `syntropy auth` (main.rs of the CLI)  *)
(* store, replace and delete OAuth sessions and other secrets in them;     *)
(* every process loads the file once, when it opens the store.             *)
(*                                                                         *)
(* The value a call sets is the call itself.  Encryption is left out: a    *)
(* file that is not whole does not decrypt.  A file is an inode, so that a *)
(* handle keeps writing to it after it has been renamed.                   *)
(***************************************************************************)
EXTENDS Integers, Sequences, SequencesExt

CONSTANTS
    Processes,  \* processes that open the store
    Calls,      \* calls of set and delete
    Keys,
    Inodes,     \* enough for every temporary file and the store's
    Absent,     \* no value, no file
    Blank,      \* a file of no bytes
    Torn        \* a file that is not completely written

Maps == [Keys -> Calls \cup {Absent}]

ASSUME CallsAssumption ==
    /\ Processes # {} /\ Keys # {}
    /\ Calls \cap Processes = {}
    /\ Absent \notin Calls \cup Inodes
    /\ \A m \in Maps : m # Absent /\ m # Blank /\ m # Torn

\* Who persists: a call, or a process that finds no file when it opens.
Actors == Calls \cup Processes

VARIABLES
    fixed,      \* the store is a DpapiKeyStore
    mem,        \* entries, by process
    pc,
    op,         \* a call's process, operation and key
    buffer,     \* what persist has serialized
    handle,     \* the inode it writes to
    data,       \* contents of the inodes
    durable,    \* inodes whose contents survive a power loss
    temp,       \* temporary names: the inode, or Absent
    path,       \* the store's file: its inode, or Absent
    changes,    \* history: the calls that changed a key, in order
    shared,     \* history: two processes have had the store open at once
    overlapped  \* history: two persists have had the same temporary name

fileVars == <<data, durable, temp, path>>
ioVars == <<buffer, handle>>
historyVars == <<changes, shared, overlapped>>
keystoreVars == <<fixed, mem, pc, op, ioVars, fileVars, historyVars>>

EmptyMap == [k \in Keys |-> Absent]

KeystoreInit ==
    /\ fixed \in BOOLEAN
    /\ mem = [p \in Processes |-> EmptyMap]
    /\ pc = [a \in Actors |-> IF a \in Processes THEN "down" ELSE "idle"]
    /\ op = [c \in Calls |-> [proc |-> CHOOSE p \in Processes : TRUE, kind |-> "set",
                             key |-> CHOOSE k \in Keys : TRUE]]
    /\ buffer = [a \in Actors |-> EmptyMap]
    /\ handle = [a \in Actors |-> Absent]
    /\ data = [i \in Inodes |-> Blank] /\ durable = {}
    /\ temp = [a \in Actors |-> Absent] /\ path = Absent
    /\ changes = [k \in Keys |-> <<>>]
    /\ shared = FALSE /\ overlapped = FALSE

Goto(a, l) == pc' = [pc EXCEPT ![a] = l]

Home(a) == IF a \in Processes THEN a ELSE op[a].proc

\* persist keeps the read lock of the map from the serialization to its end.
Persisting == {"write", "sync", "rename"}
LockedWhileSerializing(p) == FALSE
ReadLocked(p) == \E a \in Actors : Home(a) = p /\ pc[a] \in Persisting

-----------------------------------------------------------------------------
(* Opening the store.                                                      *)

IsOpen(p) == pc[p] = "up"

\* read_and_decrypt, or what DpapiKeyStore makes of the file.
Readable == data[path] \notin {Torn, Blank} \/ (fixed /\ data[path] = Blank)
Loaded == IF data[path] = Blank THEN EmptyMap ELSE data[path]

Open(p) ==
    /\ pc[p] = "down"
    /\ path # Absent /\ Readable
    /\ mem' = [mem EXCEPT ![p] = Loaded]
    /\ Goto(p, "up")
    /\ shared' = (shared \/ \E q \in Processes : pc[q] # "down")
    /\ UNCHANGED <<fixed, op, ioVars, fileVars, changes, overlapped>>

\* "If file didn't exist, flush empty store".
OpenNew(p) ==
    /\ pc[p] = "down"
    /\ path = Absent
    /\ mem' = [mem EXCEPT ![p] = EmptyMap]
    /\ Goto(p, "persist")
    /\ shared' = (shared \/ \E q \in Processes : pc[q] # "down")
    /\ UNCHANGED <<fixed, op, ioVars, fileVars, changes, overlapped>>

-----------------------------------------------------------------------------
(* set and delete: the map changes under the write lock ...                *)

Called(c, p, kind, k) ==
    /\ pc[c] = "idle" /\ IsOpen(p)
    /\ ~ReadLocked(p)
    /\ op' = [op EXCEPT ![c] = [proc |-> p, kind |-> kind, key |-> k]]
    /\ UNCHANGED <<fixed, ioVars, fileVars, shared, overlapped>>

Changed(c, p, k, v) ==
    /\ Goto(c, "persist")
    /\ mem' = [mem EXCEPT ![p][k] = v]
    /\ changes' = [changes EXCEPT ![k] = Append(@, c)]

set(c, p, k) == Called(c, p, "set", k) /\ Changed(c, p, k, c)

\* Nothing is persisted if nothing was removed.
delete(c, p, k) ==
    /\ Called(c, p, "delete", k)
    /\ \/ mem[p][k] # Absent /\ Changed(c, p, k, Absent)
       \/ mem[p][k] = Absent /\ Goto(c, "ok") /\ UNCHANGED <<mem, changes>>

(* ... and is written to the file by persist.                              *)

TempName(a) == IF fixed THEN CHOOSE p \in Processes : TRUE ELSE a

\* The map is serialized, and File::create truncates a file of that name.  Inodes
\* bounds the files there are at once.
Unused ==
    {i \in Inodes : i # path /\ \A a \in Actors : temp[a] # i /\ handle[a] # i}

Create(a) ==
    LET n == TempName(a)
        inode == IF temp[n] = Absent THEN CHOOSE i \in Unused : TRUE ELSE temp[n]
    IN  /\ pc[a] = "persist"
        /\ temp[n] = Absent => Unused # {}
        /\ buffer' = [buffer EXCEPT ![a] = mem[Home(a)]]
        /\ temp' = [temp EXCEPT ![n] = inode]
        /\ handle' = [handle EXCEPT ![a] = inode]
        /\ data' = [data EXCEPT ![inode] = Blank]
        /\ durable' = durable \ {inode}
        /\ Goto(a, "write")
        /\ overlapped' = (overlapped \/
                            \E b \in Actors \ {a} :
                              pc[b] \in Persisting /\ TempName(b) = n)
        /\ UNCHANGED <<fixed, mem, op, path, changes, shared>>

\* Over what another writer has put there, it may or may not be longer.
Write(a) ==
    LET inode == handle[a]
    IN  /\ pc[a] = "write"
        /\ \E d \in {buffer[a]} \cup (IF data[inode] \in {Blank, buffer[a]} THEN {}
                                      ELSE {Torn}) :
             data' = [data EXCEPT ![inode] = d]
        /\ durable' = durable \ {inode}
        /\ Goto(a, "sync")
        /\ UNCHANGED <<fixed, mem, op, ioVars, temp, path, historyVars>>

NoSync(a) == UNCHANGED durable
SyncAll(a) == durable' = durable \cup {handle[a]}

\* The handle is closed at the end of its block.
SyncFile(a) ==
    /\ pc[a] = "sync"
    /\ SyncAll(a)
    /\ handle' = [handle EXCEPT ![a] = Absent]
    /\ Goto(a, "rename")
    /\ UNCHANGED <<fixed, mem, op, buffer, data, temp, path, historyVars>>

\* The file that was there before is gone, unless someone has it open.
Closed(i) == \A a \in Actors : handle[a] # i
Forget(a) == buffer' = [buffer EXCEPT ![a] = EmptyMap]

Rename(a) ==
    LET n == TempName(a)
    IN  /\ pc[a] = "rename"
        /\ temp[n] # Absent
        /\ path' = temp[n]
        /\ temp' = [temp EXCEPT ![n] = Absent]
        /\ data' = [i \in Inodes |-> IF i = path /\ Closed(i) THEN Blank ELSE data[i]]
        /\ durable' = {i \in durable : i = path => ~Closed(i)}
        /\ Forget(a)
        /\ Goto(a, IF a \in Processes THEN "up" ELSE "ok")
        /\ UNCHANGED <<fixed, mem, op, handle, historyVars>>

\* An I/O error, or another persist has renamed the temporary file; the map
\* keeps the change and the temporary file stays.
PersistFails(a) ==
    /\ pc[a] \in Persisting
    /\ handle' = [handle EXCEPT ![a] = Absent]
    /\ Forget(a)
    /\ Goto(a, IF a \in Processes THEN "down" ELSE "error")
    /\ UNCHANGED <<fixed, mem, op, fileVars, historyVars>>

-----------------------------------------------------------------------------
(* Crashes (external).                                                     *)

\* A process dies; what it is writing may be there in part.
ProcessDies(p) ==
    /\ pc[p] # "down"
    /\ pc' = [a \in Actors |->
                IF a = p THEN "down"
                ELSE IF Home(a) = p /\ pc[a] \in Persisting \cup {"persist"}
                THEN "dead" ELSE pc[a]]
    /\ \E A \in SUBSET {a \in Actors : Home(a) = p /\ pc[a] = "write"} :
         data' = [i \in Inodes |->
                    IF \E a \in A : handle[a] = i THEN Torn ELSE data[i]]
    /\ handle' = [a \in Actors |-> IF Home(a) = p THEN Absent ELSE handle[a]]
    /\ buffer' = [a \in Actors |-> IF Home(a) = p THEN EmptyMap ELSE buffer[a]]
    /\ mem' = [mem EXCEPT ![p] = EmptyMap]
    /\ UNCHANGED <<fixed, op, durable, temp, path, historyVars>>

PowerFails ==
    /\ pc' = [a \in Actors |->
                IF a \in Processes THEN "down"
                ELSE IF pc[a] \in Persisting \cup {"persist"} THEN "dead" ELSE pc[a]]
    /\ data' = [i \in Inodes |->
                  IF i \in durable \/ i \in Unused THEN data[i] ELSE Torn]
    /\ handle' = [a \in Actors |-> Absent]
    /\ buffer' = [a \in Actors |-> EmptyMap]
    /\ mem' = [p \in Processes |-> EmptyMap]
    /\ UNCHANGED <<fixed, op, durable, temp, path, historyVars>>

-----------------------------------------------------------------------------
ActorNext(a) ==
    \/ Create(a) \/ Write(a) \/ SyncFile(a) \/ Rename(a)
    \/ PersistFails(a)

KeystoreNext ==
    \/ \E p \in Processes : Open(p) \/ OpenNew(p) \/ ProcessDies(p)
    \/ \E c \in Calls, p \in Processes, k \in Keys : set(c, p, k) \/ delete(c, p, k)
    \/ \E a \in Actors : ActorNext(a)
    \/ PowerFails

KeystoreSpec == KeystoreInit /\ [][KeystoreNext]_keystoreVars

-----------------------------------------------------------------------------
(* What the keystore promises.                                             *)

Pcs == {"down", "up", "idle", "persist", "ok", "error", "dead"} \cup Persisting

\* Type invariant.
KeystoreTypeOK ==
    /\ fixed \in BOOLEAN
    /\ mem \in [Processes -> Maps]
    /\ pc \in [Actors -> Pcs]
    /\ op \in [Calls -> [proc : Processes, kind : {"set", "delete"}, key : Keys]]
    /\ buffer \in [Actors -> Maps]
    /\ handle \in [Actors -> Inodes \cup {Absent}]
    /\ data \in [Inodes -> Maps \cup {Blank, Torn}]
    /\ durable \subseteq Inodes
    /\ temp \in [Actors -> Inodes \cup {Absent}]
    /\ path \in Inodes \cup {Absent}
    /\ changes \in [Keys -> Seq(Calls)]
    /\ shared \in BOOLEAN /\ overlapped \in BOOLEAN

\* Two persists at once share the temporary file of a DpapiKeyStore, and
\* nothing below holds for it then.
Unsafe == fixed /\ overlapped

\* The store's file is a whole map at any time, whatever persists, fails,
\* crashes or loses power: the next open does not find it corrupted.
FileIsWhole == path # Absent /\ ~Unsafe => data[path] \in Maps

ValueOf(c) == IF op[c].kind = "set" THEN c ELSE Absent

\* What a key may have in the file: the value of the last change that was
\* acknowledged, or of a later one.
Legitimate(k) ==
    LET acked == {i \in 1..Len(changes[k]) : pc[changes[k][i]] = "ok"}
    IN  {ValueOf(changes[k][i]) :
           i \in {i \in 1..Len(changes[k]) : \A j \in acked : j <= i}}
        \cup (IF acked = {} THEN {Absent} ELSE {})

\* An acknowledged change is on the disk and is never undone, by a slower call
\* that wrote an older state of the map, by a crash or by a power loss, as long
\* as one process at a time has the store open.
AcknowledgedIsKept ==
    path # Absent /\ ~shared /\ ~Unsafe =>
        \A k \in Keys : data[path][k] \in Legitimate(k)
=============================================================================
