----------------------------- MODULE ScreenProofs -----------------------------
(***************************************************************************)
(* Theorems about the screens of the daemon: PtyScreen, for any number of  *)
(* callers and any sizes (the ring buffer, what is forwarded, the end of a *)
(* screen, and its child), and DaemonFrames, for any ids and any number of *)
(* frames (the table of the screens).                                      *)
(***************************************************************************)
EXTENDS PtyScreen, DaemonFrames, SequenceTheorems, TLAPS

-----------------------------------------------------------------------------
(* PtyScreen: types and the output of the child.                           *)

Byte == Channels \X Nat
Chunk == Seq(Byte)

Simple ==
    /\ pty \in BOOLEAN
    /\ spawn \in {"idle", "failed", "started", "listed", "done"}
    /\ listed \in BOOLEAN
    /\ proc \in {"none", "running", "exited"}
    /\ child \in {"stored", "waited", "taken"}
    /\ exit_code \in {"none", "real", "zero"}
    /\ waiter \in {"off", "start", "waiting", "waited", "set", "done"}
    /\ writer \in BOOLEAN
    /\ status \in {"Running", "Terminated", Exited("real"), Exited("zero")}
    /\ fwd \in {"off", "on", "ended"}
    /\ call \in [Callers -> CallStates]
    /\ reader \in [Channels -> {"off", "reading", "sending", "asking", "ending",
                                "done"}]

\* The child has written no more than the bound, and nothing is read that it has
\* not written.
Counted ==
    /\ written \in [Channels -> Nat] /\ unread \in [Channels -> Nat]
    /\ written["out"] + written["err"] <= MaxBytes
    /\ \A c \in Channels : unread[c] <= written[c]

Chunks ==
    /\ hand \in [Channels -> Chunk]
    /\ printed \in Seq(Byte)
    /\ stream \in Seq(Chunk) /\ got \in Seq(Chunk)

LEMMA SimpleInit == Init => Simple
BY DEF Init, Simple, CallStates

LEMMA SimpleStep == Simple /\ [Next]_vars => Simple'
<1> SUFFICES ASSUME Simple, [Next]_vars PROVE Simple'
  OBVIOUS
<1> USE DEF Simple
<1>1. CASE SpawnNext
  <2>1. ASSUME NEW cs, Readers(cs)
        PROVE  reader' \in [Channels -> {"off", "reading", "sending", "asking",
                                         "ending", "done"}]
    BY <2>1 DEF Readers
  <2>2. CASE StartChild \/ StartFails \/ LetGo \/ List
    BY <2>2 DEF StartChild, StartFails, LetGo, List, procVars, fwdVars, outVars
  <2>3. CASE StartThreads
    BY <2>1, <2>3 DEF StartThreads, procVars
  <2>4. CASE ThreadFails
    <3>1. /\ spawn' = "failed" /\ waiter' \in {"off", "start"}
          /\ \E cs : Readers(cs)
          /\ UNCHANGED <<pty, listed, proc, child, exit_code, writer, status, fwd,
                         call>>
      BY <2>4 DEF ThreadFails, procVars, fwdVars
    <3> QED
      BY <2>1, <3>1
  <2> QED
    BY <1>1, <2>2, <2>3, <2>4 DEF SpawnNext
<1>2. CASE WaiterNext
  BY <1>2 DEF WaiterNext, TakeChild, Wait, WaitReturns, SetExited, SendEnd,
              HaveCode, Exited, procVars, fwdVars, outVars
<1>3. CASE TerminalEnd
  BY <1>3 DEF TerminalEnd, ReadExitCode, BroadcastEnd, Exited, procVars, fwdVars
<1>4. ASSUME NEW c \in Channels, ReaderNext(c) \/ ChildWrites(c)
      PROVE  Simple'
  BY <1>4 DEF ReaderNext, Read, Broadcast, ReadEnd, Leave, ChildWrites, procVars,
              fwdVars
<1>5. CASE ChildExits \/ Forward \/ ForwardStops
  BY <1>5 DEF ChildExits, Forward, Give, ForwardStops, procVars, fwdVars, outVars
<1>6. ASSUME NEW k \in Callers,
             LookUp(k) \/ WriteInput(k) \/ WriteReturns(k) \/ TerminateNext(k)
      PROVE  Simple'
  <2>1. CASE LookUp(k) \/ WriteInput(k) \/ WriteReturns(k)
    BY <2>1 DEF LookUp, WriteInput, WriteReturns, procVars, fwdVars, outVars,
                CallStates
  <2>2. CASE TerminateCloses(k)
    <3>1. call' \in [Callers -> CallStates]
      BY <2>2 DEF TerminateCloses, Advance, CallStates
    <3>2. writer' \in BOOLEAN
      BY <2>2, Zenon DEF TerminateCloses
    <3> QED
      BY <2>2, <3>1, <3>2 DEF TerminateCloses, procVars, fwdVars, outVars
  <2>3. CASE TerminateKills(k)
    <3>1. call' \in [Callers -> CallStates]
      BY <2>3 DEF TerminateKills, Advance, CallStates
    <3> QED
      BY <2>3, <3>1 DEF TerminateKills, fwdVars, outVars
  <2>4. CASE TerminateMarks(k)
    <3>1. call' \in [Callers -> CallStates]
      BY <2>4 DEF TerminateMarks, Advance, CallStates
    <3> QED
      BY <2>4, <3>1 DEF TerminateMarks, procVars, fwdVars, outVars
  <2>5. CASE CleanupRemoves(k)
    <3>1. call' \in [Callers -> CallStates]
      BY <2>5 DEF CleanupRemoves, CallStates
    <3>2. listed' \in BOOLEAN
      BY <2>5, Zenon DEF CleanupRemoves
    <3> QED
      BY <2>5, <3>1, <3>2 DEF CleanupRemoves, procVars, fwdVars, outVars
  <2> QED
    BY <1>6, <2>1, <2>2, <2>3, <2>4, <2>5 DEF TerminateNext
<1>7. CASE UNCHANGED vars
  BY <1>7 DEF vars, procVars, outVars, fwdVars
<1> QED
  BY <1>1, <1>2, <1>3, <1>4, <1>5, <1>6, <1>7 DEF Next

\* What a reader reads next are bytes that were written and not yet read.
LEMMA BytesTyped ==
    ASSUME Counted, NEW c \in Channels, NEW n \in 1..unread[c]
    PROVE  Bytes(c, n) \in Chunk /\ Len(Bytes(c, n)) = n /\ n \in Nat
<1>1. unread[c] \in Nat /\ written[c] \in Nat /\ unread[c] <= written[c] /\ n \in Nat
  BY DEF Counted
<1>2. Bytes(c, n) \in [1..n -> Byte]
  BY <1>1 DEF Bytes, Byte
<1>3. Bytes(c, n) \in Seq(Byte)
  BY <1>1, <1>2, SeqDef
<1>4. DOMAIN Bytes(c, n) = 1..n
  BY DEF Bytes
<1> QED
  BY <1>1, <1>3, <1>4, LenProperties DEF Chunk

\* The steps that touch the output: all others leave outVars and stream alone.
LEMMA OutputSteps ==
    [Next]_vars =>
        \/ UNCHANGED <<written, unread, hand, printed, ring, stream>>
        \/ \E c \in Channels : ChildWrites(c) \/ Read(c) \/ Broadcast(c)
        \/ SendEnd \/ BroadcastEnd
<1> SUFFICES ASSUME [Next]_vars,
                    ~\E c \in Channels : ChildWrites(c) \/ Read(c) \/ Broadcast(c),
                    ~SendEnd, ~BroadcastEnd
             PROVE  UNCHANGED <<written, unread, hand, printed, ring, stream>>
  OBVIOUS
<1>1. CASE SpawnNext
  BY <1>1 DEF SpawnNext, StartChild, StartFails, LetGo, List, StartThreads,
              ThreadFails, outVars
<1>2. CASE WaiterNext \/ TerminalEnd
  BY <1>2 DEF WaiterNext, TakeChild, WaitReturns, SetExited, TerminalEnd,
              ReadExitCode, outVars
<1>3. CASE \E c \in Channels : ReaderNext(c) \/ ChildWrites(c)
  BY <1>3 DEF ReaderNext, ReadEnd, Leave
<1>4. CASE ChildExits \/ Forward \/ ForwardStops
  BY <1>4 DEF ChildExits, Forward, Give, ForwardStops, outVars
<1>5. ASSUME NEW k \in Callers,
             LookUp(k) \/ WriteInput(k) \/ WriteReturns(k) \/ TerminateNext(k)
      PROVE  UNCHANGED <<written, unread, hand, printed, ring, stream>>
  BY <1>5 DEF LookUp, WriteInput, WriteReturns, TerminateNext, TerminateCloses,
              TerminateKills, TerminateMarks, CleanupRemoves, outVars
<1>6. CASE UNCHANGED vars
  BY <1>6 DEF vars, outVars
<1> QED
  BY <1>1, <1>2, <1>3, <1>4, <1>5, <1>6 DEF Next

\* The forwarder's chunks are given to the tunnel by Forward alone.
LEMMA GotSteps == [Next]_vars => UNCHANGED got \/ Forward
<1> SUFFICES ASSUME [Next]_vars, ~Forward PROVE UNCHANGED got
  OBVIOUS
<1>1. CASE SpawnNext \/ WaiterNext \/ TerminalEnd
  BY <1>1 DEF SpawnNext, StartChild, StartFails, LetGo, List, StartThreads,
              ThreadFails, WaiterNext, TakeChild, WaitReturns, SetExited, SendEnd,
              TerminalEnd, ReadExitCode, BroadcastEnd, fwdVars
<1>2. ASSUME NEW c \in Channels, ReaderNext(c) \/ ChildWrites(c)
      PROVE  UNCHANGED got
  BY <1>2 DEF ReaderNext, Read, Broadcast, ReadEnd, Leave, ChildWrites, fwdVars
<1>3. CASE ChildExits \/ ForwardStops
  BY <1>3 DEF ChildExits, ForwardStops, fwdVars
<1>4. ASSUME NEW k \in Callers,
             LookUp(k) \/ WriteInput(k) \/ WriteReturns(k) \/ TerminateNext(k)
      PROVE  UNCHANGED got
  BY <1>4 DEF LookUp, WriteInput, WriteReturns, TerminateNext, TerminateCloses,
              TerminateKills, TerminateMarks, CleanupRemoves, fwdVars
<1>5. CASE UNCHANGED vars
  BY <1>5 DEF vars, fwdVars
<1> QED
  BY <1>1, <1>2, <1>3, <1>4, <1>5 DEF Next

OutInv == Counted /\ Chunks

LEMMA OutInit == Init => OutInv
<1> SUFFICES ASSUME Init PROVE OutInv
  OBVIOUS
<1>1. EOF \in Chunk /\ <<>> \in Seq(Byte) /\ <<>> \in Seq(Chunk)
  BY EmptySeq DEF EOF, Chunk
<1>2. MaxBytes \in Nat
  BY SizesAssumption
<1>3. Counted
  BY <1>2 DEF Init, Counted, Channels
<1> QED
  BY <1>1, <1>3 DEF Init, OutInv, Chunks

LEMMA OutStep == OutInv /\ [Next]_vars => OutInv'
<1> SUFFICES ASSUME OutInv, [Next]_vars PROVE OutInv'
  OBVIOUS
<1>1. Counted /\ Chunks
  BY DEF OutInv
<1>2. MaxBytes \in Nat
  BY SizesAssumption
<1>3. ASSUME UNCHANGED <<written, unread, hand, printed, ring, stream>>
      PROVE  Counted' /\ hand' \in [Channels -> Chunk] /\ printed' \in Seq(Byte)
             /\ stream' \in Seq(Chunk)
  BY <1>1, <1>3 DEF Counted, Chunks
<1>4. ASSUME NEW c \in Channels, ChildWrites(c)
      PROVE  Counted' /\ hand' \in [Channels -> Chunk] /\ printed' \in Seq(Byte)
             /\ stream' \in Seq(Chunk)
  <2>1. Counted'
    BY <1>1, <1>2, <1>4 DEF Counted, ChildWrites, Channels
  <2> QED
    BY <1>1, <1>4, <2>1 DEF Chunks, ChildWrites
<1>5. ASSUME NEW c \in Channels, Read(c)
      PROVE  Counted' /\ hand' \in [Channels -> Chunk] /\ printed' \in Seq(Byte)
             /\ stream' \in Seq(Chunk)
  <2>1. PICK n \in 1..unread[c] :
          /\ unread' = [unread EXCEPT ![c] = @ - n]
          /\ hand' = [hand EXCEPT ![c] = Bytes(c, n)]
          /\ printed' = printed \o Bytes(c, n)
    BY <1>5 DEF Read
  <2>2. Bytes(c, n) \in Chunk /\ n \in Nat
    BY <1>1, BytesTyped
  <2>3. written' = written /\ stream' = stream
    BY <1>5 DEF Read
  <2>4. Counted'
    BY <1>1, <2>1, <2>2, <2>3 DEF Counted, Channels
  <2>5. printed' \in Seq(Byte)
    BY <1>1, <2>1, <2>2, ConcatProperties DEF Chunks, Chunk
  <2> QED
    BY <1>1, <2>1, <2>2, <2>3, <2>4, <2>5 DEF Chunks
<1>6. ASSUME NEW c \in Channels, Broadcast(c)
      PROVE  Counted' /\ hand' \in [Channels -> Chunk] /\ printed' \in Seq(Byte)
             /\ stream' \in Seq(Chunk)
  <2>1. EOF \in Chunk
    BY EmptySeq DEF EOF, Chunk
  <2>2. Counted'
    BY <1>1, <1>6 DEF Counted, Broadcast
  <2>3. stream' \in Seq(Chunk)
    BY <1>1, <1>6, AppendProperties DEF Chunks, Broadcast
  <2> QED
    BY <1>1, <1>6, <2>1, <2>2, <2>3 DEF Chunks, Broadcast
<1>7. ASSUME SendEnd \/ BroadcastEnd
      PROVE  Counted' /\ hand' \in [Channels -> Chunk] /\ printed' \in Seq(Byte)
             /\ stream' \in Seq(Chunk)
  <2>1. EOF \in Chunk
    BY EmptySeq DEF EOF, Chunk
  <2>2. Append(stream, EOF) \in Seq(Chunk)
    BY <1>1, <2>1, AppendProperties DEF Chunks
  <2> QED
    BY <1>1, <1>7, <2>2 DEF Counted, Chunks, SendEnd, BroadcastEnd, outVars
<1>8. got' \in Seq(Chunk)
  <2>1. CASE UNCHANGED got
    BY <1>1, <2>1 DEF Chunks
  <2>2. CASE Forward
    <3>1. /\ Len(stream) \in Nat /\ Len(got) \in Nat
          /\ Len(got) + 1 \in 1..Len(stream)
          /\ got' = Append(got, stream[Len(got) + 1])
      <4>1. Len(stream) \in Nat /\ Len(got) \in Nat
        BY <1>1, LenProperties DEF Chunks
      <4> QED
        BY <2>2, <4>1, SizesAssumption DEF Forward, Behind, Give
    <3>2. stream[Len(got) + 1] \in Chunk
      BY <1>1, <3>1, ElementOfSeq DEF Chunks
    <3> QED
      BY <1>1, <3>1, <3>2, AppendProperties DEF Chunks
  <2> QED
    BY <2>1, <2>2, GotSteps
<1> QED
  BY <1>3, <1>4, <1>5, <1>6, <1>7, <1>8, OutputSteps DEF OutInv, Chunks

-----------------------------------------------------------------------------
(* Forwarding.                                                             *)

\* IsPrefix, element by element.
LEMMA PrefixIs ==
    ASSUME NEW S, NEW g \in Seq(S), NEW s \in Seq(S)
    PROVE  IsPrefix(g, s) <=>
             Len(g) <= Len(s) /\ \A i \in 1..Len(g) : g[i] = s[i]
<1>1. Len(g) \in Nat /\ Len(s) \in Nat
  BY LenProperties
<1>2. SubSeq(g, 1, Len(g)) = g
  BY SubSeqFull
<1> SUFFICES ASSUME Len(g) <= Len(s)
             PROVE  g = SubSeq(s, 1, Len(g)) <=> \A i \in 1..Len(g) : g[i] = s[i]
  BY <1>2 DEF IsPrefix
<1>3. \A i \in 1..Len(g) : s[i] \in S
  BY <1>1, ElementOfSeq
<1>4. /\ SubSeq(s, 1, Len(g)) \in Seq(S) /\ Len(SubSeq(s, 1, Len(g))) = Len(g)
      /\ \A i \in 1..Len(g) : SubSeq(s, 1, Len(g))[i] = s[i]
  BY <1>1, <1>3, SubSeqProperties
<1> HIDE DEF IsPrefix
<1> DEFINE p == SubSeq(s, 1, Len(g))
<1> HIDE DEF p
<1>5. /\ p \in Seq(S) /\ Len(p) = Len(g)
      /\ \A i \in 1..Len(g) : p[i] = s[i]
  BY <1>4 DEF p
<1>6. g = p <=> \A i \in 1..Len(g) : g[i] = s[i]
  BY <1>5, SeqEqual
<1> QED
  BY <1>6 DEF p

PrefixInv == OutInv /\ ForwardedWithoutGaps

LEMMA PrefixStep == PrefixInv /\ [Next]_vars => PrefixInv'
<1> SUFFICES ASSUME PrefixInv, [Next]_vars PROVE PrefixInv'
  OBVIOUS
<1>1. OutInv /\ OutInv'
  BY OutStep DEF PrefixInv
<1>2. /\ stream \in Seq(Chunk) /\ got \in Seq(Chunk)
      /\ stream' \in Seq(Chunk) /\ got' \in Seq(Chunk)
      /\ Len(stream) \in Nat /\ Len(got) \in Nat
  BY <1>1, LenProperties DEF OutInv, Chunks
<1>3. Len(got) <= Len(stream) /\ \A i \in 1..Len(got) : got[i] = stream[i]
  BY <1>2, PrefixIs DEF PrefixInv, ForwardedWithoutGaps
<1>4. CASE Forward
  <2>1. /\ Len(got) + 1 <= Len(stream)
        /\ got' = Append(got, stream[Len(got) + 1]) /\ stream' = stream
    BY <1>2, <1>4, SizesAssumption DEF Forward, Behind, Give
  <2>2. stream[Len(got) + 1] \in Chunk
    BY <1>2, <2>1, ElementOfSeq
  <2>3. /\ Len(got') = Len(got) + 1 /\ got'[Len(got) + 1] = stream[Len(got) + 1]
        /\ \A i \in 1..Len(got) : got'[i] = got[i]
    BY <1>2, <2>1, <2>2, AppendProperties
  <2>4. \A i \in 1..Len(got') : i \in 1..Len(got) \/ i = Len(got) + 1
    BY <1>2, <2>3
  <2>5. Len(got') <= Len(stream') /\ \A i \in 1..Len(got') : got'[i] = stream'[i]
    BY <1>3, <2>1, <2>3, <2>4
  <2>6. IsPrefix(got', stream')
    BY <1>2, <2>5, PrefixIs
  <2> QED
    BY <1>1, <2>6 DEF PrefixInv, ForwardedWithoutGaps
<1>5. CASE ~Forward
  <2>1. got' = got
    BY <1>5, GotSteps
  <2>2. \/ stream' = stream
        \/ \E chunk \in Chunk : stream' = Append(stream, chunk)
    <3>1. EOF \in Chunk /\ \A c \in Channels : hand[c] \in Chunk
      BY <1>1, EmptySeq DEF EOF, Chunk, OutInv, Chunks
    <3> QED
      BY <3>1, OutputSteps DEF ChildWrites, Read, Broadcast, SendEnd, BroadcastEnd
  <2>3. /\ Len(stream) <= Len(stream')
        /\ \A i \in 1..Len(stream) : stream'[i] = stream[i]
    BY <1>2, <2>2, AppendProperties
  <2>4. Len(got') <= Len(stream') /\ \A i \in 1..Len(got') : got'[i] = stream'[i]
    BY <1>2, <1>3, <2>1, <2>3
  <2>5. IsPrefix(got', stream')
    BY <1>2, <2>4, PrefixIs
  <2> QED
    BY <1>1, <2>5 DEF PrefixInv, ForwardedWithoutGaps
<1> QED
  BY <1>4, <1>5

\* What the tunnel is given of a screen is a prefix of what was broadcast,
\* whatever the backlog of the channel: a forwarder that lags stops, it does
\* not skip.
THEOREM ForwardedPrefix == Spec => []ForwardedWithoutGaps
<1>1. Init => PrefixInv
  <2> SUFFICES ASSUME Init PROVE PrefixInv
    OBVIOUS
  <2>1. OutInv /\ got = <<>> /\ stream = <<>>
    BY OutInit DEF Init
  <2>2. <<>> \in Seq(Chunk) /\ Len(<<>>) = 0
    BY EmptySeq
  <2>3. IsPrefix(<<>>, <<>>)
    BY <2>2 DEF IsPrefix
  <2> QED
    BY <2>1, <2>3 DEF PrefixInv, ForwardedWithoutGaps
<1>2. PrefixInv => ForwardedWithoutGaps
  BY DEF PrefixInv
<1> QED
  BY <1>1, <1>2, PrefixStep, PTL DEF Spec

-----------------------------------------------------------------------------
(* The ring buffer.                                                        *)

\* The last bytes of p, as many as the ring has room for.
LastOf(p) ==
    IF Len(p) <= RingSize THEN p ELSE SubSeq(p, Len(p) - RingSize + 1, Len(p))

\* The end of s, of n elements.
EndOf(r, s, n) ==
    /\ Len(r) = n /\ n <= Len(s)
    /\ \A i \in 1..n : r[i] = s[Len(s) - n + i]

Least(a, b) == IF a <= b THEN a ELSE b

LEMMA RingSizeIsNat == RingSize \in Nat \ {0}
BY SizesAssumption DEF RingSize

LEMMA SubSeqEnd ==
    ASSUME NEW S, NEW s \in Seq(S), NEW n \in 0..Len(s)
    PROVE  /\ SubSeq(s, Len(s) - n + 1, Len(s)) \in Seq(S)
           /\ EndOf(SubSeq(s, Len(s) - n + 1, Len(s)), s, n)
<1>1. Len(s) \in Nat /\ n \in Nat /\ n <= Len(s)
  BY LenProperties
<1> DEFINE m == Len(s) - n + 1
<1>2. m \in 1..(Len(s) + 1) /\ m \in Int /\ Len(s) \in Int
  BY <1>1
<1>3. \A i \in m..Len(s) : s[i] \in S
  <2>1. \A i \in m..Len(s) : i \in 1..Len(s)
    BY <1>1, <1>2
  <2> QED
    BY <2>1, ElementOfSeq
<1> HIDE DEF m
<1>4. /\ SubSeq(s, m, Len(s)) \in Seq(S)
      /\ Len(SubSeq(s, m, Len(s))) = IF m <= Len(s) THEN Len(s) - m + 1 ELSE 0
      /\ \A i \in 1..Len(s) - m + 1 : SubSeq(s, m, Len(s))[i] = s[m + i - 1]
  BY <1>2, <1>3, SubSeqProperties
<1> DEFINE r == SubSeq(s, m, Len(s))
<1> HIDE DEF r
<1>5. /\ r \in Seq(S)
      /\ Len(r) = IF m <= Len(s) THEN Len(s) - m + 1 ELSE 0
      /\ \A i \in 1..Len(s) - m + 1 : r[i] = s[m + i - 1]
  BY <1>4 DEF r
<1>6. Len(r) = n
  BY <1>1, <1>5 DEF m
<1>7. ASSUME NEW i \in 1..n PROVE r[i] = s[Len(s) - n + i]
  <2>1. i \in 1..Len(s) - m + 1 /\ m + i - 1 = Len(s) - n + i
    BY <1>1 DEF m
  <2> QED
    BY <1>5, <2>1
<1>8. r \in Seq(S) /\ EndOf(r, s, n)
  BY <1>1, <1>5, <1>6, <1>7 DEF EndOf
<1> QED
  BY <1>8 DEF r, m

LEMMA LastOfIs ==
    ASSUME NEW S, NEW p \in Seq(S)
    PROVE  LastOf(p) \in Seq(S) /\ EndOf(LastOf(p), p, Least(Len(p), RingSize))
<1>1. Len(p) \in Nat /\ RingSize \in Nat
  BY LenProperties, RingSizeIsNat
<1>2. CASE Len(p) <= RingSize
  BY <1>1, <1>2 DEF LastOf, EndOf, Least
<1>3. CASE ~(Len(p) <= RingSize)
  <2>1. RingSize \in 0..Len(p)
    BY <1>1, <1>3
  <2> QED
    BY <1>3, <2>1, SubSeqEnd DEF LastOf, Least
<1> QED
  BY <1>2, <1>3

\* The two parts of a concatenation.
LEMMA ConcatParts ==
    ASSUME NEW S, NEW g \in Seq(S), NEW h \in Seq(S)
    PROVE  /\ g \o h \in Seq(S)
           /\ Len(g \o h) = Len(g) + Len(h)
           /\ \A i \in 1..Len(g) : (g \o h)[i] = g[i]
           /\ \A i \in 1..Len(h) : (g \o h)[Len(g) + i] = h[i]
<1>1. Len(g) \in Nat /\ Len(h) \in Nat
  BY LenProperties
<1>2. /\ g \o h \in Seq(S) /\ Len(g \o h) = Len(g) + Len(h)
      /\ \A k \in 1..Len(g) + Len(h) :
           (g \o h)[k] = IF k <= Len(g) THEN g[k] ELSE h[k - Len(g)]
  BY ConcatProperties
<1>3. ASSUME NEW i \in 1..Len(g) PROVE (g \o h)[i] = g[i]
  BY <1>1, <1>2
<1>4. ASSUME NEW i \in 1..Len(h) PROVE (g \o h)[Len(g) + i] = h[i]
  <2>1. /\ Len(g) + i \in 1..Len(g) + Len(h) /\ ~(Len(g) + i <= Len(g))
        /\ (Len(g) + i) - Len(g) = i
    BY <1>1
  <2> QED
    BY <1>2, <2>1
<1> QED
  BY <1>2, <1>3, <1>4

LEMMA EndsEqual ==
    ASSUME NEW S, NEW q \in Seq(S), NEW r \in Seq(S), NEW s \in Seq(S), NEW n,
           EndOf(q, s, n), EndOf(r, s, n)
    PROVE  q = r
<1>1. Len(q) = Len(r) /\ \A i \in 1..Len(q) : q[i] = r[i]
  BY DEF EndOf
<1> QED
  BY <1>1, SeqEqual

\* RingBuffer::write of data into a ring that has the end of p leaves there the
\* end of p and data, whatever their lengths.
LEMMA RingWrite ==
    ASSUME NEW S, NEW p \in Seq(S), NEW d \in Seq(S)
    PROVE  ring_write(LastOf(p), d) = LastOf(p \o d)
<1> DEFINE old == LastOf(p)
           N == RingSize
           s == p \o d
           m == Least(Len(s), N)
<1>1. Len(p) \in Nat /\ Len(d) \in Nat /\ N \in Nat /\ N >= 1
  BY LenProperties, RingSizeIsNat
<1>2. old \in Seq(S) /\ EndOf(old, p, Least(Len(p), N))
  BY LastOfIs
<1>3. /\ s \in Seq(S) /\ Len(s) = Len(p) + Len(d)
      /\ \A i \in 1..Len(p) : s[i] = p[i]
      /\ \A i \in 1..Len(d) : s[Len(p) + i] = d[i]
  BY ConcatParts
<1> HIDE DEF old, N, s
<1>4. LastOf(s) \in Seq(S) /\ EndOf(LastOf(s), s, m)
  BY <1>3, LastOfIs DEF N
<1>5. /\ Len(old) \in Nat /\ Len(old) = Least(Len(p), N) /\ Len(old) <= Len(p)
      /\ m \in Nat /\ m <= Len(s)
  BY <1>1, <1>2, <1>3 DEF EndOf, Least
<1> HIDE DEF m
<1>6. \A j \in 1..Len(old) : old[j] = p[Len(p) - Len(old) + j]
  BY <1>2, <1>5 DEF EndOf
\* old followed by data, without its first x bytes
<1>7. ASSUME NEW x \in 0..Len(old), NEW q \in Seq(S), EndOf(q, old, Len(old) - x),
             m = Len(old) - x + Len(d)
      PROVE  q \o d = LastOf(s)
  <2> DEFINE g == q \o d
  <2>1. /\ g \in Seq(S) /\ Len(g) = Len(q) + Len(d)
        /\ \A i \in 1..Len(q) : g[i] = q[i]
        /\ \A i \in 1..Len(d) : g[Len(q) + i] = d[i]
    BY ConcatParts
  <2> HIDE DEF g
  <2>2. Len(q) = Len(old) - x /\ Len(q) \in Nat /\ Len(g) = m
    BY <1>5, <1>7, <2>1 DEF EndOf
  <2>3. Len(s) - m \in Nat /\ Len(s) - m = Len(p) - Len(q)
    BY <1>1, <1>3, <1>5, <1>7, <2>2
  <2>4. ASSUME NEW i \in 1..Len(q) PROVE g[i] = s[Len(s) - m + i]
    <3>1. g[i] = q[i] /\ q[i] = old[x + i] /\ x + i \in 1..Len(old)
      <4>1. Len(old) - (Len(old) - x) + i = x + i /\ i \in 1..Len(old) - x
        BY <1>5, <2>2
      <4>2. x + i \in 1..Len(old)
        BY <1>5, <4>1
      <4> QED
        BY <1>7, <2>1, <4>1, <4>2 DEF EndOf
    <3>2. old[x + i] = p[Len(p) - Len(old) + (x + i)]
      BY <1>6, <3>1
    <3>3. /\ Len(p) - Len(old) + (x + i) = Len(s) - m + i
          /\ Len(s) - m + i \in 1..Len(p)
      <4>1. x \in Nat /\ i \in Nat /\ i >= 1 /\ i <= Len(q)
        BY <1>5, <2>2
      <4>2. Len(p) - Len(old) + (x + i) = Len(p) - Len(q) + i
        BY <1>1, <1>5, <2>2, <4>1
      <4>3. Len(p) - Len(q) + i \in 1..Len(p)
        BY <1>1, <2>2, <2>3, <4>1
      <4> QED
        BY <2>3, <4>2, <4>3
    <3> QED
      BY <1>3, <3>1, <3>2, <3>3
  <2>5. ASSUME NEW i \in 1..Len(d) PROVE g[Len(q) + i] = s[Len(s) - m + (Len(q) + i)]
    <3>1. Len(s) - m + (Len(q) + i) = Len(p) + i
      BY <1>1, <1>3, <2>2, <2>3
    <3> QED
      BY <1>3, <2>1, <3>1
  <2>6. ASSUME NEW i \in 1..m PROVE g[i] = s[Len(s) - m + i]
    <3>1. CASE i \in 1..Len(q)
      BY <2>4, <3>1
    <3>2. CASE i \notin 1..Len(q)
      <4>1. i - Len(q) \in 1..Len(d) /\ i = Len(q) + (i - Len(q))
        BY <1>1, <2>1, <2>2, <3>2
      <4> QED
        BY <2>5, <4>1
    <3> QED
      BY <3>1, <3>2
  <2>7. EndOf(g, s, m)
    BY <1>5, <2>2, <2>6 DEF EndOf
  <2>8. g = LastOf(s)
    BY <1>3, <1>4, <2>1, <2>7, EndsEqual
  <2> QED
    BY <2>8 DEF g
<1>8. CASE Len(d) >= N
  <2> DEFINE g == SubSeq(d, Len(d) - N + 1, Len(d))
  <2>1. N \in 0..Len(d)
    BY <1>1, <1>8
  <2>2. g \in Seq(S) /\ EndOf(g, d, N)
    BY <2>1, SubSeqEnd
  <2> HIDE DEF g
  <2>3. m = N
    BY <1>1, <1>3, <1>8 DEF Least, m
  <2>4. ASSUME NEW i \in 1..N PROVE g[i] = s[Len(s) - N + i]
    <3>1. /\ Len(d) - N + i \in 1..Len(d)
          /\ Len(s) - N + i = Len(p) + (Len(d) - N + i)
      BY <1>1, <1>3, <1>8
    <3> QED
      BY <1>3, <2>2, <3>1 DEF EndOf
  <2>5. EndOf(g, s, m)
    BY <1>1, <1>3, <1>8, <2>2, <2>3, <2>4 DEF EndOf
  <2>6. g = LastOf(s)
    BY <1>3, <1>4, <2>2, <2>5, EndsEqual
  <2>7. ring_write(old, d) = g
    BY <1>8 DEF ring_write, g, N
  <2> QED
    BY <2>6, <2>7 DEF old, s
<1>9. CASE Len(d) < N /\ Len(old) + Len(d) - N > 0
  <2> DEFINE x == Len(old) + Len(d) - N
             q == SubSeq(old, x + 1, Len(old))
  <2>1. x \in 0..Len(old) /\ Len(old) - x \in 0..Len(old) /\ x \in Int
        /\ Len(old) - (Len(old) - x) + 1 = x + 1
    BY <1>1, <1>5, <1>9
  <2>2. m = Len(old) - x + Len(d)
    BY <1>1, <1>3, <1>5, <1>9 DEF Least, m
  <2> HIDE DEF x
  <2>3. q \in Seq(S) /\ EndOf(q, old, Len(old) - x)
    BY <1>2, <2>1, SubSeqEnd
  <2> HIDE DEF q
  <2>4. q \o d = LastOf(s)
    BY <1>7, <2>1, <2>2, <2>3
  <2>5. ring_write(old, d) = q \o d
    <3>1. ~(Len(d) >= RingSize) /\ Len(old) + Len(d) - RingSize > 0
      BY <1>1, <1>9 DEF N
    <3> QED
      BY <3>1 DEF ring_write, q, x, N
  <2> QED
    BY <2>4, <2>5 DEF old, s
<1>10. CASE Len(d) < N /\ ~(Len(old) + Len(d) - N > 0)
  <2>1. 0 \in 0..Len(old) /\ m = Len(old) - 0 + Len(d)
    BY <1>1, <1>3, <1>5, <1>10 DEF Least, m
  <2>2. EndOf(old, old, Len(old) - 0)
    BY <1>5 DEF EndOf
  <2>3. old \o d = LastOf(s)
    BY <1>2, <1>7, <2>1, <2>2
  <2>4. ring_write(old, d) = old \o d
    BY <1>1, <1>10 DEF ring_write, N
  <2> QED
    BY <2>3, <2>4 DEF old, s
<1> QED
  BY <1>1, <1>5, <1>8, <1>9, <1>10

RingInv == OutInv /\ ring = LastOf(printed)

LEMMA RingStep == RingInv /\ [Next]_vars => RingInv'
<1> SUFFICES ASSUME RingInv, [Next]_vars PROVE RingInv'
  OBVIOUS
<1>1. OutInv /\ OutInv' /\ printed \in Seq(Byte)
  BY OutStep DEF RingInv, OutInv, Chunks
<1>2. ASSUME NEW c \in Channels, Read(c) PROVE ring' = LastOf(printed')
  <2>1. PICK n \in 1..unread[c] :
          /\ ring' = ring_write(ring, Bytes(c, n))
          /\ printed' = printed \o Bytes(c, n)
    BY <1>2 DEF Read
  <2>2. Bytes(c, n) \in Seq(Byte)
    BY <1>1, BytesTyped DEF OutInv, Chunk
  <2> QED
    BY <1>1, <2>1, <2>2, RingWrite DEF RingInv
<1>3. CASE ~\E c \in Channels : Read(c)
  <2>1. UNCHANGED <<ring, printed>>
    BY <1>3, OutputSteps DEF ChildWrites, Broadcast, SendEnd, BroadcastEnd, outVars
  <2> QED
    BY <1>1, <2>1 DEF RingInv
<1> QED
  BY <1>1, <1>2, <1>3 DEF RingInv

LEMMA RingInit == Init => RingInv
<1> SUFFICES ASSUME Init PROVE RingInv
  OBVIOUS
<1>1. OutInv /\ ring = <<>> /\ printed = <<>>
  BY OutInit DEF Init
<1>2. Len(<<>>) = 0 /\ RingSize \in Nat
  BY EmptySeq, RingSizeIsNat
<1>3. LastOf(<<>>) = <<>>
  BY <1>2 DEF LastOf
<1> QED
  BY <1>1, <1>3 DEF RingInv

\* get_history returns the last bytes the readers have read, as many as fit,
\* for every capacity (zero included), chunk size and order of the channels.
THEOREM HistorySuffix == Spec => []HistoryIsSuffix
<1>1. RingInv => HistoryIsSuffix
  BY DEF RingInv, HistoryIsSuffix, LastOf
<1> QED
  BY <1>1, RingInit, RingStep, PTL DEF Spec

\* Every variable keeps its type, the child's output its bound and the ring its
\* capacity.
THEOREM TypeCorrect == Spec => []TypeOK
<1>1. Simple /\ RingInv => TypeOK
  <2> SUFFICES ASSUME Simple, RingInv PROVE TypeOK
    OBVIOUS
  <2>1. MaxBytes \in Nat /\ Counted /\ printed \in Seq(Byte)
    BY SizesAssumption DEF RingInv, OutInv, Chunks
  <2>2. /\ written \in [Channels -> 0..MaxBytes]
        /\ unread \in [Channels -> 0..MaxBytes]
    BY <2>1 DEF Counted, Channels
  <2>3. Len(ring) <= RingSize
    <3>1. EndOf(ring, printed, Least(Len(printed), RingSize))
      BY <2>1, LastOfIs DEF RingInv
    <3>2. Len(printed) \in Nat /\ RingSize \in Nat
      BY <2>1, LenProperties, RingSizeIsNat
    <3> QED
      BY <3>1, <3>2 DEF EndOf, Least
  <2> QED
    BY <2>2, <2>3 DEF TypeOK, Simple
<1> QED
  BY <1>1, SimpleInit, SimpleStep, RingInit, RingStep, PTL DEF Spec

-----------------------------------------------------------------------------
(* The end of a screen.                                                    *)

\* Nothing is broadcast before the threads begin.
Quiet ==
    spawn \in {"idle", "started", "listed"} =>
        waiter = "off" /\ (\A c \in Channels : reader[c] = "off") /\ stream = <<>>

\* Of a pseudo terminal the reader reports the end, on pipes the waiter.
Reporter ==
    /\ pty => reader["err"] = "off" /\ waiter \notin {"waited", "set"}
    /\ ~pty => \A c \in Channels : reader[c] \notin {"asking", "ending"}

\* A reader has a chunk in hand while it sends, and that is not an end.
InHand == \A c \in Channels : hand[c] = EOF <=> reader[c] # "sending"

\* A terminal's reader leaves its loop when nothing is left or will come.
Drained ==
    pty /\ reader["out"] \in {"asking", "ending", "done"} =>
        proc = "exited" /\ unread["out"] = 0

\* The end has been broadcast by who is done with it.
EndOnce ==
    \A n \in Ends :
        /\ Ends = {n}
        /\ IF pty THEN n = Len(stream) /\ reader["out"] = "done"
           ELSE waiter = "done"

EndInv ==
    Simple /\ OutInv /\ Quiet /\ Reporter /\ InHand /\ Drained /\ EndOnce

LEMMA EndImplies == EndInv => EofIsLast
<1> SUFFICES ASSUME EndInv, NEW n \in Ends
             PROVE  /\ Ends = {n}
                    /\ pty => n = Len(stream) /\ unread["out"] = 0 /\ hand["out"] = EOF
  BY DEF EofIsLast
<1>1. Ends = {n} /\ (pty => n = Len(stream) /\ reader["out"] = "done")
  BY DEF EndInv, EndOnce
<1> QED
  BY <1>1 DEF EndInv, InHand, Drained, Channels

LEMMA EndInit == Init => EndInv
<1> SUFFICES ASSUME Init PROVE EndInv
  OBVIOUS
<1>1. Simple /\ OutInv
  BY SimpleInit, OutInit
<1>2. Ends = {}
  BY EmptySeq DEF Init, Ends
<1> QED
  BY <1>1, <1>2 DEF Init, EndInv, Quiet, Reporter, InHand, Drained, EndOnce, Channels

\* The ends of a stream to which a chunk is appended.
LEMMA EndsAppend ==
    ASSUME stream \in Seq(Chunk), NEW chunk \in Chunk,
           stream' = Append(stream, chunk)
    PROVE  Ends' = Ends \cup (IF chunk = EOF THEN {Len(stream) + 1} ELSE {})
           /\ Len(stream') = Len(stream) + 1
<1>1. /\ Len(stream) \in Nat /\ Len(stream') = Len(stream) + 1
      /\ stream'[Len(stream) + 1] = chunk
      /\ \A i \in 1..Len(stream) : stream'[i] = stream[i]
  BY AppendProperties, LenProperties
<1>2. \A i : i \in 1..Len(stream') <=> i \in 1..Len(stream) \/ i = Len(stream) + 1
  BY <1>1
<1>3. \A i : i \in Ends' <=> i \in Ends \/ (i = Len(stream) + 1 /\ chunk = EOF)
  BY <1>1, <1>2 DEF Ends, EOF
<1> QED
  BY <1>1, <1>3

\* A step that leaves the stream alone.
LEMMA EndsSame ==
    ASSUME stream' = stream
    PROVE  Ends' = Ends
BY DEF Ends, EOF

LEMMA EndStep == EndInv /\ [Next]_vars => EndInv'
<1> SUFFICES ASSUME EndInv, [Next]_vars PROVE EndInv'
  OBVIOUS
<1>1. Simple /\ Simple' /\ OutInv /\ OutInv'
  BY SimpleStep, OutStep DEF EndInv
<1> USE DEF EndInv, Quiet, Reporter, InHand, Drained, EndOnce, Channels
<1>2. CASE SpawnNext
  <2>1. Ends' = Ends
    BY <1>2, EndsSame DEF SpawnNext, StartChild, StartFails, LetGo, List,
                          StartThreads, ThreadFails
  <2>2. CASE StartChild \/ StartFails \/ LetGo \/ List
    BY <1>1, <2>1, <2>2 DEF StartChild, StartFails, LetGo, List, outVars, procVars
  <2>3. CASE StartThreads \/ ThreadFails
    <3>1. spawn = "listed" /\ stream = <<>> /\ spawn' \in {"done", "failed"}
      BY <2>3 DEF StartThreads, ThreadFails
    <3>2. Ends = {}
      BY <3>1, EmptySeq DEF Ends
    <3>3. CASE StartThreads
      BY <1>1, <2>1, <3>1, <3>2, <3>3 DEF StartThreads, Readers, MyChannels, Simple
    <3>4. CASE ThreadFails
      BY <1>1, <2>1, <3>1, <3>2, <3>4 DEF ThreadFails, Readers, Simple
    <3> QED
      BY <2>3, <3>3, <3>4
  <2> QED
    BY <1>2, <2>2, <2>3 DEF SpawnNext
<1>3. CASE TakeChild \/ WaitReturns \/ SetExited
  <2>1. Ends' = Ends
    BY <1>3, EndsSame DEF TakeChild, WaitReturns, SetExited
  <2> QED
    BY <1>1, <1>3, <2>1 DEF TakeChild, Wait, WaitReturns, SetExited, HaveCode,
                            outVars, procVars, Simple
<1>4. CASE SendEnd
  <2>1. Ends = {} /\ ~pty
    BY <1>1, <1>4 DEF SendEnd, Simple
  <2>2. Ends' = {Len(stream) + 1}
    BY <1>1, <1>4, <2>1, EndsAppend, EmptySeq DEF SendEnd, OutInv, Chunks, Chunk, EOF
  <2> QED
    BY <1>1, <1>4, <2>1, <2>2 DEF SendEnd, outVars, procVars
<1>5. CASE ReadExitCode
  <2>1. Ends' = Ends
    BY <1>5, EndsSame DEF ReadExitCode
  <2> QED
    BY <1>1, <1>5, <2>1 DEF ReadExitCode, procVars, Simple
<1>6. CASE BroadcastEnd
  <2>1. Ends = {} /\ pty
    BY <1>1, <1>6 DEF BroadcastEnd, Simple
  <2>2. Ends' = {Len(stream) + 1} /\ Len(stream') = Len(stream) + 1
    BY <1>1, <1>6, <2>1, EndsAppend, EmptySeq
       DEF BroadcastEnd, OutInv, Chunks, Chunk, EOF
  <2> QED
    BY <1>1, <1>6, <2>1, <2>2 DEF BroadcastEnd, procVars, Simple
<1>7. ASSUME NEW c \in Channels, Read(c)
      PROVE  EndInv'
  <2>1. Ends' = Ends
    BY <1>7, EndsSame DEF Read
  <2>2. PICK n \in 1..unread[c] :
          /\ unread' = [unread EXCEPT ![c] = @ - n]
          /\ hand' = [hand EXCEPT ![c] = Bytes(c, n)]
    BY <1>7 DEF Read
  <2>3. Bytes(c, n) # EOF
    <3>1. Len(Bytes(c, n)) = n /\ n # 0 /\ Len(EOF) = 0
      BY <1>1, BytesTyped, EmptySeq DEF OutInv, EOF
    <3> QED
      BY <3>1
  <2>4. /\ reader[c] = "reading" /\ reader' = [reader EXCEPT ![c] = "sending"]
        /\ UNCHANGED <<pty, spawn, proc, waiter, stream>>
    BY <1>7 DEF Read, procVars
  <2> QED
    BY <1>1, <2>1, <2>2, <2>3, <2>4 DEF OutInv, Chunks, Counted, Simple
<1>8. ASSUME NEW c \in Channels, Broadcast(c)
      PROVE  EndInv'
  <2>1. hand[c] # EOF /\ hand[c] \in Chunk
    BY <1>1, <1>8 DEF Broadcast, OutInv, Chunks
  <2>2. Ends' = Ends
    BY <1>1, <1>8, <2>1, EndsAppend DEF Broadcast, OutInv, Chunks
  <2>3. pty => Ends = {}
    BY <1>8 DEF Broadcast
  <2> QED
    BY <1>1, <1>8, <2>2, <2>3 DEF Broadcast, OutInv, Chunks, Simple, procVars
<1>9. ASSUME NEW c \in Channels, ReadEnd(c) \/ ChildWrites(c)
      PROVE  EndInv'
  <2>1. Ends' = Ends
    BY <1>9, EndsSame DEF ReadEnd, Leave, ChildWrites
  <2> QED
    BY <1>1, <1>9, <2>1 DEF ReadEnd, Leave, ChildWrites, procVars, Simple
<1>10. CASE ChildExits \/ Forward \/ ForwardStops
  <2>1. Ends' = Ends
    BY <1>10, EndsSame DEF ChildExits, Forward, Give, ForwardStops
  <2> QED
    BY <1>1, <1>10, <2>1 DEF ChildExits, Forward, Give, ForwardStops, outVars,
                             procVars, Simple
<1>11. ASSUME NEW k \in Callers,
              LookUp(k) \/ WriteInput(k) \/ WriteReturns(k) \/ TerminateNext(k)
       PROVE  EndInv'
  <2>1. /\ proc' = proc \/ proc' = "exited"
        /\ UNCHANGED <<pty, spawn, waiter, reader, hand, unread, stream>>
    BY <1>11 DEF LookUp, WriteInput, WriteReturns, TerminateNext, TerminateCloses,
                 TerminateKills, TerminateMarks, CleanupRemoves, outVars, procVars
  <2>2. Ends' = Ends
    BY <2>1, EndsSame
  <2> QED
    BY <1>1, <2>1, <2>2
<1>12. CASE UNCHANGED vars
  <2>1. UNCHANGED <<pty, spawn, proc, waiter, reader, hand, unread, stream>>
    BY <1>12 DEF vars, outVars, procVars
  <2>2. Ends' = Ends
    BY <2>1, EndsSame
  <2> QED
    BY <1>1, <2>1, <2>2
<1> QED
  BY <1>2, <1>3, <1>4, <1>5, <1>6, <1>7, <1>8, <1>9, <1>10, <1>11, <1>12
     DEF Next, WaiterNext, TerminalEnd, ReaderNext

\* The end of a screen is broadcast at most once, and the end of a pseudo
\* terminal after everything its child has written.
THEOREM EofLast == Spec => []EofIsLast
BY EndInit, EndStep, EndImplies, PTL DEF Spec

-----------------------------------------------------------------------------
(* The end of the child.                                                   *)

NoCaller == \A k \in Callers : call[k] = "idle"

\* Before the screen is in the table nobody has anything of it.
Fresh ==
    spawn \in {"idle", "started"} =>
        ~listed /\ NoCaller /\ status # "Terminated"

\* A handle that is gone belonged to a child that is gone, or to one that
\* spawn_screen has let go before anyone could look the screen up.
HandleSafe ==
    child = "taken" =>
        \/ proc = "exited" \/ spawn = "idle"
        \/ spawn = "failed" /\ ~listed /\ NoCaller

\* Who is past the kill has a child that is gone.
PastKill ==
    \A k \in Callers : call[k] \in {"mark", "Mark", "Remove"} => proc = "exited"

Gone ==
    /\ status = "Terminated" => proc = "exited"
    /\ spawn \in {"listed", "done"} /\ ~listed => proc = "exited"

DeadInv ==
    /\ call \in [Callers -> CallStates]
    /\ Fresh /\ HandleSafe /\ PastKill /\ Gone

LEMMA DeadInit == Init => DeadInv
BY DEF Init, DeadInv, Fresh, HandleSafe, PastKill, Gone, NoCaller, CallStates

LEMMA DeadStep == DeadInv /\ [Next]_vars => DeadInv'
<1> SUFFICES ASSUME DeadInv, [Next]_vars PROVE DeadInv'
  OBVIOUS
<1> USE DEF DeadInv, Fresh, HandleSafe, PastKill, Gone, NoCaller, CallStates
<1>1. CASE SpawnNext
  BY <1>1 DEF SpawnNext, StartChild, StartFails, LetGo, List, StartThreads,
              ThreadFails, Readers, Exited, procVars, fwdVars, outVars
<1>2. CASE WaiterNext
  BY <1>2 DEF WaiterNext, TakeChild, Wait, WaitReturns, SetExited, SendEnd,
              HaveCode, Exited, procVars, fwdVars, outVars
<1>3. CASE TerminalEnd
  BY <1>3 DEF TerminalEnd, ReadExitCode, BroadcastEnd, Exited, procVars, fwdVars
<1>4. ASSUME NEW c \in Channels, ReaderNext(c) \/ ChildWrites(c)
      PROVE  DeadInv'
  BY <1>4 DEF ReaderNext, Read, Broadcast, ReadEnd, Leave, ChildWrites, procVars,
              fwdVars
<1>5. CASE ChildExits \/ Forward \/ ForwardStops
  BY <1>5 DEF ChildExits, Forward, Give, ForwardStops, procVars, fwdVars, outVars
<1>6. ASSUME NEW k \in Callers, LookUp(k) \/ WriteInput(k) \/ WriteReturns(k)
      PROVE  DeadInv'
  BY <1>6 DEF LookUp, WriteInput, WriteReturns, procVars
<1>7. ASSUME NEW k \in Callers, TerminateNext(k)
      PROVE  DeadInv'
  <2>1. CASE TerminateCloses(k)
    BY <2>1 DEF TerminateCloses, Advance, procVars
  <2>2. CASE TerminateKills(k)
    BY <2>2 DEF TerminateKills, Advance
  <2>3. CASE TerminateMarks(k)
    BY <2>3 DEF TerminateMarks, Advance, procVars
  <2>4. CASE CleanupRemoves(k)
    BY <2>4 DEF CleanupRemoves, procVars
  <2> QED
    BY <1>7, <2>1, <2>2, <2>3, <2>4 DEF TerminateNext
<1>8. CASE UNCHANGED vars
  BY <1>8 DEF vars, procVars
<1> QED
  BY <1>1, <1>2, <1>3, <1>4, <1>5, <1>6, <1>7, <1>8 DEF Next

\* A screen that terminate has marked, or that cleanup_screen has removed, has
\* no child that runs on, for any number of callers.
THEOREM TerminatedDead == Spec => []TerminatedIsDead
<1>1. DeadInv => TerminatedIsDead
  BY DEF DeadInv, Gone, TerminatedIsDead
<1> QED
  BY DeadInit, DeadStep, <1>1, PTL DEF Spec


-----------------------------------------------------------------------------
(* DaemonFrames: type correctness.                                         *)

InSpawn(n) == task[n] \in {"free", "started"}

\* A task has a frame; a screen is looked up or spawned for a frame about one.
Framed ==
    \A n \in Slots :
        /\ task[n] # "none" => n <= Len(frames)
        /\ InSpawn(n) => Kind(n) = "exec"
        /\ task[n] \in {"find", "found", "writing", "ending"} => Kind(n) \in Inputs

TaskTypes ==
    /\ frames \in Seq(Orders) /\ Len(frames) <= MaxFrames
    /\ task \in [Slots -> {"none", "lock", "append", "denied", "audited", "free",
                           "started", "answer", "find", "found", "writing",
                           "ending", "done"}]
    /\ found \in [Slots -> 0..MaxFrames]
    /\ ledger \in 0..MaxFrames
    /\ Framed

TxTypes == queued \in 0..TxCapacity /\ answered \in SUBSET Slots

ScreenTypes ==
    /\ screens \in [Ids -> 0..MaxFrames]
    /\ process \in [Slots -> {"none", "running", "waited", "exited"}]
    /\ stdin \in [Slots -> BOOLEAN]
    /\ forwarder \in [Slots -> {"off", "on", "done", "lagged"}]
    /\ raced \in SUBSET Slots

LEMMA ScreenStep == ScreenTypes /\ [DaemonNext]_daemonVars => ScreenTypes'
<1> SUFFICES ASSUME ScreenTypes, [DaemonNext]_daemonVars
             PROVE  ScreenTypes'
    OBVIOUS
<1> USE DaemonAssumption
<1> USE DEF ScreenTypes, Slots
<1>1. CASE UNCHANGED screenVars
    BY <1>1 DEF screenVars
<1>2. ASSUME NEW n \in Slots, CheckId(n)
      PROVE  ScreenTypes'
    BY <1>2 DEF CheckId, Spawning
<1>3. ASSUME NEW n \in Slots, StartProcess(n)
      PROVE  ScreenTypes'
    BY <1>3 DEF StartProcess
<1>4. ASSUME NEW n \in Slots, ProcessFails(n)
      PROVE  ScreenTypes'
    BY <1>4 DEF ProcessFails
<1>5. ASSUME NEW n \in Slots, Insert(n)
      PROVE  ScreenTypes'
    <2>1. n \in 0..MaxFrames
        OBVIOUS
    <2>2. [screens EXCEPT ![Id(n)] = n] \in [Ids -> 0..MaxFrames]
        BY <2>1
    <2> QED
        BY <1>5, <2>2 DEF Insert
<1>6. ASSUME NEW n \in Slots, InsertFails(n)
      PROVE  ScreenTypes'
    <2>1. n \in 0..MaxFrames
        OBVIOUS
    <2>2. [screens EXCEPT ![Id(n)] = n] \in [Ids -> 0..MaxFrames]
        BY <2>1
    <2> QED
        BY <1>6, <2>2 DEF InsertFails
<1>7. ASSUME NEW n \in Slots, terminate(n)
      PROVE  ScreenTypes'
    BY <1>7 DEF terminate
<1>8. ASSUME NEW n \in Slots, ScreenNext(n)
      PROVE  ScreenTypes'
    BY <1>8 DEF ScreenNext, WaiterWaits, ProcessExits, ForwardOutput, ForwardEnd, Lag,
                screenVars
<1>9. ASSUME NEW n \in Slots,
             \/ Lock(n) \/ Appended(n) \/ AppendFails(n) \/ Deny(n) \/ Refuse(n)
             \/ handle_apply_patch(n) \/ handle_mcp_request(n) \/ Answer(n)
             \/ Find(n) \/ write_input(n) \/ resize(n) \/ Terminated(n)
             \/ Written(n)
      PROVE  UNCHANGED screenVars
    BY <1>9 DEF Lock, Appended, AppendFails, Deny, Refuse, handle_apply_patch,
                handle_mcp_request, Answer, Find, write_input, resize, Terminated,
                Written
<1>10. ASSUME NEW f \in Orders, Receive(f)
       PROVE  UNCHANGED screenVars
    BY <1>10 DEF Receive
<1>11. Drain \/ UNCHANGED daemonVars => UNCHANGED screenVars
    BY DEF Drain, daemonVars
<1> QED
    BY <1>1, <1>2, <1>3, <1>4, <1>5, <1>6, <1>7, <1>8, <1>9, <1>10, <1>11
       DEF DaemonNext, TaskNext

\* Where a frame's task may be.
LEMMA ScreenId ==
    ASSUME TaskTypes, NEW n \in Slots, task[n] # "none"
    PROVE  /\ frames[n] \in Orders
           /\ Kind(n) \in {"exec"} \cup Inputs => Id(n) \in Ids
<1>1. n \in 1..Len(frames)
    BY DaemonAssumption DEF TaskTypes, Framed, Slots
<1>2. frames[n] \in Orders
    BY <1>1, ElementOfSeq DEF TaskTypes
<1> QED
    BY <1>2 DEF Kind, Id, Orders, Inputs

\* Every step but the arrival of a frame leaves the frames alone.
LEMMA FramesStay ==
    ASSUME [DaemonNext]_daemonVars, \A f \in Orders : ~Receive(f)
    PROVE  frames' = frames
<1>1. ASSUME NEW n \in Slots, TaskNext(n)
      PROVE  frames' = frames
    BY <1>1 DEF TaskNext, Lock, Appended, AppendFails, Deny, Refuse,
         handle_apply_patch, handle_mcp_request, Answer, CheckId, StartProcess,
         ProcessFails, Insert, InsertFails, Find, write_input, resize, terminate,
         Terminated
<1>2. ASSUME NEW n \in Slots, Written(n) \/ ScreenNext(n)
      PROVE  frames' = frames
    BY <1>2 DEF Written, ScreenNext, WaiterWaits, ProcessExits, ForwardOutput,
         ForwardEnd, Lag
<1>3. Drain \/ UNCHANGED daemonVars => frames' = frames
    BY DEF Drain, daemonVars
<1> QED
    BY <1>1, <1>2, <1>3 DEF DaemonNext

\* The steps of a task: which place follows which.
Moves(n, from, to) ==
    /\ task[n] \in from
    /\ \E l \in to : task' = [task EXCEPT ![n] = l]

LEMMA TaskMoves ==
    ASSUME NEW n \in Slots, TaskNext(n) \/ Written(n)
    PROVE  \/ Moves(n, {"lock"}, {"append"})
           \/ Moves(n, {"append"}, {"audited", "denied"})
           \/ Moves(n, {"audited", "denied", "free", "started", "answer"},
                       {"answer", "done"})
           \/ Moves(n, {"audited"}, {"free"}) /\ Kind(n) = "exec"
           \/ Moves(n, {"free"}, {"started"})
           \/ Moves(n, {"find", "found"}, {"found", "writing", "ending"})
           \/ Moves(n, {"find", "found", "writing", "ending"}, {"done"})
<1> USE DEF Moves, Goto
<1>1. CASE Lock(n) \/ Appended(n) \/ AppendFails(n)
    BY <1>1 DEF Lock, Appended, AppendFails
<1>2. CASE Deny(n) \/ Refuse(n) \/ handle_apply_patch(n)
           \/ handle_mcp_request(n) \/ Answer(n)
    BY <1>2 DEF Deny, Refuse, handle_apply_patch, handle_mcp_request, Answer, Send
<1>3. CASE CheckId(n)
    BY <1>3 DEF CheckId
<1>4. CASE StartProcess(n) \/ ProcessFails(n) \/ Insert(n) \/ InsertFails(n)
    BY <1>4 DEF StartProcess, ProcessFails, Insert, InsertFails
<1>5. CASE Find(n) \/ write_input(n)
    BY <1>5 DEF Find, write_input
<1>6. CASE resize(n) \/ terminate(n) \/ Terminated(n) \/ Written(n)
    BY <1>6 DEF resize, terminate, Terminated, Written
<1> QED
    BY <1>1, <1>2, <1>3, <1>4, <1>5, <1>6 DEF TaskNext

\* Every step keeps the tasks in their types.
LEMMA TaskStep == ScreenTypes /\ TaskTypes /\ [DaemonNext]_daemonVars => TaskTypes'
<1> SUFFICES ASSUME ScreenTypes, TaskTypes, [DaemonNext]_daemonVars
             PROVE  TaskTypes'
    OBVIOUS
<1>1. ASSUME NEW f \in Orders, Receive(f)
      PROVE  TaskTypes'
    <2>1. handle_frame(f.kind) \in {"lock", "find", "answer", "done"}
        BY DEF handle_frame, Orders, Audited, Inputs
    <2>2. /\ frames' \in Seq(Orders) /\ Len(frames') = Len(frames) + 1
          /\ Len(frames) \in Nat /\ Len(frames) < MaxFrames
          /\ \A i \in 1..Len(frames) : frames'[i] = frames[i]
          /\ frames'[Len(frames) + 1] = f
        BY <1>1, AppendProperties DEF Receive, TaskTypes
    <2>3. /\ task' = [task EXCEPT ![Len(frames) + 1] = handle_frame(f.kind)]
          /\ ledger' = ledger /\ found' = found
        BY <1>1, <2>2 DEF Receive, Goto
    <2>4. Len(frames) + 1 \in Slots
        BY <2>2, DaemonAssumption DEF Slots
    <2>5. ASSUME NEW n \in Slots
          PROVE  /\ task'[n] # "none" => n <= Len(frames')
                 /\ InSpawn(n)' => Kind(n)' = "exec"
                 /\ task'[n] \in {"find", "found", "writing", "ending"} =>
                      Kind(n)' \in Inputs
        <3>1. CASE n = Len(frames) + 1
            <4>1. task'[n] = handle_frame(f.kind) /\ frames'[n] = f
                BY <2>2, <2>3, <3>1 DEF TaskTypes
            <4>2. handle_frame(f.kind) = "find" => f.kind \in Inputs
                BY DEF handle_frame, Orders, Audited, Inputs
            <4> QED
                BY <2>1, <2>2, <3>1, <4>1, <4>2 DEF Kind, InSpawn
        <3>2. CASE n # Len(frames) + 1
            <4>1. task'[n] = task[n]
                BY <2>3, <3>2 DEF TaskTypes
            <4>2. task[n] # "none" => n \in 1..Len(frames)
                BY DaemonAssumption DEF TaskTypes, Framed, Slots
            <4> QED
                BY <2>2, <4>1, <4>2 DEF TaskTypes, Framed, Kind, InSpawn
        <3> QED
            BY <3>1, <3>2
    <2> QED
        BY <2>1, <2>2, <2>3, <2>4, <2>5, DaemonAssumption DEF TaskTypes, Framed
<1>2. ASSUME NEW n \in Slots, TaskNext(n) \/ Written(n)
      PROVE  TaskTypes'
    <2>1. task[n] # "none"
        BY <1>2, TaskMoves DEF Moves
    <2>2. found' \in [Slots -> 0..MaxFrames]
        <3>1. CASE Find(n)
            <4>1. Id(n) \in Ids
                BY <2>1, <3>1, ScreenId DEF Find, TaskTypes, Framed
            <4> QED
                BY <3>1, <4>1 DEF Find, TaskTypes, ScreenTypes
        <3>2. CASE ~Find(n)
            <4>1. found' = found
                BY <1>2, <3>2
                   DEF TaskNext, Lock, Appended, AppendFails, Deny, Refuse,
                       handle_apply_patch, handle_mcp_request, Answer, CheckId,
                       StartProcess, ProcessFails, Insert, InsertFails, write_input,
                       resize, terminate, Terminated, Written
            <4> QED
                BY <4>1 DEF TaskTypes
        <3> QED
            BY <3>1, <3>2
    <2>3. ledger' \in 0..MaxFrames
        BY <1>2, DaemonAssumption
           DEF TaskNext, Lock, Appended, AppendFails, Deny, Refuse,
               handle_apply_patch, handle_mcp_request, Answer, CheckId,
               StartProcess, ProcessFails, Insert, InsertFails, Find, write_input,
               resize, terminate, Terminated, Written, TaskTypes, Slots
    <2>4. frames' = frames
        BY <1>2 DEF TaskNext, Lock, Appended, AppendFails, Deny, Refuse,
               handle_apply_patch, handle_mcp_request, Answer, CheckId,
               StartProcess, ProcessFails, Insert, InsertFails, Find, write_input,
               resize, terminate, Terminated, Written
    <2>5. Framed'
        BY <1>2, <2>4, TaskMoves DEF Moves, TaskTypes, Framed, InSpawn, Kind
    <2>6. task' \in [Slots -> {"none", "lock", "append", "denied", "audited",
                               "free", "started", "answer", "find", "found",
                               "writing", "ending", "done"}]
        BY <1>2, TaskMoves DEF Moves, TaskTypes
    <2> QED
        BY <2>2, <2>3, <2>4, <2>5, <2>6 DEF TaskTypes
<1>3. ASSUME \/ Drain \/ UNCHANGED daemonVars
             \/ \E n \in Slots : ScreenNext(n)
      PROVE  TaskTypes'
    <2>1. UNCHANGED <<frames, task, ledger, found>>
        BY <1>3 DEF ScreenNext, WaiterWaits, ProcessExits, ForwardOutput, ForwardEnd,
                    Lag, Drain, daemonVars, taskVars
    <2> QED
        BY <2>1 DEF TaskTypes, Framed, InSpawn, Kind
<1> QED
    BY <1>1, <1>2, <1>3 DEF DaemonNext

\* Every step keeps the channel within its capacity.
LEMMA TxStep == TxTypes /\ [DaemonNext]_daemonVars => TxTypes'
<1> SUFFICES ASSUME TxTypes, [DaemonNext]_daemonVars
             PROVE  TxTypes'
    OBVIOUS
<1> USE DaemonAssumption DEF TxTypes
<1>1. CASE UNCHANGED txVars
    BY <1>1 DEF txVars
<1>2. CASE Drain
    BY <1>2 DEF Drain
<1>3. ASSUME NEW n \in Slots, Answer(n) \/ Deny(n)
      PROVE  TxTypes'
    BY <1>3 DEF Answer, Deny, Send, Room
<1>4. ASSUME NEW n \in Slots, ForwardOutput(n) \/ ForwardEnd(n)
      PROVE  TxTypes'
    BY <1>4 DEF ForwardOutput, ForwardEnd, Room
<1>5. ASSUME NEW n \in Slots,
             \/ Lock(n) \/ Appended(n) \/ AppendFails(n) \/ Refuse(n)
             \/ handle_apply_patch(n) \/ handle_mcp_request(n)
             \/ CheckId(n) \/ StartProcess(n) \/ ProcessFails(n) \/ Insert(n)
             \/ InsertFails(n) \/ Find(n) \/ write_input(n) \/ resize(n)
             \/ terminate(n) \/ Terminated(n) \/ Written(n)
             \/ WaiterWaits(n) \/ ProcessExits(n) \/ Lag(n)
      PROVE  UNCHANGED txVars
    BY <1>5 DEF Lock, Appended, AppendFails, Refuse, handle_apply_patch,
                handle_mcp_request, CheckId, StartProcess, ProcessFails, Insert,
                InsertFails, Find, write_input, resize, terminate, Terminated,
                Written, WaiterWaits, ProcessExits, Lag
<1>6. ASSUME NEW f \in Orders, Receive(f)
      PROVE  UNCHANGED txVars
    BY <1>6 DEF Receive
<1> QED
    BY <1>1, <1>2, <1>3, <1>4, <1>5, <1>6 DEF DaemonNext, TaskNext, ScreenNext, daemonVars

TypeInv == TaskTypes /\ ScreenTypes /\ TxTypes

LEMMA TypeInit == DaemonInit => TypeInv
<1> SUFFICES ASSUME DaemonInit
             PROVE  TypeInv
    OBVIOUS
<1>1. frames \in Seq(Orders) /\ Len(frames) = 0
    BY EmptySeq DEF DaemonInit
<1>2. TaskTypes
    BY <1>1, DaemonAssumption DEF DaemonInit, TaskTypes, Framed, InSpawn
<1>3. ScreenTypes /\ TxTypes
    BY DaemonAssumption DEF DaemonInit, ScreenTypes, TxTypes
<1> QED
    BY <1>2, <1>3 DEF TypeInv

LEMMA TypeStep == TypeInv /\ [DaemonNext]_daemonVars => TypeInv'
BY TaskStep, ScreenStep, TxStep DEF TypeInv

\* Every variable keeps its type: in particular the channel to the tunnel
\* never holds more than its capacity (client_tx.send waits for room), and a
\* screen in the table is that of a frame received (orchestrator.rs).
THEOREM DaemonTypes == DaemonSpec => []DaemonTypeOK
<1>1. TypeInv => DaemonTypeOK
    BY DEF TypeInv, TaskTypes, ScreenTypes, TxTypes, DaemonTypeOK
<1> QED
    BY <1>1, TypeInit, TypeStep, PTL DEF DaemonSpec

-----------------------------------------------------------------------------
(* Orphans.                                                                *)

\* A child's stdin is open from the start of the child on.
Wrote == \A n \in Slots : stdin[n] => task[n] \in {"started", "answer", "done"}

\* Two commands of one id that are in spawn_screen at once have overlapped ...
Racing ==
    \A m, n \in Slots :
        InSpawn(m) /\ InSpawn(n) /\ m # n /\ Id(m) = Id(n) =>
            m \in raced /\ n \in raced

\* ... and so have a command that has found its id free and the one whose
\* screen has come into the table since.
Stale ==
    \A n \in Slots :
        InSpawn(n) /\ screens[Id(n)] # 0 => n \in raced /\ screens[Id(n)] \in raced

\* A screen that has been stored and not ended is in the table, or it overlapped.
Held == \A n \in Slots : Opened(n) => screens[Id(n)] = n \/ n \in raced

OverlapInv == Wrote /\ Racing /\ Stale /\ Held

\* The frame of a task stays what it is.
LEMMA IdStays ==
    ASSUME TaskTypes, [DaemonNext]_daemonVars, NEW n \in Slots, task[n] # "none"
    PROVE  Id(n)' = Id(n)
<1>1. CASE \A f \in Orders : ~Receive(f)
    BY <1>1, FramesStay DEF Id
<1>2. ASSUME NEW f \in Orders, Receive(f)
      PROVE  Id(n)' = Id(n)
    <2>1. n \in 1..Len(frames)
        BY DaemonAssumption DEF TaskTypes, Framed, Slots
    <2>2. frames'[n] = frames[n]
        BY <1>2, <2>1, AppendProperties DEF Receive, TaskTypes
    <2> QED
        BY <2>2 DEF Id
<1> QED
    BY <1>1, <1>2

\* A step on which nobody enters spawn_screen, stores a screen or overlaps.
LEMMA Undisturbed ==
    ASSUME OverlapInv, TaskTypes, [DaemonNext]_daemonVars, Wrote',
           UNCHANGED <<screens, raced>>,
           \A n \in Slots : (InSpawn(n)' => InSpawn(n)) /\ (Opened(n)' => Opened(n))
    PROVE  OverlapInv'
<1>1. \A n \in Slots : InSpawn(n) \/ Opened(n) => Id(n)' = Id(n)
    BY IdStays DEF InSpawn, Opened, OverlapInv, Wrote
<1>2. Racing' /\ Stale' /\ Held'
    BY <1>1 DEF OverlapInv, Racing, Stale, Held
<1> QED
    BY <1>2 DEF OverlapInv

LEMMA OverlapStep == TypeInv /\ OverlapInv /\ [DaemonNext]_daemonVars => OverlapInv'
<1> SUFFICES ASSUME TaskTypes, ScreenTypes, OverlapInv, [DaemonNext]_daemonVars
             PROVE  OverlapInv'
    BY DEF TypeInv
<1>1. ASSUME NEW n \in Slots, CheckId(n)
      PROVE  OverlapInv'
    <2>1. /\ frames' = frames /\ screens' = screens /\ stdin' = stdin
          /\ task[n] = "audited"
        BY <1>1 DEF CheckId
    <2>2. \A m \in Slots : Id(m)' = Id(m)
        BY <2>1 DEF Id
    <2>3. CASE Goto(n, "answer") /\ UNCHANGED raced
        <3>1. task' = [task EXCEPT ![n] = "answer"]
            BY <2>3 DEF Goto
        <3>2. /\ Wrote'
              /\ \A m \in Slots : (InSpawn(m)' => InSpawn(m)) /\ (Opened(m)' => Opened(m))
            BY <2>1, <3>1 DEF OverlapInv, Wrote, InSpawn, Opened, TaskTypes
        <3> QED
            BY <2>1, <2>3, <3>2, Undisturbed
    <2>4. CASE /\ ~IdTaken(n) /\ Goto(n, "free")
               /\ raced' = raced \cup
                    IF Spawning(Id(n)) = {} THEN {} ELSE {n} \cup Spawning(Id(n))
        <3>1. task' = [task EXCEPT ![n] = "free"]
            BY <2>4 DEF Goto
        <3>2. \A m \in Slots : InSpawn(m)' => InSpawn(m) \/ m = n
            BY <3>1 DEF InSpawn, TaskTypes
        <3>3. \A m \in Slots : InSpawn(m) /\ Id(m) = Id(n) =>
                m \in raced' /\ n \in raced'
            BY <2>4 DEF Spawning, InSpawn
        <3>4. raced \subseteq raced' /\ screens[Id(n)] = 0
            BY <2>4 DEF IdTaken
        <3>5. Wrote' /\ \A m \in Slots : Opened(m)' => Opened(m)
            BY <2>1, <3>1 DEF OverlapInv, Wrote, Opened, TaskTypes
        <3>6. Racing'
            BY <2>2, <3>2, <3>3, <3>4 DEF OverlapInv, Racing
        <3>7. Stale' /\ Held'
            BY <2>1, <2>2, <3>2, <3>4, <3>5 DEF OverlapInv, Stale, Held
        <3> QED
            BY <3>5, <3>6, <3>7 DEF OverlapInv
    <2> QED
        BY <1>1, <2>3, <2>4 DEF CheckId
<1>2. ASSUME NEW n \in Slots, Insert(n) \/ InsertFails(n)
      PROVE  OverlapInv'
    <2>1. /\ frames' = frames /\ raced' = raced /\ stdin' = stdin
          /\ task[n] = "started" /\ screens' = [screens EXCEPT ![Id(n)] = n]
          /\ \E l \in {"done", "answer"} : task' = [task EXCEPT ![n] = l]
        BY <1>2 DEF Insert, InsertFails, Goto
    <2>2. \A m \in Slots : Id(m)' = Id(m)
        BY <2>1 DEF Id
    <2>3. Id(n) \in Ids
        BY <2>1, ScreenId DEF TaskTypes, Framed, InSpawn
    <2>4. /\ screens'[Id(n)] = n
          /\ \A i : i # Id(n) => screens'[i] = screens[i]
        BY <2>1, <2>3 DEF ScreenTypes
    <2>5. /\ InSpawn(n)
          /\ \A m \in Slots : InSpawn(m)' => InSpawn(m) /\ m # n
        BY <2>1 DEF InSpawn, TaskTypes
    <2>6. n # 0
        BY DEF Slots
    <2>7. \A m \in Slots : Opened(m)' => Opened(m) \/ m = n
        BY <2>1 DEF Opened, TaskTypes
    <2>8. Wrote'
        BY <2>1 DEF OverlapInv, Wrote, TaskTypes
    <2>9. Racing'
        BY <2>1, <2>2, <2>5 DEF OverlapInv, Racing
    <2>10. Stale'
        BY <2>1, <2>2, <2>4, <2>5 DEF OverlapInv, Racing, Stale
    <2>11. Held'
        <3> SUFFICES ASSUME NEW m \in Slots, Opened(m), m # n,
                            screens'[Id(m)] # m, m \notin raced
                     PROVE  FALSE
            BY <2>1, <2>2, <2>4, <2>7 DEF Held
        <3>1. screens[Id(m)] = m
            BY DEF OverlapInv, Held
        <3>2. Id(m) = Id(n)
            BY <2>4, <3>1
        <3>3. m # 0
            BY DEF Slots
        <3> QED
            BY <2>5, <3>1, <3>2, <3>3 DEF OverlapInv, Stale
    <2> QED
        BY <2>8, <2>9, <2>10, <2>11 DEF OverlapInv
<1>3. ASSUME NEW n \in Slots, StartProcess(n)
      PROVE  OverlapInv'
    <2>1. /\ task[n] = "free" /\ task' = [task EXCEPT ![n] = "started"]
          /\ stdin' = [stdin EXCEPT ![n] = TRUE]
          /\ UNCHANGED <<screens, raced>>
        BY <1>3 DEF StartProcess, Goto
    <2>2. /\ Wrote'
          /\ \A m \in Slots : (InSpawn(m)' => InSpawn(m)) /\ (Opened(m)' => Opened(m))
        BY <2>1 DEF OverlapInv, Wrote, InSpawn, Opened, TaskTypes, ScreenTypes
    <2> QED
        BY <2>1, <2>2, Undisturbed
<1>4. ASSUME NEW n \in Slots, ProcessFails(n)
      PROVE  OverlapInv'
    <2>1. /\ task[n] = "free" /\ task' = [task EXCEPT ![n] = "answer"]
          /\ UNCHANGED <<screens, raced, stdin>>
        BY <1>4 DEF ProcessFails, Goto
    <2>2. /\ Wrote'
          /\ \A m \in Slots : (InSpawn(m)' => InSpawn(m)) /\ (Opened(m)' => Opened(m))
        BY <2>1 DEF OverlapInv, Wrote, InSpawn, Opened, TaskTypes
    <2> QED
        BY <2>1, <2>2, Undisturbed
<1>5. ASSUME NEW n \in Slots, terminate(n)
      PROVE  OverlapInv'
    <2>1. /\ task[n] = "found" /\ UNCHANGED <<screens, raced>>
          /\ \E l \in {"ending", "done"} : task' = [task EXCEPT ![n] = l]
          /\ stdin' = [stdin EXCEPT ![found[n]] = FALSE]
        BY <1>5 DEF terminate, Goto
    <2>2. \A m \in Slots : stdin'[m] => stdin[m]
        BY <2>1 DEF ScreenTypes
    <2>3. /\ Wrote'
          /\ \A m \in Slots : (InSpawn(m)' => InSpawn(m)) /\ (Opened(m)' => Opened(m))
        BY <2>1, <2>2 DEF OverlapInv, Wrote, InSpawn, Opened, TaskTypes
    <2> QED
        BY <2>1, <2>3, Undisturbed
<1>6. ASSUME NEW n \in Slots,
             \/ Lock(n) \/ Appended(n) \/ AppendFails(n) \/ Deny(n) \/ Refuse(n)
             \/ handle_apply_patch(n) \/ handle_mcp_request(n) \/ Answer(n)
             \/ Find(n) \/ write_input(n) \/ resize(n) \/ Terminated(n)
             \/ Written(n)
      PROVE  OverlapInv'
    <2>1. UNCHANGED <<screens, raced, stdin>>
        BY <1>6 DEF Lock, Appended, AppendFails, Deny, Refuse, handle_apply_patch,
                    handle_mcp_request, Answer, Find, write_input, resize,
                    Terminated, Written, screenVars
    <2>2. /\ task[n] \notin {"started", "done", "none"}
          /\ \E l \in {"append", "audited", "denied", "answer", "found",
                       "writing", "done"} : task' = [task EXCEPT ![n] = l]
          /\ task[n] = "answer" => task' = [task EXCEPT ![n] = "done"]
        BY <1>6 DEF Lock, Appended, AppendFails, Deny, Refuse, handle_apply_patch,
                    handle_mcp_request, Answer, Send, Goto, Find, write_input,
                    resize, Terminated, Written
    <2>3. /\ Wrote'
          /\ \A m \in Slots : (InSpawn(m)' => InSpawn(m)) /\ (Opened(m)' => Opened(m))
        BY <2>1, <2>2 DEF OverlapInv, Wrote, InSpawn, Opened, TaskTypes
    <2> QED
        BY <2>1, <2>3, Undisturbed
<1>7. ASSUME NEW f \in Orders, Receive(f)
      PROVE  OverlapInv'
    <2>1. Len(frames) \in Nat /\ Len(frames) < MaxFrames /\ Len(frames') = Len(frames) + 1
        BY <1>7, AppendProperties DEF Receive, TaskTypes
    <2>2. task[Len(frames) + 1] = "none"
        BY <2>1, DaemonAssumption DEF TaskTypes, Framed, Slots
    <2>3. handle_frame(f.kind) \in {"lock", "find", "answer", "done"}
        BY DEF handle_frame, Orders, Audited, Inputs
    <2>4. /\ UNCHANGED <<screens, raced, stdin>>
          /\ task' = [task EXCEPT ![Len(frames) + 1] = handle_frame(f.kind)]
        BY <1>7, <2>1 DEF Receive, Goto, screenVars
    <2>5. /\ Wrote'
          /\ \A m \in Slots : (InSpawn(m)' => InSpawn(m)) /\ (Opened(m)' => Opened(m))
        BY <2>2, <2>3, <2>4 DEF OverlapInv, Wrote, InSpawn, Opened, TaskTypes
    <2> QED
        BY <2>4, <2>5, Undisturbed
<1>8. ASSUME \/ Drain \/ UNCHANGED daemonVars
             \/ \E n \in Slots : ScreenNext(n)
      PROVE  OverlapInv'
    <2>1. UNCHANGED <<screens, raced, stdin, task>>
        BY <1>8 DEF ScreenNext, WaiterWaits, ProcessExits, ForwardOutput, ForwardEnd,
                    Lag, Drain, daemonVars, taskVars, screenVars
    <2>2. /\ Wrote'
          /\ \A m \in Slots : (InSpawn(m)' => InSpawn(m)) /\ (Opened(m)' => Opened(m))
        BY <2>1 DEF OverlapInv, Wrote, InSpawn, Opened
    <2> QED
        BY <2>1, <2>2, Undisturbed
<1> QED
    BY <1>1, <1>2, <1>3, <1>4, <1>5, <1>6, <1>7, <1>8 DEF DaemonNext, TaskNext

\* A screen is replaced in the table while its child runs only when two commands
\* of one id were in spawn_screen at once, between the look at the table under
\* the read lock and the insertion under the write lock (OrphanOnlyByOverlap).
THEOREM OrphanByOverlap == DaemonSpec => []OrphanOnlyByOverlap
<1>1. DaemonInit => OverlapInv
    BY DEF DaemonInit, OverlapInv, Wrote, Racing, Stale, Held, InSpawn, Opened
<1>2. OverlapInv => OrphanOnlyByOverlap
    BY DEF OverlapInv, Held, OrphanOnlyByOverlap
<1> QED
    BY <1>1, <1>2, TypeInit, TypeStep, OverlapStep, PTL DEF DaemonSpec
=============================================================================
