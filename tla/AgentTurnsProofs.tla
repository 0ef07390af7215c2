-------------------------- MODULE AgentTurnsProofs ---------------------------
(***************************************************************************)
(* Theorems about AgentTurns, for any number of turns, sessions, tool      *)
(* calls and clears.                                                       *)
(***************************************************************************)
EXTENDS AgentTurns, SequenceTheorems, TLAPS

-----------------------------------------------------------------------------
(* Types.                                                                  *)

\* The answers of the model are sequences of tool calls.
LEMMA AnswersAreSeqs ==
    ASSUME NEW t \in Turns, NEW calls \in Answers(t)
    PROVE  calls \in Seq(Tools)
<1>1. MaxCalls[t] \in Nat
  BY TurnsAssumption
<1>2. PICK m \in 0..MaxCalls[t] : calls \in [1..m -> Tools]
  BY DEF Answers, BoundedSeq, SeqOf
<1>3. m \in Nat
  BY <1>1
<1> QED
  BY <1>2, <1>3, SeqDef

\* The frames of an answer: its calls, then the message.
LEMMA ServerFrames ==
    ASSUME NEW calls \in Seq(Tools)
    PROVE  /\ server_frames(calls) \in Seq(Frames)
           /\ Len(server_frames(calls)) = Len(calls) + 1
           /\ server_frames(calls)[Len(calls) + 1] = "final"
           /\ \A i \in 1..Len(calls) :
                server_frames(calls)[i] = calls[i] /\ calls[i] \in Tools
<1>1. calls \in Seq(Frames)
  BY SeqMonotonic DEF Frames
<1>2. "final" \in Frames
  BY DEF Frames
<1> QED
  BY <1>1, <1>2, AppendProperties, ElementOfSeq DEF server_frames

\* An exchange is the question, and the answer's text if there is one.
LEMMA ExchangeIs ==
    ASSUME NEW t \in Turns, content \in [Turns -> BOOLEAN]
    PROVE  /\ Exchange(t) \in Seq(Messages)
           /\ Len(Exchange(t)) = IF content[t] THEN 2 ELSE 1
           /\ Exchange(t)[1] = [role |-> "user", turn |-> t]
           /\ content[t] => Exchange(t)[2] = [role |-> "model", turn |-> t]
<1> DEFINE q == [role |-> "user", turn |-> t]
           a == [role |-> "model", turn |-> t]
<1>1. q \in Messages /\ a \in Messages
  BY DEF Messages
<1>2. <<q>> \in Seq(Messages) /\ <<a>> \in Seq(Messages)
  BY <1>1
<1>3. CASE content[t]
  <2>1. Exchange(t) = <<q>> \o <<a>>
    BY <1>3 DEF Exchange
  <2> QED
    BY <1>2, <1>3, <2>1, ConcatProperties
<1>4. CASE ~content[t]
  <2>1. Exchange(t) = <<q>> \o <<>>
    BY <1>4 DEF Exchange
  <2> QED
    BY <1>2, <1>4, <2>1, ConcatEmptySeq
<1> QED
  BY <1>3, <1>4

\* The front end asks, then the prompt arrives, then a task is there for it;
\* and a task that is to send has something to send.
Stages ==
    \A t \in Turns :
        /\ host[t] = "idle" => prompt[t] = "none"
        /\ prompt[t] \in {"none", "queued"} => task[t] = "none"
        /\ task[t] \in {"generated", "sending"} => unsent[t] # <<>>

TypeInv == TypeOK /\ Stages

LEMMA TypeInit == Init => TypeInv
BY DEF Init, TypeInv, TypeOK, Stages

LEMMA TypeTunnel ==
    ASSUME TypeInv, NEW t \in Turns, TunnelNext(t)
    PROVE  TypeInv'
<1>1. CASE PromptArrives(t)
  BY <1>1 DEF PromptArrives, TypeInv, TypeOK, Stages, engineVars, hostVars
<1>2. CASE PromptLost(t)
  BY <1>2 DEF PromptLost, TypeInv, TypeOK, Stages, engineVars, hostVars
<1>3. ASSUME NEW n \in 0..Len(wire[t]), ConnectionLost(t, n)
      PROVE  TypeInv'
  <2>1. wire[t] \in Seq(Frames)
    BY DEF TypeInv, TypeOK
  <2>2. SubSeq(wire[t], 1, n) \in Seq(Frames)
    BY <2>1, LenProperties, SubSeqProperties
  <2> QED
    BY <1>3, <2>2 DEF ConnectionLost, TypeInv, TypeOK, Stages, engineVars, hostVars
<1> QED
  BY <1>1, <1>2, <1>3 DEF TunnelNext

LEMMA TypeTask ==
    ASSUME TypeInv, NEW t \in Turns, TaskNext(t)
    PROVE  TypeInv'
<1>1. CASE ReadHistory(t)
  BY <1>1 DEF ReadHistory, TypeInv, TypeOK, Stages, hostVars
<1>2. ASSUME NEW calls \in Answers(t), NEW text \in BOOLEAN,
             Generated(t, calls, text)
      PROVE  TypeInv'
  <2>1. server_frames(calls) \in Seq(Frames) /\ server_frames(calls) # <<>>
    BY AnswersAreSeqs, ServerFrames, AppendProperties DEF server_frames
  <2> QED
    BY <1>2, <2>1 DEF Generated, TypeInv, TypeOK, Stages, hostVars
<1>3. CASE GenerateFails(t)
  <2>1. <<"error">> \in Seq(Frames)
    BY DEF Frames
  <2> QED
    BY <1>3, <2>1 DEF GenerateFails, TypeInv, TypeOK, Stages, hostVars
<1>4. CASE Record(t)
  <2>1. CASE session[t] = NoSession
    BY <1>4, <2>1 DEF Record, TypeInv, TypeOK, Stages, hostVars
  <2>2. CASE session[t] # NoSession
    <3>1. session[t] \in Sessions
      BY <2>2 DEF TypeInv, TypeOK
    <3>2. Recorded(t) \in Seq(Messages)
      BY <3>1, ExchangeIs, ConcatProperties DEF Recorded, TypeInv, TypeOK
    <3>3. /\ sessions' = [sessions EXCEPT ![session[t]] = Recorded(t)]
          /\ recorded' = [recorded EXCEPT ![session[t]] = @ \cup {t}]
      BY <1>4, <2>2 DEF Record
    <3>4. sessions' \in [Sessions -> Seq(Messages)]
      BY <3>2, <3>3 DEF TypeInv, TypeOK
    <3>5. recorded' \in [Sessions -> SUBSET Turns]
      BY <3>1, <3>3 DEF TypeInv, TypeOK
    <3> QED
      BY <1>4, <3>4, <3>5 DEF Record, TypeInv, TypeOK, Stages, hostVars
  <2> QED
    BY <2>1, <2>2
<1>5. CASE SendFrame(t)
  <2>1. unsent[t] \in Seq(Frames) /\ wire[t] \in Seq(Frames)
    BY DEF TypeInv, TypeOK
  <2>2. unsent[t] # <<>>
    BY <1>5 DEF SendFrame, TypeInv, Stages
  <2>3. /\ Tail(unsent[t]) \in Seq(Frames)
        /\ Len(Tail(unsent[t])) = Len(unsent[t]) - 1
        /\ Append(wire[t], Head(unsent[t])) \in Seq(Frames)
    BY <2>1, <2>2, HeadTailProperties, AppendProperties
  <2>4. Len(unsent[t]) # 1 => Tail(unsent[t]) # <<>>
    <3>1. Len(unsent[t]) \in Nat /\ Len(<<>>) = 0
      BY <2>1, LenProperties, EmptySeq
    <3>2. ASSUME Tail(unsent[t]) = <<>> PROVE Len(unsent[t]) = 1
      <4>1. Len(Tail(unsent[t])) = 0
        BY <3>1, <3>2, Zenon
      <4> QED
        BY <2>3, <3>1, <4>1
    <3> QED
      BY <3>2
  <2> QED
    BY <1>5, <2>3, <2>4 DEF SendFrame, TypeInv, TypeOK, Stages, engineVars, hostVars
<1> QED
  BY <1>1, <1>2, <1>3, <1>4, <1>5 DEF TaskNext

LEMMA TypeReturn ==
    ASSUME TypeInv, NEW t \in Turns, NEW outcome \in Ended, Return(t, outcome)
    PROVE  TypeInv'
BY DEF Return, Ended, TypeInv, TypeOK, Stages, engineVars

LEMMA TypeContinue ==
    ASSUME TypeInv, NEW t \in Turns, NEW next \in {"waiting", "running"},
           wire[t] # <<>>, Continue(t, next),
           screen' \in [Turns -> BOOLEAN], handled' \in [Turns -> Seq(Tools)]
    PROVE  TypeInv'
<1>1. Tail(wire[t]) \in Seq(Frames)
  BY HeadTailProperties DEF TypeInv, TypeOK
<1> QED
  BY <1>1 DEF Continue, TypeInv, TypeOK, Stages, engineVars

LEMMA TypeHost ==
    ASSUME TypeInv, NEW t \in Turns, HostNext(t)
    PROVE  TypeInv'
<1>1. ASSUME NEW s \in Sessions \cup {NoSession}, Ask(t, s)
      PROVE  TypeInv'
  BY <1>1 DEF Ask, TypeInv, TypeOK, Stages, engineVars
<1>2. CASE Open(t)
  BY <1>2 DEF Open, TypeInv, TypeOK, Stages, engineVars
<1>3. CASE OpenFails(t) \/ ReceiveError(t) \/ StartFails(t) \/ RecordFails(t)
           \/ PatchFails(t) \/ GiveUp(t) \/ ReceiveFinal(t)
  <2>1. \E outcome \in Ended : Return(t, outcome)
    BY <1>3 DEF OpenFails, ReceiveError, StartFails, RecordFails, PatchFails,
                GiveUp, ReceiveFinal, Ended
  <2> QED
    BY <2>1, TypeReturn
<1>4. CASE StartCommand(t)
  BY <1>4, TypeContinue DEF StartCommand, Receives, TypeInv, TypeOK
<1>5. CASE FinishCommand(t)
  <2>1. Append(handled[t], "exec") \in Seq(Tools)
    BY AppendProperties DEF TypeInv, TypeOK, Tools
  <2> QED
    BY <1>5, <2>1 DEF FinishCommand, TypeInv, TypeOK, Stages, engineVars
<1>6. CASE ApplyPatch(t)
  <2>1. Append(handled[t], "patch") \in Seq(Tools)
    BY AppendProperties DEF TypeInv, TypeOK, Tools
  <2>2. handled' \in [Turns -> Seq(Tools)]
    BY <1>6, <2>1 DEF ApplyPatch, TypeInv, TypeOK
  <2> QED
    BY <1>6, <2>2, TypeContinue DEF ApplyPatch, Receives, TypeInv, TypeOK
<1> QED
  BY <1>1, <1>2, <1>3, <1>4, <1>5, <1>6 DEF HostNext

LEMMA TypeStep == TypeInv /\ [Next]_vars => TypeInv'
<1> SUFFICES ASSUME TypeInv, [Next]_vars PROVE TypeInv'
  OBVIOUS
<1>1. ASSUME NEW t \in Turns, TunnelNext(t) \/ TaskNext(t) \/ HostNext(t)
      PROVE  TypeInv'
  BY <1>1, TypeTunnel, TypeTask, TypeHost
<1>2. ASSUME NEW s \in Sessions, clear_session(s)
      PROVE  TypeInv'
  BY <1>2 DEF clear_session, TypeInv, TypeOK, Stages, hostVars
<1>3. CASE UNCHANGED vars
  BY <1>3 DEF TypeInv, TypeOK, Stages, vars, engineVars, hostVars
<1> QED
  BY <1>1, <1>2, <1>3 DEF Next

\* Every variable keeps its type, and a turn goes through its stages in order:
\* in particular send of service.rs never takes a frame from an empty answer.
THEOREM TypeCorrect == Spec => [](TypeOK /\ Stages)
<1>1. TypeInv => TypeOK /\ Stages
  BY DEF TypeInv
<1> QED
  BY TypeInit, TypeStep, <1>1, PTL DEF Spec

-----------------------------------------------------------------------------
(* Sessions.                                                               *)

\* A turn that has a message in a history has had its answer, and the answer
\* is not asked for again.
Past == {"sending", "done"}
Kept ==
    /\ \A s \in Sessions : \A i \in 1..Len(sessions[s]) :
         task[sessions[s][i].turn] \in Past
    /\ \A t \in Turns : \A i \in 1..Len(history[t]) :
         task[history[t][i].turn] \in Past

\* The two parts of a concatenation.
LEMMA ConcatParts ==
    ASSUME NEW S, NEW g \in Seq(S), NEW h \in Seq(S)
    PROVE  /\ g \o h \in Seq(S)
           /\ Len(g \o h) = Len(g) + Len(h)
           /\ \A i \in 1..Len(g) : (g \o h)[i] = g[i]
           /\ \A i \in 1..Len(h) : (g \o h)[Len(g) + i] = h[i]
<1>1. Len(g) \in Nat /\ Len(h) \in Nat
  BY LenProperties
<1>2. /\ g \o h \in Seq(S) /\ Len(g \o h) = Len(g) + Len(h)
      /\ \A k \in 1..Len(g) + Len(h) :
           (g \o h)[k] = IF k <= Len(g) THEN g[k] ELSE h[k - Len(g)]
  BY ConcatProperties
<1>3. ASSUME NEW i \in 1..Len(g) PROVE (g \o h)[i] = g[i]
  BY <1>1, <1>2
<1>4. ASSUME NEW i \in 1..Len(h) PROVE (g \o h)[Len(g) + i] = h[i]
  <2>1. /\ Len(g) + i \in 1..Len(g) + Len(h) /\ ~(Len(g) + i <= Len(g))
        /\ (Len(g) + i) - Len(g) = i
    BY <1>1
  <2> QED
    BY <1>2, <2>1
<1> QED
  BY <1>2, <1>3, <1>4

\* Whole exchanges stay whole when one is appended to them.
LEMMA PairedExtends ==
    ASSUME content \in [Turns -> BOOLEAN], NEW h \in Seq(Messages), Paired(h),
           NEW t \in Turns
    PROVE  Paired(h \o Exchange(t))
<1> DEFINE e == Exchange(t)
           g == h \o e
           n == Len(h)
<1>1. /\ e \in Seq(Messages) /\ Len(e) \in 1..2 /\ n \in Nat
      /\ Len(e) = IF content[t] THEN 2 ELSE 1
      /\ e[1] = [role |-> "user", turn |-> t]
      /\ Len(e) = 2 => e[2] = [role |-> "model", turn |-> t]
  <2>1. /\ e \in Seq(Messages) /\ Len(e) = IF content[t] THEN 2 ELSE 1
        /\ e[1] = [role |-> "user", turn |-> t]
        /\ content[t] => e[2] = [role |-> "model", turn |-> t]
    BY ExchangeIs
  <2> HIDE DEF e
  <2>2. n \in Nat
    BY LenProperties
  <2> QED
    BY <2>1, <2>2
<1>2. /\ Len(g) = n + Len(e)
      /\ \A i \in 1..n : g[i] = h[i]
      /\ \A i \in 1..Len(e) : g[n + i] = e[i]
  <2> HIDE DEF e
  <2>1. e \in Seq(Messages)
    BY <1>1
  <2> QED
    BY <2>1, ConcatParts
<1> SUFFICES ASSUME NEW i \in 1..Len(g)
             PROVE  IF g[i].role = "user"
                    THEN content[g[i].turn] =>
                           /\ i < Len(g)
                           /\ g[i + 1] = [role |-> "model", turn |-> g[i].turn]
                    ELSE i > 1 /\ g[i - 1] = [role |-> "user", turn |-> g[i].turn]
  BY DEF Paired
<1> HIDE DEF e, g, n
<1>3. CASE i \in 1..n
  <2>1. g[i] = h[i]
    BY <1>2, <1>3
  <2>2. CASE h[i].role = "user"
    <3>1. content[h[i].turn] =>
            i < n /\ h[i + 1] = [role |-> "model", turn |-> h[i].turn]
      BY <1>3, <2>2 DEF Paired, n
    <3>2. i < n => g[i + 1] = h[i + 1] /\ i < Len(g)
      BY <1>1, <1>2, <1>3
    <3> QED
      BY <2>1, <2>2, <3>1, <3>2
  <2>3. CASE h[i].role # "user"
    <3>1. i > 1 /\ h[i - 1] = [role |-> "user", turn |-> h[i].turn]
      BY <1>3, <2>3 DEF Paired, n
    <3>2. g[i - 1] = h[i - 1]
      BY <1>1, <1>2, <1>3, <3>1
    <3> QED
      BY <2>1, <2>3, <3>1, <3>2
  <2> QED
    BY <2>2, <2>3
<1>4. CASE i = n + 1
  <2>1. g[i] = [role |-> "user", turn |-> t]
    BY <1>1, <1>2, <1>4
  <2>2. content[t] => i < Len(g) /\ g[i + 1] = [role |-> "model", turn |-> t]
    BY <1>1, <1>2, <1>4
  <2> QED
    BY <2>1, <2>2
<1>5. CASE i = n + 2
  <2>1. Len(e) = 2
    BY <1>1, <1>2, <1>5
  <2>2. g[i] = [role |-> "model", turn |-> t]
    BY <1>1, <1>2, <1>5, <2>1
  <2>3. i > 1 /\ g[i - 1] = [role |-> "user", turn |-> t]
    BY <1>1, <1>2, <1>5, <2>1
  <2> QED
    BY <2>2, <2>3
<1> QED
  BY <1>1, <1>2, <1>3, <1>4, <1>5

\* Exchanges stay whole as long as the answers they are made of stay.
PairedWith(texts, h) ==
    \A i \in 1..Len(h) :
        IF h[i].role = "user"
        THEN texts[h[i].turn] =>
               i < Len(h) /\ h[i + 1] = [role |-> "model", turn |-> h[i].turn]
        ELSE i > 1 /\ h[i - 1] = [role |-> "user", turn |-> h[i].turn]

LEMMA PairedStays ==
    ASSUME NEW h, NEW texts, NEW other, PairedWith(texts, h),
           \A i \in 1..Len(h) : other[h[i].turn] = texts[h[i].turn]
    PROVE  PairedWith(other, h)
BY DEF PairedWith

\* A session has the question of a turn, once.
Once(h, t) ==
    \E i \in 1..Len(h) :
       /\ h[i] = [role |-> "user", turn |-> t]
       /\ \A j \in 1..Len(h) : h[j] = h[i] => j = i

LEMMA OnceExtends ==
    ASSUME content \in [Turns -> BOOLEAN], NEW h \in Seq(Messages),
           NEW t \in Turns, \A i \in 1..Len(h) : h[i].turn # t,
           NEW u \in Turns, u = t \/ Once(h, u)
    PROVE  Once(h \o Exchange(t), u)
<1> DEFINE e == Exchange(t)
           g == h \o e
           n == Len(h)
<1>1. /\ e \in Seq(Messages) /\ Len(e) = IF content[t] THEN 2 ELSE 1
      /\ e[1] = [role |-> "user", turn |-> t]
      /\ content[t] => e[2] = [role |-> "model", turn |-> t]
  BY ExchangeIs
<1> HIDE DEF e
<1>2. n \in Nat
  BY LenProperties
<1>3. /\ Len(g) = n + Len(e)
      /\ \A i \in 1..n : g[i] = h[i]
      /\ \A i \in 1..Len(e) : g[n + i] = e[i]
  <2>1. e \in Seq(Messages)
    BY <1>1
  <2> QED
    BY <2>1, ConcatParts
<1>4. \A j \in 1..Len(g) : j \in 1..n \/ j = n + 1 \/ (j = n + 2 /\ content[t])
  BY <1>1, <1>2, <1>3
<1>5. /\ n + 1 \in 1..Len(g)
      /\ g[n + 1] = [role |-> "user", turn |-> t]
      /\ content[t] => g[n + 2] = [role |-> "model", turn |-> t]
  BY <1>1, <1>2, <1>3
<1> HIDE DEF g, n
<1>6. \A j \in 1..n : g[j] = h[j] /\ g[j].turn # t
  BY <1>3 DEF n
<1>7. CASE u = t
  <2>1. \A j \in 1..Len(g) : g[j] = g[n + 1] => j = n + 1
    <3> SUFFICES ASSUME NEW j \in 1..Len(g), g[j] = g[n + 1] PROVE j = n + 1
      OBVIOUS
    <3>1. g[j].turn = t /\ g[j].role = "user"
      BY <1>5
    <3> QED
      BY <3>1, <1>4, <1>5, <1>6
  <2> QED
    BY <1>5, <1>7, <2>1 DEF Once, g, e
<1>8. CASE u # t
  <2>1. PICK i \in 1..n : /\ h[i] = [role |-> "user", turn |-> u]
                          /\ \A j \in 1..n : h[j] = h[i] => j = i
    BY <1>8 DEF Once, n
  <2>2. i \in 1..Len(g) /\ g[i] = [role |-> "user", turn |-> u]
    <3>1. n <= Len(g)
      BY <1>1, <1>2, <1>3 DEF n
    <3> QED
      BY <1>2, <1>6, <2>1, <3>1 DEF n
  <2>3. \A j \in 1..Len(g) : g[j] = g[i] => j = i
    <3> SUFFICES ASSUME NEW j \in 1..Len(g), g[j] = g[i] PROVE j = i
      OBVIOUS
    <3>1. g[j].turn # t
      BY <1>8, <2>2
    <3>2. j \in 1..n
      BY <1>4, <1>5, <3>1
    <3> QED
      BY <1>6, <2>1, <3>2
  <2> QED
    BY <2>2, <2>3 DEF Once, g, e
<1> QED
  BY <1>7, <1>8

Whole ==
    /\ \A t \in Turns : PairedWith(content, history[t])
    /\ \A s \in Sessions :
         /\ PairedWith(content, sessions[s])
         /\ \A t \in recorded[s] : Once(sessions[s], t)

WholeInv == TypeInv /\ Kept /\ Whole

LEMMA WholeIsWhole == Whole => SessionsAreWhole
BY DEF Whole, SessionsAreWhole, PairedWith, Paired, Once

\* Any step but Record: a session is left alone or cleared, what a task has
\* read is a session, and no turn that is past its answer gets another one.
LEMMA NothingRecorded ==
    ASSUME WholeInv, TypeInv',
           \A u \in Turns : task[u] \in Past =>
               task'[u] \in Past /\ content'[u] = content[u],
           \A t \in Turns :
               \/ history'[t] = history[t] \/ history'[t] = <<>>
               \/ \E s \in Sessions : history'[t] = sessions[s],
           \A s \in Sessions :
               \/ sessions'[s] = sessions[s] /\ recorded'[s] = recorded[s]
               \/ sessions'[s] = <<>> /\ recorded'[s] = {}
    PROVE  WholeInv'
<1> DEFINE Good(h) == /\ \A i \in 1..Len(h) : task[h[i].turn] \in Past
                      /\ PairedWith(content, h)
           Fine(h) == /\ \A i \in 1..Len(h) : task'[h[i].turn] \in Past
                      /\ PairedWith(content', h)
<1>1. /\ \A t \in Turns : history[t] \in Seq(Messages) /\ Good(history[t])
      /\ \A s \in Sessions : sessions[s] \in Seq(Messages) /\ Good(sessions[s])
  BY DEF WholeInv, TypeInv, TypeOK, Kept, Whole
<1>2. ASSUME NEW h \in Seq(Messages), Good(h) PROVE Fine(h)
  <2>1. \A i \in 1..Len(h) : h[i].turn \in Turns
    <3> SUFFICES ASSUME NEW i \in 1..Len(h) PROVE h[i].turn \in Turns
      OBVIOUS
    <3>1. h[i] \in Messages
      BY ElementOfSeq
    <3> QED
      BY <3>1 DEF Messages
  <2>2. \A i \in 1..Len(h) : task'[h[i].turn] \in Past
    BY <1>2, <2>1
  <2>3. \A i \in 1..Len(h) : content'[h[i].turn] = content[h[i].turn]
    BY <1>2, <2>1
  <2>4. PairedWith(content', h)
    BY <1>2, <2>3, PairedStays
  <2> QED
    BY <2>2, <2>4
<1>3. Fine(<<>>)
  BY DEF PairedWith
<1> HIDE DEF Good
<1>4. ASSUME NEW t \in Turns PROVE Fine(history'[t])
  BY <1>1, <1>2, <1>3
<1>5. ASSUME NEW s \in Sessions PROVE Fine(sessions'[s])
  BY <1>1, <1>2, <1>3
<1>6. ASSUME NEW s \in Sessions, NEW t \in recorded'[s]
      PROVE  Once(sessions'[s], t)
  BY <1>6 DEF WholeInv, Whole
<1> QED
  BY <1>4, <1>5, <1>6 DEF WholeInv, Kept, Whole

\* What is appended is of the turn that is recorded.
LEMMA LastOfExchange ==
    ASSUME content \in [Turns -> BOOLEAN], NEW h \in Seq(Messages),
           NEW t \in Turns, NEW i \in 1..Len(h \o Exchange(t)), i \notin 1..Len(h)
    PROVE  (h \o Exchange(t))[i].turn = t
<1>1. /\ Exchange(t) \in Seq(Messages)
      /\ Len(Exchange(t)) = IF content[t] THEN 2 ELSE 1
      /\ Exchange(t)[1] = [role |-> "user", turn |-> t]
      /\ content[t] => Exchange(t)[2] = [role |-> "model", turn |-> t]
  BY ExchangeIs
<1>2. Exchange(t) \in Seq(Messages)
  BY <1>1
<1>3. /\ Len(h \o Exchange(t)) = Len(h) + Len(Exchange(t))
      /\ \A k \in 1..Len(Exchange(t)) :
           (h \o Exchange(t))[Len(h) + k] = Exchange(t)[k]
  BY <1>2, ConcatParts
<1>4. Len(h) \in Nat
  BY LenProperties
<1>5. PICK k \in 1..Len(Exchange(t)) : i = Len(h) + k
  <2>1. i - Len(h) \in 1..Len(Exchange(t)) /\ i = Len(h) + (i - Len(h))
    BY <1>1, <1>3, <1>4
  <2> QED
    BY <2>1
<1> QED
  BY <1>1, <1>3, <1>5

LEMMA WholeRecord ==
    ASSUME WholeInv, TypeInv', NEW t \in Turns, Record(t)
    PROVE  WholeInv'
<1>1. CASE session[t] = NoSession
  BY <1>1, NothingRecorded DEF Record, WholeInv, TypeInv, TypeOK, Past
<1>2. CASE session[t] # NoSession
  <2> DEFINE s == session[t]
             h == sessions[s]
  <2>1. /\ s \in Sessions /\ h \in Seq(Messages)
        /\ content \in [Turns -> BOOLEAN]
    BY <1>2 DEF WholeInv, TypeInv, TypeOK
  <2>2. /\ sessions' = [sessions EXCEPT ![s] = h \o Exchange(t)]
        /\ recorded' = [recorded EXCEPT ![s] = @ \cup {t}]
        /\ history' = [history EXCEPT ![t] = <<>>]
        /\ task[t] = "generated" /\ task' = [task EXCEPT ![t] = "sending"]
        /\ content' = content
    BY <1>2 DEF Record, Recorded
  <2> HIDE DEF s
  <2>3. /\ sessions \in [Sessions -> Seq(Messages)]
        /\ recorded \in [Sessions -> SUBSET Turns]
        /\ history \in [Turns -> Seq(Messages)]
        /\ task \in [Turns -> {"none", "spawned", "asked", "generated", "sending",
                               "done"}]
    BY DEF WholeInv, TypeInv, TypeOK
  <2>4. \A u \in Turns : task[u] \in Past => task'[u] \in Past
    BY <2>2, <2>3 DEF Past
  <2>5. \A i \in 1..Len(h) : task[h[i].turn] \in Past /\ h[i].turn # t
    BY <2>1, <2>2 DEF WholeInv, Kept, Past
  <2>6. PairedWith(content, h)
    BY <2>1 DEF WholeInv, Whole
  <2>7. PairedWith(content, h \o Exchange(t))
    BY <2>1, <2>6, PairedExtends DEF Paired, PairedWith
  <2>8. ASSUME NEW u \in recorded[s] \cup {t} PROVE Once(h \o Exchange(t), u)
    <3>1. u \in Turns /\ (u = t \/ Once(h, u))
      BY <2>1, <2>3 DEF WholeInv, Whole
    <3> QED
      BY <2>1, <2>5, <3>1, OnceExtends
  <2>9. Whole'
    <3>1. ASSUME NEW u \in Turns PROVE PairedWith(content', history'[u])
      BY <2>2, <2>3 DEF WholeInv, Whole, PairedWith
    <3>2. ASSUME NEW r \in Sessions
          PROVE  /\ PairedWith(content', sessions'[r])
                 /\ \A u \in recorded'[r] : Once(sessions'[r], u)
      <4>1. CASE r = s
        <5>1. sessions'[r] = h \o Exchange(t) /\ recorded'[r] = recorded[s] \cup {t}
          BY <2>1, <2>2, <2>3, <4>1
        <5> QED
          BY <2>2, <2>7, <2>8, <5>1
      <4>2. CASE r # s
        <5>1. sessions'[r] = sessions[r] /\ recorded'[r] = recorded[r]
          BY <2>2, <2>3, <4>2
        <5> QED
          BY <2>2, <5>1 DEF WholeInv, Whole
      <4> QED
        BY <4>1, <4>2
    <3> QED
      BY <3>1, <3>2 DEF Whole
  <2>10. Kept'
    <3>1. ASSUME NEW u \in Turns, NEW i \in 1..Len(history'[u])
          PROVE  task'[history'[u][i].turn] \in Past
      <4>1. CASE u = t
        BY <2>2, <2>3, <3>1, <4>1
      <4>2. CASE u # t
        <5>1. history'[u] = history[u]
          BY <2>2, <2>3, <4>2
        <5>2. history[u][i] \in Messages /\ task[history[u][i].turn] \in Past
          BY <2>3, <3>1, <5>1, ElementOfSeq DEF WholeInv, Kept
        <5> QED
          BY <2>4, <5>1, <5>2 DEF Messages
      <4> QED
        BY <4>1, <4>2
    <3>2. ASSUME NEW r \in Sessions, NEW i \in 1..Len(sessions'[r])
          PROVE  task'[sessions'[r][i].turn] \in Past
      <4>1. CASE r # s
        <5>1. sessions'[r] = sessions[r]
          BY <2>2, <2>3, <4>1
        <5>2. sessions[r][i] \in Messages /\ task[sessions[r][i].turn] \in Past
          BY <2>3, <3>2, <5>1, ElementOfSeq DEF WholeInv, Kept
        <5> QED
          BY <2>4, <5>1, <5>2 DEF Messages
      <4>2. CASE r = s
        <5>1. sessions'[r] = h \o Exchange(t)
          BY <2>1, <2>2, <2>3, <4>2
        <5>2. CASE i \in 1..Len(h)
          <6>1. sessions'[r][i] = h[i] /\ h[i] \in Messages
            BY <2>1, <5>1, <5>2, ExchangeIs, ConcatParts, ElementOfSeq
          <6> QED
            BY <2>4, <2>5, <5>2, <6>1 DEF Messages
        <5>3. CASE i \notin 1..Len(h)
          <6>1. sessions'[r][i].turn = t
            BY <2>1, <3>2, <5>1, <5>3, LastOfExchange
          <6> QED
            BY <2>2, <2>3, <6>1 DEF Past
        <5> QED
          BY <5>2, <5>3
      <4> QED
        BY <4>1, <4>2
    <3> QED
      BY <3>1, <3>2 DEF Kept
  <2> QED
    BY <2>9, <2>10 DEF WholeInv
<1> QED
  BY <1>1, <1>2

LEMMA WholeStep == WholeInv /\ [Next]_vars => WholeInv'
<1> SUFFICES ASSUME WholeInv, [Next]_vars PROVE WholeInv'
  OBVIOUS
<1>1. TypeInv'
  BY TypeStep DEF WholeInv
<1>2. TypeInv
  BY DEF WholeInv
<1>3. ASSUME NEW t \in Turns, TunnelNext(t)
      PROVE  WholeInv'
  <2>1. /\ UNCHANGED <<sessions, history, content, recorded>>
        /\ task' = task \/ (prompt[t] = "queued" /\
                            task' = [task EXCEPT ![t] = "spawned"])
    BY <1>3 DEF TunnelNext, PromptArrives, PromptLost, ConnectionLost, engineVars
  <2>2. \A u \in Turns : task[u] \in Past => task'[u] \in Past
    BY <1>2, <2>1 DEF TypeInv, TypeOK, Stages, Past
  <2> QED
    BY <1>1, <2>1, <2>2, NothingRecorded
<1>4. ASSUME NEW t \in Turns, TaskNext(t), ~Record(t)
      PROVE  WholeInv'
  <2>1. /\ UNCHANGED <<sessions, recorded>>
        /\ \A u \in Turns : task[u] \in Past =>
               task'[u] \in Past /\ content'[u] = content[u]
    BY <1>2, <1>4 DEF TaskNext, ReadHistory, Generated, GenerateFails, SendFrame,
                      engineVars, TypeInv, TypeOK, Past
  <2>2. \A u \in Turns :
               \/ history'[u] = history[u] \/ history'[u] = <<>>
               \/ \E s \in Sessions : history'[u] = sessions[s]
    <3>1. CASE ReadHistory(t)
      BY <1>2, <3>1 DEF ReadHistory, TypeInv, TypeOK
    <3>2. CASE ~ReadHistory(t)
      BY <1>2, <1>4, <3>2 DEF TaskNext, Generated, GenerateFails, SendFrame,
                              engineVars, TypeInv, TypeOK
    <3> QED
      BY <3>1, <3>2
  <2> QED
    BY <1>1, <2>1, <2>2, NothingRecorded
<1>5. ASSUME NEW t \in Turns, Record(t)
      PROVE  WholeInv'
  BY <1>1, <1>5, WholeRecord
<1>6. ASSUME NEW t \in Turns, HostNext(t)
      PROVE  WholeInv'
  <2>1. UNCHANGED <<sessions, history, content, recorded, task>>
    BY <1>6 DEF HostNext, Ask, Open, OpenFails, ReceiveFinal, ReceiveError,
                StartCommand, StartFails, FinishCommand, RecordFails, ApplyPatch,
                PatchFails, GiveUp, Return, Continue, engineVars
  <2> QED
    BY <1>1, <2>1, NothingRecorded
<1>7. ASSUME NEW s \in Sessions, clear_session(s)
      PROVE  WholeInv'
  <2>1. /\ UNCHANGED <<history, content, task>>
        /\ \A r \in Sessions :
             \/ sessions'[r] = sessions[r] /\ recorded'[r] = recorded[r]
             \/ sessions'[r] = <<>> /\ recorded'[r] = {}
    BY <1>2, <1>7 DEF clear_session, TypeInv, TypeOK
  <2> QED
    BY <1>1, <2>1, NothingRecorded
<1>8. CASE UNCHANGED vars
  <2>1. UNCHANGED <<sessions, history, content, recorded, task>>
    BY <1>8 DEF vars, engineVars
  <2> QED
    BY <1>1, <2>1, NothingRecorded
<1> QED
  BY <1>3, <1>4, <1>5, <1>6, <1>7, <1>8 DEF Next

\* Turns of one session may overlap in any number: every history is made of
\* whole exchanges, and no exchange recorded since the last clear_session is
\* lost or repeated.
THEOREM SessionsWhole == Spec => []SessionsAreWhole
<1>1. Init => WholeInv
  <2> SUFFICES ASSUME Init PROVE WholeInv
    OBVIOUS
  <2>1. /\ \A t \in Turns : history[t] = <<>>
        /\ \A s \in Sessions : sessions[s] = <<>> /\ recorded[s] = {}
    BY DEF Init
  <2> QED
    BY <2>1, TypeInit DEF WholeInv, Kept, Whole, PairedWith
<1>2. WholeInv => SessionsAreWhole
  BY WholeIsWhole DEF WholeInv
<1> QED
  BY <1>1, <1>2, WholeStep, PTL DEF Spec

-----------------------------------------------------------------------------
(* What is carried out of an answer.  The predicates below are about one   *)
(* turn: the stage k of its task, its answer pl, the frames un still to be *)
(* sent, those on the wire w, those carried out ha, the front end h and    *)
(* whether it is still asking.                                             *)

\* Frames that have left the wire: carried out, or a command that runs.
Taken(ha, h) == Len(ha) + (IF h = "running" THEN 1 ELSE 0)

\* There is no answer yet, or none at all: at most an error to report.
NoAnswer(k, un, w, ha, h) ==
    /\ k \in {"none", "spawned", "asked"} => un = <<>> /\ w = <<>>
    /\ ha = <<>> /\ h \notin {"running", "answered"}
    /\ \A i \in 1..Len(w) : w[i] = "error"
    /\ \A i \in 1..Len(un) : un[i] = "error"

\* The message comes last, and only there.
Answer(pl) ==
    \A i \in 1..Len(pl) : pl[i] # "error" /\ (pl[i] = "final" <=> i = Len(pl))

\* What was carried out, what is on the way and what is unsent are where the
\* answer has them; as long as the stream that asked is there nothing is lost
\* between them.
InPlace(pl, un, w, ha, h, asks) ==
    /\ Taken(ha, h) + Len(w) + Len(un) <= Len(pl)
    /\ asks => Taken(ha, h) + Len(w) + Len(un) = Len(pl)
    /\ \A i \in 1..Len(ha) : ha[i] = pl[i]
    /\ h = "running" => pl[Taken(ha, h)] = "exec"
    /\ \A i \in 1..Len(w) : w[i] = pl[Taken(ha, h) + i]
    /\ \A i \in 1..Len(un) : un[i] = pl[Len(pl) - Len(un) + i]
    /\ h = "answered" => Len(ha) + 1 = Len(pl)

Carried(k, pl, un, w, ha, h, asks) ==
    IF pl = <<>>
    THEN NoAnswer(k, un, w, ha, h)
    ELSE /\ k \in {"generated", "sending", "done"}
         /\ Answer(pl) /\ InPlace(pl, un, w, ha, h, asks)

CarriedBy(t) ==
    Carried(task[t], planned[t], unsent[t], wire[t], handled[t], host[t], asking[t])

CarryInv == TypeInv /\ \A t \in Turns : CarriedBy(t)

LEMMA TakenIsNat ==
    ASSUME NEW S, NEW ha \in Seq(S), NEW h
    PROVE  Taken(ha, h) \in Nat /\ Taken(ha, h) >= Len(ha) /\ Len(ha) \in Nat
           /\ (h # "running" => Taken(ha, h) = Len(ha))
           /\ (h = "running" => Taken(ha, h) = Len(ha) + 1)
BY LenProperties DEF Taken

\* The stream fails: the frames that had arrived stay in place.
LEMMA CarriedCut ==
    ASSUME NEW k, NEW pl \in Seq(Frames), NEW un \in Seq(Frames),
           NEW w \in Seq(Frames), NEW ha \in Seq(Tools), NEW h, NEW asks,
           Carried(k, pl, un, w, ha, h, asks), NEW n \in 0..Len(w)
    PROVE  Carried(k, pl, un, SubSeq(w, 1, n), ha, h, FALSE)
<1>1. /\ Len(SubSeq(w, 1, n)) = n
      /\ \A i \in 1..n : SubSeq(w, 1, n)[i] = w[i]
      /\ Len(w) \in Nat /\ n \in Nat /\ n <= Len(w)
      /\ w = <<>> => SubSeq(w, 1, n) = <<>>
  <2>1. Len(w) \in Nat
    BY LenProperties
  <2>2. \A i \in 1..n : w[i] \in Frames
    BY <2>1, ElementOfSeq
  <2>3. /\ SubSeq(w, 1, n) \in Seq(Frames)
        /\ Len(SubSeq(w, 1, n)) = n
        /\ \A i \in 1..n : SubSeq(w, 1, n)[i] = w[i]
    BY <2>1, <2>2, SubSeqProperties
  <2>4. w = <<>> => n = 0
    BY <2>1, EmptySeq
  <2> QED
    BY <2>1, <2>3, <2>4, EmptySeq
<1> DEFINE v == SubSeq(w, 1, n)
<1> HIDE DEF v
<1>2. /\ Len(v) = n /\ \A i \in 1..n : v[i] = w[i]
      /\ Len(w) \in Nat /\ n \in Nat /\ n <= Len(w) /\ (w = <<>> => v = <<>>)
  BY <1>1 DEF v
<1>3. CASE pl = <<>>
  BY <1>2, <1>3 DEF Carried, NoAnswer, v
<1>4. CASE pl # <<>>
  <2>1. Taken(ha, h) \in Nat /\ Len(un) \in Nat /\ Len(pl) \in Nat
    BY LenProperties, TakenIsNat
  <2>2. InPlace(pl, un, w, ha, h, asks)
    BY <1>4 DEF Carried
  <2>3. ASSUME NEW i \in 1..Len(v) PROVE v[i] = pl[Taken(ha, h) + i]
    <3>1. i \in 1..Len(w) /\ v[i] = w[i]
      BY <1>2
    <3> QED
      BY <2>2, <3>1 DEF InPlace
  <2>4. Taken(ha, h) + Len(v) + Len(un) <= Len(pl)
    BY <1>2, <2>1, <2>2 DEF InPlace
  <2>5. InPlace(pl, un, v, ha, h, FALSE)
    BY <2>2, <2>3, <2>4 DEF InPlace
  <2> QED
    BY <1>4, <2>5 DEF Carried, v
<1> QED
  BY <1>3, <1>4

\* The model answers: the whole answer is unsent.
LEMMA CarriedGenerated ==
    ASSUME NEW un \in Seq(Frames), NEW pl \in Seq(Frames),
           NEW w \in Seq(Frames), NEW ha \in Seq(Tools), NEW h, NEW asks,
           Carried("asked", pl, un, w, ha, h, asks), NEW calls \in Seq(Tools)
    PROVE  Carried("generated", server_frames(calls), server_frames(calls), w, ha,
                   h, asks)
<1> DEFINE sf == server_frames(calls)
<1>1. /\ Len(calls) \in Nat /\ Len(sf) = Len(calls) + 1
      /\ sf[Len(calls) + 1] = "final"
      /\ \A i \in 1..Len(calls) : sf[i] = calls[i] /\ calls[i] \in Tools
  BY ServerFrames, LenProperties
<1>2. sf # <<>>
  <2>1. calls \in Seq(Frames) /\ "final" \in Frames
    BY SeqMonotonic DEF Frames
  <2> QED
    BY <2>1, AppendProperties DEF server_frames
<1> HIDE DEF sf
<1>3. Answer(sf)
  BY <1>1 DEF Answer, Tools
<1>4. pl = <<>> /\ w = <<>> /\ ha = <<>> /\ h \notin {"running", "answered"}
  BY DEF Carried, NoAnswer
<1>5. Len(w) = 0 /\ Len(ha) = 0 /\ Taken(ha, h) = 0
  BY <1>4 DEF Taken
<1>6. InPlace(sf, sf, w, ha, h, asks)
  BY <1>1, <1>4, <1>5 DEF InPlace
<1> QED
  BY <1>2, <1>3, <1>6 DEF Carried, sf

\* The task sends a frame, or loses it when the stream is gone.
LEMMA CarriedSent ==
    ASSUME NEW pl \in Seq(Frames), NEW un \in Seq(Frames), un # <<>>,
           NEW w \in Seq(Frames), NEW ha \in Seq(Tools), NEW h, NEW asks \in BOOLEAN,
           Carried("sending", pl, un, w, ha, h, asks), NEW k \in {"sending", "done"}
    PROVE  Carried(k, pl, Tail(un), IF asks THEN Append(w, Head(un)) ELSE w, ha, h,
                   asks)
<1> DEFINE v == Tail(un)
           x == IF asks THEN Append(w, Head(un)) ELSE w
<1>1. /\ Len(v) = Len(un) - 1 /\ Len(v) \in Nat
      /\ \A i \in 1..Len(v) : v[i] = un[i + 1]
      /\ Len(w) \in Nat /\ Len(pl) \in Nat /\ Len(un) \in Nat /\ Len(un) >= 1
  BY HeadTailProperties, LenProperties
<1>2. /\ asks => /\ Len(x) = Len(w) + 1
                 /\ \A i \in 1..Len(w) : x[i] = w[i]
                 /\ x[Len(w) + 1] = un[1]
      /\ ~asks => x = w
  <2>1. Head(un) \in Frames /\ Head(un) = un[1]
    BY HeadTailProperties
  <2> QED
    BY <2>1, AppendProperties
<1> HIDE DEF v, x
<1>3. CASE pl = <<>>
  <2>1. NoAnswer("sending", un, w, ha, h)
    BY <1>3 DEF Carried
  <2>2. \A i \in 1..Len(v) : v[i] = "error"
    BY <1>1, <2>1 DEF NoAnswer
  <2>3. \A i \in 1..Len(x) : x[i] = "error"
    <3>1. un[1] = "error"
      BY <1>1, <2>1 DEF NoAnswer
    <3> QED
      BY <1>1, <1>2, <2>1, <3>1 DEF NoAnswer
  <2> QED
    BY <1>3, <2>1, <2>2, <2>3 DEF Carried, NoAnswer, v, x
<1>4. CASE pl # <<>>
  <2>1. Taken(ha, h) \in Nat
    BY TakenIsNat
  <2>2. Answer(pl) /\ InPlace(pl, un, w, ha, h, asks)
    BY <1>4 DEF Carried
  <2>3. \A i \in 1..Len(v) : v[i] = pl[Len(pl) - Len(v) + i]
    <3> SUFFICES ASSUME NEW i \in 1..Len(v) PROVE v[i] = pl[Len(pl) - Len(v) + i]
      OBVIOUS
    <3>1. i + 1 \in 1..Len(un) /\ Len(pl) - Len(un) + (i + 1) = Len(pl) - Len(v) + i
      BY <1>1
    <3> QED
      BY <1>1, <2>2, <3>1 DEF InPlace
  <2>4. \A i \in 1..Len(x) : x[i] = pl[Taken(ha, h) + i]
    <3>1. CASE asks
      <4>1. un[1] = pl[Len(pl) - Len(un) + 1]
        BY <1>1, <2>2 DEF InPlace
      <4>2. Len(pl) - Len(un) + 1 = Taken(ha, h) + (Len(w) + 1)
        BY <1>1, <2>1, <2>2, <3>1 DEF InPlace
      <4>3. ASSUME NEW i \in 1..Len(w) PROVE x[i] = pl[Taken(ha, h) + i]
        BY <1>2, <2>2, <3>1 DEF InPlace
      <4>4. \A i \in 1..Len(x) : i \in 1..Len(w) \/ i = Len(w) + 1
        BY <1>1, <1>2, <3>1
      <4> QED
        BY <1>2, <3>1, <4>1, <4>2, <4>3, <4>4
    <3>2. CASE ~asks
      BY <1>2, <2>2, <3>2 DEF InPlace
    <3> QED
      BY <3>1, <3>2
  <2>5. InPlace(pl, v, x, ha, h, asks)
    BY <1>1, <1>2, <2>1, <2>2, <2>3, <2>4 DEF InPlace
  <2> QED
    BY <1>4, <2>2, <2>5 DEF Carried, v, x
<1> QED
  BY <1>3, <1>4

\* The front end returns; what it has carried out stays.
LEMMA CarriedReturns ==
    ASSUME NEW k, NEW pl \in Seq(Frames), NEW un \in Seq(Frames),
           NEW w \in Seq(Frames), NEW ha \in Seq(Tools), NEW h, NEW asks,
           Carried(k, pl, un, w, ha, h, asks), NEW o \in Ended,
           o = "answered" => h = "waiting" /\ w # <<>> /\ Head(w) = "final"
    PROVE  Carried(k, pl, un, <<>>, ha, o, FALSE)
<1>1. CASE pl = <<>>
  <2>1. o # "answered"
    <3>1. w # <<>> => Head(w) = "error"
      BY <1>1, HeadTailProperties, LenProperties DEF Carried, NoAnswer
    <3> QED
      BY <3>1
  <2> QED
    BY <1>1, <2>1 DEF Carried, NoAnswer, Ended
<1>2. CASE pl # <<>>
  <2>1. /\ Taken(ha, h) \in Nat /\ Taken(ha, h) >= Len(ha) /\ Len(ha) \in Nat
        /\ (h = "waiting" => Taken(ha, h) = Len(ha))
        /\ Len(un) \in Nat /\ Len(pl) \in Nat /\ Len(w) \in Nat
        /\ Taken(ha, o) = Len(ha)
    BY TakenIsNat, LenProperties DEF Ended
  <2>2. Answer(pl) /\ InPlace(pl, un, w, ha, h, asks)
    BY <1>2 DEF Carried
  <2>3. o = "answered" => Len(ha) + 1 = Len(pl)
    <3> SUFFICES ASSUME o = "answered" PROVE Len(ha) + 1 = Len(pl)
      OBVIOUS
    <3>1. Len(w) >= 1 /\ w[1] = "final"
      BY LenProperties, EmptySeq
    <3>2. pl[Len(ha) + 1] = "final" /\ Len(ha) + 1 \in 1..Len(pl)
      BY <2>1, <2>2, <3>1 DEF InPlace
    <3> QED
      BY <2>2, <3>2 DEF Answer
  <2>4. Len(ha) + 0 + Len(un) <= Len(pl)
    BY <2>1, <2>2 DEF InPlace
  <2>5. InPlace(pl, un, <<>>, ha, o, FALSE)
    BY <2>1, <2>2, <2>3, <2>4 DEF InPlace, Ended
  <2> QED
    BY <1>2, <2>2, <2>5 DEF Carried
<1> QED
  BY <1>1, <1>2

\* The front end takes a tool's frame from the wire: a command runs, or a patch
\* is carried out at once.
LEMMA CarriedTakes ==
    ASSUME NEW k, NEW pl \in Seq(Frames), NEW un \in Seq(Frames),
           NEW w \in Seq(Frames), NEW ha \in Seq(Tools), NEW asks,
           Carried(k, pl, un, w, ha, "waiting", asks), w # <<>>, Head(w) \in Tools
    PROVE  /\ Head(w) = "exec" => Carried(k, pl, un, Tail(w), ha, "running", asks)
           /\ Carried(k, pl, un, Tail(w), Append(ha, Head(w)), "waiting", asks)
<1> DEFINE v == Tail(w)
           f == Head(w)
           hb == Append(ha, f)
           n == Len(ha)
<1>1. /\ Len(v) = Len(w) - 1 /\ Len(v) \in Nat
      /\ \A i \in 1..Len(v) : v[i] = w[i + 1]
      /\ Len(w) \in Nat /\ Len(pl) \in Nat /\ Len(un) \in Nat /\ Len(w) >= 1
      /\ w[1] = f /\ n \in Nat
  BY HeadTailProperties, LenProperties
<1>2. /\ Len(hb) = n + 1 /\ hb[n + 1] = f
      /\ \A i \in 1..n : hb[i] = ha[i]
  BY AppendProperties
<1> HIDE DEF v, f, hb, n
<1>3. pl # <<>>
  <2>1. f # "error"
    BY DEF Tools, f
  <2> QED
    BY <1>1, <2>1 DEF Carried, NoAnswer
<1>4. /\ Answer(pl) /\ InPlace(pl, un, w, ha, "waiting", asks)
      /\ k \in {"generated", "sending", "done"}
  BY <1>3 DEF Carried
<1>5. /\ Taken(ha, "waiting") = n /\ Taken(ha, "running") = n + 1
      /\ Taken(hb, "waiting") = n + 1
  BY <1>1, <1>2 DEF Taken, n
<1>6. f = pl[n + 1]
  BY <1>1, <1>4, <1>5 DEF InPlace
<1>7. ASSUME NEW i \in 1..Len(v) PROVE v[i] = pl[n + 1 + i]
  <2>1. i + 1 \in 1..Len(w) /\ n + (i + 1) = n + 1 + i
    BY <1>1
  <2> QED
    BY <1>1, <1>4, <1>5, <2>1 DEF InPlace
<1>8. n + 1 + Len(v) = n + Len(w)
  BY <1>1
<1>9. ASSUME f = "exec" PROVE InPlace(pl, un, v, ha, "running", asks)
  BY <1>4, <1>5, <1>6, <1>7, <1>8, <1>9 DEF InPlace
<1>10. InPlace(pl, un, v, hb, "waiting", asks)
  <2>1. \A i \in 1..Len(hb) : hb[i] = pl[i]
    <3>1. \A i \in 1..Len(hb) : i \in 1..n \/ i = n + 1
      BY <1>1, <1>2
    <3>2. \A i \in 1..n : ha[i] = pl[i]
      BY <1>4 DEF InPlace, n
    <3> QED
      BY <1>2, <1>6, <3>1, <3>2
  <2> QED
    BY <1>4, <1>5, <1>7, <1>8, <2>1 DEF InPlace
<1> QED
  BY <1>3, <1>4, <1>9, <1>10 DEF Carried, v, f, hb

\* A command has run.
LEMMA CarriedRan ==
    ASSUME NEW k, NEW pl \in Seq(Frames), NEW un \in Seq(Frames),
           NEW w \in Seq(Frames), NEW ha \in Seq(Tools), NEW asks,
           Carried(k, pl, un, w, ha, "running", asks)
    PROVE  Carried(k, pl, un, w, Append(ha, "exec"), "waiting", asks)
<1> DEFINE hb == Append(ha, "exec")
           n == Len(ha)
<1>1. /\ Len(hb) = n + 1 /\ hb[n + 1] = "exec"
      /\ \A i \in 1..n : hb[i] = ha[i] /\ n \in Nat
  BY AppendProperties, LenProperties DEF Tools
<1> HIDE DEF hb
<1>2. n \in Nat
  BY LenProperties
<1> HIDE DEF n
<1>3. /\ pl # <<>> /\ Answer(pl) /\ InPlace(pl, un, w, ha, "running", asks)
      /\ k \in {"generated", "sending", "done"}
  BY DEF Carried, NoAnswer
<1>4. Taken(ha, "running") = n + 1 /\ Taken(hb, "waiting") = n + 1
  BY <1>1, <1>2 DEF Taken, n
<1>5. \A i \in 1..Len(hb) : hb[i] = pl[i]
  <2>1. \A i \in 1..Len(hb) : i \in 1..n \/ i = n + 1
    BY <1>1, <1>2
  <2>2. pl[n + 1] = "exec" /\ \A i \in 1..n : ha[i] = pl[i]
    BY <1>3, <1>4 DEF InPlace, n
  <2> QED
    BY <1>1, <2>1, <2>2
<1>6. InPlace(pl, un, w, hb, "waiting", asks)
  BY <1>3, <1>4, <1>5 DEF InPlace
<1> QED
  BY <1>3, <1>6 DEF Carried, hb

\* A step of one turn leaves the others alone.
Alone(t) ==
    \A u \in Turns \ {t} :
        /\ task'[u] = task[u] /\ planned'[u] = planned[u] /\ unsent'[u] = unsent[u]
        /\ wire'[u] = wire[u] /\ handled'[u] = handled[u] /\ host'[u] = host[u]
        /\ asking'[u] = asking[u]

LEMMA CarryAlone ==
    ASSUME CarryInv, TypeInv', NEW t \in Turns, Alone(t), CarriedBy(t)'
    PROVE  CarryInv'
<1>1. ASSUME NEW u \in Turns \ {t} PROVE CarriedBy(u)'
  BY DEF CarryInv, Alone, CarriedBy
<1> QED
  BY <1>1 DEF CarryInv

LEMMA CarryTypes ==
    ASSUME TypeInv, NEW t \in Turns
    PROVE  /\ planned[t] \in Seq(Frames) /\ unsent[t] \in Seq(Frames)
           /\ wire[t] \in Seq(Frames) /\ handled[t] \in Seq(Tools)
           /\ asking[t] \in BOOLEAN
BY DEF TypeInv, TypeOK

LEMMA CarryTunnel ==
    ASSUME CarryInv, TypeInv', NEW t \in Turns, TunnelNext(t)
    PROVE  CarryInv'
<1>1. TypeInv /\ CarriedBy(t)
  BY DEF CarryInv
<1>2. CASE PromptArrives(t)
  <2>1. Alone(t)
    BY <1>1, <1>2 DEF PromptArrives, Alone, engineVars, hostVars, TypeInv, TypeOK
  <2>2. /\ task[t] = "none" /\ task'[t] = "spawned"
        /\ planned'[t] = planned[t] /\ unsent'[t] = unsent[t] /\ wire'[t] = wire[t]
        /\ handled'[t] = handled[t] /\ host'[t] = host[t]
    BY <1>1, <1>2 DEF PromptArrives, engineVars, hostVars, TypeInv, TypeOK, Stages
  <2>3. CarriedBy(t)'
    BY <1>1, <2>2 DEF CarriedBy, Carried, NoAnswer
  <2> QED
    BY <2>1, <2>3, CarryAlone
<1>3. CASE PromptLost(t)
  <2>1. Alone(t) /\ CarriedBy(t)'
    BY <1>1, <1>3 DEF PromptLost, Alone, CarriedBy, engineVars, hostVars
  <2> QED
    BY <2>1, CarryAlone
<1>4. ASSUME NEW n \in 0..Len(wire[t]), ConnectionLost(t, n)
      PROVE  CarryInv'
  <2>1. Alone(t)
    BY <1>1, <1>4 DEF ConnectionLost, Alone, engineVars, hostVars, TypeInv, TypeOK
  <2>2. /\ task'[t] = task[t] /\ planned'[t] = planned[t] /\ unsent'[t] = unsent[t]
        /\ wire'[t] = SubSeq(wire[t], 1, n) /\ handled'[t] = handled[t]
        /\ host'[t] = host[t] /\ asking'[t] = FALSE
    BY <1>1, <1>4 DEF ConnectionLost, engineVars, hostVars, TypeInv, TypeOK
  <2>3. Carried(task[t], planned[t], unsent[t], SubSeq(wire[t], 1, n), handled[t],
                host[t], FALSE)
    BY <1>1, CarryTypes, CarriedCut DEF CarriedBy
  <2>4. CarriedBy(t)'
    BY <2>2, <2>3 DEF CarriedBy
  <2> QED
    BY <2>1, <2>4, CarryAlone
<1> QED
  BY <1>2, <1>3, <1>4 DEF TunnelNext

LEMMA CarryTask ==
    ASSUME CarryInv, TypeInv', NEW t \in Turns, TaskNext(t)
    PROVE  CarryInv'
<1>1. TypeInv /\ CarriedBy(t)
  BY DEF CarryInv
<1>2. CASE ReadHistory(t)
  <2>1. /\ Alone(t) /\ task[t] = "spawned" /\ task'[t] = "asked"
        /\ UNCHANGED <<planned, unsent, wire, handled, host, asking>>
    BY <1>1, <1>2 DEF ReadHistory, Alone, hostVars, TypeInv, TypeOK
  <2>2. CarriedBy(t)'
    BY <1>1, <2>1 DEF CarriedBy, Carried, NoAnswer
  <2> QED
    BY <2>1, <2>2, CarryAlone
<1>3. ASSUME NEW calls \in Answers(t), NEW text \in BOOLEAN,
             Generated(t, calls, text)
      PROVE  CarryInv'
  <2> DEFINE sf == server_frames(calls)
  <2> HIDE DEF sf
  <2>1. /\ Alone(t) /\ task[t] = "asked" /\ task'[t] = "generated"
        /\ planned'[t] = sf /\ unsent'[t] = sf
        /\ UNCHANGED <<wire, handled, host, asking>>
    BY <1>1, <1>3 DEF Generated, Alone, hostVars, TypeInv, TypeOK, sf
  <2>2. calls \in Seq(Tools)
    BY AnswersAreSeqs
  <2>3. Carried("generated", sf, sf, wire[t], handled[t], host[t], asking[t])
    BY <1>1, <2>1, <2>2, CarryTypes, CarriedGenerated DEF CarriedBy, sf
  <2>4. CarriedBy(t)'
    BY <2>1, <2>3 DEF CarriedBy
  <2> QED
    BY <2>1, <2>4, CarryAlone
<1>4. CASE GenerateFails(t)
  <2>1. /\ Alone(t) /\ task[t] = "asked" /\ task'[t] = "sending"
        /\ unsent'[t] = <<"error">>
        /\ UNCHANGED <<planned, wire, handled, host, asking>>
    BY <1>1, <1>4 DEF GenerateFails, Alone, hostVars, TypeInv, TypeOK
  <2>2. CarriedBy(t)'
    BY <1>1, <2>1 DEF CarriedBy, Carried, NoAnswer
  <2> QED
    BY <2>1, <2>2, CarryAlone
<1>5. CASE Record(t)
  <2>1. /\ Alone(t) /\ task[t] = "generated" /\ task'[t] = "sending"
        /\ UNCHANGED <<planned, unsent, wire, handled, host, asking>>
    BY <1>1, <1>5 DEF Record, Alone, hostVars, TypeInv, TypeOK
  <2>2. CarriedBy(t)'
    BY <1>1, <2>1 DEF CarriedBy, Carried, NoAnswer
  <2> QED
    BY <2>1, <2>2, CarryAlone
<1>6. CASE SendFrame(t)
  <2>1. /\ Alone(t) /\ task[t] = "sending" /\ task'[t] \in {"sending", "done"}
        /\ unsent'[t] = Tail(unsent[t])
        /\ wire'[t] = IF asking[t] THEN Append(wire[t], Head(unsent[t])) ELSE wire[t]
        /\ UNCHANGED <<planned, handled, host, asking>>
    BY <1>1, <1>6 DEF SendFrame, Reaches, Alone, engineVars, hostVars, TypeInv, TypeOK
  <2>2. unsent[t] # <<>>
    BY <1>1, <2>1 DEF TypeInv, Stages
  <2>3. Carried(task'[t], planned[t], Tail(unsent[t]),
                IF asking[t] THEN Append(wire[t], Head(unsent[t])) ELSE wire[t],
                handled[t], host[t], asking[t])
    BY <1>1, <2>1, <2>2, CarryTypes, CarriedSent DEF CarriedBy
  <2>4. CarriedBy(t)'
    BY <2>1, <2>3 DEF CarriedBy
  <2> QED
    BY <2>1, <2>4, CarryAlone
<1> QED
  BY <1>2, <1>3, <1>4, <1>5, <1>6 DEF TaskNext

LEMMA CarryReturn ==
    ASSUME CarryInv, TypeInv', NEW t \in Turns, NEW o \in Ended, Return(t, o),
           o = "answered" => Receives(t, "final")
    PROVE  CarryInv'
<1>1. TypeInv /\ CarriedBy(t)
  BY DEF CarryInv
<1>2. /\ Alone(t) /\ wire'[t] = <<>> /\ host'[t] = o /\ asking'[t] = FALSE
      /\ UNCHANGED <<task, planned, unsent, handled>>
  BY <1>1 DEF Return, Alone, engineVars, TypeInv, TypeOK
<1>3. Carried(task[t], planned[t], unsent[t], <<>>, handled[t], o, FALSE)
  BY <1>1, CarryTypes, CarriedReturns DEF CarriedBy, Receives
<1>4. CarriedBy(t)'
  BY <1>2, <1>3 DEF CarriedBy
<1> QED
  BY <1>2, <1>4, CarryAlone

LEMMA CarryHost ==
    ASSUME CarryInv, TypeInv', NEW t \in Turns, HostNext(t)
    PROVE  CarryInv'
<1>1. TypeInv /\ CarriedBy(t)
  BY DEF CarryInv
<1>2. CASE Open(t) \/ \E s \in Sessions \cup {NoSession} : Ask(t, s)
  <2>1. /\ Alone(t) /\ host[t] \in {"idle", "opening"}
        /\ host'[t] \in {"opening", "waiting"}
        /\ UNCHANGED <<task, planned, unsent, wire, handled, asking>>
    BY <1>1, <1>2 DEF Ask, Open, Alone, engineVars, TypeInv, TypeOK
  <2>2. CarriedBy(t)'
    <3>1. Taken(handled[t], host'[t]) = Taken(handled[t], host[t])
      BY <2>1 DEF Taken
    <3> QED
      BY <1>1, <2>1, <3>1 DEF CarriedBy, Carried, NoAnswer, InPlace
  <2> QED
    BY <2>1, <2>2, CarryAlone
<1>3. CASE OpenFails(t) \/ ReceiveError(t) \/ StartFails(t) \/ RecordFails(t)
           \/ PatchFails(t) \/ GiveUp(t)
  <2>1. \E o \in Ended \ {"answered"} : Return(t, o)
    BY <1>3 DEF OpenFails, ReceiveError, StartFails, RecordFails, PatchFails,
                GiveUp, Ended
  <2> QED
    BY <2>1, CarryReturn
<1>4. CASE ReceiveFinal(t)
  <2>1. Receives(t, "final") /\ \E o \in Ended : Return(t, o)
    BY <1>4 DEF ReceiveFinal, Ended
  <2> QED
    BY <2>1, CarryReturn
<1>5. CASE StartCommand(t)
  <2>1. /\ Alone(t) /\ host[t] = "waiting" /\ host'[t] = "running"
        /\ wire[t] # <<>> /\ Head(wire[t]) = "exec" /\ wire'[t] = Tail(wire[t])
        /\ UNCHANGED <<task, planned, unsent, handled, asking>>
    BY <1>1, <1>5 DEF StartCommand, Receives, Continue, Alone, engineVars, TypeInv,
                      TypeOK
  <2>2. Carried(task[t], planned[t], unsent[t], Tail(wire[t]), handled[t],
                "running", asking[t])
    BY <1>1, <2>1, CarryTypes, CarriedTakes DEF CarriedBy, Tools
  <2>3. CarriedBy(t)'
    BY <2>1, <2>2 DEF CarriedBy
  <2> QED
    BY <2>1, <2>3, CarryAlone
<1>6. CASE FinishCommand(t)
  <2>1. /\ Alone(t) /\ host[t] = "running" /\ host'[t] = "waiting"
        /\ handled'[t] = Append(handled[t], "exec")
        /\ UNCHANGED <<task, planned, unsent, wire, asking>>
    BY <1>1, <1>6 DEF FinishCommand, Alone, engineVars, TypeInv, TypeOK
  <2>2. Carried(task[t], planned[t], unsent[t], wire[t],
                Append(handled[t], "exec"), "waiting", asking[t])
    BY <1>1, <2>1, CarryTypes, CarriedRan DEF CarriedBy
  <2>3. CarriedBy(t)'
    BY <2>1, <2>2 DEF CarriedBy
  <2> QED
    BY <2>1, <2>3, CarryAlone
<1>7. CASE ApplyPatch(t)
  <2>1. /\ Alone(t) /\ host[t] = "waiting" /\ host'[t] = "waiting"
        /\ wire[t] # <<>> /\ Head(wire[t]) = "patch" /\ wire'[t] = Tail(wire[t])
        /\ handled'[t] = Append(handled[t], Head(wire[t]))
        /\ UNCHANGED <<task, planned, unsent, asking>>
    BY <1>1, <1>7 DEF ApplyPatch, Receives, Continue, Alone, engineVars, TypeInv,
                      TypeOK
  <2>2. Carried(task[t], planned[t], unsent[t], Tail(wire[t]),
                Append(handled[t], Head(wire[t])), "waiting", asking[t])
    BY <1>1, <2>1, CarryTypes, CarriedTakes DEF CarriedBy, Tools
  <2>3. CarriedBy(t)'
    BY <2>1, <2>2 DEF CarriedBy
  <2> QED
    BY <2>1, <2>3, CarryAlone
<1> QED
  BY <1>2, <1>3, <1>4, <1>5, <1>6, <1>7 DEF HostNext

LEMMA CarryStep == CarryInv /\ [Next]_vars => CarryInv'
<1> SUFFICES ASSUME CarryInv, [Next]_vars PROVE CarryInv'
  OBVIOUS
<1>1. TypeInv'
  BY TypeStep DEF CarryInv
<1>2. ASSUME NEW t \in Turns, TunnelNext(t) \/ TaskNext(t) \/ HostNext(t)
      PROVE  CarryInv'
  BY <1>1, <1>2, CarryTunnel, CarryTask, CarryHost
<1>3. CASE UNCHANGED vars \/ \E s \in Sessions : clear_session(s)
  <2>1. UNCHANGED <<task, planned, unsent, wire, handled, host, asking>>
    BY <1>3 DEF vars, engineVars, hostVars, clear_session
  <2> QED
    BY <1>1, <2>1 DEF CarryInv, CarriedBy
<1> QED
  BY <1>2, <1>3 DEF Next

\* A front end that reports a turn as answered has carried out all the tool
\* calls of the answer, in order, and nothing else, wherever connections were
\* lost and however long the answer was.
THEOREM AnsweredCarriedOut == Spec => []AnsweredIsCarriedOut
<1>1. Init => CarryInv
  <2> SUFFICES ASSUME Init PROVE CarryInv
    OBVIOUS
  <2>1. \A t \in Turns :
          /\ task[t] = "none" /\ planned[t] = <<>> /\ unsent[t] = <<>>
          /\ wire[t] = <<>> /\ handled[t] = <<>> /\ host[t] = "idle"
    BY DEF Init
  <2> QED
    BY <2>1, TypeInit DEF CarryInv, CarriedBy, Carried, NoAnswer
<1>2. CarryInv => AnsweredIsCarriedOut
  <2> SUFFICES ASSUME CarryInv, NEW t \in Turns, host[t] = "answered"
               PROVE  planned[t] = handled[t] \o <<"final">>
    BY DEF AnsweredIsCarriedOut
  <2> DEFINE pl == planned[t]
             ha == handled[t]
  <2>1. TypeInv /\ CarriedBy(t)
    BY DEF CarryInv
  <2>2. pl \in Seq(Frames) /\ ha \in Seq(Tools)
    BY <2>1, CarryTypes
  <2>3. /\ Answer(pl) /\ Len(pl) = Len(ha) + 1
        /\ \A i \in 1..Len(ha) : ha[i] = pl[i]
    BY <2>1 DEF CarriedBy, Carried, NoAnswer, InPlace
  <2> HIDE DEF pl, ha
  <2>4. ha \in Seq(Frames) /\ <<"final">> \in Seq(Frames) /\ Len(ha) \in Nat
    <3>1. "final" \in Frames /\ Tools \subseteq Frames
      BY DEF Frames
    <3> QED
      BY <2>2, <3>1, SeqMonotonic, LenProperties
  <2>5. pl[Len(ha) + 1] = "final"
    BY <2>3, <2>4 DEF Answer
  <2> DEFINE g == ha \o <<"final">>
  <2>6. /\ g \in Seq(Frames) /\ Len(g) = Len(ha) + Len(<<"final">>)
        /\ \A i \in 1..Len(ha) : g[i] = ha[i]
        /\ \A i \in 1..Len(<<"final">>) : g[Len(ha) + i] = <<"final">>[i]
    BY <2>4, ConcatParts
  <2>7. Len(g) = Len(ha) + 1 /\ g[Len(ha) + 1] = "final"
    BY <2>6
  <2> HIDE DEF g
  <2>8. \A i \in 1..Len(pl) : pl[i] = g[i]
    <3>1. \A i \in 1..Len(pl) : i \in 1..Len(ha) \/ i = Len(ha) + 1
      BY <2>3, <2>4
    <3> QED
      BY <2>3, <2>5, <2>6, <2>7, <3>1
  <2>9. pl = g
    BY <2>2, <2>3, <2>6, <2>7, <2>8, SeqEqual
  <2> QED
    BY <2>9 DEF pl, ha, g
<1> QED
  BY <1>1, <1>2, CarryStep, PTL DEF Spec

=============================================================================
