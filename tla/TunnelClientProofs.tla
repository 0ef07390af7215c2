------------------------ MODULE TunnelClientProofs ------------------------
(***************************************************************************)
(* Theorems about TunnelClient, for every capacity, limit, delay and       *)
(* bound: type correctness, the state of the `connected` watch, the order  *)
(* in which frames reach the connections, where an accepted frame may go,  *)
(* and the back-off.                                                       *)
(***************************************************************************)
EXTENDS TunnelClient, SequenceTheorems, WellFoundedInduction, TLAPS

-----------------------------------------------------------------------------
(* Type correctness.  The frame that is resent needs a place in the new    *)
(* connection's channel: the channel is still empty then.                  *)

DataInv == DataOK /\ (worker = "resend" => conn = 0)

\* The delay stays a natural number when it grows.
LEMMA GrownDelayType ==
    ASSUME NEW d \in Nat
    PROVE  GrownDelay(d) \in Nat
<1>1. d * BackoffNum \in Nat
    BY DelayAssumption
<1>2. (d * BackoffNum) \div BackoffDen \in Nat
    BY <1>1, DelayAssumption
<1> QED
    BY <1>2, DelayAssumption DEF GrownDelay

\* Every step leaves the flags flags.
LEMMA FlagsStep == FlagsOK /\ [Next]_vars => FlagsOK'
<1> SUFFICES ASSUME FlagsOK, [Next]_vars
             PROVE  FlagsOK'
    OBVIOUS
<1> USE DEF FlagsOK, retryVars, frameVars, linkVars, watchVars, appVars,
        waitVars

<1>1. CASE TopStop
    BY <1>1 DEF TopStop, Stop, Announce, HangUp
<1>2. CASE TopAttempt
    BY <1>2 DEF TopAttempt
<1>3. CASE ConnectOk
    BY <1>3 DEF ConnectOk
<1>4. CASE ConnectFail
    BY <1>4 DEF ConnectFail
<1>5. CASE OpenOk
    BY <1>5 DEF OpenOk, Announce, ResetBackoff
<1>6. CASE OpenFail
    BY <1>6 DEF OpenFail
<1>7. CASE Sleep
    BY <1>7 DEF Sleep, HangUp, GrownDelay
<1>8. CASE SleepShutdown
    BY <1>8 DEF SleepShutdown, Stop, Announce, HangUp
<1>9. CASE ResendPending
    BY <1>9 DEF ResendPending, Handed, TakePending, KeepPending
<1>10. CASE StreamShutdown
    BY <1>10 DEF StreamShutdown, Announce
<1>11. CASE InboundFrame
    BY <1>11 DEF InboundFrame
<1>12. CASE InboundEnd
    BY <1>12 DEF InboundEnd, Announce
<1>13. CASE Deliver
    BY <1>13 DEF Deliver, Room
<1>14. CASE DeliverClosed
    BY <1>14 DEF DeliverClosed, Stop, Announce, HangUp
<1>15. CASE OutboundRecv
    BY <1>15 DEF OutboundRecv
<1>16. CASE OutboundClosed
    BY <1>16 DEF OutboundClosed, Stop, Announce, HangUp
<1>17. CASE HeartbeatTick
    BY <1>17 DEF HeartbeatTick, Hb
<1>18. CASE SendToConn
    BY <1>18 DEF SendToConn, Handed, Room
<1>19. CASE SendFailed
    BY <1>19 DEF SendFailed, Announce
<1>20. CASE Transmit
    BY <1>20 DEF Transmit
<1>21. CASE BreakUp
    BY <1>21 DEF BreakUp
<1>22. CASE BreakDown
    BY <1>22 DEF BreakDown
<1>23. CASE Send
    BY <1>23 DEF Send, Room, App
<1>24. CASE Recv
    BY <1>24 DEF Recv
<1>25. CASE DropTx
    BY <1>25 DEF DropTx
<1>26. CASE DropRx
    BY <1>26 DEF DropRx
<1>27. CASE HandleClose
    BY <1>27 DEF HandleClose
<1>28. CASE ClientClose
    BY <1>28 DEF ClientClose
<1>29. CASE WaitBegin
    BY <1>29 DEF WaitBegin
<1>30. CASE WaitClone
    BY <1>30 DEF WaitClone
<1>31. CASE WaitWake
    BY <1>31 DEF WaitWake
<1>32. CASE WaitRead
    BY <1>32 DEF WaitRead
<1>33. CASE WaitFail
    BY <1>33 DEF WaitFail
<1>34. CASE UNCHANGED vars
    BY <1>34 DEF vars
<1> QED
    BY <1>1, <1>2, <1>3, <1>4, <1>5, <1>6, <1>7, <1>8, <1>9,
       <1>10, <1>11, <1>12, <1>13, <1>14, <1>15, <1>16, <1>17, <1>18,
       <1>19, <1>20, <1>21, <1>22, <1>23, <1>24, <1>25, <1>26, <1>27,
       <1>28, <1>29, <1>30, <1>31, <1>32, <1>33, <1>34
       DEF Next, WorkerNext, LinkNext, AppNext

\* Every step keeps the rest of the state in its types.
LEMMA DataStep == DataInv /\ [Next]_vars => DataInv'
<1> SUFFICES ASSUME DataInv, [Next]_vars
             PROVE  DataInv'
    OBVIOUS
<1> USE CapacityAssumption, AttemptsAssumption, DelayAssumption,
        BoundsAssumption
<1> USE DEF DataInv, DataOK, ChannelsOK, Frames, Serving,
        WorkerStates, retryVars, frameVars, linkVars, watchVars, appVars,
        waitVars

<1>1. CASE TopStop
    BY <1>1 DEF TopStop, Stop, Announce, HangUp
<1>2. CASE TopAttempt
    BY <1>2 DEF TopAttempt
<1>3. CASE ConnectOk
    BY <1>3 DEF ConnectOk
<1>4. CASE ConnectFail
    BY <1>4 DEF ConnectFail
<1>5. CASE OpenOk
    BY <1>5 DEF OpenOk, Announce, ResetBackoff
<1>6. CASE OpenFail
    BY <1>6 DEF OpenFail
<1>7. CASE Sleep
    <2>1. GrownDelay(current_delay) \in Nat
        BY GrownDelayType
    <2> QED
        BY <1>7, <2>1 DEF Sleep, HangUp
<1>8. CASE SleepShutdown
    BY <1>8 DEF SleepShutdown, Stop, Announce, HangUp
<1>9. CASE ResendPending
    <2>1. CASE handed' = handed /\ conn' = conn
        BY <1>9, <2>1 DEF ResendPending, TakePending, KeepPending
    <2>2. CASE \E f \in pending_frame : Handed(f) /\ TakePending
        <3>1. PICK f \in pending_frame : Handed(f) /\ TakePending
            BY <2>2
        <3>2. Append(handed, f) \in Seq(Frames)
            BY AppendProperties
        <3> QED
            BY <1>9, <3>1, <3>2 DEF ResendPending, Handed, TakePending
    <2> QED
        BY <1>9, <2>1, <2>2 DEF ResendPending
<1>10. CASE StreamShutdown
    BY <1>10 DEF StreamShutdown, Announce
<1>11. CASE InboundFrame
    BY <1>11 DEF InboundFrame
<1>12. CASE InboundEnd
    BY <1>12 DEF InboundEnd, Announce
<1>13. CASE Deliver
    BY <1>13 DEF Deliver, Room
<1>14. CASE DeliverClosed
    BY <1>14 DEF DeliverClosed, Stop, Announce, HangUp
<1>15. CASE OutboundRecv
    <2>1. /\ Head(outbound) \in Frames
          /\ Tail(outbound) \in Seq(Frames)
          /\ Len(Tail(outbound)) = Len(outbound) - 1
        BY <1>15, HeadTailProperties DEF OutboundRecv
    <2>2. Len(outbound) > 0
        BY <1>15, EmptySeq DEF OutboundRecv
    <2> QED
        BY <1>15, <2>1, <2>2 DEF OutboundRecv
<1>16. CASE OutboundClosed
    BY <1>16 DEF OutboundClosed, Stop, Announce, HangUp
<1>17. CASE HeartbeatTick
    BY <1>17 DEF HeartbeatTick, Hb
<1>18. CASE SendToConn
    BY <1>18 DEF SendToConn, Handed, Room
<1>19. CASE SendFailed
    BY <1>19 DEF SendFailed, Announce
<1>20. CASE Transmit
    BY <1>20 DEF Transmit
<1>21. CASE BreakUp
    BY <1>21 DEF BreakUp
<1>22. CASE BreakDown
    BY <1>22 DEF BreakDown
<1>23. CASE Send
    BY <1>23 DEF Send, Room, App
<1>24. CASE Recv
    BY <1>24 DEF Recv
<1>25. CASE DropTx
    BY <1>25 DEF DropTx
<1>26. CASE DropRx
    BY <1>26 DEF DropRx
<1>27. CASE HandleClose
    BY <1>27 DEF HandleClose
<1>28. CASE ClientClose
    BY <1>28 DEF ClientClose
<1>29. CASE WaitBegin
    BY <1>29 DEF WaitBegin
<1>30. CASE WaitClone
    BY <1>30 DEF WaitClone
<1>31. CASE WaitWake
    BY <1>31 DEF WaitWake
<1>32. CASE WaitRead
    BY <1>32 DEF WaitRead
<1>33. CASE WaitFail
    BY <1>33 DEF WaitFail
<1>34. CASE UNCHANGED vars
    BY <1>34 DEF vars
<1> QED
    BY <1>1, <1>2, <1>3, <1>4, <1>5, <1>6, <1>7, <1>8, <1>9,
       <1>10, <1>11, <1>12, <1>13, <1>14, <1>15, <1>16, <1>17, <1>18,
       <1>19, <1>20, <1>21, <1>22, <1>23, <1>24, <1>25, <1>26, <1>27,
       <1>28, <1>29, <1>30, <1>31, <1>32, <1>33, <1>34
       DEF Next, WorkerNext, LinkNext, AppNext

\* Type correctness of the client: in particular no channel ever holds more
\* than channel_capacity frames, the resent frame included.
THEOREM TypeCorrect == Spec => []TypeOK
<1>1. Init => DataInv
    BY CapacityAssumption, AttemptsAssumption, DelayAssumption,
       BoundsAssumption
       DEF Init, DataInv, DataOK, ChannelsOK, WorkerStates, Serving
<1>2. Init => FlagsOK
    BY DEF Init, FlagsOK
<1>3. DataInv /\ FlagsOK => TypeOK
    BY DEF DataInv, DataOK, TypeOK
<1> QED
    BY <1>1, <1>2, <1>3, DataStep, FlagsStep, PTL DEF Spec

-----------------------------------------------------------------------------
(* The `connected` watch.  A waiter's clone takes over everSent as its     *)
(* unseen mark, so that has to be set whenever the watch is true.          *)

WatchInv ==
    /\ ConnectedWhileServing
    /\ NoLostWakeup
    /\ connected => everSent

\* Every step keeps the watch in line with the worker and its waiter.
LEMMA WatchStep == WatchInv /\ [Next]_vars => WatchInv'
<1> SUFFICES ASSUME WatchInv, [Next]_vars
             PROVE  WatchInv'
    OBVIOUS
<1> USE DEF WatchInv, ConnectedWhileServing, NoLostWakeup, Serving,
        retryVars, frameVars, linkVars, watchVars, appVars,
        waitVars

<1>1. CASE TopStop
    BY <1>1 DEF TopStop, Stop, Announce, HangUp
<1>2. CASE TopAttempt
    BY <1>2 DEF TopAttempt
<1>3. CASE ConnectOk
    BY <1>3 DEF ConnectOk
<1>4. CASE ConnectFail
    BY <1>4 DEF ConnectFail
<1>5. CASE OpenOk
    BY <1>5 DEF OpenOk, Announce, ResetBackoff
<1>6. CASE OpenFail
    BY <1>6 DEF OpenFail
<1>7. CASE Sleep
    BY <1>7 DEF Sleep, HangUp, GrownDelay
<1>8. CASE SleepShutdown
    BY <1>8 DEF SleepShutdown, Stop, Announce, HangUp
<1>9. CASE ResendPending
    BY <1>9 DEF ResendPending, Handed, TakePending, KeepPending
<1>10. CASE StreamShutdown
    BY <1>10 DEF StreamShutdown, Announce
<1>11. CASE InboundFrame
    BY <1>11 DEF InboundFrame
<1>12. CASE InboundEnd
    BY <1>12 DEF InboundEnd, Announce
<1>13. CASE Deliver
    BY <1>13 DEF Deliver, Room
<1>14. CASE DeliverClosed
    BY <1>14 DEF DeliverClosed, Stop, Announce, HangUp
<1>15. CASE OutboundRecv
    BY <1>15 DEF OutboundRecv
<1>16. CASE OutboundClosed
    BY <1>16 DEF OutboundClosed, Stop, Announce, HangUp
<1>17. CASE HeartbeatTick
    BY <1>17 DEF HeartbeatTick, Hb
<1>18. CASE SendToConn
    BY <1>18 DEF SendToConn, Handed, Room
<1>19. CASE SendFailed
    BY <1>19 DEF SendFailed, Announce
<1>20. CASE Transmit
    BY <1>20 DEF Transmit
<1>21. CASE BreakUp
    BY <1>21 DEF BreakUp
<1>22. CASE BreakDown
    BY <1>22 DEF BreakDown
<1>23. CASE Send
    BY <1>23 DEF Send, Room, App
<1>24. CASE Recv
    BY <1>24 DEF Recv
<1>25. CASE DropTx
    BY <1>25 DEF DropTx
<1>26. CASE DropRx
    BY <1>26 DEF DropRx
<1>27. CASE HandleClose
    BY <1>27 DEF HandleClose
<1>28. CASE ClientClose
    BY <1>28 DEF ClientClose
<1>29. CASE WaitBegin
    BY <1>29 DEF WaitBegin
<1>30. CASE WaitClone
    BY <1>30 DEF WaitClone
<1>31. CASE WaitWake
    BY <1>31 DEF WaitWake
<1>32. CASE WaitRead
    BY <1>32 DEF WaitRead
<1>33. CASE WaitFail
    BY <1>33 DEF WaitFail
<1>34. CASE UNCHANGED vars
    BY <1>34 DEF vars
<1> QED
    BY <1>1, <1>2, <1>3, <1>4, <1>5, <1>6, <1>7, <1>8, <1>9,
       <1>10, <1>11, <1>12, <1>13, <1>14, <1>15, <1>16, <1>17, <1>18,
       <1>19, <1>20, <1>21, <1>22, <1>23, <1>24, <1>25, <1>26, <1>27,
       <1>28, <1>29, <1>30, <1>31, <1>32, <1>33, <1>34
       DEF Next, WorkerNext, LinkNext, AppNext

\* is_connected tells whether the worker serves a stream, after every step.
THEOREM ConnectedCorrect == Spec => []ConnectedWhileServing
<1>1. Init => WatchInv
    BY DEF Init, WatchInv, ConnectedWhileServing, NoLostWakeup, Serving
<1>2. WatchInv => ConnectedWhileServing
    BY DEF WatchInv
<1> QED
    BY <1>1, <1>2, WatchStep, PTL DEF Spec

\* wait_connected never sleeps through a connection.
THEOREM WakeupCorrect == Spec => []NoLostWakeup
<1>1. Init => WatchInv
    BY DEF Init, WatchInv, ConnectedWhileServing, NoLostWakeup, Serving
<1>2. WatchInv => NoLostWakeup
    BY DEF WatchInv
<1> QED
    BY <1>1, <1>2, WatchStep, PTL DEF Spec

-----------------------------------------------------------------------------
(* The order of the frames.  HandedInOrder is not inductive: what is still *)
(* in the worker's hand, kept for the next connection or queued has to be  *)
(* newer than everything handed over, and a kept frame must not be         *)
(* overtaken, which is so because while one is kept the stream is broken.  *)

\* f is among the first a application frames or the first h heartbeats.
Made(f, a, h) ==
    /\ f.kind = "app" => f.seq <= a
    /\ f.kind = "hb" => f.seq <= h

\* f comes after the frames of its kind in the sequence s.
Newer(f, s) ==
    \A i \in 1..Len(s) : s[i].kind = f.kind => s[i].seq < f.seq

Queue == 1..Len(outbound)

Ordered ==
    /\ HandedInOrder
    /\ \A i \in 1..Len(handed) : Made(handed[i], accepted, heartbeat_seq)
    /\ \A f \in hand \cup pending_frame :
         Made(f, accepted, heartbeat_seq) /\ Newer(f, handed)
    /\ \A j \in Queue :
         /\ outbound[j].kind = "app"
         /\ outbound[j].seq <= accepted
         /\ Newer(outbound[j], handed)
         /\ \A f \in hand \cup pending_frame :
              f.kind = "app" => f.seq < outbound[j].seq
         /\ \A k \in Queue : k < j => outbound[k].seq < outbound[j].seq

OrderInv ==
    /\ Ordered
    /\ hand # {} => worker = "sending"
    /\ pending_frame # {} /\ worker \in {"streaming", "sending", "delivering"}
         => ~up

\* A frame that has been made stays made.
LEMMA MadeMonotone ==
    ASSUME NEW f \in Frames, NEW a \in Nat, NEW h \in Nat,
           NEW b \in Nat, NEW g \in Nat, a <= b, h <= g, Made(f, a, h)
    PROVE  Made(f, b, g)
BY DEF Made, Frames

\* A step that leaves the frames alone leaves them ordered.
LEMMA OrderedUnchanged == Ordered /\ UNCHANGED frameVars => Ordered'
BY DEF Ordered, HandedInOrder, Made, Newer, Queue, frameVars

\* A frame that is newer than all handed frames of its kind can be handed over.
LEMMA HandOver ==
    ASSUME handed \in Seq(Frames), NEW f \in Frames, HandedInOrder,
           Newer(f, handed),
           handed' = Append(handed, f)
    PROVE  HandedInOrder'
<1>1. /\ Len(handed') = Len(handed) + 1
      /\ \A i \in 1..Len(handed) : handed'[i] = handed[i]
      /\ handed'[Len(handed) + 1] = f
    BY AppendProperties
<1>2. \A i \in 1..Len(handed) : handed[i] \in Frames
    BY ElementOfSeq
<1> SUFFICES ASSUME NEW i \in 1..Len(handed'), NEW j \in 1..Len(handed'),
                    i < j, handed'[i].kind = handed'[j].kind
             PROVE  handed'[i].seq < handed'[j].seq
    BY DEF HandedInOrder
<1>3. Len(handed) \in Nat
    OBVIOUS
<1>4. i \in 1..Len(handed) /\ handed'[i] = handed[i]
    BY <1>1, <1>3
<1>5. CASE j = Len(handed) + 1
    BY <1>1, <1>4, <1>5 DEF Newer
<1>6. CASE j \in 1..Len(handed)
    <2>1. handed'[j] = handed[j]
        BY <1>1, <1>6
    <2> QED
        BY <1>4, <1>6, <2>1 DEF HandedInOrder
<1> QED
    BY <1>1, <1>3, <1>5, <1>6

\* A frame g of f's kind that comes after f is newer than all that is handed
\* once f is.
LEMMA NewerAfter ==
    ASSUME handed \in Seq(Frames), NEW f \in Frames, NEW g \in Frames,
           Newer(g, handed),
           g.kind = f.kind => f.seq < g.seq,
           handed' = Append(handed, f)
    PROVE  Newer(g, handed')
<1>1. /\ Len(handed') = Len(handed) + 1
      /\ \A i \in 1..Len(handed) : handed'[i] = handed[i]
      /\ handed'[Len(handed) + 1] = f
    BY AppendProperties
<1> QED
    BY <1>1 DEF Newer

\* Handing over f, with nothing else kept or in hand, leaves the frames ordered.
LEMMA OrderedHandOver ==
    ASSUME DataInv, Ordered, NEW f \in hand \cup pending_frame,
           handed' = Append(handed, f),
           hand' = {}, pending_frame' = {},
           UNCHANGED <<outbound, accepted, heartbeat_seq>>
    PROVE  Ordered'
<1> USE DEF DataInv, DataOK, ChannelsOK
<1>1. f \in Frames /\ Made(f, accepted, heartbeat_seq) /\ Newer(f, handed)
    BY DEF Ordered
<1>2. HandedInOrder'
    BY <1>1, HandOver DEF Ordered
<1>3. \A i \in 1..Len(handed') : Made(handed'[i], accepted', heartbeat_seq')
    BY <1>1, AppendProperties DEF Ordered, Made
<1>4. ASSUME NEW j \in Queue'
      PROVE  /\ outbound'[j].kind = "app"
             /\ outbound'[j].seq <= accepted'
             /\ Newer(outbound'[j], handed')
             /\ \A k \in Queue' : k < j => outbound'[k].seq < outbound'[j].seq
    <2>1. outbound[j] \in Frames
        BY ElementOfSeq DEF Queue
    <2>2. f.kind = "app" => f.seq < outbound[j].seq
        BY DEF Ordered, Queue
    <2>3. Newer(outbound[j], handed) /\ outbound[j].kind = "app"
        BY DEF Ordered, Queue
    <2>4. Newer(outbound[j], handed')
        BY <1>1, <2>1, <2>2, <2>3, NewerAfter
    <2> QED
        BY <2>4 DEF Ordered, Queue
<1> QED
    BY <1>2, <1>3, <1>4 DEF Ordered

\* Every step keeps the frames in order.
LEMMA OrderStep == DataInv /\ OrderInv /\ [Next]_vars => OrderInv'
<1> SUFFICES ASSUME DataInv /\ OrderInv, [Next]_vars
             PROVE  OrderInv'
    OBVIOUS
<1> USE DEF OrderInv, linkVars, frameVars

<1>1. CASE TopStop
    <2>1. Ordered'
        BY <1>1, OrderedUnchanged DEF TopStop, frameVars
    <2> QED
        BY <1>1, <2>1 DEF TopStop, Stop, Announce, HangUp
<1>2. CASE TopAttempt
    <2>1. Ordered'
        BY <1>2, OrderedUnchanged DEF TopAttempt, frameVars
    <2> QED
        BY <1>2, <2>1 DEF TopAttempt
<1>3. CASE ConnectOk
    <2>1. Ordered'
        BY <1>3, OrderedUnchanged DEF ConnectOk, frameVars
    <2> QED
        BY <1>3, <2>1 DEF ConnectOk
<1>4. CASE ConnectFail
    <2>1. Ordered'
        BY <1>4, OrderedUnchanged DEF ConnectFail, frameVars
    <2> QED
        BY <1>4, <2>1 DEF ConnectFail
<1>5. CASE OpenOk
    <2>1. Ordered'
        BY <1>5, OrderedUnchanged DEF OpenOk, frameVars
    <2> QED
        BY <1>5, <2>1 DEF OpenOk, Announce, ResetBackoff
<1>6. CASE OpenFail
    <2>1. Ordered'
        BY <1>6, OrderedUnchanged DEF OpenFail, frameVars
    <2> QED
        BY <1>6, <2>1 DEF OpenFail
<1>7. CASE Sleep
    <2>1. Ordered'
        BY <1>7, OrderedUnchanged DEF Sleep, frameVars
    <2> QED
        BY <1>7, <2>1 DEF Sleep, HangUp
<1>8. CASE SleepShutdown
    <2>1. Ordered'
        BY <1>8, OrderedUnchanged DEF SleepShutdown, frameVars
    <2> QED
        BY <1>8, <2>1 DEF SleepShutdown, Stop, Announce, HangUp
<1>9. CASE ResendPending
    <2>1. hand = {}
        BY <1>9 DEF ResendPending
    <2>2. CASE UNCHANGED frameVars /\ (pending_frame = {} \/ ~up)
        BY <1>9, <2>1, <2>2, OrderedUnchanged DEF ResendPending
    <2>3. CASE \E f \in pending_frame : up /\ Handed(f) /\ TakePending
        <3>1. PICK f \in pending_frame : up /\ Handed(f) /\ TakePending
            BY <2>3
        <3>2. Ordered'
            BY <1>9, <2>1, <3>1, OrderedHandOver
               DEF ResendPending, Handed, TakePending
        <3> QED
            BY <1>9, <2>1, <3>1, <3>2 DEF ResendPending, TakePending
    <2> QED
        BY <1>9, <2>2, <2>3 DEF ResendPending, KeepPending
<1>10. CASE StreamShutdown
    <2>1. Ordered'
        BY <1>10, OrderedUnchanged DEF StreamShutdown, frameVars
    <2> QED
        BY <1>10, <2>1 DEF StreamShutdown, Announce
<1>11. CASE InboundFrame
    <2>1. Ordered'
        BY <1>11, OrderedUnchanged DEF InboundFrame, frameVars
    <2> QED
        BY <1>11, <2>1 DEF InboundFrame
<1>12. CASE InboundEnd
    <2>1. Ordered'
        BY <1>12, OrderedUnchanged DEF InboundEnd, frameVars
    <2> QED
        BY <1>12, <2>1 DEF InboundEnd, Announce
<1>13. CASE Deliver
    <2>1. Ordered'
        BY <1>13, OrderedUnchanged DEF Deliver, frameVars
    <2> QED
        BY <1>13, <2>1 DEF Deliver, Room
<1>14. CASE DeliverClosed
    <2>1. Ordered'
        BY <1>14, OrderedUnchanged DEF DeliverClosed, frameVars
    <2> QED
        BY <1>14, <2>1 DEF DeliverClosed, Stop, Announce, HangUp
<1>15. CASE OutboundRecv
    <2>1. /\ Head(outbound) = outbound[1] /\ 1 \in Queue
          /\ Len(outbound') = Len(outbound) - 1
          /\ \A j \in 1..Len(outbound') : outbound'[j] = outbound[j + 1]
        BY <1>15, EmptySeq, HeadTailProperties
           DEF OutboundRecv, DataInv, DataOK, ChannelsOK, Queue
    <2>2. \A j \in Queue' : j + 1 \in Queue /\ outbound'[j] = outbound[j + 1]
        BY <2>1, <1>15 DEF Queue, OutboundRecv, DataInv, DataOK, ChannelsOK
    <2>3. /\ Made(outbound[1], accepted, heartbeat_seq)
          /\ Newer(outbound[1], handed)
        BY <2>1 DEF Ordered, Made
    <2>4. \A j \in Queue' : outbound[1].seq < outbound'[j].seq
        BY <2>1, <2>2 DEF Ordered, Queue
    <2>5. \A f \in (hand \cup pending_frame)' :
              Made(f, accepted', heartbeat_seq') /\ Newer(f, handed')
        BY <1>15, <2>1, <2>3 DEF OutboundRecv, Ordered, Made, Newer
    <2>6. ASSUME NEW j \in Queue'
          PROVE  /\ outbound'[j].kind = "app"
                 /\ outbound'[j].seq <= accepted'
                 /\ Newer(outbound'[j], handed')
                 /\ \A f \in (hand \cup pending_frame)' :
                      f.kind = "app" => f.seq < outbound'[j].seq
                 /\ \A k \in Queue' :
                      k < j => outbound'[k].seq < outbound'[j].seq
        BY <1>15, <2>1, <2>2, <2>4 DEF OutboundRecv, Ordered, Newer, Queue
    <2>7. Ordered'
        BY <1>15, <2>5, <2>6 DEF OutboundRecv, Ordered, HandedInOrder, Made
    <2> QED
        BY <1>15, <2>7 DEF OutboundRecv
<1>16. CASE OutboundClosed
    <2>1. Ordered'
        BY <1>16, OrderedUnchanged DEF OutboundClosed, frameVars
    <2> QED
        BY <1>16, <2>1 DEF OutboundClosed, Stop, Announce, HangUp
<1>17. CASE HeartbeatTick
    <2>1. Newer(Hb(heartbeat_seq + 1), handed)
        <3>1. \A i \in 1..Len(handed) : handed[i] \in Frames
            BY ElementOfSeq DEF DataInv, DataOK
        <3> QED
            BY <3>1 DEF Newer, Hb, Ordered, Made, DataInv, DataOK, Frames
    <2>2. /\ heartbeat_seq \in Nat /\ heartbeat_seq' = heartbeat_seq + 1
          /\ accepted \in Nat /\ accepted' = accepted /\ handed' = handed
          /\ hand' = {Hb(heartbeat_seq + 1)} /\ pending_frame' = pending_frame
        BY <1>17 DEF HeartbeatTick, DataInv, DataOK
    <2>3. \A i \in 1..Len(handed) : Made(handed[i], accepted', heartbeat_seq')
        <3>1. \A i \in 1..Len(handed) :
                  handed[i] \in Frames /\ Made(handed[i], accepted, heartbeat_seq)
            BY ElementOfSeq DEF DataInv, DataOK, Ordered
        <3> QED
            BY <2>2, <3>1, MadeMonotone
    <2>5. ASSUME NEW f \in (hand \cup pending_frame)'
          PROVE  Made(f, accepted', heartbeat_seq') /\ Newer(f, handed')
        <3>1. CASE f = Hb(heartbeat_seq + 1)
            BY <2>1, <2>2, <3>1 DEF Made, Hb
        <3>2. CASE f \in pending_frame
            <4>1. /\ f \in Frames
                  /\ Made(f, accepted, heartbeat_seq) /\ Newer(f, handed)
                BY <3>2 DEF Ordered, DataInv, DataOK
            <4> QED
                BY <2>2, <4>1, MadeMonotone
        <3> QED
            BY <2>2, <3>1, <3>2
    <2>4. Ordered'
        BY <1>17, <2>3, <2>5
           DEF HeartbeatTick, Ordered, HandedInOrder, Newer, Hb, Queue
    <2> QED
        BY <1>17, <2>4 DEF HeartbeatTick
<1>18. CASE SendToConn
    <2>1. pending_frame = {}
        BY <1>18 DEF SendToConn
    <2>2. PICK f \in hand : Handed(f)
        BY <1>18 DEF SendToConn
    <2>3. Ordered'
        BY <1>18, <2>1, <2>2, OrderedHandOver DEF SendToConn, Handed
    <2> QED
        BY <1>18, <2>1, <2>3 DEF SendToConn
<1>19. CASE SendFailed
    <2>1. Ordered'
        BY <1>19 DEF SendFailed, Ordered, HandedInOrder, Made, Newer, Queue
    <2> QED
        BY <1>19, <2>1 DEF SendFailed
<1>20. CASE Transmit
    <2>1. Ordered'
        BY <1>20, OrderedUnchanged DEF Transmit, frameVars
    <2> QED
        BY <1>20, <2>1 DEF Transmit
<1>21. CASE BreakUp
    <2>1. Ordered'
        BY <1>21, OrderedUnchanged DEF BreakUp, frameVars
    <2> QED
        BY <1>21, <2>1 DEF BreakUp
<1>22. CASE BreakDown
    <2>1. Ordered'
        BY <1>22, OrderedUnchanged DEF BreakDown, frameVars
    <2> QED
        BY <1>22, <2>1 DEF BreakDown
<1>23. CASE Send
    <2> DEFINE n == Len(outbound)
    <2>1. /\ Len(outbound') = n + 1
          /\ \A j \in 1..n : outbound'[j] = outbound[j]
          /\ outbound'[n + 1] = App(accepted + 1)
        BY <1>23, AppendProperties
           DEF Send, DataInv, DataOK, ChannelsOK, App, Frames
    <2>2. \A i \in 1..Len(handed) : handed[i] \in Frames
        BY ElementOfSeq DEF DataInv, DataOK
    <2>3. \A j \in 1..n : outbound[j] \in Frames
        BY ElementOfSeq DEF DataInv, DataOK, ChannelsOK
    <2>4. \A i \in 1..Len(handed) : Made(handed[i], accepted', heartbeat_seq')
        BY <1>23, <2>2 DEF Send, Ordered, Made, DataInv, DataOK, Frames
    <2>5. \A f \in hand \cup pending_frame :
              Made(f, accepted', heartbeat_seq') /\ Newer(f, handed')
        <3> SUFFICES ASSUME NEW f \in hand \cup pending_frame
                     PROVE  /\ Made(f, accepted', heartbeat_seq')
                            /\ Newer(f, handed')
            OBVIOUS
        <3>1. /\ f \in Frames
              /\ Made(f, accepted, heartbeat_seq) /\ Newer(f, handed)
            BY DEF Ordered, DataInv, DataOK
        <3> QED
            BY <1>23, <3>1 DEF Send, Made, Newer, DataInv, DataOK, Frames
    <2>6. ASSUME NEW j \in Queue'
          PROVE  /\ outbound'[j].kind = "app"
                 /\ outbound'[j].seq <= accepted'
                 /\ Newer(outbound'[j], handed')
                 /\ \A f \in hand \cup pending_frame :
                      f.kind = "app" => f.seq < outbound'[j].seq
                 /\ \A k \in Queue' :
                      k < j => outbound'[k].seq < outbound'[j].seq
        <3>1. CASE j \in 1..n
            <4>1. /\ n \in Nat /\ accepted \in Nat
                  /\ accepted' = accepted + 1 /\ handed' = handed
                  /\ outbound'[j] = outbound[j] /\ outbound[j] \in Frames
                BY <1>23, <2>1, <2>3, <3>1
                   DEF Send, DataInv, DataOK, ChannelsOK
            <4>2. /\ outbound[j].kind = "app"
                  /\ outbound[j].seq <= accepted
                  /\ Newer(outbound[j], handed)
                  /\ \A f \in hand \cup pending_frame :
                       f.kind = "app" => f.seq < outbound[j].seq
                BY <3>1 DEF Ordered, Queue
            <4>3. outbound[j].seq <= accepted'
                BY <4>1, <4>2 DEF Frames
            <4>4. ASSUME NEW k \in Queue', k < j
                  PROVE  outbound'[k].seq < outbound'[j].seq
                <5>1. k \in 1..n /\ outbound'[k] = outbound[k]
                    BY <2>1, <3>1, <4>1, <4>4 DEF Queue
                <5> QED
                    BY <3>1, <4>1, <4>4, <5>1 DEF Ordered, Queue
            <4> QED
                BY <4>1, <4>2, <4>3, <4>4 DEF Newer
        <3>2. CASE j = n + 1
            BY <1>23, <2>1, <2>2, <2>3, <3>2
               DEF Send, Ordered, Made, Newer, Queue, App, DataInv, DataOK,
                   ChannelsOK, Frames
        <3> QED
            BY <2>1, <3>1, <3>2 DEF Queue, DataInv, DataOK, ChannelsOK
    <2>7. Ordered'
        BY <1>23, <2>4, <2>5, <2>6 DEF Send, Ordered, HandedInOrder
    <2> QED
        BY <1>23, <2>7 DEF Send
<1>24. CASE Recv
    <2>1. Ordered'
        BY <1>24, OrderedUnchanged DEF Recv, frameVars
    <2> QED
        BY <1>24, <2>1 DEF Recv
<1>25. CASE DropTx
    <2>1. Ordered'
        BY <1>25, OrderedUnchanged DEF DropTx, frameVars
    <2> QED
        BY <1>25, <2>1 DEF DropTx
<1>26. CASE DropRx
    <2>1. Ordered'
        BY <1>26, OrderedUnchanged DEF DropRx, frameVars
    <2> QED
        BY <1>26, <2>1 DEF DropRx
<1>27. CASE HandleClose
    <2>1. Ordered'
        BY <1>27, OrderedUnchanged DEF HandleClose, frameVars
    <2> QED
        BY <1>27, <2>1 DEF HandleClose
<1>28. CASE ClientClose
    <2>1. Ordered'
        BY <1>28, OrderedUnchanged DEF ClientClose, frameVars
    <2> QED
        BY <1>28, <2>1 DEF ClientClose
<1>29. CASE WaitBegin
    <2>1. Ordered'
        BY <1>29, OrderedUnchanged DEF WaitBegin, frameVars
    <2> QED
        BY <1>29, <2>1 DEF WaitBegin
<1>30. CASE WaitClone
    <2>1. Ordered'
        BY <1>30, OrderedUnchanged DEF WaitClone, frameVars
    <2> QED
        BY <1>30, <2>1 DEF WaitClone
<1>31. CASE WaitWake
    <2>1. Ordered'
        BY <1>31, OrderedUnchanged DEF WaitWake, frameVars
    <2> QED
        BY <1>31, <2>1 DEF WaitWake
<1>32. CASE WaitRead
    <2>1. Ordered'
        BY <1>32, OrderedUnchanged DEF WaitRead, frameVars
    <2> QED
        BY <1>32, <2>1 DEF WaitRead
<1>33. CASE WaitFail
    <2>1. Ordered'
        BY <1>33, OrderedUnchanged DEF WaitFail, frameVars
    <2> QED
        BY <1>33, <2>1 DEF WaitFail
<1>34. CASE UNCHANGED vars
    BY <1>34, OrderedUnchanged DEF vars
<1> QED
    BY <1>1, <1>2, <1>3, <1>4, <1>5, <1>6, <1>7, <1>8, <1>9,
       <1>10, <1>11, <1>12, <1>13, <1>14, <1>15, <1>16, <1>17, <1>18,
       <1>19, <1>20, <1>21, <1>22, <1>23, <1>24, <1>25, <1>26, <1>27,
       <1>28, <1>29, <1>30, <1>31, <1>32, <1>33, <1>34
       DEF Next, WorkerNext, LinkNext, AppNext

\* At most once and in order: over any number of connections, the frames of a
\* kind are handed to the transport in the order they were made, none twice.
THEOREM OrderCorrect == Spec => []HandedInOrder
<1>1. Init => DataInv
    BY CapacityAssumption, AttemptsAssumption, DelayAssumption,
       BoundsAssumption
       DEF Init, DataInv, DataOK, ChannelsOK, WorkerStates, Serving
<1>2. Init => OrderInv
    BY DEF Init, OrderInv, Ordered, HandedInOrder, Queue
<1>3. OrderInv => HandedInOrder
    BY DEF OrderInv, Ordered
<1> QED
    BY <1>1, <1>2, <1>3, DataStep, OrderStep, PTL DEF Spec

-----------------------------------------------------------------------------
(* Where a frame may go.  The hand and the slot for the next connection    *)
(* are Options in the code; in the model that they hold one frame at most  *)
(* is part of the inductive invariant, for a step empties them at once.    *)

AtMostOne(S) == \A f, g \in S : f = g

OptionInv == AtMostOne(hand) /\ AtMostOne(pending_frame)

\* The steps that touch a frame; the others leave all of them alone.
FrameStep ==
    \/ ResendPending \/ OutboundRecv \/ HeartbeatTick
    \/ SendToConn \/ SendFailed \/ Send

LEMMA FrameSteps == [Next]_vars => FrameStep \/ UNCHANGED frameVars
BY DEF Next, WorkerNext, LinkNext, AppNext, FrameStep, vars, TopStop,
       TopAttempt, ConnectOk, ConnectFail, OpenOk, OpenFail, Sleep,
       SleepShutdown, StreamShutdown, InboundFrame, InboundEnd, Deliver,
       DeliverClosed, OutboundClosed, Transmit, BreakUp, BreakDown, Recv,
       DropTx, DropRx, HandleClose, ClientClose, WaitBegin, WaitClone,
       WaitWake, WaitRead, WaitFail

\* Neither Option ever holds two frames.
LEMMA OptionStep == OptionInv /\ [Next]_vars => OptionInv'
<1> SUFFICES ASSUME OptionInv, [Next]_vars
             PROVE  OptionInv'
    OBVIOUS
<1> USE DEF OptionInv, AtMostOne
<1>1. CASE UNCHANGED frameVars
    BY <1>1 DEF frameVars
<1>2. CASE ResendPending
    BY <1>2 DEF ResendPending, TakePending, KeepPending
<1>3. CASE OutboundRecv
    BY <1>3 DEF OutboundRecv
<1>4. CASE HeartbeatTick
    BY <1>4 DEF HeartbeatTick
<1>5. CASE SendToConn
    BY <1>5 DEF SendToConn
<1>6. CASE SendFailed
    BY <1>6 DEF SendFailed
<1>7. CASE Send
    BY <1>7 DEF Send
<1> QED
    BY <1>1, <1>2, <1>3, <1>4, <1>5, <1>6, <1>7, FrameSteps DEF FrameStep

\* A frame that leaves the client goes into the connection, or is the one that
\* a second broken connection pushes out of pending_frame.
LEMMA KeptStep ==
    ASSUME DataInv, OrderInv, OptionInv, [Next]_vars,
           NEW f \in Frames, Leaves(f)
    PROVE  \/ handed' = Append(handed, f)
           \/ worker = "sending" /\ f \in pending_frame /\ ~up
<1> USE DEF Leaves, Kept, OrderInv
<1>1. CASE UNCHANGED frameVars
    BY <1>1 DEF frameVars
<1>2. CASE ResendPending
    <2>1. hand = {}
        BY <1>2 DEF ResendPending
    <2>2. hand' = hand /\ outbound' = outbound
        BY <1>2 DEF ResendPending
    <2>3. f \in pending_frame /\ f \notin pending_frame'
        BY <2>1, <2>2
    <2>4. PICK g \in pending_frame : Handed(g)
        BY <1>2, <2>3 DEF ResendPending, KeepPending
    <2> QED
        BY <2>3, <2>4 DEF Handed, OptionInv, AtMostOne
<1>3. CASE OutboundRecv
    <2>1. /\ hand = {} /\ hand' = {outbound[1]}
          /\ pending_frame' = pending_frame
          /\ Len(outbound') = Len(outbound) - 1
          /\ \A j \in 1..Len(outbound') : outbound'[j] = outbound[j + 1]
          /\ DOMAIN outbound = 1..Len(outbound)
          /\ DOMAIN outbound' = 1..Len(outbound')
        BY <1>3, EmptySeq, HeadTailProperties
           DEF OutboundRecv, DataInv, DataOK, ChannelsOK
    <2>2. PICK i \in 1..Len(outbound) : f = outbound[i]
        BY <2>1
    <2>3. Len(outbound) \in Nat
        BY DEF DataInv, DataOK, ChannelsOK
    <2>4. CASE i = 1
        BY <2>1, <2>2, <2>4 DEF Ordered, Queue
    <2>5. CASE i # 1
        <3>1. i - 1 \in 1..Len(outbound') /\ outbound'[i - 1] = outbound[i]
            BY <2>1, <2>3, <2>5
        <3> QED
            BY <2>1, <2>2, <3>1
    <2> QED
        BY <2>4, <2>5
<1>4. CASE HeartbeatTick
    <2>1. hand = {}
        BY <1>4 DEF HeartbeatTick
    <2> QED
        BY <1>4, <2>1 DEF HeartbeatTick
<1>5. CASE SendToConn
    <2>1. f \in hand
        BY <1>5 DEF SendToConn
    <2>2. PICK g \in hand : Handed(g)
        BY <1>5 DEF SendToConn
    <2> QED
        BY <2>1, <2>2 DEF Handed, OptionInv, AtMostOne
<1>6. CASE SendFailed
    BY <1>6 DEF SendFailed
<1>7. CASE Send
    <2>1. /\ DOMAIN outbound = 1..Len(outbound)
          /\ DOMAIN outbound' = 1..Len(outbound')
          /\ Len(outbound') = Len(outbound) + 1
          /\ \A j \in 1..Len(outbound) : outbound'[j] = outbound[j]
          /\ Len(outbound) \in Nat
        BY <1>7, AppendProperties
           DEF Send, DataInv, DataOK, ChannelsOK, App, Frames
    <2>2. pending_frame' = pending_frame /\ hand' = hand
        BY <1>7 DEF Send
    <2>3. PICK i \in 1..Len(outbound) : f = outbound[i]
        BY <2>1, <2>2
    <2> QED
        BY <2>1, <2>3
<1> QED
    BY <1>1, <1>2, <1>3, <1>4, <1>5, <1>6, <1>7, FrameSteps DEF FrameStep

\* No frame that send() accepted is lost but in the one case the code has: it
\* leaves the client only into a connection, or out of pending_frame when a
\* second connection breaks with another frame in hand.
THEOREM FramesKept == Spec => FramesAreKept
<1>1. Init => DataInv
    BY CapacityAssumption, AttemptsAssumption, DelayAssumption,
       BoundsAssumption
       DEF Init, DataInv, DataOK, ChannelsOK, WorkerStates, Serving
<1>2. Init => OrderInv
    BY DEF Init, OrderInv, Ordered, HandedInOrder, Queue
<1>3. Init => OptionInv
    BY DEF Init, OptionInv, AtMostOne
<1>4. DataInv /\ OrderInv /\ OptionInv /\ [Next]_vars =>
        [\A n \in 1..accepted :
            Leaves(App(n)) =>
                \/ handed' = Append(handed, App(n))
                \/ worker = "sending" /\ App(n) \in pending_frame /\ ~up]_vars
    <2> SUFFICES ASSUME DataInv, OrderInv, OptionInv, [Next]_vars,
                        NEW n \in 1..accepted, Leaves(App(n))
                 PROVE  \/ handed' = Append(handed, App(n))
                        \/ worker = "sending" /\ App(n) \in pending_frame /\ ~up
        OBVIOUS
    <2>1. App(n) \in Frames
        BY DEF App, Frames, DataInv, DataOK
    <2> QED
        BY <2>1, KeptStep
<1> QED
    BY <1>1, <1>2, <1>3, <1>4, DataStep, OrderStep, OptionStep, PTL
       DEF Spec, FramesAreKept

-----------------------------------------------------------------------------
(* The back-off.  BackoffStep is a recursive function: that it satisfies   *)
(* the equation it is defined by has to be proved: by induction over the   *)
(* naturals, which the least element of a set of numbers provides, there   *)
(* is one initial part of it of every length, and they agree.              *)

\* Induction, stated with a set.
LEMMA NatSetInduction ==
    ASSUME NEW T, 0 \in T, \A n \in Nat : n \in T => n + 1 \in T
    PROVE  Nat \subseteq T
<1> DEFINE Less == {p \in Nat \X Nat : p[1] < p[2]}
           Rest == Nat \ T
<1> SUFFICES ASSUME Rest # {}
             PROVE  FALSE
    OBVIOUS
<1>1. IsWellFoundedOn(Less, Nat)
    BY NatLessThanWellFounded, Zenon DEF OpToRel
<1>2. PICK x \in Rest : \A y \in Rest : ~(<<y, x>> \in Less)
    <2>1. Rest \subseteq Nat
        OBVIOUS
    <2> HIDE DEF Less, Rest
    <2> QED
        BY <1>1, <2>1, WFMin
<1>3. \A y \in Rest : ~(y < x)
    BY <1>2
<1>4. x - 1 \in Nat
    BY <1>2
<1> QED
    BY <1>3, <1>4

\* g is the back-off's first n + 1 delays.
FirstDelays(n, g) ==
    /\ g \in [0..n -> Nat]
    /\ g[0] = InitialDelay
    /\ \A i \in 1..n : g[i] = GrownDelay(g[i - 1])

LEMMA FirstDelaysExist == \A n \in Nat : \E g : FirstDelays(n, g)
<1> DEFINE T == {n \in Nat : \E g : FirstDelays(n, g)}
<1>1. 0 \in T
    <2>1. FirstDelays(0, [i \in 0..0 |-> InitialDelay])
        BY DelayAssumption DEF FirstDelays
    <2> QED
        BY <2>1
<1>2. ASSUME NEW n \in Nat, n \in T
      PROVE  n + 1 \in T
    <2>1. PICK g : FirstDelays(n, g)
        BY <1>2
    <2>2. GrownDelay(g[n]) \in Nat
        BY <2>1, GrownDelayType DEF FirstDelays
    <2> DEFINE h == [i \in 0..n + 1 |->
                        IF i = n + 1 THEN GrownDelay(g[n]) ELSE g[i]]
    <2>3. h \in [0..n + 1 -> Nat] /\ h[0] = InitialDelay
        BY <2>1, <2>2 DEF FirstDelays
    <2>4. ASSUME NEW i \in 1..n + 1
          PROVE  h[i] = GrownDelay(h[i - 1])
        <3>1. h[i - 1] = g[i - 1]
            OBVIOUS
        <3>2. CASE i = n + 1
            <4>1. h[i] = GrownDelay(g[n]) /\ i - 1 = n
                BY <3>2
            <4> QED
                BY <3>1, <4>1
        <3>3. CASE i \in 1..n
            <4>1. h[i] = g[i] /\ g[i] = GrownDelay(g[i - 1])
                BY <2>1, <3>3 DEF FirstDelays
            <4> QED
                BY <3>1, <4>1
        <3> QED
            BY <3>2, <3>3
    <2>5. FirstDelays(n + 1, h)
        BY <2>3, <2>4 DEF FirstDelays
    <2> QED
        BY <2>5
<1>3. Nat \subseteq T
    <2> HIDE DEF T
    <2> QED
        BY <1>1, <1>2, NatSetInduction
<1> QED
    BY <1>3

LEMMA FirstDelaysAgree ==
    ASSUME NEW m \in Nat, NEW n \in Nat, m <= n,
           NEW g, FirstDelays(m, g), NEW h, FirstDelays(n, h)
    PROVE  \A i \in 0..m : g[i] = h[i]
<1> DEFINE T == {i \in Nat : i <= m => g[i] = h[i]}
<1>1. 0 \in T
    BY DEF FirstDelays
<1>2. ASSUME NEW i \in Nat, i \in T
      PROVE  i + 1 \in T
    <2> SUFFICES ASSUME i + 1 <= m
                 PROVE  g[i + 1] = h[i + 1]
        OBVIOUS
    <2>1. g[i] = h[i]
        BY <1>2
    <2>2. i + 1 \in 1..m /\ i + 1 \in 1..n /\ (i + 1) - 1 = i
        OBVIOUS
    <2> QED
        BY <2>1, <2>2 DEF FirstDelays
<1>3. Nat \subseteq T
    <2> HIDE DEF T
    <2> QED
        BY <1>1, <1>2, NatSetInduction
<1> QED
    BY <1>3

\* The back-off is what its definition says.
LEMMA BackoffStepDef ==
    BackoffStep = [n \in Nat |-> IF n = 0 THEN InitialDelay
                                 ELSE GrownDelay(BackoffStep[n - 1])]
<1> DEFINE First(n) == CHOOSE g : FirstDelays(n, g)
           F == [n \in Nat |-> First(n)[n]]
<1>1. \A n \in Nat : FirstDelays(n, First(n))
    BY FirstDelaysExist
<1> HIDE DEF First
<1>2. ASSUME NEW n \in Nat
      PROVE  F[n] = IF n = 0 THEN InitialDelay ELSE GrownDelay(F[n - 1])
    <2>1. CASE n = 0
        BY <1>1, <2>1 DEF FirstDelays
    <2>2. CASE n # 0
        <3>1. n - 1 \in Nat /\ n - 1 <= n
            BY <2>2
        <3>2. FirstDelays(n - 1, First(n - 1)) /\ FirstDelays(n, First(n))
            BY <1>1, <3>1
        <3>3. First(n - 1)[n - 1] = First(n)[n - 1]
            BY <3>1, <3>2, FirstDelaysAgree
        <3>4. First(n)[n] = GrownDelay(First(n)[n - 1])
            BY <2>2, <3>2 DEF FirstDelays
        <3> QED
            BY <2>2, <3>1, <3>3, <3>4
    <2> QED
        BY <2>1, <2>2
<1>3. F = [n \in Nat |-> IF n = 0 THEN InitialDelay ELSE GrownDelay(F[n - 1])]
    BY <1>2
<1> HIDE DEF F
<1>4. \E g : g = [n \in Nat |-> IF n = 0 THEN InitialDelay
                               ELSE GrownDelay(g[n - 1])]
    BY <1>3
<1> QED
    BY <1>4 DEF BackoffStep

LEMMA BackoffGrows ==
    /\ BackoffStep[0] = InitialDelay
    /\ \A n \in Nat : BackoffStep[n + 1] = GrownDelay(BackoffStep[n])
<1>1. \A n \in Nat : BackoffStep[n] = IF n = 0 THEN InitialDelay
                                      ELSE GrownDelay(BackoffStep[n - 1])
    BY BackoffStepDef
<1>2. ASSUME NEW n \in Nat
      PROVE  BackoffStep[n + 1] = GrownDelay(BackoffStep[n])
    <2>1. n + 1 \in Nat /\ n + 1 # 0 /\ (n + 1) - 1 = n
        OBVIOUS
    <2> QED
        BY <1>1, <2>1
<1> QED
    BY <1>1, <1>2

\* The model counts the attempts up to AttemptCap; they are counted exactly
\* while fewer have been made, and always when the client gives up by then.
Exact == MaxAttempts # NoLimit \/ attempts < AttemptCap

\* The inductive form: no attempt is counted while a stream is up, and during
\* an attempt at least that one is.
BackoffInv ==
    Exact => /\ BackoffTracksAttempts
             /\ worker \in Serving \cup {"disconnected"} => attempts = 0
             /\ worker \in {"connecting", "opening", "backoff"} => attempts > 0

\* Every step keeps the delay in step with the attempts.
LEMMA BackoffKept == DataInv /\ BackoffInv /\ [Next]_vars => BackoffInv'
<1> SUFFICES ASSUME DataInv, BackoffInv, [Next]_vars, Exact'
             PROVE  BackoffInv'
    BY DEF BackoffInv
<1>1. attempts \in Nat
    BY AttemptsAssumption DEF DataInv, DataOK
<1>2. CASE TopAttempt
    <2>1. Exact /\ attempts' = attempts + 1
        BY <1>1, <1>2, AttemptsAssumption DEF TopAttempt, Exact, GiveUp
    <2> QED
        BY <1>1, <1>2, <2>1
           DEF TopAttempt, BackoffInv, BackoffTracksAttempts, Serving
<1>3. CASE OpenOk
    BY <1>3 DEF OpenOk, ResetBackoff, BackoffInv, BackoffTracksAttempts, Serving
<1>4. CASE Sleep
    <2>1. /\ Exact /\ attempts' = attempts
          /\ current_delay' = GrownDelay(current_delay) /\ worker' = "top"
        BY <1>4 DEF Sleep, Exact
    <2>2. CASE worker = "backoff"
        <3>1. /\ attempts - 1 \in Nat /\ (attempts - 1) + 1 = attempts
              /\ current_delay \in {BackoffStep[attempts - 1],
                                    BackoffStep[attempts]}
            BY <1>1, <2>1, <2>2 DEF BackoffInv, BackoffTracksAttempts
        <3>2. GrownDelay(current_delay) \in {BackoffStep[attempts],
                                             BackoffStep[attempts + 1]}
            BY <1>1, <3>1, BackoffGrows
        <3> QED
            BY <2>1, <3>2 DEF BackoffInv, BackoffTracksAttempts, Serving
    <2>3. CASE worker = "disconnected"
        <3>1. current_delay = InitialDelay /\ attempts = 0
            BY <2>1, <2>3 DEF BackoffInv, BackoffTracksAttempts
        <3>2. GrownDelay(current_delay) = BackoffStep[0 + 1]
            BY <3>1, BackoffGrows
        <3> QED
            BY <2>1, <3>1, <3>2 DEF BackoffInv, BackoffTracksAttempts, Serving
    <2> QED
        BY <1>4, <2>2, <2>3 DEF Sleep
<1>5. CASE ConnectOk \/ ConnectFail \/ OpenFail
    BY <1>5 DEF ConnectOk, ConnectFail, OpenFail, retryVars, Exact, BackoffInv,
                BackoffTracksAttempts, Serving
<1>6. CASE TopStop \/ SleepShutdown \/ DeliverClosed \/ OutboundClosed
    BY <1>6 DEF TopStop, SleepShutdown, DeliverClosed, OutboundClosed, Stop,
                BackoffInv, BackoffTracksAttempts, Serving
<1>7. CASE \/ ResendPending \/ StreamShutdown \/ InboundFrame \/ InboundEnd
           \/ Deliver \/ OutboundRecv \/ HeartbeatTick \/ SendToConn
           \/ SendFailed
    <2>1. /\ worker \in Serving /\ worker' \in Serving \cup {"disconnected"}
          /\ UNCHANGED retryVars
        BY <1>7 DEF ResendPending, StreamShutdown, InboundFrame, InboundEnd,
                    Deliver, OutboundRecv, HeartbeatTick, SendToConn,
                    SendFailed, Serving
    <2> QED
        BY <2>1 DEF retryVars, Exact, BackoffInv, BackoffTracksAttempts, Serving
<1>8. CASE LinkNext \/ AppNext \/ UNCHANGED vars
    <2>1. UNCHANGED <<worker, retryVars>>
        BY <1>8 DEF LinkNext, AppNext, vars, Transmit, BreakUp, BreakDown, Send,
                    Recv, DropTx, DropRx, HandleClose, ClientClose, WaitBegin,
                    WaitClone, WaitWake, WaitRead, WaitFail
    <2> QED
        BY <2>1 DEF retryVars, Exact, BackoffInv, BackoffTracksAttempts
<1> QED
    BY <1>2, <1>3, <1>4, <1>5, <1>6, <1>7, <1>8 DEF Next, WorkerNext

\* The delay before an attempt is the initial one grown once for each attempt
\* that has failed since the last stream, and once more when that stream was
\* lost: for any delays, any factor, and any limit on the attempts, or
\* without a limit as long as the model's counter is exact.
THEOREM BackoffCorrect == Spec => [](Exact => BackoffTracksAttempts)
<1>1. Init => DataInv
    BY CapacityAssumption, AttemptsAssumption, DelayAssumption,
       BoundsAssumption
       DEF Init, DataInv, DataOK, ChannelsOK, WorkerStates, Serving
<1>2. Init => BackoffInv
    BY BackoffGrows DEF Init, BackoffInv, BackoffTracksAttempts, Serving
<1>3. BackoffInv => (Exact => BackoffTracksAttempts)
    BY DEF BackoffInv
<1> QED
    BY <1>1, <1>2, <1>3, DataStep, BackoffKept, PTL DEF Spec

=============================================================================
