-------------------------- MODULE BufSyncCtrlProofs --------------------------
(* What holds of the buffer synchronisation module for any number of buffers, *)
(* any depth of the command queue, however often the stream is started and     *)
(* whether or not it is started clean.                                         *)
EXTENDS BufSyncCtrl, MediaBufPoolProofs, SequenceTheorems

(* The elements of a queue once one has been added or taken.                  *)
LEMMA ElementsChange ==
    ASSUME NEW S, NEW s \in Seq(S)
    PROVE  /\ \A e \in S : Elements(Append(s, e)) \subseteq Elements(s) \union {e}
           /\ s # <<>> => /\ Head(s) \in Elements(s)
                          /\ Elements(Tail(s)) \subseteq Elements(s)
<1>1. ASSUME NEW e \in S PROVE Elements(Append(s, e)) \subseteq Elements(s) \union {e}
    <2>1. \A i \in 1..(Len(s) + 1) : i \in DOMAIN s \/ i = Len(s) + 1
        OBVIOUS
    <2> QED
        BY <2>1, Appended DEF Elements
<1>2. ASSUME s # <<>>
      PROVE  Head(s) \in Elements(s) /\ Elements(Tail(s)) \subseteq Elements(s)
    <2>1. 1 \in DOMAIN s
        BY <1>2, Taken
    <2> QED
        BY <1>2, <2>1, Taken DEF Elements
<1> QED
    BY <1>1, <1>2

(* An unlock keeps an output module well formed.                              *)
LEMMA UnlockedTyped ==
    ASSUME NEW m \in Outputs, NEW running \in BOOLEAN, NEW b \in Buffers
    PROVE  Unlocked(m, running, b) \in Outputs
<1> DEFINE p == BufUnlock(m.pool, b)
<1>0. m.pool \in Pools /\ m.empty \in Seq(Buffers) /\ m.full \in Seq(Buffers)
    BY DEF Outputs
<1>1. p \in Pools
    BY <1>0, BufUnlockTyped
<1>2. ASSUME p.lockCount[b] = 0, CanGet(p)
      PROVE  PoolGet(p) \in Pools /\ FirstFree(p) \in Buffers
    <2> DEFINE f  == FirstFree(p)
               p1 == [p EXCEPT !.freeBufNum = p.freeBufNum - 1]
               p2 == [p1 EXCEPT !.lockCount[f] = 1]
               p3 == [p2 EXCEPT !.pOwner[f] = TRUE]
    <2> HIDE DEF p
    <2>1. f \in Buffers
        BY <1>1, <1>2, FirstFreeFound DEF FreeSet
    <2>2. p.freeBufNum - 1 \in Nat /\ 1 \in 0..(CounterMod - 1)
        BY <1>1, <1>2, PoolAssumption DEF Pools, CanGet
    <2>3. After(f, 1) \in Buffers
        BY <2>1, PoolAssumption DEF Buffers, After
    <2>4. PoolGet(p) = [p3 EXCEPT !.index = After(f, 1)]
        BY DEF PoolGet
    <2> HIDE DEF f
    <2>5. p1 \in Pools
        BY <1>1, <2>2, PoolUpdates
    <2> HIDE DEF p1
    <2>6. p2 \in Pools
        BY <2>1, <2>2, <2>5, PoolUpdates
    <2> HIDE DEF p2
    <2>7. p3 \in Pools
        BY <2>1, <2>6, PoolFlags
    <2> HIDE DEF p3
    <2> QED
        BY <2>1, <2>3, <2>4, <2>7, PoolUpdates DEF f
<1>3. \A r \in Pools, e \in Seq(Buffers) : Output(r, e, m.full) \in Outputs
    BY <1>0 DEF Output, Outputs
<1> QED
    <2>1. Unlocked(m, running, b) =
              IF m.pool.pOwner[b] /\ p.lockCount[b] = 0 /\ running /\ CanGet(p)
              THEN Output(PoolGet(p), Append(m.empty, FirstFree(p)), m.full)
              ELSE Output(p, m.empty, m.full)
        BY DEF Unlocked
    <2> HIDE DEF p
    <2>2. \A e \in Buffers : Append(m.empty, e) \in Seq(Buffers)
        BY <1>0
    <2>3. CASE m.pool.pOwner[b] /\ p.lockCount[b] = 0 /\ running /\ CanGet(p)
        BY <1>2, <1>3, <2>1, <2>2, <2>3
    <2>4. CASE ~ (m.pool.pOwner[b] /\ p.lockCount[b] = 0 /\ running /\ CanGet(p))
        BY <1>0, <1>1, <1>3, <2>1, <2>4
    <2> QED
        BY <2>3, <2>4

-----------------------------------------------------------------------------
(* Types                                                                     *)

\* The pair in the callback is a buffer of each camera.
PairWhole == handler.at = "callback" => \A q \in Queues : handler.pair[q] \in Buffers

\* The commands that are waiting, apart from the rest of the state
Queued == CommandQueue \in Seq(Commands) /\ Len(CommandQueue) <= MaxCommands

LEMMA CommandTyped ==
    /\ \A c \in {"START", "STOP", "SHUTDOWN", "PROCESS_BUFFER"}, q \in Queues :
          Command(c, q) \in Commands /\ Command(c, q).cmd = c /\ Command(c, q).id = q
    /\ 0 \in Queues /\ 1 \in Queues
BY DEF Command, Commands, Queues

LEMMA SendTyped ==
    ASSUME Queued, NEW c \in Commands, BufSyncCtrlSendCommand(c)
    PROVE  Queued'
<1>1. CASE state = "invalid"
    BY <1>1 DEF Queued, BufSyncCtrlSendCommand
<1>2. CASE state # "invalid"
    <2>1. Len(CommandQueue) < MaxCommands /\ CommandQueue' = Append(CommandQueue, c)
        BY <1>2 DEF BufSyncCtrlSendCommand
    <2>2. CommandQueue' \in Seq(Commands) /\ Len(CommandQueue') = Len(CommandQueue) + 1
        BY <2>1, Appended DEF Queued
    <2> QED
        BY <2>1, <2>2, BufSyncCtrlAssumption DEF Queued
<1> QED
    BY <1>1, <1>2

LEMMA ReceiveTyped ==
    ASSUME Queued, NEW c, Received(c)
    PROVE  Queued'
<1>1. CommandQueue' \in Seq(Commands) /\ Len(CommandQueue') = Len(CommandQueue) - 1
    BY Taken DEF Queued, Received
<1> QED
    BY <1>1, BufSyncCtrlAssumption DEF Queued

LEMMA AllTakenTyped ==
    ASSUME NEW p \in Pools
    PROVE  AllTaken(p) \in Pools
<1> DEFINE p1 == [p EXCEPT !.lockCount = [b \in Buffers |-> 1]]
           p2 == [p1 EXCEPT !.pOwner = [b \in Buffers |-> TRUE]]
<1>1. [b \in Buffers |-> 1] \in [Buffers -> 0..(CounterMod - 1)]
    BY PoolAssumption
<1>2. p1 \in Pools
    BY <1>1, PoolMaps
<1>3. AllTaken(p) = [p2 EXCEPT !.freeBufNum = 0]
    BY DEF AllTaken
<1> HIDE DEF p1
<1>4. p2 \in Pools
    BY <1>2 DEF Pools
<1> HIDE DEF p2
<1> QED
    BY <1>3, <1>4, PoolUpdates

LEMMA UnlockKeeps ==
    ASSUME TypeOK, NEW q \in Queues, NEW b \in Buffers, Unlock(q, b)
    PROVE  mom' \in [Queues -> Outputs]
<1>1. mom[q] \in Outputs /\ (q \in momRunning) \in BOOLEAN
    BY DEF TypeOK
<1>2. Unlocked(mom[q], q \in momRunning, b) \in Outputs
    BY <1>1, UnlockedTyped
<1> QED
    BY <1>2 DEF Unlock, TypeOK

LEMMA HeldTyped ==
    ASSUME TypeOK, NEW q \in Queues
    PROVE  Held(q) \subseteq Buffers
<1>1. Elements(bufQueue[q]) \subseteq Buffers
    BY DEF TypeOK, Elements
<1>2. {reader[q].b, pBuffer[q], handler.pair[q]} \subseteq NoneOr(Buffers)
    BY DEF TypeOK
<1> QED
    BY <1>1, <1>2 DEF Held, NoneOr

LEMMA TypeStep ==
    ASSUME TypeOK, PairWhole, [Next]_vars
    PROVE  TypeOK'
<1> DEFINE Threads == [at : {"read", "keep", "send", "ended"}, b : NoneOr(Buffers)]
<1> USE DEF control, readers, buffers, others
<1>0. Queued /\ NoBuffer \in NoneOr(Buffers) /\ \A b \in Buffers : b \in NoneOr(Buffers)
    BY DEF TypeOK, Queued, NoneOr
<1>1. ASSUME NEW q \in Queues, QueueRead(q) PROVE TypeOK'
    <2>1. Head(bufQueue[q]) \in Buffers /\ Tail(bufQueue[q]) \in Seq(Buffers)
        BY <1>1, Taken DEF TypeOK, QueueRead
    <2>2. reader' \in [Queues -> Threads] /\ bufQueue' \in [Queues -> Seq(Buffers)]
        BY <1>0, <1>1, <2>1 DEF TypeOK, QueueRead, Reader
    <2> QED
        BY <1>1, <2>2 DEF TypeOK, QueueRead
<1>2. ASSUME NEW q \in Queues, QueueKeep(q) PROVE TypeOK'
    <2>1. mom' \in [Queues -> Outputs]
        <3>1. CASE pBuffer[q] # NoBuffer
            BY <1>2, <3>1, UnlockKeeps DEF TypeOK, NoneOr, QueueKeep
        <3>2. CASE pBuffer[q] = NoBuffer
            BY <1>2, <3>2 DEF TypeOK, QueueKeep
        <3> QED
            BY <3>1, <3>2
    <2>2. reader' \in [Queues -> Threads] /\ pBuffer' \in [Queues -> NoneOr(Buffers)]
        BY <1>0, <1>2 DEF TypeOK, QueueKeep, Reader
    <2> QED
        BY <1>2, <2>1, <2>2 DEF TypeOK, QueueKeep
<1>3. ASSUME NEW q \in Queues, QueueSend(q) PROVE TypeOK'
    <2>1. Queued'
        BY <1>0, <1>3, CommandTyped, SendTyped DEF QueueSend
    <2>2. reader' \in [Queues -> Threads]
        BY <1>3 DEF TypeOK, QueueSend
    <2> QED
        BY <1>3, <2>1, <2>2 DEF TypeOK, QueueSend, Queued
<1>4. ASSUME NEW q \in Queues, QueueExit(q) PROVE TypeOK'
    <2>1. reader' \in [Queues -> Threads]
        BY <1>4 DEF TypeOK, QueueExit
    <2> QED
        BY <1>4, <2>1 DEF TypeOK, QueueExit
<1>5. CASE Start \/ Stop \/ ShutDown
    <2>1. Queued'
        BY <1>0, <1>5, ReceiveTyped DEF Start, Stop, ShutDown
    <2> QED
        BY <1>5, <2>1 DEF TypeOK, Queued, Start, Stop, ShutDown
<1>6. CASE PairUp \/ WaitForPartner
    <2>1. Queued'
        BY <1>0, <1>6, ReceiveTyped DEF PairUp, WaitForPartner
    <2>2. pBuffer' \in [Queues -> NoneOr(Buffers)]
        BY <1>0, <1>6 DEF TypeOK, PairUp, WaitForPartner, NoPair
    <2> QED
        BY <1>6, <2>1, <2>2 DEF TypeOK, Queued, PairUp, WaitForPartner
<1>7. CASE CallbackDone
    <2>1. \A q \in Queues : handler.pair[q] \in Buffers
        BY <1>7 DEF CallbackDone, PairWhole
    <2>2. \A q \in Queues :
              mom[q] \in Outputs /\ (q \in momRunning) \in BOOLEAN
        BY DEF TypeOK
    <2>3. \A q \in Queues :
              Unlocked(mom[q], q \in momRunning, handler.pair[q]) \in Outputs
        BY <2>1, <2>2, UnlockedTyped
    <2>4. mom' \in [Queues -> Outputs]
        BY <1>7, <2>3 DEF CallbackDone
    <2>5. handler' \in [at : {"read", "callback", "ended"}, pair : [Queues -> NoneOr(Buffers)]]
        BY <1>0, <1>7 DEF CallbackDone, NoPair
    <2> QED
        BY <1>7, <2>4, <2>5 DEF TypeOK, CallbackDone
<1>8. ASSUME NEW q \in Queues, Discard(q) PROVE TypeOK'
    <2>1. mom' \in [Queues -> Outputs]
        <3>1. CASE pBuffer[q] # NoBuffer
            BY <1>8, <3>1, UnlockKeeps DEF TypeOK, NoneOr, Discard
        <3>2. CASE pBuffer[q] = NoBuffer
            BY <1>8, <3>2 DEF TypeOK, Discard
        <3> QED
            BY <3>1, <3>2
    <2>2. Queued'
        BY <1>0, <1>8, ReceiveTyped DEF Discard
    <2>3. pBuffer' \in [Queues -> NoneOr(Buffers)]
        BY <1>0, <1>8 DEF TypeOK, Discard
    <2> QED
        BY <1>8, <2>1, <2>2, <2>3 DEF TypeOK, Queued, Discard
<1>9. ASSUME NEW q \in Queues, Frame(q) PROVE TypeOK'
    <2>1. /\ mom[q] \in Outputs /\ mom[q].empty # <<>>
          /\ mom' = [mom EXCEPT ![q] = Output(mom[q].pool, Tail(mom[q].empty),
                                     Append(mom[q].full, Head(mom[q].empty)))]
        BY <1>9 DEF TypeOK, Frame
    <2>2. /\ Tail(mom[q].empty) \in Seq(Buffers)
          /\ Append(mom[q].full, Head(mom[q].empty)) \in Seq(Buffers)
        BY <2>1, Taken, Appended DEF Outputs
    <2>3. mom' \in [Queues -> Outputs]
        BY <2>1, <2>2 DEF TypeOK, Output, Outputs
    <2> QED
        BY <1>9, <2>3 DEF TypeOK, Frame
<1>10. ASSUME NEW q \in Queues, Deliver(q) PROVE TypeOK'
    <2>1. /\ mom[q] \in Outputs /\ mom[q].full # <<>>
          /\ mom' = [mom EXCEPT ![q] = Output(mom[q].pool, mom[q].empty, Tail(mom[q].full))]
        BY <1>10 DEF TypeOK, Deliver
    <2>2. Head(mom[q].full) \in Buffers /\ Tail(mom[q].full) \in Seq(Buffers)
        BY <2>1, Taken DEF Outputs
    <2>3. mom' \in [Queues -> Outputs]
        BY <2>1, <2>2 DEF TypeOK, Output, Outputs
    <2>4. bufQueue' \in [Queues -> Seq(Buffers)]
        BY <1>10, <2>2, Appended DEF TypeOK, Deliver
    <2> QED
        BY <1>10, <2>3, <2>4 DEF TypeOK, Deliver
<1>11. CASE Setup
    <2>1. IdleMom \in Outputs /\ <<>> \in Seq(Buffers) /\ <<>> \in Seq(Commands)
        BY NewPoolCounts DEF IdleMom, Output, Outputs
    <2>2. Len(<<>>) <= MaxCommands
        BY BufSyncCtrlAssumption
    <2>3. 0 \in 0..MaxStarts
        BY BufSyncCtrlAssumption
    <2> QED
        BY <1>0, <1>11, <2>1, <2>2, <2>3 DEF TypeOK, Setup, Reader, NoPair
<1>12. CASE RegisterBufferCb \/ StopDriver \/ JoinFirst \/ JoinSecond \/ Release
    <2>1. CASE RegisterBufferCb
        BY <2>1 DEF TypeOK, RegisterBufferCb
    <2>2. CASE StopDriver \/ JoinSecond
        BY <2>2 DEF TypeOK, StopDriver, JoinSecond
    <2>3. CASE JoinFirst \/ Release
        <3>1. bExit' \in [Queues -> BOOLEAN]
            BY <2>3 DEF TypeOK, JoinFirst, Release
        <3> QED
            BY <2>3, <3>1 DEF TypeOK, JoinFirst, Release
    <2> QED
        BY <1>12, <2>1, <2>2, <2>3
<1>13. CASE MomStart
    <2>1. \A q \in Queues : AllTaken(mom[q].pool) \in Pools
        BY AllTakenTyped DEF TypeOK, Outputs
    <2>2. [i \in 1..BufNum |-> i - 1] \in Seq(Buffers)
        BY PoolAssumption DEF Buffers
    <2>3. mom' \in [Queues -> Outputs]
        BY <1>13, <2>1, <2>2 DEF TypeOK, MomStart, Output, Outputs
    <2>4. starts' \in 0..MaxStarts
        BY <1>13, BufSyncCtrlAssumption DEF TypeOK, MomStart
    <2>5. carried' \in [Queues -> SUBSET Buffers]
        BY <1>13, HeldTyped DEF MomStart
    <2> QED
        BY <1>13, <2>3, <2>4, <2>5 DEF TypeOK, MomStart
<1>14. CASE BufSyncCtrlStart \/ BufSyncCtrlStop \/ BufSyncCtrlDestroy
    <2>1. Queued'
        BY <1>0, <1>14, CommandTyped, SendTyped
           DEF BufSyncCtrlStart, BufSyncCtrlStop, BufSyncCtrlDestroy, Sends
    <2> QED
        BY <1>14, <2>1 DEF TypeOK, Queued, BufSyncCtrlStart, BufSyncCtrlStop,
                           BufSyncCtrlDestroy, Sends
<1>15. ASSUME NEW q \in Queues, MomStop(q) PROVE TypeOK'
    <2>1. Output(PoolReset(mom[q].pool), <<>>, <<>>) \in Outputs
        BY NewPoolCounts DEF TypeOK, Output, Outputs
    <2>2. mom' \in [Queues -> Outputs]
        BY <1>15, <2>1 DEF TypeOK, MomStop
    <2>3. Held(q) \subseteq Buffers
        BY HeldTyped
    <2>4. carried' \in [Queues -> SUBSET Buffers]
        BY <1>15, <2>3 DEF TypeOK, MomStop
    <2> QED
        BY <1>15, <2>2, <2>4 DEF TypeOK, MomStop
<1>16. CASE JoinHandler
    BY <1>16, BufSyncCtrlAssumption DEF TypeOK, JoinHandler
<1>17. CASE UNCHANGED vars
    BY <1>17 DEF TypeOK, vars
<1> QED
    BY <1>1, <1>2, <1>3, <1>4, <1>5, <1>6, <1>7, <1>8, <1>9, <1>10, <1>11, <1>12,
       <1>13, <1>14, <1>15, <1>16, <1>17
       DEF Next, QueueThread, Handler, EngineProceeds, EngineAsked

LEMMA PairStep ==
    ASSUME TypeOK, PairWhole, [Next]_vars
    PROVE  PairWhole'
<1> USE DEF PairWhole
<1>1. CASE PairUp
    BY <1>1 DEF TypeOK, NoneOr, PairUp, Complete
<1>2. CASE CallbackDone \/ Setup
    BY <1>2 DEF CallbackDone, Setup
<1>3. CASE ShutDown
    BY <1>3 DEF TypeOK, ShutDown
<1>4. ASSUME UNCHANGED handler PROVE PairWhole'
    BY <1>4
<1> QED
    BY <1>1, <1>2, <1>3, <1>4
       DEF Next, QueueThread, Handler, EngineProceeds, EngineAsked, QueueRead, QueueKeep,
           QueueSend, QueueExit, Start, Stop, WaitForPartner, Discard, Frame, Deliver,
           RegisterBufferCb, StopDriver, JoinFirst, JoinSecond, Release, MomStart,
           BufSyncCtrlStart, BufSyncCtrlStop, BufSyncCtrlDestroy, Sends, MomStop,
           JoinHandler, vars

LEMMA TypeInit == Init => TypeOK /\ PairWhole
<1> SUFFICES ASSUME Init PROVE TypeOK /\ PairWhole
    OBVIOUS
<1>1. IdleMom \in Outputs
    BY NewPoolCounts DEF IdleMom, Output, Outputs
<1>2. NoBuffer \in NoneOr(Buffers)
    BY DEF NoneOr
<1>3. <<>> \in Seq(Commands) /\ <<>> \in Seq(Buffers) /\ Len(<<>>) <= MaxCommands
    BY BufSyncCtrlAssumption
<1>4. 0 \in 0..MaxStarts
    BY BufSyncCtrlAssumption
<1>5. NoPair \in [Queues -> NoneOr(Buffers)]
    BY <1>2 DEF NoPair
<1>6. /\ pBuffer \in [Queues -> NoneOr(Buffers)]
      /\ handler \in [at : {"read", "callback", "ended"},
                      pair : [Queues -> NoneOr(Buffers)]]
      /\ PairWhole
    BY <1>5 DEF Init, PairWhole
<1>7. /\ reader \in [Queues -> [at : {"read", "keep", "send", "ended"},
                                 b  : NoneOr(Buffers)]]
      /\ bExit \in [Queues -> BOOLEAN]
      /\ bufQueue \in [Queues -> Seq(Buffers)]
      /\ mom \in [Queues -> Outputs]
      /\ carried \in [Queues -> SUBSET Buffers]
    BY <1>1, <1>2, <1>3 DEF Init, Reader
<1> QED
    BY <1>3, <1>4, <1>6, <1>7 DEF Init, TypeOK

(* The types of the state: each buffer a thread has is one of the pool's.     *)
THEOREM TypeCorrect == Spec => []TypeOK
<1>1. Init => TypeOK /\ PairWhole
    BY TypeInit
<1>2. TypeOK /\ PairWhole /\ [Next]_vars => TypeOK' /\ PairWhole'
    BY TypeStep, PairStep
<1> QED
    BY <1>1, <1>2, PTL DEF Spec

-----------------------------------------------------------------------------
(* The command queue is left empty                                           *)

\* At most one command of the engine waits, the one the engine waits for, and
\* nothing comes after SHUTDOWN.
InOrder ==
    /\ \A i \in DOMAIN CommandQueue :
          /\ CommandQueue[i].cmd = "START" => engine = "starting"
          /\ CommandQueue[i].cmd = "STOP" => engine = "stopping"
          /\ CommandQueue[i].cmd = "SHUTDOWN" => engine = "destroy" /\ i = Len(CommandQueue)
    /\ \A i, j \in DOMAIN CommandQueue :
          CommandQueue[i].cmd # "PROCESS_BUFFER" /\ CommandQueue[j].cmd # "PROCESS_BUFFER"
              => i = j

\* The threads end in the order in which they are joined.
Ended ==
    /\ handler.at = "ended" => CommandQueue = <<>> /\ engine \in {"destroy", "off"}
    /\ engine \in {"join1", "shutdown", "destroy", "off"} => reader[0].at = "ended"
    /\ engine \in {"shutdown", "destroy", "off"} => reader[1].at = "ended"
    /\ state = "invalid" => engine \in {"destroy", "off"}

\* No command of the engine is on its way.
OnlyBuffers == \A i \in DOMAIN CommandQueue : CommandQueue[i].cmd = "PROCESS_BUFFER"

LEMMA OnlyBuffersInOrder ==
    /\ OnlyBuffers => InOrder
    /\ TypeOK /\ InOrder /\ engine \notin {"starting", "stopping", "destroy"} => OnlyBuffers
<1>1. OnlyBuffers => InOrder
    BY DEF OnlyBuffers, InOrder
<1>2. ASSUME TypeOK, InOrder, engine \notin {"starting", "stopping", "destroy"},
             NEW i \in DOMAIN CommandQueue
      PROVE  CommandQueue[i].cmd = "PROCESS_BUFFER"
    <2>1. CommandQueue[i] \in Commands
        BY <1>2 DEF TypeOK
    <2> QED
        BY <1>2, <2>1 DEF InOrder, Commands
<1> QED
    BY <1>1, <1>2 DEF OnlyBuffers

LEMMA OnlyBuffersNext == OnlyBuffers' => InOrder'
BY OnlyBuffersInOrder, PTL

LEMMA Receive ==
    ASSUME TypeOK, InOrder, NEW c, Received(c)
    PROVE  /\ 1 \in DOMAIN CommandQueue /\ CommandQueue[1].cmd = c
           /\ Len(CommandQueue') = Len(CommandQueue) - 1
           /\ \A i \in DOMAIN CommandQueue' :
                 /\ i \in Nat /\ i + 1 \in DOMAIN CommandQueue
                 /\ CommandQueue'[i] = CommandQueue[i + 1]
           /\ c # "PROCESS_BUFFER" => OnlyBuffers'
<1>1. /\ CommandQueue \in Seq(Commands) /\ CommandQueue # <<>>
      /\ CommandQueue' = Tail(CommandQueue) /\ Head(CommandQueue).cmd = c
    BY DEF TypeOK, Received
<1>2. 1 \in DOMAIN CommandQueue /\ CommandQueue[1].cmd = c
    BY <1>1, Taken
<1>3. /\ Len(CommandQueue') = Len(CommandQueue) - 1
      /\ \A i \in DOMAIN CommandQueue' :
            /\ i \in Nat \ {0} /\ i + 1 \in DOMAIN CommandQueue
            /\ CommandQueue'[i] = CommandQueue[i + 1]
    BY <1>1, Taken
<1>4. ASSUME c # "PROCESS_BUFFER", NEW i \in DOMAIN CommandQueue'
      PROVE  CommandQueue'[i].cmd = "PROCESS_BUFFER"
    <2>1. i \in Nat \ {0} /\ i + 1 \in DOMAIN CommandQueue /\ i + 1 # 1
        BY <1>3
    <2>2. CommandQueue[i + 1].cmd = "PROCESS_BUFFER"
        BY <1>2, <1>4, <2>1 DEF InOrder
    <2> QED
        BY <1>3, <2>2
<1> QED
    BY <1>2, <1>3, <1>4 DEF OnlyBuffers

LEMMA ReceiveInOrder ==
    ASSUME TypeOK, InOrder, Received("PROCESS_BUFFER"), UNCHANGED engine
    PROVE  InOrder'
<1>1. \A i \in DOMAIN CommandQueue' :
          /\ i \in Nat /\ i + 1 \in DOMAIN CommandQueue
          /\ CommandQueue'[i] = CommandQueue[i + 1]
    BY Receive
<1>2. Len(CommandQueue') = Len(CommandQueue) - 1 /\ Len(CommandQueue) \in Nat
    BY Receive DEF TypeOK
<1>3. ASSUME NEW i \in DOMAIN CommandQueue'
      PROVE  /\ CommandQueue'[i].cmd = "START" => engine' = "starting"
             /\ CommandQueue'[i].cmd = "STOP" => engine' = "stopping"
             /\ CommandQueue'[i].cmd = "SHUTDOWN" =>
                    engine' = "destroy" /\ i = Len(CommandQueue')
    <2>1. /\ CommandQueue[i + 1].cmd = "START" => engine = "starting"
          /\ CommandQueue[i + 1].cmd = "STOP" => engine = "stopping"
          /\ CommandQueue[i + 1].cmd = "SHUTDOWN" =>
                engine = "destroy" /\ i + 1 = Len(CommandQueue)
        BY <1>1 DEF InOrder
    <2> QED
        BY <1>1, <1>2, <2>1
<1>4. ASSUME NEW i \in DOMAIN CommandQueue', NEW j \in DOMAIN CommandQueue',
             CommandQueue'[i].cmd # "PROCESS_BUFFER",
             CommandQueue'[j].cmd # "PROCESS_BUFFER"
      PROVE  i = j
    <2>1. i + 1 = j + 1
        BY <1>1, <1>4 DEF InOrder
    <2> QED
        BY <1>1, <2>1
<1> QED
    BY <1>3, <1>4 DEF InOrder

LEMMA Send ==
    ASSUME TypeOK, NEW c \in Commands, state # "invalid", BufSyncCtrlSendCommand(c)
    PROVE  /\ Len(CommandQueue') = Len(CommandQueue) + 1 /\ Len(CommandQueue) \in Nat
           /\ \A i \in DOMAIN CommandQueue :
                 i \in 1..Len(CommandQueue) /\ CommandQueue'[i] = CommandQueue[i]
           /\ DOMAIN CommandQueue' = 1..(Len(CommandQueue) + 1)
           /\ DOMAIN CommandQueue = 1..Len(CommandQueue)
           /\ CommandQueue'[Len(CommandQueue) + 1] = c
<1>1. CommandQueue \in Seq(Commands) /\ CommandQueue' = Append(CommandQueue, c)
    BY DEF TypeOK, BufSyncCtrlSendCommand
<1> QED
    BY <1>1, Appended

\* A buffer is announced while no SHUTDOWN is on its way.
LEMMA AnnounceInOrder ==
    ASSUME TypeOK, InOrder, NEW q \in Queues, engine # "destroy", UNCHANGED engine,
           BufSyncCtrlSendCommand(Command("PROCESS_BUFFER", q))
    PROVE  InOrder'
<1> DEFINE c == Command("PROCESS_BUFFER", q)
<1>1. CASE state = "invalid"
    BY <1>1 DEF BufSyncCtrlSendCommand, InOrder
<1>2. CASE state # "invalid"
    <2>1. c \in Commands /\ c.cmd = "PROCESS_BUFFER"
        BY CommandTyped
    <2> HIDE DEF c
    <2>2. \A i \in DOMAIN CommandQueue' :
              \/ i \in DOMAIN CommandQueue /\ CommandQueue'[i] = CommandQueue[i]
              \/ CommandQueue'[i].cmd = "PROCESS_BUFFER"
        BY <1>2, <2>1, Send DEF c
    <2> QED
        BY <2>2 DEF InOrder
<1> QED
    BY <1>1, <1>2

\* The engine sends one command and waits for it.
LEMMA SendsInOrder ==
    ASSUME TypeOK, InOrder, Ended,
           BufSyncCtrlStart \/ BufSyncCtrlStop \/ BufSyncCtrlDestroy
    PROVE  InOrder'
<1>1. ASSUME NEW c \in {"START", "STOP", "SHUTDOWN"}, NEW from, NEW to,
             from \in {"start", "stop", "shutdown"}, Sends(from, c, to),
             c = "START" => to = "starting", c = "STOP" => to = "stopping",
             c = "SHUTDOWN" => to = "destroy"
      PROVE  InOrder'
    <2>1. engine = from /\ state # "invalid" /\ BufSyncCtrlSendCommand(Command(c, 0))
        BY <1>1 DEF Sends, Ended
    <2>2. OnlyBuffers
        BY <1>1, <2>1, OnlyBuffersInOrder
    <2>3. Command(c, 0) \in Commands /\ Command(c, 0).cmd = c
        BY CommandTyped
    <2>4. \A i \in DOMAIN CommandQueue' :
              \/ CommandQueue'[i].cmd = "PROCESS_BUFFER"
              \/ i = Len(CommandQueue') /\ CommandQueue'[i].cmd = c
        BY <2>1, <2>2, <2>3, Send DEF OnlyBuffers
    <2>5. engine' = to
        BY <1>1 DEF Sends
    <2> QED
        BY <1>1, <2>4, <2>5 DEF InOrder
<1> QED
    BY <1>1 DEF BufSyncCtrlStart, BufSyncCtrlStop, BufSyncCtrlDestroy

LEMMA OrderStep ==
    ASSUME TypeOK, InOrder, Ended, [Next]_vars
    PROVE  InOrder'
<1> USE DEF control, readers, buffers, others
<1>1. ASSUME NEW q \in Queues, QueueSend(q) PROVE InOrder'
    <2>1. engine # "destroy"
        BY <1>1 DEF QueueSend, Ended, Queues
    <2> QED
        BY <1>1, <2>1, AnnounceInOrder DEF QueueSend
<1>2. CASE Start \/ Stop \/ ShutDown
    <2>1. OnlyBuffers'
        BY <1>2, Receive DEF Start, Stop, ShutDown
    <2> QED
        BY <2>1, OnlyBuffersNext
<1>3. ASSUME PairUp \/ WaitForPartner \/ \E q \in Queues : Discard(q) PROVE InOrder'
    BY <1>3, ReceiveInOrder DEF PairUp, WaitForPartner, Discard
<1>4. CASE Setup \/ JoinHandler
    <2>1. CommandQueue' = <<>>
        BY <1>4 DEF Setup, JoinHandler
    <2> QED
        BY <2>1 DEF InOrder
<1>5. CASE BufSyncCtrlStart \/ BufSyncCtrlStop \/ BufSyncCtrlDestroy
    BY <1>5, SendsInOrder
<1>6. ASSUME UNCHANGED CommandQueue, engine \notin {"starting", "stopping", "destroy"}
      PROVE  InOrder'
    <2>1. OnlyBuffers
        BY <1>6, OnlyBuffersInOrder
    <2>2. OnlyBuffers'
        BY <1>6, <2>1 DEF OnlyBuffers
    <2> QED
        BY <2>2, OnlyBuffersNext
<1>7. CASE MomStart \/ StopDriver \/ Release \/ JoinFirst \/ JoinSecond
           \/ \E q \in Queues : MomStop(q)
    BY <1>6, <1>7 DEF MomStart, StopDriver, Release, JoinFirst, JoinSecond, MomStop
<1>8. ASSUME UNCHANGED <<CommandQueue, engine>> PROVE InOrder'
    BY <1>8 DEF InOrder
<1>9. CASE CallbackDone \/ RegisterBufferCb \/ UNCHANGED vars
    BY <1>8, <1>9 DEF CallbackDone, RegisterBufferCb, vars
<1>10. ASSUME NEW q \in Queues, QueueRead(q) \/ QueueKeep(q) \/ QueueExit(q)
                                \/ Frame(q) \/ Deliver(q)
       PROVE InOrder'
    BY <1>8, <1>10 DEF QueueRead, QueueKeep, QueueExit, Frame, Deliver
<1> QED
    BY <1>1, <1>2, <1>3, <1>4, <1>5, <1>7, <1>9, <1>10
       DEF Next, QueueThread, Handler, EngineProceeds, EngineAsked

LEMMA EndedStep ==
    ASSUME TypeOK, InOrder, Ended, [Next]_vars
    PROVE  Ended'
<1> USE DEF control, readers, buffers, others, Ended
<1>1. ASSUME NEW q \in Queues, QueueRead(q) \/ QueueKeep(q) \/ QueueExit(q) PROVE Ended'
    BY <1>1 DEF QueueRead, QueueKeep, QueueExit, TypeOK, Queues, Reader
<1>2. ASSUME NEW q \in Queues, QueueSend(q) PROVE Ended'
    <2>1. engine \notin {"destroy", "off"}
        BY <1>2 DEF QueueSend, Queues
    <2> QED
        BY <1>2, <2>1 DEF QueueSend, TypeOK, Queues
<1>3. CASE Start
    <2>1. engine = "starting" /\ handler.at = "read"
        BY <1>3, Receive DEF Start, InOrder, Received
    <2> QED
        BY <1>3, <2>1 DEF Start
<1>4. CASE Stop
    <2>1. engine = "stopping" /\ handler.at = "read"
        BY <1>4, Receive DEF Stop, InOrder, Received
    <2> QED
        BY <1>4, <2>1 DEF Stop
<1>5. CASE ShutDown
    <2>1. engine = "destroy" /\ Len(CommandQueue) = 1
        BY <1>5, Receive DEF ShutDown, InOrder
    <2>2. Len(CommandQueue') = 0 /\ CommandQueue' \in Seq(Commands)
        BY <1>5, <2>1, Receive, Taken DEF ShutDown, Received, TypeOK
    <2>3. CommandQueue' = <<>>
        BY <2>2, EmptySeq
    <2> QED
        BY <1>5, <2>1, <2>3 DEF ShutDown
<1>6. CASE PairUp
    BY <1>6 DEF PairUp, Received
<1>7. ASSUME WaitForPartner \/ \E q \in Queues : Discard(q) PROVE Ended'
    BY <1>7 DEF WaitForPartner, Discard, Received
<1>8. CASE CallbackDone
    BY <1>8 DEF CallbackDone
<1>9. CASE Setup
    BY <1>9 DEF Setup
<1>10. CASE RegisterBufferCb \/ UNCHANGED vars
    BY <1>10 DEF RegisterBufferCb, vars
<1>11. ASSUME NEW q \in Queues, Frame(q) \/ Deliver(q) PROVE Ended'
    BY <1>11 DEF Frame, Deliver
<1>12. CASE BufSyncCtrlStart \/ BufSyncCtrlStop \/ BufSyncCtrlDestroy
    BY <1>12 DEF BufSyncCtrlStart, BufSyncCtrlStop, BufSyncCtrlDestroy, Sends
<1>13. CASE MomStart \/ StopDriver \/ \E q \in Queues : MomStop(q)
    BY <1>13 DEF MomStart, StopDriver, MomStop
<1>14. CASE Release \/ JoinFirst \/ JoinSecond
    BY <1>14 DEF Release, JoinFirst, JoinSecond
<1>15. CASE JoinHandler
    BY <1>15 DEF JoinHandler
<1> QED
    BY <1>1, <1>2, <1>3, <1>4, <1>5, <1>6, <1>7, <1>8, <1>9, <1>10, <1>11, <1>12,
       <1>13, <1>14, <1>15
       DEF Next, QueueThread, Handler, EngineProceeds, EngineAsked

(* BufSyncCtrlDestroy finds nothing in the command queue that it would have   *)
(* to cancel, whatever the threads did before they ended.                     *)
THEOREM QueueLeftEmpty == Spec => []NothingToCancel
<1> DEFINE IInv == TypeOK /\ PairWhole /\ InOrder /\ Ended
<1>1. Init => InOrder /\ Ended
    BY DEF Init, InOrder, Ended, Reader, Queues
<1>2. IInv /\ [Next]_vars => IInv'
    BY TypeStep, PairStep, OrderStep, EndedStep
<1>3. Ended => NothingToCancel
    BY DEF Ended, NothingToCancel
<1>4. Init => TypeOK /\ PairWhole
    BY TypeInit
<1> QED
    BY <1>1, <1>2, <1>3, <1>4, PTL DEF Spec

-----------------------------------------------------------------------------
(* No pair is forgotten                                                      *)

\* While no output module runs, all the module holds is of the past stream.
Old == /\ engine \in {"off", "idle", "join0", "join1", "shutdown", "destroy"}
             => momRunning = {}
       /\ \A q \in Queues : q \notin momRunning => Held(q) \subseteq carried[q]

\* Only a delivery adds to what the module holds.
LEMMA HeldShrinks ==
    ASSUME TypeOK, NEW q \in Queues, [Next]_vars, ~ Deliver(q)
    PROVE  Held(q)' \subseteq Held(q)
<1> USE DEF control, readers, buffers, others, Held
<1>1. ASSUME NEW p \in Queues, QueueRead(p) PROVE Held(q)' \subseteq Held(q)
    <2>1. /\ Elements(Tail(bufQueue[p])) \subseteq Elements(bufQueue[p])
          /\ Head(bufQueue[p]) \in Elements(bufQueue[p])
        BY <1>1, ElementsChange DEF QueueRead, TypeOK
    <2>2. /\ bufQueue'[q] = IF q = p THEN Tail(bufQueue[p]) ELSE bufQueue[q]
          /\ reader'[q].b = IF q = p THEN Head(bufQueue[p]) ELSE reader[q].b
          /\ UNCHANGED <<pBuffer, handler>>
        BY <1>1 DEF QueueRead, TypeOK, Reader
    <2>3. Held(q)' = Elements(bufQueue'[q])
                     \union ({reader'[q].b, pBuffer'[q], handler'.pair[q]} \ {NoBuffer})
        BY DEF Elements
    <2> HIDE DEF Held
    <2>4. Held(q) = Elements(bufQueue[q])
                    \union ({reader[q].b, pBuffer[q], handler.pair[q]} \ {NoBuffer})
        BY DEF Held
    <2>5. CASE q = p
        BY <2>1, <2>2, <2>3, <2>4, <2>5
    <2>6. CASE q # p
        BY <2>2, <2>3, <2>4, <2>6
    <2> QED
        BY <2>5, <2>6
<1>2. ASSUME NEW p \in Queues, QueueKeep(p) PROVE Held(q)' \subseteq Held(q)
    BY <1>2 DEF QueueKeep, TypeOK, Reader, Elements
<1>3. ASSUME NEW p \in Queues, QueueSend(p) \/ QueueExit(p)
      PROVE Held(q)' \subseteq Held(q)
    <2>1. PICK place \in {"read", "ended"} : reader' = [reader EXCEPT ![p].at = place]
        BY <1>3 DEF QueueSend, QueueExit
    <2>2. reader'[q].b = reader[q].b
        <3>1. /\ reader \in [Queues -> [at : {"read", "keep", "send", "ended"},
                                       b  : NoneOr(Buffers)]]
              /\ reader[q] \in [at : {"read", "keep", "send", "ended"},
                                b  : NoneOr(Buffers)]
            BY DEF TypeOK
        <3>2. CASE q = p
            BY <2>1, <3>1, <3>2
        <3>3. CASE q # p
            BY <2>1, <3>1, <3>3
        <3> QED
            BY <3>2, <3>3
    <2>3. UNCHANGED <<pBuffer, bufQueue, handler>>
        BY <1>3 DEF QueueSend, QueueExit
    <2> QED
        BY <2>2, <2>3 DEF Elements
<1>4. CASE PairUp
    BY <1>4 DEF PairUp, NoPair, Elements
<1>5. CASE CallbackDone
    BY <1>5 DEF CallbackDone, NoPair, Elements
<1>6. ASSUME NEW p \in Queues, Discard(p) PROVE Held(q)' \subseteq Held(q)
    BY <1>6 DEF Discard, TypeOK, Elements
<1>7. ASSUME NEW p \in Queues, Deliver(p) PROVE Held(q)' \subseteq Held(q)
    <2>1. p # q
        BY <1>7
    <2> QED
        BY <1>7, <2>1 DEF Deliver, TypeOK, Elements
<1>8. CASE Setup
    BY <1>8 DEF Setup, Reader, NoPair, Elements
<1>9. CASE ShutDown
    BY <1>9 DEF ShutDown, TypeOK, Elements
<1>10. ASSUME UNCHANGED <<bufQueue, reader, pBuffer, handler>>
       PROVE Held(q)' \subseteq Held(q)
    BY <1>10 DEF Elements
<1>11. ASSUME NEW p \in Queues, Frame(p) \/ MomStop(p) PROVE Held(q)' \subseteq Held(q)
    BY <1>10, <1>11 DEF Frame, MomStop
<1>12. CASE Start \/ Stop \/ WaitForPartner
    BY <1>10, <1>12 DEF Start, Stop, WaitForPartner
<1>13. CASE BufSyncCtrlStart \/ BufSyncCtrlStop \/ BufSyncCtrlDestroy
    BY <1>10, <1>13 DEF BufSyncCtrlStart, BufSyncCtrlStop, BufSyncCtrlDestroy, Sends
<1>14. CASE RegisterBufferCb \/ MomStart \/ StopDriver \/ Release
    BY <1>10, <1>14 DEF RegisterBufferCb, MomStart, StopDriver, Release
<1>15. CASE JoinFirst \/ JoinSecond \/ JoinHandler \/ UNCHANGED vars
    BY <1>10, <1>15 DEF JoinFirst, JoinSecond, JoinHandler, vars
<1> QED
    BY <1>1, <1>2, <1>3, <1>4, <1>5, <1>6, <1>7, <1>8, <1>9, <1>11, <1>12,
       <1>13, <1>14, <1>15
       DEF Next, QueueThread, Handler, EngineProceeds, EngineAsked

LEMMA OldStep ==
    ASSUME TypeOK, Old, [Next]_vars
    PROVE  Old'
<1> USE DEF control, readers, buffers, others
<1>1. ASSUME UNCHANGED <<momRunning, carried>>,
             engine' \in {"off", "idle", "join0", "join1", "shutdown", "destroy"}
                 => engine \in {"off", "idle", "join0", "join1", "shutdown", "destroy"}
      PROVE  Old'
    <2>1. ASSUME NEW q \in Queues, q \notin momRunning
          PROVE  Held(q)' \subseteq carried[q]
        <3>1. ~ Deliver(q)
            BY <2>1 DEF Deliver
        <3> QED
            BY <2>1, <3>1, HeldShrinks DEF Old
    <2> QED
        BY <1>1, <2>1 DEF Old
<1>2. CASE Setup
    <2>1. \A q \in Queues : Held(q)' = {}
        BY <1>2 DEF Setup, Held, Elements, Reader, NoPair
    <2> QED
        BY <1>2, <2>1 DEF Setup, Old
<1>3. CASE MomStart
    BY <1>3 DEF MomStart, Old
<1>4. ASSUME NEW p \in Queues, MomStop(p) PROVE Old'
    <2>1. Held(p)' \subseteq Held(p) /\ carried'[p] = Held(p)
        BY <1>4, HeldShrinks DEF MomStop, Deliver, TypeOK, Next, EngineProceeds
    <2>2. ASSUME NEW q \in Queues, q \notin momRunning' PROVE Held(q)' \subseteq carried'[q]
        <3>1. CASE q = p
            BY <2>1, <3>1
        <3>2. CASE q # p
            <4>1. q \notin momRunning /\ carried'[q] = carried[q]
                BY <1>4, <2>2, <3>2 DEF MomStop, TypeOK
            <4>2. Held(q)' \subseteq Held(q)
                BY <4>1, HeldShrinks DEF Deliver
            <4> QED
                BY <4>1, <4>2 DEF Old
        <3> QED
            BY <3>1, <3>2
    <2> QED
        BY <1>4, <2>2 DEF MomStop, Old
<1>5. ASSUME NEW q \in Queues, QueueThread(q) \/ Frame(q) \/ Deliver(q) PROVE Old'
    BY <1>1, <1>5 DEF QueueThread, QueueRead, QueueKeep, QueueSend, QueueExit, Frame, Deliver
<1>6. CASE Handler
    BY <1>1, <1>6 DEF Handler, Start, Stop, ShutDown, PairUp, WaitForPartner, CallbackDone,
                      Discard
<1>7. CASE BufSyncCtrlStart \/ BufSyncCtrlStop \/ BufSyncCtrlDestroy
    BY <1>1, <1>7 DEF BufSyncCtrlStart, BufSyncCtrlStop, BufSyncCtrlDestroy, Sends
<1>8. CASE RegisterBufferCb \/ StopDriver \/ Release
    BY <1>1, <1>8 DEF RegisterBufferCb, StopDriver, Release
<1>9. CASE JoinFirst \/ JoinSecond \/ JoinHandler \/ UNCHANGED vars
    BY <1>1, <1>9 DEF JoinFirst, JoinSecond, JoinHandler, vars
<1> QED
    BY <1>2, <1>3, <1>4, <1>5, <1>6, <1>7, <1>8, <1>9 DEF Next, EngineProceeds, EngineAsked

\* Both cameras have a buffer of this stream parked.
BothParked == BufferCb /\ \A q \in Queues : pBuffer[q] \notin NoneOr(carried[q])

LEMMA ParkedHeld ==
    ASSUME TypeOK, NEW q \in Queues
    PROVE  pBuffer[q] \in NoneOr(Held(q))
BY DEF Held, NoneOr

LEMMA ForgottenStep ==
    ASSUME TypeOK, Ended, InOrder, Old, NoPairForgotten, [Next]_vars
    PROVE  NoPairForgotten'
<1> USE DEF control, readers, buffers, others
<1>0. 0 \in Queues
    BY DEF Queues
<1>1. /\ NoPairForgotten = (BothParked => \E q \in Queues : Pending(q))
      /\ NoPairForgotten' = (BothParked' => \E q \in Queues : Pending(q)')
    BY DEF NoPairForgotten, BothParked
<1>2. ASSUME UNCHANGED <<BufferCb, pBuffer, carried>>,
             \A q \in Queues : Pending(q) => Pending(q)'
      PROVE  NoPairForgotten'
    <2>1. BothParked' => BothParked
        BY <1>2 DEF BothParked
    <2> QED
        BY <1>1, <1>2, <2>1
<1>3. ASSUME UNCHANGED <<BufferCb, pBuffer, carried, CommandQueue>>,
             \A q \in Queues : reader[q].at = "send" => reader'[q].at = "send"
      PROVE  NoPairForgotten'
    BY <1>2, <1>3 DEF Pending
<1>4. ASSUME NEW q \in Queues, QueueRead(q) \/ QueueExit(q) PROVE NoPairForgotten'
    BY <1>3, <1>4 DEF QueueRead, QueueExit, TypeOK, Reader
<1>5. ASSUME NEW q \in Queues, QueueKeep(q) PROVE NoPairForgotten'
    <2>1. Pending(q)'
        BY <1>5 DEF QueueKeep, Pending, TypeOK, Reader
    <2> QED
        BY <1>1, <2>1
<1>6. ASSUME NEW q \in Queues, QueueSend(q) PROVE NoPairForgotten'
    <2>1. state # "invalid" /\ BufSyncCtrlSendCommand(Command("PROCESS_BUFFER", q))
        BY <1>6 DEF QueueSend, Ended, Queues
    <2>2. Pending(q)'
        BY <2>1, Send, CommandTyped DEF Pending
    <2> QED
        BY <1>1, <2>2
<1>7. CASE Start \/ Stop \/ ShutDown
    <2>1. PICK c \in {"START", "STOP", "SHUTDOWN"} : Received(c)
        BY <1>7 DEF Start, Stop, ShutDown
    <2>2. CommandQueue \in Seq(Commands) /\ CommandQueue # <<>>
          /\ CommandQueue' = Tail(CommandQueue) /\ Head(CommandQueue).cmd = c
        BY <2>1 DEF TypeOK, Received
    <2>3. ASSUME NEW q \in Queues, NEW i \in DOMAIN CommandQueue,
                 CommandQueue[i] = Command("PROCESS_BUFFER", q)
          PROVE  \E j \in DOMAIN CommandQueue' : CommandQueue'[j] = Command("PROCESS_BUFFER", q)
        <3>1. i # 1
            BY <2>2, <2>3, Taken, CommandTyped
        <3>2. i - 1 \in DOMAIN Tail(CommandQueue) /\ Tail(CommandQueue)[i - 1] = CommandQueue[i]
            BY <2>2, <3>1, Taken
        <3> QED
            BY <2>2, <2>3, <3>2
    <2>4. \A q \in Queues : Pending(q) => Pending(q)'
        BY <1>7, <2>3 DEF Pending, Start, Stop, ShutDown
    <2> QED
        BY <1>2, <1>7, <2>4 DEF Start, Stop, ShutDown
<1>8. ASSUME ~ BothParked' PROVE NoPairForgotten'
    BY <1>1, <1>8
<1>9. CASE PairUp \/ Setup
    BY <1>0, <1>8, <1>9 DEF PairUp, Setup, NoPair, BothParked, NoneOr
<1>10. CASE WaitForPartner
    BY <1>8, <1>10 DEF WaitForPartner, Complete, BothParked, NoneOr
<1>11. ASSUME NEW q \in Queues, Discard(q) PROVE NoPairForgotten'
    BY <1>8, <1>11 DEF Discard, BothParked, NoneOr, TypeOK
<1>12. CASE CallbackDone \/ UNCHANGED vars
    BY <1>3, <1>12 DEF CallbackDone, vars
<1>13. ASSUME NEW q \in Queues, Frame(q) \/ Deliver(q) PROVE NoPairForgotten'
    BY <1>3, <1>13 DEF Frame, Deliver
<1>14. CASE StopDriver \/ JoinFirst \/ JoinSecond
    BY <1>3, <1>14 DEF StopDriver, JoinFirst, JoinSecond
<1>15. CASE BufSyncCtrlStart \/ BufSyncCtrlStop \/ BufSyncCtrlDestroy
    <2>1. PICK c \in {"START", "STOP", "SHUTDOWN"} : BufSyncCtrlSendCommand(Command(c, 0))
        BY <1>15 DEF BufSyncCtrlStart, BufSyncCtrlStop, BufSyncCtrlDestroy, Sends
    <2>2. state # "invalid" /\ Command(c, 0) \in Commands
        BY <1>15, CommandTyped DEF BufSyncCtrlStart, BufSyncCtrlStop, BufSyncCtrlDestroy,
                                   Sends, Ended
    <2>3. \A i \in DOMAIN CommandQueue :
              i \in DOMAIN CommandQueue' /\ CommandQueue'[i] = CommandQueue[i]
        BY <2>1, <2>2, Send
    <2>4. UNCHANGED <<BufferCb, pBuffer, carried, reader>>
        BY <1>15 DEF BufSyncCtrlStart, BufSyncCtrlStop, BufSyncCtrlDestroy, Sends
    <2>5. \A q \in Queues : Pending(q) => Pending(q)'
        BY <2>3, <2>4 DEF Pending
    <2> QED
        BY <1>2, <2>4, <2>5
<1>16. CASE RegisterBufferCb \/ JoinHandler
    <2>1. 0 \notin momRunning /\ UNCHANGED <<pBuffer, carried>>
        BY <1>16 DEF RegisterBufferCb, JoinHandler, Old
    <2>2. pBuffer[0] \in NoneOr(carried[0])
        BY <1>0, <2>1, ParkedHeld DEF Old, NoneOr
    <2> QED
        BY <1>0, <1>8, <2>1, <2>2 DEF BothParked
<1>17. CASE MomStart
    <2>1. carried'[0] = Held(0) /\ pBuffer' = pBuffer
        BY <1>0, <1>17 DEF MomStart
    <2> QED
        BY <1>0, <1>8, <2>1, ParkedHeld DEF BothParked
<1>18. ASSUME NEW q \in Queues, MomStop(q) PROVE NoPairForgotten'
    <2>1. carried'[q] = Held(q) /\ pBuffer' = pBuffer
        BY <1>18 DEF MomStop, TypeOK
    <2> QED
        BY <1>8, <2>1, ParkedHeld DEF BothParked
<1>19. CASE Release
    BY <1>8, <1>19 DEF Release, BothParked
<1> QED
    BY <1>4, <1>5, <1>6, <1>7, <1>9, <1>10, <1>11, <1>12, <1>13, <1>14, <1>15,
       <1>16, <1>17, <1>18, <1>19
       DEF Next, QueueThread, Handler, EngineProceeds, EngineAsked

(* Two buffers of one stream never wait for each other: a command to look at   *)
(* them is always on its way.                                                 *)
THEOREM PairsAnnounced == Spec => []NoPairForgotten
<1> DEFINE IInv == TypeOK /\ PairWhole /\ InOrder /\ Ended /\ Old /\ NoPairForgotten
<1>1. Init => InOrder /\ Ended /\ Old /\ NoPairForgotten
    <2> SUFFICES ASSUME Init PROVE InOrder /\ Ended /\ Old /\ NoPairForgotten
        OBVIOUS
    <2>1. InOrder /\ Ended /\ NoPairForgotten
        BY DEF Init, InOrder, Ended, NoPairForgotten, Reader, Queues
    <2>2. \A q \in Queues : Held(q) = {}
        BY DEF Init, Held, Elements, Reader, NoPair
    <2> QED
        BY <2>1, <2>2 DEF Init, Old
<1>2. IInv /\ [Next]_vars => IInv'
    BY TypeStep, PairStep, OrderStep, EndedStep, OldStep, ForgottenStep
<1>3. Init => TypeOK /\ PairWhole
    BY TypeInit
<1> QED
    BY <1>1, <1>2, <1>3, PTL DEF Spec
-----------------------------------------------------------------------------
(* One lock travels with a buffer                                            *)

One(x, b) == IF x = b THEN 1 ELSE 0

LEMMA TimesCounts ==
    ASSUME NEW S, NEW s \in Seq(S), NEW b
    PROVE  /\ Times(s, b) \in Nat
           /\ b \notin Elements(s) => Times(s, b) = 0
BY OccursCounts DEF Times, Occurs, Elements

LEMMA TimesAppend ==
    ASSUME NEW S, NEW s \in Seq(S), NEW e \in S, NEW b
    PROVE  Times(Append(s, e), b) = Times(s, b) + One(e, b)
<1>1. Occurs(Append(s, e), b) = Occurs(s, b) + (IF e = b THEN 1 ELSE 0)
    BY OccursAppend
<1> QED
    BY <1>1 DEF Times, Occurs, One

LEMMA TimesTail ==
    ASSUME NEW S, NEW s \in Seq(S), s # <<>>, NEW b
    PROVE  Times(s, b) = Times(Tail(s), b) + One(Head(s), b)
<1>1. Occurs(s, b) = Occurs(Tail(s), b) + (IF Head(s) = b THEN 1 ELSE 0)
    BY OccursTail
<1> QED
    BY <1>1 DEF Times, Occurs, One

LEMMA TimesEmpty == ASSUME NEW b PROVE Times(<<>>, b) = 0
BY OccursEmpty DEF Times, Occurs

\* The buffers of a pool that has just been handed to the hardware
LEMMA TimesAll ==
    ASSUME NEW b \in Buffers
    PROVE  Times([i \in 1..BufNum |-> i - 1], b) = 1
<1>1. {i \in 1..BufNum : i - 1 = b} = {b + 1}
    BY PoolAssumption DEF Buffers
<1>2. {i \in DOMAIN [j \in 1..BufNum |-> j - 1] : [j \in 1..BufNum |-> j - 1][i] = b} = {b + 1}
    BY <1>1
<1> QED
    BY <1>2, FS_Singleton DEF Times
(* An unlock undoes one lock of one buffer; what the pool then hands to the   *)
(* hardware has one lock and is in one more place.                            *)
LEMMA UnlockedLocks ==
    ASSUME NEW m \in Outputs, Owned(m.pool), NEW running \in BOOLEAN, NEW b \in Buffers,
           NEW n, n = Unlocked(m, running, b)
    PROVE  /\ n.full = m.full /\ Owned(n.pool)
           /\ ~ running => n.empty = m.empty
           /\ \A c \in Buffers :
                 (c = b => m.pool.lockCount[b] # 0)
                    => n.pool.lockCount[c] + Times(m.empty, c) + One(b, c)
                           = m.pool.lockCount[c] + Times(n.empty, c)
<1> DEFINE p == BufUnlock(m.pool, b)
           g == m.pool.pOwner[b] /\ p.lockCount[b] = 0 /\ running /\ CanGet(p)
<1>0. m.pool \in Pools /\ m.empty \in Seq(Buffers)
    BY DEF Outputs
<1>1. /\ p \in Pools /\ Owned(p)
      /\ \A c \in Buffers : p.lockCount[c] \in Nat /\ m.pool.lockCount[c] \in Nat
      /\ \A c \in Buffers \ {b} : p.lockCount[c] = m.pool.lockCount[c]
      /\ m.pool.lockCount[b] # 0 => p.lockCount[b] = m.pool.lockCount[b] - 1
    <2>1. /\ p \in Pools /\ Owned(p)
          /\ \A c \in Buffers \ {b} : p.lockCount[c] = m.pool.lockCount[c]
          /\ m.pool.lockCount[b] # 0 => p.lockCount[b] = m.pool.lockCount[b] - 1
        BY <1>0, BufUnlockTyped, BufUnlockLocks
    <2>2. \A r \in Pools, c \in Buffers : r.lockCount[c] \in Nat
        BY PoolAssumption DEF Pools
    <2> HIDE DEF p
    <2>3. \A c \in Buffers : p.lockCount[c] \in Nat /\ m.pool.lockCount[c] \in Nat
        BY <1>0, <2>1, <2>2
    <2> QED
        BY <2>1, <2>3
<1>2. \A c \in Buffers : Times(m.empty, c) \in Nat
    BY <1>0, TimesCounts
<1>3. \A c \in Buffers : (c = b => m.pool.lockCount[b] # 0)
                           => p.lockCount[c] + One(b, c) = m.pool.lockCount[c]
    BY <1>1 DEF One
<1>4. n = IF g THEN Output(PoolGet(p), Append(m.empty, FirstFree(p)), m.full)
          ELSE Output(p, m.empty, m.full)
    BY DEF Unlocked
<1> HIDE DEF p
<1>5. CASE ~ g
    <2>1. n.pool = p /\ n.empty = m.empty /\ n.full = m.full
        BY <1>4, <1>5 DEF Output
    <2>2. \A c \in Buffers : One(b, c) \in Nat
        BY DEF One
    <2> QED
        BY <1>1, <1>2, <1>3, <2>1, <2>2
<1>6. CASE g
    <2> DEFINE f == FirstFree(p)
    <2>1. f \in Buffers /\ p.lockCount[f] = 0
        BY <1>1, <1>6, FirstFreeFound DEF FreeSet
    <2>2. n.pool = PoolGet(p) /\ n.empty = Append(m.empty, f) /\ n.full = m.full
        BY <1>4, <1>6 DEF Output
    <2> HIDE DEF f
    <2>3. /\ n.pool.lockCount = [p.lockCount EXCEPT ![f] = 1]
          /\ n.pool.pOwner = [p.pOwner EXCEPT ![f] = TRUE]
        BY <1>1, <2>2 DEF PoolGet, Pools, f
    <2>4. \A c \in Buffers : /\ n.pool.lockCount[c] = p.lockCount[c] + One(f, c)
                             /\ n.pool.lockCount[c] \in Nat
                             /\ c # f => n.pool.pOwner[c] = p.pOwner[c]
                             /\ n.pool.pOwner[f]
        <3>1. \A c \in Buffers : /\ n.pool.lockCount[c] = IF c = f THEN 1 ELSE p.lockCount[c]
                                 /\ c # f => n.pool.pOwner[c] = p.pOwner[c]
                                 /\ n.pool.pOwner[f]
            BY <1>1, <2>1, <2>3 DEF Pools
        <3> QED
            BY <1>1, <2>1, <3>1 DEF One
    <2>5. \A c \in Buffers : Times(n.empty, c) = Times(m.empty, c) + One(f, c)
        BY <1>0, <2>1, <2>2, TimesAppend
    <2>6. \A c \in Buffers : One(b, c) \in Nat /\ One(f, c) \in Nat
        BY DEF One
    <2>7. Owned(n.pool)
        <3> SUFFICES ASSUME NEW c \in Buffers, n.pool.lockCount[c] # 0
                     PROVE  n.pool.pOwner[c]
            BY DEF Owned
        <3>1. CASE c = f
            BY <2>4, <3>1
        <3>2. CASE c # f
            BY <1>1, <2>4, <3>2 DEF Owned, One
        <3> QED
            BY <3>1, <3>2
    <2>8. ASSUME NEW c \in Buffers, c = b => m.pool.lockCount[b] # 0
          PROVE  n.pool.lockCount[c] + Times(m.empty, c) + One(b, c)
                     = m.pool.lockCount[c] + Times(n.empty, c)
        <3>1. p.lockCount[c] + One(b, c) = m.pool.lockCount[c]
            BY <1>3, <2>8
        <3> QED
            BY <1>1, <1>2, <2>4, <2>5, <2>6, <3>1
    <2> QED
        BY <1>6, <2>2, <2>7, <2>8
<1> QED
    BY <1>5, <1>6
\* What is on its way to the module is of a stream that runs.
Streams == engine \in {"start", "starting", "streaming", "stop", "stopping"}

Drained == /\ Streams => momRunning = Queues
           /\ \A q \in Queues : q \notin momRunning => mom[q].full = <<>> /\ mom[q].empty = <<>>

LocksOwned == \A q \in Queues : Owned(mom[q].pool)

\* A thread that is not at work on a buffer has none.
EmptyHanded == /\ \A q \in Queues : reader[q].at # "keep" => reader[q].b = NoBuffer
               /\ handler.at # "callback" => handler.pair = NoPair

\* The places of a buffer outside of the output module
Hands(q, b) == Times(bufQueue[q], b) + One(reader[q].b, b) + One(pBuffer[q], b)
               + One(handler.pair[q], b)

OnceAt(q) == \A b \in Buffers \ carried[q] : mom[q].pool.lockCount[b] = Places(q, b)

LEMMA PlacesSplit ==
    \A q, b :
       /\ Places(q, b) = Times(mom[q].empty, b) + Times(mom[q].full, b) + Times(bufQueue[q], b)
                         + One(reader[q].b, b) + One(pBuffer[q], b) + One(handler.pair[q], b)
       /\ Places(q, b)' = Times(mom'[q].empty, b) + Times(mom'[q].full, b)
                          + Times(bufQueue'[q], b) + One(reader'[q].b, b)
                          + One(pBuffer'[q], b) + One(handler'.pair[q], b)
       /\ Hands(q, b)' = Times(bufQueue'[q], b) + One(reader'[q].b, b) + One(pBuffer'[q], b)
                         + One(handler'.pair[q], b)
BY DEF Places, Hands, Times, One

LEMMA PlacesTyped ==
    ASSUME TypeOK, NEW q \in Queues, NEW b \in Buffers
    PROVE  /\ mom[q] \in Outputs
           /\ Times(mom[q].empty, b) \in Nat /\ Times(mom[q].full, b) \in Nat
           /\ Times(bufQueue[q], b) \in Nat /\ Hands(q, b) \in Nat
           /\ One(reader[q].b, b) \in 0..1 /\ One(pBuffer[q], b) \in 0..1
           /\ One(handler.pair[q], b) \in 0..1
           /\ mom[q].pool.lockCount[b] \in Nat
           /\ Places(q, b) = Times(mom[q].empty, b) + Times(mom[q].full, b) + Hands(q, b)
           /\ One(NoBuffer, b) = 0
<1>1. mom[q] \in Outputs /\ bufQueue[q] \in Seq(Buffers)
    BY DEF TypeOK
<1>2. mom[q].empty \in Seq(Buffers) /\ mom[q].full \in Seq(Buffers) /\ mom[q].pool \in Pools
    BY <1>1 DEF Outputs
<1>3. /\ Times(mom[q].empty, b) \in Nat /\ Times(mom[q].full, b) \in Nat
      /\ Times(bufQueue[q], b) \in Nat
    BY <1>1, <1>2, TimesCounts
<1>4. \A x : One(x, b) \in 0..1
    BY DEF One
<1>5. mom[q].pool.lockCount[b] \in Nat
    BY <1>2, PoolAssumption DEF Pools
<1>6. One(NoBuffer, b) = 0
    BY PoolAssumption DEF One, NoBuffer, Buffers
<1>7. Hands(q, b) \in Nat
    BY <1>3, <1>4 DEF Hands
<1>8. Places(q, b) = Times(mom[q].empty, b) + Times(mom[q].full, b) + Hands(q, b)
    BY <1>3, <1>4, PlacesSplit DEF Hands
<1> QED
    BY <1>1, <1>3, <1>4, <1>5, <1>6, <1>7, <1>8

LEMMA PlacesNext ==
    ASSUME TypeOK', NEW q \in Queues, NEW b \in Buffers
    PROVE  /\ Times(mom'[q].empty, b) \in Nat /\ Times(mom'[q].full, b) \in Nat
           /\ Times(bufQueue'[q], b) \in Nat /\ Hands(q, b)' \in Nat
           /\ mom'[q].pool.lockCount[b] \in Nat
           /\ Places(q, b)' = Times(mom'[q].empty, b) + Times(mom'[q].full, b) + Hands(q, b)'
           /\ Hands(q, b)' = Times(bufQueue'[q], b) + One(reader'[q].b, b)
                             + One(pBuffer'[q], b) + One(handler'.pair[q], b)
<1>1. mom'[q] \in Outputs /\ bufQueue'[q] \in Seq(Buffers)
    BY DEF TypeOK
<1>2. mom'[q].empty \in Seq(Buffers) /\ mom'[q].full \in Seq(Buffers) /\ mom'[q].pool \in Pools
    BY <1>1 DEF Outputs
<1>3. /\ Times(mom'[q].empty, b) \in Nat /\ Times(mom'[q].full, b) \in Nat
      /\ Times(bufQueue'[q], b) \in Nat
    BY <1>1, <1>2, TimesCounts
<1>4. \A x : One(x, b) \in 0..1
    BY DEF One
<1>5. mom'[q].pool.lockCount[b] \in Nat
    BY <1>2, PoolAssumption DEF Pools
<1> QED
    BY <1>3, <1>4, <1>5, PlacesSplit

\* A buffer that one camera's threads let go of has its lock undone once.
LEMMA LetsGo ==
    ASSUME TypeOK, TypeOK', NEW q \in Queues, OnceAt(q), Owned(mom[q].pool), NEW b \in Buffers,
           mom'[q] = Unlocked(mom[q], q \in momRunning, b), carried'[q] = carried[q],
           \A c \in Buffers : Hands(q, c) = Hands(q, c)' + One(b, c)
    PROVE  /\ OnceAt(q)' /\ Owned(mom'[q].pool) /\ mom'[q].full = mom[q].full
           /\ q \notin momRunning => mom'[q].empty = mom[q].empty
<1>1. mom[q] \in Outputs /\ (q \in momRunning) \in BOOLEAN
    BY DEF TypeOK
<1>2. /\ mom'[q].full = mom[q].full /\ Owned(mom'[q].pool)
      /\ q \notin momRunning => mom'[q].empty = mom[q].empty
      /\ \A c \in Buffers :
            (c = b => mom[q].pool.lockCount[b] # 0)
               => mom'[q].pool.lockCount[c] + Times(mom[q].empty, c) + One(b, c)
                      = mom[q].pool.lockCount[c] + Times(mom'[q].empty, c)
    <2> DEFINE run == q \in momRunning
    <2>1. run \in BOOLEAN /\ mom'[q] = Unlocked(mom[q], run, b)
        OBVIOUS
    <2> HIDE DEF run
    <2>2. /\ mom'[q].full = mom[q].full /\ Owned(mom'[q].pool)
          /\ ~ run => mom'[q].empty = mom[q].empty
          /\ \A c \in Buffers :
                (c = b => mom[q].pool.lockCount[b] # 0)
                   => mom'[q].pool.lockCount[c] + Times(mom[q].empty, c) + One(b, c)
                          = mom[q].pool.lockCount[c] + Times(mom'[q].empty, c)
        BY <1>1, <2>1, UnlockedLocks
    <2> QED
        BY <2>2 DEF run
<1>3. ASSUME NEW c \in Buffers, c \notin carried[q]
      PROVE  mom'[q].pool.lockCount[c] = Places(q, c)'
    <2>1. /\ Times(mom[q].empty, c) \in Nat /\ Times(mom[q].full, c) \in Nat
          /\ Hands(q, c) \in Nat
          /\ mom[q].pool.lockCount[c]
                = Times(mom[q].empty, c) + Times(mom[q].full, c) + Hands(q, c)
        BY <1>3, PlacesTyped DEF OnceAt
    <2>2. /\ mom'[q].pool.lockCount[c] \in Nat /\ Times(mom'[q].empty, c) \in Nat
          /\ Hands(q, c)' \in Nat
          /\ Places(q, c)' = Times(mom'[q].empty, c) + Times(mom'[q].full, c) + Hands(q, c)'
        BY <1>3, PlacesNext
    <2>3. /\ One(b, c) \in 0..1
          /\ c = b => One(b, c) = 1
        BY DEF One
    <2>4. Hands(q, c) = Hands(q, c)' + One(b, c)
        OBVIOUS
    <2>5. c = b => mom[q].pool.lockCount[b] # 0
        BY <2>1, <2>2, <2>3, <2>4
    <2>6. mom'[q].pool.lockCount[c] + Times(mom[q].empty, c) + One(b, c)
              = mom[q].pool.lockCount[c] + Times(mom'[q].empty, c)
        BY <1>2, <2>5
    <2> QED
        BY <1>2, <2>1, <2>2, <2>3, <2>4, <2>6
<1>4. OnceAt(q)'
    BY <1>3 DEF OnceAt
<1> QED
    BY <1>2, <1>4
LEMMA EmptyHandedStep ==
    ASSUME TypeOK, EmptyHanded, [Next]_vars
    PROVE  EmptyHanded'
<1> USE DEF EmptyHanded, control, readers, buffers, others
<1>1. ASSUME NEW q \in Queues, QueueThread(q) PROVE EmptyHanded'
    <2>1. \A p \in Queues : /\ p # q => reader'[p] = reader[p]
                            /\ reader'[q].at # "keep" => reader'[q].b = NoBuffer
        <3>1. /\ reader \in [Queues -> [at : {"read", "keep", "send", "ended"},
                                       b  : NoneOr(Buffers)]]
              /\ reader[q] \in [at : {"read", "keep", "send", "ended"}, b  : NoneOr(Buffers)]
            BY DEF TypeOK
        <3>2. CASE QueueRead(q)
            BY <3>1, <3>2 DEF QueueRead, Reader
        <3>3. CASE QueueKeep(q)
            BY <3>1, <3>3 DEF QueueKeep, Reader
        <3>4. CASE QueueSend(q)
            BY <3>1, <3>4 DEF QueueSend
        <3>5. CASE QueueExit(q)
            BY <3>1, <3>5 DEF QueueExit
        <3> QED
            BY <1>1, <3>2, <3>3, <3>4, <3>5 DEF QueueThread
    <2>2. handler' = handler
        BY <1>1 DEF QueueThread, QueueRead, QueueKeep, QueueSend, QueueExit
    <2> QED
        BY <2>1, <2>2
<1>2. CASE Handler
    BY <1>2 DEF Handler, Start, Stop, ShutDown, PairUp, WaitForPartner, CallbackDone, Discard,
                Received, TypeOK
<1>3. CASE Setup
    BY <1>3 DEF Setup, Reader
<1>4. ASSUME UNCHANGED <<reader, handler>> PROVE EmptyHanded'
    BY <1>4
<1>5. ASSUME NEW q \in Queues, Frame(q) \/ Deliver(q) \/ MomStop(q) PROVE EmptyHanded'
    BY <1>4, <1>5 DEF Frame, Deliver, MomStop
<1>6. CASE BufSyncCtrlStart \/ BufSyncCtrlStop \/ BufSyncCtrlDestroy
    BY <1>4, <1>6 DEF BufSyncCtrlStart, BufSyncCtrlStop, BufSyncCtrlDestroy, Sends
<1>7. CASE RegisterBufferCb \/ MomStart \/ StopDriver \/ Release
    BY <1>4, <1>7 DEF RegisterBufferCb, MomStart, StopDriver, Release
<1>8. CASE JoinFirst \/ JoinSecond \/ JoinHandler \/ UNCHANGED vars
    BY <1>4, <1>8 DEF JoinFirst, JoinSecond, JoinHandler, vars
<1> QED
    BY <1>1, <1>2, <1>3, <1>5, <1>6, <1>7, <1>8 DEF Next, EngineProceeds, EngineAsked

\* What was on its way stays so when buffers only change hands.
LEMMA OnlyMoved ==
    ASSUME TypeOK, LocksOwned, LockedOnce, UNCHANGED carried,
           \A q \in Queues : mom'[q].pool = mom[q].pool,
           \A q \in Queues, b \in Buffers : Places(q, b)' = Places(q, b)
    PROVE  LocksOwned' /\ LockedOnce'
<1>1. LocksOwned'
    BY DEF LocksOwned, Owned
<1>2. ASSUME NEW q \in Queues, NEW b \in Buffers, b \notin carried'[q]
      PROVE  mom'[q].pool.lockCount[b] = Places(q, b)'
    BY <1>2 DEF LockedOnce
<1> QED
    BY <1>1, <1>2 DEF LockedOnce

\* A thread of camera q lets go of b, or of nothing.
LEMMA OneLetsGo ==
    ASSUME TypeOK, TypeOK', LocksOwned, LockedOnce, UNCHANGED carried, NEW q \in Queues,
           NEW b \in NoneOr(Buffers),
           IF b # NoBuffer THEN Unlock(q, b) ELSE UNCHANGED mom,
           \A c \in Buffers : Hands(q, c) = Hands(q, c)' + One(b, c),
           \A p \in Queues \ {q}, c \in Buffers : Hands(p, c)' = Hands(p, c)
    PROVE  /\ LocksOwned' /\ LockedOnce'
           /\ \A p \in Queues : /\ mom'[p].full = mom[p].full
                                /\ p \notin momRunning => mom'[p].empty = mom[p].empty
<1>1. ASSUME NEW p \in Queues, NEW c \in Buffers, mom'[p] = mom[p], Hands(p, c)' = Hands(p, c)
      PROVE  Places(p, c)' = Places(p, c)
    BY <1>1, PlacesTyped, PlacesNext
<1>2. CASE b = NoBuffer
    <2>1. mom' = mom
        BY <1>2
    <2>2. \A c \in Buffers : Hands(q, c)' \in Nat /\ One(b, c) = 0
        BY <1>2, PlacesTyped, PlacesNext
    <2>3. \A p \in Queues, c \in Buffers : Hands(p, c)' = Hands(p, c)
        BY <2>2
    <2>4. \A p \in Queues, c \in Buffers : Places(p, c)' = Places(p, c)
        BY <1>1, <2>1, <2>3
    <2> QED
        BY <2>1, <2>4, OnlyMoved
<1>3. CASE b # NoBuffer
    <2>1. /\ b \in Buffers /\ mom'[q] = Unlocked(mom[q], q \in momRunning, b)
          /\ \A p \in Queues \ {q} : mom'[p] = mom[p]
        BY <1>3 DEF Unlock, TypeOK, NoneOr
    <2>2. OnceAt(q) /\ Owned(mom[q].pool) /\ carried'[q] = carried[q]
        BY DEF OnceAt, LockedOnce, LocksOwned
    <2>3. /\ OnceAt(q)' /\ Owned(mom'[q].pool) /\ mom'[q].full = mom[q].full
          /\ q \notin momRunning => mom'[q].empty = mom[q].empty
        BY <2>1, <2>2, LetsGo
    <2>4. \A p \in Queues : Owned(mom'[p].pool)
        BY <2>1, <2>3 DEF LocksOwned
    <2>5. ASSUME NEW p \in Queues, NEW c \in Buffers, c \notin carried'[p]
          PROVE  mom'[p].pool.lockCount[c] = Places(p, c)'
        <3>1. CASE p = q
            BY <2>3, <2>5, <3>1 DEF OnceAt
        <3>2. CASE p # q
            BY <1>1, <2>1, <2>5, <3>2 DEF LockedOnce
        <3> QED
            BY <3>1, <3>2
    <2>6. LocksOwned' /\ LockedOnce'
        <3>1. LocksOwned'
            BY <2>4 DEF LocksOwned, Owned
        <3> QED
            BY <2>5, <3>1 DEF LockedOnce
    <2> QED
        BY <2>1, <2>3, <2>6
<1> QED
    BY <1>2, <1>3
LocksInv == Drained /\ LocksOwned /\ LockedOnce

LEMMA HandsSplit ==
    \A q, b : /\ Hands(q, b) = Times(bufQueue[q], b) + One(reader[q].b, b)
                              + One(pBuffer[q], b) + One(handler.pair[q], b)
              /\ Hands(q, b)' = Times(bufQueue'[q], b) + One(reader'[q].b, b)
                               + One(pBuffer'[q], b) + One(handler'.pair[q], b)
BY DEF Hands, Times, One

\* A step that moves no buffer
LEMMA NothingMoves ==
    ASSUME TypeOK, LocksInv, Streams' => Streams,
           UNCHANGED <<mom, momRunning, carried, bufQueue, pBuffer>>,
           \A q \in Queues : reader'[q].b = reader[q].b, handler'.pair = handler.pair
    PROVE  LocksInv'
<1>1. \A q \in Queues, b \in Buffers : Places(q, b)' = Places(q, b)
    BY PlacesSplit
<1>2. LocksOwned' /\ LockedOnce'
    BY <1>1, OnlyMoved DEF LocksInv
<1> QED
    BY <1>2 DEF LocksInv, Drained

\* Camera q's threads, if any, let go of a buffer.
LEMMA NothingRefilled ==
    ASSUME Drained, UNCHANGED momRunning, Streams' => Streams,
           \A q \in Queues : /\ mom'[q].full = mom[q].full
                             /\ q \notin momRunning => mom'[q].empty = mom[q].empty
    PROVE  Drained'
BY DEF Drained

LEMMA QueueThreadLocks ==
    ASSUME TypeOK, TypeOK', EmptyHanded, LocksInv, NEW q \in Queues, QueueThread(q)
    PROVE  LocksInv'
<1> USE DEF control, readers, buffers, others
<1>0. /\ reader \in [Queues -> [at : {"read", "keep", "send", "ended"}, b : NoneOr(Buffers)]]
      /\ reader[q] \in [at : {"read", "keep", "send", "ended"}, b : NoneOr(Buffers)]
      /\ bufQueue \in [Queues -> Seq(Buffers)] /\ pBuffer \in [Queues -> NoneOr(Buffers)]
      /\ mom \in [Queues -> Outputs]
    BY DEF TypeOK
<1>1. CASE QueueRead(q)
    <2>1. /\ bufQueue[q] \in Seq(Buffers) /\ bufQueue[q] # <<>> /\ reader[q].b = NoBuffer
          /\ bufQueue' = [bufQueue EXCEPT ![q] = Tail(bufQueue[q])]
          /\ reader' = [reader EXCEPT ![q] = Reader("keep", Head(bufQueue[q]))]
          /\ UNCHANGED <<mom, momRunning, engine, carried, pBuffer, handler>>
        BY <1>0, <1>1 DEF QueueRead, EmptyHanded
    <2>2. bufQueue'[q] = Tail(bufQueue[q]) /\ reader'[q].b = Head(bufQueue[q])
        BY <1>0, <2>1 DEF Reader
    <2>3. \A p \in Queues \ {q} : bufQueue'[p] = bufQueue[p] /\ reader'[p].b = reader[p].b
        BY <1>0, <2>1
    <2>4. ASSUME NEW b \in Buffers PROVE Places(q, b)' = Places(q, b)
        <3>1. Times(bufQueue[q], b) = Times(Tail(bufQueue[q]), b) + One(Head(bufQueue[q]), b)
            BY <2>1, TimesTail
        <3>2. /\ Times(mom[q].empty, b) \in Nat /\ Times(mom[q].full, b) \in Nat
              /\ One(pBuffer[q], b) \in 0..1 /\ One(handler.pair[q], b) \in 0..1
              /\ One(reader[q].b, b) = 0
            BY <2>1, PlacesTyped
        <3>3. Times(Tail(bufQueue[q]), b) \in Nat /\ One(Head(bufQueue[q]), b) \in 0..1
            BY <2>2, PlacesNext DEF One
        <3> QED
            BY <2>1, <2>2, <3>1, <3>2, <3>3, PlacesSplit
    <2>5. \A p \in Queues, b \in Buffers : Places(p, b)' = Places(p, b)
        <3>1. ASSUME NEW p \in Queues, NEW b \in Buffers, p # q
              PROVE  Places(p, b)' = Places(p, b)
            BY <2>1, <2>3, <3>1, PlacesSplit
        <3> QED
            BY <2>4, <3>1
    <2>6. LocksOwned' /\ LockedOnce'
        BY <2>1, <2>5, OnlyMoved DEF LocksInv
    <2> QED
        BY <2>1, <2>6 DEF LocksInv, Drained, Streams
<1>2. CASE QueueKeep(q)
    <2>1. /\ pBuffer' = [pBuffer EXCEPT ![q] = reader[q].b]
          /\ reader' = [reader EXCEPT ![q] = Reader("send", NoBuffer)]
          /\ IF pBuffer[q] # NoBuffer THEN Unlock(q, pBuffer[q]) ELSE UNCHANGED mom
          /\ UNCHANGED <<momRunning, engine, carried, bufQueue, handler>>
        BY <1>2 DEF QueueKeep
    <2>2. /\ pBuffer'[q] = reader[q].b /\ reader'[q].b = NoBuffer
          /\ \A p \in Queues \ {q} : pBuffer'[p] = pBuffer[p] /\ reader'[p].b = reader[p].b
        BY <1>0, <2>1 DEF Reader
    <2>3. ASSUME NEW c \in Buffers PROVE Hands(q, c) = Hands(q, c)' + One(pBuffer[q], c)
        <3>1. /\ Times(bufQueue[q], c) \in Nat /\ One(handler.pair[q], c) \in 0..1
              /\ One(reader[q].b, c) \in 0..1 /\ One(pBuffer[q], c) \in 0..1
              /\ One(NoBuffer, c) = 0
            BY PlacesTyped
        <3> QED
            BY <2>1, <2>2, <3>1, HandsSplit
    <2>4. \A p \in Queues \ {q}, c \in Buffers : Hands(p, c)' = Hands(p, c)
        BY <2>1, <2>2, HandsSplit
    <2>5. /\ LocksOwned' /\ LockedOnce'
          /\ \A p \in Queues : /\ mom'[p].full = mom[p].full
                               /\ p \notin momRunning => mom'[p].empty = mom[p].empty
        BY <1>0, <2>1, <2>3, <2>4, OneLetsGo DEF LocksInv
    <2>6. Drained'
        <3>1. Streams' => Streams
            BY <2>1 DEF Streams
        <3>2. Drained /\ UNCHANGED momRunning
            BY <2>1 DEF LocksInv
        <3> QED
            BY <2>5, <3>1, <3>2, NothingRefilled
    <2> QED
        BY <2>5, <2>6 DEF LocksInv
<1>3. CASE QueueSend(q) \/ QueueExit(q)
    <2>1. \A p \in Queues : reader'[p].b = reader[p].b
        <3>1. CASE QueueSend(q)
            BY <1>0, <3>1 DEF QueueSend
        <3>2. CASE QueueExit(q)
            BY <1>0, <3>2 DEF QueueExit
        <3> QED
            BY <1>3, <3>1, <3>2
    <2>2. UNCHANGED <<mom, momRunning, engine, carried, bufQueue, pBuffer, handler>>
        BY <1>3 DEF QueueSend, QueueExit
    <2> QED
        BY <2>1, <2>2, NothingMoves DEF Streams
<1> QED
    BY <1>1, <1>2, <1>3 DEF QueueThread
LEMMA HandlerLocks ==
    ASSUME TypeOK, TypeOK', PairWhole, InOrder, EmptyHanded, LocksInv, Handler
    PROVE  LocksInv'
<1> USE DEF control, readers, buffers, others
<1>0. /\ pBuffer \in [Queues -> NoneOr(Buffers)] /\ mom \in [Queues -> Outputs]
      /\ handler \in [at : {"read", "callback", "ended"}, pair : [Queues -> NoneOr(Buffers)]]
    BY DEF TypeOK
<1>1. CASE Start
    <2>1. engine = "starting"
        BY <1>1, Receive DEF Start, InOrder
    <2> QED
        BY <1>1, <2>1, NothingMoves DEF Start, Streams
<1>2. CASE Stop \/ WaitForPartner
    BY <1>2, NothingMoves DEF Stop, WaitForPartner, Streams
<1>3. CASE ShutDown
    BY <1>0, <1>3, NothingMoves DEF ShutDown, Streams
<1>4. CASE PairUp
    <2>1. /\ handler.pair = NoPair /\ handler'.pair = pBuffer /\ pBuffer' = NoPair
          /\ UNCHANGED <<mom, momRunning, engine, carried, bufQueue, reader>>
        BY <1>4 DEF PairUp, Received, EmptyHanded
    <2>2. ASSUME NEW q \in Queues, NEW b \in Buffers PROVE Places(q, b)' = Places(q, b)
        <3>1. handler.pair[q] = NoBuffer /\ pBuffer'[q] = NoBuffer /\ handler'.pair[q] = pBuffer[q]
            BY <2>1 DEF NoPair
        <3>2. /\ Times(mom[q].empty, b) \in Nat /\ Times(mom[q].full, b) \in Nat
              /\ Times(bufQueue[q], b) \in Nat
              /\ One(reader[q].b, b) \in 0..1 /\ One(pBuffer[q], b) \in 0..1
              /\ One(NoBuffer, b) = 0
            BY PlacesTyped
        <3> QED
            BY <2>1, <3>1, <3>2, PlacesSplit
    <2>3. LocksOwned' /\ LockedOnce'
        BY <2>1, <2>2, OnlyMoved DEF LocksInv
    <2> QED
        BY <2>1, <2>3, NothingRefilled DEF LocksInv, Streams
<1>5. CASE CallbackDone
    <2>1. /\ \A q \in Queues : handler.pair[q] \in Buffers
          /\ \A q \in Queues : mom'[q] = Unlocked(mom[q], q \in momRunning, handler.pair[q])
          /\ \A q \in Queues : handler'.pair[q] = NoBuffer
          /\ UNCHANGED <<momRunning, engine, carried, bufQueue, reader, pBuffer>>
        BY <1>5 DEF CallbackDone, PairWhole, NoPair
    <2>2. ASSUME NEW q \in Queues, NEW c \in Buffers
          PROVE  Hands(q, c) = Hands(q, c)' + One(handler.pair[q], c)
        <3>1. /\ Times(bufQueue[q], c) \in Nat /\ One(handler.pair[q], c) \in 0..1
              /\ One(reader[q].b, c) \in 0..1 /\ One(pBuffer[q], c) \in 0..1
              /\ One(NoBuffer, c) = 0
            BY PlacesTyped
        <3> QED
            BY <2>1, <3>1, HandsSplit
    <2>3. ASSUME NEW q \in Queues
          PROVE  /\ OnceAt(q)' /\ Owned(mom'[q].pool) /\ mom'[q].full = mom[q].full
                 /\ q \notin momRunning => mom'[q].empty = mom[q].empty
        <3>1. OnceAt(q) /\ Owned(mom[q].pool) /\ carried'[q] = carried[q]
            BY <2>1 DEF LocksInv, LockedOnce, LocksOwned, OnceAt
        <3> QED
            BY <2>1, <2>2, <3>1, LetsGo
    <2>4. LocksOwned'
        BY <2>3 DEF LocksOwned, Owned
    <2>5. LockedOnce'
        BY <2>3 DEF LockedOnce, OnceAt
    <2> QED
        BY <2>1, <2>3, <2>4, <2>5, NothingRefilled DEF LocksInv, Streams
<1>6. ASSUME NEW q \in Queues, Discard(q) PROVE LocksInv'
    <2>1. /\ pBuffer' = [pBuffer EXCEPT ![q] = NoBuffer]
          /\ IF pBuffer[q] # NoBuffer THEN Unlock(q, pBuffer[q]) ELSE UNCHANGED mom
          /\ UNCHANGED <<momRunning, engine, carried, bufQueue, reader, handler>>
        BY <1>6 DEF Discard
    <2>2. /\ pBuffer'[q] = NoBuffer
          /\ \A p \in Queues \ {q} : pBuffer'[p] = pBuffer[p]
        BY <1>0, <2>1
    <2>3. ASSUME NEW c \in Buffers PROVE Hands(q, c) = Hands(q, c)' + One(pBuffer[q], c)
        <3>1. /\ Times(bufQueue[q], c) \in Nat /\ One(handler.pair[q], c) \in 0..1
              /\ One(reader[q].b, c) \in 0..1 /\ One(pBuffer[q], c) \in 0..1
              /\ One(NoBuffer, c) = 0
            BY PlacesTyped
        <3> QED
            BY <2>1, <2>2, <3>1, HandsSplit
    <2>4. \A p \in Queues \ {q}, c \in Buffers : Hands(p, c)' = Hands(p, c)
        BY <2>1, <2>2, HandsSplit
    <2>5. /\ LocksOwned' /\ LockedOnce'
          /\ \A p \in Queues : /\ mom'[p].full = mom[p].full
                               /\ p \notin momRunning => mom'[p].empty = mom[p].empty
        BY <1>0, <2>1, <2>3, <2>4, OneLetsGo DEF LocksInv
    <2>6. Drained'
        <3>1. Streams' => Streams
            BY <2>1 DEF Streams
        <3>2. Drained /\ UNCHANGED momRunning
            BY <2>1 DEF LocksInv
        <3> QED
            BY <2>5, <3>1, <3>2, NothingRefilled
    <2> QED
        BY <2>5, <2>6 DEF LocksInv
<1> QED
    BY <1>1, <1>2, <1>3, <1>4, <1>5, <1>6 DEF Handler
LEMMA OutputLocks ==
    ASSUME TypeOK, TypeOK', LocksInv, NEW q \in Queues, Frame(q) \/ Deliver(q)
    PROVE  LocksInv'
<1> USE DEF control, readers, buffers, others
<1>0. /\ mom \in [Queues -> Outputs] /\ mom[q] \in Outputs
      /\ mom[q].empty \in Seq(Buffers) /\ mom[q].full \in Seq(Buffers)
      /\ bufQueue \in [Queues -> Seq(Buffers)] /\ bufQueue[q] \in Seq(Buffers)
    BY DEF TypeOK, Outputs
<1>1. UNCHANGED <<momRunning, engine, carried, reader, handler, pBuffer>>
    BY DEF Frame, Deliver
<1>2. /\ \A p \in Queues \ {q} : mom'[p] = mom[p] /\ bufQueue'[p] = bufQueue[p]
      /\ mom'[q].pool = mom[q].pool
    BY <1>0 DEF Frame, Deliver, Output
<1>3. ASSUME NEW b \in Buffers PROVE Places(q, b)' = Places(q, b)
    <2>1. /\ Times(mom[q].empty, b) \in Nat /\ Times(mom[q].full, b) \in Nat
          /\ Times(bufQueue[q], b) \in Nat
          /\ One(reader[q].b, b) \in 0..1 /\ One(pBuffer[q], b) \in 0..1
          /\ One(handler.pair[q], b) \in 0..1
        BY PlacesTyped
    <2>2. \A x : One(x, b) \in 0..1
        BY DEF One
    <2> DEFINE rest == One(reader[q].b, b) + One(pBuffer[q], b) + One(handler.pair[q], b)
    <2>5. /\ rest \in Nat
          /\ Places(q, b) = Times(mom[q].empty, b) + Times(mom[q].full, b)
                            + Times(bufQueue[q], b) + rest
        BY <2>1, PlacesSplit
    <2>6. /\ Times(mom'[q].empty, b) \in Nat /\ Times(mom'[q].full, b) \in Nat
          /\ Times(bufQueue'[q], b) \in Nat
        BY PlacesNext
    <2>7. Places(q, b)' = Times(mom'[q].empty, b) + Times(mom'[q].full, b)
                          + Times(bufQueue'[q], b) + rest
        <3>1. Places(q, b)' = Times(mom'[q].empty, b) + Times(mom'[q].full, b)
                 + Times(bufQueue'[q], b)
                 + One(reader[q].b, b) + One(pBuffer[q], b) + One(handler.pair[q], b)
            BY <1>1, PlacesSplit
        <3> QED
            BY <2>1, <2>6, <3>1
    <2> HIDE DEF rest
    <2>3. CASE Frame(q)
        <3>1. /\ mom[q].empty # <<>> /\ mom'[q].empty = Tail(mom[q].empty)
              /\ mom'[q].full = Append(mom[q].full, Head(mom[q].empty))
              /\ bufQueue' = bufQueue /\ Head(mom[q].empty) \in Buffers
            BY <1>0, <2>3, Taken DEF Frame, Output
        <3>2. /\ Times(mom[q].empty, b) = Times(mom'[q].empty, b) + One(Head(mom[q].empty), b)
              /\ Times(mom'[q].full, b) = Times(mom[q].full, b) + One(Head(mom[q].empty), b)
            BY <1>0, <3>1, TimesTail, TimesAppend
        <3>3. Times(mom'[q].empty, b) + Times(mom'[q].full, b)
                  = Times(mom[q].empty, b) + Times(mom[q].full, b)
            BY <2>1, <2>2, <2>6, <3>2
        <3>4. Times(bufQueue'[q], b) = Times(bufQueue[q], b)
            BY <3>1
        <3> QED
            BY <2>1, <2>5, <2>6, <2>7, <3>3, <3>4
    <2>4. CASE Deliver(q)
        <3>1. /\ mom[q].full # <<>> /\ mom'[q].full = Tail(mom[q].full)
              /\ bufQueue'[q] = Append(bufQueue[q], Head(mom[q].full))
              /\ mom'[q].empty = mom[q].empty /\ Head(mom[q].full) \in Buffers
            BY <1>0, <2>4, Taken DEF Deliver, Output
        <3>2. /\ Times(mom[q].full, b) = Times(mom'[q].full, b) + One(Head(mom[q].full), b)
              /\ Times(bufQueue'[q], b) = Times(bufQueue[q], b) + One(Head(mom[q].full), b)
              /\ Times(mom'[q].empty, b) = Times(mom[q].empty, b)
            BY <1>0, <3>1, TimesTail, TimesAppend
        <3>3. One(Head(mom[q].full), b) \in 0..1
            BY <2>2
        <3> QED
            BY <2>1, <2>5, <2>6, <2>7, <3>2, <3>3
    <2> QED
        BY <2>3, <2>4
<1>4. \A p \in Queues, b \in Buffers : Places(p, b)' = Places(p, b)
    <2>1. ASSUME NEW p \in Queues, NEW b \in Buffers, p # q PROVE Places(p, b)' = Places(p, b)
        BY <1>1, <1>2, <2>1, PlacesSplit
    <2> QED
        BY <1>3, <2>1
<1>5. \A p \in Queues : mom'[p].pool = mom[p].pool
    BY <1>2
<1>6. LocksOwned' /\ LockedOnce'
    BY <1>1, <1>4, <1>5, OnlyMoved DEF LocksInv
<1>7. q \in momRunning
    BY DEF LocksInv, Drained, Streams, Frame, Deliver
<1>8. Drained'
    BY <1>1, <1>2, <1>7 DEF LocksInv, Drained, Streams
<1> QED
    BY <1>6, <1>8 DEF LocksInv

LEMMA EngineLocks ==
    ASSUME TypeOK, TypeOK', Old, LocksInv, EngineProceeds \/ EngineAsked
    PROVE  LocksInv'
<1> USE DEF control, readers, buffers, others
<1>0. mom \in [Queues -> Outputs] /\ carried \in [Queues -> SUBSET Buffers]
    BY DEF TypeOK
<1>1. CASE BufSyncCtrlStart \/ BufSyncCtrlStop \/ BufSyncCtrlDestroy
    <2>1. UNCHANGED <<mom, momRunning, carried, bufQueue, pBuffer, reader, handler>>
        BY <1>1 DEF BufSyncCtrlStart, BufSyncCtrlStop, BufSyncCtrlDestroy, Sends
    <2>2. Streams' => Streams
        BY <1>1 DEF BufSyncCtrlStart, BufSyncCtrlStop, BufSyncCtrlDestroy, Sends, Streams
    <2> QED
        BY <2>1, <2>2, NothingMoves
<1>2. CASE RegisterBufferCb \/ StopDriver \/ Release \/ JoinFirst \/ JoinSecond \/ JoinHandler
    <2>1. UNCHANGED <<mom, momRunning, carried, bufQueue, pBuffer, handler>>
          /\ reader' = reader
        BY <1>2 DEF RegisterBufferCb, StopDriver, Release, JoinFirst, JoinSecond, JoinHandler
    <2>2. Streams' => Streams
        BY <1>2 DEF RegisterBufferCb, StopDriver, Release, JoinFirst, JoinSecond, JoinHandler,
                    Streams
    <2> QED
        BY <2>1, <2>2, NothingMoves
\* A buffer that the module does not hold is in no thread's hands.
<1>3. ASSUME NEW q \in Queues, NEW b \in Buffers, b \notin Held(q),
             UNCHANGED <<bufQueue, reader, pBuffer, handler>>
      PROVE  Hands(q, b)' = 0
    <2>1. /\ b \notin Elements(bufQueue[q]) /\ reader[q].b # b /\ pBuffer[q] # b
          /\ handler.pair[q] # b
        BY <1>3, PoolAssumption DEF Held, NoBuffer, Buffers
    <2>2. Times(bufQueue[q], b) = 0
        BY <2>1, TimesCounts DEF TypeOK
    <2>3. One(reader[q].b, b) = 0 /\ One(pBuffer[q], b) = 0 /\ One(handler.pair[q], b) = 0
        BY <2>1 DEF One
    <2> QED
        BY <1>3, <2>2, <2>3, HandsSplit
<1>4. CASE Setup
    <2>1. /\ mom' = [q \in Queues |-> IdleMom] /\ carried' = [q \in Queues |-> {}]
          /\ bufQueue' = [q \in Queues |-> <<>>] /\ pBuffer' = NoPair
          /\ reader' = [q \in Queues |-> Reader("read", NoBuffer)]
          /\ handler' = [at |-> "read", pair |-> NoPair] /\ engine' = "idle"
        BY <1>4 DEF Setup
    <2>2. ASSUME NEW q \in Queues, NEW b \in Buffers
          PROVE  mom'[q].pool.lockCount[b] = 0 /\ Places(q, b)' = 0
        <3>1. /\ mom'[q].empty = <<>> /\ mom'[q].full = <<>> /\ bufQueue'[q] = <<>>
              /\ pBuffer'[q] = NoBuffer /\ reader'[q].b = NoBuffer
              /\ handler'.pair[q] = NoBuffer /\ mom'[q].pool.lockCount[b] = 0
            BY <2>1 DEF IdleMom, Output, NewPool, NoPair, Reader
        <3>2. Times(<<>>, b) = 0 /\ One(NoBuffer, b) = 0
            BY TimesEmpty, PlacesTyped
        <3> QED
            BY <3>1, <3>2, PlacesSplit
    <2>3. LocksOwned' /\ LockedOnce'
        BY <2>2 DEF LocksOwned, Owned, LockedOnce
    <2>4. Drained'
        BY <2>1 DEF Drained, Streams, IdleMom, Output
    <2> QED
        BY <2>3, <2>4 DEF LocksInv
<1>5. CASE MomStart
    <2>1. /\ engine = "idle" /\ momRunning' = Queues
          /\ mom' = [q \in Queues |-> Output(AllTaken(mom[q].pool), [i \in 1..BufNum |-> i - 1],
                                              mom[q].full)]
          /\ carried' = [q \in Queues |-> Held(q)]
          /\ UNCHANGED <<bufQueue, reader, pBuffer, handler>>
        BY <1>5 DEF MomStart
    <2>2. \A q \in Queues : mom[q].full = <<>>
        BY <2>1 DEF Old, LocksInv, Drained
    <2>3. ASSUME NEW q \in Queues, NEW b \in Buffers
          PROVE  /\ mom'[q].pool.lockCount[b] = 1 /\ mom'[q].pool.pOwner[b]
                 /\ b \notin carried'[q] => Places(q, b)' = 1
        <3>1. /\ mom'[q].empty = [i \in 1..BufNum |-> i - 1] /\ mom'[q].full = <<>>
              /\ mom'[q].pool = AllTaken(mom[q].pool)
            BY <2>1, <2>2 DEF Output
        <3>2. mom'[q].pool.lockCount[b] = 1 /\ mom'[q].pool.pOwner[b]
            BY <1>0, <3>1 DEF AllTaken, Outputs, Pools
        <3>3. /\ Times(mom'[q].empty, b) = 1 /\ Times(mom'[q].full, b) = 0
            BY <3>1, TimesAll, TimesEmpty
        <3>4. Places(q, b)' = Times(mom'[q].empty, b) + Times(mom'[q].full, b) + Hands(q, b)'
            BY PlacesNext
        <3>5. b \notin carried'[q] => Hands(q, b)' = 0
            BY <1>3, <2>1
        <3> QED
            BY <3>2, <3>3, <3>4, <3>5
    <2>4. LocksOwned' /\ LockedOnce'
        BY <2>3 DEF LocksOwned, Owned, LockedOnce
    <2>5. Drained'
        BY <2>1 DEF Drained
    <2> QED
        BY <2>4, <2>5 DEF LocksInv
<1>6. ASSUME NEW q \in Queues, MomStop(q) PROVE LocksInv'
    <2>1. /\ engine = "stopped" /\ engine' \in {"idle", "stopped"}
          /\ momRunning' = momRunning \ {q}
          /\ mom' = [mom EXCEPT ![q] = Output(PoolReset(mom[q].pool), <<>>, <<>>)]
          /\ carried' = [carried EXCEPT ![q] = Held(q)]
          /\ UNCHANGED <<bufQueue, reader, pBuffer, handler>>
        BY <1>6 DEF MomStop
    <2>2. \A p \in Queues \ {q} : mom'[p] = mom[p] /\ carried'[p] = carried[p]
        BY <1>0, <2>1
    <2>3. /\ mom'[q].empty = <<>> /\ mom'[q].full = <<>> /\ carried'[q] = Held(q)
          /\ mom'[q].pool = PoolReset(mom[q].pool)
        BY <1>0, <2>1 DEF Output
    <2>4. ASSUME NEW p \in Queues, NEW b \in Buffers, p # q
          PROVE  Places(p, b)' = Places(p, b)
        BY <2>1, <2>2, <2>4, PlacesSplit
    <2>5. ASSUME NEW b \in Buffers
          PROVE  /\ mom'[q].pool.lockCount[b] = 0
                 /\ b \notin carried'[q] => Places(q, b)' = 0
        <3>1. mom'[q].pool.lockCount[b] = 0
            BY <2>3 DEF PoolReset, NewPool
        <3>2. Times(<<>>, b) = 0
            BY TimesEmpty
        <3>3. Places(q, b)' = Times(mom'[q].empty, b) + Times(mom'[q].full, b) + Hands(q, b)'
            BY PlacesNext
        <3>4. b \notin carried'[q] => Hands(q, b)' = 0
            BY <1>3, <2>1, <2>3
        <3> QED
            BY <2>3, <3>1, <3>2, <3>3, <3>4
    <2>6. LocksOwned'
        BY <2>2, <2>5 DEF LocksInv, LocksOwned, Owned
    <2>7. LockedOnce'
        <3> SUFFICES ASSUME NEW p \in Queues, NEW b \in Buffers, b \notin carried'[p]
                     PROVE  mom'[p].pool.lockCount[b] = Places(p, b)'
            BY DEF LockedOnce
        <3>1. CASE p = q
            BY <2>5, <3>1
        <3>2. CASE p # q
            BY <2>2, <2>4, <3>2 DEF LocksInv, LockedOnce
        <3> QED
            BY <3>1, <3>2
    <2>8. Drained'
        BY <2>1, <2>2, <2>3 DEF LocksInv, Drained, Streams
    <2> QED
        BY <2>6, <2>7, <2>8 DEF LocksInv
<1> QED
    BY <1>1, <1>2, <1>4, <1>5, <1>6 DEF EngineProceeds, EngineAsked

(* As many locks as places: no buffer of the stream is unlocked twice or kept  *)
(* locked, however many frames are dropped, paired or discarded on the way.    *)
THEOREM LocksMatchPlaces == Spec => []LockedOnce
<1> DEFINE IInv == TypeOK /\ PairWhole /\ InOrder /\ Ended /\ Old /\ EmptyHanded /\ LocksInv
<1>1. Init => InOrder /\ Ended /\ Old /\ EmptyHanded /\ LocksInv
    <2> SUFFICES ASSUME Init PROVE InOrder /\ Ended /\ Old /\ EmptyHanded /\ LocksInv
        OBVIOUS
    <2>1. InOrder /\ Ended
        BY DEF Init, InOrder, Ended, Reader, Queues
    <2>2. \A q \in Queues : Held(q) = {}
        BY DEF Init, Held, Elements, Reader, NoPair
    <2>3. Old /\ EmptyHanded
        BY <2>2 DEF Init, Old, EmptyHanded, Reader
    <2>4. ASSUME NEW q \in Queues, NEW b \in Buffers
          PROVE  mom[q].pool.lockCount[b] = 0 /\ Places(q, b) = 0
        <3>1. /\ mom[q].empty = <<>> /\ mom[q].full = <<>> /\ bufQueue[q] = <<>>
              /\ pBuffer[q] = NoBuffer /\ reader[q].b = NoBuffer
              /\ handler.pair[q] = NoBuffer /\ mom[q].pool.lockCount[b] = 0
            BY DEF Init, IdleMom, Output, NewPool, NoPair, Reader
        <3>2. Times(<<>>, b) = 0 /\ One(NoBuffer, b) = 0
            BY TimesEmpty, PoolAssumption DEF One, NoBuffer, Buffers
        <3> QED
            BY <3>1, <3>2, PlacesSplit
    <2>5. LocksOwned /\ LockedOnce
        BY <2>4 DEF LocksOwned, Owned, LockedOnce
    <2>6. Drained
        BY DEF Init, Drained, Streams, IdleMom, Output
    <2> QED
        BY <2>1, <2>3, <2>5, <2>6 DEF LocksInv
<1>2. IInv /\ [Next]_vars => IInv'
    <2> SUFFICES ASSUME IInv, [Next]_vars PROVE IInv'
        OBVIOUS
    <2>1. TypeOK' /\ PairWhole' /\ InOrder' /\ Ended' /\ Old' /\ EmptyHanded'
        BY TypeStep, PairStep, OrderStep, EndedStep, OldStep, EmptyHandedStep
    <2>2. CASE UNCHANGED vars
        <3>1. Streams' => Streams
            BY <2>2 DEF vars, Streams
        <3> QED
            BY <2>1, <2>2, <3>1, NothingMoves DEF vars, buffers, others, readers
    <2>3. CASE Next
        BY <2>1, <2>3, QueueThreadLocks, HandlerLocks, OutputLocks, EngineLocks DEF Next
    <2> QED
        BY <2>1, <2>2, <2>3
<1>3. Init => TypeOK /\ PairWhole
    BY TypeInit
<1>4. IInv => LockedOnce
    BY DEF LocksInv
<1> QED
    BY <1>1, <1>2, <1>3, <1>4, PTL DEF Spec
=============================================================================
