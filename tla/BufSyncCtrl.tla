----------------------------- MODULE BufSyncCtrl -----------------------------
(* The buffer synchronisation module, bufsync_ctrl/source: two queue threads, *)
(* each keeping the newest full buffer of one camera, and the command thread   *)
(* that hands out a buffer of each camera as a pair.  Joined with what it       *)
(* shares buffers with: the pools and queues of the two memory output modules  *)
(* (mom_ctrl.c, more coarsely than in MomCtrl.tla) and the engine thread that   *)
(* starts, stops and releases all of them (cam_engine_subctrls.c, sensor mode   *)
(* 3D).  A call of a pool is one step, as in MomCtrl.tla.  isFull, on which     *)
(* only the fill level depends, is left alone.                                 *)
EXTENDS MediaBufPool, Sequences

CONSTANTS MaxCommands,      \* depth of CommandQueue, 2 * bufNum in the engine
          MaxStarts,        \* bound on the starts of the stream after a setup
          CleanRestart      \* is the stream only started when the module holds
                            \* no buffer?  Nothing in the code sees to it.

ASSUME BufSyncCtrlAssumption == /\ MaxCommands \in Nat \ {0}
                                /\ MaxStarts \in Nat
                                /\ CleanRestart \in BOOLEAN

Queues == 0..1              \* QueueCtx[BUFSYNC_MAX_QUEUES]

VARIABLES state,            \* pBufSyncCtrlCtx->State
          CommandQueue,
          BufferCb,         \* is BufferCb.fpCallback set?
          pBuffer,          \* pBuffer[q]: QueueCtx[q].pBuffer, the parked buffer
          bExit,            \* bExit[q]: QueueCtx[q].bExit
          bufQueue,         \* bufQueue[q]: *QueueCtx[q].pBufQueue
          reader,           \* reader[q] = [at, b]: a queue thread and its pBuffer
          handler,          \* [at, pair]: the command thread, and the pair taken
          mom,              \* mom[q]: pool and buffer queues of an output module
          momRunning,       \* the output modules that run
          engine,           \* where the engine thread is
          starts,           \* how often the stream was started since the setup
          carried           \* history: buffers held since before their pool was reset

control == <<state, CommandQueue, BufferCb>>
readers == <<bExit, reader>>
buffers == <<pBuffer, bufQueue, mom>>
others  == <<momRunning, starts, carried>>
vars == <<control, readers, handler, engine, buffers, others>>

Commands == [cmd : {"START", "STOP", "SHUTDOWN", "PROCESS_BUFFER"}, id : Queues]
Command(c, q) == [cmd |-> c, id |-> q]

Reader(place, b) == [at |-> place, b |-> b]
NoPair == [q \in Queues |-> NoBuffer]
Elements(s) == {s[i] : i \in DOMAIN s}

\* An output module: its pool, the buffers at or on their way to the hardware
\* (EmptyBufQueue), and FullBufQueue; and how it is before its first start.
Outputs == [pool : Pools, empty : Seq(Buffers), full : Seq(Buffers)]
Output(p, e, f) == [pool |-> p, empty |-> e, full |-> f]
IdleMom == Output(NewPool, <<>>, <<>>)

Init == /\ state = "invalid"
        /\ CommandQueue = <<>>
        /\ BufferCb = FALSE
        /\ pBuffer = NoPair
        /\ bExit = [q \in Queues |-> FALSE]
        /\ bufQueue = [q \in Queues |-> <<>>]
        /\ reader = [q \in Queues |-> Reader("ended", NoBuffer)]
        /\ handler = [at |-> "ended", pair |-> NoPair]
        /\ mom = [q \in Queues |-> IdleMom]
        /\ momRunning = {}
        /\ engine = "off"
        /\ starts = 0
        /\ carried = [q \in Queues |-> {}]

\* Mutant: the queue takes more than its depth.
SendsUnbounded(c) == IF state = "invalid" THEN UNCHANGED CommandQueue
                     ELSE CommandQueue' = Append(CommandQueue, c)

\* BufSyncCtrlSendCommand; osQueueWrite waits while the queue is full.
BufSyncCtrlSendCommand(c) ==
    IF state = "invalid" THEN UNCHANGED CommandQueue
    ELSE /\ Len(CommandQueue) < MaxCommands
         /\ CommandQueue' = Append(CommandQueue, c)

\* MediaBufUnlockBuffer on buffer b of an output module m.  The last unlock
\* frees b, and while the module runs the pool's callback then takes a buffer
\* for the hardware.
Unlocked(m, running, b) ==
    LET p == BufUnlock(m.pool, b)
    IN  IF m.pool.pOwner[b] /\ p.lockCount[b] = 0 /\ running /\ CanGet(p)
        THEN Output(PoolGet(p), Append(m.empty, FirstFree(p)), m.full)
        ELSE Output(p, m.empty, m.full)

Unlock(q, b) == mom' = [mom EXCEPT ![q] = Unlocked(@, q \in momRunning, b)]

\* The buffers of camera q that the module holds
Held(q) == Elements(bufQueue[q])
           \union ({reader[q].b, pBuffer[q], handler.pair[q]} \ {NoBuffer})
-----------------------------------------------------------------------------
(* The queue threads, BufSyncQueueThreadHandler                               *)

QueueRead(q) == /\ reader[q].at = "read" /\ bufQueue[q] # <<>>
                /\ reader' = [reader EXCEPT ![q] = Reader("keep", Head(bufQueue[q]))]
                /\ bufQueue' = [bufQueue EXCEPT ![q] = Tail(@)]
                /\ UNCHANGED <<control, bExit, handler, engine, pBuffer, mom, others>>

\* Mutant: the buffer that is replaced stays locked.
ForgetsOld(q) == /\ reader[q].at = "keep"
                 /\ pBuffer' = [pBuffer EXCEPT ![q] = reader[q].b]
                 /\ reader' = [reader EXCEPT ![q] = Reader("send", NoBuffer)]
                 /\ UNCHANGED <<control, bExit, handler, engine, bufQueue, mom, others>>

\* Under the queue's BufferLock the new buffer takes the place of the old.
QueueKeep(q) == /\ reader[q].at = "keep"
                /\ IF pBuffer[q] # NoBuffer THEN Unlock(q, pBuffer[q]) ELSE UNCHANGED mom
                /\ pBuffer' = [pBuffer EXCEPT ![q] = reader[q].b]
                /\ reader' = [reader EXCEPT ![q] = Reader("send", NoBuffer)]
                /\ UNCHANGED <<control, bExit, handler, engine, bufQueue, others>>

\* bExit = pBuffer->last is FALSE then: no source of the repository sets it.
QueueSend(q) == /\ reader[q].at = "send"
                /\ BufSyncCtrlSendCommand(Command("PROCESS_BUFFER", q))
                /\ reader' = [reader EXCEPT ![q].at = "read"]
                /\ UNCHANGED <<state, BufferCb, bExit, handler, engine, buffers, others>>

\* osQueueTimedRead times out, and only then the thread looks at bExit.
QueueExit(q) == /\ reader[q].at = "read" /\ bufQueue[q] = <<>> /\ bExit[q]
                /\ reader' = [reader EXCEPT ![q].at = "ended"]
                /\ UNCHANGED <<control, bExit, handler, engine, buffers, others>>
-----------------------------------------------------------------------------
(* The command thread, BufSyncCtrlThreadHandler.  The engine waits for each    *)
(* START and STOP, so that no command meets a state that does not allow it,    *)
(* and nothing is delivered before START: PROCESS_BUFFER never meets the state *)
(* initialize.                                                                 *)

Received(c) == /\ handler.at = "read"
               /\ CommandQueue # <<>> /\ Head(CommandQueue).cmd = c
               /\ CommandQueue' = Tail(CommandQueue)

Start == /\ Received("START") /\ state \in {"initialize", "stopped"}
         /\ state' = "running"
         /\ engine' = "streaming"
         /\ UNCHANGED <<BufferCb, readers, handler, buffers, others>>

Stop == /\ Received("STOP") /\ state = "running"
        /\ state' = "stopped"
        /\ engine' = "stopped"
        /\ UNCHANGED <<BufferCb, readers, handler, buffers, others>>

ShutDown == /\ Received("SHUTDOWN") /\ state \in {"initialize", "stopped"}
            /\ state' = "invalid"
            /\ handler' = [handler EXCEPT !.at = "ended"]
            /\ UNCHANGED <<BufferCb, readers, engine, buffers, others>>

\* Mutant: only a buffer of the first camera makes a pair.
CompleteByFirst == /\ BufferCb /\ \A q \in Queues : pBuffer[q] # NoBuffer
                   /\ Head(CommandQueue).id = 0

\* PROCESS_BUFFER while running: a pair when both cameras have one.
Complete == BufferCb /\ \A q \in Queues : pBuffer[q] # NoBuffer

PairUp == /\ Received("PROCESS_BUFFER") /\ state = "running" /\ Complete
          /\ handler' = [at |-> "callback", pair |-> pBuffer]
          /\ pBuffer' = NoPair
          /\ UNCHANGED <<state, BufferCb, readers, engine, bufQueue, mom, others>>

\* Mutant: the command is put back until there is a partner.
TriesAgain == /\ handler.at = "read" /\ CommandQueue # <<>>
              /\ Head(CommandQueue).cmd = "PROCESS_BUFFER" /\ state = "running" /\ ~ Complete
              /\ CommandQueue' = Append(Tail(CommandQueue), Head(CommandQueue))
              /\ UNCHANGED <<state, BufferCb, readers, handler, engine, buffers, others>>

WaitForPartner == /\ Received("PROCESS_BUFFER") /\ state = "running" /\ ~ Complete
                  /\ UNCHANGED <<state, BufferCb, readers, handler, engine, buffers, others>>

\* The callback has returned, having locked what it keeps: both are unlocked.
CallbackDone == /\ handler.at = "callback"
                /\ mom' = [q \in Queues |->
                              Unlocked(mom[q], q \in momRunning, handler.pair[q])]
                /\ handler' = [at |-> "read", pair |-> NoPair]
                /\ UNCHANGED <<control, readers, engine, pBuffer, bufQueue, others>>

\* PROCESS_BUFFER once stopped: what the camera has parked goes back.
Discard(q) == /\ Received("PROCESS_BUFFER") /\ state = "stopped"
              /\ Head(CommandQueue).id = q
              /\ IF pBuffer[q] # NoBuffer THEN Unlock(q, pBuffer[q]) ELSE UNCHANGED mom
              /\ pBuffer' = [pBuffer EXCEPT ![q] = NoBuffer]
              /\ UNCHANGED <<state, BufferCb, readers, handler, engine, bufQueue, others>>
-----------------------------------------------------------------------------
(* The output modules: a frame is complete, the module's thread passes it on.  *)

Frame(q) == /\ engine = "streaming" /\ mom[q].empty # <<>>
            /\ mom' = [mom EXCEPT ![q] =
                           Output(@.pool, Tail(@.empty), Append(@.full, Head(@.empty)))]
            /\ UNCHANGED <<control, readers, handler, engine, pBuffer, bufQueue, others>>

Deliver(q) == /\ q \in momRunning /\ mom[q].full # <<>>
              /\ bufQueue' = [bufQueue EXCEPT ![q] = Append(@, Head(mom[q].full))]
              /\ mom' = [mom EXCEPT ![q] = Output(@.pool, @.empty, Tail(@.full))]
              /\ UNCHANGED <<control, readers, handler, engine, pBuffer, others>>
-----------------------------------------------------------------------------
(* The engine thread                                                          *)

\* CamEngineBufSyncCtrlSetup: BufSyncCtrlInit, BufSyncCtrlCreate, the threads;
\* new pools and queues.
Setup == /\ engine = "off"
         /\ engine' = "idle"
         /\ state' = "initialize" /\ CommandQueue' = <<>> /\ BufferCb' = TRUE
         /\ bExit' = [q \in Queues |-> FALSE]
         /\ reader' = [q \in Queues |-> Reader("read", NoBuffer)]
         /\ handler' = [at |-> "read", pair |-> NoPair]
         /\ pBuffer' = NoPair
         /\ bufQueue' = [q \in Queues |-> <<>>]
         /\ mom' = [q \in Queues |-> IdleMom]
         /\ carried' = [q \in Queues |-> {}]
         /\ starts' = 0
         /\ UNCHANGED momRunning

\* CamEngineSubCtrlsRegisterBufferCb, CamEngineSubCtrlsDeRegisterBufferCb
RegisterBufferCb == /\ engine = "idle"
                    /\ BufferCb' = ~ BufferCb
                    /\ UNCHANGED <<state, CommandQueue, readers, handler, engine,
                                   buffers, others>>

\* CamEngineSubCtrlsStart starts the output modules first.  Each takes all the
\* buffers of its pool, which is as new, in the order of their index.
AllTaken(p) == [p EXCEPT !.lockCount  = [b \in Buffers |-> 1],
                         !.pOwner     = [b \in Buffers |-> TRUE],
                         !.freeBufNum = 0]

MomStart == /\ engine = "idle" /\ starts < MaxStarts
            /\ CleanRestart => \A q \in Queues : Held(q) = {}
            /\ starts' = starts + 1
            /\ engine' = "start"
            /\ momRunning' = Queues
            /\ mom' = [q \in Queues |-> Output(AllTaken(mom[q].pool),
                                               [i \in 1..BufNum |-> i - 1], mom[q].full)]
            /\ carried' = [q \in Queues |-> Held(q)]
            /\ UNCHANGED <<control, readers, handler, pBuffer, bufQueue>>

\* The engine sends a command and goes on to wait for its effect.
Sends(from, c, to) == /\ engine = from
                      /\ BufSyncCtrlSendCommand(Command(c, 0))
                      /\ engine' = to
                      /\ UNCHANGED <<state, BufferCb, readers, handler, buffers, others>>

BufSyncCtrlStart == Sends("start", "START", "starting")

\* The driver is stopped before the modules are.
StopDriver == /\ engine = "streaming"
              /\ engine' = "stop"
              /\ UNCHANGED <<control, readers, handler, buffers, others>>

BufSyncCtrlStop == Sends("stop", "STOP", "stopping")

\* MOM_CTRL_CMD_STOP of one camera after the other: queues flushed, pool reset.
MomStop(q) ==
    /\ engine = "stopped" /\ q \in momRunning /\ \A p \in momRunning : q <= p
    /\ momRunning' = momRunning \ {q}
    /\ mom' = [mom EXCEPT ![q] = Output(PoolReset(@.pool), <<>>, <<>>)]
    /\ carried' = [carried EXCEPT ![q] = Held(q)]
    /\ engine' = IF momRunning' = {} THEN "idle" ELSE engine
    /\ UNCHANGED <<control, readers, handler, pBuffer, bufQueue, starts>>

\* CamEngineSubCtrlsRelease: the callback goes, then BufSyncCtrlShutDown and in
\* BufSyncCtrlDestroy DestroyQueueThreads, which joins one thread at a time.
Release == /\ engine = "idle"
           /\ BufferCb' = FALSE
           /\ bExit' = [bExit EXCEPT ![0] = TRUE]
           /\ engine' = "join0"
           /\ UNCHANGED <<state, CommandQueue, reader, handler, buffers, others>>

\* Mutant: no thread is waited for.
JoinsNone == /\ engine = "join0"
             /\ bExit' = [q \in Queues |-> TRUE]
             /\ engine' = "shutdown"
             /\ UNCHANGED <<control, reader, handler, buffers, others>>

\* A thread that has ended has left nothing in its queue to cancel.
JoinFirst == /\ engine = "join0" /\ reader[0].at = "ended"
             /\ bExit' = [bExit EXCEPT ![1] = TRUE]
             /\ engine' = "join1"
             /\ UNCHANGED <<control, reader, handler, buffers, others>>

JoinSecond == /\ engine = "join1" /\ reader[1].at = "ended"
              /\ engine' = "shutdown"
              /\ UNCHANGED <<control, readers, handler, buffers, others>>

BufSyncCtrlDestroy == Sends("shutdown", "SHUTDOWN", "destroy")

\* Joins the command thread; commands that are left are cancelled.
JoinHandler == /\ engine = "destroy" /\ handler.at = "ended"
               /\ CommandQueue' = <<>>
               /\ engine' = "off"
               /\ UNCHANGED <<state, BufferCb, readers, handler, buffers, others>>
-----------------------------------------------------------------------------
QueueThread(q) == QueueRead(q) \/ QueueKeep(q) \/ QueueSend(q) \/ QueueExit(q)

Handler == \/ Start \/ Stop \/ ShutDown
           \/ PairUp \/ WaitForPartner \/ CallbackDone
           \/ \E q \in Queues : Discard(q)

\* What the engine does without being asked to
EngineProceeds == \/ BufSyncCtrlStart \/ BufSyncCtrlStop
                  \/ \E q \in Queues : MomStop(q)
                  \/ JoinFirst \/ JoinSecond \/ BufSyncCtrlDestroy \/ JoinHandler

EngineAsked == \/ Setup \/ RegisterBufferCb \/ MomStart \/ StopDriver \/ Release

Next == \/ \E q \in Queues : QueueThread(q) \/ Frame(q) \/ Deliver(q)
        \/ Handler
        \/ EngineProceeds
        \/ EngineAsked

Spec == Init /\ [][Next]_vars

\* Threads run; nobody has to stream, and frames need not come.
Fairness == /\ \A q \in Queues : WF_vars(QueueThread(q)) /\ WF_vars(Deliver(q))
            /\ WF_vars(Handler)
            /\ WF_vars(EngineProceeds)

FairSpec == Spec /\ Fairness
-----------------------------------------------------------------------------
NoneOr(S) == S \union {NoBuffer}

TypeOK == /\ state \in {"invalid", "initialize", "running", "stopped"}
          /\ CommandQueue \in Seq(Commands) /\ Len(CommandQueue) <= MaxCommands
          /\ BufferCb \in BOOLEAN
          /\ pBuffer \in [Queues -> NoneOr(Buffers)]
          /\ bExit \in [Queues -> BOOLEAN]
          /\ bufQueue \in [Queues -> Seq(Buffers)]
          /\ reader \in [Queues -> [at : {"read", "keep", "send", "ended"},
                                    b  : NoneOr(Buffers)]]
          /\ handler \in [at : {"read", "callback", "ended"},
                          pair : [Queues -> NoneOr(Buffers)]]
          /\ mom \in [Queues -> Outputs]
          /\ momRunning \in SUBSET Queues
          /\ engine \in {"off", "idle", "start", "starting", "streaming", "stop",
                         "stopping", "stopped", "join0", "join1", "shutdown", "destroy"}
          /\ starts \in 0..MaxStarts
          /\ carried \in [Queues -> SUBSET Buffers]

\* In how many places is buffer b of camera q?
Times(s, b) == Cardinality({i \in DOMAIN s : s[i] = b})
Places(q, b) == Times(mom[q].empty, b) + Times(mom[q].full, b) + Times(bufQueue[q], b)
                + (IF reader[q].b = b THEN 1 ELSE 0)
                + (IF pBuffer[q] = b THEN 1 ELSE 0)
                + (IF handler.pair[q] = b THEN 1 ELSE 0)

(* One lock travels with a buffer from the pool through the hardware, the      *)
(* queue, the parking place and the pair back to the pool: each thread that     *)
(* passes it on or replaces it undoes the lock once (bufsync_ctrl.c:85-91,      *)
(* 301-330, 382-389).  Except for a buffer carried over a stop of the stream.   *)
LockedOnce == \A q \in Queues : \A b \in Buffers \ carried[q] :
                  mom[q].pool.lockCount[b] = Places(q, b)

Pending(q) == \/ reader[q].at = "send"
              \/ \E i \in DOMAIN CommandQueue :
                     CommandQueue[i] = Command("PROCESS_BUFFER", q)

(* Two buffers of this stream never wait for each other: while both are parked *)
(* a command that will look at them is on its way (bufsync_ctrl.c:85-96).       *)
NoPairForgotten ==
    BufferCb /\ (\A q \in Queues : pBuffer[q] \notin NoneOr(carried[q]))
        => \E q \in Queues : Pending(q)

(* The command thread leaves an empty queue behind.  BufSyncCtrlDestroy would   *)
(* read what is left into a variable smaller than a command                     *)
(* (bufsync_ctrl.c:537-543) and complete it to the engine.                      *)
NothingToCancel == handler.at = "ended" => CommandQueue = <<>>

(* "Buffer will not be available as empty buffer until unlocked as many times   *)
(* as locked before" (media_buffer.h:247): the hardware fills no buffer that    *)
(* is parked.                                                                  *)
ParkedNotRefilled == \A q \in Queues : pBuffer[q] \notin Elements(mom[q].empty)

(* The engine gets past its waits: for the answers to START and STOP, which it  *)
(* waits for without a timeout, and for three threads to end.                   *)
CallsReturn ==
    /\ engine = "start" ~> engine = "streaming"
    /\ engine = "stop" ~> engine = "idle"
    /\ engine = "join0" ~> engine = "off"
=============================================================================
