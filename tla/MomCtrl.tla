------------------------------- MODULE MomCtrl -------------------------------
(* The memory output module: the thread and the callbacks of                  *)
(* mom_ctrl/source, with what they join: the buffer pool, the interrupt       *)
(* thread of the memory interface (cameric_mi.c), the engine thread that      *)
(* starts and stops both (cam_engine.c, cam_engine_subctrls.c) and clients    *)
(* that get the full buffers.  One output path, the main path: the self path  *)
(* runs the same code on queues and a pool of its own.                        *)
(* A call of the pool is taken as one step here, which the code does not see  *)
(* to: MediaBufPoolThreads.tla shows what frees that overlap do to the pool,  *)
(* and what holds when they do not.                                           *)
EXTENDS CamerIcMi, Sequences, SequencesExt

CONSTANTS MaxCommands,      \* depth of CommandQueue
          MaxLocks,         \* most locks a client takes in the buffer callback
          PromptCallbacks   \* does a pool callback under way end within the
                            \* 10 ms for which STOP waits for more buffers?

ASSUME MomCtrlAssumption == /\ MaxCommands \in Nat \ {0}
                            /\ MaxLocks \in Nat
                            /\ PromptCallbacks \in BOOLEAN

VARIABLES State,            \* pMomCtrlCtx->State
          CommandQueue, EmptyBufQueue, FullBufQueue,
          PathQueue,        \* is a client's queue attached to the path?
          pool,             \* pPicBufPoolMainPath
          mi,               \* PathCtx[CAMERIC_MI_PATH_MAIN]
          thread,           \* [at, b]: MomCtrlThreadHandler, and its pBuffer
          irq,              \* where the interrupt thread is
          engine,           \* where the engine thread is
          events,           \* MomEventCmdStart, MomEventCmdStop when signalled
          out,              \* the client's queue
          held,             \* held[b]: locks on b that clients have to undo
          back              \* the buffer a client's unlock is putting back

queues   == <<CommandQueue, EmptyBufQueue, FullBufQueue>>
clients  == <<out, held, back>>
vars == <<State, queues, PathQueue, pool, mi, thread, irq, engine, events, clients>>

Running == State = "running"

Idle == [at |-> "idle", b |-> NoBuffer]
At(place, b) == [at |-> place, b |-> b]

Init == /\ State = "initialize"
        /\ CommandQueue = <<>> /\ EmptyBufQueue = <<>> /\ FullBufQueue = <<>>
        /\ PathQueue \in BOOLEAN
        /\ pool = NewPool
        /\ mi = NoBuffers
        /\ thread = Idle
        /\ irq = "idle"
        /\ engine = "off"
        /\ events = {}
        /\ out = <<>>
        /\ held = [b \in Buffers |-> 0]
        /\ back = NoBuffer

\* MomCtrlSendCommand; osQueueWrite waits while the queue is full.
MomCtrlSendCommand(c) ==
    IF State = "invalid" THEN UNCHANGED CommandQueue
    ELSE /\ Len(CommandQueue) < MaxCommands
         /\ CommandQueue' = Append(CommandQueue, c)

\* MomCtrlPictureBufferPoolNotifyCb on a pool p that a buffer was freed in:
\* the buffer it takes from the pool, and the pool after.
Refills(p) == Running /\ CanGet(p)
Refilled(p) == IF Refills(p) THEN PoolGet(p) ELSE p
PutBack(p) == IF Refills(p) THEN FirstFree(p) ELSE NoBuffer

\* osQueueWrite to EmptyBufQueue waits for a place.
AddEmpty(q, b) == IF b = NoBuffer THEN EmptyBufQueue' = q
                  ELSE Len(q) < BufNum /\ EmptyBufQueue' = Append(q, b)

\* MediaBufPoolFreeBuffer with its callback, EmptyBufQueue being q by then
FreeBuffer(b, q) == /\ pool' = Refilled(PoolFree(pool, b))
                    /\ AddEmpty(q, PutBack(PoolFree(pool, b)))

\* Does this unlock free the buffer?
LastLock(b) == pool.pOwner[b] /\ pool.lockCount[b] = 1
-----------------------------------------------------------------------------
(* MomCtrlThreadHandler.  A command that the state does not allow is completed *)
(* with RET_WRONG_STATE, and CamEngineMomCtrlCb signals its event all the same. *)

Command(c) == /\ thread.at = "idle" /\ State # "invalid"
              /\ CommandQueue # <<>> /\ Head(CommandQueue) = c
              /\ CommandQueue' = Tail(CommandQueue)

Shutdown == /\ Command("shutdown")
            /\ State' = IF State \in {"initialize", "stopped"} THEN "invalid" ELSE State
            /\ UNCHANGED <<EmptyBufQueue, FullBufQueue, PathQueue, pool, mi, thread,
                           irq, engine, events, clients>>

Start == /\ Command("start")
         /\ IF State \in {"initialize", "stopped"}
            THEN thread' = At("fetch", NoBuffer) /\ UNCHANGED events
            ELSE events' = events \union {"start"} /\ UNCHANGED thread
         /\ UNCHANGED <<State, EmptyBufQueue, FullBufQueue, PathQueue, pool, mi,
                        irq, engine, clients>>

\* The loop of START over the buffers, one each time, and its end.
\* NumBuffersMainPath is the number of buffers of the pool.
Fetch == /\ thread.at = "fetch" /\ CanGet(pool)
         /\ pool' = PoolGet(pool)
         /\ AddEmpty(EmptyBufQueue, FirstFree(pool))
         /\ UNCHANGED <<State, CommandQueue, FullBufQueue, PathQueue, mi, thread,
                        irq, engine, events, clients>>

\* Mutant: START does not wait for its loop.
FetchedEarly == /\ thread.at = "fetch"
                /\ State' = "running"
                /\ thread' = Idle
                /\ events' = events \union {"start"}
                /\ UNCHANGED <<queues, PathQueue, pool, mi, irq, engine, clients>>

Fetched == /\ thread.at = "fetch" /\ ~ CanGet(pool)
           /\ State' = "running"
           /\ thread' = Idle
           /\ events' = events \union {"start"}
           /\ UNCHANGED <<queues, PathQueue, pool, mi, irq, engine, clients>>

\* MOM_CTRL_CMD_PROC_FULL_BUFFER_MAINPATH takes a buffer and decides where to.
ProcFullBuffer ==
    /\ Command("full")
    /\ IF ~ Running \/ FullBufQueue = <<>> THEN UNCHANGED <<FullBufQueue, pool, thread>>
       ELSE LET b == Head(FullBufQueue)
            IN  /\ FullBufQueue' = Tail(FullBufQueue)
                /\ pool' = [pool EXCEPT !.isFull[b] = TRUE]
                /\ thread' = At(IF PathQueue THEN "queue" ELSE "callback", b)
    /\ UNCHANGED <<State, EmptyBufQueue, PathQueue, mi, irq, engine, events, clients>>

\* ListForEach writes it to the queues attached by now.
Queue == /\ thread.at = "queue"
         /\ out' = IF PathQueue THEN Append(out, thread.b) ELSE out
         /\ thread' = Idle
         /\ UNCHANGED <<State, queues, PathQueue, pool, mi, irq, engine, events, held, back>>

\* The client locks the buffer as often as it has uses for it.
Callback == /\ thread.at = "callback"
            /\ \E n \in 0..MaxLocks :
                  /\ pool' = [pool EXCEPT !.lockCount[thread.b] = (@ + n) % CounterMod]
                  /\ held' = [held EXCEPT ![thread.b] = @ + n]
            /\ thread' = At("unlock", thread.b)
            /\ UNCHANGED <<State, queues, PathQueue, mi, irq, engine, events, out, back>>

\* Mutant: the buffer is freed whoever has a lock on it.
UnlockFrees ==
    /\ thread.at = "unlock"
    /\ FreeBuffer(thread.b, EmptyBufQueue)
    /\ thread' = Idle
    /\ UNCHANGED <<State, CommandQueue, FullBufQueue, PathQueue, mi, irq, engine,
                   events, clients>>

\* MediaBufUnlockBuffer by the thread
Unlock == /\ thread.at = "unlock"
          /\ IF LastLock(thread.b) THEN FreeBuffer(thread.b, EmptyBufQueue)
             ELSE pool' = BufUnlock(pool, thread.b) /\ UNCHANGED EmptyBufQueue
          /\ thread' = Idle
          /\ UNCHANGED <<State, CommandQueue, FullBufQueue, PathQueue, mi, irq, engine,
                         events, clients>>

\* Mutant: STOP drains while the state is running.
StopRunning == /\ Command("stop")
               /\ thread' = At("drain", NoBuffer)
               /\ UNCHANGED <<State, EmptyBufQueue, FullBufQueue, PathQueue, pool, mi,
                              irq, engine, events, clients>>

Stop == /\ Command("stop")
        /\ IF Running
           THEN /\ State' = "stopped"
                /\ thread' = At("drain", NoBuffer)
                /\ UNCHANGED events
           ELSE events' = events \union {"stop"} /\ UNCHANGED <<State, thread>>
        /\ UNCHANGED <<EmptyBufQueue, FullBufQueue, PathQueue, pool, mi,
                       irq, engine, clients>>

\* The loops of STOP: first the full buffers, then the empty ones.
Drain == /\ thread.at = "drain"
         /\ IF FullBufQueue # <<>>
            THEN /\ FreeBuffer(Head(FullBufQueue), EmptyBufQueue)
                 /\ FullBufQueue' = Tail(FullBufQueue)
            ELSE /\ EmptyBufQueue # <<>>
                 /\ FreeBuffer(Head(EmptyBufQueue), Tail(EmptyBufQueue))
                 /\ UNCHANGED FullBufQueue
         /\ UNCHANGED <<State, CommandQueue, PathQueue, mi, thread, irq, engine,
                        events, clients>>

\* Both osQueueTimedRead timed out: MediaBufPoolReset, command completed.
Drained == /\ thread.at = "drain"
           /\ FullBufQueue = <<>> /\ EmptyBufQueue = <<>>
           /\ PromptCallbacks => back = NoBuffer
           /\ pool' = PoolReset(pool)
           /\ thread' = Idle
           /\ events' = events \union {"stop"}
           /\ UNCHANGED <<State, queues, PathQueue, mi, irq, engine, clients>>

ThreadStep == \/ Shutdown \/ Start \/ Fetch \/ Fetched
              \/ ProcFullBuffer \/ Queue \/ Callback \/ Unlock
              \/ Stop \/ Drain \/ Drained

-----------------------------------------------------------------------------
(* CamerIcMiIrq with MomCtrlCamerIcDrvEventCb and MomCtrlCamerIcDrvRequestCb. *)
(* A frame that ends while the interrupt is connected:                        *)

\* is skipped, or was not written (the marker RKBUFFLAG is still there),
FrameSkipped == /\ irq = "idle" /\ engine = "streaming"
                /\ mi' = Reuse(mi)
                /\ UNCHANGED <<State, queues, PathQueue, pool, thread, irq, engine,
                               events, clients>>

\* Mutant: the only buffer left is delivered too.
FrameFullAlways == /\ irq = "idle" /\ engine = "streaming"
                   /\ FullBufQueue' = Append(FullBufQueue, mi.pShdBuffer)
                   /\ irq' = "send"
                   /\ UNCHANGED <<State, CommandQueue, EmptyBufQueue, PathQueue, pool, mi,
                                  thread, engine, events, clients>>

\* is full: the event puts it into FullBufQueue,
FrameFull == /\ irq = "idle" /\ engine = "streaming" /\ HasFull(mi)
             /\ IF Running
                THEN /\ Len(FullBufQueue) < BufNum
                     /\ FullBufQueue' = Append(FullBufQueue, mi.pShdBuffer)
                     /\ irq' = "send"
                ELSE irq' = "request" /\ UNCHANGED FullBufQueue
             /\ UNCHANGED <<State, CommandQueue, EmptyBufQueue, PathQueue, pool, mi,
                            thread, engine, events, clients>>

\* or is dropped.
FrameDropped == /\ irq = "idle" /\ engine = "streaming" /\ ~ HasFull(mi)
                /\ irq' = "request"
                /\ UNCHANGED <<State, queues, PathQueue, pool, mi, thread, engine,
                               events, clients>>

\* Mutant: one command at a time is thought to be enough.
SendOnce == /\ irq = "send"
            /\ IF "full" \in ToSet(CommandQueue) THEN UNCHANGED CommandQueue
               ELSE MomCtrlSendCommand("full")
            /\ irq' = "request"
            /\ UNCHANGED <<State, EmptyBufQueue, FullBufQueue, PathQueue, pool, mi, thread,
                           engine, events, clients>>

\* The end of the event
Send == /\ irq = "send"
        /\ MomCtrlSendCommand("full")
        /\ irq' = "request"
        /\ UNCHANGED <<State, EmptyBufQueue, FullBufQueue, PathQueue, pool, mi, thread,
                       engine, events, clients>>

\* RET_SUCCESS, RET_NOTAVAILABLE, or RET_WRONG_STATE, on which the path stays.
Request ==
    /\ irq = "request"
    /\ irq' = "idle"
    /\ IF Running
       THEN IF EmptyBufQueue # <<>>
            THEN /\ mi' = Renew(mi, Head(EmptyBufQueue))
                 /\ EmptyBufQueue' = Tail(EmptyBufQueue)
            ELSE mi' = Starve(mi) /\ UNCHANGED EmptyBufQueue
       ELSE UNCHANGED <<mi, EmptyBufQueue>>
    /\ UNCHANGED <<State, CommandQueue, FullBufQueue, PathQueue, pool, thread, engine,
                   events, clients>>

IrqStep == FrameSkipped \/ FrameFull \/ FrameDropped \/ Send \/ Request
-----------------------------------------------------------------------------
(* The engine thread.  It starts mom_ctrl before the hardware and stops the   *)
(* hardware before mom_ctrl.                                                  *)

EngineGo(from, to) == engine = from /\ engine' = to

\* The client has given back what it had of the last stream
\* (CameraIspAdapter::stopPreview, clearFrameArray).
ClientsDone == out = <<>> /\ back = NoBuffer /\ \A b \in Buffers : held[b] = 0

\* CamEngineMomCtrlStart, and its osEventWait.  In another state MomCtrlStart,
\* MomCtrlStop or MomCtrlShutDown would fail and the engine with them.
MomCtrlStart ==
    /\ EngineGo("off", "starting") /\ ClientsDone
    /\ State \in {"initialize", "stopped"}
    /\ MomCtrlSendCommand("start")
    /\ UNCHANGED <<State, EmptyBufQueue, FullBufQueue, PathQueue, pool, mi, thread, irq,
                   events, clients>>

Started == /\ EngineGo("starting", "setup") /\ "start" \in events
           /\ events' = events \ {"start"}
           /\ UNCHANGED <<State, queues, PathQueue, pool, mi, thread, irq, clients>>

\* CamerIcRequestAndSetupBuffers asserts that each request gets a buffer.
GetsBuffer == Running /\ EmptyBufQueue # <<>>

SetupShadow ==
    /\ EngineGo("setup", "setupNext")
    /\ GetsBuffer
    /\ mi' = [mi EXCEPT !.pShdBuffer = Head(EmptyBufQueue)]
    /\ EmptyBufQueue' = Tail(EmptyBufQueue)
    /\ UNCHANGED <<State, CommandQueue, FullBufQueue, PathQueue, pool, thread, irq,
                   events, clients>>

SetupNext ==
    /\ EngineGo("setupNext", "streaming")
    /\ GetsBuffer
    /\ mi' = [mi EXCEPT !.pBuffer = Head(EmptyBufQueue)]
    /\ EmptyBufQueue' = Tail(EmptyBufQueue)
    /\ UNCHANGED <<State, CommandQueue, FullBufQueue, PathQueue, pool, thread, irq,
                   events, clients>>

\* CamerIcMiStop masks the interrupt,
CamerIcMiStop == /\ EngineGo("streaming", "disconnect")
                 /\ UNCHANGED <<State, queues, PathQueue, pool, mi, thread, irq,
                                events, clients>>

\* joins its thread and flushes the buffers, the FLUSHED events free them.
FlushShadow == /\ EngineGo("disconnect", "flush")
               /\ irq = "idle"
               /\ IF HasFull(mi) /\ Running THEN FreeBuffer(mi.pShdBuffer, EmptyBufQueue)
                  ELSE UNCHANGED <<pool, EmptyBufQueue>>
               /\ UNCHANGED <<State, CommandQueue, FullBufQueue, PathQueue, mi, thread,
                              irq, events, clients>>

\* Mutant: the buffer to be written next is forgotten.
FlushOne == /\ EngineGo("flush", "stopMom")
            /\ mi' = NoBuffers
            /\ UNCHANGED <<State, queues, PathQueue, pool, thread, irq, events, clients>>

FlushNext == /\ EngineGo("flush", "stopMom")
             /\ IF Running THEN FreeBuffer(mi.pBuffer, EmptyBufQueue)
                ELSE UNCHANGED <<pool, EmptyBufQueue>>
             /\ mi' = NoBuffers
             /\ UNCHANGED <<State, CommandQueue, FullBufQueue, PathQueue, thread, irq,
                            events, clients>>

\* CamEngineMomCtrlStop, and its osEventWait
MomCtrlStop == /\ EngineGo("stopMom", "stopping")
               /\ State \in {"running", "stopped"}
               /\ MomCtrlSendCommand("stop")
               /\ UNCHANGED <<State, EmptyBufQueue, FullBufQueue, PathQueue, pool, mi,
                              thread, irq, events, clients>>

Stopped == /\ EngineGo("stopping", "off") /\ "stop" \in events
           /\ events' = events \ {"stop"}
           /\ UNCHANGED <<State, queues, PathQueue, pool, mi, thread, irq, clients>>

\* MomCtrlShutDown as far as osThreadWait, and the rest of MomCtrlDestroy,
\* after which the next MomCtrlInit makes a new context on the pool.
MomCtrlShutDown ==
    /\ EngineGo("off", "shutdown") /\ ClientsDone
    /\ State \in {"initialize", "stopped"}
    /\ MomCtrlSendCommand("shutdown")
    /\ UNCHANGED <<State, EmptyBufQueue, FullBufQueue, PathQueue, pool, mi, thread, irq,
                   events, clients>>

MomCtrlInit ==
    /\ EngineGo("shutdown", "off") /\ State = "invalid"
    /\ State' = "initialize"
    /\ CommandQueue' = <<>> /\ EmptyBufQueue' = <<>> /\ FullBufQueue' = <<>>
    /\ PathQueue' \in BOOLEAN
    /\ UNCHANGED <<pool, mi, thread, irq, events, clients>>

EngineStep == \/ MomCtrlStart \/ Started \/ SetupShadow \/ SetupNext
              \/ CamerIcMiStop \/ FlushShadow \/ FlushNext \/ MomCtrlStop \/ Stopped
              \/ MomCtrlShutDown \/ MomCtrlInit
-----------------------------------------------------------------------------
(* Clients, which unlock one buffer at a time.                                *)

\* A client takes a buffer from its queue, and the lock with it.
TakeOut == /\ out # <<>>
           /\ held' = [held EXCEPT ![Head(out)] = @ + 1]
           /\ out' = Tail(out)
           /\ UNCHANGED <<State, queues, PathQueue, pool, mi, thread, irq, engine,
                          events, back>>

\* MediaBufUnlockBuffer by a client, until the callback has got a buffer,
ClientUnlock(b) ==
    /\ back = NoBuffer /\ held[b] > 0
    /\ held' = [held EXCEPT ![b] = @ - 1]
    /\ IF LastLock(b)
       THEN /\ pool' = Refilled(PoolFree(pool, b))
            /\ back' = PutBack(PoolFree(pool, b))
       ELSE pool' = BufUnlock(pool, b) /\ UNCHANGED back
    /\ UNCHANGED <<State, queues, PathQueue, mi, thread, irq, engine, events, out>>

\* and the write that ends the callback.
ClientPutBack ==
    /\ back # NoBuffer
    /\ AddEmpty(EmptyBufQueue, back)
    /\ back' = NoBuffer
    /\ UNCHANGED <<State, CommandQueue, FullBufQueue, PathQueue, pool, mi, thread, irq,
                   engine, events, out, held>>

ClientStep == TakeOut \/ ClientPutBack \/ \E b \in Buffers : ClientUnlock(b)

Next == ThreadStep \/ IrqStep \/ EngineStep \/ ClientStep

SafeSpec == Init /\ [][Next]_vars

\* The threads run, and what the hardware has begun ends.  Frames may stop to
\* come, the engine may stream for ever and a client keep what it has.
Fairness == /\ WF_vars(ThreadStep)
            /\ WF_vars(Send \/ Request)
            /\ WF_vars(Started \/ SetupShadow \/ SetupNext \/ FlushShadow \/ FlushNext
                       \/ MomCtrlStop \/ Stopped \/ MomCtrlInit)
            /\ WF_vars(ClientPutBack)

Spec == SafeSpec /\ Fairness
-----------------------------------------------------------------------------
Places == {"idle", "fetch", "queue", "callback", "unlock", "drain"}

TypeOK == /\ State \in {"initialize", "running", "stopped", "invalid"}
          /\ CommandQueue \in Seq({"start", "stop", "full", "shutdown"})
          /\ EmptyBufQueue \in Seq(Buffers) /\ FullBufQueue \in Seq(Buffers)
          /\ PathQueue \in BOOLEAN
          /\ pool \in Pools
          /\ mi \in MiPaths
          /\ thread \in [at : Places, b : Buffers \union {NoBuffer}]
          /\ irq \in {"idle", "send", "request"}
          /\ engine \in {"off", "starting", "setup", "setupNext", "streaming", "disconnect",
                         "flush", "stopMom", "stopping", "shutdown"}
          /\ events \subseteq {"start", "stop"}
          /\ out \in Seq(Buffers)
          /\ held \in [Buffers -> Nat]
          /\ back \in Buffers \union {NoBuffer}

\* The buffers the memory interface has: a full one is given away in the
\* event, the path keeps its pointer to it until the request is answered.
MiHolds == (IF irq # "idle" \/ engine = "flush" THEN {mi.pBuffer}
            ELSE {mi.pShdBuffer, mi.pBuffer}) \ {NoBuffer}

InQueue(q, b) == Cardinality({i \in DOMAIN q : q[i] = b})
One(p) == IF p THEN 1 ELSE 0

\* How many of those who pass buffers on have b.
Owners(b) == InQueue(EmptyBufQueue, b) + InQueue(FullBufQueue, b) + InQueue(out, b)
             + One(b \in MiHolds) + One(b = thread.b) + One(b = back)

(* "Counting how many times buffer is used. 0 means buffer belongs to pool    *)
(* and is free" (media_buffer.h:59): across the threads, each lock is         *)
(* somebody's, none is lost, and a free buffer is nobody's.  A buffer without *)
(* an owner is left over from the stream before.                              *)
LockCountsUsers ==
    \A b \in Buffers :
        IF pool.pOwner[b] THEN pool.lockCount[b] = Owners(b) + held[b]
        ELSE /\ pool.lockCount[b] = 0
             /\ Owners(b) = InQueue(out, b)

(* Nobody reads a buffer that the hardware writes or will write, or that is   *)
(* not delivered yet, and no buffer is in two places.                         *)
HardwareExclusive ==
    \A b \in Buffers : /\ Owners(b) <= 1
                       /\ b \in MiHolds \union ToSet(EmptyBufQueue) => held[b] = 0

(* Each command to process a full buffer finds one and each full buffer has   *)
(* its command, so that a STOP behind them loses no frame                     *)
(* (mom_ctrl_cb.c:237-240, mom_ctrl.c:190).                                   *)
FullBuffersAnnounced ==
    Len(FullBufQueue) = One(irq = "send") + InQueue(CommandQueue, "full")

(* The hardware runs only while mom_ctrl does, so that no event is ignored    *)
(* and no request answered with RET_WRONG_STATE, and it finds two empty       *)
(* buffers when it starts (cameric_mi.c:663, 675), after any number of        *)
(* streams.                                                                   *)
HardwareServed == /\ engine \in {"streaming", "disconnect", "flush", "stopMom"} => Running
                  /\ engine \in {"setup", "setupNext"} => GetsBuffer

(* Seen by the clients and the hardware the whole is a buffer exchange:       *)
(* frames reach mom_ctrl in order and only buffers given back are reused.     *)
Exchange ==
    INSTANCE BufferExchange
        WITH free <- FreeSet(pool) \union ToSet(EmptyBufQueue) \union ({back} \ {NoBuffer}),
             full <- FullBufQueue
ImplementsExchange == Exchange!Spec

(* The engine is never left waiting: every start and stop is completed        *)
(* (cam_engine_subctrls.c:1256, 1316).                                        *)
CommandsComplete == /\ engine = "starting" ~> engine = "streaming"
                    /\ engine = "disconnect" ~> engine = "off"
==============================================================================
