------------------------------ MODULE CamEngine ------------------------------
(* The camera engine: the thread and the alarm handlers of cam_engine.c, the  *)
(* calls of cam_engine_api.c, the callbacks that the interrupt thread of the  *)
(* image signal processor makes (cam_engine_cb.c, cameric_isp.c), what they   *)
(* start and stop (cameric.c), and the one client of each engine, which calls *)
(* the interface of cam_engine_interface.cpp and waits there for an event.    *)
(* A start of the driver or of the sub-controls is one step: the assertions   *)
(* behind it end the process when it fails.  The auto-focus is left out:      *)
(* availableAf is BOOL_FALSE for the sensors without a lens drive.            *)
EXTENDS Integers, FiniteSets, Sequences

CONSTANTS Engines,
          MaxCommands,      \* maxPendingCommands, the depth of commandQueue
          Locks,            \* what a client can lock, of CAM_ENGINE_LOCK_*
          PromptEngine,     \* is AAA_LOCKED handled before the next frame ends?
          PromptHandler     \* does the alarm handler send what it has decided to
                            \* send before the engine thread handles FINISHED?

None == "none"

ASSUME CamEngineAssumption == /\ Engines # {} /\ IsFiniteSet(Engines)
                              /\ None \notin Engines    \* the NULL pointer
                              /\ MaxCommands \in Nat \ {0}
                              /\ Locks \subseteq {"AEC", "AWB"}
                              /\ PromptEngine \in BOOLEAN
                              /\ PromptHandler \in BOOLEAN

Slots == {0, 1}
NoSlot == -1

VARIABLES state,            \* pCamEngineCtx->state
          commandQueue,     \* pCamEngineCtx->commandQueue
          thread,           \* where the engine thread is
          DriverState,      \* of CamerIcDrvContext_t
          subCtrls,         \* are the sub-controls started?
          input,            \* what the image signal processor is doing
          ispOff,           \* its interrupt ISP_OFF
          irq,              \* what the interrupt thread still has to send
          eventCb,          \* is pIspContext->EventCb set?
          LockMask, LockedMask,
          aaa,              \* the modules in state LOCKED
          itf,              \* m_pCamEngine->state
          caller,           \* the call the client waits in
          events,           \* m_event* when signalled
          index, g_idx,
          g_pCamEngineCtx,
          timer,            \* whose handler ITIMER_REAL is set for
          handler,          \* the handler that has passed its check
          exited            \* the assertion that ended the process

driver == <<DriverState, subCtrls, input, ispOff, irq, eventCb>>
masks  == <<LockMask, LockedMask, aaa>>
client == <<itf, caller>>
alarm  == <<g_pCamEngineCtx, timer, handler>>
ids    == <<index, g_idx>>
vars == <<state, commandQueue, thread, driver, masks, client, events, ids, alarm, exited>>

NoCall == [event |-> None, then |-> None, locks |-> {}]
Wait(event, then, locks) == [event |-> event, then |-> then, locks |-> locks]

Commands == [id : {"SHUTDOWN", "START", "STOP", "START_STREAMING", "STOP_STREAMING",
                   "HW_STREAMING_FINISHED", "ACQUIRE_LOCK", "RELEASE_LOCK", "AAA_LOCKED"},
             locks : SUBSET Locks,
             counted : BOOLEAN]
Command(id) == [id |-> id, locks |-> {}, counted |-> FALSE]

\* The handler and the entry of g_pCamEngineCtx for an engine
Slot(e) == IF index[e] = 0 THEN 0 ELSE 1

Init == /\ state = [e \in Engines |-> "INVALID"]
        /\ commandQueue = [e \in Engines |-> <<>>]
        /\ thread = [e \in Engines |-> "exit"]
        /\ DriverState = [e \in Engines |-> "off"]
        /\ subCtrls = [e \in Engines |-> FALSE]
        /\ input = [e \in Engines |-> "off"]
        /\ ispOff = [e \in Engines |-> FALSE]
        /\ irq = [e \in Engines |-> None]
        /\ eventCb = [e \in Engines |-> FALSE]
        /\ LockMask = [e \in Engines |-> {}]
        /\ LockedMask = [e \in Engines |-> {}]
        /\ aaa = [e \in Engines |-> {}]
        /\ itf = [e \in Engines |-> None]
        /\ caller = [e \in Engines |-> NoCall]
        /\ events = [e \in Engines |-> {}]
        /\ index = [e \in Engines |-> 0]
        /\ g_idx = 0
        /\ g_pCamEngineCtx = [i \in Slots |-> None]
        /\ timer = NoSlot
        /\ handler = NoSlot
        /\ exited = None

Alive == exited = None

\* CamEngineSendCommand; osQueueWrite waits while the queue is full.
CamEngineSendCommand(e, c) ==
    IF state[e] = "INVALID" THEN UNCHANGED commandQueue
    ELSE /\ Len(commandQueue[e]) < MaxCommands
         /\ commandQueue' = [commandQueue EXCEPT ![e] = Append(@, c)]

\* CamEngineCompleteCommand signals the event of the command.
CamEngineCompleteCommand(e, id) == events' = [events EXCEPT ![e] = @ \union {id}]
-----------------------------------------------------------------------------
(* CamEngineThreadHandler: what it does with a command in a state.            *)

Takes(e, states, id) == /\ Alive /\ thread[e] = "read" /\ state[e] \in states
                        /\ commandQueue[e] # <<>> /\ Head(commandQueue[e]).id = id
                        /\ commandQueue' = [commandQueue EXCEPT ![e] = Tail(@)]

EngineShutdown(e) ==
    /\ Takes(e, {"INITIALIZED", "RUNNING"}, "SHUTDOWN")
    /\ state' = [state EXCEPT ![e] = "INVALID"]
    /\ thread' = [thread EXCEPT ![e] = "exit"]
    /\ UNCHANGED <<driver, masks, client, events, ids, alarm, exited>>

EngineStart(e) ==
    /\ Takes(e, {"INITIALIZED"}, "START")
    /\ state' = [state EXCEPT ![e] = "RUNNING"]
    /\ CamEngineCompleteCommand(e, "START")
    /\ UNCHANGED <<thread, driver, masks, client, ids, alarm, exited>>

EngineStop(e) ==
    /\ Takes(e, {"RUNNING"}, "STOP")
    /\ state' = [state EXCEPT ![e] = "INITIALIZED"]
    /\ CamEngineCompleteCommand(e, "STOP")
    /\ UNCHANGED <<thread, driver, masks, client, ids, alarm, exited>>

\* CamerIcDriverStart asserts that the driver is not running.
EngineStartStreaming(e) ==
    /\ Takes(e, {"RUNNING"}, "START_STREAMING")
    /\ IF DriverState[e] = "running"
       THEN exited' = "CamerIcDriverStart" /\ UNCHANGED <<state, driver, events>>
       ELSE /\ subCtrls' = [subCtrls EXCEPT ![e] = TRUE]
            /\ DriverState' = [DriverState EXCEPT ![e] = "running"]
            /\ input' = [input EXCEPT ![e] =
                            IF Head(commandQueue[e]).counted THEN "counted" ELSE "on"]
            /\ state' = [state EXCEPT ![e] = "STREAMING"]
            /\ CamEngineCompleteCommand(e, "START_STREAMING")
            /\ UNCHANGED <<ispOff, irq, eventCb, exited>>
    /\ UNCHANGED <<thread, masks, client, ids, alarm>>

\* STOP_STREAMING is completed later, by HW_STREAMING_FINISHED.
EngineStopStreaming(e) ==
    /\ Takes(e, {"STREAMING"}, "STOP_STREAMING")
    /\ input' = [input EXCEPT ![e] = "ending"]
    /\ g_pCamEngineCtx' = [g_pCamEngineCtx EXCEPT ![Slot(e)] = e]
    /\ timer' = Slot(e)
    /\ state' = [state EXCEPT ![e] = "RUNNING"]
    /\ UNCHANGED <<thread, DriverState, subCtrls, ispOff, irq, eventCb, masks, client,
                   events, ids, handler, exited>>

\* HW_STREAMING_FINISHED when some engine is stopping: CamEngineStopCamerIcDrv
\* and CamEngineSubCtrlsStop.  CamerIcDriverStop asserts that the driver runs.
EngineFinished(e) ==
    /\ Takes(e, {"RUNNING"}, "HW_STREAMING_FINISHED")
    /\ \E i \in Slots : g_pCamEngineCtx[i] # None
    /\ PromptHandler => handler # Slot(e)
    /\ g_pCamEngineCtx' = [i \in Slots |-> IF g_pCamEngineCtx[i] = e THEN None
                                           ELSE g_pCamEngineCtx[i]]
    /\ timer' = NoSlot
    /\ IF DriverState[e] = "running"
       THEN /\ DriverState' = [DriverState EXCEPT ![e] = "stopping"]
            /\ thread' = [thread EXCEPT ![e] = "join"]
            /\ UNCHANGED exited
       ELSE exited' = "CamerIcDriverStop" /\ UNCHANGED <<DriverState, thread>>
    /\ UNCHANGED <<state, subCtrls, input, ispOff, irq, eventCb, masks, client, events,
                   ids, handler>>

\* HalDisconnectIrq waits for the interrupt thread.
EngineJoin(e) ==
    /\ Alive /\ thread[e] = "join" /\ irq[e] = None
    /\ thread' = [thread EXCEPT ![e] = "read"]
    /\ DriverState' = [DriverState EXCEPT ![e] = "stopped"]
    /\ subCtrls' = [subCtrls EXCEPT ![e] = FALSE]
    /\ CamEngineCompleteCommand(e, "STOP_STREAMING")
    /\ UNCHANGED <<state, commandQueue, input, ispOff, irq, eventCb, masks, client, ids,
                   alarm, exited>>

\* Mutant: it is completed whether or not a stop waits for it.
FinishedAgainStops(e) ==
    /\ Takes(e, {"RUNNING"}, "HW_STREAMING_FINISHED")
    /\ \A i \in Slots : g_pCamEngineCtx[i] = None
    /\ CamEngineCompleteCommand(e, "STOP_STREAMING")
    /\ UNCHANGED <<state, thread, driver, masks, client, ids, alarm, exited>>

EngineFinishedAgain(e) ==
    /\ Takes(e, {"RUNNING"}, "HW_STREAMING_FINISHED")
    /\ \A i \in Slots : g_pCamEngineCtx[i] = None
    /\ UNCHANGED <<state, thread, driver, masks, client, events, ids, alarm, exited>>

\* AWB is locked after AEC.  The modules among m that a try locks when those of
\* settled have found their values.
Tried(m, locked, settled) ==
    {x \in m \intersect settled : x = "AWB" => "AEC" \in locked \union (m \intersect settled)}

EngineAcquireLock(e) ==
    /\ Takes(e, {"STREAMING"}, "ACQUIRE_LOCK")
    /\ \E settled \in SUBSET Locks :
         LET asked == Head(commandQueue[e]).locks
             got == Tried(asked, LockedMask[e], settled)
         IN  /\ aaa' = [aaa EXCEPT ![e] = @ \union got]
             /\ LockedMask' = [LockedMask EXCEPT ![e] = @ \union got]
             /\ LockMask' = [LockMask EXCEPT ![e] = @ \union (asked \ got)]
             /\ IF got = asked
                THEN CamEngineCompleteCommand(e, "ACQUIRE_LOCK") /\ UNCHANGED <<eventCb, exited>>
                ELSE /\ eventCb' = [eventCb EXCEPT ![e] = TRUE]
                     /\ exited' = IF eventCb[e] THEN "CamerIcIspRegisterEventCb" ELSE exited
                     /\ UNCHANGED events
    /\ UNCHANGED <<state, thread, DriverState, subCtrls, input, ispOff, irq, client, ids, alarm>>

\* Mutant: the callback stays registered.
StaysRegistered(e) ==
    /\ Takes(e, {"STREAMING"}, "AAA_LOCKED")
    /\ CamEngineCompleteCommand(e, "ACQUIRE_LOCK")
    /\ UNCHANGED <<state, thread, driver, masks, client, ids, alarm, exited>>

EngineAaaLocked(e) ==
    /\ Takes(e, {"STREAMING"}, "AAA_LOCKED")
    /\ eventCb' = [eventCb EXCEPT ![e] = FALSE]
    /\ CamEngineCompleteCommand(e, "ACQUIRE_LOCK")
    /\ UNCHANGED <<state, thread, DriverState, subCtrls, input, ispOff, irq, masks, client,
                   ids, alarm, exited>>

EngineReleaseLock(e) ==
    /\ Takes(e, {"STREAMING"}, "RELEASE_LOCK")
    /\ LET asked == Head(commandQueue[e]).locks
       IN  /\ aaa' = [aaa EXCEPT ![e] = @ \ asked]
           /\ LockMask' = [LockMask EXCEPT ![e] = @ \ asked]
           /\ LockedMask' = [LockedMask EXCEPT ![e] = @ \ asked]
    /\ eventCb' = [eventCb EXCEPT ![e] = @ /\ LockMask'[e] \union LockedMask'[e] # {}]
    /\ CamEngineCompleteCommand(e, "RELEASE_LOCK")
    /\ UNCHANGED <<state, thread, DriverState, subCtrls, input, ispOff, irq, client, ids,
                   alarm, exited>>

\* What the switch of a state does not list is completed with RET_WRONG_STATE;
\* the interface has no event for HW_STREAMING_FINISHED and AAA_LOCKED.
Listed == [INITIALIZED |-> {"SHUTDOWN", "START"},
           RUNNING |-> {"SHUTDOWN", "STOP", "START_STREAMING", "HW_STREAMING_FINISHED"},
           STREAMING |-> {"STOP_STREAMING", "AAA_LOCKED", "ACQUIRE_LOCK", "RELEASE_LOCK"}]
Silent == {"SHUTDOWN", "HW_STREAMING_FINISHED", "AAA_LOCKED"}

EngineWrongState(e) ==
    /\ \E s \in DOMAIN Listed, c \in {x.id : x \in Commands} :
          /\ c \notin Listed[s]
          /\ Takes(e, {s}, c)
          /\ IF c \in Silent THEN UNCHANGED events ELSE CamEngineCompleteCommand(e, c)
    /\ UNCHANGED <<state, thread, driver, masks, client, ids, alarm, exited>>
-----------------------------------------------------------------------------
(* The image signal processor, its interrupt thread and the alarm.            *)

\* The input ends, after a counted capture or a while after it was disabled.
InputEnds(e) ==
    /\ Alive /\ input[e] \in {"counted", "ending"}
    /\ input' = [input EXCEPT ![e] = "off"]
    /\ ispOff' = [ispOff EXCEPT ![e] = TRUE]
    /\ UNCHANGED <<state, commandQueue, thread, DriverState, subCtrls, irq, eventCb, masks,
                   client, events, ids, alarm, exited>>

\* Mutant: the interrupt is not acknowledged.
IspOffAgain(e) ==
    /\ Alive /\ DriverState[e] = "running" /\ irq[e] = None /\ ispOff[e]
    /\ irq' = [irq EXCEPT ![e] = "HW_STREAMING_FINISHED"]
    /\ UNCHANGED <<state, commandQueue, thread, DriverState, subCtrls, input, ispOff, eventCb,
                   masks, client, events, ids, alarm, exited>>

\* CamerIcIspIrq with ISP_OFF: CamEngineCamerIcDrvCommandCb.
IrqIspOff(e) ==
    /\ Alive /\ DriverState[e] = "running" /\ irq[e] = None /\ ispOff[e]
    /\ ispOff' = [ispOff EXCEPT ![e] = FALSE]
    /\ irq' = [irq EXCEPT ![e] = "HW_STREAMING_FINISHED"]
    /\ UNCHANGED <<state, commandQueue, thread, DriverState, subCtrls, input, eventCb, masks,
                   client, events, ids, alarm, exited>>

\* Mutant: locked is not cleared when a module is still searching.
LockedTooEarly(e, settled) ==
    /\ Alive /\ DriverState[e] = "running" /\ irq[e] = None /\ eventCb[e] /\ input[e] # "off"
    /\ PromptEngine => \A i \in DOMAIN commandQueue[e] : commandQueue[e][i].id # "AAA_LOCKED"
    /\ LET got == Tried(LockMask[e], {"AEC"} \ LockMask[e], settled)
       IN  /\ aaa' = [aaa EXCEPT ![e] = @ \union got]
           /\ LockedMask' = [LockedMask EXCEPT ![e] = @ \union got]
           /\ LockMask' = [LockMask EXCEPT ![e] = @ \ got]
           /\ irq' = [irq EXCEPT ![e] = IF got # {} THEN "AAA_LOCKED" ELSE None]
    /\ UNCHANGED <<state, commandQueue, thread, DriverState, subCtrls, input, ispOff, eventCb,
                   client, events, ids, alarm, exited>>

\* CamerIcIspIrq at the end of a frame: CamEngineCamerIcDrvLockCb.  It skips AWB
\* when AEC is not locked, and sends AAA_LOCKED when nothing is left to lock.
IrqFrameOut(e, settled) ==
    /\ Alive /\ DriverState[e] = "running" /\ irq[e] = None /\ eventCb[e] /\ input[e] # "off"
    /\ PromptEngine => \A i \in DOMAIN commandQueue[e] : commandQueue[e][i].id # "AAA_LOCKED"
    /\ LET got == Tried(LockMask[e], {"AEC"} \ LockMask[e], settled)
       IN  /\ aaa' = [aaa EXCEPT ![e] = @ \union got]
           /\ LockedMask' = [LockedMask EXCEPT ![e] = @ \union got]
           /\ LockMask' = [LockMask EXCEPT ![e] = @ \ got]
           /\ irq' = [irq EXCEPT ![e] = IF LockMask[e] = got THEN "AAA_LOCKED" ELSE None]
    /\ UNCHANGED <<state, commandQueue, thread, DriverState, subCtrls, input, ispOff, eventCb,
                   client, events, ids, alarm, exited>>

IrqSend(e) ==
    /\ Alive /\ irq[e] # None
    /\ CamEngineSendCommand(e, Command(irq[e]))
    /\ irq' = [irq EXCEPT ![e] = None]
    /\ UNCHANGED <<state, thread, DriverState, subCtrls, input, ispOff, eventCb, masks,
                   client, events, ids, alarm, exited>>

\* StreamOffOverTimeHnd1 and StreamOffOverTimeHnd2 up to their check.  The mutex
\* they lock is a copy of the engine's and keeps nobody out.
Alarm == /\ Alive /\ timer # NoSlot /\ handler = NoSlot
         /\ timer' = NoSlot
         /\ handler' = IF g_pCamEngineCtx[timer] = None THEN NoSlot ELSE timer
         /\ UNCHANGED <<state, commandQueue, thread, driver, masks, client, events, ids,
                        g_pCamEngineCtx, exited>>

\* Mutant: the handler only reports the timeout.
HandlerReports ==
    /\ Alive /\ handler # NoSlot
    /\ handler' = NoSlot
    /\ UNCHANGED <<state, commandQueue, thread, driver, masks, client, events, ids,
                   g_pCamEngineCtx, timer, exited>>
-----------------------------------------------------------------------------
(* The client: CamEngineItf.                                                  *)

\* They read g_pCamEngineCtx again; CamEngineSendCommand asserts that it is set.
HandlerSends ==
    /\ Alive /\ handler # NoSlot
    /\ IF g_pCamEngineCtx[handler] = None
       THEN exited' = "CamEngineSendCommand" /\ UNCHANGED commandQueue
       ELSE /\ CamEngineSendCommand(g_pCamEngineCtx[handler], Command("HW_STREAMING_FINISHED"))
            /\ UNCHANGED exited
    /\ handler' = NoSlot
    /\ UNCHANGED <<state, thread, driver, masks, client, events, ids, g_pCamEngineCtx, timer>>

\* Calls the engine in the state s that the call is for, and waits for the
\* event; in another state the interface goes on all the same.
Calls(e, s, c, w) ==
    /\ IF state[e] = s
       THEN /\ CamEngineSendCommand(e, c)
            /\ caller' = [caller EXCEPT ![e] = w]
            /\ UNCHANGED itf
       ELSE itf' = [itf EXCEPT ![e] = w.then] /\ UNCHANGED <<commandQueue, caller>>
    /\ UNCHANGED <<state, thread, driver, masks, events, ids, alarm, exited>>

Free(e, places) == Alive /\ caller[e] = NoCall /\ itf[e] \in places

\* CamEngineHolder and CamEngineInit, for an engine that is not there
Create(e) ==
    /\ Free(e, {None}) /\ thread[e] = "exit"
    /\ state' = [state EXCEPT ![e] = "INITIALIZED"]
    /\ thread' = [thread EXCEPT ![e] = "read"]
    /\ commandQueue' = [commandQueue EXCEPT ![e] = <<>>]
    /\ DriverState' = [DriverState EXCEPT ![e] = "INIT"]
    /\ eventCb' = [eventCb EXCEPT ![e] = FALSE]
    /\ LockMask' = [LockMask EXCEPT ![e] = {}]
    /\ LockedMask' = [LockedMask EXCEPT ![e] = {}]
    /\ aaa' = [aaa EXCEPT ![e] = {}]
    /\ itf' = [itf EXCEPT ![e] = "Invalid"]
    /\ events' = [events EXCEPT ![e] = {}]
    /\ index' = [index EXCEPT ![e] = g_idx]
    /\ g_idx' = g_idx + 1
    /\ UNCHANGED <<subCtrls, input, ispOff, irq, caller, alarm, exited>>

\* ~CamEngineHolder and CamEngineShutDown, which waits for the thread to end.
Delete(e) ==
    /\ Free(e, {"Invalid"})
    /\ state[e] \in {"INITIALIZED", "RUNNING"}
    /\ CamEngineSendCommand(e, Command("SHUTDOWN"))
    /\ caller' = [caller EXCEPT ![e] = Wait("SHUTDOWN", None, {})]
    /\ UNCHANGED <<state, thread, driver, masks, itf, events, ids, alarm, exited>>

\* Mutant: g_idx counts on.
DestroyCountsOn(e) ==
    /\ Alive /\ caller[e].event = "SHUTDOWN" /\ thread[e] = "exit"
    /\ caller' = [caller EXCEPT ![e] = NoCall]
    /\ itf' = [itf EXCEPT ![e] = None]
    /\ commandQueue' = [commandQueue EXCEPT ![e] = <<>>]
    /\ DriverState' = [DriverState EXCEPT ![e] = "off"]
    /\ UNCHANGED <<state, thread, subCtrls, input, ispOff, irq, eventCb, masks, events,
                   ids, alarm, exited>>

\* The rest of CamEngineDestroy.
Destroy(e) ==
    /\ Alive /\ caller[e].event = "SHUTDOWN" /\ thread[e] = "exit"
    /\ caller' = [caller EXCEPT ![e] = NoCall]
    /\ itf' = [itf EXCEPT ![e] = None]
    /\ commandQueue' = [commandQueue EXCEPT ![e] = <<>>]
    /\ DriverState' = [DriverState EXCEPT ![e] = "off"]
    /\ g_idx' = 0
    /\ UNCHANGED <<state, thread, subCtrls, input, ispOff, irq, eventCb, masks, events,
                   index, alarm, exited>>

\* connect; AecConfigure and AwbConfigure fail on a locked module, and so does
\* CamEngineStart.
Connect(e) == /\ Free(e, {"Invalid"}) /\ aaa[e] = {}
              /\ Calls(e, "INITIALIZED", Command("START"), Wait("START", "Idle", {}))

\* disconnect, once the client has stopped
Disconnect(e) == /\ Free(e, {"Idle"})
                 /\ Calls(e, "RUNNING", Command("STOP"), Wait("STOP", "Invalid", {}))

Start(e) == /\ Free(e, {"Idle", "Paused"})
            /\ \E counted \in BOOLEAN :
                  Calls(e, "RUNNING", [Command("START_STREAMING") EXCEPT !.counted = counted],
                        Wait("START_STREAMING", "Running", {}))

\* stop, and pause, of a running camera
Stop(e) == /\ Free(e, {"Running"})
           /\ \E then \in {"Idle", "Paused"} :
                 Calls(e, "STREAMING", Command("STOP_STREAMING"),
                       Wait("STOP_STREAMING", then, {}))

StopPaused(e) == /\ Free(e, {"Paused"})
                 /\ itf' = [itf EXCEPT ![e] = "Idle"]
                 /\ UNCHANGED <<state, commandQueue, thread, driver, masks, caller, events, ids,
                                alarm, exited>>

SearchAndLock(e) ==
    /\ Free(e, {"Idle", "Paused", "Running"})
    /\ \E l \in SUBSET Locks \ {{}} :
          Calls(e, "STREAMING", [Command("ACQUIRE_LOCK") EXCEPT !.locks = l],
                Wait("ACQUIRE_LOCK", itf[e], l))

Unlock(e) ==
    /\ Free(e, {"Idle", "Paused", "Running"})
    /\ \E l \in SUBSET Locks \ {{}} :
          Calls(e, "STREAMING", [Command("RELEASE_LOCK") EXCEPT !.locks = l],
                Wait("RELEASE_LOCK", itf[e], l))

\* osEventWait takes the signal back.
Return(e) ==
    /\ Alive /\ caller[e].event \in events[e]
    /\ events' = [events EXCEPT ![e] = @ \ {caller[e].event}]
    /\ itf' = [itf EXCEPT ![e] = caller[e].then]
    /\ caller' = [caller EXCEPT ![e] = NoCall]
    /\ UNCHANGED <<state, commandQueue, thread, driver, masks, ids, alarm, exited>>
-----------------------------------------------------------------------------
Client(e) == \/ Create(e) \/ Delete(e) \/ Connect(e) \/ Disconnect(e) \/ Start(e) \/ Stop(e)
             \/ StopPaused(e) \/ SearchAndLock(e) \/ Unlock(e)

Engine(e) == \/ EngineShutdown(e) \/ EngineStart(e) \/ EngineStop(e)
             \/ EngineStartStreaming(e) \/ EngineStopStreaming(e)
             \/ EngineFinished(e) \/ EngineJoin(e) \/ EngineFinishedAgain(e)
             \/ EngineAcquireLock(e) \/ EngineAaaLocked(e) \/ EngineReleaseLock(e)
             \/ EngineWrongState(e)

Irq(e) == IrqIspOff(e) \/ IrqSend(e) \/ \E settled \in SUBSET Locks : IrqFrameOut(e, settled)

Next == \/ \E e \in Engines : \/ Client(e) \/ Return(e) \/ Destroy(e)
                              \/ Engine(e) \/ Irq(e) \/ InputEnds(e)
        \/ Alarm \/ HandlerSends

\* The threads run, the alarm comes, and some frame finds all modules settled.
\* The hardware owes no ISP_OFF, and the client no call.
Fairness == /\ \A e \in Engines : /\ WF_vars(Engine(e))
                                  /\ WF_vars((Return(e) \/ Destroy(e)))
                                  /\ WF_vars((IrqIspOff(e) \/ IrqSend(e)))
                                  /\ WF_vars(IrqFrameOut(e, Locks))
            /\ WF_vars((Alarm \/ HandlerSends))

Spec == Init /\ [][Next]_vars
FairSpec == Spec /\ Fairness
-----------------------------------------------------------------------------
\* Each variable has its type; g_idx has counted no more engines than there are,
\* although it starts again from 0 whenever one is shut down.
TypeOK ==
    /\ state \in [Engines -> {"INVALID", "INITIALIZED", "RUNNING", "STREAMING"}]
    /\ commandQueue \in [Engines -> Seq(Commands)]
    /\ thread \in [Engines -> {"read", "join", "exit"}]
    /\ DriverState \in [Engines -> {"off", "INIT", "running", "stopping", "stopped"}]
    /\ subCtrls \in [Engines -> BOOLEAN]
    /\ input \in [Engines -> {"off", "on", "counted", "ending"}]
    /\ ispOff \in [Engines -> BOOLEAN]
    /\ irq \in [Engines -> {None, "HW_STREAMING_FINISHED", "AAA_LOCKED"}]
    /\ eventCb \in [Engines -> BOOLEAN]
    /\ LockMask \in [Engines -> SUBSET Locks]
    /\ LockedMask \in [Engines -> SUBSET Locks]
    /\ aaa \in [Engines -> SUBSET Locks]
    /\ itf \in [Engines -> {None, "Invalid", "Idle", "Running", "Paused"}]
    /\ caller \in [Engines -> [event : {x.id : x \in Commands} \union {None},
                               then : {None, "Invalid", "Idle", "Running", "Paused"},
                               locks : SUBSET Locks]]
    /\ events \in [Engines -> SUBSET {x.id : x \in Commands}]
    /\ index \in [Engines -> 0 .. Cardinality(Engines) - 1] /\ g_idx \in 0 .. Cardinality(Engines)
    /\ g_pCamEngineCtx \in [Slots -> Engines \union {None}]
    /\ timer \in Slots \union {NoSlot} /\ handler \in Slots \union {NoSlot}

\* The interface and the engine agree whenever no call is under way: a running
\* camera streams, and under one that is stopped or paused nothing runs, neither
\* the driver, nor a sub-control, nor an interrupt, nor a stop still expected.  No
\* event is left signalled: the next call would return before its command is done.
InterfaceInStep ==
    \A e \in Engines : caller[e] = NoCall =>
        /\ events[e] = {}
        /\ itf[e] = "Running" => /\ state[e] = "STREAMING" /\ subCtrls[e]
                                 /\ DriverState[e] = "running"
        /\ itf[e] \in {"Idle", "Paused"} => /\ state[e] = "RUNNING" /\ ~ subCtrls[e]
                                            /\ DriverState[e] \in {"INIT", "stopped"}
                                            /\ irq[e] = None
                                            /\ \A i \in Slots : g_pCamEngineCtx[i] # e

\* No assertion ends the process: the driver is started and stopped in turn,
\* the callback is registered once, and the alarm finds an engine.
AssertionsHold == exited = None

\* Nobody who may not wait ever has to: there is room for the command that the
\* interrupt thread is about to send, which the engine thread joins, and for that
\* of the alarm handler, which runs on any thread, the engine's included.
RoomInQueue ==
    /\ \A e \in Engines : irq[e] # None => Len(commandQueue[e]) < MaxCommands
    /\ handler # NoSlot /\ g_pCamEngineCtx[handler] # None =>
          Len(commandQueue[g_pCamEngineCtx[handler]]) < MaxCommands

\* A client that comes back from searchAndLock has all it asked for locked, and
\* one that comes back from unlock has nothing of it locked.
Returned(e, id) == caller[e].event = id /\ caller'[e] = NoCall
LocksAsAsked ==
    [][\A e \in Engines : /\ Returned(e, "ACQUIRE_LOCK") => caller[e].locks \subseteq aaa[e]
                          /\ Returned(e, "RELEASE_LOCK") =>
                                caller[e].locks \intersect (aaa[e] \union LockMask[e]) = {}]_vars

\* Every call comes back, a stop also when the hardware never reports its end;
\* only a search for locks waits for ever when a counted capture has ended.
CallsReturn ==
    \A e \in Engines :
        caller[e] # NoCall ~> \/ caller[e] = NoCall
                              \/ caller[e].event = "ACQUIRE_LOCK" /\ input[e] = "off"
=============================================================================
