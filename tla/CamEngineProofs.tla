--------------------------- MODULE CamEngineProofs ---------------------------
(* What holds of the camera engine: the types for any number of engines, and  *)
(* for any number of them of which one at a time exists the agreement of the  *)
(* interface with its engine, the assertions and the room in the queue.       *)
EXTENDS CamEngine, FiniteSetTheorems, SequenceTheorems, TLAPS

Ids == {"SHUTDOWN", "START", "STOP", "START_STREAMING", "STOP_STREAMING",
        "HW_STREAMING_FINISHED", "ACQUIRE_LOCK", "RELEASE_LOCK", "AAA_LOCKED"}

LEMMA CommandTyped ==
    ASSUME NEW i \in Ids
    PROVE  Command(i) \in Commands /\ Command(i).id = i /\ Command(i).locks = {}
BY DEF Commands, Command, Ids

LEMMA CommandIds == {x.id : x \in Commands} = Ids
<1>1. \A x \in Commands : x.id \in Ids
    BY DEF Commands, Ids
<1> QED
    BY <1>1, CommandTyped, Zenon
-----------------------------------------------------------------------------
(* The types, part by part.  Only a shutdown leads back to no engine, and its *)
(* event is never signalled.                                                  *)

Places == {None, "Invalid", "Idle", "Running", "Paused"}

EngineTyped == /\ state \in [Engines -> {"INVALID", "INITIALIZED", "RUNNING", "STREAMING"}]
               /\ thread \in [Engines -> {"read", "join", "exit"}]
QueueTyped  == commandQueue \in [Engines -> Seq(Commands)]
DriverTyped == /\ DriverState \in [Engines -> {"off", "INIT", "running", "stopping", "stopped"}]
               /\ subCtrls \in [Engines -> BOOLEAN]
               /\ input \in [Engines -> {"off", "on", "counted", "ending"}]
               /\ ispOff \in [Engines -> BOOLEAN]
               /\ irq \in [Engines -> {None, "HW_STREAMING_FINISHED", "AAA_LOCKED"}]
               /\ eventCb \in [Engines -> BOOLEAN]
MasksTyped  == /\ LockMask \in [Engines -> SUBSET Locks]
               /\ LockedMask \in [Engines -> SUBSET Locks]
               /\ aaa \in [Engines -> SUBSET Locks]
ItfTyped    == itf \in [Engines -> Places]
CallerTyped == /\ caller \in [Engines -> [event : Ids \union {None}, then : Places,
                                          locks : SUBSET Locks]]
               /\ \A e \in Engines :
                     caller[e].then = None => caller[e].event \in {"SHUTDOWN", None}
EventsTyped == events \in [Engines -> SUBSET (Ids \ {"SHUTDOWN"})]
IdsTyped    == /\ index \in [Engines -> 0 .. Cardinality(Engines) - 1]
               /\ g_idx \in 0 .. Cardinality(Engines)
AlarmTyped  == /\ g_pCamEngineCtx \in [Slots -> Engines \union {None}]
               /\ timer \in Slots \union {NoSlot} /\ handler \in Slots \union {NoSlot}

Typed == /\ EngineTyped /\ QueueTyped /\ DriverTyped /\ MasksTyped /\ ItfTyped
         /\ CallerTyped /\ EventsTyped /\ IdsTyped /\ AlarmTyped

LEMMA TypeParts == Typed => TypeOK
BY CommandIds
   DEF TypeOK, Typed, EngineTyped, QueueTyped, DriverTyped, MasksTyped, ItfTyped,
       CallerTyped, EventsTyped, IdsTyped, AlarmTyped, Places

LEMMA Kept ==
    ASSUME Typed
    PROVE  /\ UNCHANGED <<state, thread>> => EngineTyped'
           /\ UNCHANGED commandQueue => QueueTyped'
           /\ UNCHANGED driver => DriverTyped'
           /\ UNCHANGED masks => MasksTyped'
           /\ UNCHANGED itf => ItfTyped'
           /\ UNCHANGED caller => CallerTyped'
           /\ UNCHANGED events => EventsTyped'
           /\ UNCHANGED ids => IdsTyped'
           /\ UNCHANGED alarm => AlarmTyped'
BY DEF Typed, EngineTyped, QueueTyped, DriverTyped, MasksTyped, ItfTyped,
       CallerTyped, EventsTyped, IdsTyped, AlarmTyped, driver, masks, ids, alarm

LEMMA SendTyped ==
    ASSUME Typed, NEW e \in Engines, NEW c \in Commands, CamEngineSendCommand(e, c)
    PROVE  QueueTyped'
<1>1. commandQueue \in [Engines -> Seq(Commands)]
    BY DEF Typed, QueueTyped
<1>2. Append(commandQueue[e], c) \in Seq(Commands)
    BY <1>1
<1> QED
    BY <1>1, <1>2 DEF CamEngineSendCommand, QueueTyped

LEMMA TakeTyped ==
    ASSUME Typed, NEW e \in Engines, NEW s, NEW i, Takes(e, s, i)
    PROVE  /\ QueueTyped' /\ Head(commandQueue[e]) \in Commands /\ i \in Ids
           /\ Head(commandQueue[e]).locks \subseteq Locks
           /\ Head(commandQueue[e]).counted \in BOOLEAN
<1>1. /\ commandQueue \in [Engines -> Seq(Commands)] /\ commandQueue[e] # <<>>
      /\ Head(commandQueue[e]).id = i /\ commandQueue' = [commandQueue EXCEPT ![e] = Tail(@)]
    BY DEF Typed, QueueTyped, Takes
<1>2. Head(commandQueue[e]) \in Commands /\ Tail(commandQueue[e]) \in Seq(Commands)
    BY <1>1
<1>3. QueueTyped'
    BY <1>1, <1>2 DEF QueueTyped
<1> QED
    BY <1>1, <1>2, <1>3 DEF Commands, Ids

LEMMA CompleteTyped ==
    ASSUME Typed, NEW e \in Engines, NEW i \in Ids \ {"SHUTDOWN"},
           CamEngineCompleteCommand(e, i)
    PROVE  EventsTyped'
BY DEF Typed, EventsTyped, CamEngineCompleteCommand
-----------------------------------------------------------------------------
(* The type invariant.  g_idx counts from 0 again after every shutdown, so it *)
(* never exceeds the number of engines that there are.                        *)

Open == {e \in Engines : itf[e] # None}

TypeInv == Typed /\ g_idx <= Cardinality(Open)

LEMMA OpenFinite ==
    /\ IsFiniteSet(Open) /\ Cardinality(Open) \in Nat
    /\ IsFiniteSet(Engines) /\ Cardinality(Engines) \in Nat
<1>1. IsFiniteSet(Engines)
    BY CamEngineAssumption
<1>2. IsFiniteSet(Open)
    BY <1>1, FS_Subset DEF Open
<1> QED
    BY <1>1, <1>2, FS_CardinalityType

LEMMA OpenKept ==
    ASSUME TypeInv, g_idx' = g_idx, \A e \in Engines : itf[e] # None => itf'[e] # None
    PROVE  g_idx' <= Cardinality(Open')
<1>1. Open \subseteq Open'
    BY DEF Open
<1>2. IsFiniteSet(Open')
    BY OpenFinite, FS_Subset DEF Open
<1>3. Cardinality(Open) <= Cardinality(Open') /\ Cardinality(Open') \in Nat
    BY <1>1, <1>2, FS_Subset, FS_CardinalityType
<1> QED
    BY <1>3, OpenFinite DEF TypeInv, Typed, IdsTyped
-----------------------------------------------------------------------------
LEMMA EngineStepTyped ==
    ASSUME TypeInv, NEW e \in Engines, Engine(e)
    PROVE  TypeInv'
<1>a. Typed
    BY DEF TypeInv
<1>b. g_idx' = g_idx /\ itf' = itf => g_idx' <= Cardinality(Open')
    BY OpenKept
<1>1. CASE EngineShutdown(e)
    <2>1. EngineTyped'
        BY <1>a, <1>1 DEF Typed, EngineTyped, EngineShutdown
    <2> QED
        BY <1>a, <1>b, <1>1, <2>1, Kept, TakeTyped DEF EngineShutdown, TypeInv, Typed, client, ids
<1>2. CASE EngineStart(e)
    <2>1. EngineTyped'
        BY <1>a, <1>2 DEF Typed, EngineTyped, EngineStart
    <2>2. EventsTyped'
        BY <1>a, <1>2, CompleteTyped DEF EngineStart, Ids
    <2> QED
        BY <1>a, <1>b, <1>2, <2>1, <2>2, Kept, TakeTyped
           DEF EngineStart, TypeInv, Typed, client, ids
<1>3. CASE EngineStop(e)
    <2>1. EngineTyped'
        BY <1>a, <1>3 DEF Typed, EngineTyped, EngineStop
    <2>2. EventsTyped'
        BY <1>a, <1>3, CompleteTyped DEF EngineStop, Ids
    <2> QED
        BY <1>a, <1>b, <1>3, <2>1, <2>2, Kept, TakeTyped
           DEF EngineStop, TypeInv, Typed, client, ids
<1>4. CASE EngineStartStreaming(e)
    <2>1. EngineTyped'
        BY <1>a, <1>4 DEF Typed, EngineTyped, EngineStartStreaming
    <2>2. EventsTyped'
        BY <1>a, <1>4, Kept, CompleteTyped DEF EngineStartStreaming, Ids
    <2>3. DriverTyped'
        BY <1>a, <1>4 DEF Typed, DriverTyped, EngineStartStreaming, driver
    <2> QED
        BY <1>a, <1>b, <1>4, <2>1, <2>2, <2>3, Kept, TakeTyped
           DEF EngineStartStreaming, TypeInv, Typed, client, ids
<1>5. CASE EngineStopStreaming(e)
    <2>1. EngineTyped'
        BY <1>a, <1>5 DEF Typed, EngineTyped, EngineStopStreaming
    <2>2. DriverTyped'
        BY <1>a, <1>5 DEF Typed, DriverTyped, EngineStopStreaming
    <2>3. AlarmTyped'
        BY <1>a, <1>5 DEF Typed, AlarmTyped, EngineStopStreaming, Slot, Slots
    <2> QED
        BY <1>a, <1>b, <1>5, <2>1, <2>2, <2>3, Kept, TakeTyped
           DEF EngineStopStreaming, TypeInv, Typed, client, ids
<1>6. CASE EngineFinished(e)
    <2>1. EngineTyped'
        BY <1>a, <1>6 DEF Typed, EngineTyped, EngineFinished
    <2>2. DriverTyped'
        BY <1>a, <1>6 DEF Typed, DriverTyped, EngineFinished
    <2>3. AlarmTyped'
        BY <1>a, <1>6 DEF Typed, AlarmTyped, EngineFinished
    <2> QED
        BY <1>a, <1>b, <1>6, <2>1, <2>2, <2>3, Kept, TakeTyped
           DEF EngineFinished, TypeInv, Typed, client, ids
<1>7. CASE EngineJoin(e)
    <2>1. EngineTyped'
        BY <1>a, <1>7 DEF Typed, EngineTyped, EngineJoin
    <2>2. EventsTyped'
        BY <1>a, <1>7, CompleteTyped DEF EngineJoin, Ids
    <2>3. DriverTyped'
        BY <1>a, <1>7 DEF Typed, DriverTyped, EngineJoin
    <2> QED
        BY <1>a, <1>b, <1>7, <2>1, <2>2, <2>3, Kept
           DEF EngineJoin, TypeInv, Typed, client, ids
<1>8. CASE EngineFinishedAgain(e)
    BY <1>a, <1>b, <1>8, Kept, TakeTyped DEF EngineFinishedAgain, TypeInv, Typed, client, ids
<1>9. CASE EngineAcquireLock(e)
    <2>1. MasksTyped'
        BY <1>a, <1>9, TakeTyped DEF Typed, MasksTyped, EngineAcquireLock, Tried
    <2>2. EventsTyped'
        BY <1>a, <1>9, Kept, CompleteTyped DEF EngineAcquireLock, Ids
    <2>3. DriverTyped'
        BY <1>a, <1>9 DEF Typed, DriverTyped, EngineAcquireLock
    <2> QED
        BY <1>a, <1>b, <1>9, <2>1, <2>2, <2>3, Kept, TakeTyped
           DEF EngineAcquireLock, TypeInv, Typed, client, ids
<1>10. CASE EngineAaaLocked(e)
    <2>2. EventsTyped'
        BY <1>a, <1>10, CompleteTyped DEF EngineAaaLocked, Ids
    <2>3. DriverTyped'
        BY <1>a, <1>10 DEF Typed, DriverTyped, EngineAaaLocked
    <2> QED
        BY <1>a, <1>b, <1>10, <2>2, <2>3, Kept, TakeTyped
           DEF EngineAaaLocked, TypeInv, Typed, client, ids
<1>11. CASE EngineReleaseLock(e)
    <2>1. MasksTyped'
        BY <1>a, <1>11 DEF Typed, MasksTyped, EngineReleaseLock
    <2>2. EventsTyped'
        BY <1>a, <1>11, CompleteTyped DEF EngineReleaseLock, Ids
    <2>3. DriverTyped'
        BY <1>a, <1>11 DEF Typed, DriverTyped, EngineReleaseLock
    <2> QED
        BY <1>a, <1>b, <1>11, <2>1, <2>2, <2>3, Kept, TakeTyped
           DEF EngineReleaseLock, TypeInv, Typed, client, ids
<1>12. CASE EngineWrongState(e)
    <2>1. PICK s \in DOMAIN Listed, c \in {x.id : x \in Commands} :
             /\ Takes(e, {s}, c)
             /\ IF c \in Silent THEN UNCHANGED events ELSE CamEngineCompleteCommand(e, c)
        BY <1>12 DEF EngineWrongState
    <2>2. EventsTyped'
        BY <1>a, <2>1, Kept, CommandIds, CompleteTyped DEF Silent
    <2> QED
        BY <1>a, <1>b, <1>12, <2>1, <2>2, Kept, TakeTyped
           DEF EngineWrongState, TypeInv, Typed, client, ids
<1> QED
    BY <1>1, <1>2, <1>3, <1>4, <1>5, <1>6, <1>7, <1>8, <1>9, <1>10, <1>11, <1>12 DEF Engine

LEMMA IrqStepTyped ==
    ASSUME TypeInv, NEW e \in Engines, Irq(e) \/ InputEnds(e)
    PROVE  TypeInv'
<1>a. Typed
    BY DEF TypeInv
<1>b. g_idx' = g_idx /\ itf' = itf => g_idx' <= Cardinality(Open')
    BY OpenKept
<1>1. CASE IrqIspOff(e)
    <2>1. DriverTyped'
        BY <1>a, <1>1 DEF Typed, DriverTyped, IrqIspOff
    <2> QED
        BY <1>a, <1>b, <1>1, <2>1, Kept DEF IrqIspOff, TypeInv, Typed, client, ids
<1>2. CASE IrqSend(e)
    <2>1. DriverTyped'
        BY <1>a, <1>2 DEF Typed, DriverTyped, IrqSend
    <2>2. irq[e] \in Ids
        BY <1>a, <1>2 DEF Typed, DriverTyped, IrqSend, Ids
    <2>3. QueueTyped'
        BY <1>a, <1>2, <2>2, CommandTyped, SendTyped DEF IrqSend
    <2> QED
        BY <1>a, <1>b, <1>2, <2>1, <2>3, Kept DEF IrqSend, TypeInv, Typed, client, ids
<1>3. ASSUME NEW settled \in SUBSET Locks, IrqFrameOut(e, settled) PROVE TypeInv'
    <2>1. DriverTyped'
        BY <1>a, <1>3 DEF Typed, DriverTyped, IrqFrameOut
    <2>2. MasksTyped'
        BY <1>a, <1>3 DEF Typed, MasksTyped, IrqFrameOut, Tried
    <2> QED
        BY <1>a, <1>b, <1>3, <2>1, <2>2, Kept DEF IrqFrameOut, TypeInv, Typed, client, ids
<1>4. CASE InputEnds(e)
    <2>1. DriverTyped'
        BY <1>a, <1>4 DEF Typed, DriverTyped, InputEnds
    <2> QED
        BY <1>a, <1>b, <1>4, <2>1, Kept DEF InputEnds, TypeInv, Typed, client, ids
<1> QED
    BY <1>1, <1>2, <1>3, <1>4 DEF Irq

LEMMA AlarmStepTyped ==
    ASSUME TypeInv, Alarm \/ HandlerSends
    PROVE  TypeInv'
<1>a. Typed
    BY DEF TypeInv
<1>b. g_idx' = g_idx /\ itf' = itf => g_idx' <= Cardinality(Open')
    BY OpenKept
<1>c. NoSlot \notin Slots
    BY DEF NoSlot, Slots
<1>1. CASE Alarm
    <2>1. AlarmTyped'
        BY <1>a, <1>1 DEF Typed, AlarmTyped, Alarm
    <2> QED
        BY <1>a, <1>b, <1>1, <2>1, Kept DEF Alarm, TypeInv, Typed, client, ids
<1>2. CASE HandlerSends
    <2>1. AlarmTyped'
        BY <1>a, <1>2 DEF Typed, AlarmTyped, HandlerSends
    <2>2. QueueTyped'
        <3>1. CASE g_pCamEngineCtx[handler] = None
            BY <1>a, <1>2, <3>1, Kept DEF HandlerSends
        <3>2. CASE g_pCamEngineCtx[handler] # None
            <4>1. g_pCamEngineCtx[handler] \in Engines
                BY <1>a, <1>2, <3>2 DEF Typed, AlarmTyped, HandlerSends
            <4>2. Command("HW_STREAMING_FINISHED") \in Commands
                BY CommandTyped DEF Ids
            <4> QED
                BY <1>a, <1>2, <3>2, <4>1, <4>2, SendTyped DEF HandlerSends
        <3> QED
            BY <3>1, <3>2
    <2> QED
        BY <1>a, <1>b, <1>2, <2>1, <2>2, Kept DEF HandlerSends, TypeInv, Typed, client, ids
<1> QED
    BY <1>1, <1>2

(* A call of the interface, whichever it is                                   *)
LEMMA CallTyped ==
    ASSUME TypeInv, NEW e \in Engines, NEW s, NEW c \in Commands,
           NEW i \in Ids, NEW then \in Places \ {None}, NEW l \in SUBSET Locks,
           Calls(e, s, c, Wait(i, then, l))
    PROVE  TypeInv'
<1>a. Typed
    BY DEF TypeInv
<1>1. QueueTyped'
    BY <1>a, SendTyped, Kept DEF Calls
<1>2. ItfTyped'
    BY <1>a DEF Typed, ItfTyped, Calls, Wait
<1>3. CallerTyped'
    BY <1>a DEF Typed, CallerTyped, Calls, Wait
<1>4. g_idx' <= Cardinality(Open')
    <2>1. \A f \in Engines : itf[f] # None => itf'[f] # None
        BY <1>a DEF Typed, ItfTyped, Calls, Wait
    <2> QED
        BY <2>1, OpenKept DEF Calls, ids
<1> QED
    BY <1>a, <1>1, <1>2, <1>3, <1>4, Kept DEF Calls, TypeInv, Typed

LEMMA CallsTyped ==
    ASSUME TypeInv, NEW e \in Engines,
           Connect(e) \/ Disconnect(e) \/ Start(e) \/ Stop(e) \/ SearchAndLock(e) \/ Unlock(e)
    PROVE  TypeInv'
<1>a. /\ itf \in [Engines -> Places] /\ {} \in SUBSET Locks
      /\ {None, "Invalid", "Idle", "Running", "Paused"} = Places
    BY DEF TypeInv, Typed, ItfTyped, Places
<1>b. {"START", "STOP", "START_STREAMING", "STOP_STREAMING", "ACQUIRE_LOCK", "RELEASE_LOCK"}
         \subseteq Ids
    BY DEF Ids
<1>1. CASE Connect(e)
    BY <1>a, <1>b, <1>1, CallTyped, CommandTyped DEF Connect, None
<1>2. CASE Disconnect(e)
    BY <1>a, <1>b, <1>2, CallTyped, CommandTyped DEF Disconnect, None
<1>3. CASE Start(e)
    <2>1. PICK counted \in BOOLEAN :
             Calls(e, "RUNNING", [Command("START_STREAMING") EXCEPT !.counted = counted],
                   Wait("START_STREAMING", "Running", {}))
        BY <1>3 DEF Start
    <2>2. [Command("START_STREAMING") EXCEPT !.counted = counted] \in Commands
        BY DEF Command, Commands
    <2> QED
        BY <1>a, <1>b, <2>1, <2>2, CallTyped DEF None
<1>4. CASE Stop(e)
    <2>1. PICK then \in {"Idle", "Paused"} :
             Calls(e, "STREAMING", Command("STOP_STREAMING"), Wait("STOP_STREAMING", then, {}))
        BY <1>4 DEF Stop
    <2> QED
        BY <1>a, <1>b, <2>1, CallTyped, CommandTyped DEF None
<1>5. ASSUME NEW id \in {"ACQUIRE_LOCK", "RELEASE_LOCK"}, NEW l \in SUBSET Locks,
             Free(e, {"Idle", "Paused", "Running"}),
             Calls(e, "STREAMING", [Command(id) EXCEPT !.locks = l], Wait(id, itf[e], l))
      PROVE  TypeInv'
    <2>1. [Command(id) EXCEPT !.locks = l] \in Commands
        BY <1>5 DEF Command, Commands
    <2>2. itf[e] \in Places \ {None}
        BY <1>a, <1>5 DEF Free, None
    <2> QED
        BY <1>b, <1>5, <2>1, <2>2, CallTyped
<1> QED
    BY <1>1, <1>2, <1>3, <1>4, <1>5 DEF SearchAndLock, Unlock

LEMMA CreateTyped ==
    ASSUME TypeInv, NEW e \in Engines, Create(e)
    PROVE  TypeInv'
<1>a. Typed
    BY DEF TypeInv
<1>1. EngineTyped'
    BY <1>a DEF Typed, EngineTyped, Create
<1>2. QueueTyped'
    BY <1>a DEF Typed, QueueTyped, Create
<1>3. DriverTyped'
    BY <1>a DEF Typed, DriverTyped, Create
<1>4. MasksTyped'
    BY <1>a DEF Typed, MasksTyped, Create
<1>5. ItfTyped' /\ EventsTyped'
    BY <1>a DEF Typed, ItfTyped, EventsTyped, Create, Places
<1>6. Open' = Open \union {e} /\ e \notin Open
    BY <1>a DEF Typed, ItfTyped, Create, Free, Open, None
<1>7. Cardinality(Open') = Cardinality(Open) + 1 /\ Cardinality(Open') <= Cardinality(Engines)
    <2>1. Cardinality(Open') = Cardinality(Open) + 1
        BY <1>6, OpenFinite, FS_AddElement
    <2>2. Open' \subseteq Engines
        BY <1>6 DEF Open
    <2> QED
        BY <2>1, <2>2, OpenFinite, FS_Subset
<1>8. IdsTyped' /\ g_idx' <= Cardinality(Open')
    <2>1. /\ g_idx \in Nat /\ g_idx <= Cardinality(Open) /\ g_idx' = g_idx + 1
          /\ index' = [index EXCEPT ![e] = g_idx]
        BY <1>a, OpenFinite DEF TypeInv, Typed, IdsTyped, Create
    <2>2. g_idx \in 0 .. Cardinality(Engines) - 1 /\ g_idx' <= Cardinality(Open')
        BY <1>7, <2>1, OpenFinite
    <2>3. index' \in [Engines -> 0 .. Cardinality(Engines) - 1]
        BY <1>a, <2>1, <2>2 DEF Typed, IdsTyped
    <2> QED
        BY <2>1, <2>2, <2>3, OpenFinite DEF IdsTyped
<1> QED
    BY <1>a, <1>1, <1>2, <1>3, <1>4, <1>5, <1>8, Kept DEF Create, TypeInv, Typed

LEMMA OtherStepTyped ==
    ASSUME TypeInv, NEW e \in Engines, Delete(e) \/ Destroy(e) \/ StopPaused(e) \/ Return(e)
    PROVE  TypeInv'
<1>a. Typed
    BY DEF TypeInv
<1>1. CASE Delete(e)
    <2>1. QueueTyped'
        BY <1>a, <1>1, CommandTyped, SendTyped DEF Delete, Ids
    <2>2. CallerTyped'
        BY <1>a, <1>1 DEF Typed, CallerTyped, Delete, Wait, Ids, Places
    <2>3. g_idx' <= Cardinality(Open')
        BY <1>1, OpenKept DEF Delete, ids
    <2> QED
        BY <1>a, <1>1, <2>1, <2>2, <2>3, Kept DEF Delete, TypeInv, Typed
<1>2. CASE Destroy(e)
    <2>1. QueueTyped'
        BY <1>a, <1>2 DEF Typed, QueueTyped, Destroy
    <2>2. CallerTyped' /\ ItfTyped'
        BY <1>a, <1>2 DEF Typed, CallerTyped, ItfTyped, Destroy, NoCall, Ids, Places
    <2>3. DriverTyped'
        BY <1>a, <1>2 DEF Typed, DriverTyped, Destroy
    <2>4. IdsTyped'
        BY <1>a, <1>2, OpenFinite DEF Typed, IdsTyped, Destroy
    <2>5. g_idx' <= Cardinality(Open')
        <3>1. IsFiniteSet(Open')
            BY OpenFinite, FS_Subset DEF Open
        <3> QED
            BY <1>2, <3>1, FS_CardinalityType DEF Destroy
    <2> QED
        BY <1>a, <1>2, <2>1, <2>2, <2>3, <2>4, <2>5, Kept DEF Destroy, TypeInv, Typed
<1>3. CASE StopPaused(e)
    <2>1. ItfTyped' /\ \A f \in Engines : itf[f] # None => itf'[f] # None
        BY <1>a, <1>3 DEF Typed, ItfTyped, StopPaused, Places, None
    <2>2. g_idx' <= Cardinality(Open')
        BY <1>3, <2>1, OpenKept DEF StopPaused, ids
    <2> QED
        BY <1>a, <1>3, <2>1, <2>2, Kept DEF StopPaused, TypeInv, Typed
<1>4. CASE Return(e)
    <2>1. caller[e].event \in Ids \ {"SHUTDOWN"}
        BY <1>a, <1>4 DEF Typed, EventsTyped, Return
    <2>2. caller[e].then \in Places \ {None}
        BY <1>a, <2>1 DEF Typed, CallerTyped, None, Ids
    <2>3. EventsTyped'
        BY <1>a, <1>4 DEF Typed, EventsTyped, Return
    <2>4. CallerTyped'
        BY <1>a, <1>4 DEF Typed, CallerTyped, Return, NoCall, Places
    <2>5. ItfTyped' /\ \A f \in Engines : itf[f] # None => itf'[f] # None
        BY <1>a, <1>4, <2>2 DEF Typed, ItfTyped, Return
    <2>6. g_idx' <= Cardinality(Open')
        BY <1>4, <2>5, OpenKept DEF Return, ids
    <2> QED
        BY <1>a, <1>4, <2>3, <2>4, <2>5, <2>6, Kept DEF Return, TypeInv, Typed
<1> QED
    BY <1>1, <1>2, <1>3, <1>4

LEMMA InitTyped ==
    ASSUME Init
    PROVE  TypeInv
<1>1. EngineTyped /\ QueueTyped /\ MasksTyped
    BY DEF Init, EngineTyped, QueueTyped, MasksTyped
<1>2. DriverTyped /\ ItfTyped /\ EventsTyped
    BY DEF Init, DriverTyped, ItfTyped, EventsTyped, Places
<1>3. CallerTyped /\ AlarmTyped
    BY DEF Init, CallerTyped, AlarmTyped, NoCall, Places
<1>4. IdsTyped
    <2>1. Cardinality(Engines) # 0
        BY CamEngineAssumption, FS_EmptySet
    <2> QED
        BY <2>1, OpenFinite DEF Init, IdsTyped
<1> QED
    BY <1>1, <1>2, <1>3, <1>4, OpenFinite DEF Init, TypeInv, Typed

LEMMA TypeInvStep ==
    ASSUME TypeInv, [Next]_vars
    PROVE  TypeInv'
<1>1. ASSUME NEW e \in Engines, Client(e) PROVE TypeInv'
    BY <1>1, CallsTyped, CreateTyped, OtherStepTyped DEF Client
<1>2. ASSUME NEW e \in Engines, Return(e) \/ Destroy(e) \/ Engine(e) \/ Irq(e) \/ InputEnds(e)
      PROVE  TypeInv'
    BY <1>2, OtherStepTyped, EngineStepTyped, IrqStepTyped
<1>3. CASE UNCHANGED vars
    <2>1. UNCHANGED <<state, commandQueue, thread, driver, masks, itf, caller, events, ids, alarm>>
        BY <1>3 DEF vars, client
    <2>2. Open' = Open
        BY <2>1 DEF Open
    <2> QED
        BY <2>1, <2>2, Kept DEF TypeInv, Typed, ids
<1> QED
    BY <1>1, <1>2, <1>3, AlarmStepTyped DEF Next

(* Each variable has its type for any number of engines: g_idx, from which    *)
(* the alarm handler of an engine is chosen, counts no further than engines   *)
(* there are, although each shutdown sets it back while others are in use.    *)
THEOREM EngineTypesCorrect == Spec => []TypeOK
<1>1. TypeInv => TypeOK
    BY TypeParts DEF TypeInv
<1> QED
    BY <1>1, InitTyped, TypeInvStep, PTL DEF Spec
-----------------------------------------------------------------------------
HW  == "HW_STREAMING_FINISHED"
AAA == "AAA_LOCKED"
Bit(b) == IF b THEN 1 ELSE 0

Clear(q) == \A i \in 1..Len(q) : q[i].id = HW
One(q, c) == \E i \in 1..Len(q) : /\ q[i] = c
                                  /\ \A j \in 1..Len(q) : j # i => q[j].id = HW
Last(q, c) == /\ Len(q) > 0 /\ q[Len(q)] = c
              /\ \A j \in 1..(Len(q) - 1) : q[j].id = HW

NoAlarm == /\ \A i \in Slots : g_pCamEngineCtx[i] = None
           /\ timer = NoSlot /\ handler = NoSlot

Off(e) == /\ thread[e] = "read" /\ DriverState[e] \in {"INIT", "stopped"}
          /\ ~ subCtrls[e] /\ irq[e] = None /\ NoAlarm

On(e) == /\ thread[e] = "read" /\ DriverState[e] = "running" /\ subCtrls[e]
         /\ input[e] \in {"on", "counted", "off"} /\ NoAlarm

\* What is, or can come, in the queue of a streaming engine: the end of a counted
\* capture, and that of the stop which is to follow.
Load(e) == Len(commandQueue[e]) + Bit(irq[e] = HW) + Bit(ispOff[e])
              + (IF input[e] = "counted" THEN 2 ELSE 1)

Ready(e, place, k) ==
    \/ place = "Invalid" /\ state[e] = "INITIALIZED" /\ Off(e) /\ Len(commandQueue[e]) = k
    \/ place \in {"Idle", "Paused"} /\ state[e] = "RUNNING" /\ Off(e)
       /\ Len(commandQueue[e]) <= 3 + k
    \/ place = "Running" /\ state[e] = "STREAMING" /\ On(e) /\ Load(e) <= 3 + k /\ irq[e] # AAA

Moves(from, id, to) ==
    \/ id = "SHUTDOWN" /\ from = "Invalid" /\ to = None
    \/ id = "START" /\ from = "Invalid" /\ to = "Idle"
    \/ id = "STOP" /\ from = "Idle" /\ to = "Invalid"
    \/ id = "START_STREAMING" /\ from \in {"Idle", "Paused"} /\ to = "Running"
    \/ id = "STOP_STREAMING" /\ from = "Running" /\ to \in {"Idle", "Paused"}
    \/ id \in {"ACQUIRE_LOCK", "RELEASE_LOCK"} /\ from = "Running" /\ to = "Running"

Gone(e) == /\ state[e] = "INVALID" /\ thread[e] = "exit" /\ commandQueue[e] = <<>>
           /\ irq[e] = None /\ ~ subCtrls[e] /\ DriverState[e] # "running"

Absent(e) == caller[e] = NoCall /\ itf[e] = None /\ events[e] = {} /\ Gone(e) /\ ~ eventCb[e]

Rest(e) == /\ caller[e] = NoCall /\ events[e] = {}
           /\ Clear(commandQueue[e]) /\ Ready(e, itf[e], 0) /\ ~ eventCb[e]

Sent(e) == /\ events[e] = {} /\ ~ eventCb[e] /\ Ready(e, itf[e], 1)
           /\ Moves(itf[e], caller[e].event, caller[e].then)
           /\ \E c \in Commands : /\ c.id = caller[e].event /\ c.locks = caller[e].locks
                                  /\ One(commandQueue[e], c)
                                  /\ itf[e] # "Running" => Last(commandQueue[e], c)

Done(e) == /\ caller[e].event # "SHUTDOWN" /\ events[e] = {caller[e].event} /\ ~ eventCb[e]
           /\ itf[e] # None
           /\ Moves(itf[e], caller[e].event, caller[e].then)
           /\ Clear(commandQueue[e]) /\ Ready(e, caller[e].then, 0)
           /\ caller[e].event = "ACQUIRE_LOCK" => caller[e].locks \subseteq aaa[e]
           /\ caller[e].event = "RELEASE_LOCK" =>
                 caller[e].locks \intersect (aaa[e] \union LockMask[e]) = {}

\* The same for an engine that is stopping
Ends(e) == Len(commandQueue[e]) + Bit(irq[e] = HW) + Bit(ispOff[e]) + Bit(input[e] = "ending")

Stopping(e) ==
    /\ caller[e].event = "STOP_STREAMING" /\ itf[e] = "Running"
    /\ caller[e].then \in {"Idle", "Paused"}
    /\ events[e] = {} /\ ~ eventCb[e]
    /\ state[e] = "RUNNING" /\ thread[e] = "read" /\ DriverState[e] = "running" /\ subCtrls[e]
    /\ input[e] \in {"ending", "off"} /\ irq[e] # AAA
    /\ g_pCamEngineCtx[0] = e /\ g_pCamEngineCtx[1] = None
    /\ timer # 1 /\ handler # 1 /\ (timer = NoSlot \/ handler = NoSlot)
    /\ Clear(commandQueue[e])
    /\ Ends(e) + Bit(timer # NoSlot \/ handler # NoSlot) <= 4

Joining(e) ==
    /\ caller[e].event = "STOP_STREAMING" /\ itf[e] = "Running"
    /\ caller[e].then \in {"Idle", "Paused"}
    /\ events[e] = {} /\ ~ eventCb[e]
    /\ state[e] = "RUNNING" /\ thread[e] = "join" /\ DriverState[e] = "stopping" /\ subCtrls[e]
    /\ irq[e] # AAA /\ NoAlarm
    /\ Clear(commandQueue[e])
    /\ Len(commandQueue[e]) + Bit(irq[e] = HW) <= 3

Searching(e) ==
    /\ caller[e].event = "ACQUIRE_LOCK" /\ itf[e] = "Running" /\ caller[e].then = "Running"
    /\ events[e] = {} /\ eventCb[e]
    /\ state[e] = "STREAMING" /\ On(e)
    /\ caller[e].locks \subseteq aaa[e] \union LockMask[e]
    /\ \/ /\ Clear(commandQueue[e]) /\ Load(e) <= 3
          /\ irq[e] = AAA => LockMask[e] = {}
       \/ /\ One(commandQueue[e], Command(AAA)) /\ Load(e) <= 4
          /\ irq[e] # AAA /\ LockMask[e] = {}

Shut(e) == /\ caller[e].event = "SHUTDOWN" /\ itf[e] = "Invalid" /\ events[e] = {}
           /\ Gone(e) /\ ~ eventCb[e] /\ NoAlarm

Phase(e) == \/ Absent(e) \/ Rest(e) \/ Sent(e) \/ Done(e)
            \/ Stopping(e) \/ Joining(e) \/ Searching(e) \/ Shut(e)

OneAtATime == \A e, f \in Engines : itf[e] # None /\ itf[f] # None => e = f

EngineInv ==
    /\ exited = None
    /\ \A e \in Engines : Phase(e) /\ (itf[e] # None => index[e] = 0)
    /\ (\A e \in Engines : itf[e] = None) => NoAlarm /\ g_idx = 0


LEMMA ClearTail ==
    ASSUME NEW q \in Seq(Commands), q # <<>>, Clear(q)
    PROVE  Head(q).id = HW /\ Clear(Tail(q))
BY DEF Clear

LEMMA OneTail ==
    ASSUME NEW q \in Seq(Commands), q # <<>>, NEW c \in Commands, c.id # HW, One(q, c)
    PROVE  /\ Head(q).id = HW => One(Tail(q), c)
           /\ Head(q).id # HW => Head(q) = c /\ Clear(Tail(q))
<1>1. PICK i \in 1..Len(q) : q[i] = c /\ \A j \in 1..Len(q) : j # i => q[j].id = HW
    BY DEF One
<1>2. CASE Head(q).id # HW
    BY <1>1, <1>2 DEF Clear
<1>3. CASE Head(q).id = HW
    <2>a. /\ Len(Tail(q)) = Len(q) - 1 /\ Len(q) \in Nat /\ Head(q) = q[1]
          /\ \A j \in 1..Len(Tail(q)) : Tail(q)[j] = q[j + 1]
        OBVIOUS
    <2>b. i # 1
        BY <1>1, <1>3, <2>a
    <2>1. i - 1 \in 1..Len(Tail(q)) /\ Tail(q)[i - 1] = c
        <3>1. i - 1 \in 1..Len(Tail(q)) /\ (i - 1) + 1 = i
            BY <2>a, <2>b
        <3> QED
            BY <1>1, <2>a, <3>1
    <2>2. \A j \in 1..Len(Tail(q)) : j # i - 1 => Tail(q)[j].id = HW
        BY <1>1, <2>a
    <2> QED
        BY <1>3, <2>1, <2>2 DEF One
<1> QED
    BY <1>2, <1>3

LEMMA LastTail ==
    ASSUME NEW q \in Seq(Commands), q # <<>>, NEW c \in Commands, c.id # HW, Last(q, c)
    PROVE  /\ Head(q).id = HW => Last(Tail(q), c)
           /\ Head(q).id # HW => Tail(q) = <<>>
BY DEF Last

LEMMA ClearAppend ==
    ASSUME NEW q \in Seq(Commands), NEW c \in Commands, Clear(q)
    PROVE  /\ c.id = HW => Clear(Append(q, c))
           /\ One(Append(q, c), c) /\ Last(Append(q, c), c)
           /\ Append(q, c) \in Seq(Commands) /\ Len(Append(q, c)) = Len(q) + 1
<1> DEFINE r == Append(q, c)
<1>1. /\ r \in Seq(Commands) /\ Len(r) = Len(q) + 1 /\ r[Len(q) + 1] = c
      /\ \A i \in 1..Len(q) : r[i] = q[i]
    OBVIOUS
<1> HIDE DEF r
<1>2. c.id = HW => Clear(r)
    BY <1>1 DEF Clear
<1>3. One(r, c)
    <2>1. Len(q) + 1 \in 1..Len(r)
        BY <1>1
    <2>2. \A j \in 1..Len(r) : j # Len(q) + 1 => r[j].id = HW
        BY <1>1 DEF Clear
    <2> QED
        BY <1>1, <2>1, <2>2 DEF One
<1>4. Last(r, c)
    BY <1>1 DEF Clear, Last
<1> QED
    BY <1>1, <1>2, <1>3, <1>4 DEF r

LEMMA OneAppend ==
    ASSUME NEW q \in Seq(Commands), NEW c, NEW d \in Commands, d.id = HW, One(q, c)
    PROVE  One(Append(q, d), c)
<1> DEFINE r == Append(q, d)
<1>1. /\ Len(r) = Len(q) + 1 /\ r[Len(q) + 1] = d
      /\ \A i \in 1..Len(q) : r[i] = q[i]
    OBVIOUS
<1> HIDE DEF r
<1>2. One(r, c)
    BY <1>1 DEF One
<1> QED
    BY <1>2 DEF r
-----------------------------------------------------------------------------
(* A step of one engine leaves the others as they are.                        *)

Same(f) == /\ state'[f] = state[f] /\ commandQueue'[f] = commandQueue[f]
           /\ thread'[f] = thread[f] /\ DriverState'[f] = DriverState[f]
           /\ subCtrls'[f] = subCtrls[f] /\ irq'[f] = irq[f] /\ eventCb'[f] = eventCb[f]
           /\ itf'[f] = itf[f] /\ caller'[f] = caller[f] /\ events'[f] = events[f]

LEMMA NoItfAbsent ==
    ASSUME NEW e \in Engines, Phase(e), itf[e] = None
    PROVE  Absent(e)
BY DEF Phase, Rest, Sent, Done, Stopping, Joining, Searching, Shut, Ready, Moves, None

LEMMA AbsentKept ==
    ASSUME NEW f, Absent(f), Same(f)
    PROVE  Absent(f)'
BY DEF Absent, Gone, Same

LEMMA OthersAbsent ==
    ASSUME EngineInv, OneAtATime, NEW e \in Engines, itf[e] # None,
           NEW f \in Engines, f # e
    PROVE  itf[f] = None /\ Absent(f)
<1>1. itf[f] = None
    BY DEF OneAtATime
<1>2. Phase(f)
    BY DEF EngineInv
<1> QED
    BY <1>1, <1>2, NoItfAbsent

LEMMA OneStep ==
    ASSUME EngineInv, OneAtATime, NEW e \in Engines, itf[e] # None,
           \A f \in Engines : f # e => Same(f),
           Phase(e)', itf'[e] # None, exited' = None, UNCHANGED ids
    PROVE  EngineInv'
<1>1. index' = index
    BY DEF ids
<1>2. \A f \in Engines : Phase(f)' /\ (itf'[f] # None => index'[f] = 0)
    <2>1. ASSUME NEW f \in Engines, f # e PROVE Phase(f)' /\ itf'[f] = None
        BY <2>1, OthersAbsent, AbsentKept DEF Phase, Same
    <2>2. index[e] = 0
        BY DEF EngineInv
    <2> QED
        BY <1>1, <2>1, <2>2
<1> QED
    BY <1>2 DEF EngineInv

LEMMA BitIs == \A b : Bit(b) \in {0, 1}
BY DEF Bit

LEMMA SumNat ==
    ASSUME NEW l \in Nat, NEW i \in {0, 1}, NEW o \in {0, 1}, NEW n \in {0, 1, 2}
    PROVE  l + i + o + n \in Nat
OBVIOUS

(* Where a command is handled, and what the queue holds then                  *)
LEMMA HeadSent ==
    ASSUME TypeInv, NEW e \in Engines, Phase(e), NEW s, NEW id, Takes(e, s, id), id # HW, id # AAA
    PROVE  /\ Sent(e) /\ caller[e].event = id
           /\ Head(commandQueue[e]).locks = caller[e].locks
           /\ commandQueue'[e] = Tail(commandQueue[e]) /\ Clear(commandQueue'[e])
           /\ Len(commandQueue'[e]) = Len(commandQueue[e]) - 1 /\ Len(commandQueue[e]) \in Nat
           /\ itf[e] # "Running" => commandQueue'[e] = <<>>
<1> DEFINE q == commandQueue[e]
<1>1. /\ q \in Seq(Commands) /\ q # <<>> /\ Head(q).id = id /\ Len(q) \in Nat
      /\ commandQueue'[e] = Tail(q) /\ Len(Tail(q)) = Len(q) - 1
    BY DEF TypeInv, Typed, QueueTyped, Takes
<1>2. ~ Clear(q)
    BY <1>1, ClearTail
<1>3. ~ One(q, Command(AAA))
    BY <1>1, OneTail, CommandTyped DEF Ids, HW, AAA
<1>4. ~ Absent(e) /\ ~ Shut(e)
    BY <1>1 DEF Absent, Shut, Gone
<1>5. Sent(e)
    BY <1>2, <1>3, <1>4 DEF Phase, Rest, Done, Stopping, Joining, Searching
<1>6. PICK c \in Commands : /\ c.id = caller[e].event /\ c.locks = caller[e].locks
                            /\ One(q, c) /\ (itf[e] # "Running" => Last(q, c))
    BY <1>5 DEF Sent
<1>7. c.id # HW
    BY <1>5, <1>6 DEF Sent, Moves, HW
<1>8. Head(q) = c /\ Clear(Tail(q)) /\ (itf[e] # "Running" => Tail(q) = <<>>)
    BY <1>1, <1>6, <1>7, OneTail, LastTail
<1> HIDE DEF q
<1> QED
    BY <1>1, <1>5, <1>6, <1>8 DEF q

LEMMA EngineSame ==
    ASSUME TypeInv, NEW e \in Engines, Engine(e), NEW f \in Engines, f # e
    PROVE  Same(f)
<1>1. Typed
    BY DEF TypeInv
<1>2. CASE EngineShutdown(e) \/ EngineStart(e) \/ EngineStop(e) \/ EngineFinishedAgain(e)
    BY <1>1, <1>2
       DEF Typed, EngineTyped, QueueTyped, EventsTyped, EngineShutdown, EngineStart, EngineStop,
           EngineFinishedAgain, Takes, CamEngineCompleteCommand, driver, client, Same
<1>3. CASE EngineStartStreaming(e)
    BY <1>1, <1>3
       DEF Typed, EngineTyped, QueueTyped, EventsTyped, DriverTyped, EngineStartStreaming, Takes,
           CamEngineCompleteCommand, driver, client, Same
<1>4. CASE EngineStopStreaming(e) \/ EngineFinished(e)
    BY <1>1, <1>4
       DEF Typed, EngineTyped, QueueTyped, DriverTyped, EngineStopStreaming, EngineFinished,
           Takes, client, Same
<1>5. CASE EngineJoin(e)
    BY <1>1, <1>5
       DEF Typed, EngineTyped, EventsTyped, DriverTyped, EngineJoin, CamEngineCompleteCommand,
           client, Same
<1>6. CASE EngineAcquireLock(e)
    BY <1>1, <1>6
       DEF Typed, QueueTyped, EventsTyped, DriverTyped, EngineAcquireLock, Takes,
           CamEngineCompleteCommand, client, Same
<1>7. CASE EngineAaaLocked(e) \/ EngineReleaseLock(e)
    BY <1>1, <1>7
       DEF Typed, QueueTyped, EventsTyped, DriverTyped, EngineAaaLocked, EngineReleaseLock, Takes,
           CamEngineCompleteCommand, client, Same
<1>8. CASE EngineWrongState(e)
    BY <1>1, <1>8
       DEF Typed, QueueTyped, EventsTyped, EngineWrongState, Takes,
           CamEngineCompleteCommand, driver, client, Same
<1> QED
    BY <1>2, <1>3, <1>4, <1>5, <1>6, <1>7, <1>8 DEF Engine

LEMMA IrqSame ==
    ASSUME TypeInv, NEW e \in Engines, Irq(e) \/ InputEnds(e), NEW f \in Engines, f # e
    PROVE  Same(f)
<1>1. Typed
    BY DEF TypeInv
<1>2. CASE IrqIspOff(e) \/ InputEnds(e) \/ \E settled \in SUBSET Locks : IrqFrameOut(e, settled)
    BY <1>1, <1>2 DEF Typed, DriverTyped, IrqIspOff, InputEnds, IrqFrameOut, client, Same
<1>3. CASE IrqSend(e)
    BY <1>1, <1>3
       DEF Typed, DriverTyped, QueueTyped, IrqSend, CamEngineSendCommand, client, Same
<1> QED
    BY <1>2, <1>3 DEF Irq

LEMMA ClientSame ==
    ASSUME TypeInv, NEW e \in Engines, Client(e) \/ Return(e) \/ Destroy(e),
           NEW f \in Engines, f # e
    PROVE  Same(f)
<1>1. Typed
    BY DEF TypeInv
<1>2. CASE Create(e) \/ Destroy(e)
    BY <1>1, <1>2
       DEF Typed, EngineTyped, QueueTyped, DriverTyped, ItfTyped, CallerTyped, EventsTyped,
           Create, Destroy, Same
<1>3. CASE Delete(e)
    BY <1>1, <1>3
       DEF Typed, QueueTyped, CallerTyped, Delete, CamEngineSendCommand, driver, Same
<1>4. ASSUME NEW s, NEW c, NEW w, Calls(e, s, c, w) PROVE Same(f)
    BY <1>1, <1>4
       DEF Typed, QueueTyped, CallerTyped, ItfTyped, Calls, CamEngineSendCommand, driver, Same
<1>5. CASE StopPaused(e) \/ Return(e)
    BY <1>1, <1>5
       DEF Typed, CallerTyped, ItfTyped, EventsTyped, StopPaused, Return, driver, Same
<1> QED
    BY <1>2, <1>3, <1>4, <1>5
       DEF Client, Connect, Disconnect, Start, Stop, SearchAndLock, Unlock
-----------------------------------------------------------------------------
(* The steps of the engine thread                                            *)

LEMMA OffKept ==
    ASSUME NEW e, Off(e), UNCHANGED <<thread, driver, alarm>>
    PROVE  Off(e)'
BY DEF Off, NoAlarm, driver, alarm

LEMMA EmptyClear == Clear(<<>>) /\ Len(<<>>) = 0
BY DEF Clear

LEMMA ShutdownPhase ==
    ASSUME TypeInv, NEW e \in Engines, Phase(e), EngineShutdown(e)
    PROVE  Shut(e)'
<1>1. /\ Sent(e) /\ caller[e].event = "SHUTDOWN"
      /\ itf[e] # "Running" => commandQueue'[e] = <<>>
    BY HeadSent DEF EngineShutdown, HW, AAA
<1>2. itf[e] = "Invalid" /\ Off(e) /\ events[e] = {} /\ ~ eventCb[e]
    BY <1>1 DEF Sent, Moves, Ready
<1>3. /\ state'[e] = "INVALID" /\ thread'[e] = "exit"
      /\ UNCHANGED <<driver, client, events, alarm>>
    BY DEF TypeInv, Typed, EngineTyped, EngineShutdown
<1> QED
    BY <1>1, <1>2, <1>3 DEF Shut, Gone, Off, NoAlarm, driver, client, alarm

LEMMA StartPhase ==
    ASSUME TypeInv, NEW e \in Engines, Phase(e), EngineStart(e)
    PROVE  Done(e)'
<1>1. /\ Sent(e) /\ caller[e].event = "START"
      /\ itf[e] # "Running" => commandQueue'[e] = <<>>
    BY HeadSent DEF EngineStart, HW, AAA
<1>2. /\ itf[e] = "Invalid" /\ caller[e].then = "Idle" /\ Off(e)
      /\ events[e] = {} /\ ~ eventCb[e]
    BY <1>1 DEF Sent, Moves, Ready
<1>3. /\ state'[e] = "RUNNING" /\ events'[e] = {"START"}
      /\ UNCHANGED <<thread, driver, client, alarm>>
    BY <1>2 DEF TypeInv, Typed, EngineTyped, EventsTyped, EngineStart, CamEngineCompleteCommand
<1>4. Off(e)'
    BY <1>2, <1>3, OffKept
<1>5. Ready(e, "Idle", 0)'
    BY <1>1, <1>2, <1>3, <1>4, EmptyClear DEF Ready
<1> QED
    BY <1>1, <1>2, <1>3, <1>5, EmptyClear DEF Done, Moves, driver, client, None

LEMMA StopPhase ==
    ASSUME TypeInv, NEW e \in Engines, Phase(e), EngineStop(e)
    PROVE  Done(e)'
<1>1. /\ Sent(e) /\ caller[e].event = "STOP"
      /\ itf[e] # "Running" => commandQueue'[e] = <<>>
    BY HeadSent DEF EngineStop, HW, AAA
<1>2. /\ itf[e] = "Idle" /\ caller[e].then = "Invalid" /\ Off(e)
      /\ events[e] = {} /\ ~ eventCb[e]
    BY <1>1 DEF Sent, Moves, Ready
<1>3. /\ state'[e] = "INITIALIZED" /\ events'[e] = {"STOP"}
      /\ UNCHANGED <<thread, driver, client, alarm>>
    BY <1>2 DEF TypeInv, Typed, EngineTyped, EventsTyped, EngineStop, CamEngineCompleteCommand
<1>4. Off(e)'
    BY <1>2, <1>3, OffKept
<1>5. Ready(e, "Invalid", 0)'
    BY <1>1, <1>2, <1>3, <1>4, EmptyClear DEF Ready
<1> QED
    BY <1>1, <1>2, <1>3, <1>5, EmptyClear DEF Done, Moves, driver, client, None

(* The driver is not running when it is started.                              *)
LEMMA StartStreamingPhase ==
    ASSUME TypeInv, NEW e \in Engines, Phase(e), EngineStartStreaming(e)
    PROVE  Done(e)' /\ exited' = exited
<1>1. /\ Sent(e) /\ caller[e].event = "START_STREAMING"
      /\ itf[e] # "Running" => commandQueue'[e] = <<>>
    BY HeadSent DEF EngineStartStreaming, HW, AAA
<1>2. /\ itf[e] \in {"Idle", "Paused"} /\ caller[e].then = "Running" /\ Off(e)
      /\ events[e] = {} /\ ~ eventCb[e]
    BY <1>1 DEF Sent, Moves, Ready
<1>3. DriverState[e] # "running"
    BY <1>2 DEF Off
<1>4. /\ state'[e] = "STREAMING" /\ events'[e] = {"START_STREAMING"}
      /\ subCtrls'[e] /\ DriverState'[e] = "running" /\ input'[e] \in {"counted", "on"}
      /\ UNCHANGED <<thread, ispOff, irq, eventCb, client, alarm, exited>>
    BY <1>2, <1>3
       DEF TypeInv, Typed, EngineTyped, EventsTyped, DriverTyped, EngineStartStreaming,
           CamEngineCompleteCommand
<1>5. On(e)'
    BY <1>2, <1>4 DEF Off, On, NoAlarm, alarm
<1>6. irq'[e] = None /\ Load(e)' <= 3
    <2>1. commandQueue'[e] = <<>> /\ irq'[e] = None
        BY <1>1, <1>2, <1>4 DEF Off
    <2>2. Len(commandQueue'[e]) = 0 /\ Bit(irq'[e] = HW) = 0
        BY <2>1, EmptyClear DEF Bit, HW, None
    <2> QED
        BY <2>1, <2>2 DEF Load, Bit
<1>7. Ready(e, "Running", 0)'
    BY <1>4, <1>5, <1>6 DEF Ready, None, AAA
<1> QED
    BY <1>1, <1>2, <1>4, <1>7, EmptyClear DEF Done, Moves, client, None

LEMMA LoadLeast ==
    ASSUME NEW e, Len(commandQueue[e]) \in Nat
    PROVE  /\ Load(e) \in Nat
           /\ Len(commandQueue[e]) + Bit(irq[e] = HW) + Bit(ispOff[e]) + 1 <= Load(e)
<1> DEFINE l == Len(commandQueue[e])
           i == Bit(irq[e] = HW)
           o == Bit(ispOff[e])
           n == IF input[e] = "counted" THEN 2 ELSE 1
<1>1. i \in {0, 1} /\ o \in {0, 1} /\ n \in {1, 2} /\ l \in Nat
    BY DEF Bit
<1>2. Load(e) = l + i + o + n
    BY DEF Load
<1> HIDE DEF l, i, o, n
<1>3. l + i + o + n \in Nat /\ l + i + o + 1 <= l + i + o + n
    BY <1>1
<1>4. l + i + o + 1 <= Load(e) /\ Load(e) \in Nat
    BY <1>2, <1>3
<1> QED
    BY <1>4 DEF l, i, o

\* A command is taken from the queue, and nothing else changes in the sum.
LEMMA LoadLess ==
    ASSUME NEW e, Len(commandQueue[e]) \in Nat,
           Len(commandQueue'[e]) = Len(commandQueue[e]) - 1,
           UNCHANGED <<input, ispOff, irq>>, NEW n \in Nat, Load(e) <= n + 1
    PROVE  Load(e)' <= n
<1>1. Bit(irq[e] = HW) \in {0, 1} /\ Bit(ispOff[e]) \in {0, 1}
    BY DEF Bit
<1>2. Load(e)' = Len(commandQueue'[e]) + Bit(irq[e] = HW) + Bit(ispOff[e])
                    + (IF input[e] = "counted" THEN 2 ELSE 1)
    BY DEF Load
<1> QED
    BY <1>1, <1>2 DEF Load

LEMMA StopStreamingPhase ==
    ASSUME TypeInv, NEW e \in Engines, Phase(e), index[e] = 0, EngineStopStreaming(e)
    PROVE  Stopping(e)'
<1>1. /\ Sent(e) /\ caller[e].event = "STOP_STREAMING" /\ Clear(commandQueue'[e])
      /\ Len(commandQueue'[e]) = Len(commandQueue[e]) - 1 /\ Len(commandQueue[e]) \in Nat
    BY HeadSent DEF EngineStopStreaming, HW, AAA
<1>2. /\ itf[e] = "Running" /\ caller[e].then \in {"Idle", "Paused"} /\ On(e)
      /\ Load(e) <= 4 /\ irq[e] # AAA /\ events[e] = {} /\ ~ eventCb[e]
    BY <1>1 DEF Sent, Moves, Ready
<1>3. /\ state'[e] = "RUNNING" /\ input'[e] = "ending"
      /\ UNCHANGED <<thread, DriverState, subCtrls, ispOff, irq, eventCb, client, events, handler>>
    BY DEF TypeInv, Typed, EngineTyped, DriverTyped, EngineStopStreaming
<1>4. /\ g_pCamEngineCtx'[0] = e /\ g_pCamEngineCtx'[1] = None
      /\ timer' = 0 /\ handler' = NoSlot
    <2>1. Slot(e) = 0
        BY DEF Slot
    <2>2. g_pCamEngineCtx[1] = None /\ handler = NoSlot
        BY <1>2 DEF On, NoAlarm, Slots
    <2> QED
        BY <1>3, <2>1, <2>2 DEF TypeInv, Typed, AlarmTyped, EngineStopStreaming, Slots
<1>5. Ends(e)' + Bit(timer' # NoSlot \/ handler' # NoSlot) <= 4
    <2>1. Bit(irq'[e] = HW) = Bit(irq[e] = HW) /\ Bit(ispOff'[e]) = Bit(ispOff[e])
        BY <1>3
    <2>2. Bit(input'[e] = "ending") = 1 /\ Bit(timer' # NoSlot \/ handler' # NoSlot) <= 1
        BY <1>3 DEF Bit
    <2>3. /\ Bit(irq[e] = HW) \in {0, 1} /\ Bit(ispOff[e]) \in {0, 1}
          /\ Bit(timer' # NoSlot \/ handler' # NoSlot) \in {0, 1}
        BY DEF Bit
    <2>4. Len(commandQueue[e]) + Bit(irq[e] = HW) + Bit(ispOff[e]) + 1 <= 4
        BY <1>1, <1>2, <2>3, LoadLeast
    <2> DEFINE i == Bit(irq[e] = HW)
               o == Bit(ispOff[e])
               a == Bit(timer' # NoSlot \/ handler' # NoSlot)
    <2> HIDE DEF i, o, a
    <2>5. i + o <= 3 - Len(commandQueue[e])
        BY <1>1, <2>3, <2>4 DEF i, o
    <2>6. Len(commandQueue'[e]) + i + o + 1 + a <= 4
        BY <1>1, <2>2, <2>3, <2>5 DEF i, o, a
    <2> QED
        BY <2>1, <2>2, <2>6 DEF i, o, a, Ends
<1>6. thread'[e] = "read" /\ DriverState'[e] = "running" /\ subCtrls'[e]
    BY <1>2, <1>3 DEF On
<1>7. (timer' = NoSlot \/ handler' = NoSlot) /\ timer' # 1 /\ handler' # 1
    BY <1>4 DEF NoSlot
<1> QED
    BY <1>1, <1>2, <1>3, <1>4, <1>5, <1>6, <1>7 DEF Stopping, client

(* A stop is under way, and the driver runs, when its end is reported.        *)
LEMMA FinishedPhase ==
    ASSUME TypeInv, NEW e \in Engines, Phase(e), index[e] = 0, PromptHandler, EngineFinished(e)
    PROVE  Joining(e)' /\ exited' = exited
<1>1. /\ thread[e] = "read" /\ state[e] = "RUNNING" /\ commandQueue[e] # <<>>
      /\ commandQueue[e] \in Seq(Commands) /\ commandQueue'[e] = Tail(commandQueue[e])
    BY DEF TypeInv, Typed, QueueTyped, EngineFinished, Takes
<1>2. ~ NoAlarm
    BY DEF NoAlarm, EngineFinished
<1>3. Stopping(e)
    <2>1. ~ Off(e) /\ ~ On(e)
        BY <1>2 DEF Off, On
    <2>2. \A p, k : ~ Ready(e, p, k)
        BY <2>1 DEF Ready
    <2> QED
        BY <1>1, <1>2, <2>1, <2>2
           DEF Phase, Absent, Rest, Sent, Done, Joining, Searching, Shut, Gone
<1>4. /\ Clear(commandQueue'[e]) /\ Len(commandQueue'[e]) = Len(commandQueue[e]) - 1
      /\ Len(commandQueue[e]) \in Nat
    BY <1>1, <1>3, ClearTail DEF Stopping
<1>5. handler = NoSlot
    BY <1>3 DEF Stopping, EngineFinished, Slot, TypeInv, Typed, AlarmTyped, Slots
<1>6. /\ DriverState'[e] = "stopping" /\ thread'[e] = "join"
      /\ UNCHANGED <<state, subCtrls, input, ispOff, irq, eventCb, client, events, exited>>
    BY <1>3 DEF Stopping, TypeInv, Typed, EngineTyped, DriverTyped, EngineFinished
<1>7. NoAlarm'
    BY <1>3, <1>5 DEF Stopping, NoAlarm, EngineFinished, Slots
<1>8. Len(commandQueue'[e]) + Bit(irq'[e] = HW) <= 3
    <2>1. Bit(irq[e] = HW) \in {0, 1} /\ Bit(ispOff[e]) \in {0, 1}
          /\ Bit(input[e] = "ending") \in {0, 1}
          /\ Bit(timer # NoSlot \/ handler # NoSlot) \in {0, 1}
        BY DEF Bit
    <2>2. Len(commandQueue[e]) + Bit(irq[e] = HW) <= 4
        BY <1>3, <1>4, <2>1 DEF Stopping, Ends
    <2> QED
        BY <1>4, <1>6, <2>1, <2>2
<1> QED
    BY <1>3, <1>4, <1>6, <1>7, <1>8 DEF Stopping, Joining, client

LEMMA JoinPhase ==
    ASSUME TypeInv, NEW e \in Engines, Phase(e), EngineJoin(e)
    PROVE  Done(e)'
<1>1. thread[e] = "join" /\ irq[e] = None
    BY DEF EngineJoin
<1>2. Joining(e)
    <2>1. ~ Off(e) /\ ~ On(e)
        BY <1>1 DEF Off, On
    <2>2. \A p, k : ~ Ready(e, p, k)
        BY <2>1 DEF Ready
    <2> QED
        BY <1>1, <2>1, <2>2 DEF Phase, Absent, Rest, Sent, Done, Stopping, Searching, Shut, Gone
<1>3. /\ thread'[e] = "read" /\ DriverState'[e] = "stopped" /\ ~ subCtrls'[e]
      /\ events'[e] = {"STOP_STREAMING"}
      /\ UNCHANGED <<state, commandQueue, irq, eventCb, client, alarm>>
    BY <1>2
       DEF Joining, TypeInv, Typed, EngineTyped, DriverTyped, EventsTyped, EngineJoin,
           CamEngineCompleteCommand
<1>4. Off(e)'
    BY <1>1, <1>2, <1>3 DEF Off, Joining, NoAlarm, alarm
<1>5. Len(commandQueue[e]) <= 3
    <2>1. Bit(irq[e] = HW) = 0
        BY <1>1 DEF Bit, HW, None
    <2>2. Len(commandQueue[e]) \in Nat
        BY DEF TypeInv, Typed, QueueTyped
    <2> QED
        BY <1>2, <2>1, <2>2 DEF Joining
<1>6. Ready(e, caller[e].then, 0)'
    BY <1>2, <1>3, <1>4, <1>5 DEF Joining, Ready, client
<1> QED
    BY <1>2, <1>3, <1>6 DEF Joining, Done, Moves, client, None

(* A report that no stop waits for is taken from the queue, and that is all.  *)
LEMMA TakenPhase ==
    ASSUME TypeInv, NEW e \in Engines, Phase(e), ~ Stopping(e), NEW s, Takes(e, s, HW),
           UNCHANGED <<state, thread, driver, masks, client, events, alarm>>
    PROVE  Phase(e)'
<1> DEFINE q == commandQueue[e]
           r == commandQueue'[e]
<1>1. /\ q \in Seq(Commands) /\ q # <<>> /\ r = Tail(q) /\ r \in Seq(Commands)
      /\ Head(q).id = HW /\ thread[e] = "read"
    BY DEF TypeInv, Typed, QueueTyped, Takes
<1>2. Len(q) \in Nat /\ Len(r) = Len(q) - 1
    BY <1>1
<1>3. Clear(q) => Clear(r)
    BY <1>1, ClearTail
<1>4. ASSUME NEW c \in Commands, c.id # HW
      PROVE  /\ One(q, c) => One(r, c)
             /\ Last(q, c) => Last(r, c)
    BY <1>1, <1>4, OneTail, LastTail
<1>5. ASSUME NEW n \in Nat, Load(e) <= n PROVE Load(e)' <= n
    <2>1. UNCHANGED <<input, ispOff, irq>> /\ Load(e) <= n + 1 /\ Load(e) \in Nat
        BY <1>2, <1>5, LoadLeast DEF driver
    <2> QED
        BY <1>2, <2>1, LoadLess
<1>6. (Off(e) => Off(e)') /\ (On(e) => On(e)')
    BY OffKept DEF On, NoAlarm, driver, alarm
<1>7. ASSUME NEW p \in Places, NEW k \in {0, 1}, Ready(e, p, k), p = "Invalid" => k = 0
      PROVE  p # "Invalid" /\ Ready(e, p, k)'
    <2>1. p # "Invalid"
        BY <1>1, <1>2, <1>7, EmptyClear DEF Ready
    <2>2. CASE p \in {"Idle", "Paused"}
        BY <1>2, <1>6, <1>7, <2>2 DEF Ready
    <2>3. CASE p = "Running"
        <3>1. Load(e)' <= 3 + k
            BY <1>5, <1>7, <2>3 DEF Ready
        <3> QED
            BY <1>6, <1>7, <2>3, <3>1 DEF Ready, driver
    <2> QED
        BY <1>7, <2>1, <2>2, <2>3 DEF Ready
<1>8. itf[e] \in Places /\ caller[e].then \in Places
    BY DEF TypeInv, Typed, ItfTyped, CallerTyped
<1>9. /\ itf' = itf /\ caller' = caller /\ events' = events /\ eventCb' = eventCb
      /\ aaa' = aaa /\ LockMask' = LockMask
    BY DEF client, driver, masks
<1>10. ASSUME Rest(e) PROVE Rest(e)'
    <2>1. Clear(r) /\ Ready(e, itf[e], 0)'
        BY <1>3, <1>7, <1>8, <1>9, <1>10 DEF Rest
    <2> QED
        BY <1>9, <1>10, <2>1 DEF Rest
<1>11. ASSUME Sent(e) PROVE Sent(e)'
    <2>1. PICK c \in Commands : /\ c.id = caller[e].event /\ c.locks = caller[e].locks
                                /\ One(q, c) /\ (itf[e] # "Running" => Last(q, c))
        BY <1>11 DEF Sent
    <2>2. c.id # HW
        BY <1>11, <2>1 DEF Sent, Moves, HW
    <2>3. One(r, c) /\ (itf[e] # "Running" => Last(r, c))
        BY <1>4, <2>1, <2>2
    <2>4. itf[e] # "Invalid"
        <3>1. ASSUME itf[e] = "Invalid" PROVE FALSE
            <4>1. Len(q) = 1 /\ Last(r, c)
                BY <1>11, <2>3, <3>1 DEF Sent, Ready
            <4> QED
                BY <1>2, <4>1 DEF Last
        <3> QED
            BY <3>1
    <2>5. Ready(e, itf[e], 1)'
        BY <1>7, <1>8, <1>9, <1>11, <2>4 DEF Sent
    <2> QED
        BY <1>9, <1>11, <2>1, <2>3, <2>5 DEF Sent
<1>12. ASSUME Done(e) PROVE Done(e)'
    <2>1. Clear(r) /\ Ready(e, caller[e].then, 0)'
        BY <1>3, <1>7, <1>8, <1>9, <1>12 DEF Done
    <2> QED
        BY <1>9, <1>12, <2>1 DEF Done
<1>13. ASSUME Searching(e) PROVE Searching(e)'
    <2>1. On(e)' /\ state' = state /\ irq' = irq
        BY <1>6, <1>13 DEF Searching, driver
    <2>2. Command(AAA) \in Commands /\ Command(AAA).id # HW
        BY CommandTyped DEF Ids, AAA, HW
    <2>3. /\ Clear(q) /\ Load(e) <= 3 => Clear(r) /\ Load(e)' <= 3
          /\ One(q, Command(AAA)) /\ Load(e) <= 4 => One(r, Command(AAA)) /\ Load(e)' <= 4
        BY <1>3, <1>4, <1>5, <2>2
    <2> QED
        BY <1>9, <1>13, <2>1, <2>3 DEF Searching
<1> QED
    BY <1>1, <1>10, <1>11, <1>12, <1>13 DEF Phase, Absent, Joining, Shut, Gone

LEMMA HeadLocked ==
    ASSUME TypeInv, NEW e \in Engines, Phase(e), NEW s, Takes(e, s, AAA)
    PROVE  /\ Searching(e) /\ LockMask[e] = {} /\ irq[e] # AAA /\ Load(e) <= 4
           /\ commandQueue'[e] = Tail(commandQueue[e]) /\ Clear(commandQueue'[e])
           /\ Len(commandQueue'[e]) = Len(commandQueue[e]) - 1 /\ Len(commandQueue[e]) \in Nat
<1> DEFINE q == commandQueue[e]
<1>1. /\ q \in Seq(Commands) /\ q # <<>> /\ Head(q).id = AAA /\ AAA # HW /\ Len(q) \in Nat
      /\ commandQueue'[e] = Tail(q) /\ Len(Tail(q)) = Len(q) - 1
    BY DEF TypeInv, Typed, QueueTyped, Takes, AAA, HW
<1>2. ~ Clear(q)
    BY <1>1, ClearTail
<1>3. ~ Sent(e)
    <2>1. ASSUME Sent(e) PROVE FALSE
        <3>1. PICK c \in Commands : c.id = caller[e].event /\ One(q, c)
            BY <2>1 DEF Sent
        <3>2. c.id # HW /\ c.id # AAA
            BY <2>1, <3>1 DEF Sent, Moves, HW, AAA
        <3> QED
            BY <1>1, <3>1, <3>2, OneTail
    <2> QED
        BY <2>1
<1>4. Searching(e)
    BY <1>1, <1>2, <1>3 DEF Phase, Absent, Rest, Done, Stopping, Joining, Shut, Gone
<1>5. One(q, Command(AAA)) /\ Load(e) <= 4 /\ irq[e] # AAA /\ LockMask[e] = {}
    BY <1>2, <1>4 DEF Searching
<1>6. Command(AAA) \in Commands /\ Command(AAA).id # HW
    BY CommandTyped DEF Ids, AAA, HW
<1>7. Clear(Tail(q))
    BY <1>1, <1>5, <1>6, OneTail
<1> QED
    BY <1>1, <1>4, <1>5, <1>7

LEMMA FinishedAgainPhase ==
    ASSUME TypeInv, NEW e \in Engines, Phase(e), EngineFinishedAgain(e)
    PROVE  Phase(e)'
<1>1. ~ Stopping(e)
    BY CamEngineAssumption DEF Stopping, EngineFinishedAgain, Slots
<1>2. /\ Takes(e, {"RUNNING"}, HW)
      /\ UNCHANGED <<state, thread, driver, masks, client, events, alarm>>
    BY DEF EngineFinishedAgain, HW
<1> QED
    BY <1>1, <1>2, TakenPhase

(* No command comes to the engine in a state that does not list it, but for a *)
(* report of the end that is late.                                            *)
LEMMA WrongStatePhase ==
    ASSUME TypeInv, NEW e \in Engines, Phase(e), EngineWrongState(e)
    PROVE  Phase(e)'
<1>1. PICK s \in {"INITIALIZED", "RUNNING", "STREAMING"}, c \in Ids :
         /\ c \notin Listed[s] /\ Takes(e, {s}, c)
         /\ IF c \in Silent THEN UNCHANGED events ELSE CamEngineCompleteCommand(e, c)
    BY CommandIds DEF EngineWrongState, Listed
<1>2. state[e] = s
    BY <1>1 DEF Takes
<1>3. CASE c = HW
    <2>1. UNCHANGED <<state, thread, driver, masks, client, events, alarm>>
        BY <1>1, <1>3 DEF EngineWrongState, Silent, HW
    <2>2. ~ Stopping(e)
        BY <1>1, <1>2, <1>3 DEF Stopping, Listed, HW
    <2> QED
        BY <1>1, <1>3, <2>1, <2>2, TakenPhase
<1>4. CASE c = AAA
    <2>1. Searching(e)
        BY <1>1, <1>4, HeadLocked
    <2> QED
        BY <1>1, <1>2, <1>4, <2>1 DEF Searching, Listed, AAA
<1>5. CASE c # HW /\ c # AAA
    <2>1. Sent(e) /\ caller[e].event = c
        BY <1>1, <1>5, HeadSent
    <2>2. c \in Listed[s]
        BY <1>2, <2>1 DEF Sent, Moves, Ready, Listed
    <2> QED
        BY <1>1, <2>2
<1> QED
    BY <1>3, <1>4, <1>5

LEMMA AaaLockedPhase ==
    ASSUME TypeInv, NEW e \in Engines, Phase(e), EngineAaaLocked(e)
    PROVE  Done(e)'
<1>1. /\ Searching(e) /\ LockMask[e] = {} /\ irq[e] # AAA /\ Load(e) <= 4
      /\ Clear(commandQueue'[e])
      /\ Len(commandQueue'[e]) = Len(commandQueue[e]) - 1 /\ Len(commandQueue[e]) \in Nat
    BY HeadLocked DEF EngineAaaLocked, AAA
<1>2. /\ ~ eventCb'[e] /\ events'[e] = {"ACQUIRE_LOCK"}
      /\ UNCHANGED <<state, thread, DriverState, subCtrls, input, ispOff, irq, masks,
                     client, alarm>>
    BY <1>1
       DEF Searching, TypeInv, Typed, DriverTyped, EventsTyped, EngineAaaLocked,
           CamEngineCompleteCommand
<1>3. On(e)'
    BY <1>1, <1>2 DEF Searching, On, NoAlarm, alarm
<1>4. Load(e)' <= 3
    BY <1>1, <1>2, LoadLess
<1>5. Ready(e, "Running", 0)'
    BY <1>1, <1>2, <1>3, <1>4 DEF Searching, Ready
<1>6. caller[e].locks \subseteq aaa[e]
    BY <1>1 DEF Searching
<1> QED
    BY <1>1, <1>2, <1>5, <1>6 DEF Searching, Done, Moves, client, masks, None

\* A command of a streaming engine, up to what the handling of locks changes
LEMMA StreamingTaken ==
    ASSUME TypeInv, NEW e \in Engines, Phase(e), NEW id \in {"ACQUIRE_LOCK", "RELEASE_LOCK"},
           Takes(e, {"STREAMING"}, id),
           UNCHANGED <<state, thread, DriverState, subCtrls, input, ispOff, irq, client, alarm>>
    PROVE  /\ Sent(e) /\ caller[e].event = id /\ caller[e].then = "Running"
           /\ itf[e] = "Running" /\ events[e] = {} /\ ~ eventCb[e]
           /\ Head(commandQueue[e]).locks = caller[e].locks
           /\ Clear(commandQueue'[e]) /\ irq[e] # AAA /\ Load(e)' <= 3
           /\ state[e] = "STREAMING" /\ On(e)' /\ Ready(e, "Running", 0)'
<1>1. /\ Sent(e) /\ caller[e].event = id /\ Clear(commandQueue'[e])
      /\ Head(commandQueue[e]).locks = caller[e].locks
      /\ Len(commandQueue'[e]) = Len(commandQueue[e]) - 1 /\ Len(commandQueue[e]) \in Nat
    BY HeadSent DEF HW, AAA
<1>2. /\ itf[e] = "Running" /\ caller[e].then = "Running" /\ On(e) /\ state[e] = "STREAMING"
      /\ Load(e) <= 4 /\ irq[e] # AAA /\ events[e] = {} /\ ~ eventCb[e]
    BY <1>1 DEF Sent, Moves, Ready
<1>3. Load(e)' <= 3
    BY <1>1, <1>2, LoadLess
<1>4. On(e)'
    BY <1>2 DEF On, NoAlarm, alarm
<1> QED
    BY <1>1, <1>2, <1>3, <1>4 DEF Ready

LEMMA AcquirePhase ==
    ASSUME TypeInv, NEW e \in Engines, Phase(e), EngineAcquireLock(e)
    PROVE  (Done(e) \/ Searching(e))' /\ exited' = exited
<1> DEFINE asked == Head(commandQueue[e]).locks
<1>1. /\ Takes(e, {"STREAMING"}, "ACQUIRE_LOCK")
      /\ UNCHANGED <<state, thread, DriverState, subCtrls, input, ispOff, irq, client, alarm>>
    BY DEF EngineAcquireLock
<1>2. /\ Sent(e) /\ caller[e].event = "ACQUIRE_LOCK" /\ caller[e].then = "Running"
      /\ itf[e] = "Running" /\ events[e] = {} /\ ~ eventCb[e]
      /\ asked = caller[e].locks
      /\ Clear(commandQueue'[e]) /\ irq[e] # AAA /\ Load(e)' <= 3
      /\ state[e] = "STREAMING" /\ On(e)' /\ Ready(e, "Running", 0)'
    BY <1>1, StreamingTaken
<1>3. PICK settled \in SUBSET Locks :
         LET got == Tried(asked, LockedMask[e], settled)
         IN  /\ aaa' = [aaa EXCEPT ![e] = @ \union got]
             /\ LockMask' = [LockMask EXCEPT ![e] = @ \union (asked \ got)]
             /\ IF got = asked
                THEN /\ CamEngineCompleteCommand(e, "ACQUIRE_LOCK")
                     /\ UNCHANGED <<eventCb, exited>>
                ELSE /\ eventCb' = [eventCb EXCEPT ![e] = TRUE]
                     /\ exited' = IF eventCb[e] THEN "CamerIcIspRegisterEventCb" ELSE exited
                     /\ UNCHANGED events
    BY DEF EngineAcquireLock
<1> DEFINE got == Tried(asked, LockedMask[e], settled)
<1> HIDE DEF asked, got
<1>4. /\ asked \subseteq aaa'[e] \union LockMask'[e]
      /\ got = asked => asked \subseteq aaa'[e]
    BY <1>3 DEF TypeInv, Typed, MasksTyped, got
<1>5. CASE got = asked
    <2>1. events'[e] = {"ACQUIRE_LOCK"} /\ UNCHANGED <<eventCb, exited>>
        BY <1>2, <1>3, <1>5 DEF TypeInv, Typed, EventsTyped, CamEngineCompleteCommand, got
    <2> QED
        BY <1>1, <1>2, <1>4, <1>5, <2>1 DEF Done, Moves, client, None
<1>6. CASE got # asked
    <2>1. eventCb'[e] /\ exited' = exited /\ UNCHANGED events
        BY <1>2, <1>3, <1>6 DEF TypeInv, Typed, DriverTyped, got
    <2> QED
        BY <1>1, <1>2, <1>4, <2>1 DEF Searching, client
<1> QED
    BY <1>5, <1>6

LEMMA ReleasePhase ==
    ASSUME TypeInv, NEW e \in Engines, Phase(e), EngineReleaseLock(e)
    PROVE  Done(e)'
<1> DEFINE asked == Head(commandQueue[e]).locks
<1>1. /\ Takes(e, {"STREAMING"}, "RELEASE_LOCK")
      /\ UNCHANGED <<state, thread, DriverState, subCtrls, input, ispOff, irq, client, alarm>>
    BY DEF EngineReleaseLock
<1>2. /\ Sent(e) /\ caller[e].event = "RELEASE_LOCK" /\ caller[e].then = "Running"
      /\ itf[e] = "Running" /\ events[e] = {} /\ ~ eventCb[e]
      /\ asked = caller[e].locks
      /\ Clear(commandQueue'[e]) /\ irq[e] # AAA /\ Load(e)' <= 3
      /\ state[e] = "STREAMING" /\ On(e)' /\ Ready(e, "Running", 0)'
    BY <1>1, StreamingTaken
<1>3. asked \intersect (aaa'[e] \union LockMask'[e]) = {}
    BY DEF EngineReleaseLock, TypeInv, Typed, MasksTyped
<1>4. ~ eventCb'[e] /\ events'[e] = {"RELEASE_LOCK"}
    BY <1>2
       DEF EngineReleaseLock, TypeInv, Typed, DriverTyped, EventsTyped, CamEngineCompleteCommand
<1> HIDE DEF asked
<1> QED
    BY <1>1, <1>2, <1>3, <1>4 DEF Done, Moves, client, None

LEMMA EngineStepKeeps ==
    ASSUME TypeInv, EngineInv, OneAtATime, PromptHandler, NEW e \in Engines, Engine(e)
    PROVE  EngineInv'
<1>1. Phase(e) /\ exited = None /\ (itf[e] # None => index[e] = 0)
    BY DEF EngineInv
<1>2. thread[e] \in {"read", "join"} /\ UNCHANGED <<client, ids>>
    BY DEF Engine, EngineShutdown, EngineStart, EngineStop, EngineStartStreaming,
           EngineStopStreaming, EngineFinished, EngineJoin, EngineFinishedAgain,
           EngineAcquireLock, EngineAaaLocked, EngineReleaseLock, EngineWrongState, Takes
<1>3. itf[e] # None /\ itf'[e] # None
    BY <1>1, <1>2, NoItfAbsent DEF Absent, Gone, client
<1>4. CASE EngineShutdown(e) \/ EngineStart(e) \/ EngineStop(e)
    <2>1. Phase(e)'
        BY <1>1, <1>4, ShutdownPhase, StartPhase, StopPhase DEF Phase
    <2>2. exited' = exited
        BY <1>4 DEF EngineShutdown, EngineStart, EngineStop
    <2> QED
        BY <1>1, <1>2, <1>3, <2>1, <2>2, OneStep, EngineSame
<1>5. CASE EngineStartStreaming(e) \/ EngineStopStreaming(e)
    <2>1. Phase(e)'
        BY <1>1, <1>3, <1>5, StartStreamingPhase, StopStreamingPhase DEF Phase
    <2>2. exited' = exited
        BY <1>1, <1>5, StartStreamingPhase DEF EngineStopStreaming
    <2> QED
        BY <1>1, <1>2, <1>3, <2>1, <2>2, OneStep, EngineSame
<1>6. CASE EngineFinished(e) \/ EngineJoin(e)
    <2>1. Phase(e)'
        BY <1>1, <1>3, <1>6, FinishedPhase, JoinPhase DEF Phase
    <2>2. exited' = exited
        BY <1>1, <1>3, <1>6, FinishedPhase DEF EngineJoin
    <2> QED
        BY <1>1, <1>2, <1>3, <2>1, <2>2, OneStep, EngineSame
<1>7. CASE EngineFinishedAgain(e) \/ EngineWrongState(e)
    <2>1. Phase(e)'
        BY <1>1, <1>7, FinishedAgainPhase, WrongStatePhase
    <2>2. exited' = exited
        BY <1>7 DEF EngineFinishedAgain, EngineWrongState
    <2> QED
        BY <1>1, <1>2, <1>3, <2>1, <2>2, OneStep, EngineSame
<1>8. CASE EngineAcquireLock(e) \/ EngineAaaLocked(e) \/ EngineReleaseLock(e)
    <2>1. Phase(e)'
        BY <1>1, <1>8, AcquirePhase, AaaLockedPhase, ReleasePhase DEF Phase
    <2>2. exited' = exited
        BY <1>1, <1>8, AcquirePhase DEF EngineAaaLocked, EngineReleaseLock
    <2> QED
        BY <1>1, <1>2, <1>3, <2>1, <2>2, OneStep, EngineSame
<1> QED
    BY <1>4, <1>5, <1>6, <1>7, <1>8 DEF Engine
-----------------------------------------------------------------------------
(* The steps of the interrupt thread, of the input and of the alarm           *)

\* A step that adds nothing to what is still to come for the queue
LEMMA NothingNew ==
    ASSUME TypeInv, NEW e \in Engines, Phase(e),
           UNCHANGED <<state, commandQueue, thread, DriverState, subCtrls, eventCb, masks, client,
                       events, alarm>>,
           \/ irq'[e] = irq[e]
           \/ irq[e] = None /\ irq'[e] = HW /\ DriverState[e] = "running",
           \/ input'[e] = input[e]
           \/ input[e] \in {"counted", "ending"} /\ input'[e] = "off",
           input[e] # "ending" => Load(e)' <= Load(e),
           input[e] \in {"ending", "off"} => Ends(e)' <= Ends(e)
    PROVE  Phase(e)'
<1>1. irq[e] # AAA => irq'[e] # AAA
    BY DEF HW, AAA
<1>2. Len(commandQueue[e]) \in Nat
    BY DEF TypeInv, Typed, QueueTyped
<1>3. Off(e) => Off(e)'
    BY DEF Off, NoAlarm, alarm
<1>4. On(e) => On(e)' /\ Load(e)' <= Load(e)
    BY DEF On, NoAlarm, alarm
<1>5. Load(e) \in Nat /\ Load(e)' \in Nat
    <2>1. Len(commandQueue[e])' \in Nat
        BY <1>2
    <2>2. Load(e)' \in Nat
        BY <2>1, SumNat, BitIs DEF Load
    <2> QED
        BY <1>2, <2>2, LoadLeast
<1>6. ASSUME NEW p \in Places, NEW k \in {0, 1}, Ready(e, p, k) PROVE Ready(e, p, k)'
    <2>1. CASE p = "Running"
        <3>1. Load(e)' <= 3 + k
            BY <1>4, <1>5, <1>6, <2>1 DEF Ready
        <3> QED
            BY <1>1, <1>4, <1>6, <2>1, <3>1 DEF Ready
    <2>2. CASE p # "Running"
        BY <1>3, <1>6, <2>2 DEF Ready
    <2> QED
        BY <2>1, <2>2
<1>7. /\ itf[e] \in Places /\ caller[e].then \in Places
      /\ itf' = itf /\ caller' = caller /\ aaa' = aaa /\ LockMask' = LockMask
    BY DEF TypeInv, Typed, ItfTyped, CallerTyped, client, masks
<1>8. ASSUME Rest(e) PROVE Rest(e)'
    BY <1>6, <1>7, <1>8 DEF Rest
<1>9. ASSUME Sent(e) PROVE Sent(e)'
    BY <1>6, <1>7, <1>9 DEF Sent
<1>10. ASSUME Done(e) PROVE Done(e)'
    BY <1>6, <1>7, <1>10 DEF Done
<1>11. ASSUME Stopping(e) PROVE Stopping(e)'
    <2>1. Ends(e)' <= Ends(e) /\ Ends(e) \in Nat /\ Ends(e)' \in Nat
        <3>1. Ends(e) \in Nat /\ Ends(e)' \in Nat
            BY <1>2, SumNat, BitIs DEF Ends
        <3> QED
            BY <1>11, <3>1 DEF Stopping
    <2>2. Ends(e)' + Bit(timer # NoSlot \/ handler # NoSlot) <= 4
        BY <1>11, <2>1 DEF Stopping, Bit
    <2> QED
        BY <1>1, <1>7, <1>11, <2>2 DEF Stopping, alarm
<1>12. ASSUME Joining(e) PROVE Joining(e)'
    BY <1>7, <1>12 DEF Joining, NoAlarm, alarm
<1>13. ASSUME Searching(e) PROVE Searching(e)'
    <2>1. On(e)' /\ \A n \in {3, 4} : Load(e) <= n => Load(e)' <= n
        BY <1>4, <1>5, <1>13 DEF Searching
    <2>2. irq'[e] = AAA => irq[e] = AAA
        BY <1>1
    <2> QED
        BY <1>7, <1>13, <2>1, <2>2 DEF Searching
<1>14. ASSUME Absent(e) \/ Shut(e) PROVE (Absent(e) \/ Shut(e))'
    BY <1>7, <1>14 DEF Absent, Shut, Gone, NoAlarm, alarm
<1> QED
    BY <1>8, <1>9, <1>10, <1>11, <1>12, <1>13, <1>14 DEF Phase

LEMMA InputEndsPhase ==
    ASSUME TypeInv, NEW e \in Engines, Phase(e), InputEnds(e)
    PROVE  Phase(e)'
<1>1. /\ input[e] \in {"counted", "ending"} /\ input'[e] = "off" /\ ispOff'[e]
      /\ UNCHANGED <<state, commandQueue, thread, DriverState, subCtrls, irq, eventCb, masks,
                     client, events, alarm>>
    BY DEF TypeInv, Typed, DriverTyped, InputEnds
<1> DEFINE l == Len(commandQueue[e])
           i == Bit(irq[e] = HW)
           o == Bit(ispOff[e])
<1>2. l \in Nat /\ i \in {0, 1} /\ o \in {0, 1} /\ Bit(ispOff'[e]) = 1
    BY <1>1 DEF TypeInv, Typed, QueueTyped, Bit
<1>3. input[e] # "ending" => Load(e) = l + i + o + 2 /\ Load(e)' = l + i + 1 + 1
    BY <1>1, <1>2 DEF Load
<1>4. input[e] = "ending" => Ends(e) = l + i + o + 1 /\ Ends(e)' = l + i + 1 + 0
    BY <1>1, <1>2 DEF Ends, Bit
<1> HIDE DEF l, i, o
<1>5. input[e] # "ending" => Load(e)' <= Load(e)
    BY <1>2, <1>3
<1>6. input[e] \in {"ending", "off"} => Ends(e)' <= Ends(e)
    BY <1>1, <1>2, <1>4
<1> QED
    BY <1>1, <1>5, <1>6, NothingNew

LEMMA IrqIspOffPhase ==
    ASSUME TypeInv, NEW e \in Engines, Phase(e), IrqIspOff(e)
    PROVE  Phase(e)'
<1>1. /\ irq[e] = None /\ irq'[e] = HW /\ DriverState[e] = "running"
      /\ ispOff[e] /\ ~ ispOff'[e] /\ input'[e] = input[e]
      /\ UNCHANGED <<state, commandQueue, thread, DriverState, subCtrls, eventCb, masks,
                     client, events, alarm>>
    BY DEF TypeInv, Typed, DriverTyped, IrqIspOff, HW
<1> DEFINE l == Len(commandQueue[e])
           n == IF input[e] = "counted" THEN 2 ELSE 1
           d == Bit(input[e] = "ending")
<1>2. /\ Bit(irq[e] = HW) = 0 /\ Bit(irq'[e] = HW) = 1
      /\ Bit(ispOff[e]) = 1 /\ Bit(ispOff'[e]) = 0
    BY <1>1 DEF Bit, HW, None
<1>3. Load(e) = l + 0 + 1 + n /\ Load(e)' = l + 1 + 0 + n
    BY <1>1, <1>2 DEF Load
<1>4. Ends(e) = l + 0 + 1 + d /\ Ends(e)' = l + 1 + 0 + d
    BY <1>1, <1>2 DEF Ends
<1>5. l \in Nat /\ n \in {1, 2} /\ d \in {0, 1}
    BY BitIs DEF TypeInv, Typed, QueueTyped
<1> HIDE DEF l, n, d
<1>6. Load(e)' <= Load(e) /\ Ends(e)' <= Ends(e)
    BY <1>3, <1>4, <1>5
<1> QED
    BY <1>1, <1>6, NothingNew

(* At the end of a frame the interrupt thread locks what is left to lock, and *)
(* reports it when nothing is: no second report before the first is handled.  *)
LEMMA FrameOutPhase ==
    ASSUME TypeInv, NEW e \in Engines, Phase(e), PromptEngine,
           NEW settled \in SUBSET Locks, IrqFrameOut(e, settled)
    PROVE  Searching(e)'
<1> DEFINE got == Tried(LockMask[e], {"AEC"} \ LockMask[e], settled)
<1>1. Searching(e)
    BY DEF Phase, Absent, Rest, Sent, Done, Stopping, Joining, Shut, IrqFrameOut
<1>2. /\ aaa'[e] = aaa[e] \union got /\ LockMask'[e] = LockMask[e] \ got
      /\ irq[e] = None /\ irq'[e] = IF LockMask[e] = got THEN AAA ELSE None
      /\ UNCHANGED <<state, commandQueue, thread, DriverState, subCtrls, input, ispOff, eventCb,
                     client, events, alarm>>
    BY DEF TypeInv, Typed, DriverTyped, MasksTyped, IrqFrameOut, AAA
<1> HIDE DEF got
<1>3. ~ One(commandQueue[e], Command(AAA))
    BY DEF One, IrqFrameOut, Command, AAA
<1>4. Clear(commandQueue[e]) /\ Load(e) <= 3
    BY <1>1, <1>3 DEF Searching
<1>5. Load(e)' = Load(e)
    BY <1>2 DEF Load, Bit, HW, AAA, None
<1>6. On(e)'
    BY <1>1, <1>2 DEF Searching, On, NoAlarm, alarm
<1>7. caller[e].locks \subseteq aaa'[e] \union LockMask'[e]
    BY <1>1, <1>2 DEF Searching
<1>8. irq'[e] = AAA => LockMask'[e] = {}
    BY <1>2 DEF AAA, None
<1> QED
    BY <1>1, <1>2, <1>4, <1>5, <1>6, <1>7, <1>8 DEF Searching, client

LEMMA SendPhase ==
    ASSUME TypeInv, NEW e \in Engines, Phase(e), IrqSend(e)
    PROVE  Phase(e)'
<1> DEFINE q == commandQueue[e]
           r == commandQueue'[e]
           c == Command(irq[e])
<1>1. /\ q \in Seq(Commands) /\ irq[e] \in {HW, AAA} /\ irq'[e] = None
      /\ UNCHANGED <<state, thread, DriverState, subCtrls, input, ispOff, eventCb, masks,
                     client, events, alarm>>
    BY DEF TypeInv, Typed, QueueTyped, DriverTyped, IrqSend, HW, AAA
<1>2. ~ Absent(e) /\ ~ Shut(e) /\ ~ Off(e)
    BY <1>1 DEF Absent, Shut, Gone, Off, IrqSend
<1>3. state[e] # "INVALID"
    BY <1>2 DEF Phase, Rest, Sent, Done, Stopping, Joining, Searching, Ready
<1>4. c \in Commands /\ c.id = irq[e]
    BY <1>1, CommandTyped DEF Ids, HW, AAA
<1>5. r = Append(q, c)
    BY <1>3 DEF TypeInv, Typed, QueueTyped, IrqSend, CamEngineSendCommand
<1>6. /\ Len(q) \in Nat /\ Len(r) = Len(q) + 1
      /\ irq[e] = HW /\ Clear(q) => Clear(r)
      /\ Clear(q) => One(r, c)
      /\ irq[e] = HW => \A d : One(q, d) => One(r, d)
    BY <1>1, <1>4, <1>5, ClearAppend, OneAppend
<1> DEFINE o == Bit(ispOff[e])
           n == IF input[e] = "counted" THEN 2 ELSE 1
           d == Bit(input[e] = "ending")
<1>7. /\ o \in {0, 1} /\ n \in {1, 2} /\ d \in {0, 1} /\ Bit(irq'[e] = HW) = 0
      /\ Bit(irq[e] = HW) = IF irq[e] = HW THEN 1 ELSE 0
    BY <1>1 DEF Bit, None, HW
<1>8. /\ Load(e) = Len(q) + Bit(irq[e] = HW) + o + n
      /\ Load(e)' = Len(r) + 0 + o + n
      /\ Ends(e) = Len(q) + Bit(irq[e] = HW) + o + d
      /\ Ends(e)' = Len(r) + 0 + o + d
    BY <1>1, <1>7 DEF Load, Ends
<1> HIDE DEF q, r, c, o, n, d
<1>9. /\ irq[e] = HW => Load(e)' = Load(e) /\ Ends(e)' = Ends(e)
      /\ irq[e] = AAA => Load(e)' = Load(e) + 1
      /\ Load(e) \in Nat /\ Ends(e) \in Nat
    BY <1>6, <1>7, <1>8 DEF HW, AAA
<1>10. irq'[e] # AAA
    BY <1>1 DEF None, AAA
<1>11. (On(e) => On(e)') /\ (NoAlarm => NoAlarm')
    BY <1>1 DEF On, NoAlarm, alarm
<1>12. ASSUME NEW p \in Places, NEW k \in {0, 1}, Ready(e, p, k)
       PROVE  p = "Running" /\ irq[e] = HW /\ Ready(e, p, k)'
    <2>1. p = "Running" /\ irq[e] = HW
        BY <1>1, <1>2, <1>12 DEF Ready
    <2> QED
        BY <1>1, <1>9, <1>10, <1>11, <1>12, <2>1 DEF Ready
<1>13. /\ itf[e] \in Places /\ caller[e].then \in Places
       /\ itf' = itf /\ caller' = caller /\ aaa' = aaa /\ LockMask' = LockMask
    BY <1>1 DEF TypeInv, Typed, ItfTyped, CallerTyped, client, masks
<1>14. ASSUME Rest(e) PROVE Rest(e)'
    BY <1>1, <1>6, <1>12, <1>13, <1>14 DEF Rest, q, r
<1>15. ASSUME Sent(e) PROVE Sent(e)'
    <2>1. irq[e] = HW /\ itf[e] = "Running" /\ Ready(e, itf[e], 1)'
        BY <1>12, <1>13, <1>15 DEF Sent
    <2> QED
        BY <1>1, <1>6, <1>13, <1>15, <2>1 DEF Sent, q, r
<1>16. ASSUME Done(e) PROVE Done(e)'
    BY <1>1, <1>6, <1>12, <1>13, <1>16 DEF Done, q, r
<1>17. ASSUME Stopping(e) PROVE Stopping(e)'
    <2>1. irq[e] = HW
        BY <1>1, <1>17 DEF Stopping
    <2> QED
        BY <1>1, <1>6, <1>9, <1>10, <1>13, <1>17, <2>1 DEF Stopping, alarm, q, r
<1>18. ASSUME Joining(e) PROVE Joining(e)'
    <2>1. irq[e] = HW
        BY <1>1, <1>18 DEF Joining
    <2>2. Len(r) + Bit(irq'[e] = HW) <= 3
        BY <1>6, <1>7, <1>18, <2>1 DEF Joining, q, r
    <2> QED
        BY <1>1, <1>6, <1>10, <1>11, <1>13, <1>18, <2>1, <2>2 DEF Joining, q, r
<1>19. ASSUME Searching(e) PROVE Searching(e)'
    <2>1. CASE irq[e] = AAA
        <3>1. Clear(q) /\ Load(e) <= 3 /\ LockMask[e] = {}
            BY <1>19, <2>1 DEF Searching, q
        <3>2. One(r, Command(AAA)) /\ Load(e)' <= 4
            BY <1>6, <1>9, <2>1, <3>1 DEF c
        <3> QED
            BY <1>1, <1>10, <1>11, <1>13, <1>19, <3>1, <3>2 DEF Searching, r
    <2>2. CASE irq[e] = HW
        BY <1>1, <1>6, <1>9, <1>10, <1>11, <1>13, <1>19, <2>2 DEF Searching, q, r
    <2> QED
        BY <1>1, <2>1, <2>2
<1> QED
    BY <1>2, <1>14, <1>15, <1>16, <1>17, <1>18, <1>19 DEF Phase

LEMMA PhaseKept ==
    ASSUME NEW f, Phase(f), Same(f), UNCHANGED alarm,
           input'[f] = input[f], ispOff'[f] = ispOff[f],
           aaa'[f] = aaa[f], LockMask'[f] = LockMask[f]
    PROVE  Phase(f)'
<1>1. Load(f)' = Load(f) /\ Ends(f)' = Ends(f)
    BY DEF Load, Ends, Same
<1>2. (NoAlarm => NoAlarm') /\ (Off(f) => Off(f)') /\ (On(f) => On(f)')
    BY DEF NoAlarm, Off, On, Same, alarm
<1>3. ASSUME NEW p, NEW k, Ready(f, p, k) PROVE Ready(f, p, k)'
    BY <1>1, <1>2, <1>3 DEF Ready, Same
<1>4. ASSUME Rest(f) PROVE Rest(f)'
    BY <1>3, <1>4 DEF Rest, Same
<1>5. ASSUME Sent(f) PROVE Sent(f)'
    BY <1>3, <1>5 DEF Sent, Same
<1>6. ASSUME Done(f) PROVE Done(f)'
    BY <1>3, <1>6 DEF Done, Same
<1>7. ASSUME Stopping(f) PROVE Stopping(f)'
    BY <1>1, <1>7 DEF Stopping, Same, alarm
<1>8. ASSUME Joining(f) PROVE Joining(f)'
    BY <1>2, <1>8 DEF Joining, Same
<1>9. ASSUME Searching(f) PROVE Searching(f)'
    BY <1>1, <1>2, <1>9 DEF Searching, Same
<1>10. ASSUME Absent(f) \/ Shut(f) PROVE (Absent(f) \/ Shut(f))'
    BY <1>2, <1>10 DEF Absent, Shut, Gone, Same
<1> QED
    BY <1>4, <1>5, <1>6, <1>7, <1>8, <1>9, <1>10 DEF Phase

LEMMA StutterKeeps ==
    ASSUME EngineInv, UNCHANGED vars
    PROVE  EngineInv'
<1>1. /\ \A f \in Engines : /\ Same(f) /\ input'[f] = input[f] /\ ispOff'[f] = ispOff[f]
                            /\ aaa'[f] = aaa[f] /\ LockMask'[f] = LockMask[f]
      /\ UNCHANGED <<alarm, itf, index, g_idx, exited>>
    BY DEF vars, driver, masks, client, ids, Same
<1>2. \A f \in Engines : Phase(f)'
    BY <1>1, PhaseKept DEF EngineInv
<1> QED
    BY <1>1, <1>2 DEF EngineInv, NoAlarm, alarm

LEMMA IrqStepKeeps ==
    ASSUME TypeInv, EngineInv, OneAtATime, PromptEngine, NEW e \in Engines,
           Irq(e) \/ InputEnds(e)
    PROVE  EngineInv'
<1>1. Phase(e) /\ exited = None
    BY DEF EngineInv
<1>2. UNCHANGED <<client, ids, alarm, exited>>
    BY DEF Irq, IrqIspOff, IrqSend, IrqFrameOut, InputEnds
<1>3. Phase(e)'
    BY <1>1, InputEndsPhase, IrqIspOffPhase, FrameOutPhase, SendPhase DEF Irq, Phase
<1>4. CASE itf[e] # None
    BY <1>1, <1>2, <1>3, <1>4, OneStep, IrqSame DEF client
<1>5. CASE itf[e] = None
    <2>1. InputEnds(e)
        <3>1. Absent(e)
            BY <1>1, <1>5, NoItfAbsent
        <3> QED
            BY <3>1 DEF Absent, Gone, Irq, IrqIspOff, IrqSend, IrqFrameOut
    <2>2. \A f \in Engines \ {e} :
             /\ Same(f) /\ input'[f] = input[f] /\ ispOff'[f] = ispOff[f]
             /\ aaa'[f] = aaa[f] /\ LockMask'[f] = LockMask[f]
        BY <2>1, IrqSame DEF InputEnds, masks, TypeInv, Typed, DriverTyped
    <2>3. \A f \in Engines : Phase(f)'
        BY <1>2, <1>3, <2>2, PhaseKept DEF EngineInv
    <2> QED
        BY <1>1, <1>2, <2>3 DEF EngineInv, NoAlarm, client, ids, alarm
<1> QED
    BY <1>4, <1>5

(* The timer is set, or its handler under way, for a stop only.               *)
LEMMA AlarmStopping ==
    ASSUME EngineInv, timer # NoSlot \/ handler # NoSlot
    PROVE  \E e \in Engines : Stopping(e)
<1>1. ~ NoAlarm
    BY DEF NoAlarm
<1>2. PICK e \in Engines : itf[e] # None
    BY <1>1 DEF EngineInv
<1>3. \A p, k : ~ Ready(e, p, k)
    BY <1>1 DEF Ready, Off, On
<1>4. Phase(e)
    BY DEF EngineInv
<1> QED
    BY <1>1, <1>2, <1>3, <1>4 DEF Phase, Absent, Rest, Sent, Done, Joining, Searching, Shut, On

LEMMA AlarmStepKeeps ==
    ASSUME TypeInv, EngineInv, OneAtATime, Alarm \/ HandlerSends
    PROVE  EngineInv'
<1>1. PICK e \in Engines : Stopping(e)
    BY AlarmStopping DEF Alarm, HandlerSends
<1>2. /\ itf[e] = "Running" /\ itf[e] # None /\ exited = None
      /\ g_pCamEngineCtx[0] = e /\ timer # 1 /\ handler # 1
      /\ Clear(commandQueue[e])
    BY <1>1 DEF Stopping, None, EngineInv
<1> DEFINE q == commandQueue[e]
<1>3. q \in Seq(Commands) /\ Len(q) \in Nat /\ e # None
    BY CamEngineAssumption DEF TypeInv, Typed, QueueTyped
<1>4. UNCHANGED <<state, thread, driver, masks, client, events, ids, g_pCamEngineCtx>>
    BY DEF Alarm, HandlerSends
<1> DEFINE a == Bit(timer # NoSlot \/ handler # NoSlot)
<1>5. Ends(e) \in Nat /\ a \in {0, 1}
    BY <1>3, SumNat, BitIs DEF Ends
<1>6. CASE Alarm
    <2>1. timer = 0 /\ timer' = NoSlot /\ handler' = 0 /\ UNCHANGED <<commandQueue, exited>>
        BY <1>2, <1>3, <1>6 DEF Alarm, TypeInv, Typed, AlarmTyped, Slots
    <2>2. Ends(e)' = Ends(e) /\ (a = 1)
        BY <1>4, <2>1 DEF Ends, driver, Bit, NoSlot
    <2>3. Ends(e)' + Bit(timer' # NoSlot \/ handler' # NoSlot) <= 4
        BY <1>1, <1>5, <2>2, BitIs DEF Stopping
    <2>4. Stopping(e)'
        BY <1>1, <1>4, <2>1, <2>3 DEF Stopping, driver, client, NoSlot
    <2>5. \A f \in Engines : Same(f)
        BY <1>4, <2>1 DEF Same, driver, client
    <2> QED
        BY <1>2, <1>4, <2>1, <2>4, <2>5, OneStep DEF Phase, client
<1>7. CASE HandlerSends
    <2>1. handler = 0 /\ handler' = NoSlot /\ timer = NoSlot /\ timer' = NoSlot
        BY <1>1, <1>7 DEF Stopping, HandlerSends, TypeInv, Typed, AlarmTyped, Slots
    <2>2. /\ commandQueue' = [commandQueue EXCEPT ![e] = Append(@, Command(HW))]
          /\ exited' = exited
        <3>1. state[e] # "INVALID"
            BY <1>1 DEF Stopping
        <3> QED
            BY <1>2, <1>3, <1>7, <2>1, <3>1 DEF HandlerSends, CamEngineSendCommand, HW
    <2>3. commandQueue'[e] = Append(q, Command(HW))
        BY <2>2 DEF TypeInv, Typed, QueueTyped
    <2>4. Clear(commandQueue'[e]) /\ Len(commandQueue'[e]) = Len(q) + 1
        BY <1>2, <1>3, <2>3, ClearAppend, CommandTyped DEF Ids, HW
    <2>5. Ends(e)' = Ends(e) + 1
        BY <1>3, <1>4, <2>4, BitIs DEF Ends, driver
    <2>6. a = 1 /\ Bit(timer' # NoSlot \/ handler' # NoSlot) = 0
        BY <2>1 DEF Bit, NoSlot
    <2>7. Ends(e)' + Bit(timer' # NoSlot \/ handler' # NoSlot) <= 4
        BY <1>1, <1>5, <2>5, <2>6 DEF Stopping
    <2>8. Stopping(e)'
        BY <1>1, <1>4, <2>1, <2>4, <2>7 DEF Stopping, driver, client, NoSlot
    <2>9. \A f \in Engines : f # e => Same(f)
        BY <1>4, <2>2 DEF Same, driver, client, TypeInv, Typed, QueueTyped
    <2> QED
        BY <1>2, <1>4, <2>2, <2>8, <2>9, OneStep DEF Phase, client
<1> QED
    BY <1>6, <1>7
-----------------------------------------------------------------------------
(* The steps of the client                                                    *)

LEMMA RestOf ==
    ASSUME NEW e \in Engines, Phase(e), caller[e] = NoCall, itf[e] # None
    PROVE  Rest(e)
BY DEF Phase, Absent, Sent, Done, Stopping, Joining, Searching, Shut, NoCall, Moves, None

\* The engine is in the state that the place of its client calls for.
StateAt(p) == IF p = "Invalid" THEN "INITIALIZED"
              ELSE IF p = "Running" THEN "STREAMING" ELSE "RUNNING"

LEMMA RestState ==
    ASSUME NEW e \in Engines, Rest(e)
    PROVE  /\ state[e] = StateAt(itf[e]) /\ state[e] # "INVALID"
           /\ itf[e] \in {"Invalid", "Idle", "Paused", "Running"}
BY DEF Rest, Ready, StateAt

(* A command from a client at rest is the last one in the queue.              *)
LEMMA CommandSent ==
    ASSUME TypeInv, NEW e \in Engines, Rest(e), NEW c \in Commands,
           NEW to \in Places, Moves(itf[e], c.id, to),
           CamEngineSendCommand(e, c),
           caller' = [caller EXCEPT ![e] = Wait(c.id, to, c.locks)],
           UNCHANGED <<state, thread, driver, itf, events, alarm>>
    PROVE  Sent(e)'
<1> DEFINE q == commandQueue[e]
           r == commandQueue'[e]
<1>1. q \in Seq(Commands) /\ Clear(q) /\ Len(q) \in Nat
    BY DEF TypeInv, Typed, QueueTyped, Rest
<1>2. r = Append(q, c)
    BY RestState DEF CamEngineSendCommand, TypeInv, Typed, QueueTyped
<1>3. One(r, c) /\ Last(r, c) /\ Len(r) = Len(q) + 1
    BY <1>1, <1>2, ClearAppend
<1>4. Load(e)' = Load(e) + 1 /\ Load(e) \in Nat
    <2>1. Load(e)' = Len(r) + Bit(irq[e] = HW) + Bit(ispOff[e])
                        + (IF input[e] = "counted" THEN 2 ELSE 1)
        BY DEF Load, driver
    <2> QED
        BY <1>1, <1>3, <2>1, BitIs, LoadLeast DEF Load
<1>5. (Off(e) => Off(e)') /\ (On(e) => On(e)')
    BY OffKept DEF On, NoAlarm, driver, alarm
<1>6. Ready(e, itf[e], 1)'
    BY <1>1, <1>3, <1>4, <1>5 DEF Rest, Ready, driver
<1>7. caller'[e].event = c.id /\ caller'[e].then = to /\ caller'[e].locks = c.locks
    BY DEF TypeInv, Typed, CallerTyped, Wait
<1> HIDE DEF q, r
<1>8. events'[e] = {} /\ ~ eventCb'[e] /\ itf'[e] = itf[e]
    BY DEF Rest, driver
<1> QED
    BY <1>3, <1>6, <1>7, <1>8 DEF Sent, r

LEMMA CallPhase ==
    ASSUME TypeInv, NEW e \in Engines, Rest(e), NEW s, NEW c \in Commands, NEW to \in Places,
           state[e] = s => Moves(itf[e], c.id, to),
           state[e] # s => to = itf[e],
           Calls(e, s, c, Wait(c.id, to, c.locks))
    PROVE  Phase(e)' /\ itf' = itf
<1>1. CASE state[e] = s
    BY <1>1, CommandSent DEF Calls, Phase
<1>2. CASE state[e] # s
    <2>1. itf' = itf
        BY <1>2 DEF Calls, Wait, TypeInv, Typed, ItfTyped
    <2>2. /\ Same(e) /\ UNCHANGED alarm /\ input'[e] = input[e] /\ ispOff'[e] = ispOff[e]
          /\ aaa'[e] = aaa[e] /\ LockMask'[e] = LockMask[e]
        BY <1>2, <2>1 DEF Calls, Same, driver, masks
    <2> QED
        BY <2>1, <2>2, PhaseKept DEF Phase
<1> QED
    BY <1>1, <1>2

LEMMA CallsPhase ==
    ASSUME TypeInv, NEW e \in Engines, Phase(e),
           Connect(e) \/ Disconnect(e) \/ Start(e) \/ Stop(e) \/ SearchAndLock(e) \/ Unlock(e)
    PROVE  /\ Phase(e)' /\ itf[e] # None /\ itf'[e] # None
           /\ UNCHANGED <<ids, exited>>
<1>1. itf[e] \in {"Invalid", "Idle", "Paused", "Running"} /\ caller[e] = NoCall
    BY DEF Connect, Disconnect, Start, Stop, SearchAndLock, Unlock, Free
<1>2. Rest(e) /\ itf[e] # None
    BY <1>1, RestOf DEF None
<1>3. itf[e] \in Places /\ {"Invalid", "Idle", "Running", "Paused"} \subseteq Places
    BY <1>1 DEF Places
<1>4. state[e] = StateAt(itf[e])
    BY <1>2, RestState
<1>5. UNCHANGED <<ids, exited>>
    BY DEF Connect, Disconnect, Start, Stop, SearchAndLock, Unlock, Calls
<1>6. \A i \in Ids : Command(i) \in Commands /\ Command(i).id = i /\ Command(i).locks = {}
    BY CommandTyped
<1>7. CASE Connect(e)
    <2>1. itf[e] = "Invalid" /\ Moves(itf[e], "START", "Idle") /\ state[e] = "INITIALIZED"
        BY <1>4, <1>7 DEF Connect, Free, Moves, StateAt
    <2>2. Calls(e, "INITIALIZED", Command("START"),
                Wait(Command("START").id, "Idle", Command("START").locks))
        BY <1>6, <1>7 DEF Connect, Ids
    <2>3. Phase(e)' /\ itf' = itf
        BY <1>2, <1>3, <1>6, <2>1, <2>2, CallPhase DEF Ids
    <2> QED
        BY <1>2, <1>5, <2>3
<1>8. CASE Disconnect(e)
    <2>1. itf[e] = "Idle" /\ Moves(itf[e], "STOP", "Invalid") /\ state[e] = "RUNNING"
        BY <1>4, <1>8 DEF Disconnect, Free, Moves, StateAt
    <2>2. Calls(e, "RUNNING", Command("STOP"),
                Wait(Command("STOP").id, "Invalid", Command("STOP").locks))
        BY <1>6, <1>8 DEF Disconnect, Ids
    <2>3. Phase(e)' /\ itf' = itf
        BY <1>2, <1>3, <1>6, <2>1, <2>2, CallPhase DEF Ids
    <2> QED
        BY <1>2, <1>5, <2>3
<1>9. CASE Start(e)
    <2>1. itf[e] \in {"Idle", "Paused"} /\ Moves(itf[e], "START_STREAMING", "Running")
          /\ state[e] = "RUNNING"
        BY <1>4, <1>9 DEF Start, Free, Moves, StateAt
    <2>2. PICK counted \in BOOLEAN :
             Calls(e, "RUNNING", [Command("START_STREAMING") EXCEPT !.counted = counted],
                   Wait("START_STREAMING", "Running", {}))
        BY <1>9 DEF Start
    <2> DEFINE c == [Command("START_STREAMING") EXCEPT !.counted = counted]
    <2>3. c \in Commands /\ c.id = "START_STREAMING" /\ c.locks = {}
        BY DEF Command, Commands
    <2> HIDE DEF c
    <2>4. Phase(e)' /\ itf' = itf
        BY <1>2, <1>3, <2>1, <2>2, <2>3, CallPhase DEF c
    <2> QED
        BY <1>2, <1>5, <2>4
<1>10. CASE Stop(e)
    <2>1. itf[e] = "Running" /\ state[e] = "STREAMING"
        BY <1>4, <1>10 DEF Stop, Free, StateAt
    <2>2. PICK to \in {"Idle", "Paused"} :
             Calls(e, "STREAMING", Command("STOP_STREAMING"), Wait("STOP_STREAMING", to, {}))
        BY <1>10 DEF Stop
    <2>3. Moves(itf[e], "STOP_STREAMING", to) /\ to \in Places
        BY <1>3, <2>1 DEF Moves
    <2>4. Calls(e, "STREAMING", Command("STOP_STREAMING"),
                Wait(Command("STOP_STREAMING").id, to, Command("STOP_STREAMING").locks))
        BY <1>6, <2>2 DEF Ids
    <2>5. Phase(e)' /\ itf' = itf
        BY <1>2, <1>6, <2>1, <2>3, <2>4, CallPhase DEF Ids
    <2> QED
        BY <1>2, <1>5, <2>5
<1>11. ASSUME NEW id \in {"ACQUIRE_LOCK", "RELEASE_LOCK"}, NEW l \in SUBSET Locks,
              Calls(e, "STREAMING", [Command(id) EXCEPT !.locks = l], Wait(id, itf[e], l))
       PROVE  Phase(e)' /\ itf' = itf
    <2> DEFINE c == [Command(id) EXCEPT !.locks = l]
    <2>1. c \in Commands /\ c.id = id /\ c.locks = l
        BY <1>11 DEF Command, Commands
    <2>2. state[e] = "STREAMING" => itf[e] = "Running"
        BY <1>1, <1>4 DEF StateAt
    <2>3. state[e] = "STREAMING" => Moves(itf[e], c.id, itf[e])
        BY <2>1, <2>2 DEF Moves
    <2> HIDE DEF c
    <2> QED
        BY <1>2, <1>3, <1>11, <2>1, <2>3, CallPhase DEF c
<1>12. CASE SearchAndLock(e) \/ Unlock(e)
    <2>1. Phase(e)' /\ itf' = itf
        BY <1>11, <1>12 DEF SearchAndLock, Unlock
    <2> QED
        BY <1>2, <1>5, <2>1
<1> QED
    BY <1>7, <1>8, <1>9, <1>10, <1>12

LEMMA DeletePhase ==
    ASSUME TypeInv, NEW e \in Engines, Phase(e), Delete(e)
    PROVE  Sent(e)'
<1> DEFINE c == Command("SHUTDOWN")
<1>1. itf[e] = "Invalid" /\ Rest(e)
    BY RestOf DEF Delete, Free, None
<1>2. c \in Commands /\ c.id = "SHUTDOWN" /\ c.locks = {}
    BY CommandTyped DEF Ids
<1>3. Moves(itf[e], c.id, None) /\ None \in Places
    BY <1>1, <1>2 DEF Moves, Places
<1> HIDE DEF c
<1>4. /\ CamEngineSendCommand(e, c)
      /\ caller' = [caller EXCEPT ![e] = Wait(c.id, None, c.locks)]
      /\ UNCHANGED <<state, thread, driver, itf, events, alarm>>
    BY <1>2 DEF Delete, c
<1> QED
    BY <1>1, <1>2, <1>3, <1>4, CommandSent

LEMMA PausedPhase ==
    ASSUME TypeInv, NEW e \in Engines, Phase(e), StopPaused(e)
    PROVE  Rest(e)' /\ itf[e] # None /\ itf'[e] # None
<1>1. itf[e] = "Paused" /\ Rest(e)
    BY RestOf DEF StopPaused, Free, None
<1>2. itf'[e] = "Idle"
    BY DEF StopPaused, TypeInv, Typed, ItfTyped
<1>3. Off(e)'
    BY <1>1, OffKept DEF Rest, Ready, StopPaused
<1>4. Ready(e, "Idle", 0)'
    BY <1>1, <1>3 DEF Rest, Ready, StopPaused
<1> QED
    BY <1>1, <1>2, <1>4 DEF Rest, StopPaused, driver, None

(* The call that returns is done: its event is the one that is signalled, and *)
(* the engine is where the interface goes.                                    *)
LEMMA ReturnDone ==
    ASSUME NEW e \in Engines, Phase(e), caller[e].event \in events[e]
    PROVE  Done(e)
BY DEF Phase, Absent, Rest, Sent, Stopping, Joining, Searching, Shut, NoCall

LEMMA ReturnPhase ==
    ASSUME TypeInv, NEW e \in Engines, Phase(e), Return(e)
    PROVE  Rest(e)' /\ itf[e] # None /\ itf'[e] # None
<1>1. Done(e)
    BY ReturnDone DEF Return
<1>2. itf'[e] = caller[e].then /\ caller'[e] = NoCall /\ events'[e] = {}
    BY <1>1 DEF Done, Return, TypeInv, Typed, ItfTyped, CallerTyped, EventsTyped
<1>3. UNCHANGED <<state, commandQueue, thread, driver, alarm>>
    BY DEF Return
<1>4. (Off(e) => Off(e)') /\ (On(e) => On(e)') /\ Load(e)' = Load(e)
    BY <1>3, OffKept DEF On, NoAlarm, Load, driver, alarm
<1>5. ASSUME NEW p, Ready(e, p, 0) PROVE Ready(e, p, 0)'
    BY <1>3, <1>4, <1>5 DEF Ready, driver
<1>6. Ready(e, itf[e], 0)'
    <2>1. PICK p : p = caller[e].then
        OBVIOUS
    <2>2. Ready(e, p, 0)'
        BY <1>1, <1>5, <2>1 DEF Done
    <2> QED
        BY <1>2, <2>1, <2>2
<1>7. itf[e] # None /\ caller[e].then # None
    BY <1>1 DEF Done, Ready, None
<1>8. ~ eventCb'[e] /\ Clear(commandQueue[e])'
    BY <1>1, <1>3 DEF Done, driver
<1> QED
    BY <1>2, <1>6, <1>7, <1>8 DEF Rest

LEMMA CreateKeeps ==
    ASSUME TypeInv, EngineInv, OneAtATime', NEW e \in Engines, Create(e)
    PROVE  EngineInv'
<1>1. itf'[e] = "Invalid" /\ \A f \in Engines : f # e => Same(f)
    BY ClientSame DEF Create, TypeInv, Typed, ItfTyped, Client
<1>2. \A f \in Engines : itf[f] = None
    <2>1. itf[e] = None
        BY DEF Create, Free
    <2>2. ASSUME NEW f \in Engines, f # e PROVE itf[f] = None
        <3>1. itf'[f] = itf[f]
            BY <1>1, <2>2 DEF Same
        <3> QED
            BY <1>1, <2>2, <3>1 DEF OneAtATime, None
    <2> QED
        BY <2>1, <2>2
<1>3. NoAlarm /\ g_idx = 0 /\ Absent(e)
    BY <1>2, NoItfAbsent DEF EngineInv
<1>4. /\ state'[e] = "INITIALIZED" /\ thread'[e] = "read" /\ commandQueue'[e] = <<>>
      /\ DriverState'[e] = "INIT" /\ ~ eventCb'[e] /\ events'[e] = {} /\ index'[e] = 0
      /\ UNCHANGED <<subCtrls, irq, caller, alarm, exited>>
    BY <1>3
       DEF Create, TypeInv, Typed, EngineTyped, QueueTyped, DriverTyped, EventsTyped, IdsTyped
<1>5. Off(e)'
    BY <1>3, <1>4 DEF Absent, Gone, Off, NoAlarm, alarm
<1>6. Ready(e, "Invalid", 0)' /\ Clear(commandQueue'[e])
    BY <1>4, <1>5, EmptyClear DEF Ready
<1>7. Rest(e)'
    BY <1>1, <1>3, <1>4, <1>6 DEF Rest, Absent
<1>8. ASSUME NEW f \in Engines, f # e PROVE Phase(f)' /\ itf'[f] = None
    <2>1. Absent(f) /\ Same(f)
        BY <1>1, <1>2, <1>8, NoItfAbsent DEF EngineInv
    <2> QED
        BY <2>1, AbsentKept DEF Phase, Absent, Same
<1>9. \A f \in Engines : Phase(f)' /\ (itf'[f] # None => index'[f] = 0)
    BY <1>4, <1>7, <1>8 DEF Phase
<1> QED
    BY <1>1, <1>4, <1>9 DEF EngineInv, None

LEMMA DestroyKeeps ==
    ASSUME TypeInv, EngineInv, OneAtATime, NEW e \in Engines, Destroy(e)
    PROVE  EngineInv'
<1>1. Shut(e)
    <2>1. Phase(e) /\ thread[e] = "exit" /\ caller[e].event = "SHUTDOWN"
        BY DEF EngineInv, Destroy
    <2>2. \A p, k : ~ Ready(e, p, k)
        BY <2>1 DEF Ready, Off, On
    <2> QED
        BY <2>1, <2>2
           DEF Phase, Absent, Rest, Sent, Done, Stopping, Joining, Searching, NoCall, None
<1>2. /\ caller'[e] = NoCall /\ itf'[e] = None /\ commandQueue'[e] = <<>>
      /\ DriverState'[e] = "off" /\ g_idx' = 0
      /\ UNCHANGED <<state, thread, subCtrls, irq, eventCb, events, alarm, exited>>
    BY DEF Destroy, TypeInv, Typed, QueueTyped, DriverTyped, ItfTyped, CallerTyped
<1>3. Absent(e)' /\ NoAlarm'
    BY <1>1, <1>2 DEF Shut, Absent, Gone, NoAlarm, alarm
<1>4. ASSUME NEW f \in Engines, f # e PROVE Absent(f)' /\ itf'[f] = None
    <2>1. Absent(f) /\ Same(f)
        BY <1>1, <1>4, OthersAbsent, ClientSame DEF Shut, None
    <2> QED
        BY <2>1, AbsentKept DEF Absent, Same
<1>5. \A f \in Engines : Phase(f)' /\ itf'[f] = None
    BY <1>2, <1>3, <1>4 DEF Phase
<1> QED
    BY <1>2, <1>3, <1>5 DEF EngineInv

LEMMA ClientStepKeeps ==
    ASSUME TypeInv, EngineInv, OneAtATime, OneAtATime', NEW e \in Engines,
           Client(e) \/ Return(e) \/ Destroy(e)
    PROVE  EngineInv'
<1>1. Phase(e) /\ exited = None
    BY DEF EngineInv
<1>2. CASE \/ Connect(e) \/ Disconnect(e) \/ Start(e) \/ Stop(e) \/ SearchAndLock(e)
           \/ Unlock(e)
    BY <1>1, <1>2, CallsPhase, OneStep, ClientSame DEF Client
<1>3. CASE Delete(e)
    <2>1. itf[e] # None /\ itf' = itf /\ UNCHANGED <<ids, exited>>
        BY <1>3 DEF Delete, Free, None
    <2>2. Phase(e)'
        BY <1>1, <1>3, DeletePhase DEF Phase
    <2> QED
        BY <1>1, <1>3, <2>1, <2>2, OneStep, ClientSame DEF Client
<1>4. CASE StopPaused(e) \/ Return(e)
    <2>1. UNCHANGED <<ids, exited>>
        BY <1>4 DEF StopPaused, Return
    <2>2. Phase(e)' /\ itf[e] # None /\ itf'[e] # None
        BY <1>1, <1>4, PausedPhase, ReturnPhase DEF Phase
    <2> QED
        BY <1>1, <1>4, <2>1, <2>2, OneStep, ClientSame DEF Client
<1> QED
    BY <1>2, <1>3, <1>4, CreateKeeps, DestroyKeeps DEF Client
-----------------------------------------------------------------------------
(* The theorems for one engine at a time                                      *)

LEMMA EngineInvStep ==
    ASSUME PromptEngine, PromptHandler, TypeInv, EngineInv, OneAtATime, OneAtATime', [Next]_vars
    PROVE  EngineInv'
<1>1. ASSUME NEW e \in Engines,
             Client(e) \/ Return(e) \/ Destroy(e) \/ Engine(e) \/ Irq(e) \/ InputEnds(e)
      PROVE  EngineInv'
    BY <1>1, ClientStepKeeps, EngineStepKeeps, IrqStepKeeps
<1>2. CASE Alarm \/ HandlerSends
    BY <1>2, AlarmStepKeeps
<1>3. CASE UNCHANGED vars
    BY <1>3, StutterKeeps
<1> QED
    BY <1>1, <1>2, <1>3 DEF Next

LEMMA EngineInvInit ==
    ASSUME Init
    PROVE  EngineInv
<1>1. \A e \in Engines : Absent(e)
    BY DEF Init, Absent, Gone, None
<1>2. NoAlarm /\ g_idx = 0 /\ exited = None /\ \A e \in Engines : index[e] = 0
    BY DEF Init, NoAlarm
<1> QED
    BY <1>1, <1>2 DEF EngineInv, Phase

(* While one engine at a time exists, each of them is in one of its phases,    *)
(* and no assertion has ended the process.                                    *)
THEOREM EngineCorrect ==
    ASSUME PromptEngine, PromptHandler
    PROVE  Spec /\ []OneAtATime => [](TypeInv /\ EngineInv)
<1>1. Init => TypeInv /\ EngineInv
    BY InitTyped, EngineInvInit
<1>2. /\ TypeInv /\ EngineInv /\ OneAtATime /\ OneAtATime' /\ [Next]_vars
      => TypeInv' /\ EngineInv'
    BY TypeInvStep, EngineInvStep
<1> QED
    BY <1>1, <1>2, PTL DEF Spec

(* No assertion of the driver, of the image signal processor or of the alarm  *)
(* handler ends the process: driver starts and stops alternate, the callback  *)
(* is registered once, and the alarm finds an engine.                         *)
THEOREM AssertionsCorrect ==
    ASSUME PromptEngine, PromptHandler
    PROVE  Spec /\ []OneAtATime => []AssertionsHold
<1>1. EngineInv => AssertionsHold
    BY DEF EngineInv, AssertionsHold
<1> QED
    BY <1>1, EngineCorrect, PTL

(* Whenever no call is under way, interface, engine and driver agree, nothing *)
(* of an earlier stop is left, and no event is signalled.                     *)
THEOREM InterfaceCorrect ==
    ASSUME PromptEngine, PromptHandler
    PROVE  Spec /\ []OneAtATime => []InterfaceInStep
<1>1. ASSUME EngineInv, NEW e \in Engines, caller[e] = NoCall
      PROVE  /\ events[e] = {}
             /\ itf[e] = "Running" => /\ state[e] = "STREAMING" /\ subCtrls[e]
                                      /\ DriverState[e] = "running"
             /\ itf[e] \in {"Idle", "Paused"} => /\ state[e] = "RUNNING" /\ ~ subCtrls[e]
                                                 /\ DriverState[e] \in {"INIT", "stopped"}
                                                 /\ irq[e] = None
                                                 /\ \A i \in Slots : g_pCamEngineCtx[i] # e
    <2>1. Phase(e) /\ e # None
        BY <1>1, CamEngineAssumption DEF EngineInv
    <2>2. CASE itf[e] = None
        BY <2>1, <2>2, NoItfAbsent DEF Absent, None
    <2>3. CASE itf[e] # None
        <3>1. Rest(e)
            BY <1>1, <2>1, <2>3, RestOf
        <3> QED
            BY <2>1, <3>1 DEF Rest, Ready, Off, On, NoAlarm
    <2> QED
        BY <2>2, <2>3
<1>2. EngineInv => InterfaceInStep
    BY <1>1 DEF InterfaceInStep
<1> QED
    BY <1>2, EngineCorrect, PTL

(* Four entries are enough for whoever may not wait: the interrupt thread,    *)
(* which the engine thread joins, and the alarm handler.                      *)
THEOREM RoomCorrect ==
    ASSUME PromptEngine, PromptHandler, MaxCommands >= 4
    PROVE  Spec /\ []OneAtATime => []RoomInQueue
<1>1. ASSUME TypeInv, EngineInv, NEW e \in Engines, irq[e] # None
      PROVE  Len(commandQueue[e]) < MaxCommands
    <2>1. Phase(e) /\ Len(commandQueue[e]) \in Nat /\ irq[e] \in {HW, AAA}
        BY <1>1 DEF EngineInv, TypeInv, Typed, QueueTyped, DriverTyped, HW, AAA
    <2>2. irq[e] = HW => Bit(irq[e] = HW) = 1
        BY DEF Bit
    <2>3. ~ Off(e) /\ ~ Absent(e) /\ ~ Shut(e)
        BY <1>1 DEF Off, Absent, Shut, Gone
    <2>4. Len(commandQueue[e]) + Bit(irq[e] = HW) + Bit(ispOff[e]) + 1 <= Load(e)
        BY <2>1, LoadLeast
    <2>5. Bit(irq[e] = HW) \in {0, 1} /\ Bit(ispOff[e]) \in {0, 1} /\ Load(e) \in Nat
        BY <2>1, BitIs, LoadLeast
    <2>6. ASSUME NEW p, NEW k \in {0, 1}, Ready(e, p, k) PROVE Load(e) <= 4
        BY <2>3, <2>5, <2>6 DEF Ready
    <2>7. Len(commandQueue[e]) <= 3
        <3>1. CASE Rest(e) \/ Sent(e) \/ Done(e) \/ Searching(e)
            <4>1. Load(e) <= 4
                BY <2>5, <2>6, <3>1 DEF Rest, Sent, Done, Searching
            <4> QED
                BY <2>1, <2>4, <2>5, <4>1
        <3>2. CASE Stopping(e)
            <4>1. irq[e] = HW /\ Ends(e) <= 4
                BY <2>1, <3>2, SumNat, BitIs DEF Stopping, Ends
            <4> QED
                BY <2>1, <2>2, <4>1, BitIs DEF Ends
        <3>3. CASE Joining(e)
            BY <2>1, <2>5, <3>3 DEF Joining
        <3> QED
            BY <2>1, <2>3, <3>1, <3>2, <3>3 DEF Phase
    <2> QED
        BY <2>1, <2>7, CamEngineAssumption
<1>2. ASSUME TypeInv, EngineInv, handler # NoSlot, g_pCamEngineCtx[handler] # None
      PROVE  Len(commandQueue[g_pCamEngineCtx[handler]]) < MaxCommands
    <2>1. PICK e \in Engines : Stopping(e)
        BY <1>2, AlarmStopping
    <2>2. g_pCamEngineCtx[handler] = e
        BY <1>2, <2>1 DEF Stopping, TypeInv, Typed, AlarmTyped, Slots
    <2>3. Len(commandQueue[e]) \in Nat /\ Bit(timer # NoSlot \/ handler # NoSlot) = 1
        BY <1>2 DEF TypeInv, Typed, QueueTyped, Bit
    <2>4. Ends(e) <= 3
        BY <2>1, <2>3, SumNat, BitIs DEF Stopping, Ends
    <2>5. Len(commandQueue[e]) <= 3
        BY <2>3, <2>4, BitIs DEF Ends
    <2> QED
        BY <2>2, <2>3, <2>5, CamEngineAssumption
<1>3. TypeInv /\ EngineInv => RoomInQueue
    BY <1>1, <1>2 DEF RoomInQueue
<1> QED
    BY <1>3, EngineCorrect, PTL

(* A client that comes back from searchAndLock has locked all it asked for,   *)
(* whether at once or at the end of a later frame, and one that comes back    *)
(* from unlock has nothing of it locked nor left to lock.                     *)
THEOREM LocksCorrect ==
    ASSUME PromptEngine, PromptHandler
    PROVE  Spec /\ []OneAtATime => LocksAsAsked
<1> DEFINE AsAsked == \A e \in Engines :
              /\ Returned(e, "ACQUIRE_LOCK") => caller[e].locks \subseteq aaa[e]
              /\ Returned(e, "RELEASE_LOCK") =>
                    caller[e].locks \intersect (aaa[e] \union LockMask[e]) = {}
<1>1. ASSUME TypeInv, EngineInv, Next, NEW e \in Engines,
             NEW id \in {"ACQUIRE_LOCK", "RELEASE_LOCK"}, Returned(e, id)
      PROVE  Done(e)
    <2>1. caller[e].event = id /\ caller'[e] = NoCall /\ caller'[e] # caller[e] /\ Phase(e)
        BY <1>1 DEF Returned, NoCall, None, EngineInv
    <2>2. ASSUME NEW f \in Engines, Engine(f) \/ Irq(f) \/ InputEnds(f) PROVE caller' = caller
        <3>1. Engine(f) => client' = client
            BY DEF Engine, EngineShutdown, EngineStart, EngineStop, EngineStartStreaming,
                   EngineStopStreaming, EngineFinished, EngineJoin, EngineFinishedAgain,
                   EngineAcquireLock, EngineAaaLocked, EngineReleaseLock, EngineWrongState
        <3>2. Irq(f) \/ InputEnds(f) => client' = client
            BY DEF Irq, IrqIspOff, IrqSend, IrqFrameOut, InputEnds
        <3> QED
            BY <2>2, <3>1, <3>2 DEF client
    <2>3. Alarm \/ HandlerSends => caller' = caller
        BY DEF Alarm, HandlerSends, client
    <2>4. PICK f \in Engines : Client(f) \/ Return(f) \/ Destroy(f)
        BY <1>1, <2>1, <2>2, <2>3 DEF Next
    <2>5. f = e
        BY <1>1, <2>1, <2>4, ClientSame DEF Same
    <2>6. ~ Client(e)
        <3>1. caller[e] # NoCall
            BY <2>1
        <3> QED
            BY <3>1, <2>1 DEF Client, Create, Delete, Connect, Disconnect, Start, Stop, StopPaused,
                       SearchAndLock, Unlock, Free
    <2>7. Return(e)
        BY <2>1, <2>4, <2>5, <2>6 DEF Destroy
    <2> QED
        BY <2>1, <2>7, ReturnDone DEF Return
<1>2. TypeInv /\ EngineInv /\ [Next]_vars => [AsAsked]_vars
    <2>1. ASSUME TypeInv, EngineInv, Next PROVE AsAsked
        <3>1. ASSUME NEW e \in Engines, NEW id \in {"ACQUIRE_LOCK", "RELEASE_LOCK"},
                     Returned(e, id)
              PROVE  Done(e) /\ caller[e].event = id
            BY <1>1, <2>1, <3>1 DEF Returned
        <3> QED
            BY <3>1 DEF Done
    <2> QED
        BY <2>1
<1> QED
    BY <1>2, EngineCorrect, PTL DEF Spec, LocksAsAsked
==============================================================================
