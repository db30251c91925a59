# work_test_lib: TLA+ models and proofs

The repository holds a camera stack: the vendor's camera HAL for RK33xx chips
(`CameraHal00_Develop`: the Android adapters in `CameraHal4.4`/`CameraHal5.x`,
the image signal processor software in `SiliconImage`), the code of a USB
camera built on it (`sunny_lib`, `ezy_buf`, `gdt_uvcvideo`), copies of Linux
kernel drivers, and test tools.  Its own core is the path of a picture buffer
through `SiliconImage`, from the interrupt of the memory interface to the
client and back, on a hand-made OS layer.  That is what is modelled first.
Paths below are relative to `src/CameraHal00_Develop/SiliconImage/`.

## Inventory

| Part | State | Operations and partners | Hard | Correct when |
|---|---|---|---|---|
| oslayer: semaphore (`oslayer_linux.c`) | `count`, condition variable, mutex | wait, timed and try wait, post; under every queue | wake-ups, timeouts, several waiters | no token lost or invented, nobody sleeps beside a token |
| oslayer: queue (`oslayer_generic.c`) | ring, two pointers, two semaphores, mutex | blocking, timed, try read and write; between all threads | items are copied outside the lock | FIFO, no slot used twice |
| oslayer: event, thread, atomics | flag + condition; thread handle; one global mutex | signal, wait; create, wait, close | `if` around the condition wait; join | signals are not lost |
| bufferpool: pool, buffer | lock count, owner and `isFull` per buffer; `freeBufNum`, `fillLevel`, `index`; callbacks | get, filled, free, lock, unlock, reset; calls back its users | no lock but the atomic count | a buffer is free iff its count is 0, counts agree |
| bufferpool: queue of full buffers | ring of buffers over a pool | get empty, put full, get full, lock, release, flush, reset | counters that must agree at the edges | FIFO, locks honoured, watermarks reported |
| bufferpool: extended queue | several readers on shared buffers | as above, attach | chains of queues | as above |
| mom_ctrl | `State`, command, empty and full queues per path, attached queues | handler thread; callbacks from the pool (client threads) and the memory interface (interrupt thread); API (engine thread) | four threads, stop against frames under way, timeouts | no buffer lost or shared, commands completed |
| cameric_drv: memory interface | shadow and next buffer per path | interrupt, start, stop; calls mom_ctrl | runs on while no buffer comes | hardware owns what it writes |
| cameric_drv: image signal processor | state of the driver, callback of a start, registers | start, stop, counted capture; interrupts for the end of a frame and of the input | late and missing interrupts | started and stopped in turn |
| mim_ctrl | `State`, command queue | load picture by DMA | completion interrupt against shutdown | as mom_ctrl |
| bufsync_ctrl | a parked buffer per camera, two queue threads, command thread | pairs buffers of two cameras; started, stopped and released by cam_engine | exit flags, two threads that take or replace the parked buffer, shutdown | each buffer unlocked once, no pair left lying |
| dom, som, exa, vom_ctrl | command queue, state | show, save, process buffers | as mom_ctrl | as mom_ctrl |
| cam_engine | state machine, command queue of four, lock masks, an entry per engine for the alarm | connect, start, stop, locks, configuration; drives all of the above; hears from the interrupt thread and from SIGALRM | a stop that ends in another thread or by an alarm; joins; commands that come twice | states match those of its parts, each call answered once |
| isp_cam_api | state of the interface, an event per call | the blocking calls of the HAL over cam_engine's asynchronous ones | waits without a timeout | interface and engine in step, no stale event |
| aaa (aec, af, awb, ...), isi, hal, calibration | numeric state; registers | measurement in, parameters out | numeric | not discrete |
| CameraHal5.x: display, command thread, ISP adapter | states of display and preview, message queue, frame array, buffers of a window | command thread starts and stops preview and display; bufferCb sends frames; the display thread shows and returns them | late frames, two semaphores and a condition, a window of another process | frames and window buffers given back once |
| CameraHal5.x: notifier | bits of what runs, a queue per thread, two counters of pictures, the frames lent | threads that encode, detect faces and copy frames; started, stopped and paused by the command thread and by calls of the application | two callers that pause one thread; frames between question and delivery; four mutexes for one word | a frame exists while it is used and is returned; calls return; pictures are made |
| CameraHal5.x: other adapters | as the ISP adapter | variants for USB and SOC cameras | as above | frames given back once |
| sunny_lib | ring buffers, sensor and USB threads | read, write, stream | shared rings | FIFO |
| ezy_buf | buffers shared by processes | ioctl, mmap | process death | buffers returned |

`PROJECT.json` lists every part, the vendored ones included, and the hazards
of the code line by line with the property that would catch each.

## Modules

| Module | Models | Notes |
|---|---|---|
| `CountingSemaphore` | - | abstract: a counter of tokens with answers |
| `OsSemaphore` | semaphore of `oslayer_linux.c` | a function is one step up to the condition wait and one after it, since it holds the mutex |
| `BoundedFifo` | - | abstract: an atomic bounded queue |
| `OsQueue` | `oslayer_generic.c` | two instances of `OsSemaphore`; slot, pointer, copy and post are separate steps |
| `OsQueueProofs` | - | proofs about `OsQueue`, and about `OsSemaphore` as the instance `Sema` |
| `MediaBufPool` | `media_buffer_pool.c`, `media_buffer.c` | a pool is a record, a function of the code an operator on it; no state of its own |
| `MediaBufPoolThreads` | the same, called by threads | one step per access to shared memory |
| `MediaBufPoolProofs` | - | lemmas about the operators of `MediaBufPool` |
| `BufferExchange` | - | abstract: free, somebody's, or in the queue of full buffers |
| `MediaBufQueue` | `media_buffer_queue.c` | one action per function, plus what clients hold |
| `MediaBufQueueProofs` | - | proofs about `MediaBufQueue`, and about `MediaBufPoolThreads` as the instance `Calls` |
| `CamerIcMi` | buffers of a path in `cameric_mi.c` | operators on `[pShdBuffer, pBuffer]` |
| `MomCtrl` | `mom_ctrl*.c` with pool, memory interface, engine and client | composition of four threads |
| `MomCtrlProofs` | - | proofs about `MomCtrl` |
| `BufSyncCtrl` | `bufsync_ctrl*.c` with the pools of two output modules and the engine thread | three threads and the engine |
| `BufSyncCtrlProofs` | - | proofs about `BufSyncCtrl` |
| `CamEngine` | `cam_engine.c`, `cam_engine_api.c`, `cam_engine_cb.c`, start and stop of `cameric*.c`, `cam_engine_interface.cpp` | engine, interrupt thread, alarm handler, client |
| `CamEngineProofs` | - | proofs about `CamEngine` |
| `DisplayAdapter` | `DisplayAdapter.cpp`, the command thread of `CameraHal.cpp`, preview and display part of `CameraIspAdapter.cpp` | display thread, command thread, bufferCb, window |
| `DisplayAdapterProofs` | - | proofs about `DisplayAdapter` |
| `AppMsgNotifier` | `AppMsgNotifier.cpp`, the command thread and calls of `CameraHal.cpp`, `bufferCb` and `stopPreview` of `CameraIspAdapter.cpp` | three threads of the notifier, bufferCb, command thread, application |
| `AppMsgNotifierProofs` | - | proofs about `AppMsgNotifier` |
| `MC*` | - | constants for TLC, only where a cfg alone does not do |

`MomCtrl` in more detail.  `thread.at` is where `MomCtrlThreadHandler` is in
the command it processes, `thread.b` its local `pBuffer`.  `irq` is the place
of the interrupt thread between the event that delivers a full buffer, the
command that follows it and the request for an empty one.  `engine` is the
place of the engine thread in `CamEngineMomCtrlStart`, `CamerIcMiStart`
(`CamerIcRequestAndSetupBuffers`), `CamerIcMiStop` and `CamEngineMomCtrlStop`;
it starts mom_ctrl before the hardware and stops it after
(`cam_engine.c:2677,2708` and `2798,2807`).  `out`, `held` and `back` are the
client: a queue attached to the path, the locks it owes, and the buffer that
the pool's callback, running in the thread of the client that unlocked last,
has taken and not yet written to `EmptyBufQueue`.  Each osQueue is a sequence
and each call of it one step, which is what `OsQueue` is shown to implement
(`ImplementsFifo`) for one writer and one reader.  A queue that mom_ctrl lets
several threads write (`CommandQueue`, `EmptyBufQueue`) is outside of that
result: with two elements in `Writers`, TLC refutes `ExclusiveSlot`, since a
post may announce the slot that the other writer is still filling.  Each call of the pool is
taken as one step, although the handler, the interrupt thread, the engine and
clients all call it without a lock: `pool_race` shows that frees that overlap
do interfere, so what is shown of `MomCtrl` (and of `BufSyncCtrl`) is what holds
when they do not.

`BufSyncCtrl`: `reader[q]` is the thread of camera `q` between the read from
its queue (`bufQueue`), the exchange with the parked buffer (`pBuffer`) and the
command to the command thread; `handler` is that thread, with the pair it has
taken while the callback runs; `mom[q]` is the output module of the camera, its
pool and the buffers at the hardware and in its full queue; `engine` is where
the engine thread is in a start, a stop or a release.  `carried` is history:
the buffers that were held here when a stop reset their pool.

`CamEngine`: `thread` is the engine thread, `state` and `commandQueue` its
command machine; `DriverState`, `input`, `ispOff` and `eventCb` are the driver;
`irq` is what the interrupt thread still has to send; `itf`, `caller` and
`events` are the interface, the call its client is in, and the signalled
events; `timer`, `handler` and `g_pCamEngineCtx` the alarm that bounds a stop.
`exited` names the assertion that ended the process.  A stop is completed by
`CAM_ENGINE_CMD_HW_STREAMING_FINISHED`, which the interrupt for the end of the
input, the end of a counted capture or the alarm sends; the engine thread joins
the interrupt thread on the way.

`DisplayAdapter`: `todo` is what the command thread still has to do for the
command it has taken, a step per call or condition of `CameraHal.cpp`;
`thread` is where the display thread is with a message; `cb` is a frame between
`isNeedSendToDisplay` and `notifyNewFrame`.  `window` counts the buffers that
the HAL has and those on their way to the screen, `mDisplayBufInfo` those that
the HAL believes to have (`buf_state` 0).

`AppMsgNotifier`: `queue` and `thread` are the three threads `eventThread`,
`encProcessThread` and `faceDetectThread`; `mRunningState` is the set of its
bits and `received` the two flags beside it; `todo` is what the command thread
and the call of the application still have to do, a step per function or
condition of the code, and `sem` the semaphore that each waits on.  `pictures`
has the two counters of a request, the one that bufferCb counts down and the
one of the encoder.  `mFrameInfoArray` are the frames that lock a buffer of the
engine.  A change of `mRunningState` is one step, although the code guards its
bits by four mutexes: an update lost between two of them is not modelled.

## Checks

| Run | Question | Bounds and why they do |
|---|---|---|
| `semaphore` | tokens, wake-ups, refinement of the counter, answers | one waiter, two posters, counts to 3: full, empty and a post between two |
| `queue` | FIFO, exclusive slots, no slot lost | 2 slots, 2 items: full, empty and wrapped; all six calls |
| `buffer_queue` | counts, locks, ring, watermarks, FIFO exchange, over flushes and resets in any state | 3 buffers, watermarks 1 and 2, counts to 3 |
| `pool_threads` | does a referenced buffer look free, is the free counter exact, does the scan end, when threads take turns at last references and lock and unlock meanwhile | 3 buffers, two threads, two references each |
| `pool_race` | the first of these without the turns, as the code is | as above |
| `mom_ctrl` | buffers and commands across four threads, any number of streams | 3 buffers: one per place of the memory interface and one outside, so that frames are dropped and delivered; a command queue of 3; up to 2 client locks |
| `cam_engine` | engine, interface and driver in step, no event left over, no assertion fails, calls return | one engine, the real depth of 4 of its queue (`cam_engine_interface.cpp:356`), two locks: every command, counted captures, missing and late ends of the input, the alarm |
| `bufsync` | one lock per buffer and place, no pair forgotten, shutdown | two buffers per camera, so that a buffer is replaced while another is parked; a queue of 2, the tightest (the engine uses 4: checked too, 614719 states); two starts and a release |
| `bufsync_restart` | the same, when a stream is started with buffers still parked | as above |
| `display` | frames and window buffers given back, window kept while used, commands end | two frames (three checked too, 629545 states): one shown and one that comes; two windows to change; 4 buffers and 2 undequeued, as in the code, so that the screen runs dry |
| `notifier` | frames lent and returned, pictures counted, video buffers left alone, calls end | two frames: one at a thread and one that comes; bursts of two pictures, so that a request is half done; one command at the command thread and one behind it |
| `notifier_pause` | do calls end when the application stops something while the command thread restarts the preview | one frame, one picture |

`CounterMod` bounds the 32 bit counts: a wrap-around of a count that is never
below what it counts does not happen, one that is would show as a huge count
and violate the same invariants.  `MaxHeld`, `MaxLocks`, `MaxCommands` and
`MaxCount` are bounds on environments and queues, `MaxStarts` one on the engine.

The runs that expect a violation state what a comment or header says of the
code, quoted in `PROJECT.json` under "findings", and TLC finds the behaviour
that breaks it.  None is far from the code's use: several client threads unlock
buffers, a camera is stopped with one buffer of a pair parked, a face detection
is stopped while the preview starts.

What the passing runs show in short:

* with one waiter the `if` around `pthread_cond_wait` is harmless
  (`ImplementsCounter`, `NoLostWakeup`) as long as the condition variable has
  no spurious wake-ups, which POSIX allows and the model leaves out, and the late look at the count after
  `ETIMEDOUT` is needed: without it `ImplementsCounter` fails;
* copying outside of the lock is sound with one writer and one reader
  (`ExclusiveSlot`, `ImplementsFifo`);
* over a stream, stop and start, each lock of a buffer is somebody's
  (`LockCountsUsers`), the hardware never shares a buffer with a client
  (`HardwareExclusive`), START always finds the two buffers that the memory
  interface asserts (`HardwareServed`), although STOP abandons what clients
  have: an unlock of a buffer without owner is refused by `pOwner == NULL`;
* the engine's waits for START and STOP end (`CommandsComplete`);
* a stop of the camera ends although the hardware may never report the end of
  its input (`CallsReturn`), and no report comes twice or meets the next stream
  (`InterfaceInStep`).  One call may wait
  for ever: `searchAndLock` after a counted capture has ended, since only a
  frame can answer it.  That is why this run does not check for deadlock;
* a queue of four is enough for the engine: the interrupt thread, which the
  engine joins, and the alarm handler never have to wait (`RoomInQueue`);
* in bufsync_ctrl a lock is undone once, whichever thread replaces, takes or
  discards the buffer, and two buffers never wait for each other
  (`LockedOnce`, `NoPairForgotten`);
* the display and bufferCb never lose a frame nor use one that a stop of the
  preview has freed (`FramesKnown`), since `notifyNewFrame` looks again, under
  the lock, at the state that `pauseDisplay` announces;
* the same look protects the frames of the notifier (`NoStaleFrame`,
  `NoFrameLost`) and, by the order of a thread's queue, the buffers that
  `stopRecording` frees (`VideoQuiet`), as long as the application keeps to the
  order below; each picture asked for is made, and a stop of the preview, which
  waits for the pictures, ends (`PicturesCounted`, `CallsReturn`).

### Environment and fairness

The client of `MomCtrl` gives back all buffers before the next stream starts:
`CameraIspAdapter::stopPreview` stops the engine and then calls
`clearFrameArray`.  It may give them back while the stream stops or after.
The interrupt thread is joined by `HalDisconnectIrq` before the flush.  A pool
callback under way ends within STOP's timeouts (`PromptCallbacks`; when it is FALSE, TLC
refutes `LockCountsUsers`: the flush then frees a buffer that the callback puts
into the queue).

`MediaBufQueue` is flushed and reset in any state.  A flush undoes the locks that
clients have on a queued buffer with the queue's own (`media_buffer_queue.c:343`),
a reset those of all buffers, although `media_buffer_queue.h:289-291` promises
that a buffer "will not be available as empty buffer until unlocked as many times
as locked before".  The code does not keep that promise: it is
`HoldersKeepBuffers`, which TLC refutes by a flush and by a reset, and no run
checks it.  What the run shows is that the accounts are right after it
(`LocksHonoured`, `FreeCounted`, `QueueShape`).  `held` are the references that a
client may still use; those that a flush or reset made void are dropped, though
no function tells a client which they are: one that goes on to use one acts on a
buffer that may be somebody else's.  No code of the repository calls the flush or
the reset.

In `MediaBufPoolThreads` `InTurn` says whether threads take turns at giving back
last references, that is, whether the free and the scan that follow are over
before the next begins; they lock, and unlock other references, at any time.
Nothing in the code sees to it: without it (`pool_race`) TLC refutes `HeldLocked`,
and `CountedAtRest` too.

In `BufSyncCtrl` the stream is started only when no buffer of the last one is
parked (`CleanRestart`, lifted in `bufsync_restart`); nothing in the code sees
to it.  In `CamEngine` the frame interrupt comes after the engine has handled
the last `AAA_LOCKED` (`PromptEngine`) and an alarm handler goes on before the
engine handles the end of the stop it decided to report (`PromptHandler`,
when it is FALSE, TLC refutes `AssertionsHold`: the handler looks at the engine
twice, and the stop may end in between).  The client of an engine makes one call
at a time.  In `DisplayAdapter` no window refuses or is abandoned (`Faults = {}`;
with `"enqueue"` TLC refutes `FramesKnown`: the display thread pauses by itself
and drops what is queued; with `"abandoned"` it refutes `CallsReturn`: the
thread ends by itself and the next start waits for it), a burst of
pictures has a window, and the camera is released when its preview has stopped,
as the camera service does.

In `AppMsgNotifier` the application keeps to an order that the code does not
enforce (`Allowed = {}`).  Each liberty alone breaks a property:

| Liberty | What the application, or time, does | What TLC refutes |
|---|---|---|
| `restart` | stops faces or a recording while the command thread restarts the preview | `CallsReturn` (run `notifier_pause`): the second PAUSE is thrown away |
| `callback` | allows or forbids preview callbacks while a frame is under way or the command thread is busy | `NoStaleFrame`: `pausePreviewCBFrameProcess` finds the bit clear and does not pause |
| `metadata` | forbids metadata while a face is looked for | `NoFrameLost`: `processFaceDetect` then does not return the frame |
| `record` | stops or resizes the preview while it records | `NoStaleFrame`: nothing pauses the frames of the video |
| `denoise` | has the multi-frame denoiser on when it takes a picture | `NoFrameLost`: the frames it collects are locked and never unlocked (`CameraIspAdapter.cpp:2587-2627`) |
| `slow` | takes more than 1.5 s for the pictures | `PicturesCounted`: the request is given up half-way, and the PAUSE of the encoder reads a null pointer |

Weak fairness is assumed of threads that are runnable: the ones inside a
semaphore or queue function, inside the pool, the handler thread, the engine
inside START and STOP, the interrupt thread inside its handler, the alarm, the
display, the notifier's and the command thread.  The code runs them as plain pthreads, and a
timeout is a clock.  Strong fairness is assumed of `stopPreview` in
`DisplayAdapter` and `AppMsgNotifier`, since a stop of the engine waits for the
frames that came before it, not for those that follow, and in `AppMsgNotifier`
of the frames for pictures: a running preview delivers one after the other.  A
thread of the notifier that empties its queue gets to the end of it
(`[]<>(thread[t].at # "drain")`): it returns frames faster than the sensor makes
them.  No fairness is assumed of callers, of other frames, of clients, of the
screen, of the end of the input that the hardware reports, or of the decision to
stop.

## Proofs

The semaphore by itself, the last part of `OsQueueProofs`: all waits are made
by one thread (`OneWaiterOnly`), and the counts are in the ranges that
`SemaphoreAssumption` states (`Bounded`); any number of posters, any initial
count and maximum.

* `SingleWaiterCorrect`: `SafeSpec => []SingleWaiterInv`.  Neither safety
  property is inductive: a signalled thread decrements without a test, so the
  invariant says that a signalled thread has a token (`count > 0`) and that a
  blocked one has none (`count = 0`), and ties the place on the condition
  variable to the function called.  The proof has a step per action.
* `SingleWaiterSafe`: `NoTokenFromNothing` and `NoLostWakeup` follow.
* `SingleWaiterImplementsCounter`: `SafeSpec => Counter!SafeSpec`, each step
  mapped to a step of `CountingSemaphore` or a stutter, using the invariant.

`MediaBufPoolProofs` and what `MediaBufQueueProofs` says of the queue rest on
`PoolAssumption` alone:
any positive number of buffers, any watermarks up to it, any bound of the
counts above 2, in ring-buffer mode or not.

The lemmas on the pool say of each operator, in any pool whose free counter is
exact, what it does to the set of free buffers and to the counts of free and
filled ones: `FirstFreeFound` (the scan returns a free buffer if there is
one), `PoolGetCounts`, `PoolFreeCounts`, `NewPoolCounts`.  Two tools carry
them: `ModOnce`, since a position passes the end of the array at most once
before the code brings it back, and `NatLeast`, the least distance at which
the scan hits.

The invariant of the queue is `Inv`, since none of the properties the run
checks is inductive alone:

* `Ring`: the positions that hold a buffer are those at a distance below
  `fullBufsAvail` from `tail`, `head` is the end of that window, and no buffer
  is in it twice.  Without it a write could overwrite a queued buffer, and a
  read could return an empty slot.
* `Counts`: `fullBufsAvail`, `fillLevel` and `freeBufNum` are cardinalities.
  A release changes two of them or none, by what the lock count and the
  filled flag say, and a flush all three at once.
* `Locks`: a buffer in the array is full, and its lock count is what clients
  hold plus one if it is in the array.  That a release of the queue's own lock
  leaves a buffer free exactly when no client has it follows from it.
* `WatermarksKnown`: the run's property, inductive beside the others.

There is a lemma per action, and in it a step per conjunct; the theorems
`TypeCorrect`, `FreeCounterExact`, `LocksAccountedFor`, `QueueShapeKept` and
`WatermarksFollowed` follow from `Inv`.  `QueueImplementsExchange` is
`Spec => ImplementsExchange`: under `Inv` a read of the ring at `tail` is a
`Tail` of the sequence `Full`, a write at `head` is an `Append` to it, and what
a step frees in the pool is what the exchange frees.

The last part of `MediaBufQueueProofs` is about the pool called by threads, one
access to memory at a time, for any number of threads, of buffers and of
references to one (the counts do not wrap: `CallBounds`, as `ThreadsAssumption`
has it).  It supposes `InTurn`.  The other threads are not idle meanwhile: they
lock, and undo locks that are not the last, between any two accesses.

* `ThreadCorrect`: `Calls!Spec => []ThreadInv`.  `CallPlace` says, place by place,
  how the pool differs from one at rest: a buffer whose count is 0 and which the
  counter does not count yet, a counter that was read and is not written back, a
  buffer found and no longer counted whose lock is not set.  `CountMoves` is why
  the others do no harm: a lock count that stays above 0 changes neither the
  set of free buffers nor the counter.  `TurnTaken` is the common part of the
  steps of the one thread that is in the pool.
* `LocksHeld`: `HeldLocked` follows, since the lock counts are the references.
* `FreeBuffersCounted`: `CountedAtRest` follows.

It does not follow that the calls of the pool are atomic in `MomCtrl`, whose
threads need not take turns: that is an assumption of that module.

`BufSyncCtrlProofs` rests on `BufSyncCtrlAssumption` alone: any number of buffers,
any depth of the command queue, any number of starts.  Its invariant `IInv`
ties the engine thread to the three threads it controls:

* `InOrder`: START is queued only while the engine is starting, STOP only while
  it is stopping, SHUTDOWN only while it destroys the module, and then as the
  last command; beside the announcements of pairs there is at most one command.
* `Ended`: a handler that has ended left an empty queue to an engine that is
  destroying the module or has done so.  `QueueLeftEmpty` (`NothingToCancel`)
  is one conjunct of it, and needs the rest: both queue threads have ended by
  the time the engine is past their joins, so nobody sends after SHUTDOWN.
* `PairWhole`: a handler that calls back has a buffer of both cameras.
* `Old`: while no stream runs, no output module does, and what is held of a
  module that does not run was held when its pool was reset (`carried`).
  `PairsAnnounced` (`NoPairForgotten`) follows: only a delivery completes a
  pair, and whoever parks its second buffer owes a command.

`LocksInv` is the second invariant, on top of `IInv`: a buffer's lock count is
the number of places that hold it (`LockedOnce`), an output module runs only
with a stream and one that does not has empty queues (`Drained`), and a locked
buffer has a pool to go back to (`LocksOwned`).  `HandsSplit` counts the places
one by one, so that a step that moves a buffer leaves the sum, and one that
discards it takes one from both sides.  `LocksMatchPlaces` follows.

The pool of each output module enters by the lemmas of `MediaBufPoolProofs`, so
that the same facts carry the proofs here, of `MediaBufQueue` and of `MomCtrl`;
the queues by `SequenceTheorems`.

Of the queue, `EverySlotCounted` (`SlotsConserved`) needs
`QueueAssumption` alone, hence any set of readers and writers: a step moves at
most one slot between free, used and in a thread's hand (`Counted`).  The others
are for one reader and one writer, which is how the code uses these queues but
for the two that mom_ctrl lets several threads write:

* `SemaInv`: a thread sleeps on a semaphore only while its count is 0, and the
  token of one that was signalled is still there.
* `RingInv`: the slot that the reader copies, the used slots, the one that the
  writer fills and the free slots follow each other around the ring.  That is
  what makes a copy outside of the lock safe: `SlotsNeverShared`
  (`ExclusiveSlot`) is read off it.
* `CopyInv`: from the copy to the post, the slot and the thread have the same
  item; a reader that still waits has none.

`QueueIsFifo` is `SafeSpec => Fifo!SafeSpec` from these: a write counts at the
post of `ItemsUsedSema`, a read at the one of `ItemsFreeSema`.

`MomCtrlProofs` supposes `PromptCallbacks` (as the run: a pool callback under
way ends within the 10 ms for which STOP waits for more buffers) and that
the counters are wide enough for all locks, `MaxLocks + 1 < CounterMod`;
otherwise any number of buffers and any depth of the queues.  Its invariant:

* `FreeCountExact` of the pool, from which the lemmas of `MediaBufPoolProofs`
  give what each call does to counts and locks.
* `Phase`, one conjunct for each of off, starting, setting up, streaming,
  stopping and ending: how far mom_ctrl, the interrupt thread and the hardware
  are at each place of the engine thread.  It is the heart of the proof: a STOP
  resets the pool below everyone, and what may still be on its way then follows
  from where the engine is.
* `Locks` and `Alone`: a lock is one place's or one client's, and the places
  that the hardware knows are apart from each other and from the clients.
  `OwnersSplit` counts the places.

From it `CountsAreUses` (`LockCountsUsers`), `HardwareAlone`
(`HardwareExclusive`), `FullBuffersProcessed` (`FullBuffersAnnounced`) and, with
at least two buffers and a pool that is no ring buffer, `HardwareFindsBuffers`
(`HardwareServed`).  `MomCtrlExchanges` shows `SafeSpec => ImplementsExchange`:
four threads around a pool and two queues do what `BufferExchange` does, and so
what `MediaBufQueue`, which implements it too, does in one thread.

`DisplayAdapterProofs` supposes `Faults = {}`, hence a window that takes its
buffers, as the run does (with a fault the properties are false: see the hazard
at `DisplayAdapter.cpp:783`), and that `None` is no frame; any frames, windows
and number of buffers.  The invariant ties the list of steps that the command
thread still has to do (`Planned`: the list of a command, or what is left of
one) to the display thread:

* `Handshake`: who waits for the display thread sent the command that it has
  yet to answer, and nobody else did.
* `QuietNow`: when the command thread comes to stop the preview or to change the
  window, the display thread does not run, nor will it before that is done.
* `Places`, `Apart`, `FramesKnown`: a frame of the display is in one place, and
  these are the frames whose buffers are locked.
* `Showing` and `BuffersGivenBack`: a display that runs has buffers of its
  window and of no other, one that does not has none, and no frame either.

`DisplayTyped`, `FramesReturned` and `WindowGetsBuffers` follow.

`AppMsgNotifierProofs` supposes `Allowed = {}`, that is the application's order
that the runs suppose too (and no picture that outlasts `flushPicture`, and the
denoiser off), and that `None` is no frame; any frames, bursts and number of queued commands.  Its
invariant `IInv`, which TLC checked with two queued commands (491575 states)
before it was proved:

* `Plans`: what the command thread and the application still have to do is in
  the order of the code: each pause before what relies on it, everything quieted
  before "stop preview" and nothing started after it, one answer at the end.
* `OnePause`, `Waits`: there is one PAUSE at a time, of a caller that waits for
  it, and the application waits for the command thread or for a PAUSE, never
  both.  Where the application does not keep to that order there are two
  PAUSEs, and a caller waits for ever: the run `notifier_pause`.
* `Apart`, `Known`: a frame is in one place, and the locked buffers are those
  of the frames that somebody has.
* `Off`: what does not run is nowhere under way, or its thread is being paused
  by the one whose business that is.
* `Quieted`: what was stopped on the way to a stop of the preview stays so,
  although bufferCb and the application go on.
* `FaceAsked`, `Pictures`: no face is asked for without metadata; the two
  counters of a burst differ by what is queued between them.

`StopFindsNone` is where they meet: a stop of the preview finds no frame lent.
`FramesExist` (`NoStaleFrame`), `FramesComeBack` (`NoFrameLost`), `VideoStops`
(`VideoQuiet`) and `BurstsCounted` (`PicturesCounted`) follow.  There is a lemma
for each action and, where the command thread begins a command, one that its
list is `Planned`.

`CamEngineProofs` has two parts.  `EngineTypesCorrect` (`TypeOK`) needs
`CamEngineAssumption` alone: any finite number of engines, in any order, however
late the threads are.  Its point is `g_idx`, the count of engines from which
each one takes its slot for the alarm handler and which every shutdown sets back
to 0: it never exceeds the number of engines, so no slot outside of the array is
written.

The other theorems suppose the two orders of threads that the run supposes
(`PromptEngine`, `PromptHandler`) and that no two engines exist at once
(`OneAtATime`): any number of engines, created and shut down one after the
other.  With two at once TLC refutes `AssertionsHold`: an engine whose stop got
two ends drops the second because nobody is stopping, but it looks at all the
slots of the alarm, and when the other engine is stopping it stops its own driver
again (`cam_engine.c:2784`).  The invariant
`EngineInv` (TLC checked it first, with one engine and, under the constraint
`OneAtATime`, with three: 2.0 million states) says that each engine is in one
of its phases, `Absent`, `Rest`, `Sent`, `Done`, `Stopping`, `Joining`,
`Searching` or `Shut`.  A phase ties together what the client waits for, what
interface and engine think their states to be, what the driver and the alarm are
doing, and what can still come for the command queue: the command of the client
(`Load`) and the ends of a stop (`Ends`).  It has to say the last, since an end
of the stream has three authors, the interrupt for the end of the input, the end
of a counted capture and the alarm, of which a stop gets one answer and may get
two: what is left over of one call is what makes the next one fail.

* `AssertionsCorrect` (`AssertionsHold`): the driver starts and stops in turn,
  the callback is registered once, and the alarm finds an engine.
* `InterfaceCorrect` (`InterfaceInStep`): whenever no call is under way, the
  interface, the engine and the driver agree and nothing of a stop is left over.
* `RoomCorrect` (`RoomInQueue`): a queue of four commands has room for the
  threads that may not wait.  The theorem needs `MaxCommands >= 4`, which is what
  the code has (`cam_engine_interface.cpp:356`), and no more than it needs: with
  3, TLC fills the queue.
* `LocksCorrect` (`LocksAsAsked`): who returns from `searchAndLock` has locked
  what it asked for, at once or at a later frame, and who returns from `unlock`
  has it unlocked, with no search left behind that would lock it again.

Only model-checked: liveness (`ImplementsCounter` and `ImplementsFifo` in
full, `ScanEndsAlways`, `CommandsComplete`, each `CallsReturn`), which is out
of the prover's reach.  Nothing is proved of `CamEngine` with two engines at
once or late threads but the types.  Nothing is proved of `DisplayAdapter` with faults,
of `AppMsgNotifier` with an application that does not keep to the order, of
`MomCtrl` with callbacks that are late, of `MediaBufPoolThreads` with frees that
overlap, or of the ring of `OsQueue` with several writers: TLC refutes the properties there.

## Not modelled

The parts marked `not_modelled` in `PROJECT.json`, with the reason there, and
of the modelled parts:

* oslayer: several threads that wait on one semaphore (a signalled waiter may
  then find its token taken, plain by reading), and the 32 bit overflow of a
  timeout above 71 minutes;
* bufferpool: the extended queue and the average fill level;
* mom_ctrl: creation failures and their unwinding loops, the order of
  `MomCtrlDestroy`, the second output path, two queues attached to one path,
  and attaching or detaching while a stream runs;
* bufsync_ctrl: creation failures, `PROCESS_BUFFER` before the first start, a
  change of the callback while the stream runs, `pBuffer->last` (which nothing
  in the repository sets);
* cam_engine: the image processing mode (DMA and JPEG), the lock of the
  auto-focus, sub-calls that fail (assertions end those), two engines at once
  (they share one timer and one handler: with two, TLC finds stops that never
  end), and the answers that come after the 30 s for which `connect` and
  `disconnect` wait;
* display: a `cameraDisplayBufferCreate` that fails half-way, an abandoned
  window, and the destructor of `CameraHal` while its command thread still runs;
* notifier: the encoding, face finding and scaling, the callback thread, the
  frames of the display, `releaseRecordingFrame`, failures to allocate, the
  destructor, and updates of `mRunningState` that are lost between its mutexes;
  the tuning thread (`CameraIspAdapter.cpp:2454`), which takes all frames, in
  formats of its own, while it runs.  Three exits of the face thread are left out because no frame
  that bufferCb lends reaches them.  A frame that is not NV12
  (`AppMsgNotifier.cpp:1813`): the command thread starts all previews in the
  format that is (`CameraHal.cpp:901,923,1071,1093`).  A detector that is not
  initialized (line 1818): the bit that makes bufferCb lend frames is set only
  after it is (lines 176-177), and `startFaceDection` of the model may fail so.
  A frame that is skipped (lines 2055-2057): `FACEDETECT_FRAME_INTERVAL` is 1,
  and that exit returns the frame;
* register programming, picture formats and measurements throughout.

## Plan

1. (done) `OsSemaphore`, `OsQueue`, `MediaBufPool`, `MediaBufQueue`,
   `MediaBufPoolThreads`, `MomCtrl` with `CamerIcMi`.
2. (done) `BufSyncCtrl`, `CamEngine` with driver, interface and alarm,
   `DisplayAdapter` with command thread, bufferCb and window.
3. (done) `AppMsgNotifier`: the threads that encode, detect faces and copy
   frames, with the frames they are lent and the callers that pause them.
4. `OsEvent` and `OsThread` (signal, wait, reset, join) under an abstract flag.
5. `MimCtrl`, then what differs in `DomCtrl`, `SomCtrl`, `ExaCtrl`.
6. `MediaBufQueueEx`, refining `BufferExchange` per reader.
7. `Sfifo`, `EzyBuf`: the rings of the USB camera.
8. Proofs: (done) the semaphore for one waiter, the queue for one writer and one
   reader, the pool operators, the invariants of `MediaBufQueue` and `MomCtrl`
   and their refinement of `BufferExchange`, the order of commands and the locks
   of `BufSyncCtrl`, the invariants of `DisplayAdapter` and `AppMsgNotifier`;
   the invariants of `CamEngine` for one engine at a
   time, `MediaBufPoolThreads` for threads that take turns.
