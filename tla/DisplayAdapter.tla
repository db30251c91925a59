---------------------------- MODULE DisplayAdapter ----------------------------
(* The preview display of CameraHal5.x: the display thread of                 *)
(* DisplayAdapter.cpp and the three parties around it: the command thread of  *)
(* CameraHal.cpp, which starts and stops preview and display and changes the  *)
(* window; bufferCb of CameraIspAdapter.cpp, which runs in the thread that    *)
(* delivers full buffers; and the window, which belongs to the system.        *)
(* Buffers of the window are counted, not named: all that the code does is     *)
(* the same for each of them.  A step ends where a thread lets go of            *)
(* mDisplayLock or meets the window; what a frame looks like is left out.      *)
EXTENDS Integers, Sequences

CONSTANTS Frames,           \* the FramInfo_s that malloc can hand out
          Windows,          \* the preview_stream_ops that applications set
          BufNum,           \* CONFIG_CAMERA_DISPLAY_BUF_CNT
          UndequeueMin,     \* mDispBufUndqueueMin
          Faults            \* what may fail, of "abandoned" and "enqueue"

ASSUME DisplayAssumption == /\ BufNum \in Nat \ {0}
                            /\ UndequeueMin \in Nat /\ UndequeueMin >= 2
                            /\ Faults \subseteq {"abandoned", "enqueue"}

None == "none"

VARIABLES mDisplayRuning,
          mDisplayState,
          displayThreadCommandQ,
          mANativeWindow,
          mDisplayBufInfo,  \* the window the buffers are from, and how many of
                            \* them have buf_state 0
          thread,           \* the display thread: where it is, and its frame
          sem,              \* was the semaphore of the call under way signalled?
          window,           \* of each window: how many of its buffers the HAL has
                            \* and how many are on their way to the screen
          mFrameInfoArray,  \* the frames that lock a buffer of the engine
          cb,               \* bufferCb's frame before it calls notifyNewFrame
          mPreviewRunning,
          todo              \* what the command thread still does for a command

display == <<mDisplayRuning, mDisplayState>>
shared  == <<mANativeWindow, mDisplayBufInfo, window>>
frames  == <<mFrameInfoArray, cb>>
command == <<mPreviewRunning, todo>>
vars == <<display, displayThreadCommandQ, thread, sem, shared, frames, command>>

Message(cmd, frame) == [cmd |-> cmd, frame |-> frame]
Thread(place, frame) == [at |-> place, frame |-> frame]
Buffers(win, n) == [win |-> win, unused |-> n]
NoBuffers == Buffers(None, 0)
Holding(hal, screen) == [hal |-> hal, screen |-> screen]
Step(op) == [op |-> op, win |-> None]
SetTo(w) == [op |-> "set to", win |-> w]

\* The constructors
Init == /\ mDisplayRuning = None
        /\ mDisplayState = None
        /\ displayThreadCommandQ = <<>>
        /\ mANativeWindow = None
        /\ mDisplayBufInfo = NoBuffers
        /\ thread = Thread("receive", None)
        /\ sem = FALSE
        /\ window = [w \in Windows |-> Holding(0, 0)]
        /\ mFrameInfoArray = {}
        /\ cb = None
        /\ mPreviewRunning = FALSE
        /\ todo = <<>>

Quiet == {"PAUSE_PREPARE", "PAUSE_DONE", "STOP_PREPARE", "STOP_DONE"}

\* A message is put and mDisplayCond signalled under mDisplayLock: a thread that
\* waits on the condition goes on, no other takes notice.
Woken == CASE thread.at = "wait"      -> [thread EXCEPT !.at = "receive"]
           [] thread.at = "await any" -> [thread EXCEPT !.at = "dequeue"]
           [] OTHER                   -> thread
Put(m) == /\ displayThreadCommandQ' = Append(displayThreadCommandQ, m)
          /\ thread' = Woken

\* adapterReturnFrame unlocks the buffer of a frame that it knows.
returnFrame(f) == mFrameInfoArray' = mFrameInfoArray \ {f}
-----------------------------------------------------------------------------
(* bufferCb, as far as the display is concerned                               *)

isNeedSendToDisplay == /\ mDisplayRuning \notin {"PAUSE", "STOP"}
                       /\ mDisplayState \notin Quiet

BufferCb(f) == /\ mPreviewRunning /\ cb = None /\ f \notin mFrameInfoArray
               /\ isNeedSendToDisplay
               /\ mFrameInfoArray' = mFrameInfoArray \union {f}
               /\ cb' = f
               /\ UNCHANGED <<display, displayThreadCommandQ, thread, sem, shared, command>>

\* Mutant: only the state of the thread is looked at.
NotifyRunning == /\ cb # None
                 /\ IF mDisplayRuning = "RUNNING"
                    THEN Put(Message("FRAME", cb)) /\ UNCHANGED mFrameInfoArray
                    ELSE returnFrame(cb) /\ UNCHANGED <<displayThreadCommandQ, thread>>
                 /\ cb' = None
                 /\ UNCHANGED <<display, sem, shared, command>>

\* The display may have been told to pause since bufferCb asked.
notifyNewFrame == /\ cb # None
                  /\ IF mDisplayRuning = "RUNNING" /\ mDisplayState \notin Quiet
                     THEN Put(Message("FRAME", cb)) /\ UNCHANGED mFrameInfoArray
                     ELSE returnFrame(cb) /\ UNCHANGED <<displayThreadCommandQ, thread>>
                  /\ cb' = None
                  /\ UNCHANGED <<display, sem, shared, command>>
-----------------------------------------------------------------------------
(* The display thread                                                         *)

Takes(cmd) == /\ thread.at = "receive"
              /\ displayThreadCommandQ # <<>> /\ Head(displayThreadCommandQ).cmd = cmd
              /\ displayThreadCommandQ' = Tail(displayThreadCommandQ)

May(fault) == IF fault \in Faults THEN BOOLEAN ELSE {FALSE}

\* cameraDisplayBufferDestory gives back the buffers in state 0, to the window
\* that is set now.
Destroys == mANativeWindow # None /\ mDisplayBufInfo # NoBuffers
Cancelled == IF mDisplayBufInfo.win = mANativeWindow
             THEN [window EXCEPT ![mANativeWindow].hal = @ - mDisplayBufInfo.unused]
             ELSE window
cameraDisplayBufferDestory ==
    IF Destroys THEN mDisplayBufInfo' = NoBuffers /\ window' = Cancelled
                ELSE UNCHANGED <<mDisplayBufInfo, window>>

\* cameraDisplayBufferCreate has set_buffer_count replace the window's buffers
\* and takes all the new ones, or finds that the window was abandoned.
cameraDisplayBufferCreate(abandoned) ==
    IF abandoned
    THEN mANativeWindow' = None /\ cameraDisplayBufferDestory
    ELSE /\ mDisplayBufInfo' = Buffers(mANativeWindow, BufNum)
         /\ window' = [window EXCEPT ![mANativeWindow] = Holding(BufNum, 0)]
         /\ UNCHANGED mANativeWindow

\* CMD_DISPLAY_START
ThreadStart ==
    /\ Takes("START")
    /\ \E abandoned \in May("abandoned") :
          /\ cameraDisplayBufferCreate(abandoned)
          /\ IF abandoned THEN UNCHANGED display
             ELSE mDisplayRuning' = "RUNNING" /\ mDisplayState' = "START_DONE"
    /\ sem' = TRUE
    /\ thread' = Thread("check", None)
    /\ UNCHANGED <<frames, command>>

\* Mutant: the buffers stay with the display.
PauseKeeps == /\ Takes("PAUSE")
              /\ mDisplayRuning' = "PAUSE" /\ mDisplayState' = "PAUSE_DONE"
              /\ sem' = TRUE
              /\ thread' = Thread("check", None)
              /\ UNCHANGED <<shared, frames, command>>

\* CMD_DISPLAY_PAUSE
ThreadPause == /\ Takes("PAUSE")
               /\ cameraDisplayBufferDestory
               /\ mDisplayRuning' = "PAUSE" /\ mDisplayState' = "PAUSE_DONE"
               /\ sem' = TRUE
               /\ thread' = Thread("check", None)
               /\ UNCHANGED <<mANativeWindow, frames, command>>

\* CMD_DISPLAY_STOP ends the thread.
ThreadStop == /\ Takes("STOP")
              /\ cameraDisplayBufferDestory
              /\ mDisplayRuning' = "STOP" /\ mDisplayState' = "STOP_DONE"
              /\ sem' = TRUE
              /\ thread' = Thread("exit", None)
              /\ UNCHANGED <<mANativeWindow, frames, command>>

\* CMD_DISPLAY_FRAME: a frame that comes too late is dropped, and a thread that
\* has lost its window ends.
ThreadFrame ==
    /\ Takes("FRAME")
    /\ LET f == Head(displayThreadCommandQ).frame
       IN  CASE mDisplayRuning # "RUNNING" -> UNCHANGED <<thread, mDisplayRuning>>
             [] mDisplayRuning = "RUNNING" /\ mANativeWindow = None ->
                    thread' = Thread("exit", None) /\ mDisplayRuning' = "STOP"
             [] OTHER -> /\ thread' = Thread(IF mDisplayBufInfo.unused > 0 THEN "fill"
                                                                          ELSE "dequeue", f)
                         /\ UNCHANGED mDisplayRuning
    /\ UNCHANGED <<mDisplayState, sem, shared, frames, command>>

\* A buffer that the screen is done with comes back to the HAL.
Available == BufNum - window[mANativeWindow].hal - window[mANativeWindow].screen
DequeueBuffer == /\ Available > 0
                 /\ window' = [window EXCEPT ![mANativeWindow].hal = @ + 1]
                 /\ mDisplayBufInfo' = [mDisplayBufInfo EXCEPT !.unused = @ + 1]
                 /\ UNCHANGED mANativeWindow

ThreadDequeue == /\ thread.at = "dequeue"
                 /\ \/ /\ DequeueBuffer
                       /\ thread' = [thread EXCEPT !.at = "fill"]
                    \/ /\ Available = 0 /\ UNCHANGED shared
                       /\ thread' = [thread EXCEPT !.at = "busy"]
                 /\ UNCHANGED <<display, displayThreadCommandQ, sem, frames, command>>

\* Mutant: it asks for a buffer until there is one.
BusySpins == /\ thread.at = "busy"
             /\ thread' = [thread EXCEPT !.at = "dequeue"]
             /\ UNCHANGED <<display, displayThreadCommandQ, sem, shared, frames, command>>

\* No buffer: a frame gives way to whatever has come meanwhile, else it waits.
ThreadBusy ==
    /\ thread.at = "busy"
    /\ IF displayThreadCommandQ # <<>>
       THEN returnFrame(thread.frame) /\ thread' = Thread("receive", None)
       ELSE thread' = [thread EXCEPT !.at = "await any"] /\ UNCHANGED mFrameInfoArray
    /\ UNCHANGED <<display, displayThreadCommandQ, sem, shared, cb, command>>

\* Mutant: the buffer stays in state 0.
EnqueueKeepsState ==
    /\ thread.at = "fill"
    /\ window' = [window EXCEPT ![mANativeWindow] = Holding(@.hal - 1, @.screen + 1)]
    /\ thread' = [thread EXCEPT !.at = "return"]
    /\ UNCHANGED <<display, mDisplayBufInfo, mANativeWindow, displayThreadCommandQ, sem,
                   frames, command>>

\* The picture is copied into the buffer, and the buffer sent to the screen.
ThreadEnqueue ==
    /\ thread.at = "fill"
    /\ mDisplayBufInfo' = [mDisplayBufInfo EXCEPT !.unused = @ - 1]
    /\ \E failed \in May("enqueue") :
          IF failed THEN mDisplayRuning' = "PAUSE" /\ UNCHANGED window
          ELSE /\ window' = [window EXCEPT ![mANativeWindow] = Holding(@.hal - 1, @.screen + 1)]
               /\ UNCHANGED mDisplayRuning
    /\ thread' = [thread EXCEPT !.at = "return"]
    /\ UNCHANGED <<mDisplayState, mANativeWindow, displayThreadCommandQ, sem, frames, command>>

ThreadReturn ==
    /\ thread.at = "return"
    /\ returnFrame(thread.frame)
    /\ thread' = Thread(IF BufNum - mDisplayBufInfo.unused > UndequeueMin
                        THEN "refill" ELSE "check", None)
    /\ UNCHANGED <<display, displayThreadCommandQ, sem, shared, cb, command>>

\* With more than mDispBufUndqueueMin buffers out it asks for one of them.
ThreadRefill == /\ thread.at = "refill"
                /\ \/ DequeueBuffer
                   \/ Available = 0 /\ UNCHANGED shared
                /\ thread' = Thread("check", None)
                /\ UNCHANGED <<display, displayThreadCommandQ, sem, frames, command>>

\* Under mDisplayLock it waits for a message unless there is one.
ThreadCheck == /\ thread.at = "check"
               /\ thread' = Thread(IF displayThreadCommandQ # <<>> THEN "receive"
                                                                   ELSE "wait", None)
               /\ UNCHANGED <<display, displayThreadCommandQ, sem, shared, frames, command>>

\* Nothing has come: from the first look at the queue to the one under the lock.
ThreadIdle == /\ thread.at = "receive" /\ displayThreadCommandQ = <<>>
              /\ thread' = Thread("check", None)
              /\ UNCHANGED <<display, displayThreadCommandQ, sem, shared, frames, command>>

\* The screen is done with a buffer.
Screen(w) == /\ window[w].screen > 0
             /\ window' = [window EXCEPT ![w].screen = @ - 1]
             /\ UNCHANGED <<display, displayThreadCommandQ, thread, sem, mANativeWindow,
                            mDisplayBufInfo, frames, command>>
-----------------------------------------------------------------------------
(* The calls of the command thread                                            *)

Does(op) == todo # <<>> /\ Head(todo).op = op
Continue(steps) == todo' = steps \o Tail(todo)

\* startDisplay and pauseDisplay put a message with the semaphore they wait on.
startDisplay == /\ Does("start")
                /\ mDisplayState' = "START_PREPARE"
                /\ Put(Message("START", None))
                /\ Continue(<<Step("await")>>)
                /\ UNCHANGED <<mDisplayRuning, sem, shared, frames, mPreviewRunning>>

\* pauseDisplay and stopDisplay do nothing when the display has stopped like that.
Tells(cmd, prepare) ==
    /\ IF mDisplayRuning = cmd
       THEN Continue(<<>>) /\ UNCHANGED <<mDisplayState, displayThreadCommandQ, thread>>
       ELSE /\ mDisplayState' = prepare
            /\ Put(Message(cmd, None))
            /\ Continue(<<Step("await")>>)
    /\ UNCHANGED <<mDisplayRuning, sem, shared, frames, mPreviewRunning>>

pauseDisplay == Does("pause") /\ Tells("PAUSE", "PAUSE_PREPARE")
stopDisplay  == Does("stop") /\ Tells("STOP", "STOP_PREPARE")

\* sem.Wait
Await == /\ Does("await") /\ sem
         /\ sem' = FALSE
         /\ Continue(<<>>)
         /\ UNCHANGED <<display, displayThreadCommandQ, thread, shared, frames, mPreviewRunning>>

\* The conditions of CameraHal.cpp under which it calls them
Ask == /\ \/ /\ Does("pause if running")
             /\ Continue(IF mDisplayRuning = "RUNNING" THEN <<Step("pause")>> ELSE <<>>)
          \/ /\ Does("start if window")
             /\ Continue(IF mANativeWindow # None /\ mDisplayRuning # "RUNNING"
                         THEN <<Step("start")>> ELSE <<>>)
          \/ /\ Does("start if preview")
             /\ Continue(IF mANativeWindow # None /\ mPreviewRunning
                         THEN <<Step("start")>> ELSE <<>>)
       /\ UNCHANGED <<display, displayThreadCommandQ, thread, sem, shared, frames,
                      mPreviewRunning>>

\* setPreviewWindow, which pauses the display if there is another window.
SetsWindow == /\ Does("set window")
              /\ LET w == Head(todo).win
                 IN  Continue((IF w # mANativeWindow /\ mANativeWindow # None
                               THEN <<Step("pause")>> ELSE <<>>) \o <<SetTo(w)>>)
              /\ UNCHANGED <<display, displayThreadCommandQ, thread, sem, shared, frames,
                             mPreviewRunning>>

SetsTo == /\ Does("set to")
          /\ mANativeWindow' = Head(todo).win
          /\ Continue(<<>>)
          /\ UNCHANGED <<display, displayThreadCommandQ, thread, sem, mDisplayBufInfo, window,
                         frames, mPreviewRunning>>

\* All frames are freed and their buffers unlocked.
clearFrameArray == mFrameInfoArray' = {}

\* The engine stops between two calls of bufferCb.
stopPreview == /\ Does("stop preview") /\ cb = None
               /\ mPreviewRunning' = FALSE
               /\ IF mPreviewRunning THEN clearFrameArray ELSE UNCHANGED mFrameInfoArray
               /\ Continue(<<>>)
               /\ UNCHANGED <<display, displayThreadCommandQ, thread, sem, shared, cb>>

startPreview == /\ Does("start preview")
                /\ mPreviewRunning' = TRUE
                /\ Continue(<<>>)
                /\ UNCHANGED <<display, displayThreadCommandQ, thread, sem, shared, frames>>

\* The destructor joins the thread; the camera may then be opened again.
Join == /\ Does("join") /\ thread.at = "exit"
        /\ mDisplayRuning' = None /\ mDisplayState' = None
        /\ displayThreadCommandQ' = <<>>
        /\ mANativeWindow' = None
        /\ thread' = Thread("receive", None)
        /\ Continue(<<>>)
        /\ UNCHANGED <<sem, mDisplayBufInfo, window, frames, mPreviewRunning>>
-----------------------------------------------------------------------------
(* What it does for each of its commands                                      *)

Commands(steps) == /\ todo = <<>>
                   /\ todo' = steps
                   /\ UNCHANGED <<display, displayThreadCommandQ, thread, sem, shared, frames,
                                  mPreviewRunning>>

Restart == <<Step("stop preview"), Step("start preview")>>

\* CMD_PREVIEW_START, with or without a change of the sensor's resolution
PreviewStart ==
    \E resize \in BOOLEAN :
        Commands((IF ~ mPreviewRunning THEN <<Step("pause if running"), Step("start preview")>>
                  ELSE IF resize THEN <<Step("pause if running")>> \o Restart
                  ELSE <<>>)
                 \o <<Step("start if window")>>)

PreviewStop == Commands(<<Step("pause if running"), Step("stop preview")>>)

SetPreviewWindow ==
    \E w \in Windows \union {None} :
        Commands(<<[op |-> "set window", win |-> w], Step("start if preview")>>)

\* CMD_CONTINUOS_PICTURE: one picture or a burst, while recording or not, with
\* or without a change of the resolution.  A burst needs a window, which the
\* code does not test: cameraDisplayBufferCreate only logs that there is none.
ContinuosPicture ==
    \E burst, recording, resize \in BOOLEAN :
        /\ burst => mANativeWindow # None
        /\ Commands((IF ~ recording /\ ~ burst THEN <<Step("pause")>> ELSE <<>>)
                    \o (IF ~ mPreviewRunning THEN <<Step("start preview")>>
                        ELSE IF recording \/ ~ resize THEN <<>>
                        ELSE <<Step("pause")>> \o Restart
                             \o (IF burst THEN <<Step("start")>> ELSE <<>>)))

\* ~DisplayAdapter, when the preview has been stopped
Release == ~ mPreviewRunning /\ Commands(<<Step("stop"), Step("join")>>)
-----------------------------------------------------------------------------
DisplayThread == \/ ThreadStart \/ ThreadPause \/ ThreadStop \/ ThreadFrame
                 \/ ThreadDequeue \/ ThreadBusy \/ ThreadEnqueue \/ ThreadReturn
                 \/ ThreadRefill \/ ThreadCheck \/ ThreadIdle

CommandThread == \/ startDisplay \/ pauseDisplay \/ stopDisplay \/ Await \/ Ask
                 \/ SetsWindow \/ SetsTo \/ stopPreview \/ startPreview \/ Join

Client == PreviewStart \/ PreviewStop \/ SetPreviewWindow \/ ContinuosPicture \/ Release

Next == \/ DisplayThread
        \/ CommandThread
        \/ Client
        \/ notifyNewFrame
        \/ \E f \in Frames : BufferCb(f)
        \/ \E w \in Windows : Screen(w)

Spec == Init /\ [][Next]_vars

\* The three threads run.  Nobody has to send frames, show them, or call.  A stop
\* of the engine waits for the frames before it, not for those that follow.
Fairness == /\ WF_vars(DisplayThread) /\ WF_vars(notifyNewFrame)
            /\ WF_vars(CommandThread) /\ SF_vars(stopPreview)

FairSpec == Spec /\ Fairness
-----------------------------------------------------------------------------
TypeOK == /\ mDisplayRuning \in {None, "RUNNING", "PAUSE", "STOP"}
          /\ mDisplayState \in {None, "START_PREPARE", "START_DONE"} \union Quiet
          /\ displayThreadCommandQ \in Seq([cmd : {"START", "PAUSE", "STOP", "FRAME"},
                                            frame : Frames \union {None}])
          /\ mANativeWindow \in Windows \union {None}
          /\ mDisplayBufInfo \in [win : Windows \union {None}, unused : 0..BufNum]
          /\ thread \in [at : {"receive", "dequeue", "busy", "await any", "fill", "return",
                               "refill", "check", "wait", "exit"},
                         frame : Frames \union {None}]
          /\ sem \in BOOLEAN
          /\ window \in [Windows -> [hal : 0..BufNum, screen : 0..BufNum]]
          /\ \A w \in Windows : window[w].hal + window[w].screen <= BufNum
          /\ mFrameInfoArray \subseteq Frames
          /\ cb \in Frames \union {None}
          /\ mPreviewRunning \in BOOLEAN

\* The frames that the display has
Queued == {displayThreadCommandQ[i].frame : i \in DOMAIN displayThreadCommandQ}
Shown == (Queued \union {thread.frame, cb}) \ {None}

\* A frame that is queued, shown or about to be queued still exists: it was not
\* freed by clearFrameArray, which a stop of the preview calls, and its picture
\* buffer not given back to the engine (CameraIspAdapter.cpp:1988).  And "must
\* return frame if failed to send display" (DisplayAdapter.cpp:85): each frame is
\* with the display, or was given back and its buffer unlocked.
FramesKnown == Shown = mFrameInfoArray

\* "Give the buffers back to display" (DisplayAdapter.cpp:382): the HAL has
\* buffers of the window it shows frames in, exactly those in state 0, and of
\* no other window; when it shows none it has none.  The display thread uses that
\* window without a lock: while it does the command thread sets no other.
BuffersGivenBack ==
    /\ \A w \in Windows : window[w].hal = IF w = mDisplayBufInfo.win
                                          THEN mDisplayBufInfo.unused ELSE 0
    /\ mDisplayBufInfo.win \in {None, mANativeWindow}

\* Each command of the application is done in the end, although the command
\* thread waits for the display thread, which waits for buffers of the screen.
CallsReturn == todo # <<>> ~> todo = <<>>
=============================================================================
