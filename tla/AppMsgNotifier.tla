---------------------------- MODULE AppMsgNotifier ----------------------------
(* The notifier of CameraHal5.x: the threads of AppMsgNotifier.cpp that       *)
(* encode, detect faces and copy frames for the application, and the parties  *)
(* around them: bufferCb of CameraIspAdapter.cpp, which lends them frames;    *)
(* the command thread of CameraHal.cpp, which stops them before it stops the  *)
(* preview; and the calls of the application, which stop them too.            *)
(* A step ends where a thread lets go of a lock or waits.  mRunningState is   *)
(* the set of its bits, and each change of it one step.                       *)
EXTENDS Integers, Sequences, FiniteSets

CONSTANTS Frames,           \* the FramInfo_s that malloc can hand out
          MaxPictures,      \* the longest burst
          MaxCommands,      \* bound on commandThreadCommandQ
          Allowed           \* what the environment may do, of Liberties

\* The application may forbid metadata while a face is looked for, forbid
\* preview callbacks while one is under way or allow them while the command thread
\* is busy, stop something while it restarts the preview, and stop the preview
\* while it records; pictures may take longer than the 1.5 s of flushPicture; and
\* the application may turn on 3dnr_enabled, whose denoiser collects frames.
Liberties == {"metadata", "callback", "restart", "record", "slow", "denoise"}

ASSUME NotifierAssumption == /\ MaxPictures \in Nat \ {0}
                             /\ MaxCommands \in Nat \ {0}
                             /\ Allowed \subseteq Liberties

None == "none"
Kinds == {"face", "video", "picture", "preview"}
Threads == {"event", "enc", "face"}
Callers == {"command", "api"}

VARIABLES mRunningState,
          received,         \* of mRecPrevCbDataEn and mRecMetaDataEn, those set
          mMsgTypeEnabled,
          pictures,         \* mPictureInfo.num and mEncPictureNum
          mFaceDetectionDone,
          queue,            \* the command queue of each thread
          thread,           \* of each thread: where it is, and its message
          sem,              \* was the semaphore of the caller's wait signalled?
          mFrameInfoArray,  \* the frames that lock a buffer of the engine
          cb,               \* bufferCb's frame before it calls notifyNew...
          mPreviewRunning,
          commandThreadCommandQ,
          todo              \* what a caller still does

flags == <<mRunningState, received, mMsgTypeEnabled>>
counts == <<pictures, mFaceDetectionDone>>
threads == <<queue, thread>>
frames == <<mFrameInfoArray, cb>>
callers == <<sem, commandThreadCommandQ, todo>>
vars == <<flags, counts, threads, frames, mPreviewRunning, callers>>

\* A frame, or a PAUSE with the semaphore of its caller
Message(cmd, frame, caller) == [cmd |-> cmd, frame |-> frame, caller |-> caller]
FrameMessage(kind, f) == Message(kind, f, None)
NoMessage == Message(None, None, None)
ThreadOf(kind) == CASE kind = "face"    -> "face"
                    [] kind = "picture" -> "enc"
                    [] OTHER            -> "event"
Place(at, msg) == [at |-> at, msg |-> msg]
Idle == Place("receive", NoMessage)

\* The constructor
Init == /\ mRunningState = {} /\ received = {"preview", "face"} /\ mMsgTypeEnabled = {}
        /\ pictures = [num |-> 0, enc |-> 0]
        /\ mFaceDetectionDone = TRUE
        /\ queue = [t \in Threads |-> <<>>]
        /\ thread = [t \in Threads |-> Idle]
        /\ sem = [c \in Callers |-> FALSE]
        /\ mFrameInfoArray = {} /\ cb = NoMessage
        /\ mPreviewRunning = FALSE
        /\ commandThreadCommandQ = <<>>
        /\ todo = [c \in Callers |-> <<>>]

Put(t, m) == queue' = [queue EXCEPT ![t] = Append(@, m)]

\* adapterReturnFrame unlocks the buffer of a frame that it knows.
returnFrame(f) == mFrameInfoArray' = mFrameInfoArray \ {f}

\* The messages for frames of a kind that are queued or at work, and the frame
\* that bufferCb is about to send
Messages(t) == {queue[t][i] : i \in DOMAIN queue[t]}
               \union (IF thread[t].at = "process" THEN {thread[t].msg} ELSE {})
UnderWay(kind) == {m \in Messages(ThreadOf(kind)) : m.cmd = kind}
Coming(kind) == UnderWay(kind) \union ({cb} \ {NoMessage})
-----------------------------------------------------------------------------
(* bufferCb                                                                   *)

\* isNeedSendToFaceDetect, isNeedSendToVideo, isNeedSendToPicture and
\* isNeedSendToDataCB
isNeedSend(kind) ==
    /\ kind \in mRunningState
    /\ kind \in {"face", "preview"} => kind \in received
    /\ kind = "preview" => kind \in mMsgTypeEnabled
    /\ kind = "picture" => pictures.num > 0

\* A frame that the denoiser collects for a picture is locked and no more: it is
\* neither sent, nor returned, nor known to adapterReturnFrame.
Collected(kind) == IF kind = "picture" /\ "denoise" \in Allowed THEN {NoMessage} ELSE {}

BufferCb(kind, f) == /\ mPreviewRunning /\ cb = NoMessage /\ f \notin mFrameInfoArray
                     /\ isNeedSend(kind)
                     /\ mFrameInfoArray' = mFrameInfoArray \union {f}
                     /\ cb' \in {FrameMessage(kind, f)} \union Collected(kind)
                     /\ UNCHANGED <<flags, counts, threads, mPreviewRunning, callers>>

\* Under the lock of its kind a frame is sent, or returned.
SendIf(wanted) == /\ IF wanted
                     THEN Put(ThreadOf(cb.cmd), cb) /\ UNCHANGED mFrameInfoArray
                     ELSE returnFrame(cb.frame) /\ UNCHANGED queue
                  /\ cb' = NoMessage
                  /\ UNCHANGED <<flags, thread, mPreviewRunning, callers>>

\* One face at a time: mFaceDetectionDone is cleared before the frame is sent,
\* and also when it is not.
notifyNewFaceDecFrame ==
    /\ cb.cmd = "face"
    /\ mFaceDetectionDone' = FALSE
    /\ SendIf(mFaceDetectionDone /\ "face" \in mRunningState \intersect received)
    /\ UNCHANGED pictures

notifyNewVideoFrame == /\ cb.cmd = "video"
                       /\ SendIf("video" \in mRunningState)
                       /\ UNCHANGED counts

\* Mutant: whoever has asked before is served.
PreviewUnasked == /\ cb.cmd = "preview"
                  /\ SendIf(TRUE)
                  /\ UNCHANGED counts

notifyNewPreviewCbFrame == /\ cb.cmd = "preview"
                           /\ SendIf("preview" \in mRunningState \intersect received)
                           /\ UNCHANGED counts

notifyNewPicFrame == /\ cb.cmd = "picture"
                     /\ pictures' = [pictures EXCEPT !.num = @ - 1]
                     /\ SendIf(TRUE)
                     /\ UNCHANGED mFaceDetectionDone
-----------------------------------------------------------------------------
(* The threads                                                                *)

Receives(t, cmds) == /\ thread[t].at = "receive" /\ queue[t] # <<>>
                     /\ Head(queue[t]).cmd \in cmds
                     /\ queue' = [queue EXCEPT ![t] = Tail(@)]
Goes(t, at, msg) == thread' = [thread EXCEPT ![t] = Place(at, msg)]

\* eventThread and faceDetectThread begin with a frame.
ReceiveFrame(t) == /\ t # "enc" /\ Receives(t, Kinds)
                   /\ Goes(t, "process", Head(queue[t]))
                   /\ mFaceDetectionDone' = (mFaceDetectionDone /\ t # "face")
                   /\ UNCHANGED <<flags, pictures, frames, mPreviewRunning, callers>>

\* Mutant: the request ends when its last picture is encoded.
SnapshotKeeps == /\ Receives("enc", {"picture"})
                 /\ Goes("enc", "process", Head(queue["enc"]))
                 /\ pictures' = [pictures EXCEPT !.enc = @ - 1]
                 /\ UNCHANGED <<flags, mFaceDetectionDone, frames, mPreviewRunning, callers>>

\* CMD_ENCPROCESS_SNAPSHOT: the request ends when its last picture is begun.
ReceiveSnapshot ==
    /\ Receives("enc", {"picture"})
    /\ Goes("enc", "process", Head(queue["enc"]))
    /\ IF pictures.enc > 0 /\ "picture" \in mRunningState
       THEN /\ pictures' = [pictures EXCEPT !.enc = @ - 1]
            /\ mRunningState' = IF pictures.enc = 1 THEN mRunningState \ {"picture"}
                                                    ELSE mRunningState
       ELSE UNCHANGED <<pictures, mRunningState>>
    /\ UNCHANGED <<received, mMsgTypeEnabled, mFaceDetectionDone, frames, mPreviewRunning,
                   callers>>

\* A picture or a copy has been made, and the frame is returned.
FrameDone(t) == /\ t # "face" /\ thread[t].at = "process"
                /\ returnFrame(thread[t].msg.frame)
                /\ thread' = [thread EXCEPT ![t] = Idle]
                /\ UNCHANGED <<flags, counts, queue, cb, mPreviewRunning, callers>>

\* processFaceDetect returns the frame itself, if there is a face to be found:
\* the thread does not do it.  The other conditions under which it would keep the
\* frame are never met: the previews of CameraHal are in NV12 (CameraHal.cpp:901,
\* 923, 1071, 1093), the bit that lets bufferCb lend frames is set after the
\* detector was initialized (AppMsgNotifier.cpp:176, 177), and of the frames it
\* skips with FACEDETECT_FRAME_INTERVAL (line 2037) there is none, as that is 1.
FaceProcess == /\ thread["face"].at = "process"
               /\ IF "face" \in mMsgTypeEnabled THEN returnFrame(thread["face"].msg.frame)
                                                ELSE UNCHANGED mFrameInfoArray
               /\ Goes("face", "find", NoMessage)
               /\ UNCHANGED <<flags, counts, queue, cb, mPreviewRunning, callers>>

FaceFound == /\ thread["face"].at = "find"
             /\ mFaceDetectionDone' = TRUE
             /\ thread' = [thread EXCEPT !["face"] = Idle]
             /\ UNCHANGED <<flags, pictures, queue, frames, mPreviewRunning, callers>>

\* CMD_EVENT_PAUSE, CMD_FACEDET_PAUSE and CMD_ENCPROCESS_PAUSE empty the queue ...
ReceivePause(t) == /\ Receives(t, {"PAUSE"})
                   /\ Goes(t, "drain", Head(queue[t]))
                   /\ UNCHANGED <<flags, counts, frames, mPreviewRunning, callers>>

\* Mutant: the frames are dropped.
DrainForgets(t) == /\ thread[t].at = "drain" /\ queue[t] # <<>>
                   /\ queue' = [queue EXCEPT ![t] = Tail(@)]
                   /\ UNCHANGED <<flags, counts, thread, frames, mPreviewRunning, callers>>

\* ... and return what is in it, another PAUSE without an answer.  The thread
\* that encodes looks for the frame in its PAUSE, where there is a null pointer.
Drain(t) == /\ thread[t].at = "drain" /\ queue[t] # <<>>
            /\ queue' = [queue EXCEPT ![t] = Tail(@)]
            /\ IF Head(queue[t]).cmd = "picture"
               THEN Goes(t, "crash", NoMessage) /\ UNCHANGED mFrameInfoArray
               ELSE returnFrame(Head(queue[t]).frame) /\ UNCHANGED thread
            /\ UNCHANGED <<flags, counts, cb, mPreviewRunning, callers>>

Paused(t) == /\ thread[t].at = "drain" /\ queue[t] = <<>>
             /\ sem' = [sem EXCEPT ![thread[t].msg.caller] = TRUE]
             /\ thread' = [thread EXCEPT ![t] = Idle]
             /\ UNCHANGED <<flags, counts, queue, frames, mPreviewRunning,
                            commandThreadCommandQ, todo>>
-----------------------------------------------------------------------------
(* The calls                                                                  *)

Step(op) == [op |-> op, on |-> None]
On(op, x) == [op |-> op, on |-> x]

Does(c, op) == todo[c] # <<>> /\ Head(todo[c]).op = op
Continue(c, steps) == todo' = [todo EXCEPT ![c] = steps \o Tail(@)]

\* A PAUSE is put with the semaphore that its caller then waits on.
PausesThread(c) == /\ Does(c, "pause")
                   /\ Put(Head(todo[c]).on, Message("PAUSE", None, c))
                   /\ Continue(c, <<Step("await")>>)
                   /\ UNCHANGED <<flags, counts, thread, frames, mPreviewRunning, sem,
                                  commandThreadCommandQ>>

\* sem.Wait
Await(c) == /\ Does(c, "await") /\ sem[c]
            /\ sem' = [sem EXCEPT ![c] = FALSE]
            /\ Continue(c, <<>>)
            /\ UNCHANGED <<flags, counts, threads, frames, mPreviewRunning,
                           commandThreadCommandQ>>

\* flushPicture waits until the pictures are begun.  After 1.5 s it goes on: it
\* means to end the request then, but trytimes is 51 and not 50.
flushPicture(c) == /\ Does(c, "flush")
                   /\ "picture" \in mRunningState => "slow" \in Allowed
                   /\ Continue(c, <<On("pause", "enc")>>)
                   /\ UNCHANGED <<flags, counts, threads, frames, mPreviewRunning, sem,
                                  commandThreadCommandQ>>

\* pausePreviewCBFrameProcess, without effect when the bit is not set
pausePreviewCBFrameProcess(c) ==
    /\ Does(c, "pause preview")
    /\ IF "preview" \in mRunningState
       THEN /\ mRunningState' = mRunningState \ {"preview"}
            /\ received' = received \ {"preview"}
            /\ Continue(c, <<On("pause", "event")>>)
       ELSE UNCHANGED <<mRunningState, received>> /\ Continue(c, <<>>)
    /\ UNCHANGED <<mMsgTypeEnabled, counts, threads, frames, mPreviewRunning, sem,
                   commandThreadCommandQ>>

stopFaceDection(c) == /\ Does(c, "stop faces")
                      /\ mRunningState' = mRunningState \ {"face"}
                      /\ received' = received \ {"face"}
                      /\ Continue(c, <<On("pause", "face")>>)
                      /\ UNCHANGED <<mMsgTypeEnabled, counts, threads, frames, mPreviewRunning,
                                     sem, commandThreadCommandQ>>

stopReceiveFrame == <<Step("flush"), Step("pause preview"), Step("stop faces")>>

\* startReceiveFrame and startFaceDection, which the command thread calls for the
\* messages that are enabled.  A face detector that runs is left alone, and one
\* that cannot be initialized does not run.
Starts(kind) == /\ mRunningState' \in {mRunningState \union {kind}}
                                     \union (IF kind = "face" THEN {mRunningState} ELSE {})
                /\ received' = received \union {kind}
startsFor(op, kind, wanted) ==
    /\ Does("command", op)
    /\ IF wanted THEN Starts(kind) ELSE UNCHANGED <<mRunningState, received>>
    /\ Continue("command", <<>>)
    /\ UNCHANGED <<mMsgTypeEnabled, counts, threads, frames, mPreviewRunning, sem,
                   commandThreadCommandQ>>

startReceiveFrame == startsFor("receive", "preview", "preview" \in mMsgTypeEnabled)
startFaceDection ==
    \/ startsFor("faces if asked", "face", "face" \in mMsgTypeEnabled \ mRunningState)
    \/ startsFor("faces", "face", mPreviewRunning /\ "face" \notin mRunningState)

\* takePicture refuses a request while there is another.
takePicture(n) == /\ Does("command", "take") /\ Head(todo["command"]).on = n
                  /\ IF "picture" \in mRunningState THEN UNCHANGED <<mRunningState, pictures>>
                     ELSE /\ pictures' = [num |-> n, enc |-> n]
                          /\ mRunningState' = mRunningState \union {"picture"}
                  /\ Continue("command", <<>>)
                  /\ UNCHANGED <<received, mMsgTypeEnabled, mFaceDetectionDone, threads, frames,
                                 mPreviewRunning, sem, commandThreadCommandQ>>

\* CameraIspAdapter: the engine stops between two calls of bufferCb, and all
\* frames are freed.
stopPreview == /\ Does("command", "stop preview") /\ cb = NoMessage
               /\ mPreviewRunning' = FALSE
               /\ mFrameInfoArray' = IF mPreviewRunning THEN {} ELSE mFrameInfoArray
               /\ Continue("command", <<>>)
               /\ UNCHANGED <<flags, counts, threads, cb, sem, commandThreadCommandQ>>

startPreview == /\ Does("command", "start preview")
                /\ mPreviewRunning' = TRUE
                /\ Continue("command", <<>>)
                /\ UNCHANGED <<flags, counts, threads, frames, sem, commandThreadCommandQ>>

\* The command is done, and the call of the application that waits for it.
Answer == /\ Does("command", "answer")
          /\ sem' = [sem EXCEPT !["api"] = TRUE]
          /\ Continue("command", <<>>)
          /\ UNCHANGED <<flags, counts, threads, frames, mPreviewRunning, commandThreadCommandQ>>

-----------------------------------------------------------------------------
(* The command thread                                                         *)

\* CMD_PREVIEW_START; with a new size the preview is stopped first.
PreviewStart(resize) ==
    IF ~ mPreviewRunning
    THEN stopReceiveFrame \o <<Step("start preview"), Step("receive")>>
    ELSE IF resize
    THEN stopReceiveFrame \o <<Step("stop preview"), Step("start preview"), Step("receive"),
                               Step("faces if asked")>>
    ELSE <<>>

\* CMD_CONTINUOS_PICTURE
ContinuosPicture(resize, n) ==
    (IF ~ mPreviewRunning THEN <<Step("start preview")>>
     ELSE IF resize /\ "video" \notin mRunningState
     THEN stopReceiveFrame \o <<Step("stop preview"), Step("start preview")>>
     ELSE <<>>)
    \o <<On("take", n), Step("answer")>>

\* It takes a command: what the command needs done depends on its parameters.
commandThread ==
    /\ todo["command"] = <<>> /\ commandThreadCommandQ # <<>>
    /\ \E resize \in BOOLEAN, n \in 1..MaxPictures :
          /\ resize /\ "record" \notin Allowed => "video" \notin mRunningState
          /\ todo' = [todo EXCEPT !["command"] =
                 CASE Head(commandThreadCommandQ) = "PREVIEW_START" -> PreviewStart(resize)
                   [] Head(commandThreadCommandQ) = "PREVIEW_STOP" ->
                          stopReceiveFrame \o <<Step("stop preview"), Step("answer")>>
                   [] Head(commandThreadCommandQ) = "SET_PARAMETERS" ->
                          <<Step("answer")>> \o PreviewStart(resize)
                   [] Head(commandThreadCommandQ) = "CAPTURE_CANCEL" ->
                          <<Step("flush"), Step("answer")>>
                   [] Head(commandThreadCommandQ) = "CONTINUOS_PICTURE" ->
                          ContinuosPicture(resize, n)
                   [] Head(commandThreadCommandQ) = "START_FACE_DETECTION" ->
                          <<Step("faces")>>]
    /\ commandThreadCommandQ' = Tail(commandThreadCommandQ)
    /\ UNCHANGED <<flags, counts, threads, frames, mPreviewRunning, sem>>
-----------------------------------------------------------------------------
(* The application: its calls but those for CAMERA_MSG_PREVIEW_FRAME hold     *)
(* mLock                                                                      *)

Sends(cmd, steps) == /\ todo["api"] = <<>>
                     /\ Len(commandThreadCommandQ) < MaxCommands
                     /\ commandThreadCommandQ' = Append(commandThreadCommandQ, cmd)
                     /\ todo' = [todo EXCEPT !["api"] = steps]
                     /\ UNCHANGED <<counts, threads, frames, mPreviewRunning, sem>>

\* CMD_PREVIEW_START and CMD_START_FACE_DETECTION are sent without a wait.
ApiStartPreview == Sends("PREVIEW_START", <<>>) /\ UNCHANGED flags

ApiStartFaces == /\ Sends("START_FACE_DETECTION", <<>>)
                 /\ mMsgTypeEnabled' = mMsgTypeEnabled \union {"face"}
                 /\ UNCHANGED <<mRunningState, received>>

ApiWaits == \E cmd \in {"PREVIEW_STOP", "SET_PARAMETERS", "CAPTURE_CANCEL", "CONTINUOS_PICTURE"} :
               /\ cmd = "PREVIEW_STOP" /\ "record" \notin Allowed => "video" \notin mRunningState
               /\ Sends(cmd, <<Step("await")>>)
               /\ UNCHANGED flags

CommandThreadIdle == todo["command"] = <<>> /\ commandThreadCommandQ = <<>>

\* startRecording waits for the command thread first.
startRecording == /\ todo["api"] = <<>> /\ CommandThreadIdle /\ mPreviewRunning
                  /\ mRunningState' = mRunningState \union {"video"}
                  /\ UNCHANGED <<received, mMsgTypeEnabled, counts, threads, frames,
                                 mPreviewRunning, callers>>

\* stopRecording, and the end of face detection: neither waits for the command
\* thread.
Stops(kind, steps) == /\ todo["api"] = <<>>
                      /\ "restart" \in Allowed \/ CommandThreadIdle
                      /\ mRunningState' = mRunningState \ {kind}
                      /\ todo' = [todo EXCEPT !["api"] = steps]
                      /\ UNCHANGED <<received, counts, threads, frames, mPreviewRunning, sem,
                                     commandThreadCommandQ>>

\* Mutant: the event thread is not waited for.
LeavesRecording == Stops("video", <<>>) /\ UNCHANGED mMsgTypeEnabled

stopRecording == Stops("video", <<On("pause", "event")>>) /\ UNCHANGED mMsgTypeEnabled

ApiStopFaces == /\ "metadata" \in Allowed \/ Coming("face") = {}
                /\ Stops("face", <<Step("stop faces")>>)
                /\ mMsgTypeEnabled' = mMsgTypeEnabled \ {"face"}

\* enableMsgType and disableMsgType, also called by the callbacks
enableMsgType == /\ "callback" \in Allowed \/ CommandThreadIdle
                 /\ mMsgTypeEnabled' = mMsgTypeEnabled \union {"preview"}
                 /\ mRunningState' = mRunningState \union {"preview"}
                 /\ UNCHANGED <<received, counts, threads, frames, mPreviewRunning, callers>>

disableMsgType == /\ "callback" \in Allowed \/ Coming("preview") = {}
                  /\ mMsgTypeEnabled' = mMsgTypeEnabled \ {"preview"}
                  /\ mRunningState' = mRunningState \ {"preview"}
                  /\ UNCHANGED <<received, counts, threads, frames, mPreviewRunning, callers>>
-----------------------------------------------------------------------------
Notifies == \/ notifyNewFaceDecFrame \/ notifyNewVideoFrame
            \/ notifyNewPicFrame \/ notifyNewPreviewCbFrame

NotifierThread(t) == \/ ReceiveFrame(t) \/ FrameDone(t) \/ ReceivePause(t) \/ Drain(t) \/ Paused(t)
                     \/ t = "enc" /\ ReceiveSnapshot
                     \/ t = "face" /\ (FaceProcess \/ FaceFound)

Call(c) == \/ PausesThread(c) \/ Await(c) \/ flushPicture(c)
           \/ pausePreviewCBFrameProcess(c) \/ stopFaceDection(c)

CommandStep == \/ Call("command") \/ startReceiveFrame \/ startFaceDection
               \/ \E n \in 1..MaxPictures : takePicture(n)
               \/ stopPreview \/ startPreview \/ Answer \/ commandThread

Application == \/ ApiStartPreview \/ ApiStartFaces \/ ApiWaits \/ startRecording
               \/ stopRecording \/ ApiStopFaces \/ enableMsgType \/ disableMsgType

Next == \/ Notifies
        \/ \E t \in Threads : NotifierThread(t)
        \/ CommandStep
        \/ Call("api")
        \/ Application
        \/ \E kind \in Kinds, f \in Frames : BufferCb(kind, f)

Spec == Init /\ [][Next]_vars

\* The threads run, and one that empties its queue gets to the end of it, since it
\* is faster than the frames come; each picture that is asked for finds a frame, and a stop of the engine
\* waits for the frames before it, not for those that follow.
Fairness == /\ WF_vars(Notifies) /\ \A t \in Threads : WF_vars(NotifierThread(t))
            /\ WF_vars(CommandStep) /\ WF_vars(Call("api"))
            /\ SF_vars(stopPreview)
            /\ \A t \in Threads : []<>(thread[t].at # "drain")
            /\ SF_vars(\E f \in Frames : BufferCb("picture", f))

FairSpec == Spec /\ Fairness
-----------------------------------------------------------------------------
\* The frames that the notifier or bufferCb has
Lent == {m.frame : m \in (UNION {Messages(t) : t \in Threads}) \union {cb}} \ {None}

\* "pause event and enc thread" (AppMsgNotifier.cpp:1909): whatever a thread
\* works on or will work on still exists, and was not freed when the preview
\* stopped (CameraIspAdapter.cpp:550).
NoStaleFrame == Lent \subseteq mFrameInfoArray

\* Each frame is lent to somebody, or was returned and its buffer unlocked
\* (AppMsgNotifier.cpp:1826, 2045-2057, 2063-2070; CameraIspAdapter.cpp:2697-2728).
\* Not when the application forbids metadata while a face is looked for
\* (AppMsgNotifier.cpp:1812), or has the denoiser collect frames
\* (CameraIspAdapter.cpp:2587, 2613-2616): neither is in Allowed where this is checked.
NoFrameLost == mFrameInfoArray \subseteq Lent

\* stopRecording frees the buffers of the video (AppMsgNotifier.cpp:750): when it
\* returns, no frame is on its way into one of them.
VideoQuiet == "video" \notin mRunningState /\ todo["api"] = <<>> => UnderWay("video") = {}

\* A request for pictures lasts until the last of them is begun, and each of
\* them is asked of bufferCb once, whoever looks at which of the two counters.
PicturesCounted ==
    LET queued == Cardinality({i \in DOMAIN queue["enc"] : queue["enc"][i].cmd = "picture"})
    IN  /\ pictures.enc = pictures.num + queued
        /\ "picture" \in mRunningState <=> pictures.enc > 0

\* Each call ends, whatever the threads are doing.
CallsReturn == \A c \in Callers : todo[c] # <<>> ~> todo[c] = <<>>
=============================================================================
