-------------------------- MODULE DisplayAdapterProofs --------------------------
(* What holds of the preview display for any number of frames, windows and    *)
(* buffers, as long as no window is abandoned and each enqueue succeeds.      *)
EXTENDS DisplayAdapter, TLAPS, SequenceTheorems

Ops == {"start", "pause", "stop", "await", "pause if running", "start if window",
        "start if preview", "set window", "set to", "stop preview", "start preview", "join"}
Steps == [op : Ops, win : Windows \union {None}]

\* What may follow each step of a command.
Restarted == {<<Step("start preview")>>,
              <<Step("start preview"), Step("start")>>,
              <<Step("start preview"), Step("start if window")>>}
Stopped == {<<Step("stop preview")>>,
            <<Step("stop preview"), Step("start preview")>>,
            <<Step("stop preview"), Step("start preview"), Step("start")>>,
            <<Step("stop preview"), Step("start preview"), Step("start if window")>>}
Windowed == {<<SetTo(w), Step("start if preview")>> : w \in Windows \union {None}}
Repeated == {<<Step("pause"), Step("stop preview"), Step("start preview")>>}
Paused == {<<>>} \union Restarted \union Stopped \union Windowed \union Repeated

After(op) == CASE op \in {"pause", "pause if running"} -> Paused
               [] op = "await" -> Paused \union {<<Step("join")>>}
               [] op = "stop" -> {<<Step("join")>>}
               [] op = "stop preview" -> {<<>>} \union Restarted
               [] op = "start preview" -> {<<>>, <<Step("start")>>, <<Step("start if window")>>}
               [] op \in {"set window", "set to"} -> {<<Step("start if preview")>>}
               [] OTHER -> {<<>>}

Planned(s) == /\ s \in Seq(Steps)
              /\ s # <<>> => Tail(s) \in After(Head(s).op)

\* Head and tail of the short lists
LEMMA Short1 == ASSUME NEW S, NEW a \in S
                PROVE  /\ <<a>> \in Seq(S) /\ <<a>> # <<>> /\ Head(<<a>>) = a /\ Tail(<<a>>) = <<>>
OBVIOUS

LEMMA Short2 == ASSUME NEW S, NEW a \in S, NEW b \in S
                PROVE  /\ <<a, b>> \in Seq(S) /\ <<a, b>> # <<>>
                       /\ Head(<<a, b>>) = a /\ Tail(<<a, b>>) = <<b>>
OBVIOUS

LEMMA Short3 == ASSUME NEW S, NEW a \in S, NEW b \in S, NEW c \in S
                PROVE  /\ <<a, b, c>> \in Seq(S) /\ <<a, b, c>> # <<>>
                       /\ Head(<<a, b, c>>) = a /\ Tail(<<a, b, c>>) = <<b, c>>
OBVIOUS

LEMMA Short4 == ASSUME NEW S, NEW a \in S, NEW b \in S, NEW c \in S, NEW d \in S
                PROVE  /\ <<a, b, c, d>> \in Seq(S) /\ <<a, b, c, d>> # <<>>
                       /\ Head(<<a, b, c, d>>) = a /\ Tail(<<a, b, c, d>>) = <<b, c, d>>
OBVIOUS

LEMMA StepsAre == /\ \A op \in Ops : Step(op) \in Steps /\ Step(op).op = op
                  /\ \A w \in Windows \union {None} : SetTo(w) \in Steps /\ SetTo(w).op = "set to"
                                                      /\ SetTo(w).win = w
BY DEF Steps, Ops, Step, SetTo

LEMMA Lists == \A op : \A t \in After(op) : Planned(t) /\ (t # <<>> => Head(t).op # "await")
<1> SUFFICES ASSUME NEW op, NEW t \in After(op)
             PROVE  Planned(t) /\ (t # <<>> => Head(t).op # "await")
    OBVIOUS
<1> DEFINE Good == Planned(t) /\ (t # <<>> => Head(t).op # "await")
<1>0. \/ t = <<>> \/ t \in Restarted \/ t \in Stopped \/ t \in Windowed \/ t \in Repeated
      \/ \E o \in {"start", "start if window", "start if preview", "join"} : t = <<Step(o)>>
    BY DEF After, Paused, Restarted
<1>1. CASE t = <<>>
    BY <1>1 DEF Planned
<1>2. ASSUME NEW o \in {"start", "start if window", "start if preview", "join"},
             t = <<Step(o)>>
      PROVE  Good
  <2>1. Step(o) \in Steps /\ Step(o).op = o
      BY StepsAre DEF Ops
  <2>2. t \in Seq(Steps) /\ Head(t) = Step(o) /\ Tail(t) = <<>>
      BY <1>2, <2>1, Short1
  <2>3. <<>> \in After(o)
      BY DEF After
  <2> QED
      BY <2>1, <2>2, <2>3 DEF Planned
<1>3. ASSUME t \in Restarted
      PROVE  Good
  <2>1. /\ Step("start preview") \in Steps /\ Step("start preview").op = "start preview"
        /\ Step("start") \in Steps /\ Step("start if window") \in Steps
      BY StepsAre DEF Ops
  <2>2. t \in Seq(Steps) /\ Head(t) = Step("start preview")
        /\ Tail(t) \in {<<>>, <<Step("start")>>, <<Step("start if window")>>}
    <3>1. CASE t = <<Step("start preview")>>
        BY <2>1, <3>1, Short1
    <3>2. CASE t = <<Step("start preview"), Step("start")>>
        BY <2>1, <3>2, Short2
    <3>3. CASE t = <<Step("start preview"), Step("start if window")>>
        BY <2>1, <3>3, Short2
    <3> QED
        BY <1>3, <3>1, <3>2, <3>3 DEF Restarted
  <2>3. Tail(t) \in After("start preview")
      BY <2>2 DEF After
  <2> QED
      BY <2>1, <2>2, <2>3 DEF Planned
<1>4. ASSUME t \in Stopped
      PROVE  Good
  <2>1. /\ Step("stop preview") \in Steps /\ Step("stop preview").op = "stop preview"
        /\ Step("start preview") \in Steps
        /\ Step("start") \in Steps /\ Step("start if window") \in Steps
      BY StepsAre DEF Ops
  <2>2. t \in Seq(Steps) /\ Head(t) = Step("stop preview")
        /\ Tail(t) \in {<<>>} \union Restarted
    <3> DEFINE P == Step("stop preview")
               R == Step("start preview")
    <3> HIDE DEF P, R
    <3>0. t \in {<<P>>, <<P, R>>, <<P, R, Step("start")>>, <<P, R, Step("start if window")>>}
        BY <1>4 DEF P, R, Stopped
    <3>a. P \in Steps /\ R \in Steps
        BY <2>1 DEF P, R
    <3>b. {<<>>} \union Restarted
             = {<<>>, <<R>>, <<R, Step("start")>>, <<R, Step("start if window")>>}
        BY DEF Restarted, R
    <3>1. CASE t = <<P>>
      <4>1. t \in Seq(Steps) /\ Head(t) = P /\ Tail(t) = <<>>
          BY <3>1, <3>a, Short1
      <4> QED
          BY <4>1, <3>b DEF P
    <3>2. CASE t = <<P, R>>
      <4>1. t \in Seq(Steps) /\ Head(t) = P /\ Tail(t) = <<R>>
          BY <3>2, <3>a, Short2
      <4> QED
          BY <4>1, <3>b DEF P
    <3>3. ASSUME NEW y \in Steps, t = <<P, R, y>>
          PROVE  t \in Seq(Steps) /\ Head(t) = P /\ Tail(t) = <<R, y>>
        BY <3>3, <3>a
    <3>4. CASE \E x \in {"start", "start if window"} : t = <<P, R, Step(x)>>
      <4>1. PICK x \in {"start", "start if window"} : t = <<P, R, Step(x)>>
          BY <3>4
      <4>2. Step(x) \in Steps
          BY <2>1
      <4>3. t \in Seq(Steps) /\ Head(t) = P /\ Tail(t) = <<R, Step(x)>>
          BY <3>3, <4>1, <4>2
      <4> QED
          BY <3>b, <4>3 DEF P
    <3> QED
        BY <3>0, <3>1, <3>2, <3>4, <3>b DEF P
  <2>3. Tail(t) \in After("stop preview")
      BY <2>2 DEF After
  <2> QED
      BY <2>1, <2>2, <2>3 DEF Planned
<1>5. ASSUME t \in Windowed
      PROVE  Good
  <2>1. PICK w \in Windows \union {None} : t = <<SetTo(w), Step("start if preview")>>
      BY <1>5 DEF Windowed
  <2>2. /\ SetTo(w) \in Steps /\ SetTo(w).op = "set to"
        /\ Step("start if preview") \in Steps
      BY StepsAre DEF Ops
  <2>3. t \in Seq(Steps) /\ Head(t) = SetTo(w) /\ Tail(t) = <<Step("start if preview")>>
      BY <2>1, <2>2, Short2
  <2>4. Tail(t) \in After("set to")
      BY <2>3 DEF After
  <2> QED
      BY <2>2, <2>3, <2>4 DEF Planned
<1>6. ASSUME t \in Repeated
      PROVE  Good
  <2>1. /\ Step("pause") \in Steps /\ Step("pause").op = "pause"
        /\ Step("stop preview") \in Steps /\ Step("start preview") \in Steps
      BY StepsAre DEF Ops
  <2>2. t \in Seq(Steps) /\ Head(t) = Step("pause")
        /\ Tail(t) = <<Step("stop preview"), Step("start preview")>>
    <3> DEFINE P == Step("pause")
               R == Step("stop preview")
               S == Step("start preview")
    <3>1. t = <<P, R, S>> /\ P \in Steps /\ R \in Steps /\ S \in Steps
        BY <1>6, <2>1 DEF Repeated
    <3> HIDE DEF P, R, S
    <3>2. t \in Seq(Steps) /\ Head(t) = P /\ Tail(t) = <<R, S>>
        BY <3>1
    <3> QED
        BY <3>2 DEF P, R, S
  <2>3. Tail(t) \in After("pause")
      BY <2>2 DEF After, Paused, Stopped
  <2> QED
      BY <2>1, <2>2, <2>3 DEF Planned
<1> QED
    BY <1>0, <1>1, <1>2, <1>3, <1>4, <1>5, <1>6
LEMMA Goes == ASSUME NEW a \in Steps, NEW s \in Seq(Steps)
              PROVE  /\ <<a>> \o s \in Seq(Steps) /\ <<a>> \o s # <<>>
                     /\ Head(<<a>> \o s) = a /\ Tail(<<a>> \o s) = s
                     /\ <<>> \o s = s
OBVIOUS
-----------------------------------------------------------------------------
(* The inductive invariant                                                    *)

Q == displayThreadCommandQ
Controls == {i \in DOMAIN Q : Q[i].cmd # "FRAME"}

\* The command thread has one of the lists, and starts no display without a
\* window.
Starts(s) == \E i \in DOMAIN s : s[i].op = "start"
Ordered == /\ Planned(todo)
           /\ Starts(todo) => mANativeWindow # None

\* A stop of the preview and another window need a display that shows nothing.
NeedsQuiet(s) == /\ s # <<>>
                 /\ \/ Head(s).op = "stop preview"
                    \/ Head(s).op = "set to" /\ Head(s).win # mANativeWindow

\* One message of the command thread is on its way, or its semaphore signalled,
\* while it waits, and at no other time; nothing is put after a PAUSE or STOP.
OneControl == \A i, j \in Controls : i = j
Handshake == /\ OneControl
             /\ IF Does("await") THEN sem <=> Controls = {}
                                 ELSE ~ sem /\ Controls = {}
             /\ \A i \in DOMAIN Q : /\ Q[i].cmd \in {"PAUSE", "STOP"}
                                         => i = Len(Q) /\ mDisplayState \in Quiet
                                    /\ Q[i].cmd = "START" => mANativeWindow # None

\* What has to be quiet is, once the display has answered.
QuietNow == /\ NeedsQuiet(todo) => mDisplayRuning # "RUNNING"
            /\ Does("await") /\ NeedsQuiet(Tail(todo))
                 => IF sem THEN mDisplayRuning # "RUNNING"
                           ELSE \A i \in DOMAIN Q : Q[i].cmd # "START"

\* While it runs the display has buffers of its window, else none and no frames.
Busy == {"dequeue", "busy", "await any", "fill", "return"}
Showing == IF mDisplayRuning = "RUNNING"
           THEN mANativeWindow # None /\ mDisplayBufInfo.win = mANativeWindow
           ELSE /\ mDisplayBufInfo = NoBuffers
                /\ thread.at \notin Busy \union {"refill"}
                /\ \A i \in DOMAIN Q : Q[i].cmd # "FRAME"

Places == /\ thread.at \in Busy <=> thread.frame # None
          /\ \A i \in DOMAIN Q : Q[i].cmd = "FRAME" <=> Q[i].frame # None
          /\ thread.at = "fill" => mDisplayBufInfo.unused > 0
          /\ thread.at = "exit" => mDisplayRuning = "STOP"
          /\ ~ mPreviewRunning => cb = None

\* Each frame is in one place.
Apart == /\ \A i, j \in DOMAIN Q : Q[i].frame = Q[j].frame /\ Q[i].frame # None => i = j
         /\ \A i \in DOMAIN Q : Q[i].frame # None => Q[i].frame \notin {thread.frame, cb}
         /\ cb # None => cb # thread.frame

IInv == /\ TypeOK /\ Ordered /\ Handshake /\ QuietNow /\ Showing /\ Places /\ Apart
        /\ FramesKnown /\ BuffersGivenBack
-----------------------------------------------------------------------------
LEMMA Put1 == ASSUME NEW M, NEW s \in Seq(M), NEW m \in M
              PROVE  /\ Append(s, m) \in Seq(M)
                     /\ Len(Append(s, m)) = Len(s) + 1
                     /\ DOMAIN Append(s, m) = 1..(Len(s) + 1) /\ DOMAIN s = 1..Len(s)
                     /\ \A i \in DOMAIN s : Append(s, m)[i] = s[i]
                     /\ Append(s, m)[Len(s) + 1] = m
OBVIOUS

LEMMA Take1 == ASSUME NEW M, NEW s \in Seq(M), s # <<>>
               PROVE  /\ Tail(s) \in Seq(M)
                      /\ Len(Tail(s)) = Len(s) - 1 /\ Len(s) \in Nat
                      /\ DOMAIN Tail(s) = 1..(Len(s) - 1) /\ DOMAIN s = 1..Len(s)
                      /\ Head(s) = s[1] /\ 1 \in DOMAIN s /\ Head(s) \in M
                      /\ \A i \in DOMAIN Tail(s) : i + 1 \in DOMAIN s /\ Tail(s)[i] = s[i + 1]
OBVIOUS

LEMMA InitIInv == Init => IInv
<1> SUFFICES ASSUME Init PROVE IInv
    OBVIOUS
<1> USE DEF Init, display
<1>1. TypeOK
  <2>1. /\ mDisplayBufInfo \in [win : Windows \union {None}, unused : 0..BufNum]
        /\ thread \in [at : {"receive", "dequeue", "busy", "await any", "fill", "return",
                            "refill", "check", "wait", "exit"},
                      frame : Frames \union {None}]
      BY DisplayAssumption DEF NoBuffers, Buffers, Thread
  <2>2. \A w \in Windows : /\ window[w] \in [hal : 0..BufNum, screen : 0..BufNum]
                            /\ window[w].hal + window[w].screen <= BufNum
      BY DisplayAssumption DEF Holding
  <2>3. window \in [Windows -> [hal : 0..BufNum, screen : 0..BufNum]]
      BY <2>2
  <2>4. displayThreadCommandQ \in Seq([cmd : {"START", "PAUSE", "STOP", "FRAME"},
                                      frame : Frames \union {None}])
      OBVIOUS
  <2>5. /\ mDisplayRuning \in {None} /\ mDisplayState \in {None} /\ mANativeWindow \in {None}
        /\ sem \in BOOLEAN /\ mFrameInfoArray \subseteq Frames
        /\ cb \in {None} /\ mPreviewRunning \in BOOLEAN
      OBVIOUS
  <2> HIDE DEF Init, display
  <2> QED
      BY <2>1, <2>2, <2>3, <2>4, <2>5 DEF TypeOK
<1>2. Ordered /\ QuietNow
    BY DEF Ordered, Planned, Starts, QuietNow, NeedsQuiet, Does
<1>3. Handshake /\ Showing /\ Apart
  <2>1. DOMAIN Q = {}
      BY DEF Q
  <2>2. Handshake /\ Apart
      BY <2>1 DEF Handshake, OneControl, Controls, Does, Apart
  <2>3. thread.at = "receive" /\ mDisplayRuning # "RUNNING" /\ mDisplayBufInfo = NoBuffers
      BY DEF Thread, None
  <2> QED
      BY <2>1, <2>2, <2>3 DEF Showing, Busy
<1>4. Places
    BY DEF Places, Q, Thread, Busy, NoBuffers, Buffers
<1>5. FramesKnown
    BY DEF FramesKnown, Shown, Queued, Thread
<1>6. BuffersGivenBack
    BY DisplayAssumption DEF BuffersGivenBack, NoBuffers, Buffers, Holding
<1> QED
    BY <1>1, <1>2, <1>3, <1>4, <1>5, <1>6 DEF IInv

\* A step that leaves the command thread and the messages as they are.
LEMMA OthersAct ==
    ASSUME IInv, UNCHANGED <<display, displayThreadCommandQ, sem, mANativeWindow, todo>>
    PROVE  Ordered' /\ Handshake' /\ QuietNow'
<1>1. UNCHANGED <<mDisplayRuning, mDisplayState, displayThreadCommandQ, sem, mANativeWindow, todo>>
    BY DEF display
<1>2. Ordered'
    BY <1>1 DEF IInv, Ordered, Starts, Planned, After, Windowed, Paused, Restarted, Stopped, Repeated
<1>3. Handshake'
    BY <1>1 DEF IInv, Handshake, OneControl, Controls, Q, Does
<1>4. QuietNow'
  <2>1. \A s : NeedsQuiet(s)' <=> NeedsQuiet(s)
      BY <1>1 DEF NeedsQuiet
  <2>2. /\ Does("await")' <=> Does("await")
        /\ Q' = Q
      BY <1>1 DEF Does, Q
  <2> QED
      BY <1>1, <2>1, <2>2 DEF IInv, QuietNow
<1> QED
    BY <1>2, <1>3, <1>4

\* A step that leaves the display as it is.
LEMMA TypeKept ==
    ASSUME TypeOK,
           UNCHANGED <<mDisplayRuning, mDisplayState, displayThreadCommandQ, thread,
                       mDisplayBufInfo, window>>,
           sem' \in BOOLEAN \union {sem},
           mANativeWindow' \in Windows \union {None, mANativeWindow},
           mFrameInfoArray' \subseteq mFrameInfoArray \union Frames,
           cb' \in Frames \union {None, cb},
           mPreviewRunning' \in BOOLEAN \union {mPreviewRunning}
    PROVE  TypeOK'
<1>1. /\ sem' \in BOOLEAN /\ mANativeWindow' \in Windows \union {None}
      /\ mPreviewRunning' \in BOOLEAN
    BY DEF TypeOK
<1>2. mFrameInfoArray' \subseteq Frames /\ cb' \in Frames \union {None}
    BY DEF TypeOK
<1> QED
    BY <1>1, <1>2 DEF TypeOK

\* A step of the command thread alone.
LEMMA CommandActs ==
    ASSUME IInv, sem' \in BOOLEAN,
           UNCHANGED <<display, displayThreadCommandQ, thread, shared, frames, mPreviewRunning>>
    PROVE  TypeOK' /\ Showing' /\ Places' /\ Apart' /\ FramesKnown' /\ BuffersGivenBack'
<1> USE DEF IInv, display, shared, frames
<1>1. TypeOK'
  <2>1. mANativeWindow' = mANativeWindow /\ mPreviewRunning' = mPreviewRunning
        /\ UNCHANGED <<mDisplayBufInfo, window, mFrameInfoArray, cb>>
      OBVIOUS
  <2> QED
      BY <2>1, TypeKept
<1>2. Showing' /\ Places' /\ Apart'
    BY DEF Showing, Places, Apart, Q
<1>3. FramesKnown'
    BY DEF FramesKnown, Shown, Queued
<1>4. BuffersGivenBack'
    BY DEF BuffersGivenBack
<1> QED
    BY <1>1, <1>2, <1>3, <1>4
-----------------------------------------------------------------------------
(* The display thread                                                         *)
LEMMA DequeuedKeeps ==
    ASSUME IInv, mDisplayRuning = "RUNNING", DequeueBuffer
    PROVE  /\ mDisplayBufInfo' \in [win : Windows \union {None}, unused : 0..BufNum]
           /\ mDisplayBufInfo'.win = mANativeWindow /\ mDisplayBufInfo'.unused > 0
           /\ window' \in [Windows -> [hal : 0..BufNum, screen : 0..BufNum]]
           /\ \A w \in Windows : window'[w].hal + window'[w].screen <= BufNum
           /\ BuffersGivenBack'
<1> DEFINE W == mANativeWindow
           n == window[W].hal
           m == window[W].screen
<1>1. W \in Windows /\ mDisplayBufInfo.win = W /\ W # None
    BY DEF IInv, TypeOK, Showing
<1>2. n \in 0..BufNum /\ m \in 0..BufNum /\ BufNum \in Nat
    BY <1>1, DisplayAssumption DEF IInv, TypeOK
<1>3. mDisplayBufInfo = [win |-> W, unused |-> n]
    BY <1>1 DEF IInv, TypeOK, BuffersGivenBack
<1>4. n + 1 + m <= BufNum /\ n + 1 \in 0..BufNum /\ n + 1 > 0
    BY <1>2 DEF DequeueBuffer, Available
<1>5. window' = [window EXCEPT ![W] = [hal |-> n + 1, screen |-> m]]
  <2>1. window[W] = [hal |-> n, screen |-> m]
      BY <1>1 DEF IInv, TypeOK
  <2>2. [window[W] EXCEPT !.hal = n + 1] = [hal |-> n + 1, screen |-> m]
      BY <2>1
  <2> QED
      BY <2>2 DEF DequeueBuffer
<1>6. mDisplayBufInfo' = [win |-> W, unused |-> n + 1] /\ mANativeWindow' = W
    BY <1>3 DEF DequeueBuffer
<1>7. window' \in [Windows -> [hal : 0..BufNum, screen : 0..BufNum]]
    BY <1>1, <1>2, <1>4, <1>5 DEF IInv, TypeOK
<1>8. \A w \in Windows : window'[w] = IF w = W THEN [hal |-> n + 1, screen |-> m] ELSE window[w]
    BY <1>1, <1>5 DEF IInv, TypeOK
<1>9. \A w \in Windows : window'[w].hal + window'[w].screen <= BufNum
  <2> TAKE w \in Windows
  <2>1. CASE w = W
      BY <2>1, <1>8, <1>4
  <2>2. CASE w # W
      BY <2>2, <1>8 DEF IInv, TypeOK
  <2> QED
      BY <2>1, <2>2
<1>10. \A w \in Windows : w # W => window[w].hal = 0
    BY <1>1 DEF IInv, BuffersGivenBack
<1>11. BuffersGivenBack'
  <2>1. \A w \in Windows : window'[w].hal = IF w = W THEN n + 1 ELSE 0
      BY <1>8, <1>10
  <2> HIDE DEF n, m
  <2>2. mDisplayBufInfo'.win = W /\ mDisplayBufInfo'.unused = n + 1
      BY <1>6
  <2> QED
      BY <2>1, <2>2, <1>6 DEF BuffersGivenBack
<1> QED
    BY <1>1, <1>4, <1>6, <1>7, <1>9, <1>11

\* A step of the display thread that changes no message, with what it does to
\* its own state and the window's.
LEMMA ThreadAlone ==
    ASSUME IInv,
           UNCHANGED <<display, displayThreadCommandQ, mANativeWindow, sem, cb, command>>,
           mDisplayBufInfo' \in [win : Windows \union {None}, unused : 0..BufNum],
           window' \in [Windows -> [hal : 0..BufNum, screen : 0..BufNum]],
           \A w \in Windows : window'[w].hal + window'[w].screen <= BufNum,
           BuffersGivenBack',
           mDisplayRuning = "RUNNING" => mDisplayBufInfo'.win = mANativeWindow,
           mDisplayRuning # "RUNNING" => mDisplayBufInfo' = NoBuffers,
           NEW a \in {"receive", "dequeue", "busy", "await any", "fill", "return",
                      "refill", "check", "wait"},
           NEW f \in {thread.frame, None},
           thread' = Thread(a, f),
           a \in Busy <=> f # None,
           a \in Busy \union {"refill"} => mDisplayRuning = "RUNNING",
           a = "fill" => mDisplayBufInfo'.unused > 0,
           mFrameInfoArray' = IF f = thread.frame THEN mFrameInfoArray
                              ELSE mFrameInfoArray \ {thread.frame}
    PROVE  IInv'
<1> USE DEF IInv, display, command
<1>0. thread'.at = a /\ thread'.frame = f
    BY DEF Thread
<1>1. TypeOK'
  <2>1. thread' \in [at : {"receive", "dequeue", "busy", "await any", "fill", "return",
                           "refill", "check", "wait", "exit"},
                     frame : Frames \union {None}]
      BY DEF TypeOK, Thread
  <2>2. mFrameInfoArray' \subseteq Frames
      BY DEF TypeOK
  <2> QED
      BY <2>1, <2>2 DEF TypeOK
<1>2. Ordered' /\ Handshake' /\ QuietNow'
    BY OthersAct
<1>3. Showing'
    BY <1>0 DEF Showing, Q
<1>4. Places'
    BY <1>0 DEF Places, Q, Busy
<1>5. Apart'
    BY <1>0 DEF Apart, Q
<1>6. FramesKnown'
  <2>1. CASE f = thread.frame
      BY <2>1, <1>0 DEF FramesKnown, Shown, Queued
  <2>2. CASE f # thread.frame
    <3>1. f = None /\ thread.frame \notin {cb} /\ thread.frame \notin Queued
        BY <2>2 DEF Apart, Queued, Q
    <3>2. mFrameInfoArray = (Queued \union {thread.frame, cb}) \ {None}
        BY DEF FramesKnown, Shown
    <3>3. Shown' = (Queued \union {None, cb}) \ {None}
        BY <1>0, <3>1 DEF Shown, Queued
    <3> QED
        BY <2>2, <3>1, <3>2, <3>3 DEF FramesKnown
  <2> QED
      BY <2>1, <2>2
<1> QED
    BY <1>1, <1>2, <1>3, <1>4, <1>5, <1>6
LEMMA StillTyped ==
    ASSUME IInv, UNCHANGED shared
    PROVE  /\ mDisplayBufInfo' \in [win : Windows \union {None}, unused : 0..BufNum]
           /\ window' \in [Windows -> [hal : 0..BufNum, screen : 0..BufNum]]
           /\ \A w \in Windows : window'[w].hal + window'[w].screen <= BufNum
           /\ BuffersGivenBack'
           /\ mDisplayRuning = "RUNNING" => mDisplayBufInfo'.win = mANativeWindow
           /\ mDisplayRuning # "RUNNING" => mDisplayBufInfo' = NoBuffers
<1> USE DEF shared, IInv
<1>1. BuffersGivenBack'
    BY DEF BuffersGivenBack
<1> QED
    BY <1>1 DEF TypeOK, Showing

LEMMA DequeueKeeps == ASSUME IInv, ThreadDequeue PROVE IInv'
<1>1. thread.at = "dequeue" /\ thread.frame # None /\ mDisplayRuning = "RUNNING"
    BY DEF ThreadDequeue, IInv, Places, Showing, Busy
<1>2. thread \in [at : {"dequeue"}, frame : Frames \union {None}]
    BY <1>1 DEF IInv, TypeOK
<1>3. CASE DequeueBuffer /\ thread' = [thread EXCEPT !.at = "fill"]
  <2>1. thread' = Thread("fill", thread.frame)
      BY <1>2, <1>3 DEF Thread
  <2>2. UNCHANGED <<display, displayThreadCommandQ, mANativeWindow, sem, cb, command>>
        /\ mFrameInfoArray' = mFrameInfoArray
      BY <1>3 DEF ThreadDequeue, DequeueBuffer, frames
  <2>3. "fill" \in Busy
      BY DEF Busy
  <2> HIDE DEF IInv, ThreadDequeue
  <2> QED
      BY <1>1, <1>3, <2>1, <2>2, <2>3, DequeuedKeeps, ThreadAlone
<1>4. CASE UNCHANGED shared /\ thread' = [thread EXCEPT !.at = "busy"]
  <2>1. thread' = Thread("busy", thread.frame)
      BY <1>2, <1>4 DEF Thread
  <2>2. UNCHANGED <<display, displayThreadCommandQ, mANativeWindow, sem, cb, command>>
        /\ mFrameInfoArray' = mFrameInfoArray
      BY <1>4 DEF ThreadDequeue, shared, frames
  <2>3. "busy" \in Busy
      BY DEF Busy
  <2> QED
      BY <1>1, <1>4, <2>1, <2>2, <2>3, StillTyped, ThreadAlone
<1> QED
    BY <1>3, <1>4 DEF ThreadDequeue

LEMMA BusyKeeps == ASSUME IInv, ThreadBusy PROVE IInv'
<1>1. thread.at = "busy" /\ thread.frame # None /\ mDisplayRuning = "RUNNING"
    BY DEF ThreadBusy, IInv, Places, Showing, Busy
<1>2. thread \in [at : {"busy"}, frame : Frames \union {None}]
    BY <1>1 DEF IInv, TypeOK
<1>3. UNCHANGED <<display, displayThreadCommandQ, mANativeWindow, sem, cb, command>>
      /\ UNCHANGED shared
    BY DEF ThreadBusy, shared
<1>4. CASE returnFrame(thread.frame) /\ thread' = Thread("receive", None)
  <2>1. mFrameInfoArray' = mFrameInfoArray \ {thread.frame}
      BY <1>4 DEF returnFrame
  <2>2. "receive" \notin Busy \union {"refill"}
      BY DEF Busy
  <2> QED
      BY <1>1, <1>3, <1>4, <2>1, <2>2, StillTyped, ThreadAlone
<1>5. CASE UNCHANGED mFrameInfoArray /\ thread' = [thread EXCEPT !.at = "await any"]
  <2>1. thread' = Thread("await any", thread.frame)
      BY <1>2, <1>5 DEF Thread
  <2>2. "await any" \in Busy
      BY DEF Busy
  <2> QED
      BY <1>1, <1>3, <1>5, <2>1, <2>2, StillTyped, ThreadAlone
<1> QED
    BY <1>4, <1>5 DEF ThreadBusy

LEMMA ReturnKeeps == ASSUME IInv, ThreadReturn PROVE IInv'
<1>1. thread.at = "return" /\ thread.frame # None /\ mDisplayRuning = "RUNNING"
    BY DEF ThreadReturn, IInv, Places, Showing, Busy
<1>2. UNCHANGED <<display, displayThreadCommandQ, mANativeWindow, sem, cb, command>>
      /\ UNCHANGED shared
    BY DEF ThreadReturn, shared
<1>3. mFrameInfoArray' = mFrameInfoArray \ {thread.frame}
    BY DEF ThreadReturn, returnFrame
<1>4. PICK a \in {"refill", "check"} : thread' = Thread(a, None)
    BY DEF ThreadReturn
<1>5. a \notin Busy
    BY DEF Busy
<1> QED
    BY <1>1, <1>2, <1>3, <1>4, <1>5, StillTyped, ThreadAlone

LEMMA RefillKeeps == ASSUME IInv, ThreadRefill PROVE IInv'
<1>1. thread.at = "refill" /\ thread.frame = None /\ mDisplayRuning = "RUNNING"
    BY DEF ThreadRefill, IInv, Places, Showing, Busy
<1>2. thread' = Thread("check", None) /\ mFrameInfoArray' = mFrameInfoArray
      /\ "check" \notin Busy \union {"refill"}
    BY DEF ThreadRefill, frames, Busy
<1>3. UNCHANGED <<display, displayThreadCommandQ, mANativeWindow, sem, cb, command>>
    BY DEF ThreadRefill, frames, DequeueBuffer, shared
<1>4. CASE DequeueBuffer
    BY <1>1, <1>2, <1>3, <1>4, DequeuedKeeps, ThreadAlone
<1>5. CASE UNCHANGED shared
    BY <1>1, <1>2, <1>3, <1>5, StillTyped, ThreadAlone
<1> QED
    BY <1>4, <1>5 DEF ThreadRefill

LEMMA CheckKeeps == ASSUME IInv, ThreadCheck \/ ThreadIdle PROVE IInv'
<1>1. thread.at \in {"check", "receive"} /\ thread.frame = None
    BY DEF ThreadCheck, ThreadIdle, IInv, Places, Busy
<1>2. PICK a \in {"receive", "wait", "check"} : thread' = Thread(a, None)
    BY DEF ThreadCheck, ThreadIdle
<1>3. UNCHANGED <<display, displayThreadCommandQ, mANativeWindow, sem, cb, command>>
      /\ UNCHANGED shared /\ mFrameInfoArray' = mFrameInfoArray
    BY DEF ThreadCheck, ThreadIdle, shared, frames
<1>4. a \notin Busy \union {"refill"}
    BY DEF Busy
<1> QED
    BY <1>1, <1>2, <1>3, <1>4, StillTyped, ThreadAlone

LEMMA EnqueueKeeps == ASSUME Faults = {}, IInv, ThreadEnqueue PROVE IInv'
<1> DEFINE W == mANativeWindow
           n == window[W].hal
           m == window[W].screen
<1>1. /\ thread.at = "fill" /\ thread.frame # None /\ mDisplayRuning = "RUNNING"
      /\ mDisplayBufInfo.unused > 0
    BY DEF ThreadEnqueue, IInv, Places, Showing, Busy
<1>2. W \in Windows /\ mDisplayBufInfo.win = W /\ W # None
    BY <1>1 DEF IInv, TypeOK, Showing
<1>3. n \in 0..BufNum /\ m \in 0..BufNum /\ BufNum \in Nat /\ n + m <= BufNum
    BY <1>2, DisplayAssumption DEF IInv, TypeOK
<1>4. mDisplayBufInfo = [win |-> W, unused |-> n]
    BY <1>2 DEF IInv, TypeOK, BuffersGivenBack
<1>5. n > 0
    BY <1>1, <1>4
<1>6. n - 1 \in 0..BufNum /\ m + 1 \in 0..BufNum /\ (n - 1) + (m + 1) <= BufNum
    BY <1>3, <1>5
<1>7. UNCHANGED <<display, displayThreadCommandQ, mANativeWindow, sem, cb, command>>
      /\ UNCHANGED mFrameInfoArray
      /\ window' = [window EXCEPT ![W] = [hal |-> n - 1, screen |-> m + 1]]
    BY DEF ThreadEnqueue, May, Holding, frames, display
<1>8. mDisplayBufInfo' = [win |-> W, unused |-> n - 1]
    BY <1>4 DEF ThreadEnqueue
<1>9. \A w \in Windows : window'[w] = IF w = W THEN [hal |-> n - 1, screen |-> m + 1]
                                               ELSE window[w]
    BY <1>2, <1>7 DEF IInv, TypeOK
<1>10. window' \in [Windows -> [hal : 0..BufNum, screen : 0..BufNum]]
    BY <1>2, <1>6, <1>7 DEF IInv, TypeOK
<1>11. \A w \in Windows : window'[w].hal + window'[w].screen <= BufNum
  <2> TAKE w \in Windows
  <2>1. CASE w = W
      BY <2>1, <1>9, <1>6
  <2>2. CASE w # W
      BY <2>2, <1>9 DEF IInv, TypeOK
  <2> QED
      BY <2>1, <2>2
<1>12. BuffersGivenBack'
  <2>1. \A w \in Windows : w # W => window[w].hal = 0
      BY <1>2 DEF IInv, BuffersGivenBack
  <2>2. \A w \in Windows : window'[w].hal = IF w = W THEN n - 1 ELSE 0
      BY <1>9, <2>1
  <2> HIDE DEF n, m
  <2>3. mDisplayBufInfo'.win = W /\ mDisplayBufInfo'.unused = n - 1 /\ mANativeWindow' = W
      BY <1>7, <1>8
  <2> QED
      BY <2>2, <2>3 DEF BuffersGivenBack
<1>13. thread' = Thread("return", thread.frame)
    BY <1>1 DEF ThreadEnqueue, Thread, IInv, TypeOK
<1>14. mDisplayBufInfo' \in [win : Windows \union {None}, unused : 0..BufNum]
       /\ mDisplayBufInfo'.win = W
    BY <1>2, <1>6, <1>8
<1>15. "return" \in Busy
    BY DEF Busy
<1> HIDE DEF n, m
<1> QED
    BY <1>1, <1>7, <1>10, <1>11, <1>12, <1>13, <1>14, <1>15, ThreadAlone
Messages == [cmd : {"START", "PAUSE", "STOP", "FRAME"}, frame : Frames \union {None}]

LEMMA TakenKeeps ==
    ASSUME IInv, NEW cmd, Takes(cmd)
    PROVE  /\ thread.at = "receive" /\ thread.frame = None
           /\ 1 \in DOMAIN Q /\ Head(Q) = Q[1] /\ Q[1].cmd = cmd /\ Q[1] \in Messages
           /\ Q' \in Seq(Messages)
           /\ Len(Q') = Len(Q) - 1 /\ Len(Q) \in Nat /\ DOMAIN Q' = 1..(Len(Q) - 1)
           /\ \A i \in DOMAIN Q' : i + 1 \in DOMAIN Q /\ Q'[i] = Q[i + 1] /\ i + 1 # 1
           /\ \A i, j \in DOMAIN Q' : Q'[i].frame = Q'[j].frame /\ Q'[i].frame # None => i = j
           /\ Queued = Queued' \union {Q[1].frame}
           /\ Q[1].frame # None => Q[1].frame \notin Queued'
           /\ \A i \in DOMAIN Q : i = 1 \/ (i - 1 \in DOMAIN Q' /\ Q[i] = Q'[i - 1])
<1> USE DEF Q
<1>0. Q \in Seq(Messages) /\ Q # <<>> /\ Q' = Tail(Q)
    BY DEF IInv, TypeOK, Messages, Takes
<1>1. /\ Q' \in Seq(Messages)
      /\ Len(Q') = Len(Q) - 1 /\ Len(Q) \in Nat
      /\ DOMAIN Q' = 1..(Len(Q) - 1) /\ DOMAIN Q = 1..Len(Q)
      /\ Head(Q) = Q[1] /\ 1 \in DOMAIN Q /\ Head(Q) \in Messages
      /\ \A i \in DOMAIN Q' : i + 1 \in DOMAIN Q /\ Q'[i] = Q[i + 1]
    BY <1>0, Take1
<1>2. thread.at = "receive" /\ thread.frame = None /\ Head(Q).cmd = cmd
    BY DEF Takes, IInv, Places, Busy
<1>3. \A i \in DOMAIN Q' : i \in Int /\ i + 1 # 1
    BY <1>1
<1>4. ASSUME NEW i \in DOMAIN Q', NEW j \in DOMAIN Q', Q'[i].frame = Q'[j].frame,
             Q'[i].frame # None
      PROVE  i = j
  <2>1. i + 1 = j + 1
      BY <1>1, <1>4 DEF IInv, Apart
  <2> QED
      BY <2>1, <1>3
<1>7. \A i \in DOMAIN Q : i = 1 \/ (i - 1 \in DOMAIN Q' /\ Q[i] = Q'[i - 1])
  <2> TAKE i \in DOMAIN Q
  <2>1. CASE i # 1
    <3>1. i - 1 \in DOMAIN Q' /\ (i - 1) + 1 = i
        BY <2>1, <1>1
    <3> QED
        BY <3>1, <1>1
  <2> QED
      BY <2>1
<1>5. Queued = Queued' \union {Q[1].frame}
  <2>1. Queued = {Q[i].frame : i \in DOMAIN Q} /\ Queued' = {Q'[i].frame : i \in DOMAIN Q'}
      BY DEF Queued
  <2> HIDE DEF Q
  <2> QED
      BY <2>1, <1>7, <1>1
<1>6. ASSUME Q[1].frame # None, Q[1].frame \in Queued'
      PROVE  FALSE
  <2>1. PICK i \in DOMAIN Q' : Q'[i].frame = Q[1].frame
      BY <1>6 DEF Queued
  <2>2. i + 1 = 1
      BY <2>1, <1>1, <1>6 DEF IInv, Apart
  <2> QED
      BY <2>2, <1>3
<1> QED
    BY <1>1, <1>2, <1>3, <1>4, <1>5, <1>6, <1>7

\* A message of the command thread is taken and its semaphore signalled.
LEMMA ControlTaken ==
    ASSUME IInv, NEW cmd \in {"START", "PAUSE", "STOP"}, Takes(cmd), sem' = TRUE,
           NEW a \in {"check", "exit"}, thread' = Thread(a, None),
           UNCHANGED <<mANativeWindow, frames, command>>
    PROVE  /\ Ordered' /\ Handshake' /\ Apart' /\ FramesKnown'
           /\ \A i \in DOMAIN Q' : Q'[i].cmd = "FRAME"
           /\ \A i \in DOMAIN Q' : Q'[i].cmd = "FRAME" <=> Q'[i].frame # None
           /\ cmd # "START" => Q' = <<>>
           /\ Does("await") /\ ~ sem
           /\ displayThreadCommandQ' \in Seq(Messages)
           /\ thread'.at = a /\ thread'.frame = None
           /\ thread' \in [at : {"check", "exit"}, frame : Frames \union {None}]
           /\ ~ NeedsQuiet(todo)'
<1>1. /\ thread.at = "receive" /\ thread.frame = None
      /\ 1 \in DOMAIN Q /\ Head(Q) = Q[1] /\ Q[1].cmd = cmd /\ Q[1] \in Messages
      /\ Q' \in Seq(Messages)
      /\ Len(Q') = Len(Q) - 1 /\ Len(Q) \in Nat /\ DOMAIN Q' = 1..(Len(Q) - 1)
      /\ \A i \in DOMAIN Q' : i + 1 \in DOMAIN Q /\ Q'[i] = Q[i + 1] /\ i + 1 # 1
      /\ \A i, j \in DOMAIN Q' : Q'[i].frame = Q'[j].frame /\ Q'[i].frame # None => i = j
      /\ Queued = Queued' \union {Q[1].frame}
      /\ Q[1].frame # None => Q[1].frame \notin Queued'
    BY TakenKeeps
<1>2. Q[1].frame = None /\ 1 \in Controls
    BY <1>1 DEF IInv, Places, Controls
<1>3. \A i \in DOMAIN Q' : Q'[i].cmd = "FRAME"
  <2> SUFFICES ASSUME NEW i \in DOMAIN Q', Q'[i].cmd # "FRAME" PROVE FALSE
      OBVIOUS
  <2>1. i + 1 \in Controls
      BY <1>1 DEF Controls
  <2> QED
      BY <2>1, <1>1, <1>2 DEF IInv, Handshake, OneControl
<1>4. \A i \in DOMAIN Q' : Q'[i].cmd = "FRAME" <=> Q'[i].frame # None
    BY <1>1 DEF IInv, Places
<1>5. Does("await") /\ ~ sem
    BY <1>2 DEF IInv, Handshake
<1>6. cmd # "START" => Q' = <<>>
  <2>1. cmd # "START" => 1 = Len(Q)
      BY <1>1 DEF IInv, Handshake
  <2>2. cmd # "START" => Len(Q') = 0
      BY <2>1, <1>1
  <2> QED
      BY <2>2, <1>1
<1>7. todo' = todo /\ cb' = cb /\ mFrameInfoArray' = mFrameInfoArray
    BY DEF command, frames
<1>8. Ordered'
    BY <1>7 DEF IInv, Ordered, Planned, Starts, After, Windowed, Paused, Restarted, Stopped,
                Repeated
<1>9. Handshake'
  <2>1. Controls' = {}
      BY <1>3 DEF Controls
  <2>2. Does("await")'
      BY <1>5, <1>7 DEF Does
  <2>3. \A i \in DOMAIN Q' : Q'[i].cmd \notin {"PAUSE", "STOP", "START"}
      BY <1>3
  <2> QED
      BY <2>1, <2>2, <2>3 DEF Handshake, OneControl
<1>10. thread'.at = a /\ thread'.frame = None
    BY DEF Thread
<1>11. Apart'
  <2>1. \A i \in DOMAIN Q' : Q'[i].frame # None => Q'[i].frame # cb
      BY <1>1 DEF IInv, Apart
  <2> QED
      BY <2>1, <1>1, <1>7, <1>10 DEF Apart
<1>12. FramesKnown'
  <2>1. Shown = (Queued \union {cb}) \ {None}
      BY <1>1 DEF Shown
  <2>2. Shown' = (Queued' \union {cb}) \ {None}
      BY <1>7, <1>10 DEF Shown
  <2> QED
      BY <2>1, <2>2, <1>1, <1>2, <1>7 DEF IInv, FramesKnown
<1>13. ~ NeedsQuiet(todo)'
    BY <1>5, <1>7 DEF NeedsQuiet, Does
<1>14. displayThreadCommandQ' \in Seq(Messages)
    BY <1>1 DEF Q
<1>15. thread' \in [at : {"check", "exit"}, frame : Frames \union {None}]
    BY DEF Thread
<1> QED
    BY <1>3, <1>4, <1>5, <1>6, <1>8, <1>9, <1>10, <1>11, <1>12, <1>13, <1>14, <1>15
LEMMA StartTaken == ASSUME Faults = {}, IInv, ThreadStart PROVE IInv'
<1> DEFINE W == mANativeWindow
<1>1. /\ Takes("START") /\ sem' = TRUE /\ thread' = Thread("check", None)
      /\ UNCHANGED <<mANativeWindow, frames, command>>
      /\ mDisplayRuning' = "RUNNING" /\ mDisplayState' = "START_DONE"
      /\ mDisplayBufInfo' = Buffers(W, BufNum)
      /\ window' = [window EXCEPT ![W] = Holding(BufNum, 0)]
    BY DEF ThreadStart, May, cameraDisplayBufferCreate
<1>2. /\ Ordered' /\ Handshake' /\ Apart' /\ FramesKnown'
      /\ \A i \in DOMAIN Q' : Q'[i].cmd = "FRAME" <=> Q'[i].frame # None
      /\ Does("await") /\ ~ sem
      /\ displayThreadCommandQ' \in Seq(Messages)
      /\ thread'.at = "check" /\ thread'.frame = None
      /\ thread' \in [at : {"check", "exit"}, frame : Frames \union {None}]
      /\ ~ NeedsQuiet(todo)'
    BY <1>1, ControlTaken
<1>3. 1 \in DOMAIN Q /\ Q[1].cmd = "START"
    BY <1>1, TakenKeeps
<1>4. W \in Windows /\ W # None
    BY <1>3 DEF IInv, TypeOK, Handshake
<1>5. 0 \in 0..BufNum /\ BufNum \in 0..BufNum /\ BufNum + 0 <= BufNum
    BY DisplayAssumption
<1>6. \A w \in Windows : window'[w] = IF w = W THEN [hal |-> BufNum, screen |-> 0]
                                               ELSE window[w]
    BY <1>1, <1>4 DEF IInv, TypeOK, Holding
<1>7. TypeOK'
  <2>1. window' \in [Windows -> [hal : 0..BufNum, screen : 0..BufNum]]
      BY <1>1, <1>4, <1>5 DEF IInv, TypeOK, Holding
  <2>2. \A w \in Windows : window'[w].hal + window'[w].screen <= BufNum
    <3> TAKE w \in Windows
    <3>1. CASE w = W
        BY <3>1, <1>6, <1>5
    <3>2. CASE w # W
        BY <3>2, <1>6 DEF IInv, TypeOK
    <3> QED
        BY <3>1, <3>2
  <2>3. mDisplayBufInfo' \in [win : Windows \union {None}, unused : 0..BufNum]
      BY <1>1, <1>4, <1>5 DEF Buffers
  <2> QED
      BY <2>1, <2>2, <2>3, <1>1, <1>2 DEF IInv, TypeOK, Messages, frames, command
<1>8. QuietNow'
  <2>1. ~ NeedsQuiet(Tail(todo))
      BY <1>2, <1>3 DEF IInv, QuietNow
  <2>2. ~ NeedsQuiet(Tail(todo))'
      BY <2>1, <1>1 DEF NeedsQuiet, command
  <2> QED
      BY <1>2, <2>2 DEF QuietNow
<1>9. Showing'
    BY <1>1, <1>4 DEF Showing, Buffers
<1>10. Places'
  <2>1. ~ mPreviewRunning' => cb' = None
      BY <1>1 DEF IInv, Places, frames, command
  <2>2. thread'.at \notin Busy
      BY <1>2 DEF Busy
  <2> QED
      BY <1>2, <2>1, <2>2 DEF Places
<1>11. BuffersGivenBack'
  <2>1. mDisplayBufInfo'.win = W /\ mDisplayBufInfo'.unused = BufNum /\ mANativeWindow' = W
      BY <1>1 DEF Buffers
  <2>2. \A w \in Windows : w # W => window[w].hal = 0
    <3>1. mDisplayBufInfo.win \in {None, W}
        BY DEF IInv, BuffersGivenBack
    <3>2. mDisplayBufInfo.win = None => mDisplayBufInfo.unused = 0
        BY <1>4 DEF IInv, Showing, NoBuffers, Buffers
    <3> QED
        BY <3>1, <3>2, <1>4 DEF IInv, BuffersGivenBack
  <2> QED
      BY <2>1, <2>2, <1>6 DEF BuffersGivenBack
<1> QED
    BY <1>2, <1>7, <1>8, <1>9, <1>10, <1>11 DEF IInv

LEMMA DestroyKeeps ==
    ASSUME IInv, cameraDisplayBufferDestory, mANativeWindow' = mANativeWindow
    PROVE  /\ mDisplayBufInfo' = NoBuffers
           /\ window' \in [Windows -> [hal : 0..BufNum, screen : 0..BufNum]]
           /\ \A w \in Windows : window'[w].hal + window'[w].screen <= BufNum
           /\ BuffersGivenBack'
<1> DEFINE W == mANativeWindow
<1>0. NoBuffers.win = None /\ NoBuffers.unused = 0
    BY DEF NoBuffers, Buffers
<1>1. CASE ~ Destroys
  <2>1. mDisplayBufInfo = NoBuffers
      BY <1>1 DEF Destroys, IInv, Showing
  <2>2. mDisplayBufInfo' = NoBuffers /\ window' = window
      BY <1>1, <2>1 DEF cameraDisplayBufferDestory
  <2>3. BuffersGivenBack'
      BY <2>1, <2>2 DEF IInv, BuffersGivenBack
  <2> QED
      BY <2>2, <2>3 DEF IInv, TypeOK
<1>2. CASE Destroys
  <2>1. W \in Windows /\ W # None /\ mDisplayBufInfo.win = W
      BY <1>2 DEF Destroys, IInv, TypeOK, Showing
  <2>2. window[W].hal = mDisplayBufInfo.unused /\ window[W].hal \in 0..BufNum
        /\ window[W].screen \in 0..BufNum /\ BufNum \in Nat
      BY <2>1, DisplayAssumption DEF IInv, BuffersGivenBack, TypeOK
  <2>3. mDisplayBufInfo' = NoBuffers
        /\ window' = [window EXCEPT ![W].hal = @ - mDisplayBufInfo.unused]
      BY <1>2, <2>1 DEF cameraDisplayBufferDestory, Cancelled
  <2>4. window[W].hal - mDisplayBufInfo.unused = 0 /\ 0 \in 0..BufNum
      BY <2>2
  <2>5. [window[W] EXCEPT !.hal = 0] = [hal |-> 0, screen |-> window[W].screen]
    <3>1. window[W] \in [hal : 0..BufNum, screen : 0..BufNum]
        BY <2>1 DEF IInv, TypeOK
    <3> HIDE DEF W
    <3> QED
        BY <3>1
  <2>6. window' = [window EXCEPT ![W] = [hal |-> 0, screen |-> window[W].screen]]
      BY <2>3, <2>4, <2>5
  <2>7. window' \in [Windows -> [hal : 0..BufNum, screen : 0..BufNum]]
      BY <2>1, <2>2, <2>4, <2>6 DEF IInv, TypeOK
  <2>8. \A w \in Windows : window'[w] = IF w = W THEN [hal |-> 0, screen |-> window[W].screen]
                                                 ELSE window[w]
      BY <2>1, <2>6 DEF IInv, TypeOK
  <2>9. \A w \in Windows : window'[w].hal + window'[w].screen <= BufNum
    <3> TAKE w \in Windows
    <3>1. CASE w = W
        BY <3>1, <2>8, <2>2
    <3>2. CASE w # W
        BY <3>2, <2>8 DEF IInv, TypeOK
    <3> QED
        BY <3>1, <3>2
  <2>10. \A w \in Windows : window'[w].hal = 0
      BY <2>1, <2>8 DEF IInv, BuffersGivenBack
  <2>11. BuffersGivenBack'
      BY <2>3, <2>10, <1>0 DEF BuffersGivenBack
  <2> QED
      BY <2>3, <2>7, <2>9, <2>11
<1> QED
    BY <1>1, <1>2

LEMMA QuietTaken ==
    ASSUME IInv, ThreadPause \/ ThreadStop
    PROVE  IInv'
<1>1. PICK cmd \in {"PAUSE", "STOP"}, a \in {"check", "exit"} :
         /\ Takes(cmd) /\ sem' = TRUE /\ thread' = Thread(a, None)
         /\ cameraDisplayBufferDestory
         /\ UNCHANGED <<mANativeWindow, frames, command>>
         /\ mDisplayRuning' = cmd /\ mDisplayState' \in Quiet
         /\ a = "exit" => cmd = "STOP"
    BY DEF ThreadPause, ThreadStop, Quiet
<1>2. /\ Ordered' /\ Handshake' /\ Apart' /\ FramesKnown'
      /\ \A i \in DOMAIN Q' : Q'[i].cmd = "FRAME" <=> Q'[i].frame # None
      /\ Q' = <<>>
      /\ Does("await") /\ ~ sem
      /\ displayThreadCommandQ' \in Seq(Messages)
      /\ thread'.at = a /\ thread'.frame = None
      /\ thread' \in [at : {"check", "exit"}, frame : Frames \union {None}]
      /\ ~ NeedsQuiet(todo)'
    BY <1>1, ControlTaken
<1>3. /\ mDisplayBufInfo' = NoBuffers
      /\ window' \in [Windows -> [hal : 0..BufNum, screen : 0..BufNum]]
      /\ \A w \in Windows : window'[w].hal + window'[w].screen <= BufNum
      /\ BuffersGivenBack'
    BY <1>1, DestroyKeeps
<1>4. TypeOK'
  <2>1. mDisplayBufInfo' \in [win : Windows \union {None}, unused : 0..BufNum]
      BY <1>3, DisplayAssumption DEF NoBuffers, Buffers
  <2> QED
      BY <2>1, <1>1, <1>2, <1>3 DEF IInv, TypeOK, Messages, frames, command
<1>5. QuietNow'
    BY <1>1, <1>2 DEF QuietNow
<1>6. thread'.at \notin Busy \union {"refill"}
    BY <1>2 DEF Busy
<1>7. Showing'
    BY <1>1, <1>2, <1>3, <1>6 DEF Showing
<1>8. Places'
  <2>1. ~ mPreviewRunning' => cb' = None
      BY <1>1 DEF IInv, Places, frames, command
  <2> QED
      BY <1>1, <1>2, <1>6, <2>1 DEF Places
<1> QED
    BY <1>2, <1>3, <1>4, <1>5, <1>7, <1>8 DEF IInv
LEMMA FrameTaken == ASSUME IInv, ThreadFrame PROVE IInv'
<1>1. /\ Takes("FRAME")
      /\ UNCHANGED <<mDisplayState, sem, shared, frames, command>>
    BY DEF ThreadFrame
<1>2. /\ thread.at = "receive" /\ thread.frame = None
      /\ 1 \in DOMAIN Q /\ Head(Q) = Q[1] /\ Q[1].cmd = "FRAME" /\ Q[1] \in Messages
      /\ Q' \in Seq(Messages)
      /\ Len(Q') = Len(Q) - 1 /\ Len(Q) \in Nat /\ DOMAIN Q' = 1..(Len(Q) - 1)
      /\ \A i \in DOMAIN Q' : i + 1 \in DOMAIN Q /\ Q'[i] = Q[i + 1] /\ i + 1 # 1
      /\ \A i, j \in DOMAIN Q' : Q'[i].frame = Q'[j].frame /\ Q'[i].frame # None => i = j
      /\ Queued = Queued' \union {Q[1].frame}
      /\ Q[1].frame # None => Q[1].frame \notin Queued'
      /\ \A i \in DOMAIN Q : i = 1 \/ (i - 1 \in DOMAIN Q' /\ Q[i] = Q'[i - 1])
    BY <1>1, TakenKeeps
<1>3. mDisplayRuning = "RUNNING" /\ mANativeWindow # None
      /\ mDisplayBufInfo.win = mANativeWindow
    BY <1>2 DEF IInv, Showing
<1> DEFINE f == Q[1].frame
<1>4. f # None /\ f \in Frames /\ f # cb
    BY <1>2 DEF IInv, Places, Apart, Messages
<1>5. PICK a \in {"fill", "dequeue"} :
         /\ thread' = Thread(a, f) /\ mDisplayRuning' = mDisplayRuning
         /\ a = "fill" => mDisplayBufInfo.unused > 0
    BY <1>2, <1>3 DEF ThreadFrame, Q
<1>6. thread'.at = a /\ thread'.frame = f /\ a \in Busy
    BY <1>5 DEF Thread, Busy
<1>7. UNCHANGED <<mDisplayRuning, mDisplayState, sem, mANativeWindow, mDisplayBufInfo, window,
                  mFrameInfoArray, cb, mPreviewRunning, todo>>
    BY <1>1, <1>5 DEF shared, frames, command
<1> HIDE DEF f
<1>8. TypeOK'
  <2>1. displayThreadCommandQ' \in Seq(Messages)
      BY <1>2 DEF Q
  <2>2. thread' \in [at : {"fill", "dequeue"}, frame : Frames \union {None}]
      BY <1>4, <1>5 DEF Thread
  <2> QED
      BY <2>1, <2>2, <1>7 DEF IInv, TypeOK, Messages
<1>9. Ordered'
    BY <1>7 DEF IInv, Ordered, Planned, Starts, After, Windowed, Paused, Restarted, Stopped,
                Repeated
<1>10. Handshake'
  <2>1. \A i \in DOMAIN Q' : i \in Nat /\ (i \in Controls' <=> i + 1 \in Controls)
      BY <1>2 DEF Controls
  <2>2. OneControl'
    <3> SUFFICES ASSUME NEW i \in Controls', NEW j \in Controls' PROVE i = j
        BY DEF OneControl
    <3>1. i \in DOMAIN Q' /\ j \in DOMAIN Q'
        BY DEF Controls
    <3>2. i + 1 \in Controls /\ j + 1 \in Controls /\ i \in Nat /\ j \in Nat
        BY <2>1, <3>1
    <3>3. i + 1 = j + 1
        BY <3>2 DEF IInv, Handshake, OneControl
    <3> QED
        BY <3>2, <3>3
  <2>3. Controls' = {} <=> Controls = {}
    <3>1. ASSUME NEW i \in Controls PROVE i - 1 \in Controls'
      <4>1. i \in DOMAIN Q /\ Q[i].cmd # "FRAME" /\ i # 1
          BY <1>2 DEF Controls
      <4> QED
          BY <4>1, <1>2 DEF Controls
    <3>2. ASSUME NEW i \in Controls' PROVE i + 1 \in Controls
        BY <2>1 DEF Controls
    <3> QED
        BY <3>1, <3>2
  <2>4. Does("await")' <=> Does("await")
      BY <1>7 DEF Does
  <2>5. ASSUME NEW i \in DOMAIN Q'
        PROVE  /\ Q'[i].cmd \in {"PAUSE", "STOP"} => i = Len(Q') /\ mDisplayState \in Quiet
               /\ Q'[i].cmd = "START" => mANativeWindow # None
    <3>1. i + 1 \in DOMAIN Q /\ Q'[i] = Q[i + 1]
        BY <1>2
    <3>2. Q'[i].cmd \in {"PAUSE", "STOP"} => i + 1 = Len(Q) /\ mDisplayState \in Quiet
        BY <3>1 DEF IInv, Handshake
    <3>3. i + 1 = Len(Q) => i = Len(Q')
        BY <1>2
    <3> QED
        BY <3>1, <3>2, <3>3, <1>3
  <2> QED
      BY <2>2, <2>3, <2>4, <2>5, <1>7 DEF IInv, Handshake
<1>11. QuietNow'
  <2>1. \A i \in DOMAIN Q' : Q'[i].cmd = "START" => i + 1 \in DOMAIN Q /\ Q[i + 1].cmd = "START"
      BY <1>2
  <2>2. /\ NeedsQuiet(todo)' <=> NeedsQuiet(todo)
        /\ NeedsQuiet(Tail(todo))' <=> NeedsQuiet(Tail(todo))
        /\ Does("await")' <=> Does("await")
      BY <1>7 DEF NeedsQuiet, Does
  <2> QED
      BY <2>1, <2>2, <1>7 DEF IInv, QuietNow
<1>12. Showing'
    BY <1>3, <1>7 DEF Showing
<1>13. Places'
  <2>1. \A i \in DOMAIN Q' : Q'[i].cmd = "FRAME" <=> Q'[i].frame # None
      BY <1>2 DEF IInv, Places
  <2> QED
      BY <2>1, <1>4, <1>5, <1>6, <1>7 DEF IInv, Places
<1>14. Apart'
  <2>1. \A i \in DOMAIN Q' : Q'[i].frame # None => Q'[i].frame # cb
      BY <1>2 DEF IInv, Apart
  <2>2. \A i \in DOMAIN Q' : Q'[i].frame # f
      BY <1>2, <1>4 DEF Queued, Q, f
  <2> QED
      BY <2>1, <2>2, <1>2, <1>4, <1>6, <1>7 DEF Apart
<1>15. FramesKnown'
  <2>1. Shown = (Queued' \union {f, cb}) \ {None}
      BY <1>2 DEF Shown, f
  <2>2. Shown' = (Queued' \union {f, cb}) \ {None}
      BY <1>6, <1>7 DEF Shown
  <2> QED
      BY <2>1, <2>2, <1>7 DEF IInv, FramesKnown
<1>16. BuffersGivenBack'
    BY <1>7 DEF IInv, BuffersGivenBack
<1> QED
    BY <1>8, <1>9, <1>10, <1>11, <1>12, <1>13, <1>14, <1>15, <1>16 DEF IInv
LEMMA PutKeeps ==
    ASSUME IInv, NEW m \in Messages, Put(m)
    PROVE  /\ Q' \in Seq(Messages) /\ displayThreadCommandQ' \in Seq(Messages)
           /\ Len(Q') = Len(Q) + 1 /\ Len(Q) \in Nat
           /\ DOMAIN Q' = 1..(Len(Q) + 1) /\ DOMAIN Q = 1..Len(Q)
           /\ \A i \in DOMAIN Q : i \in DOMAIN Q' /\ Q'[i] = Q[i]
           /\ \A i \in DOMAIN Q' : i \in DOMAIN Q \/ i = Len(Q) + 1
           /\ Q'[Len(Q) + 1] = m
           /\ Queued' = Queued \union {m.frame}
           /\ thread' \in [at : {"receive", "dequeue", "busy", "await any", "fill", "return",
                                 "refill", "check", "wait", "exit"},
                           frame : Frames \union {None}]
           /\ thread'.frame = thread.frame
           /\ thread'.at \in Busy <=> thread.at \in Busy
           /\ \A a \in {"fill", "exit", "refill"} : thread'.at = a <=> thread.at = a
<1>1. Q \in Seq(Messages) /\ Q' = Append(Q, m) /\ thread' = Woken
    BY DEF Put, IInv, TypeOK, Q, Messages
<1>2. /\ Q' \in Seq(Messages)
      /\ Len(Q') = Len(Q) + 1
      /\ DOMAIN Q' = 1..(Len(Q) + 1) /\ DOMAIN Q = 1..Len(Q)
      /\ \A i \in DOMAIN Q : Q'[i] = Q[i]
      /\ Q'[Len(Q) + 1] = m
    BY <1>1, Put1
<1>3. Len(Q) \in Nat /\ displayThreadCommandQ' \in Seq(Messages)
    BY <1>1, <1>2 DEF Q
<1>4. \A i \in DOMAIN Q : i \in DOMAIN Q'
    BY <1>2, <1>3
<1>5. \A i \in DOMAIN Q' : i \in DOMAIN Q \/ i = Len(Q) + 1
    BY <1>2, <1>3
<1>6. Queued' = Queued \union {m.frame}
  <2>1. Queued = {Q[i].frame : i \in DOMAIN Q} /\ Queued' = {Q'[i].frame : i \in DOMAIN Q'}
      BY DEF Queued, Q
  <2>2. Len(Q) + 1 \in DOMAIN Q'
      BY <1>2, <1>3
  <2> QED
      BY <2>1, <2>2, <1>2, <1>4, <1>5
<1>7. thread \in [at : {"receive", "dequeue", "busy", "await any", "fill", "return",
                        "refill", "check", "wait", "exit"},
                  frame : Frames \union {None}]
    BY DEF IInv, TypeOK
<1>8. /\ thread' \in [at : {"receive", "dequeue", "busy", "await any", "fill", "return",
                            "refill", "check", "wait", "exit"},
                      frame : Frames \union {None}]
      /\ thread'.frame = thread.frame
      /\ thread'.at \in Busy <=> thread.at \in Busy
      /\ \A a \in {"fill", "exit", "refill"} : thread'.at = a <=> thread.at = a
    BY <1>1, <1>7 DEF Woken, Busy
<1> QED
    BY <1>2, <1>3, <1>4, <1>5, <1>6, <1>8

\* What the display holds is not touched by a message of the command thread.
LEMMA ControlPut ==
    ASSUME IInv, NEW cmd \in {"START", "PAUSE", "STOP"}, Put(Message(cmd, None)),
           Does("start") \/ Does("pause") \/ Does("stop"),
           Continue(<<Step("await")>>), Tail(todo) \in After("await"),
           cmd = "START" => mANativeWindow # None /\ ~ NeedsQuiet(Tail(todo)),
           mDisplayState' \in {"START_PREPARE"} \union Quiet,
           cmd # "START" => mDisplayState' \in Quiet,
           UNCHANGED <<mDisplayRuning, sem, shared, frames, mPreviewRunning>>
    PROVE  IInv'
<1> DEFINE m == Message(cmd, None)
<1>1. m \in Messages /\ m.cmd = cmd /\ m.frame = None
    BY DEF Message, Messages
<1>2. /\ Q' \in Seq(Messages) /\ displayThreadCommandQ' \in Seq(Messages)
      /\ Len(Q') = Len(Q) + 1 /\ Len(Q) \in Nat
      /\ DOMAIN Q' = 1..(Len(Q) + 1) /\ DOMAIN Q = 1..Len(Q)
      /\ \A i \in DOMAIN Q : i \in DOMAIN Q' /\ Q'[i] = Q[i]
      /\ \A i \in DOMAIN Q' : i \in DOMAIN Q \/ i = Len(Q) + 1
      /\ Q'[Len(Q) + 1] = m
      /\ Queued' = Queued \union {m.frame}
      /\ thread' \in [at : {"receive", "dequeue", "busy", "await any", "fill", "return",
                            "refill", "check", "wait", "exit"},
                      frame : Frames \union {None}]
      /\ thread'.frame = thread.frame
      /\ thread'.at \in Busy <=> thread.at \in Busy
      /\ \A a \in {"fill", "exit", "refill"} : thread'.at = a <=> thread.at = a
    BY <1>1, PutKeeps
<1> HIDE DEF m
<1>3. ~ Does("await") /\ ~ sem /\ Controls = {}
    BY DEF Does, IInv, Handshake
<1>4. UNCHANGED <<mDisplayRuning, sem, mANativeWindow, mDisplayBufInfo, window,
                  mFrameInfoArray, cb, mPreviewRunning>>
    BY DEF shared, frames
<1>5. Tail(todo) \in Seq(Steps) /\ todo \in Seq(Steps) /\ todo # <<>>
    BY Lists DEF IInv, Ordered, Planned, Does
<1>6. /\ todo' \in Seq(Steps) /\ todo' # <<>>
      /\ Head(todo') = Step("await") /\ Tail(todo') = Tail(todo)
    BY <1>5, StepsAre, Goes DEF Continue, Ops
<1>7. TypeOK'
    BY <1>2, <1>4 DEF IInv, TypeOK, Messages
<1>8. Ordered'
  <2>1. Planned(todo)'
      BY <1>6, StepsAre DEF Planned, Ops, After, Windowed, Paused, Restarted, Stopped, Repeated
  <2>2. Starts(todo)' => Starts(todo)
    <3>1. todo' = <<Step("await")>> \o Tail(todo)
        BY DEF Continue
    <3>2. Step("await").op # "start"
        BY DEF Step
    <3>3. \A i \in DOMAIN todo' : i # 1 => i \in DOMAIN todo /\ todo'[i] = todo[i]
        BY <1>5, <3>1
    <3>4. todo'[1] = Step("await")
        BY <1>6
    <3> QED
        BY <3>2, <3>3, <3>4 DEF Starts
  <2> QED
      BY <2>1, <2>2, <1>4 DEF IInv, Ordered
<1>9. Controls' = {Len(Q) + 1}
  <2>1. \A i \in DOMAIN Q : Q'[i].cmd = "FRAME"
      BY <1>2, <1>3 DEF Controls
  <2>2. Len(Q) + 1 \in DOMAIN Q' /\ Q'[Len(Q) + 1].cmd # "FRAME"
    <3>0. Len(Q) \in Nat
        BY <1>2
    <3>1. Len(Q) + 1 \in 1..(Len(Q) + 1)
        BY <3>0
    <3>2. Q'[Len(Q) + 1].cmd = cmd
        BY <1>1, <1>2
    <3> QED
        BY <3>1, <3>2, <1>2
  <2>3. Controls' = {i \in DOMAIN Q' : Q'[i].cmd # "FRAME"}
      BY DEF Controls
  <2> QED
      BY <2>1, <2>2, <2>3, <1>2
<1>10. Handshake'
  <2>1. Does("await")'
      BY <1>6 DEF Does, Step
  <2>2. \A i \in DOMAIN Q : Q'[i].cmd = "FRAME"
      BY <1>2, <1>3 DEF Controls
  <2>3. ASSUME NEW i \in DOMAIN Q'
        PROVE  /\ Q'[i].cmd \in {"PAUSE", "STOP"} => i = Len(Q') /\ mDisplayState' \in Quiet
               /\ Q'[i].cmd = "START" => mANativeWindow' # None
    <3>1. CASE i \in DOMAIN Q
        BY <3>1, <2>2
    <3>2. CASE i = Len(Q) + 1
        BY <3>2, <1>1, <1>2, <1>4
    <3> QED
        BY <3>1, <3>2, <1>2
  <2> QED
      BY <2>1, <2>3, <1>3, <1>4, <1>9 DEF Handshake, OneControl
<1>11. QuietNow'
  <2>1. ~ NeedsQuiet(todo)' /\ (NeedsQuiet(Tail(todo))' => NeedsQuiet(Tail(todo)))
    <3>1. Step("await").op \notin {"stop preview", "set to"}
        BY DEF Step
    <3>2. ~ NeedsQuiet(todo)'
        BY <3>1, <1>6 DEF NeedsQuiet
    <3>3. NeedsQuiet(Tail(todo))' <=> NeedsQuiet(Tail(todo))
        BY <1>4, <1>6 DEF NeedsQuiet
    <3> QED
        BY <3>2, <3>3
  <2>2. \A i \in DOMAIN Q' : Q'[i].cmd = "START" => cmd = "START"
      BY <1>1, <1>2, <1>9 DEF Controls
  <2> QED
      BY <2>1, <2>2, <1>3, <1>4 DEF QuietNow
<1>12. Showing'
  <2>1. (\A i \in DOMAIN Q : Q[i].cmd # "FRAME") => \A i \in DOMAIN Q' : Q'[i].cmd # "FRAME"
      BY <1>1, <1>2
  <2>2. thread.at \notin Busy \union {"refill"} => thread'.at \notin Busy \union {"refill"}
      BY <1>2
  <2> QED
      BY <2>1, <2>2, <1>4 DEF IInv, Showing
<1>13. Places'
  <2>1. \A i \in DOMAIN Q' : Q'[i].cmd = "FRAME" <=> Q'[i].frame # None
    <3>1. \A i \in DOMAIN Q : Q[i].cmd = "FRAME" <=> Q[i].frame # None
        BY DEF IInv, Places
    <3>2. m.cmd # "FRAME" /\ m.frame = None
        BY <1>1
    <3> QED
        BY <1>2, <3>1, <3>2
  <2>2. thread'.at \in Busy <=> thread'.frame # None
      BY <1>2 DEF IInv, Places
  <2>3. /\ thread'.at = "fill" => mDisplayBufInfo'.unused > 0
        /\ thread'.at = "exit" => mDisplayRuning' = "STOP"
        /\ ~ mPreviewRunning' => cb' = None
    <3>1. /\ thread'.at = "fill" <=> thread.at = "fill"
          /\ thread'.at = "exit" <=> thread.at = "exit"
        BY <1>2
    <3> QED
        BY <3>1, <1>4 DEF IInv, Places
  <2> QED
      BY <2>1, <2>2, <2>3 DEF Places
<1>14. Apart'
  <2>1. \A i \in DOMAIN Q' : Q'[i].frame # None => i \in DOMAIN Q
      BY <1>1, <1>2
  <2> QED
      BY <2>1, <1>2, <1>4 DEF IInv, Apart
<1>15. FramesKnown'
  <2>1. Shown' = Shown
      BY <1>1, <1>2, <1>4 DEF Shown
  <2> QED
      BY <2>1, <1>4 DEF IInv, FramesKnown
<1>16. BuffersGivenBack'
    BY <1>4 DEF IInv, BuffersGivenBack
<1> QED
    BY <1>7, <1>8, <1>10, <1>11, <1>12, <1>13, <1>14, <1>15, <1>16 DEF IInv
-----------------------------------------------------------------------------
(* bufferCb, the screen and the command thread                                *)

LEMMA BufferCbKeeps == ASSUME None \notin Frames, IInv, NEW f \in Frames, BufferCb(f) PROVE IInv'
<1>1. /\ mPreviewRunning /\ cb = None /\ f \notin mFrameInfoArray /\ f # None
      /\ mFrameInfoArray' = mFrameInfoArray \union {f} /\ cb' = f
      /\ UNCHANGED <<display, displayThreadCommandQ, thread, sem, shared, command>>
    BY DEF BufferCb
<1>2. Shown = mFrameInfoArray /\ Shown = (Queued \union {thread.frame, cb}) \ {None}
    BY DEF IInv, FramesKnown, Shown
<1>3. f # thread.frame /\ f \notin Queued
    BY <1>1, <1>2
<1>4. TypeOK'
    BY <1>1, TypeKept DEF IInv, display, shared, command
<1>5. Ordered' /\ Handshake' /\ QuietNow'
    BY <1>1, OthersAct DEF shared, command
<1>6. Showing' /\ Places' /\ BuffersGivenBack'
    BY <1>1 DEF IInv, Showing, Places, BuffersGivenBack, Q, display, shared, command
<1>7. Apart'
  <2>1. \A i \in DOMAIN Q : Q[i].frame # f
      BY <1>3 DEF Queued, Q
  <2> QED
      BY <2>1, <1>1, <1>3 DEF IInv, Apart, Q
<1>8. FramesKnown'
  <2>1. Shown' = (Queued \union {thread.frame, f}) \ {None}
      BY <1>1 DEF Shown, Queued
  <2> QED
      BY <2>1, <1>1, <1>2 DEF FramesKnown
<1> QED
    BY <1>4, <1>5, <1>6, <1>7, <1>8 DEF IInv

LEMMA ScreenKeeps == ASSUME IInv, NEW w \in Windows, Screen(w) PROVE IInv'
<1> DEFINE n == window[w].hal
           m == window[w].screen
<1>1. /\ m > 0 /\ window' = [window EXCEPT ![w].screen = @ - 1]
      /\ UNCHANGED <<display, displayThreadCommandQ, thread, sem, mANativeWindow,
                     mDisplayBufInfo, frames, command>>
    BY DEF Screen
<1>2. window[w] \in [hal : 0..BufNum, screen : 0..BufNum] /\ BufNum \in Nat
    BY DisplayAssumption DEF IInv, TypeOK
<1>3. n \in 0..BufNum /\ m - 1 \in 0..BufNum /\ n + (m - 1) <= BufNum
  <2>1. n \in 0..BufNum /\ m \in 0..BufNum /\ n + m <= BufNum
      BY <1>2 DEF IInv, TypeOK
  <2> HIDE DEF n, m
  <2> QED
      BY <2>1, <1>1, <1>2
<1>4. [window[w] EXCEPT !.screen = m - 1] = [hal |-> n, screen |-> m - 1]
    BY <1>2
<1>5. window' = [window EXCEPT ![w] = [hal |-> n, screen |-> m - 1]]
    BY <1>1, <1>4
<1>6. \A v \in Windows : window'[v] = IF v = w THEN [hal |-> n, screen |-> m - 1] ELSE window[v]
    BY <1>5 DEF IInv, TypeOK
<1>7. TypeOK'
  <2>1. window' \in [Windows -> [hal : 0..BufNum, screen : 0..BufNum]]
      BY <1>3, <1>5 DEF IInv, TypeOK
  <2>2. \A v \in Windows : window'[v].hal + window'[v].screen <= BufNum
    <3> TAKE v \in Windows
    <3>1. CASE v = w
        BY <3>1, <1>6, <1>3
    <3>2. CASE v # w
        BY <3>2, <1>6 DEF IInv, TypeOK
    <3> QED
        BY <3>1, <3>2
  <2>3. UNCHANGED <<mDisplayRuning, mDisplayState, displayThreadCommandQ, thread, sem,
                    mANativeWindow, mDisplayBufInfo, mFrameInfoArray, cb, mPreviewRunning>>
      BY <1>1 DEF display, frames, command
  <2>4. TypeOK
      BY DEF IInv
  <2>5. displayThreadCommandQ' = displayThreadCommandQ /\ thread' = thread
      BY <2>3
  <2>6. mDisplayRuning' = mDisplayRuning /\ mDisplayState' = mDisplayState
        /\ mANativeWindow' = mANativeWindow /\ mDisplayBufInfo' = mDisplayBufInfo
      BY <2>3
  <2>7. sem' = sem /\ mFrameInfoArray' = mFrameInfoArray /\ cb' = cb
        /\ mPreviewRunning' = mPreviewRunning
      BY <2>3
  <2> QED
    <3>1. displayThreadCommandQ' \in Seq([cmd : {"START", "PAUSE", "STOP", "FRAME"},
                                           frame : Frames \union {None}])
        BY <2>4, <2>5 DEF TypeOK
    <3>2. thread' \in [at : {"receive", "dequeue", "busy", "await any", "fill", "return",
                             "refill", "check", "wait", "exit"},
                       frame : Frames \union {None}]
        BY <2>4, <2>5 DEF TypeOK
    <3>3. mDisplayBufInfo' \in [win : Windows \union {None}, unused : 0..BufNum]
        BY <2>4, <2>6 DEF TypeOK
    <3>4. /\ mDisplayRuning' \in {None, "RUNNING", "PAUSE", "STOP"}
          /\ mDisplayState' \in {None, "START_PREPARE", "START_DONE"} \union Quiet
          /\ mANativeWindow' \in Windows \union {None}
        BY <2>4, <2>6 DEF TypeOK
    <3>5. sem' \in BOOLEAN /\ mFrameInfoArray' \subseteq Frames
          /\ cb' \in Frames \union {None} /\ mPreviewRunning' \in BOOLEAN
        BY <2>4, <2>7 DEF TypeOK
    <3> QED
        BY <2>1, <2>2, <3>1, <3>2, <3>3, <3>4, <3>5 DEF TypeOK
<1>8. Ordered' /\ Handshake' /\ QuietNow'
    BY <1>1, OthersAct DEF command
<1>9. Showing' /\ Places' /\ Apart'
    BY <1>1 DEF IInv, Showing, Places, Apart, Q, display, frames, command
<1>10. FramesKnown'
    BY <1>1 DEF IInv, FramesKnown, Shown, Queued, frames
<1>11. BuffersGivenBack'
  <2>1. \A v \in Windows : window'[v].hal = window[v].hal
      BY <1>6
  <2> QED
      BY <2>1, <1>1 DEF IInv, BuffersGivenBack
<1> QED
    BY <1>7, <1>8, <1>9, <1>10, <1>11 DEF IInv

LEMMA NotifyKeeps == ASSUME IInv, notifyNewFrame PROVE IInv'
<1>1. /\ cb # None /\ cb \in Frames /\ cb' = None
      /\ UNCHANGED <<display, sem, shared, command>>
    BY DEF notifyNewFrame, IInv, TypeOK
<1>2. UNCHANGED <<mDisplayRuning, mDisplayState, sem, mANativeWindow, mDisplayBufInfo, window,
                  mPreviewRunning, todo>>
    BY <1>1 DEF display, shared, command
<1>3. cb \notin Queued /\ cb # thread.frame
    BY <1>1 DEF IInv, Apart, Queued, Q
<1>4. Shown = mFrameInfoArray /\ Shown = (Queued \union {thread.frame, cb}) \ {None}
    BY DEF IInv, FramesKnown, Shown
<1>5. CASE returnFrame(cb) /\ UNCHANGED <<displayThreadCommandQ, thread>>
  <2>1. mFrameInfoArray' = mFrameInfoArray \ {cb}
      BY <1>5 DEF returnFrame
  <2>2. TypeOK'
      BY <1>1, <1>2, <1>5, <2>1, TypeKept DEF IInv
  <2>3. Ordered' /\ Handshake' /\ QuietNow'
      BY <1>1, <1>2, <1>5, OthersAct
  <2>4. Showing' /\ Places' /\ Apart'
      BY <1>1, <1>2, <1>5 DEF IInv, Showing, Places, Apart, Q
  <2>5. FramesKnown'
    <3>1. Shown' = (Queued \union {thread.frame, None}) \ {None}
        BY <1>1, <1>5 DEF Shown, Queued
    <3> QED
        BY <3>1, <2>1, <1>3, <1>4 DEF FramesKnown
  <2>6. BuffersGivenBack'
      BY <1>2 DEF IInv, BuffersGivenBack
  <2> QED
      BY <2>2, <2>3, <2>4, <2>5, <2>6 DEF IInv
<1>6. CASE /\ mDisplayRuning = "RUNNING" /\ mDisplayState \notin Quiet
           /\ Put(Message("FRAME", cb)) /\ UNCHANGED mFrameInfoArray
  <2> DEFINE m == Message("FRAME", cb)
  <2>1. m \in Messages /\ m.cmd = "FRAME" /\ m.frame = cb
      BY <1>1 DEF Message, Messages
  <2>2. /\ Q' \in Seq(Messages) /\ displayThreadCommandQ' \in Seq(Messages)
        /\ Len(Q') = Len(Q) + 1 /\ Len(Q) \in Nat
        /\ DOMAIN Q' = 1..(Len(Q) + 1) /\ DOMAIN Q = 1..Len(Q)
        /\ \A i \in DOMAIN Q : i \in DOMAIN Q' /\ Q'[i] = Q[i]
        /\ \A i \in DOMAIN Q' : i \in DOMAIN Q \/ i = Len(Q) + 1
        /\ Q'[Len(Q) + 1] = m
        /\ Queued' = Queued \union {m.frame}
        /\ thread' \in [at : {"receive", "dequeue", "busy", "await any", "fill", "return",
                              "refill", "check", "wait", "exit"},
                        frame : Frames \union {None}]
        /\ thread'.frame = thread.frame
        /\ thread'.at \in Busy <=> thread.at \in Busy
        /\ \A a \in {"fill", "exit", "refill"} : thread'.at = a <=> thread.at = a
      BY <1>6, <2>1, PutKeeps
  <2> HIDE DEF m
  <2>3. TypeOK'
      BY <1>1, <1>2, <1>6, <2>2 DEF IInv, TypeOK, Messages
  <2>4. Ordered'
      BY <1>2 DEF IInv, Ordered, Planned, Starts, After, Windowed, Paused, Restarted, Stopped,
                  Repeated
  <2>5. Controls' = Controls
    <3>1. Q'[Len(Q) + 1].cmd = "FRAME"
        BY <2>1, <2>2
    <3>2. Controls = {i \in DOMAIN Q : Q[i].cmd # "FRAME"}
          /\ Controls' = {i \in DOMAIN Q' : Q'[i].cmd # "FRAME"}
        BY DEF Controls
    <3> QED
        BY <3>1, <3>2, <2>2
  <2>6. Handshake'
    <3>1. Does("await")' <=> Does("await")
        BY <1>2 DEF Does
    <3>2. \A i \in DOMAIN Q : Q[i].cmd \notin {"PAUSE", "STOP"}
        BY <1>6 DEF IInv, Handshake
    <3>3. \A i \in DOMAIN Q' : /\ Q'[i].cmd \notin {"PAUSE", "STOP"}
                               /\ Q'[i].cmd = "START" => mANativeWindow # None
        BY <3>2, <2>1, <2>2 DEF IInv, Handshake
    <3> QED
        BY <3>1, <3>3, <2>5, <1>2 DEF IInv, Handshake, OneControl
  <2>7. QuietNow'
    <3>1. /\ NeedsQuiet(todo)' <=> NeedsQuiet(todo)
          /\ NeedsQuiet(Tail(todo))' <=> NeedsQuiet(Tail(todo))
          /\ Does("await")' <=> Does("await")
        BY <1>2 DEF NeedsQuiet, Does
    <3>2. \A i \in DOMAIN Q' : Q'[i].cmd = "START" => i \in DOMAIN Q /\ Q[i].cmd = "START"
        BY <2>1, <2>2
    <3> QED
        BY <3>1, <3>2, <1>2 DEF IInv, QuietNow
  <2>8. Showing'
      BY <1>2, <1>6 DEF IInv, Showing
  <2>9. Places'
    <3>1. \A i \in DOMAIN Q' : Q'[i].cmd = "FRAME" <=> Q'[i].frame # None
        BY <1>1, <2>1, <2>2 DEF IInv, Places
    <3>2. thread'.at \in Busy <=> thread'.frame # None
        BY <2>2 DEF IInv, Places
    <3>3. /\ thread'.at = "fill" <=> thread.at = "fill"
          /\ thread'.at = "exit" <=> thread.at = "exit"
        BY <2>2
    <3> QED
        BY <3>1, <3>2, <3>3, <1>1, <1>2 DEF IInv, Places
  <2>10. Apart'
    <3>1. \A i \in DOMAIN Q : Q[i].frame # cb
        BY <1>3 DEF Queued, Q
    <3>2. \A i \in DOMAIN Q' : \/ i \in DOMAIN Q /\ Q'[i] = Q[i]
                               \/ i = Len(Q) + 1 /\ Q'[i].frame = cb
        BY <2>1, <2>2
    <3>3. \A i, j \in DOMAIN Q' : Q'[i].frame = Q'[j].frame /\ Q'[i].frame # None => i = j
        BY <3>1, <3>2 DEF IInv, Apart
    <3>4. \A i \in DOMAIN Q' : Q'[i].frame # None => Q'[i].frame # thread.frame
        BY <3>2, <1>3 DEF IInv, Apart
    <3> QED
        BY <3>3, <3>4, <2>2, <1>1 DEF Apart
  <2>11. FramesKnown'
    <3>1. Shown' = (Queued \union {cb, thread.frame, None}) \ {None}
        BY <1>1, <2>1, <2>2 DEF Shown
    <3> QED
        BY <3>1, <1>4, <1>6 DEF FramesKnown
  <2>12. BuffersGivenBack'
      BY <1>2 DEF IInv, BuffersGivenBack
  <2> QED
      BY <2>3, <2>4, <2>6, <2>7, <2>8, <2>9, <2>10, <2>11, <2>12 DEF IInv
<1> QED
    BY <1>5, <1>6 DEF notifyNewFrame
LEMMA TailOf ==
    ASSUME IInv, todo # <<>>
    PROVE  /\ todo \in Seq(Steps) /\ Tail(todo) \in Seq(Steps) /\ Head(todo) \in Steps
           /\ Tail(todo) \in After(Head(todo).op) /\ Planned(Tail(todo))
           /\ Tail(todo) # <<>> => Head(Tail(todo)).op # "await"
           /\ Starts(Tail(todo)) => Starts(todo)
           /\ Head(todo).op = "start" => Starts(todo)
           /\ <<>> \o Tail(todo) = Tail(todo)
<1>1. todo \in Seq(Steps) /\ Tail(todo) \in After(Head(todo).op)
    BY DEF IInv, Ordered, Planned
<1>2. Planned(Tail(todo)) /\ (Tail(todo) # <<>> => Head(Tail(todo)).op # "await")
    BY <1>1, Lists
<1>3. /\ Tail(todo) \in Seq(Steps)
      /\ Head(todo) = todo[1] /\ 1 \in DOMAIN todo /\ Head(todo) \in Steps
      /\ \A i \in DOMAIN Tail(todo) : i + 1 \in DOMAIN todo /\ Tail(todo)[i] = todo[i + 1]
    BY <1>1, Take1
<1>4. <<>> \o Tail(todo) = Tail(todo)
    BY <1>3
<1> QED
    BY <1>1, <1>2, <1>3, <1>4 DEF Starts

LEMMA Pushed ==
    ASSUME NEW s \in Steps, NEW t \in After(s.op)
    PROVE  /\ Planned(<<s>> \o t) /\ <<s>> \o t # <<>> /\ Head(<<s>> \o t) = s
           /\ Starts(<<s>> \o t) => s.op = "start" \/ Starts(t)
<1>1. t \in Seq(Steps)
    BY Lists DEF Planned
<1>2. /\ <<s>> \o t \in Seq(Steps) /\ <<s>> \o t # <<>>
      /\ Head(<<s>> \o t) = s /\ Tail(<<s>> \o t) = t
    BY <1>1, Goes
<1>3. \A i \in DOMAIN (<<s>> \o t) : i = 1 \/ (i - 1 \in DOMAIN t /\ (<<s>> \o t)[i] = t[i - 1])
    BY <1>1
<1>4. (<<s>> \o t)[1] = s
    BY <1>1
<1> QED
    BY <1>2, <1>3, <1>4 DEF Planned, Starts

LEMMA TodoIs ==
    ASSUME IInv, Controls = {}, sem' = FALSE, UNCHANGED <<display, displayThreadCommandQ>>,
           Planned(todo'), todo' # <<>> => Head(todo').op # "await",
           Starts(todo') => mANativeWindow' # None,
           NeedsQuiet(todo)' => mDisplayRuning # "RUNNING"
    PROVE  Ordered' /\ Handshake' /\ QuietNow'
<1>1. Ordered'
    BY DEF Ordered, Planned, Starts, After, Windowed, Paused, Restarted, Stopped, Repeated
<1>2. ~ Does("await")'
    BY DEF Does
<1>3. Handshake'
  <2>1. Controls' = {} /\ Q' = Q
      BY DEF Controls, Q
  <2>2. \A i \in DOMAIN Q : Q[i].cmd = "FRAME"
      BY DEF Controls
  <2> QED
      BY <1>2, <2>1, <2>2 DEF Handshake, OneControl
<1>4. QuietNow'
    BY <1>2 DEF QuietNow, display
<1> QED
    BY <1>1, <1>3, <1>4

\* The command thread has done with a step, or puts another before the rest.
LEMMA StepDone ==
    ASSUME IInv, todo # <<>>, Controls = {}, sem' = FALSE,
           NeedsQuiet(Tail(todo)) => mDisplayRuning # "RUNNING",
           Continue(<<>>),
           UNCHANGED <<display, displayThreadCommandQ, mANativeWindow>>
    PROVE  Ordered' /\ Handshake' /\ QuietNow'
<1>1. todo' = Tail(todo)
    BY TailOf DEF Continue
<1>2. NeedsQuiet(todo)' <=> NeedsQuiet(Tail(todo))
    BY <1>1 DEF NeedsQuiet
<1>3. Starts(todo') => mANativeWindow' # None
    BY <1>1, TailOf DEF IInv, Ordered
<1>4. Planned(todo') /\ (todo' # <<>> => Head(todo').op # "await")
    BY <1>1, TailOf
<1> QED
    BY <1>2, <1>3, <1>4, TodoIs

LEMMA StepAdded ==
    ASSUME IInv, todo # <<>>, Controls = {}, sem' = FALSE,
           NEW s \in Steps, s.op # "await", Tail(todo) \in After(s.op),
           s.op = "start" => mANativeWindow # None,
           s.op = "stop preview" \/ (s.op = "set to" /\ s.win # mANativeWindow)
             => mDisplayRuning # "RUNNING",
           Continue(<<s>>),
           UNCHANGED <<display, displayThreadCommandQ, mANativeWindow>>
    PROVE  Ordered' /\ Handshake' /\ QuietNow'
<1>1. todo' = <<s>> \o Tail(todo)
    BY DEF Continue
<1>2. /\ Planned(todo') /\ todo' # <<>> /\ Head(todo') = s
      /\ Starts(todo') => s.op = "start" \/ Starts(Tail(todo))
    BY <1>1, Pushed
<1>3. Starts(todo') => mANativeWindow' # None
    BY <1>2, TailOf DEF IInv, Ordered
<1>4. NeedsQuiet(todo)' => mDisplayRuning # "RUNNING"
    BY <1>2 DEF NeedsQuiet
<1> QED
    BY <1>2, <1>3, <1>4, TodoIs

LEMMA Unasked == ASSUME IInv, ~ Does("await") PROVE Controls = {} /\ sem = FALSE
BY DEF IInv, Handshake, TypeOK

LEMMA StartDisplayKeeps == ASSUME IInv, startDisplay PROVE IInv'
<1>1. /\ Does("start") /\ mDisplayState' = "START_PREPARE"
      /\ Put(Message("START", None)) /\ Continue(<<Step("await")>>)
      /\ UNCHANGED <<mDisplayRuning, sem, shared, frames, mPreviewRunning>>
    BY DEF startDisplay
<1>2. todo # <<>> /\ Head(todo).op = "start"
    BY <1>1 DEF Does
<1>3. Tail(todo) = <<>> /\ mANativeWindow # None
    BY <1>2, TailOf DEF After, IInv, Ordered
<1>4. Tail(todo) \in After("await") /\ ~ NeedsQuiet(Tail(todo))
    BY <1>3 DEF After, Paused, NeedsQuiet
<1> QED
    BY <1>1, <1>3, <1>4, ControlPut

LEMMA TellsKeeps ==
    ASSUME IInv, pauseDisplay \/ stopDisplay
    PROVE  IInv'
<1>1. PICK op \in {"pause", "stop"}, cmd \in {"PAUSE", "STOP"}, prepare \in Quiet :
         Does(op) /\ Tells(cmd, prepare)
    BY DEF pauseDisplay, stopDisplay, Quiet
<1>2. /\ todo # <<>> /\ Head(todo).op = op /\ ~ Does("await")
      /\ UNCHANGED <<mDisplayRuning, sem, shared, frames, mPreviewRunning>>
    BY <1>1 DEF Does, Tells
<1>3. CASE /\ mDisplayRuning = cmd /\ Continue(<<>>)
           /\ UNCHANGED <<mDisplayState, displayThreadCommandQ, thread>>
  <2>1. Controls = {} /\ sem' = FALSE
      BY <1>2, Unasked
  <2>2. Ordered' /\ Handshake' /\ QuietNow'
      BY <1>2, <1>3, <2>1, StepDone DEF display, shared
  <2>3. TypeOK' /\ Showing' /\ Places' /\ Apart' /\ FramesKnown' /\ BuffersGivenBack'
      BY <1>2, <1>3, <2>1, CommandActs DEF display
  <2> QED
      BY <2>2, <2>3 DEF IInv
<1>4. CASE /\ mDisplayState' = prepare /\ Put(Message(cmd, None))
           /\ Continue(<<Step("await")>>)
  <2>1. Tail(todo) \in After("await")
      BY <1>2, TailOf DEF After
  <2>2. mDisplayState' \in Quiet
      BY <1>4
  <2> QED
      BY <1>1, <1>2, <1>4, <2>1, <2>2, ControlPut
<1> QED
    BY <1>1, <1>3, <1>4 DEF Tells

LEMMA AwaitKeeps == ASSUME IInv, Await PROVE IInv'
<1>1. /\ Does("await") /\ sem /\ sem' = FALSE /\ Continue(<<>>)
      /\ UNCHANGED <<display, displayThreadCommandQ, thread, shared, frames, mPreviewRunning>>
    BY DEF Await
<1>2. Controls = {} /\ todo # <<>>
    BY <1>1 DEF IInv, Handshake, Does
<1>3. NeedsQuiet(Tail(todo)) => mDisplayRuning # "RUNNING"
    BY <1>1 DEF IInv, QuietNow
<1>4. Ordered' /\ Handshake' /\ QuietNow'
    BY <1>1, <1>2, <1>3, StepDone DEF shared
<1>5. TypeOK' /\ Showing' /\ Places' /\ Apart' /\ FramesKnown' /\ BuffersGivenBack'
    BY <1>1, CommandActs
<1> QED
    BY <1>4, <1>5 DEF IInv
LEMMA AskKeeps == ASSUME IInv, Ask PROVE IInv'
<1>1. /\ todo # <<>> /\ ~ Does("await")
      /\ UNCHANGED <<display, displayThreadCommandQ, thread, sem, shared, frames,
                     mPreviewRunning>>
    BY DEF Ask, Does
<1>2. Controls = {} /\ sem' = FALSE
    BY <1>1, Unasked
<1>3. UNCHANGED <<display, displayThreadCommandQ, mANativeWindow>>
    BY <1>1 DEF shared
<1>4. Ordered' /\ Handshake' /\ QuietNow'
  <2>1. CASE /\ Does("pause if running")
             /\ Continue(IF mDisplayRuning = "RUNNING" THEN <<Step("pause")>> ELSE <<>>)
    <3>1. Tail(todo) \in After("pause")
        BY <1>1, <2>1, TailOf DEF Does, After
    <3>2. Step("pause") \in Steps /\ Step("pause").op = "pause"
        BY StepsAre DEF Ops
    <3>3. CASE mDisplayRuning = "RUNNING"
      <4>1. Continue(<<Step("pause")>>)
          BY <2>1, <3>3
      <4> QED
          BY <1>1, <1>2, <1>3, <3>1, <3>2, <4>1, StepAdded
    <3>4. CASE mDisplayRuning # "RUNNING"
      <4>1. Continue(<<>>)
          BY <2>1, <3>4
      <4> QED
          BY <1>1, <1>2, <1>3, <3>4, <4>1, StepDone
    <3> QED
        BY <3>3, <3>4
  <2>2. ASSUME Does("start if window") \/ Does("start if preview"),
               NEW c \in BOOLEAN, c => mANativeWindow # None,
               Continue(IF c THEN <<Step("start")>> ELSE <<>>)
        PROVE  Ordered' /\ Handshake' /\ QuietNow'
    <3>1. Tail(todo) = <<>>
        BY <1>1, <2>2, TailOf DEF Does, After
    <3>2. Step("start") \in Steps /\ Step("start").op = "start"
        BY StepsAre DEF Ops
    <3>3. Tail(todo) \in After("start") /\ ~ NeedsQuiet(Tail(todo))
        BY <3>1 DEF After, NeedsQuiet
    <3>4. CASE c
      <4>1. Continue(<<Step("start")>>) /\ mANativeWindow # None
          BY <2>2, <3>4
      <4> QED
          BY <1>1, <1>2, <1>3, <3>2, <3>3, <4>1, StepAdded
    <3>5. CASE ~ c
      <4>1. Continue(<<>>)
          BY <2>2, <3>5
      <4> QED
          BY <1>1, <1>2, <1>3, <3>3, <4>1, StepDone
    <3> QED
        BY <3>4, <3>5
  <2>3. CASE /\ Does("start if window")
             /\ Continue(IF mANativeWindow # None /\ mDisplayRuning # "RUNNING"
                         THEN <<Step("start")>> ELSE <<>>)
    <3> DEFINE c == mANativeWindow # None /\ mDisplayRuning # "RUNNING"
    <3>1. c \in BOOLEAN /\ (c => mANativeWindow # None)
        OBVIOUS
    <3>2. Continue(IF c THEN <<Step("start")>> ELSE <<>>) /\ Does("start if window")
        BY <2>3
    <3> HIDE DEF c
    <3> QED
        BY <3>1, <3>2, <2>2
  <2>4. CASE /\ Does("start if preview")
             /\ Continue(IF mANativeWindow # None /\ mPreviewRunning
                         THEN <<Step("start")>> ELSE <<>>)
    <3> DEFINE c == mANativeWindow # None /\ mPreviewRunning
    <3>1. c \in BOOLEAN /\ (c => mANativeWindow # None)
        OBVIOUS
    <3>2. Continue(IF c THEN <<Step("start")>> ELSE <<>>) /\ Does("start if preview")
        BY <2>4
    <3> HIDE DEF c
    <3> QED
        BY <3>1, <3>2, <2>2
  <2> QED
      BY <2>1, <2>3, <2>4 DEF Ask
<1>5. TypeOK' /\ Showing' /\ Places' /\ Apart' /\ FramesKnown' /\ BuffersGivenBack'
    BY <1>1, <1>2, CommandActs
<1> QED
    BY <1>4, <1>5 DEF IInv

LEMMA JoinedTwo == ASSUME NEW S, NEW a \in S, NEW b \in S
                   PROVE  <<a>> \o <<b>> = <<a, b>>
<1> DEFINE s == <<a>> \o <<b>>
           t == <<a, b>>
<1>1. s \in Seq(S) /\ Len(s) = 2 /\ s[1] = a /\ s[2] = b
    OBVIOUS
<1>2. t \in Seq(S) /\ Len(t) = 2 /\ t[1] = a /\ t[2] = b
    OBVIOUS
<1> HIDE DEF s, t
<1>3. \A i \in 1..Len(s) : i = 1 \/ i = 2
    BY <1>1
<1>4. s = t
    BY <1>1, <1>2, <1>3, SeqEqual
<1> QED
    BY <1>4 DEF s, t

LEMMA Joined == ASSUME NEW S, NEW a \in S, NEW b \in S, NEW c \in S
                PROVE  /\ <<a, b>> \o <<c>> = <<a, b, c>>
                       /\ <<a>> \o <<b, c>> = <<a, b, c>>
<1>2. <<a, b>> \o <<c>> = <<a, b, c>>
  <2> DEFINE s == <<a, b>> \o <<c>>
             t == <<a, b, c>>
  <2>1. s \in Seq(S) /\ Len(s) = 3 /\ s[1] = a /\ s[2] = b /\ s[3] = c
      OBVIOUS
  <2>2. t \in Seq(S) /\ Len(t) = 3 /\ t[1] = a /\ t[2] = b /\ t[3] = c
      OBVIOUS
  <2> HIDE DEF s, t
  <2>3. \A i \in 1..Len(s) : i = 1 \/ i = 2 \/ i = 3
      BY <2>1
  <2>4. s = t
      BY <2>1, <2>2, <2>3, SeqEqual
  <2> QED
      BY <2>4 DEF s, t
<1>3. <<a>> \o <<b, c>> = <<a, b, c>>
  <2> DEFINE s == <<a>> \o <<b, c>>
             t == <<a, b, c>>
  <2>1. s \in Seq(S) /\ Len(s) = 3 /\ s[1] = a /\ s[2] = b /\ s[3] = c
      OBVIOUS
  <2>2. t \in Seq(S) /\ Len(t) = 3 /\ t[1] = a /\ t[2] = b /\ t[3] = c
      OBVIOUS
  <2> HIDE DEF s, t
  <2>3. \A i \in 1..Len(s) : i = 1 \/ i = 2 \/ i = 3
      BY <2>1
  <2>4. s = t
      BY <2>1, <2>2, <2>3, SeqEqual
  <2> QED
      BY <2>4 DEF s, t
<1> QED
    BY <1>2, <1>3

LEMMA StartsShort ==
    /\ ~ Starts(<<>>)
    /\ \A a : Starts(<<a>>) => a.op = "start"
    /\ \A a, b : Starts(<<a, b>>) => a.op = "start" \/ b.op = "start"
    /\ \A a, b, c : Starts(<<a, b, c>>) => \/ a.op = "start" \/ b.op = "start"
                                          \/ c.op = "start"
BY DEF Starts

LEMMA SetsWindowKeeps == ASSUME IInv, SetsWindow PROVE IInv'
<1> DEFINE w == Head(todo).win
           rest == <<Step("start if preview")>>
<1>1. /\ todo # <<>> /\ Head(todo).op = "set window" /\ ~ Does("await")
      /\ UNCHANGED <<display, displayThreadCommandQ, thread, sem, shared, frames,
                     mPreviewRunning>>
      /\ Continue((IF w # mANativeWindow /\ mANativeWindow # None
                   THEN <<Step("pause")>> ELSE <<>>) \o <<SetTo(w)>>)
    BY DEF SetsWindow, Does
<1>2. Controls = {} /\ sem' = FALSE
    BY <1>1, Unasked
<1>3. w \in Windows \union {None} /\ Tail(todo) = rest
    BY <1>1, TailOf DEF Steps, After
<1> HIDE DEF w
<1>4. SetTo(w) \in Steps /\ SetTo(w).op = "set to" /\ SetTo(w).win = w
    BY <1>3, StepsAre
<1>5. UNCHANGED <<display, displayThreadCommandQ, mANativeWindow>>
    BY <1>1 DEF shared
<1>6. Ordered' /\ Handshake' /\ QuietNow'
  <2>1. CASE w # mANativeWindow /\ mANativeWindow # None
    <3> DEFINE s == Step("pause")
               t == <<SetTo(w)>> \o rest
    <3>1. s \in Steps /\ s.op = "pause" /\ Step("start if preview") \in Steps
          /\ Step("start if preview").op = "start if preview"
        BY StepsAre DEF Ops
    <3>2. t = <<SetTo(w), Step("start if preview")>>
        BY <1>4, <3>1, JoinedTwo
    <3>3. t \in Paused
        BY <1>3, <3>2 DEF Paused, Windowed
    <3>4. t \in After(s.op)
        BY <3>1, <3>3 DEF After
    <3>5. ~ Starts(t)
        BY <1>4, <3>1, <3>2, StartsShort
    <3>6. todo' = <<s>> \o t
      <4>1. Continue(<<s>> \o <<SetTo(w)>>)
          BY <1>1, <2>1
      <4>2. todo' = (<<s>> \o <<SetTo(w)>>) \o <<Step("start if preview")>>
          BY <4>1, <1>3 DEF Continue
      <4> QED
        <5>1. (<<s>> \o <<SetTo(w)>>) \o <<Step("start if preview")>>
                = <<s>> \o (<<SetTo(w)>> \o <<Step("start if preview")>>)
          <6>1. \A a, b, c \in Steps : (<<a>> \o <<b>>) \o <<c>> = <<a>> \o (<<b>> \o <<c>>)
              BY Short1, ConcatAssociative
          <6>2. s \in Steps /\ SetTo(w) \in Steps /\ Step("start if preview") \in Steps
              BY <1>4, <3>1
          <6> HIDE DEF s, t
          <6> QED
              BY <6>1, <6>2
        <5> QED
            BY <4>2, <5>1
    <3> HIDE DEF s, t
    <3>7. /\ Planned(todo') /\ todo' # <<>> /\ Head(todo') = s
          /\ Starts(todo') => s.op = "start" \/ Starts(t)
        BY <3>1, <3>4, <3>6, Pushed
    <3>8. ~ NeedsQuiet(todo)'
        BY <3>1, <3>7 DEF NeedsQuiet
    <3> QED
        BY <1>2, <1>5, <3>1, <3>5, <3>7, <3>8, TodoIs
  <2>2. CASE ~ (w # mANativeWindow /\ mANativeWindow # None)
    <3>1. <<>> \o <<SetTo(w)>> = <<SetTo(w)>>
        OBVIOUS
    <3>2. Continue(<<SetTo(w)>>)
        BY <1>1, <2>2, <3>1
    <3>3. w # mANativeWindow => mDisplayRuning # "RUNNING"
        BY <2>2 DEF IInv, Showing
    <3>4. Tail(todo) \in After("set to")
        BY <1>3 DEF After
    <3> HIDE DEF rest
    <3> QED
        BY <1>1, <1>2, <1>4, <1>5, <3>2, <3>3, <3>4, StepAdded
  <2> QED
      BY <2>1, <2>2
<1>7. TypeOK' /\ Showing' /\ Places' /\ Apart' /\ FramesKnown' /\ BuffersGivenBack'
    BY <1>1, <1>2, CommandActs
<1> QED
    BY <1>6, <1>7 DEF IInv

LEMMA SetsToKeeps == ASSUME IInv, SetsTo PROVE IInv'
<1>1. /\ todo # <<>> /\ Head(todo).op = "set to" /\ ~ Does("await")
      /\ mANativeWindow' = Head(todo).win /\ Continue(<<>>)
      /\ UNCHANGED <<mDisplayRuning, mDisplayState, displayThreadCommandQ, thread, sem,
                     mDisplayBufInfo, window, mFrameInfoArray, cb, mPreviewRunning>>
    BY DEF SetsTo, Does, display, frames
<1>2. Controls = {} /\ sem' = FALSE
    BY <1>1, Unasked
<1>3. Tail(todo) = <<Step("start if preview")>> /\ mANativeWindow' \in Windows \union {None}
      /\ todo' = Tail(todo)
    BY <1>1, TailOf DEF Steps, After, Continue
<1>4. mANativeWindow' = mANativeWindow \/ mDisplayRuning # "RUNNING"
    BY <1>1 DEF IInv, QuietNow, NeedsQuiet
<1>5. Ordered' /\ Handshake' /\ QuietNow'
  <2>1. Step("start if preview") \in Steps /\ Step("start if preview").op = "start if preview"
      BY StepsAre DEF Ops
  <2>2. Head(todo') = Step("start if preview") /\ todo' # <<>>
      BY <1>3, <2>1, Short1
  <2>3. Planned(todo')
      BY <1>1, <1>3, TailOf
  <2>4. ~ Starts(todo')
      BY <1>3, <2>1, StartsShort
  <2>5. ~ NeedsQuiet(todo)'
      BY <2>1, <2>2 DEF NeedsQuiet
  <2> QED
      BY <1>1, <1>2, <2>1, <2>2, <2>3, <2>4, <2>5, TodoIs DEF display
<1>6. TypeOK'
    BY <1>1, <1>2, <1>3, TypeKept DEF IInv
<1>7. Showing'
    BY <1>1, <1>4 DEF IInv, Showing, Q
<1>8. Places' /\ Apart'
    BY <1>1 DEF IInv, Places, Apart, Q
<1>9. FramesKnown'
    BY <1>1 DEF IInv, FramesKnown, Shown, Queued
<1>10. BuffersGivenBack'
  <2>1. mDisplayBufInfo.win \in {None, mANativeWindow'}
      BY <1>4 DEF IInv, Showing, BuffersGivenBack, NoBuffers, Buffers
  <2> QED
      BY <2>1, <1>1 DEF IInv, BuffersGivenBack
<1> QED
    BY <1>5, <1>6, <1>7, <1>8, <1>9, <1>10 DEF IInv
LEMMA StopPreviewKeeps == ASSUME IInv, stopPreview PROVE IInv'
<1>1. /\ todo # <<>> /\ Head(todo).op = "stop preview" /\ ~ Does("await")
      /\ cb = None /\ mPreviewRunning' = FALSE /\ Continue(<<>>)
      /\ mFrameInfoArray' = {} \/ mFrameInfoArray' = mFrameInfoArray
      /\ UNCHANGED <<display, displayThreadCommandQ, thread, sem, shared, cb>>
    BY DEF stopPreview, Does, clearFrameArray
<1>2. Controls = {} /\ sem' = FALSE
    BY <1>1, Unasked
<1>3. mDisplayRuning # "RUNNING"
    BY <1>1 DEF IInv, QuietNow, NeedsQuiet
<1>4. UNCHANGED <<mDisplayRuning, mDisplayState, displayThreadCommandQ, thread, sem,
                  mANativeWindow, mDisplayBufInfo, window, cb>>
    BY <1>1 DEF display, shared
<1>5. Ordered' /\ Handshake' /\ QuietNow'
    BY <1>1, <1>2, <1>3, <1>4, StepDone DEF display
<1>6. Shown = {}
  <2>1. thread.frame = None
      BY <1>3 DEF IInv, Showing, Places
  <2>2. \A i \in DOMAIN Q : Q[i].frame = None
      BY <1>3 DEF IInv, Showing, Places
  <2> QED
      BY <2>1, <2>2, <1>1 DEF Shown, Queued, Q
<1>7. mFrameInfoArray' = {}
    BY <1>1, <1>6 DEF IInv, FramesKnown
<1>8. TypeOK'
    BY <1>1, <1>4, <1>7 DEF IInv, TypeOK
<1>9. Showing' /\ Places' /\ Apart'
    BY <1>1, <1>4 DEF IInv, Showing, Places, Apart, Q
<1>10. FramesKnown'
    BY <1>4, <1>6, <1>7 DEF FramesKnown, Shown, Queued
<1>11. BuffersGivenBack'
    BY <1>4 DEF IInv, BuffersGivenBack
<1> QED
    BY <1>5, <1>8, <1>9, <1>10, <1>11 DEF IInv

LEMMA StartPreviewKeeps == ASSUME IInv, startPreview PROVE IInv'
<1>1. /\ todo # <<>> /\ Head(todo).op = "start preview" /\ ~ Does("await")
      /\ mPreviewRunning' = TRUE /\ Continue(<<>>)
      /\ UNCHANGED <<display, displayThreadCommandQ, thread, sem, shared, frames>>
    BY DEF startPreview, Does
<1>2. Controls = {} /\ sem' = FALSE
    BY <1>1, Unasked
<1>3. UNCHANGED <<mDisplayRuning, mDisplayState, displayThreadCommandQ, thread, sem,
                  mANativeWindow, mDisplayBufInfo, window, mFrameInfoArray, cb>>
    BY <1>1 DEF display, shared, frames
<1>4. ~ NeedsQuiet(Tail(todo))
  <2>1. Tail(todo) \in {<<>>, <<Step("start")>>, <<Step("start if window")>>}
      BY <1>1, TailOf DEF After
  <2>2. /\ Step("start") \in Steps /\ Step("start").op = "start"
        /\ Step("start if window") \in Steps /\ Step("start if window").op = "start if window"
      BY StepsAre DEF Ops
  <2>3. Tail(todo) # <<>> => Head(Tail(todo)).op \in {"start", "start if window"}
      BY <2>1, <2>2, Short1
  <2> QED
      BY <2>3 DEF NeedsQuiet
<1>5. Ordered' /\ Handshake' /\ QuietNow'
    BY <1>1, <1>2, <1>3, <1>4, StepDone DEF display
<1>6. TypeOK'
    BY <1>1, <1>3 DEF IInv, TypeOK
<1>7. Showing' /\ Places' /\ Apart'
    BY <1>1, <1>3 DEF IInv, Showing, Places, Apart, Q
<1>8. FramesKnown'
    BY <1>3 DEF IInv, FramesKnown, Shown, Queued
<1>9. BuffersGivenBack'
    BY <1>3 DEF IInv, BuffersGivenBack
<1> QED
    BY <1>5, <1>6, <1>7, <1>8, <1>9 DEF IInv

LEMMA JoinKeeps == ASSUME IInv, Join PROVE IInv'
<1>1. /\ todo # <<>> /\ Head(todo).op = "join" /\ ~ Does("await") /\ thread.at = "exit"
      /\ mDisplayRuning' = None /\ mDisplayState' = None /\ displayThreadCommandQ' = <<>>
      /\ mANativeWindow' = None /\ thread' = Thread("receive", None) /\ Continue(<<>>)
      /\ UNCHANGED <<sem, mDisplayBufInfo, window, mFrameInfoArray, cb, mPreviewRunning>>
    BY DEF Join, Does, frames
<1>2. mDisplayRuning = "STOP" /\ mDisplayBufInfo = NoBuffers /\ thread.frame = None
    BY <1>1 DEF IInv, Places, Showing, Busy
<1>3. thread'.at = "receive" /\ thread'.frame = None /\ Q' = <<>> /\ DOMAIN Q' = {}
      /\ mDisplayRuning' # "RUNNING"
    BY <1>1 DEF Thread, Q, None
<1>4. todo' = <<>>
    BY <1>1, TailOf DEF After, Continue
<1>5. ~ sem
    BY <1>1, Unasked
<1>6. Ordered' /\ QuietNow'
    BY <1>4 DEF Ordered, Planned, Starts, QuietNow, NeedsQuiet, Does
<1>7. Handshake'
  <2>1. Controls' = {} /\ ~ Does("await")' /\ ~ sem'
      BY <1>1, <1>3, <1>4, <1>5 DEF Controls, Does
  <2> QED
      BY <2>1, <1>3 DEF Handshake, OneControl
<1>8. TypeOK'
  <2>1. thread' \in [at : {"receive", "dequeue", "busy", "await any", "fill", "return",
                           "refill", "check", "wait", "exit"},
                     frame : Frames \union {None}]
      BY <1>1 DEF Thread
  <2>2. displayThreadCommandQ' \in Seq(Messages)
      BY <1>1
  <2> QED
      BY <2>1, <2>2, <1>1 DEF IInv, TypeOK, Messages
<1>9. Showing'
    BY <1>1, <1>2, <1>3 DEF Showing, Busy
<1>10. Places'
    BY <1>1, <1>3 DEF IInv, Places, Busy
<1>11. Apart'
    BY <1>3 DEF Apart
<1>12. FramesKnown'
  <2>1. Queued \subseteq {None}
      BY <1>2 DEF IInv, Showing, Places, Queued, Q
  <2>2. Queued' = {}
      BY <1>3 DEF Queued, Q
  <2>3. Shown' = Shown
      BY <2>1, <2>2, <1>1, <1>2, <1>3 DEF Shown
  <2> QED
      BY <2>3, <1>1 DEF IInv, FramesKnown
<1>13. BuffersGivenBack'
    BY <1>1, <1>2 DEF IInv, BuffersGivenBack, NoBuffers, Buffers
<1> QED
    BY <1>6, <1>7, <1>8, <1>9, <1>10, <1>11, <1>12, <1>13 DEF IInv
-----------------------------------------------------------------------------
(* The commands                                                               *)

LEMMA CommandKeeps ==
    ASSUME IInv, NEW s, Commands(s), Planned(s),
           s # <<>> => Head(s).op \notin {"await", "stop preview", "set to"},
           Starts(s) => mANativeWindow # None
    PROVE  IInv'
<1>1. /\ ~ Does("await") /\ todo' = s
      /\ UNCHANGED <<display, displayThreadCommandQ, thread, sem, shared, frames,
                     mPreviewRunning>>
    BY DEF Commands, Does
<1>2. Controls = {} /\ sem' = FALSE
    BY <1>1, Unasked
<1>3. ~ NeedsQuiet(todo)'
    BY <1>1 DEF NeedsQuiet
<1>4. Ordered' /\ Handshake' /\ QuietNow'
    BY <1>1, <1>2, <1>3, TodoIs DEF shared
<1>5. TypeOK' /\ Showing' /\ Places' /\ Apart' /\ FramesKnown' /\ BuffersGivenBack'
    BY <1>1, <1>2, CommandActs
<1> QED
    BY <1>4, <1>5 DEF IInv

\* The steps by name, and the lists of two and three that the commands begin with.
LEMMA OfTwo ==
    ASSUME NEW a \in Steps, NEW b \in Steps, <<b>> \in After(a.op)
    PROVE  /\ Planned(<<a, b>>) /\ Head(<<a, b>>) = a
           /\ Starts(<<a, b>>) => a.op = "start" \/ b.op = "start"
BY Short2, StartsShort DEF Planned

LEMMA OfThree ==
    ASSUME NEW a \in Steps, NEW b \in Steps, NEW c \in Steps, <<b, c>> \in After(a.op)
    PROVE  /\ Planned(<<a, b, c>>) /\ Head(<<a, b, c>>) = a
           /\ Starts(<<a, b, c>>) => a.op = "start" \/ b.op = "start" \/ c.op = "start"
BY Short3, StartsShort DEF Planned
LEMMA PreviewStartKeeps == ASSUME IInv, PreviewStart PROVE IInv'
<1> DEFINE pir == Step("pause if running")
           siw == Step("start if window")
           st == Step("start preview")
           sp == Step("stop preview")
<1>1. /\ pir \in Steps /\ pir.op = "pause if running"
      /\ siw \in Steps /\ siw.op = "start if window"
      /\ st \in Steps /\ st.op = "start preview" /\ sp \in Steps /\ sp.op = "stop preview"
    BY StepsAre DEF Ops
<1>2. \/ Commands(<<pir, st>> \o <<siw>>)
      \/ Commands((<<pir>> \o <<sp, st>>) \o <<siw>>)
      \/ Commands(<<>> \o <<siw>>)
    BY DEF PreviewStart, Restart
<1>3. <<st, siw>> \in After("pause if running") /\ <<sp, st, siw>> \in After("pause if running")
    BY DEF After, Paused, Restarted, Stopped
<1>4. CASE Commands(<<pir, st>> \o <<siw>>)
  <2> HIDE DEF pir, siw, st, sp
  <2>1. <<pir, st>> \o <<siw>> = <<pir, st, siw>>
      BY <1>1, Joined
  <2>2. /\ Planned(<<pir, st, siw>>) /\ Head(<<pir, st, siw>>) = pir
        /\ ~ Starts(<<pir, st, siw>>)
      BY <1>1, <1>3, OfThree
  <2> QED
      BY <1>1, <1>4, <2>1, <2>2, CommandKeeps
<1>5. CASE Commands((<<pir>> \o <<sp, st>>) \o <<siw>>)
  <2> HIDE DEF pir, siw, st, sp
  <2>1. <<pir>> \in Seq(Steps) /\ <<sp, st>> \in Seq(Steps) /\ <<siw>> \in Seq(Steps)
      BY <1>1, Short1, Short2
  <2>2. (<<pir>> \o <<sp, st>>) \o <<siw>> = <<pir>> \o (<<sp, st>> \o <<siw>>)
      BY <2>1, ConcatAssociative
  <2>3. <<sp, st>> \o <<siw>> = <<sp, st, siw>>
      BY <1>1, Joined
  <2>4. Commands(<<pir>> \o <<sp, st, siw>>)
      BY <1>5, <2>2, <2>3
  <2>5. ~ Starts(<<sp, st, siw>>)
      BY <1>1, StartsShort
  <2>6. /\ Planned(<<pir>> \o <<sp, st, siw>>) /\ Head(<<pir>> \o <<sp, st, siw>>) = pir
        /\ ~ Starts(<<pir>> \o <<sp, st, siw>>)
      BY <1>1, <1>3, <2>5, Pushed
  <2> QED
      BY <1>1, <2>4, <2>6, CommandKeeps
<1>6. CASE Commands(<<>> \o <<siw>>)
  <2> HIDE DEF pir, siw, st, sp
  <2>0. <<siw>> \in Seq(Steps)
      BY <1>1, Short1
  <2>1. <<>> \o <<siw>> = <<siw>> /\ <<siw>> \in Seq(Steps)
      BY <1>1, <2>0, Goes
  <2>2. Head(<<siw>>) = siw /\ Tail(<<siw>>) = <<>> /\ ~ Starts(<<siw>>)
      BY <1>1, Short1, StartsShort
  <2>3. Planned(<<siw>>)
      BY <1>1, <2>1, <2>2 DEF Planned, After
  <2> QED
      BY <1>1, <1>6, <2>1, <2>2, <2>3, CommandKeeps
<1> QED
    BY <1>2, <1>4, <1>5, <1>6

LEMMA ShortCommandsKeep ==
    ASSUME IInv, PreviewStop \/ SetPreviewWindow \/ Release
    PROVE  IInv'
<1>1. CASE PreviewStop
  <2> DEFINE a == Step("pause if running")
             b == Step("stop preview")
  <2>1. a \in Steps /\ a.op = "pause if running" /\ b \in Steps /\ b.op = "stop preview"
      BY StepsAre DEF Ops
  <2>2. Commands(<<a, b>>) /\ <<b>> \in After("pause if running")
      BY <1>1 DEF PreviewStop, After, Paused, Stopped
  <2> HIDE DEF a, b
  <2> QED
      BY <2>1, <2>2, OfTwo, CommandKeeps
<1>2. CASE SetPreviewWindow
  <2>1. PICK w \in Windows \union {None} :
           Commands(<<[op |-> "set window", win |-> w], Step("start if preview")>>)
      BY <1>2 DEF SetPreviewWindow
  <2> DEFINE a == [op |-> "set window", win |-> w]
             b == Step("start if preview")
  <2>2. a \in Steps /\ a.op = "set window" /\ b \in Steps /\ b.op = "start if preview"
      BY StepsAre DEF Ops, Steps
  <2>3. Commands(<<a, b>>) /\ <<b>> \in After("set window")
      BY <2>1 DEF After
  <2> HIDE DEF a, b
  <2> QED
      BY <2>2, <2>3, OfTwo, CommandKeeps
<1>3. CASE Release
  <2> DEFINE a == Step("stop")
             b == Step("join")
  <2>1. a \in Steps /\ a.op = "stop" /\ b \in Steps /\ b.op = "join"
      BY StepsAre DEF Ops
  <2>2. Commands(<<a, b>>) /\ <<b>> \in After("stop")
      BY <1>3 DEF Release, After
  <2> HIDE DEF a, b
  <2> QED
      BY <2>1, <2>2, OfTwo, CommandKeeps
<1> QED
    BY <1>1, <1>2, <1>3

LEMMA ContinuosPictureKeeps == ASSUME IInv, ContinuosPicture PROVE IInv'
<1> DEFINE pa == Step("pause")
           go == Step("start")
           st == Step("start preview")
           sp == Step("stop preview")
<1>1. /\ pa \in Steps /\ pa.op = "pause" /\ go \in Steps /\ go.op = "start"
      /\ st \in Steps /\ st.op = "start preview" /\ sp \in Steps /\ sp.op = "stop preview"
    BY StepsAre DEF Ops
<1>2. PICK burst \in BOOLEAN, recording \in BOOLEAN, resize \in BOOLEAN :
         /\ burst => mANativeWindow # None
         /\ Commands((IF ~ recording /\ ~ burst THEN <<pa>> ELSE <<>>)
                     \o (IF ~ mPreviewRunning THEN <<st>>
                         ELSE IF recording \/ ~ resize THEN <<>>
                         ELSE <<pa>> \o <<sp, st>> \o (IF burst THEN <<go>> ELSE <<>>)))
    BY DEF ContinuosPicture, Restart
<1>3. \/ \E first \in {<<pa>>, <<>>},
            rest \in {<<st>>, <<>>, (<<pa>> \o <<sp, st>>) \o <<>>} :
               Commands(first \o rest)
      \/ /\ mANativeWindow # None
         /\ Commands(<<>> \o ((<<pa>> \o <<sp, st>>) \o <<go>>))
  <2>1. CASE ~ mPreviewRunning
      BY <1>2, <2>1
  <2>2. CASE mPreviewRunning /\ (recording \/ ~ resize)
      BY <1>2, <2>2
  <2>3. CASE mPreviewRunning /\ ~ (recording \/ ~ resize) /\ burst
      BY <1>2, <2>3
  <2>4. CASE mPreviewRunning /\ ~ (recording \/ ~ resize) /\ ~ burst
      BY <1>2, <2>4
  <2> QED
      BY <2>1, <2>2, <2>3, <2>4
<1>4. /\ <<st>> \in After("pause") /\ <<>> \in After("pause") /\ <<sp, st>> \in After("pause")
      /\ <<pa, sp, st>> \in After("pause") /\ <<sp, st, go>> \in After("pause")
      /\ <<>> \in After("start preview")
    BY DEF After, Paused, Restarted, Stopped, Repeated
<1> HIDE DEF pa, go, st, sp
<1>5. <<pa>> \o <<sp, st>> = <<pa, sp, st>> /\ <<sp, st>> \o <<go>> = <<sp, st, go>>
    BY <1>1, Joined
<1>6. /\ <<pa>> \in Seq(Steps) /\ <<sp, st>> \in Seq(Steps) /\ <<go>> \in Seq(Steps)
      /\ <<st>> \in Seq(Steps) /\ <<pa, sp, st>> \in Seq(Steps) /\ <<>> \in Seq(Steps)
  <2>1. <<pa>> \in Seq(Steps) /\ <<go>> \in Seq(Steps) /\ <<st>> \in Seq(Steps)
      BY <1>1, Short1
  <2>2. <<sp, st>> \in Seq(Steps)
      BY <1>1, Short2
  <2>3. <<pa, sp, st>> \in Seq(Steps)
      BY <1>1, Short3
  <2> QED
      BY <2>1, <2>2, <2>3
<1>7. <<pa, sp, st>> \o <<>> = <<pa, sp, st>>
    BY <1>6, ConcatSimplifications
<1>8. ASSUME NEW first \in {<<pa>>, <<>>}, NEW rest \in {<<st>>, <<>>, <<pa, sp, st>>},
             Commands(first \o rest)
      PROVE  IInv'
  <2>1. rest \in After("pause") /\ ~ Starts(rest) /\ rest \in Seq(Steps)
      BY <1>1, <1>4, <1>6, StartsShort
  <2>2. CASE first = <<pa>>
    <3>1. /\ Planned(<<pa>> \o rest) /\ Head(<<pa>> \o rest) = pa /\ ~ Starts(<<pa>> \o rest)
        BY <1>1, <2>1, Pushed
    <3> QED
        BY <1>1, <1>8, <2>2, <3>1, CommandKeeps
  <2>3. CASE first = <<>>
    <3>1. <<>> \o rest = rest
        BY <2>1
    <3>2. Planned(rest)
        BY <2>1, Lists
    <3>3. rest # <<>> => Head(rest) \in {st, pa}
      <4>1. Head(<<st>>) = st
          BY <1>1, Short1
      <4>2. Head(<<pa, sp, st>>) = pa
          OBVIOUS
      <4> QED
          BY <1>8, <4>1, <4>2
    <3> QED
        BY <1>1, <1>8, <2>1, <2>3, <3>1, <3>2, <3>3, CommandKeeps
  <2> QED
      BY <2>2, <2>3
<1>9. ASSUME mANativeWindow # None, Commands(<<>> \o ((<<pa>> \o <<sp, st>>) \o <<go>>))
      PROVE  IInv'
  <2>1. (<<pa>> \o <<sp, st>>) \o <<go>> = <<pa>> \o (<<sp, st>> \o <<go>>)
      BY <1>6, ConcatAssociative
  <2>2. /\ Planned(<<pa>> \o <<sp, st, go>>) /\ Head(<<pa>> \o <<sp, st, go>>) = pa
      BY <1>1, <1>4, Pushed
  <2>3. <<>> \o (<<pa>> \o <<sp, st, go>>) = <<pa>> \o <<sp, st, go>>
      BY <2>2 DEF Planned
  <2>4. Commands(<<pa>> \o <<sp, st, go>>)
      BY <1>5, <1>9, <2>1, <2>3
  <2> QED
      BY <1>1, <1>9, <2>2, <2>4, CommandKeeps
<1> QED
    BY <1>3, <1>5, <1>7, <1>8, <1>9
-----------------------------------------------------------------------------
LEMMA NextKeeps == ASSUME None \notin Frames, Faults = {}, IInv, [Next]_vars PROVE IInv'
<1>1. CASE DisplayThread
  <2>1. CASE ThreadStart
      BY <2>1, StartTaken
  <2>2. CASE ThreadPause \/ ThreadStop
      BY <2>2, QuietTaken
  <2>3. CASE ThreadFrame
      BY <2>3, FrameTaken
  <2>4. CASE ThreadDequeue
      BY <2>4, DequeueKeeps
  <2>5. CASE ThreadBusy
      BY <2>5, BusyKeeps
  <2>6. CASE ThreadEnqueue
      BY <2>6, EnqueueKeeps
  <2>7. CASE ThreadReturn
      BY <2>7, ReturnKeeps
  <2>8. CASE ThreadRefill
      BY <2>8, RefillKeeps
  <2>9. CASE ThreadCheck \/ ThreadIdle
      BY <2>9, CheckKeeps
  <2> QED
      BY <1>1, <2>1, <2>2, <2>3, <2>4, <2>5, <2>6, <2>7, <2>8, <2>9 DEF DisplayThread
<1>2. CASE CommandThread
  <2>1. CASE startDisplay
      BY <2>1, StartDisplayKeeps
  <2>2. CASE pauseDisplay \/ stopDisplay
      BY <2>2, TellsKeeps
  <2>3. CASE Await
      BY <2>3, AwaitKeeps
  <2>4. CASE Ask
      BY <2>4, AskKeeps
  <2>5. CASE SetsWindow
      BY <2>5, SetsWindowKeeps
  <2>6. CASE SetsTo
      BY <2>6, SetsToKeeps
  <2>7. CASE stopPreview
      BY <2>7, StopPreviewKeeps
  <2>8. CASE startPreview
      BY <2>8, StartPreviewKeeps
  <2>9. CASE Join
      BY <2>9, JoinKeeps
  <2> QED
      BY <1>2, <2>1, <2>2, <2>3, <2>4, <2>5, <2>6, <2>7, <2>8, <2>9 DEF CommandThread
<1>3. CASE Client
    BY <1>3, PreviewStartKeeps, ShortCommandsKeep, ContinuosPictureKeeps DEF Client
<1>4. CASE notifyNewFrame
    BY <1>4, NotifyKeeps
<1>5. CASE \E f \in Frames : BufferCb(f)
    BY <1>5, BufferCbKeeps
<1>6. CASE \E w \in Windows : Screen(w)
    BY <1>6, ScreenKeeps
<1>7. CASE UNCHANGED vars
  <2>1. UNCHANGED <<display, displayThreadCommandQ, thread, sem, shared, frames, command>>
      BY <1>7 DEF vars
  <2>2. Ordered' /\ Handshake' /\ QuietNow'
      BY <2>1, OthersAct DEF shared, command
  <2>3. sem' \in BOOLEAN
      BY <2>1 DEF IInv, TypeOK
  <2>4. TypeOK' /\ Showing' /\ Places' /\ Apart' /\ FramesKnown' /\ BuffersGivenBack'
      BY <2>1, <2>3, CommandActs DEF command
  <2> QED
      BY <2>2, <2>4 DEF IInv
<1> QED
    BY <1>1, <1>2, <1>3, <1>4, <1>5, <1>6, <1>7 DEF Next

\* The invariant from which the theorems follow.
LEMMA Inductive == ASSUME None \notin Frames, Faults = {} PROVE Spec => []IInv
BY InitIInv, NextKeeps, PTL DEF Spec
-----------------------------------------------------------------------------
(* The theorems: no call for the window fails, and NULL is no frame.          *)

\* Every variable keeps its type, and no window has more than its BufNum buffers
\* with the HAL and the screen together.
THEOREM DisplayTyped == ASSUME None \notin Frames, Faults = {} PROVE Spec => []TypeOK
<1>1. IInv => TypeOK
    BY DEF IInv
<1> QED
    BY <1>1, Inductive, PTL

\* The display has exactly the frames whose buffers of the engine are locked: none
\* is shown after clearFrameArray freed it, and each is returned in the end, once
\* (notifyNewFrame, CMD_DISPLAY_FRAME and stopPreview).
THEOREM FramesReturned == ASSUME None \notin Frames, Faults = {} PROVE Spec => []FramesKnown
<1>1. IInv => FramesKnown
    BY DEF IInv
<1> QED
    BY <1>1, Inductive, PTL

\* The HAL has no buffers but those of the window it shows frames in, and never
\* changes the window while it has any (setPreviewWindow pauses the display).
THEOREM WindowGetsBuffers ==
    ASSUME None \notin Frames, Faults = {} PROVE Spec => []BuffersGivenBack
<1>1. IInv => BuffersGivenBack
    BY DEF IInv
<1> QED
    BY <1>1, Inductive, PTL
=============================================================================
