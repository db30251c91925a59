------------------------- MODULE AppMsgNotifierProofs -------------------------
(* What holds of the threads that encode, detect faces and copy frames for    *)
(* any number of frames, length of a burst and depth of the command queue, as *)
(* long as the application keeps to the order that the code relies on.        *)
EXTENDS AppMsgNotifier, TLAPS, SequenceTheorems, FiniteSetTheorems

Ops == {"flush", "pause preview", "stop faces", "await", "stop preview", "start preview",
        "receive", "faces if asked", "faces", "answer"}
Steps == [op : Ops, on : {None}] \union [op : {"pause"}, on : Threads]
         \union [op : {"take"}, on : 1..MaxPictures]
Waiting == {"PREVIEW_STOP", "SET_PARAMETERS", "CAPTURE_CANCEL", "CONTINUOS_PICTURE"}
Commands == Waiting \union {"PREVIEW_START", "START_FACE_DETECTION"}

FrameMessages == [cmd : Kinds, frame : Frames, caller : {None}]
Pauses == [cmd : {"PAUSE"}, frame : {None}, caller : Callers]
Sendable(t) == {m \in FrameMessages : ThreadOf(m.cmd) = t} \union Pauses
Sent == FrameMessages \union Pauses

ThreadTyped(t) ==
    /\ thread[t].at \in {"receive", "process", "find", "drain"}
    /\ thread[t].at = "process" => thread[t].msg \in Sendable(t) \ Pauses
    /\ thread[t].at = "drain" => thread[t].msg \in Pauses
    /\ thread[t].at \in {"receive", "find"} => thread[t].msg = NoMessage
    /\ thread[t].at = "find" => t = "face"

QueuesTyped == /\ queue \in [Threads -> Seq(Sent)]
               /\ \A t \in Threads : queue[t] \in Seq(Sendable(t))
               /\ thread \in [Threads -> [at : {"receive", "process", "find", "drain"},
                                          msg : Sent \union {NoMessage}]]
               /\ \A t \in Threads : ThreadTyped(t)

FlagsTyped == /\ mRunningState \subseteq Kinds /\ received \subseteq Kinds
              /\ mMsgTypeEnabled \subseteq Kinds
              /\ pictures \in [num : Nat, enc : Nat]
              /\ mFrameInfoArray \subseteq Frames
              /\ cb \in FrameMessages \union {NoMessage}

CallersTyped == /\ sem \in [Callers -> BOOLEAN]
                /\ todo \in [Callers -> Seq(Steps)]
                /\ commandThreadCommandQ \in Seq(Commands)

TypeOK == QueuesTyped /\ FlagsTyped /\ CallersTyped
-----------------------------------------------------------------------------
(* The messages of a thread: queued, and at work                             *)

Elements(s) == {s[i] : i \in DOMAIN s}
Queued(t) == Elements(queue[t])
Work(t) == Queued(t) \union ({thread[t].msg} \ {NoMessage})

\* No message is there twice.
NoRepeat(s) == \A i, j \in DOMAIN s : s[i] = s[j] => i = j
Distinct(t) == NoRepeat(queue[t]) /\ thread[t].msg \notin Queued(t)

LEMMA Appended ==
    ASSUME NEW S, NEW s \in Seq(S), NEW e \in S
    PROVE  /\ Append(s, e) \in Seq(S) /\ Len(Append(s, e)) = Len(s) + 1
           /\ Elements(Append(s, e)) = Elements(s) \union {e}
           /\ NoRepeat(s) /\ e \notin Elements(s) => NoRepeat(Append(s, e))
<1> DEFINE u == Append(s, e)
<1>1. /\ u \in Seq(S) /\ Len(u) = Len(s) + 1 /\ DOMAIN u = 1..(Len(s) + 1)
      /\ \A i \in 1..Len(s) : u[i] = s[i]
      /\ u[Len(s) + 1] = e /\ DOMAIN s = 1..Len(s) /\ Len(s) \in Nat
    OBVIOUS
<1> HIDE DEF u
<1>2. \A i \in DOMAIN u : i \in DOMAIN s \/ i = Len(s) + 1
    BY <1>1
<1>3. Len(s) + 1 \in DOMAIN u /\ \A i \in DOMAIN s : i \in DOMAIN u /\ u[i] = s[i]
    BY <1>1
<1>4. Elements(u) = Elements(s) \union {e}
    BY <1>1, <1>2, <1>3 DEF Elements
<1>5. NoRepeat(s) /\ e \notin Elements(s) => NoRepeat(u)
    BY <1>1, <1>2, <1>3 DEF NoRepeat, Elements
<1> QED
    BY <1>1, <1>4, <1>5 DEF u

LEMMA Taken ==
    ASSUME NEW S, NEW s \in Seq(S), s # <<>>
    PROVE  /\ Tail(s) \in Seq(S) /\ Len(Tail(s)) = Len(s) - 1 /\ Len(s) \in Nat \ {0}
           /\ Head(s) \in S /\ Head(s) \in Elements(s)
           /\ Elements(s) = Elements(Tail(s)) \union {Head(s)}
           /\ NoRepeat(s) => NoRepeat(Tail(s)) /\ Elements(Tail(s)) = Elements(s) \ {Head(s)}
<1> DEFINE u == Tail(s)
<1>1. /\ u \in Seq(S) /\ Len(u) = Len(s) - 1 /\ DOMAIN u = 1..(Len(s) - 1)
      /\ \A i \in 1..(Len(s) - 1) : u[i] = s[i + 1]
      /\ Head(s) = s[1] /\ DOMAIN s = 1..Len(s) /\ Len(s) \in Nat \ {0} /\ s[1] \in S
    OBVIOUS
<1> HIDE DEF u
<1>2. \A i \in DOMAIN s : i = 1 \/ (i - 1 \in DOMAIN u /\ s[i] = u[i - 1])
    BY <1>1
<1>3. 1 \in DOMAIN s /\ \A i \in DOMAIN u : i + 1 \in DOMAIN s /\ u[i] = s[i + 1] /\ i + 1 # 1
    BY <1>1
<1>4. Elements(s) = Elements(u) \union {Head(s)}
    BY <1>1, <1>2, <1>3 DEF Elements
<1>5. ASSUME NoRepeat(s) PROVE NoRepeat(u) /\ Head(s) \notin Elements(u)
  <2>1. NoRepeat(u)
    <3> SUFFICES ASSUME NEW i \in DOMAIN u, NEW j \in DOMAIN u, u[i] = u[j] PROVE i = j
        BY DEF NoRepeat
    <3>1. i + 1 = j + 1
        BY <1>3, <1>5 DEF NoRepeat
    <3> QED
        BY <3>1, <1>1
  <2>2. \A i \in DOMAIN u : u[i] # Head(s)
      BY <1>1, <1>3, <1>5 DEF NoRepeat
  <2> QED
      BY <2>1, <2>2 DEF Elements
<1> QED
    BY <1>1, <1>3, <1>4, <1>5 DEF u, Elements

LEMMA NothingIn == Elements(<<>>) = {} /\ \A S : \A s \in Seq(S) : Elements(s) = {} => s = <<>>
<1>1. Elements(<<>>) = {}
    BY DEF Elements
<1>2. ASSUME NEW S, NEW s \in Seq(S), s # <<>> PROVE Elements(s) # {}
    BY <1>2, Taken
<1> QED
    BY <1>1, <1>2

LEMMA ElementsIn == \A S : \A s \in Seq(S) : Elements(s) \subseteq S
BY DEF Elements

LEMMA MessagesAre ==
    ASSUME None \notin Frames
    PROVE  /\ \A m \in FrameMessages : m # NoMessage /\ m.frame \in Frames /\ m.frame # None
                                       /\ m.cmd \in Kinds /\ m.cmd # "PAUSE" /\ m.cmd # None
           /\ \A m \in Pauses : m # NoMessage /\ m.frame = None /\ m.cmd = "PAUSE"
                                /\ m.caller \in Callers /\ m = Message("PAUSE", None, m.caller)
           /\ \A c \in Callers : Message("PAUSE", None, c) \in Pauses
           /\ \A k \in Kinds, f \in Frames : FrameMessage(k, f) \in FrameMessages
           /\ \A k \in Kinds : ThreadOf(k) \in Threads
           /\ NoMessage.frame = None /\ NoMessage.cmd = None
           /\ NoMessage \notin Sent
BY DEF FrameMessages, Pauses, NoMessage, Message, FrameMessage, Kinds, ThreadOf, Threads, Callers, None, Sent
-----------------------------------------------------------------------------
(* What a step does to them                                                  *)

LEMMA Unchanged == ASSUME UNCHANGED threads
                   PROVE  /\ QueuesTyped => QueuesTyped'
                          /\ \A t : Work(t)' = Work(t) /\ Queued(t)' = Queued(t)
                                    /\ (Distinct(t) => Distinct(t)')
BY DEF threads, QueuesTyped, ThreadTyped, Work, Queued, Distinct

LEMMA Puts ==
    ASSUME QueuesTyped, NEW t \in Threads, NEW m \in Sendable(t), None \notin Frames,
           Put(t, m), UNCHANGED thread, Distinct(t), m \notin Work(t)
    PROVE  /\ QueuesTyped'
           /\ Work(t)' = Work(t) \union {m} /\ Queued(t)' = Queued(t) \union {m}
           /\ Len(queue'[t]) = Len(queue[t]) + 1
           /\ Distinct(t)'
           /\ \A u \in Threads \ {t} : /\ Work(u)' = Work(u) /\ Queued(u)' = Queued(u)
                                       /\ queue'[u] = queue[u]
                                       /\ (Distinct(u) => Distinct(u)')
<1>1. /\ queue[t] \in Seq(Sendable(t)) /\ queue[t] \in Seq(Sent) /\ m \in Sent
      /\ queue'[t] = Append(queue[t], m)
      /\ \A u \in Threads \ {t} : queue'[u] = queue[u]
      /\ thread' = thread
    BY DEF QueuesTyped, Put, Sendable, Sent
<1>2. /\ queue'[t] \in Seq(Sendable(t)) /\ Len(queue'[t]) = Len(queue[t]) + 1
      /\ Elements(queue'[t]) = Elements(queue[t]) \union {m}
    BY <1>1, Appended
<1>3. queue'[t] \in Seq(Sent)
    BY <1>1, Appended
<1>4. QueuesTyped'
  <2>1. queue' \in [Threads -> Seq(Sent)]
      BY <1>3, <1>1 DEF Put, QueuesTyped
  <2>2. \A u \in Threads : queue'[u] \in Seq(Sendable(u))
      BY <1>1, <1>2 DEF QueuesTyped
  <2>3. \A u \in Threads : ThreadTyped(u)'
      BY <1>1 DEF QueuesTyped, ThreadTyped
  <2> QED
      BY <1>1, <2>1, <2>2, <2>3 DEF QueuesTyped
<1>5. m # NoMessage
    BY <1>1, MessagesAre
<1>6. Queued(t)' = Queued(t) \union {m} /\ Work(t)' = Work(t) \union {m}
    BY <1>1, <1>2 DEF Queued, Work
<1>7. NoRepeat(queue'[t])
    BY <1>1, Appended DEF Distinct, Work, Queued
<1>8. Distinct(t)'
    BY <1>1, <1>5, <1>6, <1>7 DEF Distinct, Work, Queued
<1>9. \A u \in Threads \ {t} : /\ Work(u)' = Work(u) /\ Queued(u)' = Queued(u)
                               /\ (Distinct(u) => Distinct(u)')
    BY <1>1 DEF Distinct, Work, Queued
<1> QED
    BY <1>1, <1>2, <1>4, <1>6, <1>8, <1>9

LEMMA Takes ==
    ASSUME QueuesTyped, NEW t \in Threads, NEW cmds, NEW at, None \notin Frames,
           Receives(t, cmds), Goes(t, at, Head(queue[t])), Distinct(t),
           Head(queue[t]) \in Pauses => at = "drain", Head(queue[t]) \notin Pauses => at = "process"
    PROVE  /\ QueuesTyped' /\ Distinct(t)' /\ Work(t)' = Work(t)
           /\ Queued(t)' = Queued(t) \ {Head(queue[t])} /\ Head(queue[t]) \in Queued(t)
           /\ Len(queue'[t]) = Len(queue[t]) - 1 /\ Len(queue[t]) \in Nat \ {0}
           /\ \A u \in Threads \ {t} : /\ Work(u)' = Work(u) /\ Queued(u)' = Queued(u)
                                       /\ queue'[u] = queue[u]
                                       /\ (Distinct(u) => Distinct(u)')
<1> DEFINE h == Head(queue[t])
<1>1. /\ queue[t] \in Seq(Sendable(t)) /\ queue[t] \in Seq(Sent) /\ queue[t] # <<>>
      /\ queue'[t] = Tail(queue[t]) /\ thread[t].msg = NoMessage
      /\ thread'[t] = [at |-> at, msg |-> h]
      /\ \A u \in Threads \ {t} : queue'[u] = queue[u] /\ thread'[u] = thread[u]
    BY DEF QueuesTyped, Receives, Goes, Place, ThreadTyped
<1>2. /\ queue'[t] \in Seq(Sendable(t)) /\ Len(queue'[t]) = Len(queue[t]) - 1
      /\ h \in Sendable(t) /\ h \in Elements(queue[t]) /\ Len(queue[t]) \in Nat \ {0}
      /\ Elements(queue[t]) = Elements(queue'[t]) \union {h}
    BY <1>1, Taken
<1>3. queue'[t] \in Seq(Sent) /\ h \in Sent
    BY <1>1, Taken
<1>4. NoRepeat(queue'[t]) /\ Elements(queue'[t]) = Elements(queue[t]) \ {h}
    BY <1>1, Taken DEF Distinct
<1> HIDE DEF h
<1>5. QueuesTyped'
  <2>1. queue' \in [Threads -> Seq(Sent)]
      BY <1>3, <1>1 DEF Receives, QueuesTyped
  <2>2. \A u \in Threads : queue'[u] \in Seq(Sendable(u))
      BY <1>1, <1>2 DEF QueuesTyped
  <2>3. \A u \in Threads : ThreadTyped(u)'
    <3>1. \A u \in Threads \ {t} : ThreadTyped(u)'
        BY <1>1 DEF QueuesTyped, ThreadTyped
    <3>2. ThreadTyped(t)'
        BY <1>1, <1>2, h = Head(queue[t]) DEF ThreadTyped, h
    <3> QED
        BY <3>1, <3>2
  <2>4. thread' \in [Threads -> [at : {"receive", "process", "find", "drain"},
                                 msg : Sent \union {NoMessage}]]
      BY <1>1, <1>3 DEF QueuesTyped, Goes, Place, h
  <2> QED
      BY <2>1, <2>2, <2>3, <2>4 DEF QueuesTyped
<1>6. h # NoMessage
    BY <1>3, MessagesAre
<1>7. Queued(t)' = Queued(t) \ {h} /\ Work(t)' = Work(t) /\ Distinct(t)' /\ h \in Queued(t)
    BY <1>1, <1>2, <1>4, <1>6 DEF Queued, Work, Distinct
<1>8. \A u \in Threads \ {t} : /\ Work(u)' = Work(u) /\ Queued(u)' = Queued(u)
                               /\ (Distinct(u) => Distinct(u)')
    BY <1>1 DEF Distinct, Work, Queued
<1> QED
    BY <1>1, <1>2, <1>5, <1>7, <1>8 DEF h

LEMMA Finishes ==
    ASSUME QueuesTyped, NEW t \in Threads, NEW at, None \notin Frames,
           Goes(t, at, NoMessage), UNCHANGED queue, Distinct(t),
           at \in {"receive", "find"}, at = "find" => t = "face"
    PROVE  /\ QueuesTyped' /\ Distinct(t)' /\ Work(t)' = Work(t) \ {thread[t].msg}
           /\ \A u \in Threads : queue'[u] = queue[u] /\ Queued(u)' = Queued(u)
           /\ \A u \in Threads \ {t} : /\ Work(u)' = Work(u) 
                                       /\ (Distinct(u) => Distinct(u)')
<1>1. /\ queue' = queue /\ thread'[t] = [at |-> at, msg |-> NoMessage]
      /\ \A u \in Threads \ {t} : thread'[u] = thread[u]
    BY DEF QueuesTyped, Goes, Place
<1>2. NoMessage \notin Queued(t)
  <2>1. queue[t] \in Seq(Sent)
      BY DEF QueuesTyped
  <2> QED
      BY <2>1, ElementsIn, MessagesAre DEF Queued
<1>3. QueuesTyped'
  <2>1. \A u \in Threads : ThreadTyped(u)'
    <3>1. \A u \in Threads \ {t} : ThreadTyped(u)'
        BY <1>1 DEF QueuesTyped, ThreadTyped
    <3>2. ThreadTyped(t)'
        BY <1>1 DEF ThreadTyped
    <3> QED
        BY <3>1, <3>2
  <2>2. thread' \in [Threads -> [at : {"receive", "process", "find", "drain"},
                                 msg : Sent \union {NoMessage}]]
      BY DEF QueuesTyped, Goes, Place
  <2> QED
      BY <1>1, <2>1, <2>2 DEF QueuesTyped
<1>4. Distinct(t)' /\ Work(t)' = Work(t) \ {thread[t].msg}
    BY <1>1, <1>2 DEF Queued, Work, Distinct
<1>5. /\ \A u \in Threads : queue'[u] = queue[u] /\ Queued(u)' = Queued(u)
      /\ \A u \in Threads \ {t} : Work(u)' = Work(u) /\ (Distinct(u) => Distinct(u)')
    BY <1>1 DEF Distinct, Work, Queued
<1> QED
    BY <1>3, <1>4, <1>5

LEMMA Drops ==
    ASSUME QueuesTyped, NEW t \in Threads, None \notin Frames,
           queue[t] # <<>>, queue' = [queue EXCEPT ![t] = Tail(@)], UNCHANGED thread, Distinct(t)
    PROVE  /\ QueuesTyped' /\ Distinct(t)' /\ Work(t)' = Work(t) \ {Head(queue[t])}
           /\ Queued(t)' = Queued(t) \ {Head(queue[t])} /\ Head(queue[t]) \in Queued(t)
           /\ Len(queue'[t]) = Len(queue[t]) - 1 /\ Len(queue[t]) \in Nat \ {0}
           /\ \A u \in Threads \ {t} : /\ Work(u)' = Work(u) /\ Queued(u)' = Queued(u)
                                       /\ queue'[u] = queue[u]
                                       /\ (Distinct(u) => Distinct(u)')
<1> DEFINE h == Head(queue[t])
<1>1. /\ queue[t] \in Seq(Sendable(t)) /\ queue[t] \in Seq(Sent)
      /\ queue'[t] = Tail(queue[t]) /\ thread' = thread
      /\ \A u \in Threads \ {t} : queue'[u] = queue[u]
    BY DEF QueuesTyped
<1>2. /\ queue'[t] \in Seq(Sendable(t)) /\ Len(queue'[t]) = Len(queue[t]) - 1
      /\ h \in Elements(queue[t]) /\ Len(queue[t]) \in Nat \ {0}
  <2>1. \A s \in Seq(Sendable(t)) : s # <<>> =>
           /\ Tail(s) \in Seq(Sendable(t)) /\ Len(Tail(s)) = Len(s) - 1
           /\ Head(s) \in Elements(s) /\ Len(s) \in Nat \ {0}
      BY Taken
  <2> QED
      BY <1>1, <2>1
<1>3. queue'[t] \in Seq(Sent) /\ h \in Sent
    BY <1>1, Taken
<1>4. NoRepeat(queue'[t]) /\ Elements(queue'[t]) = Elements(queue[t]) \ {h}
    BY <1>1, Taken DEF Distinct
<1> HIDE DEF h
<1>5. QueuesTyped'
  <2>1. queue' \in [Threads -> Seq(Sent)]
      BY <1>3, <1>1 DEF QueuesTyped
  <2>2. \A u \in Threads : queue'[u] \in Seq(Sendable(u))
      BY <1>1, <1>2 DEF QueuesTyped
  <2>3. \A u \in Threads : ThreadTyped(u)'
      BY <1>1 DEF QueuesTyped, ThreadTyped
  <2> QED
      BY <1>1, <2>1, <2>2, <2>3 DEF QueuesTyped
<1>6. h # NoMessage
    BY <1>3, MessagesAre
<1>7. /\ Queued(t)' = Queued(t) \ {h} /\ Distinct(t)' /\ h \in Queued(t)
      /\ Work(t)' = Work(t) \ {h}
    BY <1>1, <1>2, <1>4, <1>6 DEF Queued, Work, Distinct
<1>8. \A u \in Threads \ {t} : /\ Work(u)' = Work(u) /\ Queued(u)' = Queued(u)
                               /\ (Distinct(u) => Distinct(u)')
    BY <1>1 DEF Distinct, Work, Queued
<1> QED
    BY <1>1, <1>2, <1>5, <1>7, <1>8 DEF h
-----------------------------------------------------------------------------
(* The invariant                                                             *)

\* The steps of a caller: a PAUSE comes first, everything is stopped and nothing
\* started before a stop of the preview, and one answer is given.
OpsOf(s) == {s[i].op : i \in DOMAIN s}
Has(c, op) == op \in OpsOf(todo[c])
Quietens == {"flush", "pause preview", "stop faces"}
Before == Quietens \union {"pause", "await", "answer"}
Ordered(s) == \A i, j \in DOMAIN s :
                 i < j => /\ s[j].op # "pause"
                          /\ s[j].op = "stop preview" => s[i].op \in Before
                          /\ s[i].op = "stop preview" => s[j].op \notin Quietens
                          /\ s[i].op # "answer" \/ s[j].op # "answer"
ApiSteps == {<<>>, <<Step("await")>>, <<Step("stop faces")>>, <<On("pause", "event")>>,
             <<On("pause", "face")>>}
Plans == Ordered(todo["command"]) /\ todo["api"] \in ApiSteps

\* There is one PAUSE at a time, and its caller waits for it.
Asks(c) == Message("PAUSE", None, c)
Will(c, s) == todo[c] # <<>> /\ Head(todo[c]) = s
Pausing(c, t) == Will(c, On("pause", t)) \/ Asks(c) \in Work(t)
OnePause == \A t, u \in Threads, c, d \in Callers :
               Asks(c) \in Work(t) /\ Asks(d) \in Work(u) => t = u /\ c = d

\* The application waits either for the command thread or for a PAUSE.
AnswerDue == Has("command", "answer") \/ Elements(commandThreadCommandQ) \cap Waiting # {}
Waits == /\ \A c \in Callers, t \in Threads : Asks(c) \in Work(t) => Does(c, "await") /\ ~ sem[c]
         /\ \A c \in Callers : sem[c] => Does(c, "await")
         /\ AnswerDue => Does("api", "await") /\ ~ sem["api"]
         /\ \A i \in DOMAIN commandThreadCommandQ : commandThreadCommandQ[i] \in Waiting
               => i = Len(commandThreadCommandQ) /\ ~ Has("command", "answer")
         /\ Does("api", "stop faces") \/ (\E t \in Threads : Pausing("api", t))
               => CommandThreadIdle

\* A frame is in one place, and its buffer is locked.
Apart == /\ \A t, u \in Threads : \A m \in Work(t), n \in Work(u) :
               m.frame = n.frame /\ m.frame # None => m = n
         /\ cb # NoMessage => \A t \in Threads : \A m \in Work(t) : m.frame # cb.frame
Known == \A f \in Frames : f \in mFrameInfoArray <=>
            cb.frame = f \/ \E t \in Threads : \E m \in Work(t) : m.frame = f

\* What is not running is not under way, or is being paused.
Clear(kind) == \A m \in Work(ThreadOf(kind)) : m.cmd # kind
Stopper(kind) == IF kind = "video" THEN "api" ELSE "command"
Off == \A kind \in {"video", "preview", "face"} :
          kind \notin mRunningState => Clear(kind) \/ Pausing(Stopper(kind), ThreadOf(kind))

\* What has been stopped on the way to a stop of the preview stays so.
Quieted == /\ Has("command", "stop preview") =>
                /\ "video" \notin mRunningState
                /\ ~ Has("command", "pause preview") => "preview" \notin mRunningState
                /\ ~ Has("command", "stop faces") => "face" \notin mRunningState
                /\ ~ Has("command", "flush") =>
                      /\ "picture" \notin mRunningState
                      /\ Clear("picture") \/ Pausing("command", "enc")
           /\ "PREVIEW_STOP" \in Elements(commandThreadCommandQ) => "video" \notin mRunningState
           /\ Does("api", "stop faces") => "face" \notin mRunningState

\* A face is looked for only while metadata is enabled.
FaceAsked == "face" \notin mMsgTypeEnabled =>
                /\ "face" \notin mRunningState /\ Clear("face") /\ cb.cmd # "face"
                /\ ~ Has("command", "faces")
                /\ "START_FACE_DETECTION" \notin Elements(commandThreadCommandQ)

\* While pictures are asked for nobody pauses the encoder, and all that it has to
\* do is a picture.
Pictures == /\ "picture" \in mRunningState =>
                  /\ pictures.enc > 0 /\ pictures.enc = pictures.num + Len(queue["enc"])
                  /\ \A c \in Callers : ~ Pausing(c, "enc")
            /\ "picture" \notin mRunningState =>
                  /\ pictures.enc = 0 /\ pictures.num = 0
                  /\ \A m \in Queued("enc") : m.cmd # "picture"
            /\ cb.cmd = "picture" => pictures.num > 0

AllDistinct == \A t \in Threads : Distinct(t)
IInv == /\ TypeOK /\ AllDistinct /\ Plans /\ OnePause /\ Waits /\ Apart /\ Known
        /\ Off /\ Quieted /\ FaceAsked /\ Pictures
-----------------------------------------------------------------------------
(* A step of the notifier                                                    *)

\* A frame that has been dealt with leaves what concerns the callers as it is.
LEMMA Shrinks ==
    ASSUME IInv, None \notin Frames, UNCHANGED <<mMsgTypeEnabled, callers>>,
           mRunningState' \subseteq mRunningState,
           \A k \in {"video", "preview", "face"} : k \in mRunningState => k \in mRunningState',
           \A t \in Threads : Work(t)' \subseteq Work(t),
           \A t \in Threads : \A m \in Pauses : m \in Work(t) => m \in Work(t)',
           cb' \in {cb, NoMessage}
    PROVE  Plans' /\ OnePause' /\ Waits' /\ Off' /\ Quieted' /\ FaceAsked'
<1>1. /\ \A c \in Callers, t \in Threads : Asks(c) \in Work(t) <=> Asks(c) \in Work(t)'
      /\ \A k \in Kinds : Clear(k) => Clear(k)'
      /\ \A k \in Kinds : ThreadOf(k) \in Threads
    BY MessagesAre DEF Asks, Clear
<1>2. UNCHANGED <<mMsgTypeEnabled, todo, sem, commandThreadCommandQ>>
    BY DEF callers
<1>3. \A c \in Callers, t \in Threads : Pausing(c, t) <=> Pausing(c, t)'
    BY <1>1, <1>2 DEF Pausing, Will
<1>4. \A c \in Callers : \A op : /\ Has(c, op) <=> Has(c, op)'
                                 /\ Does(c, op) <=> Does(c, op)'
    BY <1>2 DEF Has, Does
<1>5. "command" \in Callers /\ "api" \in Callers /\ "enc" \in Threads
      /\ {"video", "preview", "face"} \subseteq Kinds /\ "picture" \in Kinds
    BY DEF Callers, Threads, Kinds
<1>6. Plans'
    BY <1>2 DEF IInv, Plans
<1>7. OnePause'
    BY <1>1 DEF IInv, OnePause, Asks
<1>8. Waits'
  <2>1. AnswerDue <=> AnswerDue'
      BY <1>2, <1>4, <1>5 DEF AnswerDue
  <2>2. /\ \A c \in Callers, t \in Threads : Asks(c) \in Work(t)' => Does(c, "await")' /\ ~ sem'[c]
        /\ \A c \in Callers : sem'[c] => Does(c, "await")'
        /\ AnswerDue' => Does("api", "await")' /\ ~ sem'["api"]
      BY <1>1, <1>2, <1>4, <1>5, <2>1 DEF IInv, Waits
  <2>3. \A i \in DOMAIN commandThreadCommandQ' : commandThreadCommandQ'[i] \in Waiting
               => i = Len(commandThreadCommandQ') /\ ~ Has("command", "answer")'
      BY <1>2, <1>4, <1>5 DEF IInv, Waits
  <2>4. (Does("api", "stop faces") \/ \E t \in Threads : Pausing("api", t))'
           => CommandThreadIdle'
      BY <1>2, <1>3, <1>4, <1>5 DEF IInv, Waits, CommandThreadIdle
  <2> QED
      BY <2>2, <2>3, <2>4, Asks("command") = Asks("command")' DEF Waits, Asks
<1>9. Off'
  <2> SUFFICES ASSUME NEW k \in {"video", "preview", "face"}, k \notin mRunningState'
               PROVE  Clear(k)' \/ Pausing(Stopper(k), ThreadOf(k))'
      BY DEF Off
  <2>1. Clear(k) \/ Pausing(Stopper(k), ThreadOf(k))
      BY DEF IInv, Off
  <2>2. Stopper(k) \in Callers /\ k \in Kinds /\ ThreadOf(k) \in Threads
      BY <1>1, <1>5 DEF Stopper
  <2> QED
      BY <2>1, <2>2, <1>1, <1>3
<1>10. Quieted'
    BY <1>1, <1>2, <1>3, <1>4, <1>5 DEF IInv, Quieted
<1>11. FaceAsked'
    BY <1>1, <1>2, <1>4, <1>5, MessagesAre DEF IInv, FaceAsked, None
<1> QED
    BY <1>6, <1>7, <1>8, <1>9, <1>10, <1>11

\* A frame is returned by the thread that has it.
LEMMA FrameReturned ==
    ASSUME Apart, Known, QueuesTyped, None \notin Frames, NEW t \in Threads, NEW m \in Work(t),
           Work(t)' = Work(t) \ {m}, \A u \in Threads \ {t} : Work(u)' = Work(u),
           returnFrame(m.frame), UNCHANGED cb, cb \in FrameMessages \union {NoMessage},
           m \in FrameMessages
    PROVE  Apart' /\ Known'
<1>1. \A u \in Threads : Work(u)' \subseteq Work(u)
    OBVIOUS
<1>2. m.frame \in Frames /\ m.frame # None /\ (cb # NoMessage => cb.frame # m.frame)
      /\ NoMessage.frame = None
    BY MessagesAre DEF Apart
<1>3. Apart'
    BY <1>1 DEF Apart
<1>4. Known'
  <2> SUFFICES ASSUME NEW f \in Frames
               PROVE  f \in mFrameInfoArray' <=>
                         cb'.frame = f \/ \E u \in Threads : \E n \in Work(u)' : n.frame = f
      BY DEF Known
  <2>1. f \in mFrameInfoArray' <=> f \in mFrameInfoArray /\ f # m.frame
      BY DEF returnFrame
  <2>2. f \in mFrameInfoArray <=> cb.frame = f \/ \E u \in Threads : \E n \in Work(u) : n.frame = f
      BY DEF Known
  <2>3. f # m.frame => ((\E u \in Threads : \E n \in Work(u) : n.frame = f)
                           <=> \E u \in Threads : \E n \in Work(u)' : n.frame = f)
    <3>1. \A u \in Threads : \A n \in Work(u) : n.frame = f /\ f # m.frame => n \in Work(u)'
        OBVIOUS
    <3> QED
        BY <3>1, <1>1
  <2>4. f = m.frame => /\ cb'.frame # f
                       /\ ~ \E u \in Threads : \E n \in Work(u)' : n.frame = f
    <3>1. \A u \in Threads : \A n \in Work(u) : n.frame = m.frame => n = m
        BY <1>2 DEF Apart
    <3>2. \A u \in Threads : m \notin Work(u)'
      <4> SUFFICES ASSUME NEW u \in Threads \ {t}, m \in Work(u) PROVE FALSE
          OBVIOUS
      <4>1. m \in Sendable(u) /\ m \in Sendable(t)
        <5>1. \A v \in Threads : queue[v] \in Seq(Sendable(v)) /\ ThreadTyped(v)
            BY DEF QueuesTyped
        <5>2. \A v \in Threads : Queued(v) \subseteq Sendable(v)
            BY <5>1, ElementsIn DEF Queued
        <5>3. \A v \in Threads : thread[v].msg \in Sendable(v) \union {NoMessage}
            BY <5>1 DEF ThreadTyped, Sendable
        <5> QED
            BY <5>2, <5>3 DEF Work
      <4>2. m \notin Pauses
          BY MessagesAre
      <4> QED
          BY <4>1, <4>2 DEF Sendable
    <3> QED
        BY <3>1, <3>2, <1>1, <1>2
  <2> QED
      BY <2>1, <2>2, <2>3, <2>4
<1> QED
    BY <1>3, <1>4
\* What is known of a message at work
LEMMA WorkTyped ==
    ASSUME QueuesTyped, None \notin Frames
    PROVE  \A t \in Threads :
               /\ Queued(t) \subseteq Sendable(t) /\ Work(t) \subseteq Sendable(t)
               /\ Queued(t) \subseteq Work(t) /\ Sendable(t) \subseteq Sent
               /\ thread[t].at \in {"process", "drain"} =>
                     thread[t].msg \in Work(t) /\ thread[t].msg # NoMessage
               /\ thread[t].at \in {"receive", "find"} => Work(t) = Queued(t)
<1> SUFFICES ASSUME NEW t \in Threads
             PROVE  /\ Queued(t) \subseteq Sendable(t) /\ Work(t) \subseteq Sendable(t)
                    /\ Queued(t) \subseteq Work(t) /\ Sendable(t) \subseteq Sent
                    /\ thread[t].at \in {"process", "drain"} =>
                          thread[t].msg \in Work(t) /\ thread[t].msg # NoMessage
                    /\ thread[t].at \in {"receive", "find"} => Work(t) = Queued(t)
    OBVIOUS
<1>1. queue[t] \in Seq(Sendable(t)) /\ ThreadTyped(t)
    BY DEF QueuesTyped
<1>2. Queued(t) \subseteq Sendable(t)
    BY <1>1, ElementsIn DEF Queued
<1>3. thread[t].msg \in Sendable(t) \union {NoMessage} /\ Sendable(t) \subseteq Sent
    BY <1>1 DEF ThreadTyped, Sendable, Sent
<1>4. thread[t].at \in {"process", "drain"} => thread[t].msg \in Sendable(t)
    BY <1>1 DEF ThreadTyped, Sendable
<1>5. thread[t].at \in {"receive", "find"} => thread[t].msg = NoMessage
    BY <1>1 DEF ThreadTyped
<1> QED
    BY <1>2, <1>3, <1>4, <1>5, MessagesAre DEF Work

LEMMA NothingElseChanges ==
    ASSUME FlagsTyped, CallersTyped
    PROVE  /\ UNCHANGED <<flags, pictures, mFrameInfoArray, cb>> => FlagsTyped'
           /\ UNCHANGED callers => CallersTyped'
BY DEF FlagsTyped, CallersTyped, flags, callers

\* Pictures that a step has nothing to do with
LEMMA PicturesStay ==
    ASSUME Pictures, UNCHANGED <<pictures, mRunningState>>, cb' \in {cb, NoMessage},
           "picture" \in mRunningState => Len(queue'["enc"]) = Len(queue["enc"]),
           "picture" \notin mRunningState => Queued("enc")' \subseteq Queued("enc"),
           \A c \in Callers : Pausing(c, "enc")' => Pausing(c, "enc")
    PROVE  Pictures'
BY DEF Pictures, NoMessage, Message, None

LEMMA PausingStays ==
    ASSUME UNCHANGED todo, NEW t \in Threads, None \notin Frames,
           \A m \in Pauses : m \in Work(t)' => m \in Work(t)
    PROVE  \A c \in Callers : Pausing(c, t)' => Pausing(c, t)
BY MessagesAre DEF Pausing, Will, Asks

LEMMA ApartStays ==
    ASSUME Apart, Known, UNCHANGED <<mFrameInfoArray, cb>>,
           \A t \in Threads : Work(t)' = Work(t)
    PROVE  Apart' /\ Known'
BY DEF Apart, Known
-----------------------------------------------------------------------------
(* The threads                                                               *)

LEMMA ReceiveFrameKeeps ==
    ASSUME IInv, None \notin Frames, NEW t \in Threads, ReceiveFrame(t)
    PROVE  IInv'
<1>1. TypeOK /\ AllDistinct /\ Apart /\ Known /\ Pictures
    BY DEF IInv
<1>2. /\ t # "enc" /\ Receives(t, Kinds) /\ Goes(t, "process", Head(queue[t]))
      /\ UNCHANGED <<mRunningState, mMsgTypeEnabled, pictures, mFrameInfoArray, cb, callers, todo>>
    BY DEF ReceiveFrame, flags, frames, callers
<1>3. Head(queue[t]) \notin Pauses
    BY <1>2, MessagesAre DEF Receives, Kinds
<1>4. /\ QueuesTyped' /\ \A u \in Threads : Work(u)' = Work(u) /\ Distinct(u)'
      /\ queue'["enc"] = queue["enc"] /\ Queued("enc")' = Queued("enc")
  <2>1. QueuesTyped /\ Distinct(t) /\ \A u \in Threads : Distinct(u)
      BY <1>1 DEF TypeOK, AllDistinct
  <2>2. /\ QueuesTyped' /\ Distinct(t)' /\ Work(t)' = Work(t)
        /\ \A u \in Threads \ {t} : /\ Work(u)' = Work(u) /\ Queued(u)' = Queued(u)
                                    /\ queue'[u] = queue[u] /\ (Distinct(u) => Distinct(u)')
    <3>1. Receives(t, Kinds) /\ Goes(t, "process", Head(queue[t]))
        BY <1>2
    <3> QED
        BY <3>1, <1>3, <2>1, Takes
  <2>3. "enc" \in Threads \ {t}
      BY <1>2 DEF Threads
  <2> QED
      BY <2>1, <2>2, <2>3
<1>5. TypeOK' /\ AllDistinct'
    BY <1>1, <1>4, NothingElseChanges DEF TypeOK, AllDistinct, ReceiveFrame, frames
<1>6. Plans' /\ OnePause' /\ Waits' /\ Off' /\ Quieted' /\ FaceAsked'
    BY <1>2, <1>4, Shrinks
<1>7. Apart' /\ Known'
    BY <1>1, <1>2, <1>4, ApartStays
<1>8. Pictures'
  <2>1. \A c \in Callers : Pausing(c, "enc")' => Pausing(c, "enc")
      BY <1>2, <1>4, PausingStays DEF Threads
  <2> QED
      BY <1>1, <1>2, <1>4, <2>1, PicturesStay
<1> QED
    BY <1>5, <1>6, <1>7, <1>8 DEF IInv

LEMMA ReceivePauseKeeps ==
    ASSUME IInv, None \notin Frames, NEW t \in Threads, ReceivePause(t)
    PROVE  IInv'
<1>1. TypeOK /\ AllDistinct /\ Apart /\ Known /\ Pictures
    BY DEF IInv
<1>2. /\ Receives(t, {"PAUSE"}) /\ Goes(t, "drain", Head(queue[t]))
      /\ UNCHANGED <<mRunningState, mMsgTypeEnabled, pictures, mFrameInfoArray, cb, callers, todo>>
    BY DEF ReceivePause, flags, frames, callers, counts
<1>3. Head(queue[t]) \in Pauses /\ Head(queue[t]) \in Queued(t)
  <2>1. queue[t] \in Seq(Sendable(t)) /\ queue[t] # <<>> /\ Head(queue[t]).cmd = "PAUSE"
      BY <1>1, <1>2 DEF TypeOK, QueuesTyped, Receives
  <2>2. Head(queue[t]) \in Sendable(t) /\ Head(queue[t]) \in Queued(t)
      BY <2>1, Taken DEF Queued
  <2> QED
      BY <2>1, <2>2, MessagesAre DEF Sendable
<1>4. /\ QueuesTyped' /\ \A u \in Threads : /\ Work(u)' = Work(u) /\ Distinct(u)'
                                            /\ Queued(u)' \subseteq Queued(u)
      /\ t # "enc" => queue'["enc"] = queue["enc"]
    BY <1>1, <1>2, <1>3, Takes DEF TypeOK, AllDistinct, Threads
<1>5. TypeOK' /\ AllDistinct'
    BY <1>1, <1>4, NothingElseChanges DEF TypeOK, AllDistinct, ReceivePause, frames, counts
<1>6. Plans' /\ OnePause' /\ Waits' /\ Off' /\ Quieted' /\ FaceAsked'
    BY <1>2, <1>4, Shrinks
<1>7. Apart' /\ Known'
    BY <1>1, <1>2, <1>4, ApartStays
<1>8. Pictures'
  <2>1. \A c \in Callers : Pausing(c, "enc")' => Pausing(c, "enc")
      BY <1>2, <1>4, PausingStays DEF Threads
  <2>2. t = "enc" => "picture" \notin mRunningState
    <3>1. \E c \in Callers : Asks(c) \in Work(t)
        BY <1>1, <1>3, MessagesAre, WorkTyped DEF TypeOK, Asks
    <3> QED
        BY <1>1, <3>1 DEF Pictures, Pausing
  <2>3. "enc" \in Threads
      BY DEF Threads
  <2> QED
      BY <1>1, <1>2, <1>4, <2>1, <2>2, <2>3, PicturesStay
<1> QED
    BY <1>5, <1>6, <1>7, <1>8 DEF IInv
LEMMA ReceiveSnapshotKeeps ==
    ASSUME IInv, None \notin Frames, ReceiveSnapshot
    PROVE  IInv'
<1> DEFINE h == Head(queue["enc"])
<1>1. TypeOK /\ AllDistinct /\ Apart /\ Known /\ Pictures
    BY DEF IInv
<1>2. /\ Receives("enc", {"picture"}) /\ Goes("enc", "process", Head(queue["enc"]))
      /\ UNCHANGED <<received, mMsgTypeEnabled, mFrameInfoArray, cb, callers, todo>>
      /\ "enc" \in Threads /\ "picture" \in Kinds
    BY DEF ReceiveSnapshot, frames, callers, Threads, Kinds
<1>3. h \in Queued("enc") /\ h.cmd = "picture" /\ h \notin Pauses
  <2>1. queue["enc"] \in Seq(Sendable("enc")) /\ queue["enc"] # <<>> /\ h.cmd = "picture"
      BY <1>1, <1>2 DEF TypeOK, QueuesTyped, Receives
  <2> QED
      BY <2>1, Taken, MessagesAre DEF Queued
<1>4. /\ QueuesTyped' /\ \A u \in Threads : Work(u)' = Work(u) /\ Distinct(u)'
      /\ Queued("enc")' \subseteq Queued("enc")
      /\ Len(queue'["enc"]) = Len(queue["enc"]) - 1 /\ Len(queue["enc"]) \in Nat \ {0}
  <2>1. QueuesTyped /\ \A u \in Threads : Distinct(u)
      BY <1>1 DEF TypeOK, AllDistinct
  <2>2. /\ QueuesTyped' /\ Distinct("enc")' /\ Work("enc")' = Work("enc")
        /\ Queued("enc")' = Queued("enc") \ {h}
        /\ Len(queue'["enc"]) = Len(queue["enc"]) - 1 /\ Len(queue["enc"]) \in Nat \ {0}
        /\ \A u \in Threads \ {"enc"} : Work(u)' = Work(u) /\ (Distinct(u) => Distinct(u)')
      BY <1>2, <1>3, <2>1, Takes
  <2> QED
      BY <2>1, <2>2
<1>5. /\ "picture" \in mRunningState /\ pictures \in [num : Nat, enc : Nat] /\ pictures.enc > 0
      /\ pictures.enc = pictures.num + Len(queue["enc"])
    BY <1>1, <1>3 DEF Pictures, TypeOK, FlagsTyped
<1>6. /\ pictures' = [num |-> pictures.num, enc |-> pictures.enc - 1]
      /\ pictures.enc = 1 => mRunningState' = mRunningState \ {"picture"}
      /\ pictures.enc # 1 => mRunningState' = mRunningState
    BY <1>5 DEF ReceiveSnapshot
<1>7. TypeOK' /\ AllDistinct'
  <2>1. FlagsTyped'
    <3>1. pictures.num \in Nat /\ pictures.enc \in Nat /\ pictures.enc > 0
        BY <1>5
    <3>2. pictures.enc - 1 \in Nat
        BY <3>1
    <3>3. pictures' \in [num : Nat, enc : Nat] /\ mRunningState' \subseteq mRunningState
        BY <1>6, <3>1, <3>2
    <3> QED
        BY <1>1, <1>2, <3>3 DEF TypeOK, FlagsTyped
  <2> QED
      BY <1>1, <1>2, <1>4, <2>1, NothingElseChanges DEF TypeOK, AllDistinct
<1>8. Plans' /\ OnePause' /\ Waits' /\ Off' /\ Quieted' /\ FaceAsked'
  <2>1. /\ mRunningState' \subseteq mRunningState
        /\ \A k \in {"video", "preview", "face"} : k \in mRunningState => k \in mRunningState'
      BY <1>6
  <2> QED
      BY <1>2, <1>4, <2>1, Shrinks
<1>9. Apart' /\ Known'
    BY <1>1, <1>2, <1>4, ApartStays
<1>10. Pictures'
  <2>1. CASE pictures.enc = 1
    <3>1. pictures.num = 0 /\ Len(queue["enc"]) = 1
      <4>1. pictures.num \in Nat /\ 1 = pictures.num + Len(queue["enc"])
          BY <1>5, <2>1
      <4>2. Len(queue["enc"]) \in Nat \ {0}
          BY <1>4
      <4>3. \A a \in Nat : \A b \in Nat \ {0} : 1 = a + b => a = 0 /\ b = 1
          OBVIOUS
      <4> QED
          BY ONLY <4>1, <4>2, <4>3
    <3>2. pictures'.enc = 0 /\ pictures'.num = 0 /\ "picture" \notin mRunningState'
        BY <1>6, <2>1, <3>1
    <3>3. cb'.cmd # "picture"
        BY <1>1, <1>2, <3>1 DEF Pictures
    <3>4. queue'["enc"] = <<>>
      <4>1. queue'["enc"] \in Seq(Sendable("enc")) /\ Len(queue'["enc"]) = 0
          BY <1>2, <1>4, <3>1 DEF QueuesTyped
      <4> QED
          BY <4>1
    <3>5. Queued("enc")' = {}
        BY <3>4, NothingIn DEF Queued
    <3> QED
        BY <3>2, <3>3, <3>5 DEF Pictures
  <2>2. CASE pictures.enc # 1
    <3>1. /\ pictures'.enc > 0 /\ pictures'.enc = pictures'.num + Len(queue'["enc"])
          /\ pictures'.num = pictures.num
        BY <1>4, <1>5, <1>6, <2>2
    <3>2. \A c \in Callers : ~ Pausing(c, "enc")'
        BY <1>1, <1>2, <1>4, <1>5, PausingStays DEF Pictures
    <3>3. "picture" \in mRunningState'
        BY <1>5, <1>6, <2>2
    <3>4. cb'.cmd = "picture" => pictures'.num > 0
        BY <1>1, <1>2, <3>1 DEF Pictures
    <3> QED
        BY <3>1, <3>2, <3>3, <3>4 DEF Pictures
  <2> QED
      BY <2>1, <2>2
<1> QED
    BY <1>7, <1>8, <1>9, <1>10 DEF IInv

\* A thread that is done with a frame has returned it.
LEMMA FrameFinished ==
    ASSUME IInv, None \notin Frames, NEW t \in Threads, NEW at, thread[t].at = "process",
           Goes(t, at, NoMessage), UNCHANGED <<queue, mRunningState, received, mMsgTypeEnabled,
                                               pictures, cb, callers>>,
           returnFrame(thread[t].msg.frame), at \in {"receive", "find"}, at = "find" => t = "face"
    PROVE  IInv'
<1> DEFINE m == thread[t].msg
<1>1. TypeOK /\ AllDistinct /\ Apart /\ Known /\ Pictures
    BY DEF IInv
<1>2. m \in FrameMessages /\ m \in Work(t) /\ m \notin Pauses
    BY <1>1, MessagesAre, WorkTyped DEF TypeOK, QueuesTyped, ThreadTyped, Sendable
<1>3. /\ QueuesTyped' /\ Distinct(t)' /\ Work(t)' = Work(t) \ {m}
      /\ \A u \in Threads : queue'[u] = queue[u] /\ Queued(u)' = Queued(u)
      /\ \A u \in Threads \ {t} : Work(u)' = Work(u) /\ (Distinct(u) => Distinct(u)')
  <2>1. QueuesTyped /\ Distinct(t)
      BY <1>1 DEF TypeOK, AllDistinct
  <2> QED
      BY <2>1, Finishes
<1> HIDE DEF m
<1>4. UNCHANGED todo
    BY DEF callers
<1>5. TypeOK' /\ AllDistinct'
  <2>1. AllDistinct'
      BY <1>1, <1>3 DEF AllDistinct
  <2>2. FlagsTyped'
      BY <1>1 DEF TypeOK, FlagsTyped, returnFrame
  <2> QED
      BY <1>1, <1>3, <2>1, <2>2, NothingElseChanges DEF TypeOK
<1>6. Plans' /\ OnePause' /\ Waits' /\ Off' /\ Quieted' /\ FaceAsked'
    BY <1>2, <1>3, Shrinks
<1>7. Apart' /\ Known'
    BY <1>1, <1>2, <1>3, FrameReturned, m = thread[t].msg DEF TypeOK, FlagsTyped, m
<1>8. Pictures'
  <2>1. \A c \in Callers : Pausing(c, "enc")' => Pausing(c, "enc")
      BY <1>2, <1>3, <1>4, PausingStays DEF Threads
  <2>2. "enc" \in Threads
      BY DEF Threads
  <2> QED
      BY <1>1, <1>3, <2>1, <2>2, PicturesStay
<1> QED
    BY <1>5, <1>6, <1>7, <1>8 DEF IInv

LEMMA FrameDoneKeeps ==
    ASSUME IInv, None \notin Frames, NEW t \in Threads, FrameDone(t)
    PROVE  IInv'
<1>1. /\ thread[t].at = "process" /\ Goes(t, "receive", NoMessage)
      /\ returnFrame(thread[t].msg.frame)
      /\ UNCHANGED <<queue, mRunningState, received, mMsgTypeEnabled, pictures, cb, callers>>
    BY DEF FrameDone, Goes, Idle, flags, counts
<1> QED
    BY <1>1, FrameFinished

LEMMA FaceProcessKeeps ==
    ASSUME IInv, None \notin Frames, FaceProcess
    PROVE  IInv'
<1>1. /\ thread["face"].at = "process" /\ Goes("face", "find", NoMessage) /\ "face" \in Threads
      /\ UNCHANGED <<queue, mRunningState, received, mMsgTypeEnabled, pictures, cb, callers>>
    BY DEF FaceProcess, flags, counts, Threads
<1>2. "face" \in mMsgTypeEnabled
  <2>1. TypeOK /\ FaceAsked
      BY DEF IInv
  <2>2. thread["face"].msg \in Work("face") /\ thread["face"].msg \in Sendable("face") \ Pauses
      BY <1>1, <2>1, WorkTyped DEF TypeOK, QueuesTyped, ThreadTyped
  <2>3. thread["face"].msg.cmd = "face" /\ ThreadOf("face") = "face"
      BY <2>2 DEF Sendable, ThreadOf, FrameMessages, Kinds
  <2> QED
      BY <2>1, <2>2, <2>3 DEF FaceAsked, Clear
<1>3. returnFrame(thread["face"].msg.frame)
    BY <1>2 DEF FaceProcess
<1> QED
    BY <1>1, <1>3, FrameFinished

LEMMA FaceFoundKeeps ==
    ASSUME IInv, None \notin Frames, FaceFound
    PROVE  IInv'
<1>1. TypeOK /\ AllDistinct /\ Apart /\ Known /\ Pictures
    BY DEF IInv
<1>2. /\ thread["face"].at = "find" /\ Goes("face", "receive", NoMessage)
      /\ UNCHANGED <<queue, flags, mRunningState, mMsgTypeEnabled, pictures, mFrameInfoArray, cb,
                     callers, todo>>
      /\ "face" \in Threads
    BY DEF FaceFound, flags, frames, callers, Goes, Idle, Threads
<1>3. /\ QueuesTyped' /\ \A u \in Threads : Distinct(u)'
      /\ \A u \in Threads : Work(u)' = Work(u) /\ queue'[u] = queue[u] /\ Queued(u)' = Queued(u)
  <2>1. QueuesTyped /\ \A u \in Threads : Distinct(u)
      BY <1>1 DEF TypeOK, AllDistinct
  <2>2. thread["face"].msg = NoMessage /\ NoMessage \notin Work("face")
      BY <1>2, <2>1, WorkTyped, MessagesAre DEF QueuesTyped, ThreadTyped
  <2>3. /\ QueuesTyped' /\ Distinct("face")' /\ Work("face")' = Work("face") \ {NoMessage}
        /\ \A u \in Threads : queue'[u] = queue[u] /\ Queued(u)' = Queued(u)
        /\ \A u \in Threads \ {"face"} : Work(u)' = Work(u) /\ (Distinct(u) => Distinct(u)')
      BY <1>2, <2>1, <2>2, Finishes
  <2> QED
      BY <2>1, <2>2, <2>3
<1>4. TypeOK' /\ AllDistinct'
    BY <1>1, <1>2, <1>3, NothingElseChanges DEF TypeOK, AllDistinct
<1>5. Plans' /\ OnePause' /\ Waits' /\ Off' /\ Quieted' /\ FaceAsked'
    BY <1>2, <1>3, Shrinks
<1>6. Apart' /\ Known'
    BY <1>1, <1>2, <1>3, ApartStays
<1>7. Pictures'
  <2>1. \A c \in Callers : Pausing(c, "enc")' => Pausing(c, "enc")
      BY <1>2, <1>3, PausingStays DEF Threads
  <2>2. "enc" \in Threads
      BY DEF Threads
  <2> QED
      BY <1>1, <1>2, <1>3, <2>1, <2>2, PicturesStay
<1> QED
    BY <1>4, <1>5, <1>6, <1>7 DEF IInv
LEMMA DrainKeeps ==
    ASSUME IInv, None \notin Frames, NEW t \in Threads, Drain(t)
    PROVE  IInv'
<1> DEFINE h == Head(queue[t])
<1>1. TypeOK /\ AllDistinct /\ OnePause /\ Apart /\ Known /\ Pictures
    BY DEF IInv
<1>2. /\ queue[t] # <<>> /\ queue' = [queue EXCEPT ![t] = Tail(@)] /\ thread[t].at = "drain"
      /\ UNCHANGED <<mRunningState, received, mMsgTypeEnabled, pictures, cb, callers, todo>>
    BY DEF Drain, flags, counts, callers
<1>3. \E c \in Callers : thread[t].msg = Asks(c) /\ Asks(c) \in Work(t)
    BY <1>1, <1>2, WorkTyped, MessagesAre DEF TypeOK, QueuesTyped, ThreadTyped, Asks
<1>4. h \in Queued(t) /\ h \in Sendable(t) /\ h \in Work(t)
  <2>1. queue[t] \in Seq(Sendable(t))
      BY <1>1 DEF TypeOK, QueuesTyped
  <2>2. h \in Queued(t)
      BY <1>2, <2>1, Taken DEF Queued
  <2> QED
      BY <1>1, <2>2, WorkTyped DEF TypeOK
<1> HIDE DEF h
<1>5. h \notin Pauses /\ h \in FrameMessages
  <2>1. ASSUME h \in Pauses PROVE FALSE
    <3>1. PICK c \in Callers : thread[t].msg = Asks(c) /\ Asks(c) \in Work(t)
        BY <1>3
    <3>2. PICK d \in Callers : h = Asks(d)
        BY <2>1, MessagesAre DEF Asks
    <3>3. c = d
        BY <1>1, <1>4, <3>1, <3>2 DEF OnePause
    <3> QED
        BY <1>1, <1>4, <3>1, <3>2, <3>3 DEF AllDistinct, Distinct
  <2> QED
      BY <1>4, <2>1 DEF Sendable
<1>6. t = "enc" => "picture" \notin mRunningState
    BY <1>1, <1>3 DEF Pictures, Pausing
<1>7. h.cmd # "picture"
  <2> SUFFICES ASSUME h.cmd = "picture" PROVE FALSE
      OBVIOUS
  <2>1. t = "enc"
      BY <1>4, <1>5 DEF Sendable, ThreadOf
  <2> QED
      BY <1>1, <1>4, <1>6, <2>1 DEF Pictures
<1>8. UNCHANGED thread /\ returnFrame(h.frame)
    BY <1>7 DEF Drain, h
<1>9. /\ QueuesTyped' /\ Distinct(t)' /\ Work(t)' = Work(t) \ {h}
      /\ Queued(t)' \subseteq Queued(t)
      /\ \A u \in Threads \ {t} : /\ Work(u)' = Work(u) /\ Queued(u)' = Queued(u)
                                  /\ queue'[u] = queue[u] /\ (Distinct(u) => Distinct(u)')
  <2>1. QueuesTyped /\ Distinct(t)
      BY <1>1 DEF TypeOK, AllDistinct
  <2> QED
      BY <1>2, <1>8, <2>1, Drops DEF h
<1>10. TypeOK' /\ AllDistinct'
  <2>1. AllDistinct'
      BY <1>1, <1>9 DEF AllDistinct
  <2>2. FlagsTyped'
      BY <1>1, <1>2, <1>8 DEF TypeOK, FlagsTyped, returnFrame
  <2> QED
      BY <1>1, <1>2, <1>9, <2>1, <2>2, NothingElseChanges DEF TypeOK
<1>11. Plans' /\ OnePause' /\ Waits' /\ Off' /\ Quieted' /\ FaceAsked'
    BY <1>2, <1>5, <1>9, Shrinks
<1>12. Apart' /\ Known'
    BY <1>1, <1>2, <1>4, <1>5, <1>8, <1>9, FrameReturned DEF TypeOK, FlagsTyped
<1>13. Pictures'
  <2>1. \A c \in Callers : Pausing(c, "enc")' => Pausing(c, "enc")
      BY <1>2, <1>9, PausingStays DEF Threads
  <2>2. "enc" \in Threads
      BY DEF Threads
  <2> QED
      BY <1>1, <1>2, <1>6, <1>9, <2>1, <2>2, PicturesStay
<1> QED
    BY <1>10, <1>11, <1>12, <1>13 DEF IInv

LEMMA PausedKeeps ==
    ASSUME IInv, None \notin Frames, NEW t \in Threads, Paused(t)
    PROVE  IInv'
<1>1. /\ TypeOK /\ AllDistinct /\ Plans /\ OnePause /\ Waits /\ Apart /\ Known
      /\ Off /\ Quieted /\ FaceAsked /\ Pictures
    BY DEF IInv
<1>2. /\ thread[t].at = "drain" /\ queue[t] = <<>>
      /\ sem' = [sem EXCEPT ![thread[t].msg.caller] = TRUE]
      /\ Goes(t, "receive", NoMessage)
      /\ UNCHANGED <<flags, mRunningState, mMsgTypeEnabled, pictures, queue, mFrameInfoArray, cb,
                     commandThreadCommandQ, todo>>
    BY DEF Paused, Goes, Idle, flags, counts, frames
<1>3. PICK c \in Callers : thread[t].msg = Asks(c) /\ Asks(c).caller = c /\ Asks(c).frame = None
                           /\ Asks(c) \in Work(t)
    BY <1>1, <1>2, WorkTyped, MessagesAre DEF TypeOK, QueuesTyped, ThreadTyped, Asks, Message
<1>4. Work(t) = {Asks(c)}
    BY <1>2, <1>3, NothingIn DEF Work, Queued
<1>5. /\ QueuesTyped' /\ Distinct(t)' /\ Work(t)' = {}
      /\ \A u \in Threads : queue'[u] = queue[u] /\ Queued(u)' = Queued(u)
      /\ \A u \in Threads \ {t} : Work(u)' = Work(u) /\ (Distinct(u) => Distinct(u)')
  <2>1. QueuesTyped /\ Distinct(t)
      BY <1>1 DEF TypeOK, AllDistinct
  <2> QED
      BY <1>2, <1>3, <1>4, <2>1, Finishes
<1>6. \A d \in Callers, u \in Threads : Asks(d) \notin Work(u)'
  <2> SUFFICES ASSUME NEW d \in Callers, NEW u \in Threads, Asks(d) \in Work(u)' PROVE FALSE
      OBVIOUS
  <2>1. u # t /\ Asks(d) \in Work(u)
      BY <1>5
  <2> QED
      BY <1>1, <1>3, <2>1 DEF OnePause
<1>7. sem'[c] = TRUE /\ \A d \in Callers \ {c} : sem'[d] = sem[d]
    BY <1>1, <1>2, <1>3 DEF TypeOK, CallersTyped
<1>8. TypeOK' /\ AllDistinct'
  <2>1. AllDistinct'
      BY <1>1, <1>5 DEF AllDistinct
  <2>2. CallersTyped'
      BY <1>1, <1>2 DEF TypeOK, CallersTyped
  <2> QED
      BY <1>1, <1>2, <1>5, <2>1, <2>2, NothingElseChanges DEF TypeOK
<1>9. /\ \A d \in Callers : \A op : (Has(d, op) <=> Has(d, op)') /\ (Does(d, op) <=> Does(d, op)')
      /\ \A d \in Callers, u \in Threads : Will(d, On("pause", u)) <=> Will(d, On("pause", u))'
      /\ \A k \in Kinds : Clear(k) => Clear(k)'
      /\ \A k \in Kinds : ThreadOf(k) = t => Clear(k)'
      /\ \A k \in Kinds : ThreadOf(k) # t => (Clear(k)' <=> Clear(k))
  <2>1. \A u \in Threads : Work(u)' \subseteq Work(u)
      BY <1>5
  <2>2. \A k \in Kinds : ThreadOf(k) \in Threads
      BY MessagesAre
  <2> QED
      BY <1>2, <1>5, <2>1, <2>2 DEF Has, Does, Will, Clear
<1>10. \A d \in Callers, u \in Threads \ {t} : Pausing(d, u) <=> Pausing(d, u)'
    BY <1>5, <1>9 DEF Pausing, Asks
<1>11. "api" \in Callers /\ "command" \in Callers /\ "enc" \in Threads
       /\ {"video", "preview", "face"} \subseteq Kinds /\ "picture" \in Kinds
       /\ ThreadOf("picture") = "enc"
    BY DEF Callers, Threads, Kinds, ThreadOf
<1>12. Plans' /\ OnePause'
    BY <1>1, <1>2, <1>6 DEF Plans, OnePause, Asks
<1>13. Waits'
  <2>1. AnswerDue <=> AnswerDue'
      BY <1>2, <1>9, <1>11 DEF AnswerDue
  <2>2. c = "api" => ~ AnswerDue
    <3> SUFFICES ASSUME c = "api" PROVE ~ AnswerDue
        OBVIOUS
    <3>1. CommandThreadIdle
        BY <1>1, <1>3 DEF Waits, Pausing
    <3> QED
        BY <3>1, NothingIn DEF CommandThreadIdle, AnswerDue, Has, OpsOf
  <2>3. \A d \in Callers : sem'[d] => Does(d, "await")'
      BY <1>1, <1>3, <1>7, <1>9 DEF Waits
  <2>4. AnswerDue' => Does("api", "await")' /\ ~ sem'["api"]
      BY <1>1, <1>7, <1>9, <1>11, <2>1, <2>2 DEF Waits
  <2>5. \A i \in DOMAIN commandThreadCommandQ' : commandThreadCommandQ'[i] \in Waiting
               => i = Len(commandThreadCommandQ') /\ ~ Has("command", "answer")'
      BY <1>1, <1>2, <1>9, <1>11 DEF Waits
  <2>6. (Does("api", "stop faces") \/ \E u \in Threads : Pausing("api", u))'
           => CommandThreadIdle'
    <3>1. \A u \in Threads : Pausing("api", u)' => Will("api", On("pause", u))
        BY <1>6, <1>9, <1>11 DEF Pausing, Asks
    <3> QED
        BY <1>1, <1>2, <1>9, <1>11, <3>1 DEF Waits, CommandThreadIdle, Pausing
  <2> QED
      BY <1>6, <2>3, <2>4, <2>5, <2>6 DEF Waits, Asks
<1>14. Off'
  <2> SUFFICES ASSUME NEW k \in {"video", "preview", "face"}, k \notin mRunningState'
               PROVE  Clear(k)' \/ Pausing(Stopper(k), ThreadOf(k))'
      BY DEF Off
  <2>1. Clear(k) \/ Pausing(Stopper(k), ThreadOf(k))
      BY <1>1, <1>2 DEF Off
  <2>2. Stopper(k) \in Callers /\ k \in Kinds /\ ThreadOf(k) \in Threads
      BY <1>11, MessagesAre DEF Stopper
  <2> QED
      BY <2>1, <2>2, <1>9, <1>10
<1>15. Quieted'
  <2>1. Clear("picture") \/ Pausing("command", "enc")
           => Clear("picture")' \/ Pausing("command", "enc")'
      BY <1>9, <1>10, <1>11
  <2> QED
      BY <1>1, <1>2, <1>9, <1>11, <2>1 DEF Quieted
<1>16. FaceAsked'
    BY <1>1, <1>2, <1>9, <1>11 DEF FaceAsked
<1>17. Apart' /\ Known'
  <2>1. Apart'
      BY <1>1, <1>2, <1>5 DEF Apart
  <2>2. \A f \in Frames : (\E u \in Threads : \E m \in Work(u)' : m.frame = f)
                             <=> \E u \in Threads : \E m \in Work(u) : m.frame = f
      BY <1>3, <1>4, <1>5
  <2> QED
      BY <1>1, <1>2, <2>1, <2>2 DEF Known
<1>18. Pictures'
  <2>1. \A d \in Callers : Pausing(d, "enc")' => Pausing(d, "enc")
      BY <1>6, <1>9, <1>11 DEF Pausing, Asks
  <2> QED
      BY <1>1, <1>2, <1>5, <1>11, <2>1, PicturesStay
<1> QED
    BY <1>8, <1>12, <1>13, <1>14, <1>15, <1>16, <1>17, <1>18 DEF IInv
-----------------------------------------------------------------------------
(* bufferCb                                                                  *)

LEMMA FrameKept ==
    ASSUME IInv, None \notin Frames, cb \in FrameMessages, returnFrame(cb.frame), cb' = NoMessage,
           UNCHANGED <<mRunningState, received, mMsgTypeEnabled, pictures, queue, thread, callers>>
    PROVE  IInv'
<1>1. TypeOK /\ AllDistinct /\ Apart /\ Known /\ Pictures
    BY DEF IInv
<1>2. /\ cb.frame \in Frames /\ cb.frame # None /\ cb # NoMessage
      /\ NoMessage.frame = None /\ UNCHANGED <<todo, threads>>
    BY MessagesAre DEF callers, threads
<1>3. /\ QueuesTyped' /\ \A t \in Threads : Distinct(t)'
      /\ \A t : Work(t)' = Work(t) /\ Queued(t)' = Queued(t)
    BY <1>1, <1>2, Unchanged DEF TypeOK, AllDistinct
<1>4. TypeOK' /\ AllDistinct'
  <2>1. FlagsTyped'
      BY <1>1 DEF TypeOK, FlagsTyped, returnFrame
  <2> QED
      BY <1>1, <1>3, <2>1, NothingElseChanges DEF TypeOK, AllDistinct
<1>5. Plans' /\ OnePause' /\ Waits' /\ Off' /\ Quieted' /\ FaceAsked'
    BY <1>3, Shrinks
<1>6. Apart' /\ Known'
  <2>1. Apart'
      BY <1>1, <1>3 DEF Apart
  <2>2. \A f \in Frames : f \in mFrameInfoArray' <=> f \in mFrameInfoArray /\ f # cb.frame
      BY DEF returnFrame
  <2>3. \A t \in Threads : \A m \in Work(t) : m.frame # cb.frame
      BY <1>1, <1>2 DEF Apart
  <2>4. cb'.frame = None
      BY <1>2
  <2> QED
      BY <1>1, <1>2, <1>3, <2>1, <2>2, <2>3, <2>4 DEF Known
<1>7. Pictures'
  <2>1. \A c \in Callers : Pausing(c, "enc")' => Pausing(c, "enc")
      BY <1>2, <1>3, PausingStays DEF Threads
  <2> QED
      BY <1>1, <1>3, <2>1, PicturesStay
<1> QED
    BY <1>4, <1>5, <1>6, <1>7 DEF IInv

LEMMA FrameSent ==
    ASSUME IInv, None \notin Frames, cb \in FrameMessages, Put(ThreadOf(cb.cmd), cb),
           cb' = NoMessage, cb.cmd # "picture" => cb.cmd \in mRunningState,
           pictures' = IF cb.cmd = "picture" THEN [pictures EXCEPT !.num = @ - 1] ELSE pictures,
           UNCHANGED <<mRunningState, received, mMsgTypeEnabled, mFrameInfoArray, thread, callers>>
    PROVE  IInv'
<1>1. /\ TypeOK /\ AllDistinct /\ Plans /\ OnePause /\ Waits /\ Apart /\ Known
      /\ Off /\ Quieted /\ FaceAsked /\ Pictures
    BY DEF IInv
<1>2. /\ cb.frame \in Frames /\ cb.frame # None /\ cb # NoMessage /\ cb.cmd \in Kinds
      /\ cb.cmd # "PAUSE" /\ cb \notin Pauses
      /\ NoMessage.frame = None /\ NoMessage.cmd = None
      /\ UNCHANGED <<todo, sem, commandThreadCommandQ>>
    BY MessagesAre DEF callers
<1>3. PICK t \in Threads : t = ThreadOf(cb.cmd) /\ cb \in Sendable(t) /\ Put(t, cb)
    BY <1>2, MessagesAre DEF Sendable
<1>4. \A u \in Threads : \A m \in Work(u) : m.frame # cb.frame
    BY <1>1, <1>2 DEF Apart
<1>5. /\ QueuesTyped' /\ Distinct(t)'
      /\ Work(t)' = Work(t) \union {cb} /\ Queued(t)' = Queued(t) \union {cb}
      /\ Len(queue'[t]) = Len(queue[t]) + 1
      /\ \A u \in Threads \ {t} : /\ Work(u)' = Work(u) /\ Queued(u)' = Queued(u)
                                  /\ queue'[u] = queue[u] /\ (Distinct(u) => Distinct(u)')
  <2>1. QueuesTyped /\ Distinct(t) /\ cb \notin Work(t)
      BY <1>1, <1>3, <1>4 DEF TypeOK, AllDistinct
  <2> QED
      BY <1>3, <2>1, Puts
<1>6. cb.cmd = "picture" => /\ "picture" \in mRunningState /\ pictures.num > 0
                            /\ pictures'.num = pictures.num - 1 /\ pictures'.enc = pictures.enc
  <2>1. pictures \in [num : Nat, enc : Nat]
      BY <1>1 DEF TypeOK, FlagsTyped
  <2>2. cb.cmd = "picture" => pictures.num > 0 /\ "picture" \in mRunningState
      BY <1>1 DEF Pictures
  <2> QED
      BY <2>1, <2>2
<1>7. TypeOK' /\ AllDistinct'
  <2>1. AllDistinct'
      BY <1>1, <1>5 DEF AllDistinct
  <2>2. pictures' \in [num : Nat, enc : Nat]
    <3>1. pictures \in [num : Nat, enc : Nat]
        BY <1>1 DEF TypeOK, FlagsTyped
    <3>2. CASE cb.cmd = "picture"
      <4>1. pictures.num - 1 \in Nat
          BY <1>6, <3>1, <3>2
      <4> QED
          BY <3>1, <3>2, <4>1
    <3>3. CASE cb.cmd # "picture"
        BY <3>1, <3>3
    <3> QED
        BY <3>2, <3>3
  <2>3. FlagsTyped'
      BY <1>1, <2>2 DEF TypeOK, FlagsTyped
  <2> QED
      BY <1>1, <1>5, <2>1, <2>3, NothingElseChanges DEF TypeOK
<1>8. /\ \A c \in Callers, u \in Threads : Asks(c) \in Work(u) <=> Asks(c) \in Work(u)'
      /\ \A k \in Kinds : k # cb.cmd => (Clear(k) => Clear(k)')
      /\ \A k \in Kinds : ThreadOf(k) \in Threads
    BY <1>2, <1>5, MessagesAre DEF Asks, Clear
<1>9. \A c \in Callers, u \in Threads : Pausing(c, u) <=> Pausing(c, u)'
    BY <1>2, <1>8 DEF Pausing, Will
<1>10. \A c \in Callers : \A op : /\ Has(c, op) <=> Has(c, op)'
                                  /\ Does(c, op) <=> Does(c, op)'
    BY <1>2 DEF Has, Does
<1>11. /\ "command" \in Callers /\ "api" \in Callers /\ "enc" \in Threads
       /\ {"video", "preview", "face"} \subseteq Kinds /\ "picture" \in Kinds
       /\ ThreadOf("picture") = "enc"
       /\ \A k \in Kinds \ {"picture"} : ThreadOf(k) # "enc"
    BY DEF Callers, Threads, Kinds, ThreadOf
<1>12. Plans' /\ OnePause'
    BY <1>1, <1>2, <1>8 DEF Plans, OnePause, Asks
<1>13. Waits'
  <2>1. AnswerDue <=> AnswerDue'
      BY <1>2, <1>10, <1>11 DEF AnswerDue
  <2>2. /\ \A c \in Callers, u \in Threads : Asks(c) \in Work(u)' => Does(c, "await")' /\ ~ sem'[c]
        /\ \A c \in Callers : sem'[c] => Does(c, "await")'
        /\ AnswerDue' => Does("api", "await")' /\ ~ sem'["api"]
      BY <1>1, <1>2, <1>8, <1>10, <1>11, <2>1 DEF Waits
  <2>3. \A i \in DOMAIN commandThreadCommandQ' : commandThreadCommandQ'[i] \in Waiting
               => i = Len(commandThreadCommandQ') /\ ~ Has("command", "answer")'
      BY <1>1, <1>2, <1>10, <1>11 DEF Waits
  <2>4. (Does("api", "stop faces") \/ \E u \in Threads : Pausing("api", u))'
           => CommandThreadIdle'
      BY <1>1, <1>2, <1>9, <1>10, <1>11 DEF Waits, CommandThreadIdle
  <2> QED
      BY <2>2, <2>3, <2>4 DEF Waits, Asks
<1>14. Off'
  <2> SUFFICES ASSUME NEW k \in {"video", "preview", "face"}, k \notin mRunningState'
               PROVE  Clear(k)' \/ Pausing(Stopper(k), ThreadOf(k))'
      BY DEF Off
  <2>1. Clear(k) \/ Pausing(Stopper(k), ThreadOf(k))
      BY <1>1 DEF Off
  <2>2. Stopper(k) \in Callers /\ k \in Kinds /\ ThreadOf(k) \in Threads /\ k # cb.cmd
      BY <1>8, <1>11 DEF Stopper
  <2> QED
      BY <2>1, <2>2, <1>8, <1>9
<1>15. Quieted'
    BY <1>1, <1>2, <1>6, <1>8, <1>9, <1>10, <1>11 DEF Quieted
<1>16. FaceAsked'
    BY <1>1, <1>2, <1>8, <1>10, <1>11 DEF FaceAsked, None
<1>17. Apart'
  <2>1. \A u \in Threads : \A m \in Work(u)' : m \in Work(u) \/ m = cb
      BY <1>5
  <2>2. \A u, v \in Threads : \A m \in Work(u)', n \in Work(v)' :
            m.frame = n.frame /\ m.frame # None => m = n
    <3> SUFFICES ASSUME NEW u \in Threads, NEW v \in Threads, NEW m \in Work(u)',
                        NEW n \in Work(v)', m.frame = n.frame, m.frame # None
                 PROVE  m = n
        OBVIOUS
    <3>1. (m \in Work(u) \/ m = cb) /\ (n \in Work(v) \/ n = cb)
        BY <2>1
    <3>2. m \in Work(u) /\ n \in Work(v) => m = n
        BY <1>1 DEF Apart
    <3> QED
        BY <1>4, <3>1, <3>2
  <2> QED
      BY <2>2 DEF Apart
<1>18. Known'
  <2>1. \A f \in Frames : (\E u \in Threads : \E m \in Work(u)' : m.frame = f)
           <=> f = cb.frame \/ \E u \in Threads : \E m \in Work(u) : m.frame = f
      BY <1>3, <1>5
  <2> QED
      BY <1>1, <1>2, <2>1 DEF Known
<1>19. Pictures'
  <2>1. "picture" \in mRunningState =>
           pictures'.enc > 0 /\ pictures'.enc = pictures'.num + Len(queue'["enc"])
    <3> SUFFICES ASSUME "picture" \in mRunningState
                 PROVE  pictures'.enc > 0 /\ pictures'.enc = pictures'.num + Len(queue'["enc"])
        OBVIOUS
    <3>1. /\ pictures.enc > 0 /\ pictures.enc = pictures.num + Len(queue["enc"])
          /\ pictures.num \in Nat /\ Len(queue["enc"]) \in Nat
      <4>1. queue["enc"] \in Seq(Sent) /\ pictures \in [num : Nat, enc : Nat]
          BY <1>1, <1>11 DEF TypeOK, QueuesTyped, FlagsTyped
      <4> QED
          BY <1>1, <4>1 DEF Pictures
    <3>2. CASE cb.cmd = "picture"
      <4>1. Len(queue'["enc"]) = Len(queue["enc"]) + 1
          BY <1>3, <1>5, <1>11, <3>2
      <4> QED
          BY <1>6, <3>1, <3>2, <4>1
    <3>3. CASE cb.cmd # "picture"
      <4>1. queue'["enc"] = queue["enc"] /\ pictures' = pictures
          BY <1>2, <1>3, <1>5, <1>11, <3>3
      <4> QED
          BY <3>1, <4>1
    <3> QED
        BY <3>2, <3>3
  <2>2. "picture" \notin mRunningState =>
           /\ pictures'.enc = 0 /\ pictures'.num = 0
           /\ \A m \in Queued("enc")' : m.cmd # "picture"
    <3> SUFFICES ASSUME "picture" \notin mRunningState
                 PROVE  /\ pictures'.enc = 0 /\ pictures'.num = 0
                        /\ \A m \in Queued("enc")' : m.cmd # "picture"
        OBVIOUS
    <3>1. cb.cmd # "picture" /\ t # "enc"
        BY <1>2, <1>3, <1>6, <1>11
    <3> QED
        BY <1>1, <1>5, <1>11, <3>1 DEF Pictures
  <2>3. \A c \in Callers : Pausing(c, "enc")' => Pausing(c, "enc")
      BY <1>9, <1>11
  <2> QED
      BY <1>1, <1>2, <2>1, <2>2, <2>3 DEF Pictures, None
<1> QED
    BY <1>7, <1>12, <1>13, <1>14, <1>15, <1>16, <1>17, <1>18, <1>19 DEF IInv

LEMMA NotifiesKeeps ==
    ASSUME IInv, None \notin Frames, Notifies
    PROVE  IInv'
<1>0. /\ TypeOK
      /\ cb.cmd \in {"face", "video", "preview", "picture"} => cb \in FrameMessages
    BY DEF IInv, TypeOK, FlagsTyped, NoMessage, Message, None
<1>1. ASSUME cb \in FrameMessages, cb.cmd # "picture", UNCHANGED pictures, cb' = NoMessage,
             UNCHANGED <<flags, thread, callers>>,
             \/ /\ cb.cmd \in mRunningState
                /\ Put(ThreadOf(cb.cmd), cb) /\ UNCHANGED mFrameInfoArray
             \/ returnFrame(cb.frame) /\ UNCHANGED queue
      PROVE  IInv'
  <2>1. UNCHANGED <<mRunningState, received, mMsgTypeEnabled, thread, callers>>
      BY <1>1 DEF flags
  <2>2. CASE /\ cb.cmd \in mRunningState
             /\ Put(ThreadOf(cb.cmd), cb) /\ UNCHANGED mFrameInfoArray
    <3>1. pictures' = IF cb.cmd = "picture" THEN [pictures EXCEPT !.num = @ - 1] ELSE pictures
        BY <1>1
    <3> QED
        BY <1>1, <2>1, <2>2, <3>1, FrameSent
  <2>3. CASE returnFrame(cb.frame) /\ UNCHANGED queue
      BY <1>1, <2>1, <2>3, FrameKept
  <2> QED
      BY <1>1, <2>2, <2>3
<1>2. CASE notifyNewFaceDecFrame
    BY <1>0, <1>1, <1>2 DEF notifyNewFaceDecFrame, SendIf
<1>3. CASE notifyNewVideoFrame
    BY <1>0, <1>1, <1>3 DEF notifyNewVideoFrame, counts, SendIf
<1>4. CASE notifyNewPreviewCbFrame
    BY <1>0, <1>1, <1>4 DEF notifyNewPreviewCbFrame, counts, SendIf
<1>5. CASE notifyNewPicFrame
  <2>1. /\ cb.cmd = "picture" /\ cb \in FrameMessages
        /\ pictures' = [pictures EXCEPT !.num = @ - 1]
        /\ Put(ThreadOf(cb.cmd), cb) /\ cb' = NoMessage
        /\ UNCHANGED <<mRunningState, received, mMsgTypeEnabled, mFrameInfoArray, thread, callers>>
      BY <1>0, <1>5 DEF notifyNewPicFrame, SendIf, flags
  <2> QED
      BY <2>1, FrameSent
<1> QED
    BY <1>2, <1>3, <1>4, <1>5 DEF Notifies

LEMMA BufferCbKeeps ==
    ASSUME IInv, None \notin Frames, Allowed = {}, NEW kind \in Kinds, NEW f \in Frames,
           BufferCb(kind, f)
    PROVE  IInv'
<1>1. /\ TypeOK /\ AllDistinct /\ Plans /\ OnePause /\ Waits /\ Apart /\ Known
      /\ Off /\ Quieted /\ FaceAsked /\ Pictures
    BY DEF IInv
<1>2. /\ cb = NoMessage /\ f \notin mFrameInfoArray /\ isNeedSend(kind)
      /\ mFrameInfoArray' = mFrameInfoArray \union {f} /\ cb' = FrameMessage(kind, f)
      /\ UNCHANGED <<mRunningState, received, mMsgTypeEnabled, pictures, queue, thread, threads,
                     sem, todo, commandThreadCommandQ, callers>>
    BY DEF BufferCb, Collected, flags, counts, threads, callers
<1>3. /\ cb' \in FrameMessages /\ cb' # NoMessage /\ cb'.frame = f /\ cb'.cmd = kind
      /\ f # None /\ NoMessage.frame = None /\ NoMessage.cmd = None
    BY <1>2, MessagesAre DEF FrameMessage, Message
<1>4. /\ QueuesTyped' /\ \A t \in Threads : Distinct(t)'
      /\ \A t : Work(t)' = Work(t) /\ Queued(t)' = Queued(t)
    BY <1>1, <1>2, Unchanged DEF TypeOK, AllDistinct
<1>5. TypeOK' /\ AllDistinct'
  <2>1. FlagsTyped'
      BY <1>1, <1>2, <1>3 DEF TypeOK, FlagsTyped
  <2> QED
      BY <1>1, <1>2, <1>4, <2>1, NothingElseChanges DEF TypeOK, AllDistinct
<1>6. \A c, t : Pausing(c, t) <=> Pausing(c, t)'
    BY <1>2, <1>4 DEF Pausing, Will, Asks
<1>7. Plans' /\ OnePause' /\ Waits' /\ Off' /\ Quieted'
  <2>1. Plans' /\ OnePause' /\ Off' /\ Quieted'
      BY <1>1, <1>2, <1>4, <1>6 DEF Plans, OnePause, Off, Quieted, Clear, Asks, Has, Does
  <2>2. AnswerDue' <=> AnswerDue
      BY <1>2 DEF AnswerDue, Has
  <2>3. /\ \A c \in Callers, t \in Threads : Asks(c) \in Work(t)' => Does(c, "await")' /\ ~ sem'[c]
        /\ \A c \in Callers : sem'[c] => Does(c, "await")'
        /\ AnswerDue' => Does("api", "await")' /\ ~ sem'["api"]
      BY <1>1, <1>2, <1>4, <2>2 DEF Waits, Does
  <2>4. \A i \in DOMAIN commandThreadCommandQ' : commandThreadCommandQ'[i] \in Waiting
               => i = Len(commandThreadCommandQ') /\ ~ Has("command", "answer")'
      BY <1>1, <1>2 DEF Waits, Has
  <2>5. (Does("api", "stop faces") \/ \E t \in Threads : Pausing("api", t))'
           => CommandThreadIdle'
      BY <1>1, <1>2, <1>6 DEF Waits, Does, CommandThreadIdle
  <2> QED
      BY <2>1, <2>3, <2>4, <2>5 DEF Waits, Asks
<1>8. FaceAsked'
  <2>1. kind = "face" => "face" \in mRunningState
      BY <1>2 DEF isNeedSend
  <2> QED
      BY <1>1, <1>2, <1>3, <1>4, <2>1 DEF FaceAsked, Clear, Has
<1>9. \A t \in Threads : \A m \in Work(t) : m.frame # f
    BY <1>1, <1>2 DEF Known
<1>10. Apart' /\ Known'
  <2>1. Apart'
      BY <1>1, <1>3, <1>4, <1>9 DEF Apart
  <2>2. \A g \in Frames : g \in mFrameInfoArray' <=> g \in mFrameInfoArray \/ g = f
      BY <1>2
  <2>3. \A g \in Frames : cb'.frame = g <=> g = f
      BY <1>3
  <2>4. \A g \in Frames : g \in mFrameInfoArray <=>
             \E t \in Threads : \E m \in Work(t) : m.frame = g
      BY <1>1, <1>2, <1>3 DEF Known
  <2> QED
      BY <1>4, <2>1, <2>2, <2>3, <2>4 DEF Known
<1>11. Pictures'
  <2>1. kind = "picture" => pictures.num > 0
      BY <1>2 DEF isNeedSend
  <2> QED
      BY <1>1, <1>2, <1>3, <1>4, <1>6, <2>1 DEF Pictures
<1> QED
    BY <1>5, <1>7, <1>8, <1>10, <1>11 DEF IInv
-----------------------------------------------------------------------------
(* The steps of the callers                                                  *)

LEMMA StepsAre ==
    /\ \A op \in Ops : Step(op) \in Steps /\ Step(op).op = op
    /\ \A t \in Threads : On("pause", t) \in Steps /\ On("pause", t).op = "pause"
                          /\ On("pause", t).on = t
    /\ \A n \in 1..MaxPictures : On("take", n) \in Steps /\ On("take", n).op = "take"
BY DEF Steps, Ops, Step, On

LEMMA Shortened ==
    ASSUME NEW s \in Seq(Steps), s # <<>>
    PROVE  /\ Tail(s) \in Seq(Steps) /\ Head(s) \in Steps
           /\ OpsOf(s) = {Head(s).op} \union OpsOf(Tail(s))
           /\ Ordered(s) => /\ Ordered(Tail(s)) /\ "pause" \notin OpsOf(Tail(s))
                            /\ "stop preview" \in OpsOf(Tail(s)) => Head(s).op \in Before
                            /\ Head(s).op = "stop preview" =>
                                   OpsOf(Tail(s)) \intersect Quietens = {}
                            /\ Head(s).op = "answer" => "answer" \notin OpsOf(Tail(s))
<1> DEFINE u == Tail(s)
<1>1. /\ u \in Seq(Steps) /\ DOMAIN u = 1..(Len(s) - 1)
      /\ \A i \in 1..(Len(s) - 1) : u[i] = s[i + 1]
      /\ Head(s) = s[1] /\ DOMAIN s = 1..Len(s) /\ Len(s) \in Nat \ {0} /\ s[1] \in Steps
    OBVIOUS
<1> HIDE DEF u
<1>2. \A i \in DOMAIN s : i = 1 \/ (i - 1 \in DOMAIN u /\ s[i] = u[i - 1])
    BY <1>1
<1>3. 1 \in DOMAIN s /\ \A i \in DOMAIN u : i + 1 \in DOMAIN s /\ u[i] = s[i + 1] /\ 1 < i + 1
    BY <1>1
<1>4. OpsOf(s) = {Head(s).op} \union OpsOf(u)
  <2>1. \A o \in OpsOf(s) : o = Head(s).op \/ o \in OpsOf(u)
      BY <1>1, <1>2 DEF OpsOf
  <2>2. Head(s).op \in OpsOf(s) /\ OpsOf(u) \subseteq OpsOf(s)
      BY <1>1, <1>3 DEF OpsOf
  <2> QED
      BY <2>1, <2>2
<1>5. ASSUME Ordered(s)
      PROVE  /\ Ordered(u) /\ "pause" \notin OpsOf(u)
             /\ "stop preview" \in OpsOf(u) => Head(s).op \in Before
             /\ Head(s).op = "stop preview" => OpsOf(u) \intersect Quietens = {}
             /\ Head(s).op = "answer" => "answer" \notin OpsOf(u)
  <2>1. Ordered(u)
    <3> SUFFICES ASSUME NEW i \in DOMAIN u, NEW j \in DOMAIN u, i < j
                 PROVE  /\ u[j].op # "pause"
                        /\ u[j].op = "stop preview" => u[i].op \in Before
                        /\ u[i].op = "stop preview" => u[j].op \notin Quietens
                        /\ u[i].op # "answer" \/ u[j].op # "answer"
        BY DEF Ordered
    <3>1. i + 1 \in DOMAIN s /\ j + 1 \in DOMAIN s /\ i + 1 < j + 1
        BY <1>1, <1>3
    <3> QED
        BY <1>3, <1>5, <3>1 DEF Ordered
  <2>2. \A j \in DOMAIN u : /\ u[j].op # "pause"
                            /\ u[j].op = "stop preview" => s[1].op \in Before
                            /\ s[1].op = "stop preview" => u[j].op \notin Quietens
                            /\ s[1].op # "answer" \/ u[j].op # "answer"
      BY <1>3, <1>5 DEF Ordered
  <2> QED
      BY <1>1, <2>1, <2>2 DEF OpsOf
<1> QED
    BY <1>1, <1>4, <1>5 DEF u

LEMMA HeadsOp ==
    \A s \in Seq(Steps) : s # <<>> => Head(s).op \in OpsOf(s)
<1> SUFFICES ASSUME NEW s \in Seq(Steps), s # <<>> PROVE Head(s).op \in OpsOf(s)
    OBVIOUS
<1>1. OpsOf(s) = {Head(s).op} \union OpsOf(Tail(s))
    BY Shortened
<1> QED
    BY <1>1

LEMMA Joined ==
    ASSUME NEW s \in Seq(Steps), NEW u \in Seq(Steps)
    PROVE  /\ s \o u \in Seq(Steps)
           /\ OpsOf(s \o u) = OpsOf(s) \union OpsOf(u)
           /\ Ordered(s) /\ Ordered(u) /\ "pause" \notin OpsOf(u)
              /\ ("stop preview" \in OpsOf(u) => OpsOf(s) \subseteq Before)
              /\ ("stop preview" \in OpsOf(s) => OpsOf(u) \intersect Quietens = {})
              /\ ("answer" \in OpsOf(u) => "answer" \notin OpsOf(s))
                 => Ordered(s \o u)
<1> DEFINE v == s \o u
           m == Len(s)
           n == Len(u)
<1>1. /\ v \in Seq(Steps) /\ DOMAIN v = 1..(m + n) /\ DOMAIN s = 1..m /\ DOMAIN u = 1..n
      /\ m \in Nat /\ n \in Nat
      /\ \A i \in 1..(m + n) : v[i] = IF i <= m THEN s[i] ELSE u[i - m]
    OBVIOUS
<1> HIDE DEF v, m, n
<1>2. /\ \A i \in DOMAIN v : \/ i <= m /\ i \in DOMAIN s /\ v[i] = s[i]
                             \/ i > m /\ i - m \in DOMAIN u /\ v[i] = u[i - m]
      /\ \A i \in DOMAIN s : i \in DOMAIN v /\ v[i] = s[i]
      /\ \A i \in DOMAIN u : i + m \in DOMAIN v /\ v[i + m] = u[i]
  <2>1. \A i \in DOMAIN v : \/ i <= m /\ i \in DOMAIN s /\ v[i] = s[i]
                            \/ i > m /\ i - m \in DOMAIN u /\ v[i] = u[i - m]
      BY <1>1
  <2>2. \A i \in DOMAIN s : i \in DOMAIN v /\ v[i] = s[i]
      BY <1>1
  <2>3. \A i \in DOMAIN u : i + m \in 1..(m + n) /\ ~ (i + m <= m) /\ (i + m) - m = i
      BY <1>1
  <2>4. \A i \in DOMAIN u : i + m \in DOMAIN v /\ v[i + m] = u[i]
      BY <1>1, <2>3
  <2> QED
      BY <2>1, <2>2, <2>4
<1>3. OpsOf(v) = OpsOf(s) \union OpsOf(u)
  <2>1. OpsOf(v) \subseteq OpsOf(s) \union OpsOf(u)
      BY <1>2 DEF OpsOf
  <2>2. OpsOf(s) \subseteq OpsOf(v) /\ OpsOf(u) \subseteq OpsOf(v)
      BY <1>2 DEF OpsOf
  <2> QED
      BY <2>1, <2>2
<1>4. ASSUME Ordered(s), Ordered(u), "pause" \notin OpsOf(u),
             "stop preview" \in OpsOf(u) => OpsOf(s) \subseteq Before,
             "stop preview" \in OpsOf(s) => OpsOf(u) \intersect Quietens = {},
             "answer" \in OpsOf(u) => "answer" \notin OpsOf(s)
      PROVE  Ordered(v)
  <2> SUFFICES ASSUME NEW i \in DOMAIN v, NEW j \in DOMAIN v, i < j
               PROVE  /\ v[j].op # "pause"
                      /\ v[j].op = "stop preview" => v[i].op \in Before
                      /\ v[i].op = "stop preview" => v[j].op \notin Quietens
                      /\ v[i].op # "answer" \/ v[j].op # "answer"
      BY DEF Ordered
  <2>1. CASE j <= m
    <3>1. i \in DOMAIN s /\ j \in DOMAIN s /\ v[i] = s[i] /\ v[j] = s[j]
        BY <1>1, <2>1
    <3> QED
        BY <1>4, <3>1 DEF Ordered
  <2>2. CASE i > m
    <3>1. i - m \in DOMAIN u /\ j - m \in DOMAIN u /\ v[i] = u[i - m] /\ v[j] = u[j - m]
          /\ i - m < j - m
        BY <1>1, <2>2
    <3> QED
        BY <1>4, <3>1 DEF Ordered
  <2>3. CASE i <= m /\ j > m
    <3>1. i \in DOMAIN s /\ j - m \in DOMAIN u /\ v[i] = s[i] /\ v[j] = u[j - m]
        BY <1>1, <2>3
    <3>2. v[i].op \in OpsOf(s) /\ v[j].op \in OpsOf(u)
        BY <3>1 DEF OpsOf
    <3> QED
        BY <1>4, <3>2
  <2>4. (j <= m) \/ (i > m) \/ (i <= m /\ j > m)
      BY <1>1
  <2> QED
      BY <2>1, <2>2, <2>3, <2>4
<1> QED
    BY <1>1, <1>3, <1>4 DEF v

LEMMA Singles ==
    /\ <<>> \in Seq(Steps) /\ OpsOf(<<>>) = {} /\ Ordered(<<>>)
    /\ \A x \in Steps : /\ <<x>> \in Seq(Steps) /\ OpsOf(<<x>>) = {x.op} /\ Ordered(<<x>>)
                        /\ <<x>> # <<>> /\ Head(<<x>>) = x /\ Tail(<<x>>) = <<>>
    /\ \A s \in Seq(Steps) : <<>> \o s = s
    /\ \A x \in Steps : \A s \in Seq(Steps) :
          <<x>> \o s # <<>> /\ Head(<<x>> \o s) = x /\ Tail(<<x>> \o s) = s
<1>1. <<>> \in Seq(Steps) /\ OpsOf(<<>>) = {} /\ Ordered(<<>>)
    BY DEF OpsOf, Ordered
<1>2. ASSUME NEW x \in Steps
      PROVE  /\ <<x>> \in Seq(Steps) /\ OpsOf(<<x>>) = {x.op} /\ Ordered(<<x>>)
             /\ <<x>> # <<>> /\ Head(<<x>>) = x /\ Tail(<<x>>) = <<>>
  <2>1. /\ <<x>> \in Seq(Steps) /\ <<x>> # <<>> /\ Head(<<x>>) = x /\ Tail(<<x>>) = <<>>
        /\ DOMAIN <<x>> = {1} /\ <<x>>[1] = x
      OBVIOUS
  <2>2. OpsOf(<<x>>) = {x.op}
      BY <2>1 DEF OpsOf
  <2>3. Ordered(<<x>>)
    <3>1. \A i, j \in DOMAIN <<x>> : ~ (i < j)
        BY <2>1
    <3> QED
        BY <3>1 DEF Ordered
  <2> QED
      BY <2>1, <2>2, <2>3
<1>3. \A s \in Seq(Steps) : <<>> \o s = s
    OBVIOUS
<1>4. \A x \in Steps : \A s \in Seq(Steps) :
          <<x>> \o s # <<>> /\ Head(<<x>> \o s) = x /\ Tail(<<x>> \o s) = s
    OBVIOUS
<1> QED
    BY <1>1, <1>2, <1>3, <1>4

LEMMA ApiLists ==
    ASSUME todo["api"] \in ApiSteps, todo["api"] # <<>>
    PROVE  /\ Tail(todo["api"]) = <<>>
           /\ Head(todo["api"]) \in {Step("await"), Step("stop faces"), On("pause", "event"),
                                     On("pause", "face")}
<1>1. PICK x \in {Step("await"), Step("stop faces"), On("pause", "event"), On("pause", "face")} :
         todo["api"] = <<x>>
    BY DEF ApiSteps
<1>2. x \in Steps
    BY StepsAre DEF Ops, Threads
<1>3. Head(<<x>>) = x /\ Tail(<<x>>) = <<>>
    BY <1>2, Singles
<1> QED
    BY <1>1, <1>3

\* A step is done ...
LEMMA StepDone ==
    ASSUME CallersTyped, Plans, NEW c \in Callers, todo[c] # <<>>, Continue(c, <<>>)
    PROVE  /\ todo' \in [Callers -> Seq(Steps)] /\ Plans'
           /\ \A op : op # Head(todo[c]).op => (Has(c, op) <=> Has(c, op)')
           /\ \A op : Has(c, op)' => Has(c, op)
           /\ Has(c, Head(todo[c]).op)
           /\ \A t : ~ Will(c, On("pause", t))'
           /\ \A d \in Callers \ {c} : todo'[d] = todo[d]
           /\ c = "api" => todo'[c] = <<>>
           /\ c = "command" => /\ Has(c, "stop preview")' => Head(todo[c]).op \in Before
                               /\ Head(todo[c]).op = "answer" => ~ Has(c, "answer")'
<1>0. {"api", "command"} = Callers
    BY DEF Callers
<1>1. /\ todo \in [Callers -> Seq(Steps)] /\ todo[c] \in Seq(Steps) /\ Tail(todo[c]) \in Seq(Steps)
      /\ todo' = [todo EXCEPT ![c] = <<>> \o Tail(@)]
    BY Shortened DEF CallersTyped, Continue
<1>2. /\ todo'[c] = Tail(todo[c]) /\ \A d \in Callers \ {c} : todo'[d] = todo[d]
      /\ todo' \in [Callers -> Seq(Steps)]
  <2>1. todo'[c] = <<>> \o Tail(todo[c]) /\ \A d \in Callers \ {c} : todo'[d] = todo[d]
      BY <1>1
  <2>2. <<>> \o Tail(todo[c]) = Tail(todo[c])
      BY <1>1
  <2>3. todo' \in [Callers -> Seq(Steps)]
      BY <1>1, <2>2
  <2> QED
      BY <2>1, <2>2, <2>3
<1>3. OpsOf(todo[c]) = {Head(todo[c]).op} \union OpsOf(todo'[c])
    BY <1>1, <1>2, Shortened
<1>4. c = "api" => todo'[c] = <<>>
    BY <1>2, ApiLists DEF Plans
<1>5. "pause" \notin OpsOf(todo'[c])
  <2>1. CASE c = "command"
      BY <1>1, <1>2, <2>1, Shortened DEF Plans
  <2>2. CASE c = "api"
      BY <1>4, <2>2, Singles
  <2> QED
      BY <1>0, <2>1, <2>2
<1>6. \A t : ~ Will(c, On("pause", t))'
  <2>0. \A s \in Seq(Steps) : s # <<>> => Head(s).op \in OpsOf(s)
      BY HeadsOp
  <2>1. todo'[c] # <<>> => Head(todo'[c]).op \in OpsOf(todo'[c])
      BY <1>1, <1>2, <2>0
  <2> QED
      BY <1>5, <2>1 DEF Will, On
<1>7. Plans'
  <2>1. CASE c = "command"
    <3>1. Ordered(todo["command"]) /\ todo["command"] \in Seq(Steps) /\ todo["command"] # <<>>
        BY <1>1, <2>1 DEF Plans
    <3>2. Ordered(Tail(todo["command"]))
        BY <3>1, Shortened
    <3> QED
        BY <1>0, <1>2, <2>1, <3>2 DEF Plans
  <2>2. CASE c = "api"
      BY <1>0, <1>2, <1>4, <2>2 DEF Plans, ApiSteps
  <2> QED
      BY <1>0, <2>1, <2>2
<1>8. c = "command" => /\ Has(c, "stop preview")' => Head(todo[c]).op \in Before
                       /\ Head(todo[c]).op = "answer" => ~ Has(c, "answer")'
    BY <1>1, <1>2, Shortened DEF Plans, Has
<1> QED
    BY <1>2, <1>3, <1>4, <1>6, <1>7, <1>8 DEF Has

\* ... or replaced by a PAUSE or the wait for its end.
LEMMA StepReplaced ==
    ASSUME CallersTyped, Plans, NEW c \in Callers, todo[c] # <<>>,
           NEW x \in Steps, x.op \in {"pause", "await"}, Continue(c, <<x>>),
           c = "api" => <<x>> \in ApiSteps
    PROVE  /\ todo' \in [Callers -> Seq(Steps)] /\ Plans'
           /\ \A op : op # Head(todo[c]).op => (Has(c, op) => Has(c, op)')
           /\ \A op : op # x.op => (Has(c, op)' => Has(c, op))
           /\ Has(c, Head(todo[c]).op)
           /\ todo'[c] # <<>> /\ Head(todo'[c]) = x
           /\ \A d \in Callers \ {c} : todo'[d] = todo[d]
<1>0. {"api", "command"} = Callers
    BY DEF Callers
<1> DEFINE s == Tail(todo[c])
<1>1. /\ todo \in [Callers -> Seq(Steps)] /\ todo[c] \in Seq(Steps) /\ s \in Seq(Steps)
      /\ todo' = [todo EXCEPT ![c] = <<x>> \o Tail(@)]
      /\ OpsOf(todo[c]) = {Head(todo[c]).op} \union OpsOf(s)
    BY Shortened DEF CallersTyped, Continue
<1>2. todo'[c] = <<x>> \o s /\ \A d \in Callers \ {c} : todo'[d] = todo[d]
    BY <1>1
<1>3. <<x>> \o s \in Seq(Steps) /\ OpsOf(<<x>> \o s) = {x.op} \union OpsOf(s)
      /\ <<x>> \o s # <<>> /\ Head(<<x>> \o s) = x
  <2>1. <<x>> \in Seq(Steps) /\ OpsOf(<<x>>) = {x.op}
      BY Singles
  <2>2. \A u \in Seq(Steps) : /\ <<x>> \o u \in Seq(Steps)
                              /\ OpsOf(<<x>> \o u) = OpsOf(<<x>>) \union OpsOf(u)
      BY <2>1, Joined
  <2>3. \A u \in Seq(Steps) : <<x>> \o u # <<>> /\ Head(<<x>> \o u) = x
      BY Singles
  <2>4. s \in Seq(Steps)
      BY <1>1
  <2> HIDE DEF s
  <2> QED
      BY <2>1, <2>2, <2>3, <2>4
<1>4. todo' \in [Callers -> Seq(Steps)]
    BY <1>1, <1>3
<1>5. Plans'
  <2>1. CASE c = "command"
    <3>1. Ordered(s) /\ "pause" \notin OpsOf(s)
        BY <1>1, <2>1, Shortened DEF Plans
    <3>2. Ordered(<<x>>) /\ OpsOf(<<x>>) = {x.op} /\ <<x>> \in Seq(Steps)
        BY Singles
    <3>3. {x.op} \subseteq Before /\ "stop preview" \notin {x.op} /\ "answer" \notin {x.op}
        BY DEF Before
    <3>4. Ordered(<<x>> \o s)
        BY <1>1, <3>1, <3>2, <3>3, Joined
    <3> QED
        BY <1>0, <1>2, <2>1, <3>4 DEF Plans
  <2>2. CASE c = "api"
    <3>1. s = <<>>
        BY <2>2, ApiLists DEF Plans
    <3>2. <<x>> \o <<>> = <<x>>
        OBVIOUS
    <3> QED
        BY <1>0, <1>2, <2>2, <3>1, <3>2 DEF Plans
  <2> QED
      BY <1>0, <2>1, <2>2
<1> HIDE DEF s
<1> QED
    BY <1>1, <1>2, <1>3, <1>4, <1>5 DEF Has

\* Steps of the callers leave the notifier alone.
LEMMA NotifierStays ==
    ASSUME IInv, UNCHANGED <<queue, thread, cb, mFrameInfoArray>>
    PROVE  /\ QueuesTyped' /\ AllDistinct' /\ OnePause' /\ Apart' /\ Known'
           /\ \A t : Work(t)' = Work(t) /\ Queued(t)' = Queued(t)
           /\ \A k : Clear(k)' <=> Clear(k)
<1>1. QueuesTyped /\ AllDistinct /\ OnePause /\ Apart /\ Known /\ UNCHANGED threads
    BY DEF IInv, TypeOK, threads
<1>2. /\ QueuesTyped' /\ AllDistinct'
      /\ \A t : Work(t)' = Work(t) /\ Queued(t)' = Queued(t)
    BY <1>1, Unchanged DEF AllDistinct
<1>3. OnePause' /\ Apart' /\ Known'
    BY <1>1, <1>2 DEF OnePause, Asks, Apart, Known
<1>4. \A k : Clear(k)' <=> Clear(k)
    BY <1>2 DEF Clear
<1> QED
    BY <1>2, <1>3, <1>4

\* While the command thread works or has a command, the application pauses nobody,
\* and a PAUSE of its own is waited for.
LEMMA CommandAlone ==
    ASSUME IInv, ~ CommandThreadIdle, ~ Does("command", "await")
    PROVE  /\ \A c \in Callers, t \in Threads : Asks(c) \notin Work(t)
           /\ \A t \in Threads : ~ Pausing("api", t)
           /\ ~ Does("api", "stop faces") /\ ~ sem["command"]
           /\ ~ Does("command", "pause") =>
                 /\ \A k \in {"video", "preview", "face"} : k \notin mRunningState => Clear(k)
                 /\ Has("command", "stop preview") /\ ~ Has("command", "flush") => Clear("picture")
<1>1. Waits /\ Off /\ Quieted
    BY DEF IInv
<1>2. /\ {"api", "command"} = Callers /\ "enc" \in Threads
      /\ \A k \in {"video", "preview", "face"} : ThreadOf(k) \in Threads
    BY DEF Callers, Threads, ThreadOf
<1>3. /\ \A t \in Threads : ~ Pausing("api", t)
      /\ ~ Does("api", "stop faces") /\ ~ sem["command"]
    BY <1>1, <1>2 DEF Waits
<1>4. \A c \in Callers, t \in Threads : Asks(c) \notin Work(t)
    BY <1>1, <1>2, <1>3 DEF Waits, Pausing
<1>5. ASSUME ~ Does("command", "pause")
      PROVE  /\ \A k \in {"video", "preview", "face"} : k \notin mRunningState => Clear(k)
             /\ Has("command", "stop preview") /\ ~ Has("command", "flush") => Clear("picture")
  <2>1. \A t \in Threads : ~ Pausing("command", t)
      BY <1>2, <1>4, <1>5 DEF Pausing, Will, Does, On
  <2>2. \A c \in Callers, t \in Threads : ~ Pausing(c, t)
      BY <1>2, <1>3, <2>1
  <2>3. \A k : Stopper(k) \in Callers
      BY <1>2 DEF Stopper
  <2> QED
      BY <1>1, <1>2, <2>2, <2>3 DEF Off, Quieted
<1> QED
    BY <1>3, <1>4, <1>5

\* So what the application waits for is not disturbed by the command thread.
LEMMA CommandWaits ==
    ASSUME IInv, todo["command"] # <<>>, ~ Does("command", "await"),
           UNCHANGED <<queue, thread, sem, commandThreadCommandQ>>, todo'["api"] = todo["api"],
           Has("command", "answer")' => Has("command", "answer")
    PROVE  Waits'
<1>1. Waits /\ ~ CommandThreadIdle /\ {"api", "command"} = Callers
    BY DEF IInv, CommandThreadIdle, Callers
<1>2. /\ \A c \in Callers, t \in Threads : Asks(c) \notin Work(t)
      /\ \A t \in Threads : ~ Pausing("api", t)
      /\ ~ Does("api", "stop faces") /\ ~ sem["command"]
    BY <1>1, CommandAlone
<1>3. \A t : Work(t)' = Work(t)
    BY DEF Work, Queued
<1>4. AnswerDue' => AnswerDue
    BY DEF AnswerDue
<1>5. \A op : Does("api", op)' <=> Does("api", op)
    BY DEF Does
<1>6. \A t \in Threads : ~ Pausing("api", t)'
    BY <1>2, <1>3 DEF Pausing, Will, Asks
<1>7. \A c \in Callers, t \in Threads : Asks(c) \notin Work(t)'
    BY <1>2, <1>3
<1>8. \A c \in Callers : sem'[c] => Does(c, "await")'
    BY <1>1, <1>2, <1>5 DEF Waits
<1>9. AnswerDue' => Does("api", "await")' /\ ~ sem'["api"]
    BY <1>1, <1>4, <1>5 DEF Waits
<1>10. \A i \in DOMAIN commandThreadCommandQ' : commandThreadCommandQ'[i] \in Waiting
               => i = Len(commandThreadCommandQ') /\ ~ Has("command", "answer")'
    BY <1>1 DEF Waits
<1>11. ~ (Does("api", "stop faces") \/ \E t \in Threads : Pausing("api", t))'
    BY <1>2, <1>5, <1>6
<1> QED
    BY <1>7, <1>8, <1>9, <1>10, <1>11 DEF Waits, Asks

LEMMA CommandStepKeeps ==
    ASSUME IInv, todo["command"] # <<>>, ~ Does("command", "await"),
           UNCHANGED <<queue, thread, cb, mFrameInfoArray, sem, commandThreadCommandQ>>,
           FlagsTyped', todo' \in [Callers -> Seq(Steps)], Plans', todo'["api"] = todo["api"],
           Has("command", "answer")' => Has("command", "answer"),
           Off', Quieted', FaceAsked', Pictures'
    PROVE  IInv'
<1>1. /\ QueuesTyped' /\ AllDistinct' /\ OnePause' /\ Apart' /\ Known'
    BY NotifierStays
<1>2. Waits'
    BY CommandWaits
<1>3. CallersTyped'
    BY DEF IInv, TypeOK, CallersTyped
<1> QED
    BY <1>1, <1>2, <1>3 DEF IInv, TypeOK

\* Calls of the application that the command thread makes as well
LEMMA ApiHead ==
    ASSUME IInv, NEW op, Does("api", op)
    PROVE  /\ todo["api"] \in ApiSteps /\ todo["api"] # <<>> /\ Head(todo["api"]).op = op
           /\ op \in {"await", "stop faces", "pause"}
           /\ op = "pause" => Head(todo["api"]) \in {On("pause", "event"), On("pause", "face")}
<1>1. todo["api"] \in ApiSteps /\ todo["api"] # <<>> /\ Head(todo["api"]).op = op
    BY DEF IInv, Plans, Does
<1>2. Head(todo["api"]) \in {Step("await"), Step("stop faces"), On("pause", "event"),
                             On("pause", "face")}
    BY <1>1, ApiLists
<1>3. /\ Step("await").op = "await" /\ Step("stop faces").op = "stop faces"
      /\ On("pause", "event").op = "pause" /\ On("pause", "face").op = "pause"
    BY DEF Step, On
<1> QED
    BY <1>1, <1>2, <1>3

LEMMA CommandsOwn == ASSUME IInv, NEW c \in Callers, NEW op, Does(c, op),
                            op \notin {"await", "stop faces", "pause"}
                     PROVE  c = "command"
<1>1. c \in {"command", "api"}
    BY DEF Callers
<1>2. ~ Does("api", op)
    BY ApiHead
<1> QED
    BY <1>1, <1>2

LEMMA flushPictureKeeps ==
    ASSUME IInv, None \notin Frames, Allowed = {}, NEW c \in Callers, flushPicture(c)
    PROVE  IInv'
<1>1. c = "command" /\ "command" \in Callers /\ "enc" \in Threads
    BY CommandsOwn DEF flushPicture, Callers, Threads
<1>2. /\ TypeOK /\ Plans /\ Off /\ Quieted /\ FaceAsked /\ Pictures
    BY DEF IInv
<1>3. /\ todo["command"] # <<>> /\ Head(todo["command"]).op = "flush"
      /\ ~ Does("command", "await") /\ ~ Does("command", "pause") /\ ~ CommandThreadIdle
      /\ "picture" \notin mRunningState /\ Continue("command", <<On("pause", "enc")>>)
      /\ UNCHANGED <<flags, mRunningState, mMsgTypeEnabled, pictures, queue, thread, cb,
                     mFrameInfoArray, sem, commandThreadCommandQ>>
    BY <1>1 DEF flushPicture, Does, CommandThreadIdle, flags, counts, threads, frames
<1>4. On("pause", "enc") \in Steps /\ On("pause", "enc").op = "pause"
    BY <1>1, StepsAre
<1>5. /\ todo' \in [Callers -> Seq(Steps)] /\ Plans' /\ todo'["api"] = todo["api"]
      /\ \A op : op # "flush" => (Has("command", op) => Has("command", op)')
      /\ \A op : op # "pause" => (Has("command", op)' => Has("command", op))
      /\ Will("command", On("pause", "enc"))'
  <2>1. "command" # "api" /\ CallersTyped /\ "api" \in Callers \ {"command"}
      BY <1>2 DEF TypeOK, Callers
  <2> QED
      BY <1>1, <1>2, <1>3, <1>4, <2>1, StepReplaced DEF Will
<1>6. /\ \A t \in Threads : ~ Pausing("api", t)
      /\ \A k \in {"video", "preview", "face"} : k \notin mRunningState => Clear(k)
      /\ ~ Does("api", "stop faces")
    BY <1>3, CommandAlone
<1>7. \A k : Clear(k)' <=> Clear(k)
    BY <1>3, NotifierStays
<1>8. Off'
    BY <1>3, <1>6, <1>7 DEF Off
<1>9. Quieted'
  <2>1. Pausing("command", "enc")'
      BY <1>5 DEF Pausing
  <2>2. \A op \in {"stop preview", "pause preview", "stop faces"} :
            Has("command", op)' <=> Has("command", op)
      BY <1>5
  <2>3. ~ Does("api", "stop faces")'
      BY <1>5, <1>6 DEF Does
  <2> QED
      BY <1>2, <1>3, <2>1, <2>2, <2>3 DEF Quieted
<1>10. FaceAsked'
    BY <1>2, <1>3, <1>5, <1>7 DEF FaceAsked
<1>11. Pictures'
    BY <1>2, <1>3, NotifierStays DEF Pictures
<1>12. FlagsTyped'
    BY <1>2, <1>3, NothingElseChanges DEF TypeOK
<1> QED
    BY <1>3, <1>5, <1>8, <1>9, <1>10, <1>11, <1>12, CommandStepKeeps

LEMMA pausePreviewCBFrameProcessKeeps ==
    ASSUME IInv, None \notin Frames, NEW c \in Callers, pausePreviewCBFrameProcess(c)
    PROVE  IInv'
<1>1. c = "command" /\ "command" \in Callers /\ "event" \in Threads
    BY CommandsOwn DEF pausePreviewCBFrameProcess, Callers, Threads
<1>2. /\ TypeOK /\ Plans /\ Off /\ Quieted /\ FaceAsked /\ Pictures
    BY DEF IInv
<1>3. /\ todo["command"] # <<>> /\ Head(todo["command"]).op = "pause preview"
      /\ ~ Does("command", "await") /\ ~ Does("command", "pause") /\ ~ CommandThreadIdle
      /\ UNCHANGED <<mMsgTypeEnabled, pictures, queue, thread, cb,
                     mFrameInfoArray, sem, commandThreadCommandQ>>
    BY <1>1 DEF pausePreviewCBFrameProcess, Does, CommandThreadIdle, counts, threads, frames
<1>4. \/ /\ mRunningState' = mRunningState \ {"preview"} /\ received' \subseteq received
         /\ Continue("command", <<On("pause", "event")>>)
      \/ /\ "preview" \notin mRunningState
         /\ UNCHANGED <<mRunningState, received>> /\ Continue("command", <<>>)
    BY <1>1 DEF pausePreviewCBFrameProcess
<1>5. /\ todo' \in [Callers -> Seq(Steps)] /\ Plans' /\ todo'["api"] = todo["api"]
      /\ \A op : op # "pause preview" => (Has("command", op) => Has("command", op)')
      /\ \A op : op # "pause" => (Has("command", op)' => Has("command", op))
      /\ \A t \in Threads \ {"event"} : ~ Will("command", On("pause", t))'
      /\ Will("command", On("pause", "event"))' \/ "preview" \notin mRunningState
  <2>1. "command" # "api" /\ CallersTyped /\ "api" \in Callers \ {"command"}
      BY <1>2 DEF TypeOK, Callers
  <2>2. CASE Continue("command", <<On("pause", "event")>>)
    <3>1. On("pause", "event") \in Steps /\ On("pause", "event").op = "pause"
        BY <1>1, StepsAre
    <3>2. \A t \in Threads \ {"event"} : On("pause", t) # On("pause", "event")
        BY DEF On
    <3> QED
        BY <1>1, <1>2, <1>3, <2>1, <2>2, <3>1, <3>2, StepReplaced DEF Will
  <2>3. CASE Continue("command", <<>>) /\ "preview" \notin mRunningState
      BY <1>1, <1>2, <1>3, <2>1, <2>3, StepDone
  <2> QED
      BY <1>4, <2>2, <2>3
<1>6. /\ \A t \in Threads : ~ Pausing("api", t)
      /\ \A k \in {"video", "preview", "face"} : k \notin mRunningState => Clear(k)
      /\ Has("command", "stop preview") /\ ~ Has("command", "flush") => Clear("picture")
      /\ ~ Does("api", "stop faces")
      /\ \A d \in Callers, t \in Threads : Asks(d) \notin Work(t)
    BY <1>3, CommandAlone
<1>7. /\ \A k : Clear(k)' <=> Clear(k)
      /\ \A t : Work(t)' = Work(t) /\ Queued(t)' = Queued(t)
    BY <1>3, NotifierStays
<1>8. /\ mRunningState' \subseteq mRunningState /\ "preview" \notin mRunningState'
      /\ \A k : k # "preview" /\ k \in mRunningState => k \in mRunningState'
      /\ received' \subseteq received
    BY <1>4
<1>9. Off'
  <2> SUFFICES ASSUME NEW k \in {"video", "preview", "face"}, k \notin mRunningState'
               PROVE  Clear(k)' \/ Pausing(Stopper(k), ThreadOf(k))'
      BY DEF Off
  <2>1. CASE k \notin mRunningState
      BY <1>6, <1>7, <2>1
  <2>2. CASE k \in mRunningState
    <3>1. k = "preview" /\ Stopper(k) = "command" /\ ThreadOf(k) = "event"
        BY <1>8, <2>2 DEF Stopper, ThreadOf
    <3> QED
        BY <1>5, <2>2, <3>1 DEF Pausing
  <2> QED
      BY <2>1, <2>2
<1>10. Quieted'
  <2>1. \A op \in {"stop preview", "flush", "stop faces"} :
            Has("command", op)' <=> Has("command", op)
      BY <1>5
  <2>2. ~ Does("api", "stop faces")'
      BY <1>5, <1>6 DEF Does
  <2> QED
      BY <1>2, <1>3, <1>6, <1>7, <1>8, <2>1, <2>2 DEF Quieted
<1>11. FaceAsked'
    BY <1>2, <1>3, <1>5, <1>7, <1>8 DEF FaceAsked
<1>12. Pictures'
  <2>1. \A d \in Callers : ~ Pausing(d, "enc")'
    <3>1. "enc" \in Threads \ {"event"} /\ Callers = {"command", "api"}
        BY DEF Threads, Callers
    <3>2. ~ Pausing("command", "enc")'
        BY <1>5, <1>6, <1>7, <3>1 DEF Pausing, Asks
    <3>3. ~ Pausing("api", "enc")'
        BY <1>5, <1>6, <1>7, <3>1 DEF Pausing, Asks, Will
    <3> QED
        BY <3>1, <3>2, <3>3
  <2>2. "picture" \in mRunningState' <=> "picture" \in mRunningState
      BY <1>8
  <2> QED
      BY <1>2, <1>3, <1>7, <2>1, <2>2 DEF Pictures
<1>13. FlagsTyped'
    BY <1>2, <1>3, <1>8 DEF TypeOK, FlagsTyped
<1>14. Has("command", "answer")' => Has("command", "answer")
    BY <1>5
<1> QED
    BY <1>3, <1>5, <1>9, <1>10, <1>11, <1>12, <1>13, <1>14, CommandStepKeeps

LEMMA CommandStopsFaces ==
    ASSUME IInv, None \notin Frames, stopFaceDection("command")
    PROVE  IInv'
<1>1. /\ TypeOK /\ Plans /\ Off /\ Quieted /\ FaceAsked /\ Pictures
      /\ "command" \in Callers /\ "face" \in Threads
    BY DEF IInv, Callers, Threads
<1>2. /\ todo["command"] # <<>> /\ Head(todo["command"]).op = "stop faces"
      /\ ~ Does("command", "await") /\ ~ Does("command", "pause") /\ ~ CommandThreadIdle
      /\ mRunningState' = mRunningState \ {"face"} /\ received' \subseteq received
      /\ Continue("command", <<On("pause", "face")>>)
      /\ UNCHANGED <<mMsgTypeEnabled, pictures, queue, thread, cb,
                     mFrameInfoArray, sem, commandThreadCommandQ>>
    BY DEF stopFaceDection, Does, CommandThreadIdle, counts, threads, frames
<1>3. /\ todo' \in [Callers -> Seq(Steps)] /\ Plans' /\ todo'["api"] = todo["api"]
      /\ \A op : op # "stop faces" => (Has("command", op) => Has("command", op)')
      /\ \A op : op # "pause" => (Has("command", op)' => Has("command", op))
      /\ \A t \in Threads \ {"face"} : ~ Will("command", On("pause", t))'
      /\ Will("command", On("pause", "face"))'
  <2>1. "command" # "api" /\ CallersTyped /\ "api" \in Callers \ {"command"}
      BY <1>1 DEF TypeOK, Callers
  <2>2. On("pause", "face") \in Steps /\ On("pause", "face").op = "pause"
      BY <1>1, StepsAre
  <2>3. \A t \in Threads \ {"face"} : On("pause", t) # On("pause", "face")
      BY DEF On
  <2> QED
      BY <1>1, <1>2, <2>1, <2>2, <2>3, StepReplaced DEF Will
<1>4. /\ \A t \in Threads : ~ Pausing("api", t)
      /\ \A k \in {"video", "preview", "face"} : k \notin mRunningState => Clear(k)
      /\ Has("command", "stop preview") /\ ~ Has("command", "flush") => Clear("picture")
      /\ ~ Does("api", "stop faces")
      /\ \A d \in Callers, t \in Threads : Asks(d) \notin Work(t)
    BY <1>2, CommandAlone
<1>5. /\ \A k : Clear(k)' <=> Clear(k)
      /\ \A t : Work(t)' = Work(t) /\ Queued(t)' = Queued(t)
    BY <1>2, NotifierStays
<1>6. Off'
  <2> SUFFICES ASSUME NEW k \in {"video", "preview", "face"}, k \notin mRunningState'
               PROVE  Clear(k)' \/ Pausing(Stopper(k), ThreadOf(k))'
      BY DEF Off
  <2>1. CASE k # "face"
      BY <1>2, <1>4, <1>5, <2>1
  <2>2. CASE k = "face"
    <3>1. Stopper(k) = "command" /\ ThreadOf(k) = "face"
        BY <2>2 DEF Stopper, ThreadOf
    <3> QED
        BY <1>3, <3>1 DEF Pausing
  <2> QED
      BY <2>1, <2>2
<1>7. Quieted'
  <2>1. \A op \in {"stop preview", "flush", "pause preview"} :
            Has("command", op)' <=> Has("command", op)
      BY <1>3
  <2>2. ~ Does("api", "stop faces")'
      BY <1>3, <1>4 DEF Does
  <2> QED
      BY <1>1, <1>2, <1>4, <1>5, <2>1, <2>2 DEF Quieted
<1>8. FaceAsked'
    BY <1>1, <1>2, <1>3, <1>5 DEF FaceAsked
<1>9. Pictures'
  <2>1. \A d \in Callers : ~ Pausing(d, "enc")'
    <3>1. "enc" \in Threads \ {"face"} /\ Callers = {"command", "api"}
        BY DEF Threads, Callers
    <3>2. ~ Pausing("command", "enc")'
        BY <1>3, <1>4, <1>5, <3>1 DEF Pausing, Asks
    <3>3. ~ Pausing("api", "enc")'
        BY <1>3, <1>4, <1>5, <3>1 DEF Pausing, Asks, Will
    <3> QED
        BY <3>1, <3>2, <3>3
  <2>2. "picture" \in mRunningState' <=> "picture" \in mRunningState
      BY <1>2
  <2> QED
      BY <1>1, <1>2, <1>5, <2>1, <2>2 DEF Pictures
<1>10. FlagsTyped'
    BY <1>1, <1>2 DEF TypeOK, FlagsTyped
<1>11. Has("command", "answer")' => Has("command", "answer")
    BY <1>3
<1> QED
    BY <1>2, <1>3, <1>6, <1>7, <1>8, <1>9, <1>10, <1>11, CommandStepKeeps

\* The application finds the faces stopped.
LEMMA ApiStopsFaces ==
    ASSUME IInv, None \notin Frames, stopFaceDection("api")
    PROVE  IInv'
<1>1. /\ TypeOK /\ Plans /\ Waits /\ Off /\ Quieted /\ FaceAsked /\ Pictures
      /\ {"command", "api"} = Callers /\ "face" \in Threads
    BY DEF IInv, Callers, Threads
<1>2. /\ Does("api", "stop faces")
      /\ todo["api"] # <<>> /\ Head(todo["api"]).op = "stop faces"
      /\ mRunningState' = mRunningState \ {"face"} /\ received' \subseteq received
      /\ Continue("api", <<On("pause", "face")>>)
      /\ UNCHANGED <<mMsgTypeEnabled, pictures, queue, thread, cb,
                     mFrameInfoArray, sem, commandThreadCommandQ>>
    BY DEF stopFaceDection, Does, CommandThreadIdle, counts, threads, frames
<1>3. /\ todo' \in [Callers -> Seq(Steps)] /\ Plans' /\ todo'["command"] = todo["command"]
      /\ todo'["api"] # <<>> /\ Head(todo'["api"]) = On("pause", "face")
      /\ On("pause", "face").op = "pause"
      /\ \A op : op # "pause" => ~ Does("api", op)'
      /\ \A t \in Threads \ {"face"} : ~ Will("api", On("pause", t))'
  <2>1. CallersTyped /\ "command" \in Callers \ {"api"}
      BY <1>1 DEF TypeOK
  <2>2. On("pause", "face") \in Steps /\ On("pause", "face").op = "pause"
      BY <1>1, StepsAre
  <2>3. \A t \in Threads \ {"face"} : On("pause", t) # On("pause", "face")
      BY DEF On
  <2>4. <<On("pause", "face")>> \in ApiSteps
      BY DEF ApiSteps
  <2> QED
      BY <1>1, <1>2, <2>1, <2>2, <2>3, <2>4, StepReplaced DEF Will, Does
<1>4. /\ CommandThreadIdle /\ "face" \notin mRunningState
      /\ \A d \in Callers, t \in Threads : Asks(d) \notin Work(t)
      /\ \A d \in Callers : ~ sem[d] /\ ~ AnswerDue
  <2>1. CommandThreadIdle /\ "face" \notin mRunningState
      BY <1>1, <1>2 DEF Waits, Quieted
  <2>2. \A d \in Callers : ~ Does(d, "await")
      BY <1>1, <1>2, <2>1 DEF CommandThreadIdle, Does
  <2> QED
      BY <1>1, <2>1, <2>2 DEF Waits
<1>5. /\ \A k : Clear(k)' <=> Clear(k)
      /\ \A t : Work(t)' = Work(t) /\ Queued(t)' = Queued(t)
      /\ QueuesTyped' /\ AllDistinct' /\ OnePause' /\ Apart' /\ Known'
    BY <1>2, NotifierStays
<1>6. mRunningState' = mRunningState /\ CommandThreadIdle' /\ \A op : ~ Has("command", op)'
  <2>1. mRunningState' = mRunningState /\ CommandThreadIdle'
      BY <1>2, <1>3, <1>4 DEF CommandThreadIdle
  <2> QED
      BY <2>1, Singles DEF CommandThreadIdle, Has
<1>7. Waits'
  <2>1. ~ AnswerDue'
      BY <1>6, NothingIn DEF AnswerDue, CommandThreadIdle
  <2>2. \A i : i \notin DOMAIN commandThreadCommandQ'
      BY <1>6 DEF CommandThreadIdle
  <2>3. /\ \A d \in Callers, t \in Threads : Asks(d) \notin Work(t)'
        /\ \A d \in Callers : ~ sem'[d]
      BY <1>2, <1>4, <1>5
  <2> QED
      BY <1>6, <2>1, <2>2, <2>3 DEF Waits, Asks
<1>8. Off'
  <2>1. \A k \in {"video", "preview", "face"} : k \notin mRunningState => Clear(k)
    <3>0. \A t : ~ Will("command", On("pause", t)) /\ ~ Will("api", On("pause", t))
      <4>1. \A t : On("pause", t).op = "pause"
          BY DEF On
      <4>2. \A t : ~ Will("api", On("pause", t))
          BY <1>2, <4>1 DEF Will
      <4> QED
          BY <1>4, <4>2 DEF Will, CommandThreadIdle
    <3>1. \A d \in Callers, t \in Threads : ~ Will(d, On("pause", t))
        BY <1>1, <3>0
    <3>2. \A k \in {"video", "preview", "face"} : Stopper(k) \in Callers /\ ThreadOf(k) \in Threads
        BY <1>1 DEF Stopper, ThreadOf, Threads
    <3> QED
        BY <1>1, <1>4, <3>1, <3>2 DEF Off, Pausing
  <2> QED
      BY <1>5, <1>6, <2>1 DEF Off
<1>9. Quieted'
  <2>1. Elements(commandThreadCommandQ') = {}
      BY <1>6, NothingIn DEF CommandThreadIdle
  <2> QED
      BY <1>4, <1>6, <2>1 DEF Quieted
<1>10. FaceAsked'
    BY <1>1, <1>2, <1>5, <1>6 DEF FaceAsked
<1>11. Pictures'
  <2>1. \A d \in Callers : ~ Pausing(d, "enc")'
    <3>1. "enc" \in Threads \ {"face"}
        BY DEF Threads
    <3>2. ~ Will("command", On("pause", "enc"))'
        BY <1>6 DEF CommandThreadIdle, Will
    <3> QED
        BY <1>1, <1>3, <1>4, <1>5, <3>1, <3>2 DEF Pausing, Asks
  <2> QED
      BY <1>1, <1>2, <1>5, <1>6, <2>1 DEF Pictures
<1>12. TypeOK'
  <2>1. FlagsTyped'
      BY <1>1, <1>2 DEF TypeOK, FlagsTyped
  <2>2. CallersTyped'
      BY <1>1, <1>2, <1>3 DEF TypeOK, CallersTyped
  <2> QED
      BY <1>5, <2>1, <2>2 DEF TypeOK
<1> QED
    BY <1>3, <1>5, <1>7, <1>8, <1>9, <1>10, <1>11, <1>12 DEF IInv

\* A step of the command thread that is done and leaves what runs as it is, or
\* starts something: no stop of the preview is to come then.
LEMMA StartKeeps ==
    ASSUME IInv, None \notin Frames, todo["command"] # <<>>,
           ~ Does("command", "await"), ~ Does("command", "pause"), Continue("command", <<>>),
           ~ Has("command", "stop preview")' \/
               (UNCHANGED mRunningState /\ Head(todo["command"]).op \notin Quietens),
           mRunningState \subseteq mRunningState', mRunningState' \subseteq Kinds,
           "video" \notin mRunningState => "video" \notin mRunningState',
           "face" \in mRunningState' => "face" \in mRunningState \/ "face" \in mMsgTypeEnabled,
           received' \subseteq Kinds,
           pictures' \in [num : Nat, enc : Nat], Pictures',
           UNCHANGED <<mMsgTypeEnabled, queue, thread, cb, mFrameInfoArray, sem,
                       commandThreadCommandQ>>
    PROVE  IInv'
<1>1. /\ TypeOK /\ Plans /\ Off /\ Quieted /\ FaceAsked /\ CallersTyped
      /\ "command" \in Callers /\ "api" \in Callers \ {"command"} /\ ~ CommandThreadIdle
    BY DEF IInv, TypeOK, Callers, CommandThreadIdle
<1>2. /\ todo' \in [Callers -> Seq(Steps)] /\ Plans' /\ todo'["api"] = todo["api"]
      /\ \A op : op # Head(todo["command"]).op => (Has("command", op) <=> Has("command", op)')
      /\ \A op : Has("command", op)' => Has("command", op)
    BY <1>1, StepDone
<1>3. /\ \A k \in {"video", "preview", "face"} : k \notin mRunningState => Clear(k)
      /\ Has("command", "stop preview") /\ ~ Has("command", "flush") => Clear("picture")
      /\ ~ Does("api", "stop faces")
    BY <1>1, CommandAlone
<1>4. \A k : Clear(k)' <=> Clear(k)
    BY NotifierStays
<1>5. Off'
    BY <1>3, <1>4 DEF Off
<1>6. ~ Does("api", "stop faces")'
    BY <1>2, <1>3 DEF Does
<1>7. Quieted'
  <2>1. CASE ~ Has("command", "stop preview")'
      BY <1>1, <1>6, <2>1 DEF Quieted
  <2>2. CASE UNCHANGED mRunningState /\ Head(todo["command"]).op \notin Quietens
    <3>1. \A op \in Quietens : Has("command", op)' <=> Has("command", op)
        BY <1>2, <2>2
    <3>2. Has("command", "stop preview")' => Has("command", "stop preview")
        BY <1>2
    <3>3. {"flush", "pause preview", "stop faces"} \subseteq Quietens
        BY DEF Quietens
    <3> QED
        BY <1>1, <1>3, <1>4, <1>6, <2>2, <3>1, <3>2, <3>3 DEF Quieted
  <2> QED
      BY <2>1, <2>2
<1>8. FaceAsked'
    BY <1>1, <1>2, <1>4 DEF FaceAsked
<1>9. FlagsTyped'
    BY <1>1 DEF TypeOK, FlagsTyped
<1>10. Has("command", "answer")' => Has("command", "answer")
    BY <1>2
<1> QED
    BY <1>2, <1>5, <1>7, <1>8, <1>9, <1>10, CommandStepKeeps

\* What the callers will do to the encoder while the command thread starts something
LEMMA NobodyPauses ==
    ASSUME IInv, todo["command"] # <<>>, ~ Does("command", "await"),
           Continue("command", <<>>), UNCHANGED <<queue, thread>>
    PROVE  \A c \in Callers, t \in Threads : ~ Pausing(c, t)'
<1>1. /\ CallersTyped /\ Plans /\ {"command", "api"} = Callers /\ ~ CommandThreadIdle
      /\ "command" # "api"
    BY DEF IInv, TypeOK, Callers, CommandThreadIdle
<1>2. /\ \A t : ~ Will("command", On("pause", t))'
      /\ todo'["api"] = todo["api"]
    BY <1>1, StepDone
<1>3. /\ \A c \in Callers, t \in Threads : Asks(c) \notin Work(t)
      /\ \A t \in Threads : ~ Pausing("api", t)
    BY <1>1, CommandAlone
<1>4. \A t : Work(t)' = Work(t)
    BY DEF Work, Queued
<1>5. \A c \in Callers, t \in Threads : (Asks(c) \notin Work(t))'
    BY <1>3, <1>4 DEF Asks
<1>6. \A t \in Threads : ~ Will("api", On("pause", t))'
    BY <1>2, <1>3 DEF Will, Pausing
<1> QED
    BY <1>1, <1>2, <1>5, <1>6 DEF Pausing

LEMMA startsForKeeps ==
    ASSUME IInv, None \notin Frames,
           NEW op \in {"receive", "faces if asked", "faces"}, NEW kind \in {"preview", "face"},
           NEW wanted, startsFor(op, kind, wanted),
           kind = "face" /\ wanted => "face" \in mMsgTypeEnabled
    PROVE  IInv'
<1>1. /\ CallersTyped /\ FlagsTyped /\ Pictures /\ Plans /\ "command" \in Callers
      /\ kind \in Kinds /\ kind # "video" /\ kind # "picture"
    BY DEF IInv, TypeOK, Callers, Kinds
<1>2. /\ todo["command"] # <<>> /\ Head(todo["command"]).op = op
      /\ ~ Does("command", "await") /\ ~ Does("command", "pause") /\ op \notin Before
      /\ Continue("command", <<>>)
      /\ UNCHANGED <<mMsgTypeEnabled, pictures, queue, thread, cb, mFrameInfoArray, sem,
                     commandThreadCommandQ>>
    BY DEF startsFor, Does, Before, Quietens, counts, threads, frames
<1>3. /\ mRunningState \subseteq mRunningState' /\ mRunningState' \subseteq mRunningState \union {kind}
      /\ received' \subseteq received \union {kind}
      /\ wanted \/ mRunningState' = mRunningState
  <2>1. CASE wanted
      BY <2>1 DEF startsFor, Starts
  <2>2. CASE ~ wanted
      BY <2>2 DEF startsFor
  <2> QED
      BY <2>1, <2>2
<1>4. ~ Has("command", "stop preview")'
    BY <1>1, <1>2, StepDone
<1>5. Pictures'
  <2>1. \A c \in Callers : ~ Pausing(c, "enc")'
    <3>1. "enc" \in Threads
        BY DEF Threads
    <3> QED
        BY <1>2, <3>1, NobodyPauses
  <2>2. "picture" \in mRunningState' <=> "picture" \in mRunningState
      BY <1>1, <1>3
  <2>3. Queued("enc")' = Queued("enc")
      BY <1>2 DEF Queued
  <2> QED
      BY <1>1, <1>2, <2>1, <2>2, <2>3 DEF Pictures
<1>6. /\ mRunningState' \subseteq Kinds /\ received' \subseteq Kinds
      /\ pictures' \in [num : Nat, enc : Nat]
      /\ "video" \notin mRunningState => "video" \notin mRunningState'
      /\ "face" \in mRunningState' => "face" \in mRunningState \/ "face" \in mMsgTypeEnabled
    BY <1>1, <1>2, <1>3 DEF FlagsTyped
<1> QED
    BY <1>2, <1>3, <1>4, <1>5, <1>6, StartKeeps

LEMMA StartsKeep ==
    ASSUME IInv, None \notin Frames, startReceiveFrame \/ startFaceDection
    PROVE  IInv'
<1>1. CASE startReceiveFrame
    BY <1>1, startsForKeeps DEF startReceiveFrame
<1>2. CASE startsFor("faces if asked", "face", "face" \in mMsgTypeEnabled \ mRunningState)
    BY <1>2, startsForKeeps
<1>3. CASE startsFor("faces", "face", mPreviewRunning /\ "face" \notin mRunningState)
  <2>1. Has("command", "faces")
    <3>1. /\ CallersTyped /\ Plans /\ "command" \in Callers /\ todo["command"] # <<>>
          /\ Head(todo["command"]).op = "faces" /\ Continue("command", <<>>)
        BY <1>3 DEF IInv, TypeOK, Callers, startsFor, Does
    <3>2. Has("command", Head(todo["command"]).op)
        BY <3>1, StepDone
    <3> QED
        BY <3>1, <3>2
  <2>2. "face" \in mMsgTypeEnabled
      BY <2>1 DEF IInv, FaceAsked
  <2> QED
      BY <1>3, <2>2, startsForKeeps
<1> QED
    BY <1>1, <1>2, <1>3 DEF startFaceDection

LEMMA startPreviewKeeps ==
    ASSUME IInv, None \notin Frames, startPreview
    PROVE  IInv'
<1>1. /\ FlagsTyped /\ Pictures
      /\ todo["command"] # <<>> /\ Head(todo["command"]).op = "start preview"
      /\ ~ Does("command", "await") /\ ~ Does("command", "pause")
      /\ "start preview" \notin Quietens /\ Continue("command", <<>>)
      /\ UNCHANGED <<mRunningState, received, mMsgTypeEnabled, pictures, queue, thread, cb,
                     mFrameInfoArray, sem, commandThreadCommandQ>>
    BY DEF IInv, TypeOK, startPreview, Does, Quietens, flags, counts, threads, frames
<1>2. Pictures'
  <2>1. \A c \in Callers : ~ Pausing(c, "enc")'
    <3>1. "enc" \in Threads
        BY DEF Threads
    <3> QED
        BY <1>1, <3>1, NobodyPauses
  <2>2. Queued("enc")' = Queued("enc")
      BY <1>1 DEF Queued
  <2> QED
      BY <1>1, <2>1, <2>2 DEF Pictures
<1>3. /\ mRunningState' \subseteq Kinds /\ received' \subseteq Kinds
      /\ pictures' \in [num : Nat, enc : Nat]
    BY <1>1 DEF FlagsTyped
<1> QED
    BY <1>1, <1>2, <1>3, StartKeeps

LEMMA takePictureKeeps ==
    ASSUME IInv, None \notin Frames, NEW n \in 1..MaxPictures, takePicture(n)
    PROVE  IInv'
<1>1. /\ FlagsTyped /\ QueuesTyped /\ CallersTyped /\ Plans /\ Pictures /\ "command" \in Callers
      /\ "enc" \in Threads
    BY DEF IInv, TypeOK, Callers, Threads
<1>2. /\ todo["command"] # <<>> /\ Head(todo["command"]).op = "take" /\ "take" \notin Before
      /\ ~ Does("command", "await") /\ ~ Does("command", "pause") /\ ~ CommandThreadIdle
      /\ Continue("command", <<>>)
      /\ UNCHANGED <<received, mMsgTypeEnabled, queue, thread, cb, mFrameInfoArray, sem,
                     commandThreadCommandQ>>
    BY DEF takePicture, Does, Before, Quietens, CommandThreadIdle, threads, frames
<1>3. ~ Has("command", "stop preview")'
    BY <1>1, <1>2, StepDone
<1>4. \A c \in Callers : ~ Pausing(c, "enc")'
    BY <1>1, <1>2, NobodyPauses
<1>5. Queued("enc")' = Queued("enc")
    BY <1>2 DEF Queued
<1>6. n \in Nat /\ n > 0
    BY NotifierAssumption
<1>7. CASE "picture" \in mRunningState
  <2>1. UNCHANGED <<mRunningState, pictures>>
      BY <1>7 DEF takePicture
  <2>2. Pictures'
      BY <1>1, <1>2, <1>4, <1>5, <2>1 DEF Pictures
  <2> QED
      BY <1>1, <1>2, <1>3, <2>1, <2>2, StartKeeps DEF FlagsTyped
<1>8. CASE "picture" \notin mRunningState
  <2>1. /\ pictures' = [num |-> n, enc |-> n] /\ mRunningState' = mRunningState \union {"picture"}
        /\ \A m \in Queued("enc") : m.cmd # "picture"
      BY <1>1, <1>8 DEF takePicture, Pictures
  <2>2. Queued("enc") = {}
    <3> SUFFICES ASSUME NEW m \in Queued("enc") PROVE FALSE
        OBVIOUS
    <3>1. m \in Sendable("enc") /\ m \in Work("enc")
        BY <1>1, WorkTyped
    <3>2. \A c \in Callers : m # Asks(c)
        BY <1>1, <1>2, <3>1, CommandAlone
    <3>3. m \notin Pauses
        BY <3>2, MessagesAre DEF Asks
    <3> QED
        BY <2>1, <3>1, <3>3, MessagesAre DEF Sendable, ThreadOf, Kinds
  <2>3. Len(queue'["enc"]) = 0
    <3>1. queue["enc"] = <<>>
        BY <1>1, <2>2, NothingIn DEF Queued, QueuesTyped
    <3> QED
        BY <1>2, <3>1
  <2>4. pictures'.num = n /\ pictures'.enc = n /\ n = n + 0
      BY <1>6, <2>1
  <2>5. Pictures'
      BY <1>4, <1>6, <2>1, <2>3, <2>4 DEF Pictures
  <2>6. pictures' \in [num : Nat, enc : Nat]
      BY <1>6, <2>1
  <2>7. "picture" # "video" /\ "picture" # "face" /\ "picture" \in Kinds
      BY DEF Kinds
  <2> QED
      BY <1>1, <1>2, <1>3, <2>1, <2>5, <2>6, <2>7, StartKeeps DEF FlagsTyped
<1> QED
    BY <1>7, <1>8

\* A stop of the preview finds that nobody has a frame.
LEMMA StopFindsNone ==
    ASSUME IInv, None \notin Frames, stopPreview
    PROVE  mFrameInfoArray = {}
<1>1. /\ FlagsTyped /\ QueuesTyped /\ CallersTyped /\ Plans /\ Quieted /\ Known
      /\ "command" \in Callers
    BY DEF IInv, TypeOK, Callers
<1>2. /\ todo["command"] # <<>> /\ Head(todo["command"]).op = "stop preview"
      /\ ~ Does("command", "await") /\ ~ Does("command", "pause") /\ ~ CommandThreadIdle
      /\ cb = NoMessage
    BY DEF stopPreview, Does, CommandThreadIdle
<1>3. /\ Has("command", "stop preview") /\ ~ Has("command", "flush")
      /\ ~ Has("command", "pause preview") /\ ~ Has("command", "stop faces")
  <2>1. todo["command"] \in Seq(Steps) /\ Ordered(todo["command"])
      BY <1>1 DEF CallersTyped, Plans
  <2>2. /\ OpsOf(todo["command"]) = {"stop preview"} \union OpsOf(Tail(todo["command"]))
        /\ OpsOf(Tail(todo["command"])) \intersect Quietens = {}
      BY <1>2, <2>1, Shortened
  <2> QED
      BY <2>2 DEF Has, Quietens
<1>4. \A k \in Kinds : Clear(k)
    BY <1>1, <1>2, <1>3, CommandAlone DEF Quieted, Kinds
<1>5. \A c \in Callers, t \in Threads : Asks(c) \notin Work(t)
    BY <1>2, CommandAlone
<1>6. ASSUME NEW t \in Threads, NEW m \in Work(t) PROVE FALSE
  <2>1. m \in Sendable(t)
      BY <1>1, WorkTyped
  <2>2. m \notin Pauses
      BY <1>5, MessagesAre DEF Asks
  <2>3. m \in FrameMessages /\ ThreadOf(m.cmd) = t
      BY <2>1, <2>2 DEF Sendable
  <2> QED
      BY <1>4, <2>3, MessagesAre DEF Clear
<1> QED
    BY <1>1, <1>2, <1>6, MessagesAre DEF Known, FlagsTyped

LEMMA stopPreviewKeeps ==
    ASSUME IInv, None \notin Frames, stopPreview
    PROVE  IInv'
<1>1. /\ FlagsTyped /\ Pictures
      /\ todo["command"] # <<>> /\ Head(todo["command"]).op = "stop preview"
      /\ ~ Does("command", "await") /\ ~ Does("command", "pause")
      /\ "stop preview" \notin Quietens /\ Continue("command", <<>>)
      /\ UNCHANGED <<mRunningState, received, mMsgTypeEnabled, pictures, queue, thread, cb, sem,
                     commandThreadCommandQ>>
      /\ mFrameInfoArray' \in {{}, mFrameInfoArray}
    BY DEF IInv, TypeOK, stopPreview, Does, Quietens, flags, counts, threads, frames
<1>2. UNCHANGED mFrameInfoArray
    BY <1>1, StopFindsNone
<1>3. Pictures'
  <2>1. \A c \in Callers : ~ Pausing(c, "enc")'
    <3>1. "enc" \in Threads
        BY DEF Threads
    <3> QED
        BY <1>1, <3>1, NobodyPauses
  <2>2. Queued("enc")' = Queued("enc")
      BY <1>1 DEF Queued
  <2> QED
      BY <1>1, <2>1, <2>2 DEF Pictures
<1>4. /\ mRunningState' \subseteq Kinds /\ received' \subseteq Kinds
      /\ pictures' \in [num : Nat, enc : Nat]
    BY <1>1 DEF FlagsTyped
<1> QED
    BY <1>1, <1>2, <1>3, <1>4, StartKeeps

LEMMA AnswerKeeps ==
    ASSUME IInv, None \notin Frames, Answer
    PROVE  IInv'
<1>1. /\ FlagsTyped /\ CallersTyped /\ Plans /\ Waits /\ Off /\ Quieted /\ FaceAsked /\ Pictures
      /\ {"command", "api"} = Callers /\ "command" \in Callers /\ "api" \in Callers
      /\ "command" # "api" /\ "enc" \in Threads
    BY DEF IInv, TypeOK, Callers, Threads
<1>2. /\ todo["command"] # <<>> /\ Head(todo["command"]).op = "answer"
      /\ ~ Does("command", "await") /\ ~ Does("command", "pause") /\ ~ CommandThreadIdle
      /\ "answer" \notin Quietens /\ Continue("command", <<>>)
      /\ sem' = [sem EXCEPT !["api"] = TRUE]
      /\ UNCHANGED <<mRunningState, received, mMsgTypeEnabled, pictures, queue, thread, cb,
                     mFrameInfoArray, commandThreadCommandQ>>
    BY DEF Answer, Does, Quietens, CommandThreadIdle, flags, counts, threads, frames
<1>3. /\ todo' \in [Callers -> Seq(Steps)] /\ Plans' /\ todo'["api"] = todo["api"]
      /\ \A op : op # "answer" => (Has("command", op) <=> Has("command", op)')
      /\ \A op : Has("command", op)' => Has("command", op)
      /\ Has("command", "answer") /\ ~ Has("command", "answer")'
    BY <1>1, <1>2, StepDone
<1>4. /\ \A c \in Callers, t \in Threads : Asks(c) \notin Work(t)
      /\ \A t \in Threads : ~ Pausing("api", t)
      /\ ~ Does("api", "stop faces") /\ ~ sem["command"]
      /\ \A k \in {"video", "preview", "face"} : k \notin mRunningState => Clear(k)
      /\ Has("command", "stop preview") /\ ~ Has("command", "flush") => Clear("picture")
    BY <1>2, CommandAlone
<1>5. /\ QueuesTyped' /\ AllDistinct' /\ OnePause' /\ Apart' /\ Known'
      /\ \A t : Work(t)' = Work(t) /\ Queued(t)' = Queued(t)
      /\ \A k : Clear(k)' <=> Clear(k)
    BY <1>2, NotifierStays
<1>6. \A c \in Callers, t \in Threads : ~ Pausing(c, t)'
    BY <1>2, NobodyPauses
<1>7. Waits'
  <2>1. AnswerDue
      BY <1>3 DEF AnswerDue
  <2>2. Does("api", "await")' /\ \A op : Does("api", op)' <=> Does("api", op)
      BY <1>1, <1>3, <2>1 DEF Waits, Does
  <2>3. \A i \in DOMAIN commandThreadCommandQ : commandThreadCommandQ[i] \notin Waiting
      BY <1>1, <1>3 DEF Waits
  <2>4. ~ AnswerDue'
      BY <1>2, <1>3, <2>3 DEF AnswerDue, Elements
  <2>5. \A c \in Callers : sem'[c] => Does(c, "await")'
      BY <1>1, <1>2, <1>4, <2>2 DEF CallersTyped
  <2>6. \A c \in Callers, t \in Threads : (Asks(c) \notin Work(t))'
      BY <1>4, <1>5 DEF Asks
  <2>7. \A i \in DOMAIN commandThreadCommandQ' : commandThreadCommandQ'[i] \notin Waiting
      BY <1>2, <2>3
  <2>8. ~ (Does("api", "stop faces") \/ \E t \in Threads : Pausing("api", t))'
      BY <1>1, <1>4, <1>6, <2>2
  <2>9. /\ \A c \in Callers, t \in Threads : (Asks(c) \in Work(t) => Does(c, "await") /\ ~ sem[c])'
        /\ (AnswerDue => Does("api", "await") /\ ~ sem["api"])'
      BY <2>4, <2>6
  <2> QED
      BY <2>5, <2>7, <2>8, <2>9 DEF Waits, Asks
<1>8. Off'
    BY <1>2, <1>4, <1>5 DEF Off
<1>9. Quieted'
  <2>1. ~ Does("api", "stop faces")'
      BY <1>3, <1>4 DEF Does
  <2> QED
      BY <1>1, <1>2, <1>3, <1>4, <1>5, <2>1 DEF Quieted
<1>10. FaceAsked'
    BY <1>1, <1>2, <1>3, <1>5 DEF FaceAsked
<1>11. Pictures'
    BY <1>1, <1>2, <1>5, <1>6 DEF Pictures
<1>12. FlagsTyped' /\ CallersTyped'
    BY <1>1, <1>2, <1>3 DEF FlagsTyped, CallersTyped
<1> QED
    BY <1>3, <1>5, <1>7, <1>8, <1>9, <1>10, <1>11, <1>12 DEF IInv, TypeOK

\* Only the caller that is about to put a PAUSE, or to wait, has to do with one.
LEMMA AwaitKeeps ==
    ASSUME IInv, None \notin Frames, NEW c \in Callers, Await(c)
    PROVE  IInv'
<1>1. /\ FlagsTyped /\ CallersTyped /\ Plans /\ Waits /\ Off /\ Quieted /\ FaceAsked /\ Pictures
      /\ {"command", "api"} = Callers /\ "command" \in Callers /\ "api" \in Callers
      /\ "command" # "api" /\ "enc" \in Threads
    BY DEF IInv, TypeOK, Callers, Threads
<1>2. /\ todo[c] # <<>> /\ Head(todo[c]).op = "await" /\ sem[c]
      /\ "await" \notin Quietens /\ Continue(c, <<>>)
      /\ sem' = [sem EXCEPT ![c] = FALSE]
      /\ UNCHANGED <<mRunningState, received, mMsgTypeEnabled, pictures, queue, thread, cb,
                     mFrameInfoArray, commandThreadCommandQ>>
    BY DEF Await, Does, Quietens, flags, counts, threads, frames
<1>3. /\ todo' \in [Callers -> Seq(Steps)] /\ Plans'
      /\ \A op : op # "await" => (Has(c, op) <=> Has(c, op)')
      /\ \A d \in Callers \ {c} : todo'[d] = todo[d]
      /\ \A t : ~ Will(c, On("pause", t))'
      /\ c = "api" => todo'[c] = <<>>
    BY <1>1, <1>2, StepDone
<1>4. \A t \in Threads : Asks(c) \notin Work(t)
    BY <1>1, <1>2 DEF Waits
<1>5. /\ QueuesTyped' /\ AllDistinct' /\ OnePause' /\ Apart' /\ Known'
      /\ \A t : Work(t)' = Work(t) /\ Queued(t)' = Queued(t)
      /\ \A k : Clear(k)' <=> Clear(k)
    BY <1>2, NotifierStays
<1>6. /\ \A t : Will(c, On("pause", t)) => FALSE
      /\ \A t \in Threads : ~ Pausing(c, t) /\ ~ Pausing(c, t)'
      /\ \A d \in Callers, t \in Threads : Pausing(d, t)' <=> Pausing(d, t)
  <2>1. \A t : ~ Will(c, On("pause", t))
      BY <1>2 DEF Will, On
  <2>2. \A t \in Threads : ~ Pausing(c, t) /\ ~ Pausing(c, t)'
      BY <1>3, <1>4, <1>5, <2>1 DEF Pausing, Asks
  <2>3. \A d \in Callers \ {c}, t \in Threads : Pausing(d, t)' <=> Pausing(d, t)
      BY <1>3, <1>5 DEF Pausing, Will, Asks
  <2> QED
      BY <2>1, <2>2, <2>3
<1>7. /\ \A op : op # "await" => (Has("command", op)' <=> Has("command", op))
      /\ Does("api", "stop faces")' <=> Does("api", "stop faces")
  <2>1. CASE c = "command"
      BY <1>1, <1>3, <2>1 DEF Does
  <2>2. CASE c = "api"
      BY <1>1, <1>2, <1>3, <2>2 DEF Does, Has
  <2> QED
      BY <1>1, <2>1, <2>2
<1>8. Waits'
  <2>1. AnswerDue' <=> AnswerDue
      BY <1>2, <1>7 DEF AnswerDue
  <2>2. \A d \in Callers \ {c} : \A op : Does(d, op)' <=> Does(d, op)
      BY <1>3 DEF Does
  <2>3. ~ sem'[c] /\ \A d \in Callers \ {c} : sem'[d] = sem[d]
      BY <1>1, <1>2 DEF CallersTyped
  <2>4. c = "api" => ~ AnswerDue
      BY <1>1, <1>2 DEF Waits
  <2>5. \A d \in Callers, t \in Threads : (Asks(d) \in Work(t))' => Does(d, "await")' /\ ~ sem'[d]
    <3>1. \A d \in Callers, t \in Threads : (Asks(d) \in Work(t))' => Asks(d) \in Work(t) /\ d # c
        BY <1>4, <1>5 DEF Asks
    <3> QED
        BY <1>1, <2>2, <2>3, <3>1 DEF Waits
  <2>6. \A d \in Callers : sem'[d] => Does(d, "await")'
      BY <1>1, <2>2, <2>3 DEF Waits
  <2>7. AnswerDue' => Does("api", "await")' /\ ~ sem'["api"]
      BY <1>1, <2>1, <2>2, <2>3, <2>4 DEF Waits
  <2>8. \A i \in DOMAIN commandThreadCommandQ' : commandThreadCommandQ'[i] \in Waiting
               => i = Len(commandThreadCommandQ') /\ ~ Has("command", "answer")'
      BY <1>1, <1>2, <1>7 DEF Waits
  <2>9. (Does("api", "stop faces") \/ \E t \in Threads : Pausing("api", t))' => CommandThreadIdle'
    <3>1. ASSUME (Does("api", "stop faces") \/ \E t \in Threads : Pausing("api", t))'
          PROVE  CommandThreadIdle'
      <4>1. CommandThreadIdle
          BY <1>1, <1>6, <1>7, <3>1 DEF Waits
      <4>2. c # "command"
          BY <1>2, <4>1 DEF CommandThreadIdle
      <4> QED
          BY <1>1, <1>2, <1>3, <4>1, <4>2 DEF CommandThreadIdle
    <3> QED
        BY <3>1
  <2> QED
      BY <2>5, <2>6, <2>7, <2>8, <2>9 DEF Waits
<1>9. Off'
  <2>1. \A k \in {"video", "preview", "face"} : Stopper(k) \in Callers /\ ThreadOf(k) \in Threads
      BY <1>1 DEF Stopper, ThreadOf, Threads
  <2> QED
      BY <1>1, <1>2, <1>5, <1>6, <2>1 DEF Off
<1>10. Quieted'
    BY <1>1, <1>2, <1>5, <1>6, <1>7 DEF Quieted
<1>11. FaceAsked'
    BY <1>1, <1>2, <1>5, <1>7 DEF FaceAsked
<1>12. Pictures'
    BY <1>1, <1>2, <1>5, <1>6 DEF Pictures
<1>13. FlagsTyped' /\ CallersTyped'
    BY <1>1, <1>2, <1>3 DEF FlagsTyped, CallersTyped
<1> QED
    BY <1>3, <1>5, <1>8, <1>9, <1>10, <1>11, <1>12, <1>13 DEF IInv, TypeOK

LEMMA PausesThreadKeeps ==
    ASSUME IInv, None \notin Frames, NEW c \in Callers, PausesThread(c)
    PROVE  IInv'
<1>1. /\ FlagsTyped /\ CallersTyped /\ QueuesTyped /\ AllDistinct /\ Plans /\ Waits /\ Off
      /\ Quieted /\ FaceAsked /\ Pictures /\ Apart /\ Known
      /\ {"command", "api"} = Callers /\ "command" \in Callers /\ "api" \in Callers
      /\ "command" # "api" /\ "enc" \in Threads
    BY DEF IInv, TypeOK, Callers, Threads
<1>2. /\ todo[c] # <<>> /\ Head(todo[c]).op = "pause" /\ ~ Does(c, "await")
      /\ ~ Does(c, "stop faces") /\ Continue(c, <<Step("await")>>)
      /\ Put(Head(todo[c]).on, Asks(c))
      /\ UNCHANGED <<mRunningState, received, mMsgTypeEnabled, pictures, thread, cb, sem,
                     mFrameInfoArray, commandThreadCommandQ>>
    BY DEF PausesThread, Does, Asks, flags, counts, frames
<1>3. PICK t0 \in Threads : Head(todo[c]) = On("pause", t0) /\ Head(todo[c]).on = t0
  <2>1. Head(todo[c]) \in Steps
      BY <1>1, <1>2, Shortened DEF CallersTyped
  <2>2. Head(todo[c]) \in [op : {"pause"}, on : Threads]
      BY <1>2, <2>1 DEF Steps, Ops
  <2> QED
      BY <2>2 DEF On
<1>4. \A u : Will(c, On("pause", u)) <=> u = t0
  <2>1. \A u : On("pause", u).on = u
      BY DEF On
  <2> QED
      BY <1>2, <1>3, <2>1 DEF Will
<1>5. /\ c = "api" => CommandThreadIdle
      /\ c = "command" => ~ CommandThreadIdle
      /\ \A d \in Callers, u \in Threads : Asks(d) \notin Work(u)
      /\ ~ sem[c] /\ (c = "api" => ~ AnswerDue)
  <2>1. c = "api" => CommandThreadIdle
      BY <1>1, <1>3, <1>4 DEF Waits, Pausing
  <2>2. c = "command" => ~ CommandThreadIdle
      BY <1>2 DEF CommandThreadIdle
  <2>3. ASSUME NEW d \in Callers, NEW u \in Threads, Asks(d) \in Work(u) PROVE FALSE
    <3>1. Does(d, "await")
        BY <1>1, <2>3 DEF Waits
    <3>2. CASE c = "api"
        BY <1>1, <1>2, <2>1, <3>1, <3>2 DEF CommandThreadIdle, Does
    <3>3. CASE c = "command"
        BY <1>1, <1>2, <2>2, <2>3, <3>1, <3>3 DEF Waits, Pausing
    <3> QED
        BY <1>1, <3>2, <3>3
  <2> QED
      BY <1>1, <1>2, <2>1, <2>2, <2>3 DEF Waits
<1>6. Asks(c) \in Sendable(t0) /\ Asks(c).cmd = "PAUSE" /\ Asks(c).frame = None
  <2>1. Asks(c) \in Pauses
      BY MessagesAre DEF Asks
  <2> QED
      BY <2>1, MessagesAre DEF Sendable
<1>7. /\ QueuesTyped' /\ Distinct(t0)'
      /\ Work(t0)' = Work(t0) \union {Asks(c)} /\ Queued(t0)' = Queued(t0) \union {Asks(c)}
      /\ \A u \in Threads \ {t0} : /\ Work(u)' = Work(u) /\ Queued(u)' = Queued(u)
                                   /\ queue'[u] = queue[u]
                                   /\ (Distinct(u) => Distinct(u)')
    BY <1>1, <1>2, <1>3, <1>5, <1>6, Puts DEF AllDistinct
<1>8. AllDistinct'
    BY <1>1, <1>7 DEF AllDistinct
<1>9. \A d \in Callers, u \in Threads : Asks(d) \in Work(u)' <=> d = c /\ u = t0
  <2>1. \A d \in Callers : Asks(d) = Asks(c) => d = c
      BY DEF Asks, Message
  <2> QED
      BY <1>5, <1>7, <2>1
<1>10. /\ todo' \in [Callers -> Seq(Steps)] /\ Plans'
       /\ \A op \in Ops \ {"await"} : Has(c, op)' <=> Has(c, op)
       /\ todo'[c] # <<>> /\ Head(todo'[c]) = Step("await")
       /\ \A d \in Callers \ {c} : todo'[d] = todo[d]
  <2>1. Step("await") \in Steps /\ Step("await").op = "await"
      BY StepsAre DEF Ops
  <2>2. <<Step("await")>> \in ApiSteps
      BY DEF ApiSteps
  <2>3. "pause" \notin Ops
      BY DEF Ops
  <2> QED
    <3>1. /\ CallersTyped /\ Plans /\ todo[c] # <<>> /\ Continue(c, <<Step("await")>>)
          /\ Head(todo[c]).op = "pause"
        BY <1>1, <1>2
    <3>2. /\ todo' \in [Callers -> Seq(Steps)] /\ Plans'
          /\ \A op : op # "pause" => (Has(c, op) => Has(c, op)')
          /\ \A op : op # "await" => (Has(c, op)' => Has(c, op))
          /\ todo'[c] # <<>> /\ Head(todo'[c]) = Step("await")
          /\ \A d \in Callers \ {c} : todo'[d] = todo[d]
        BY <2>1, <2>2, <3>1, StepReplaced
    <3> QED
        BY <2>3, <3>2
<1>11. /\ \A op \in Ops \ {"await"} : Has("command", op)' <=> Has("command", op)
       /\ Does(c, "await")' /\ ~ Does(c, "stop faces")'
       /\ \A u : ~ Will(c, On("pause", u))'
       /\ \A d \in Callers \ {c} : \A op : Does(d, op)' <=> Does(d, op)
       /\ \A d \in Callers \ {c} : \A x : Will(d, x)' <=> Will(d, x)
  <2>1. Step("await").op = "await" /\ \A u : On("pause", u).op = "pause"
      BY DEF Step, On
  <2>2. Does(c, "await")' /\ ~ Does(c, "stop faces")' /\ \A u : ~ Will(c, On("pause", u))'
      BY <1>10, <2>1 DEF Does, Will
  <2>3. \A d \in Callers \ {c} : \A op : Does(d, op)' <=> Does(d, op)
      BY <1>10 DEF Does
  <2>4. \A d \in Callers \ {c} : \A x : Will(d, x)' <=> Will(d, x)
      BY <1>10 DEF Will
  <2>5. \A op \in Ops \ {"await"} : Has("command", op)' <=> Has("command", op)
    <3>1. CASE c = "command"
        BY <1>10, <3>1
    <3>2. CASE c = "api"
        BY <1>1, <1>10, <3>2 DEF Has
    <3> QED
        BY <1>1, <3>1, <3>2
  <2> QED
      BY <2>2, <2>3, <2>4, <2>5
<1>12. \A d \in Callers, u \in Threads : Pausing(d, u)' <=> Pausing(d, u)
  <2>1. \A u \in Threads : Pausing(c, u)' <=> u = t0
      BY <1>9, <1>11 DEF Pausing, Asks
  <2>2. \A u \in Threads : Pausing(c, u) <=> u = t0
      BY <1>4, <1>5 DEF Pausing
  <2>3. \A d \in Callers \ {c}, u \in Threads : Pausing(d, u)' <=> Pausing(d, u)
      BY <1>5, <1>9, <1>11 DEF Pausing, Asks
  <2> QED
      BY <2>1, <2>2, <2>3
<1>13. \A k \in Kinds : Clear(k)' <=> Clear(k)
  <2>1. \A u \in Threads : \A m \in Work(u)' : m \in Work(u) \/ m.cmd = "PAUSE"
      BY <1>6, <1>7
  <2>2. \A u \in Threads : \A m \in Work(u) : m \in Work(u)'
      BY <1>7
  <2>3. \A k \in Kinds : ThreadOf(k) \in Threads /\ k # "PAUSE"
      BY MessagesAre DEF Kinds
  <2> QED
      BY <2>1, <2>2, <2>3 DEF Clear
<1>14. OnePause'
    BY <1>9 DEF OnePause, Asks
<1>15. Apart' /\ Known'
  <2>1. \A u \in Threads : \A m \in Work(u)' : m \in Work(u) \/ m.frame = None
      BY <1>6, <1>7
  <2>2. \A u \in Threads : \A m \in Work(u) : m \in Work(u)'
      BY <1>7
  <2>3. cb # NoMessage => cb.frame # None
      BY <1>1, MessagesAre DEF FlagsTyped
  <2>4. Apart'
      BY <1>1, <1>2, <2>1, <2>3 DEF Apart
  <2>5. Known'
    <3>1. \A f \in Frames : (\E u \in Threads : \E m \in Work(u)' : m.frame = f)
                            <=> \E u \in Threads : \E m \in Work(u) : m.frame = f
        BY <2>1, <2>2
    <3> QED
        BY <1>1, <1>2, <3>1 DEF Known
  <2> QED
      BY <2>4, <2>5
<1>16. Waits'
  <2>1. AnswerDue' <=> AnswerDue
      BY <1>2, <1>11 DEF AnswerDue, Ops
  <2>2. \A d \in Callers, u \in Threads : (Asks(d) \in Work(u))' => Does(d, "await")' /\ ~ sem'[d]
      BY <1>2, <1>5, <1>9, <1>11 DEF Asks
  <2>3. \A d \in Callers : sem'[d] => Does(d, "await")'
      BY <1>1, <1>2, <1>5, <1>11 DEF Waits
  <2>4. AnswerDue' => Does("api", "await")' /\ ~ sem'["api"]
      BY <1>1, <1>2, <1>5, <1>11, <2>1 DEF Waits
  <2>5. \A i \in DOMAIN commandThreadCommandQ' : commandThreadCommandQ'[i] \in Waiting
               => i = Len(commandThreadCommandQ') /\ ~ Has("command", "answer")'
      BY <1>1, <1>2, <1>11 DEF Waits, Ops
  <2>6. (Does("api", "stop faces") \/ \E u \in Threads : Pausing("api", u))' => CommandThreadIdle'
    <3>1. CASE c = "api"
        BY <1>1, <1>2, <1>5, <1>10, <3>1 DEF CommandThreadIdle
    <3>2. CASE c = "command"
        BY <1>1, <1>5, <1>11, <1>12, <3>2 DEF Waits
    <3> QED
        BY <1>1, <3>1, <3>2
  <2> QED
      BY <2>2, <2>3, <2>4, <2>5, <2>6 DEF Waits, Asks
<1>17. Off'
  <2>1. \A k \in {"video", "preview", "face"} :
           Stopper(k) \in Callers /\ ThreadOf(k) \in Threads /\ k \in Kinds
      BY <1>1 DEF Stopper, ThreadOf, Threads, Kinds
  <2> QED
      BY <1>1, <1>2, <1>12, <1>13, <2>1 DEF Off
<1>18. Quieted'
  <2>1. Does("api", "stop faces")' => Does("api", "stop faces")
      BY <1>1, <1>11
  <2>2. "picture" \in Kinds /\ {"stop preview", "pause preview", "stop faces", "flush"}
                                   \subseteq Ops \ {"await"}
      BY DEF Ops, Kinds
  <2> QED
      BY <1>1, <1>2, <1>11, <1>12, <1>13, <2>1, <2>2 DEF Quieted
<1>19. FaceAsked'
    BY <1>1, <1>2, <1>11, <1>13 DEF FaceAsked, Ops, Kinds
<1>20. Pictures'
  <2>1. CASE "picture" \in mRunningState
    <3>1. t0 # "enc"
        BY <1>1, <1>4, <2>1 DEF Pictures, Pausing
    <3> QED
        BY <1>1, <1>2, <1>7, <1>12, <2>1, <3>1 DEF Pictures
  <2>2. CASE "picture" \notin mRunningState
    <3>1. \A m \in Queued("enc")' : m \in Queued("enc") \/ m.cmd = "PAUSE"
        BY <1>1, <1>6, <1>7
    <3> QED
        BY <1>1, <1>2, <2>2, <3>1 DEF Pictures
  <2> QED
      BY <2>1, <2>2
<1>21. FlagsTyped' /\ CallersTyped'
    BY <1>1, <1>2, <1>10 DEF FlagsTyped, CallersTyped
<1> QED
    BY <1>7, <1>8, <1>10, <1>14, <1>15, <1>16, <1>17, <1>18, <1>19, <1>20, <1>21 DEF IInv, TypeOK

-----------------------------------------------------------------------------
(* The command thread takes a command                                        *)

\* What the steps of a command may be
Begins == {"start preview", "receive", "faces if asked"}
Planned(L, cmd) ==
    /\ L \in Seq(Steps) /\ Ordered(L) /\ "pause" \notin OpsOf(L)
    /\ "answer" \in OpsOf(L) => cmd \in Waiting
    /\ "faces" \in OpsOf(L) => cmd = "START_FACE_DETECTION"
    /\ "stop preview" \in OpsOf(L) => Quietens \subseteq OpsOf(L)

LEMMA Twofold == ASSUME NEW x \in Steps, NEW y \in Steps
                 PROVE  <<x, y>> = <<x>> \o <<y>>
<1> DEFINE u == <<x, y>>
           v == <<x>> \o <<y>>
<1>1. u \in Seq(Steps) /\ Len(u) = 2 /\ u[1] = x /\ u[2] = y
    OBVIOUS
<1>2. v \in Seq(Steps) /\ Len(v) = 2 /\ v[1] = x /\ v[2] = y
    OBVIOUS
<1> HIDE DEF u, v
<1>3. \A i \in 1..Len(u) : u[i] = v[i]
    BY <1>1, <1>2
<1>4. u = v
    BY <1>1, <1>2, <1>3, SeqEqual
<1> QED
    BY <1>4 DEF u, v

LEMMA Threefold == ASSUME NEW x \in Steps, NEW y \in Steps, NEW z \in Steps
                   PROVE  <<x, y, z>> = <<x>> \o <<y, z>>
OBVIOUS

LEMMA Pairs ==
    ASSUME NEW x \in Steps, NEW y \in Steps, y.op # "pause", y.op # "stop preview",
           y.op \notin Quietens, x.op # "answer"
    PROVE  <<x, y>> \in Seq(Steps) /\ Ordered(<<x, y>>) /\ OpsOf(<<x, y>>) = {x.op, y.op}
<1>1. /\ <<x>> \in Seq(Steps) /\ Ordered(<<x>>) /\ OpsOf(<<x>>) = {x.op}
      /\ <<y>> \in Seq(Steps) /\ Ordered(<<y>>) /\ OpsOf(<<y>>) = {y.op}
    BY Singles
<1>2. <<x, y>> = <<x>> \o <<y>>
    BY Twofold
<1>3. /\ <<x>> \o <<y>> \in Seq(Steps)
      /\ OpsOf(<<x>> \o <<y>>) = {x.op} \union {y.op}
      /\ Ordered(<<x>> \o <<y>>)
  <2>1. /\ <<x>> \in Seq(Steps) /\ <<y>> \in Seq(Steps)
        /\ Ordered(<<x>>) /\ Ordered(<<y>>) /\ "pause" \notin OpsOf(<<y>>)
        /\ "stop preview" \notin OpsOf(<<y>>) /\ OpsOf(<<y>>) \intersect Quietens = {}
        /\ "answer" \notin OpsOf(<<x>>)
      BY <1>1
  <2>2. Ordered(<<x>> \o <<y>>) /\ <<x>> \o <<y>> \in Seq(Steps)
        /\ OpsOf(<<x>> \o <<y>>) = OpsOf(<<x>>) \union OpsOf(<<y>>)
      BY <2>1, Joined
  <2> QED
      BY <1>1, <2>2
<1> QED
    BY <1>2, <1>3

LEMMA ReceiveStopped ==
    /\ stopReceiveFrame \in Seq(Steps) /\ Ordered(stopReceiveFrame)
    /\ OpsOf(stopReceiveFrame) = Quietens
<1> DEFINE x == Step("flush")
           y == Step("pause preview")
           z == Step("stop faces")
<1>1. /\ x \in Steps /\ x.op = "flush" /\ y \in Steps /\ y.op = "pause preview"
      /\ z \in Steps /\ z.op = "stop faces"
    BY StepsAre DEF Ops
<1>2. stopReceiveFrame = <<x, y, z>>
    BY DEF stopReceiveFrame
<1> HIDE DEF x, y, z
<1>3. /\ <<x>> \in Seq(Steps) /\ Ordered(<<x>>) /\ OpsOf(<<x>>) = {x.op}
      /\ <<y>> \in Seq(Steps) /\ Ordered(<<y>>) /\ OpsOf(<<y>>) = {y.op}
      /\ <<z>> \in Seq(Steps) /\ Ordered(<<z>>) /\ OpsOf(<<z>>) = {z.op}
    BY <1>1, Singles
<1>4. <<x, y, z>> = <<x>> \o <<y, z>> /\ <<y, z>> = <<y>> \o <<z>>
    BY <1>1, Twofold, Threefold
<1>5. /\ <<y>> \o <<z>> \in Seq(Steps) /\ OpsOf(<<y>> \o <<z>>) = {y.op} \union {z.op}
      /\ Ordered(<<y>> \o <<z>>)
    BY <1>1, <1>3, Joined
<1>6. /\ <<y, z>> \in Seq(Steps) /\ OpsOf(<<y, z>>) = {"pause preview", "stop faces"}
      /\ Ordered(<<y, z>>)
    BY <1>1, <1>4, <1>5
<1>7. /\ <<x>> \o <<y, z>> \in Seq(Steps)
      /\ OpsOf(<<x>> \o <<y, z>>) = {x.op} \union OpsOf(<<y, z>>)
      /\ Ordered(<<x>> \o <<y, z>>)
    BY <1>1, <1>3, <1>6, Joined
<1> QED
    BY <1>1, <1>2, <1>4, <1>6, <1>7 DEF Quietens

LEMMA PreviewStarts ==
    ASSUME NEW resize \in BOOLEAN
    PROVE  /\ PreviewStart(resize) \in Seq(Steps) /\ Ordered(PreviewStart(resize))
           /\ OpsOf(PreviewStart(resize)) \subseteq Quietens \union Begins \union {"stop preview"}
           /\ "stop preview" \in OpsOf(PreviewStart(resize)) =>
                 resize /\ Quietens \subseteq OpsOf(PreviewStart(resize))
<1> DEFINE R == stopReceiveFrame
           a == Step("stop preview")
           x == Step("start preview")
           y == Step("receive")
           z == Step("faces if asked")
<1>1. /\ x \in Steps /\ x.op = "start preview" /\ y \in Steps /\ y.op = "receive"
      /\ z \in Steps /\ z.op = "faces if asked" /\ a \in Steps /\ a.op = "stop preview"
    BY StepsAre DEF Ops
<1>2. PreviewStart(resize) = IF ~ mPreviewRunning THEN R \o <<x, y>>
                             ELSE IF resize THEN R \o <<a, x, y, z>> ELSE <<>>
    BY DEF PreviewStart
<1>3. R \in Seq(Steps) /\ Ordered(R) /\ OpsOf(R) = Quietens
    BY ReceiveStopped
<1> HIDE DEF x, y, z, a, R
<1>4. /\ <<x>> \in Seq(Steps) /\ Ordered(<<x>>) /\ OpsOf(<<x>>) = {"start preview"}
      /\ <<a>> \in Seq(Steps) /\ Ordered(<<a>>) /\ OpsOf(<<a>>) = {"stop preview"}
    BY <1>1, Singles
<1>5. /\ <<x, y>> \in Seq(Steps) /\ Ordered(<<x, y>>)
      /\ OpsOf(<<x, y>>) = {"start preview", "receive"}
      /\ <<y, z>> \in Seq(Steps) /\ Ordered(<<y, z>>)
      /\ OpsOf(<<y, z>>) = {"receive", "faces if asked"}
    BY <1>1, Pairs DEF Quietens
<1>6. <<a, x, y, z>> = <<a>> \o <<x, y, z>> /\ <<x, y, z>> = <<x>> \o <<y, z>>
  <2>0. a \in Steps /\ x \in Steps /\ y \in Steps /\ z \in Steps
      BY <1>1
  <2>1. <<a, x, y, z>> = <<a>> \o <<x, y, z>>
      BY <2>0
  <2>2. <<x, y, z>> = <<x>> \o <<y, z>>
      BY <1>1, Threefold
  <2> QED
      BY <2>1, <2>2
<1>7. /\ <<x>> \o <<y, z>> \in Seq(Steps) /\ Ordered(<<x>> \o <<y, z>>)
      /\ OpsOf(<<x>> \o <<y, z>>) = OpsOf(<<x>>) \union OpsOf(<<y, z>>)
    BY <1>4, <1>5, Joined
<1>8. /\ <<x, y, z>> \in Seq(Steps) /\ Ordered(<<x, y, z>>)
      /\ OpsOf(<<x, y, z>>) = {"start preview", "receive", "faces if asked"}
    BY <1>4, <1>5, <1>6, <1>7
<1>9. /\ <<a>> \o <<x, y, z>> \in Seq(Steps) /\ Ordered(<<a>> \o <<x, y, z>>)
      /\ OpsOf(<<a>> \o <<x, y, z>>) = OpsOf(<<a>>) \union OpsOf(<<x, y, z>>)
    BY <1>4, <1>8, Joined DEF Quietens
<1>10. /\ <<a, x, y, z>> \in Seq(Steps) /\ Ordered(<<a, x, y, z>>)
       /\ OpsOf(<<a, x, y, z>>) = {"stop preview", "start preview", "receive", "faces if asked"}
    BY <1>4, <1>6, <1>8, <1>9
<1>11. /\ R \o <<x, y>> \in Seq(Steps) /\ Ordered(R \o <<x, y>>)
       /\ OpsOf(R \o <<x, y>>) = OpsOf(R) \union OpsOf(<<x, y>>)
    BY <1>3, <1>5, Joined DEF Quietens
<1>12. /\ R \o <<a, x, y, z>> \in Seq(Steps) /\ Ordered(R \o <<a, x, y, z>>)
       /\ OpsOf(R \o <<a, x, y, z>>) = OpsOf(R) \union OpsOf(<<a, x, y, z>>)
  <2>1. Quietens \subseteq Before /\ "stop preview" \notin Quietens /\ "answer" \notin Quietens
      BY DEF Quietens, Before
  <2> QED
      BY <1>3, <1>10, <2>1, Joined
<1>13. CASE ~ mPreviewRunning
  <2>1. PreviewStart(resize) = R \o <<x, y>>
      BY <1>2, <1>13
  <2>2. OpsOf(PreviewStart(resize)) = Quietens \union {"start preview", "receive"}
      BY <1>3, <1>5, <1>11, <2>1
  <2> QED
      BY <1>11, <2>1, <2>2 DEF Quietens, Begins
<1>14. CASE mPreviewRunning /\ resize
  <2>1. PreviewStart(resize) = R \o <<a, x, y, z>>
      BY <1>2, <1>14
  <2>2. OpsOf(PreviewStart(resize)) =
           Quietens \union {"stop preview", "start preview", "receive", "faces if asked"}
      BY <1>3, <1>10, <1>12, <2>1
  <2> QED
      BY <1>12, <1>14, <2>1, <2>2 DEF Begins
<1>15. CASE mPreviewRunning /\ ~ resize
    BY <1>2, <1>15, Singles
<1> QED
    BY <1>13, <1>14, <1>15

LEMMA CommandsPlanned ==
    ASSUME NEW resize \in BOOLEAN, NEW n \in 1..MaxPictures
    PROVE  /\ Planned(PreviewStart(resize), "PREVIEW_START")
           /\ Planned(stopReceiveFrame \o <<Step("stop preview"), Step("answer")>>, "PREVIEW_STOP")
           /\ Planned(<<Step("answer")>> \o PreviewStart(resize), "SET_PARAMETERS")
           /\ Planned(<<Step("flush"), Step("answer")>>, "CAPTURE_CANCEL")
           /\ Planned(ContinuosPicture(resize, n), "CONTINUOS_PICTURE")
           /\ Planned(<<Step("faces")>>, "START_FACE_DETECTION")
           /\ "stop preview" \in OpsOf(PreviewStart(resize)) => resize
           /\ "stop preview" \in OpsOf(<<Step("answer")>> \o PreviewStart(resize)) => resize
           /\ "stop preview" \in OpsOf(ContinuosPicture(resize, n)) =>
                 "video" \notin mRunningState
           /\ "stop preview" \notin OpsOf(<<Step("flush"), Step("answer")>>)
           /\ "stop preview" \notin OpsOf(<<Step("faces")>>)
<1> DEFINE R == stopReceiveFrame
           P == PreviewStart(resize)
           a == Step("stop preview")
           b == Step("answer")
           d == Step("start preview")
           e == Step("flush")
           k == On("take", n)
           g == Step("faces")
<1>1. /\ a \in Steps /\ a.op = "stop preview" /\ b \in Steps /\ b.op = "answer"
      /\ d \in Steps /\ d.op = "start preview" /\ e \in Steps /\ e.op = "flush"
      /\ k \in Steps /\ k.op = "take" /\ g \in Steps /\ g.op = "faces"
    BY StepsAre DEF Ops
<1>2. R \in Seq(Steps) /\ Ordered(R) /\ OpsOf(R) = Quietens
    BY ReceiveStopped
<1>3. /\ P \in Seq(Steps) /\ Ordered(P)
      /\ OpsOf(P) \subseteq Quietens \union Begins \union {"stop preview"}
      /\ "stop preview" \in OpsOf(P) => resize /\ Quietens \subseteq OpsOf(P)
    BY PreviewStarts
<1>4. ContinuosPicture(resize, n) =
         (IF ~ mPreviewRunning THEN <<d>>
          ELSE IF resize /\ "video" \notin mRunningState THEN R \o <<a, d>> ELSE <<>>) \o <<k, b>>
    BY DEF ContinuosPicture
<1> HIDE DEF R, P, a, b, d, e, k, g
<1>5. /\ Quietens = {"flush", "pause preview", "stop faces"}
      /\ Before = Quietens \union {"pause", "await", "answer"}
      /\ Begins = {"start preview", "receive", "faces if asked"}
      /\ Waiting = {"PREVIEW_STOP", "SET_PARAMETERS", "CAPTURE_CANCEL", "CONTINUOS_PICTURE"}
    BY DEF Quietens, Before, Begins, Waiting
<1>6. /\ <<b>> \in Seq(Steps) /\ Ordered(<<b>>) /\ OpsOf(<<b>>) = {"answer"}
      /\ <<d>> \in Seq(Steps) /\ Ordered(<<d>>) /\ OpsOf(<<d>>) = {"start preview"}
      /\ <<g>> \in Seq(Steps) /\ Ordered(<<g>>) /\ OpsOf(<<g>>) = {"faces"}
      /\ <<>> \in Seq(Steps) /\ Ordered(<<>>) /\ OpsOf(<<>>) = {}
    BY <1>1, Singles
<1>7. /\ <<a, b>> \in Seq(Steps) /\ Ordered(<<a, b>>) /\ OpsOf(<<a, b>>) = {"stop preview", "answer"}
      /\ <<a, d>> \in Seq(Steps) /\ Ordered(<<a, d>>)
      /\ OpsOf(<<a, d>>) = {"stop preview", "start preview"}
      /\ <<e, b>> \in Seq(Steps) /\ Ordered(<<e, b>>) /\ OpsOf(<<e, b>>) = {"flush", "answer"}
      /\ <<k, b>> \in Seq(Steps) /\ Ordered(<<k, b>>) /\ OpsOf(<<k, b>>) = {"take", "answer"}
    BY <1>1, <1>5, Pairs
<1>8. Planned(P, "PREVIEW_START")
    BY <1>3, <1>5 DEF Planned
<1>9. Planned(R \o <<a, b>>, "PREVIEW_STOP")
  <2>1. /\ R \o <<a, b>> \in Seq(Steps) /\ Ordered(R \o <<a, b>>)
        /\ OpsOf(R \o <<a, b>>) = Quietens \union {"stop preview", "answer"}
      BY <1>2, <1>5, <1>7, Joined
  <2> QED
      BY <1>5, <2>1 DEF Planned
<1>10. /\ Planned(<<b>> \o P, "SET_PARAMETERS")
       /\ "stop preview" \in OpsOf(<<b>> \o P) => resize
  <2>1. "pause" \notin OpsOf(P) /\ "answer" \notin OpsOf(P) /\ "faces" \notin OpsOf(P)
      BY <1>3, <1>5
  <2>2. /\ <<b>> \o P \in Seq(Steps) /\ Ordered(<<b>> \o P)
        /\ OpsOf(<<b>> \o P) = {"answer"} \union OpsOf(P)
    <3>1. {"answer"} \subseteq Before /\ "stop preview" \notin {"answer"}
        BY <1>5
    <3> QED
        BY <1>3, <1>6, <2>1, <3>1, Joined
  <2>3. "stop preview" \in OpsOf(<<b>> \o P) => "stop preview" \in OpsOf(P)
      BY <2>2
  <2> QED
      BY <1>3, <1>5, <2>1, <2>2, <2>3 DEF Planned
<1>11. Planned(<<e, b>>, "CAPTURE_CANCEL") /\ "stop preview" \notin OpsOf(<<e, b>>)
    BY <1>5, <1>7 DEF Planned
<1>12. Planned(<<g>>, "START_FACE_DETECTION") /\ "stop preview" \notin OpsOf(<<g>>)
    BY <1>6 DEF Planned
<1>13. /\ Planned(ContinuosPicture(resize, n), "CONTINUOS_PICTURE")
       /\ "stop preview" \in OpsOf(ContinuosPicture(resize, n)) => "video" \notin mRunningState
  <2> DEFINE C == ContinuosPicture(resize, n)
             kb == <<k, b>>
             ad == <<a, d>>
             D == <<d>>
             E == <<>>
  <2>1. C = (IF ~ mPreviewRunning THEN D
             ELSE IF resize /\ "video" \notin mRunningState THEN R \o ad ELSE E) \o kb
      BY <1>4
  <2>2. /\ kb \in Seq(Steps) /\ Ordered(kb) /\ OpsOf(kb) = {"take", "answer"}
        /\ ad \in Seq(Steps) /\ Ordered(ad) /\ OpsOf(ad) = {"stop preview", "start preview"}
        /\ D \in Seq(Steps) /\ Ordered(D) /\ OpsOf(D) = {"start preview"}
        /\ E \o kb = kb
    <3>1. kb \in Seq(Steps)
        BY <1>7
    <3>2. E \o kb = kb
        BY <3>1, Singles
    <3> QED
        BY <1>6, <1>7, <3>2
  <2> HIDE DEF C, kb, ad, D, E
  <2>3. CASE ~ mPreviewRunning
    <3>1. C = D \o kb
        BY <2>1, <2>3
    <3>2. D \o kb \in Seq(Steps) /\ Ordered(D \o kb) /\ OpsOf(D \o kb) = OpsOf(D) \union OpsOf(kb)
        BY <1>5, <2>2, Joined
    <3>3. OpsOf(C) = {"start preview", "take", "answer"} /\ Ordered(C) /\ C \in Seq(Steps)
        BY <2>2, <3>1, <3>2
    <3> QED
        BY <1>5, <3>3 DEF Planned, C
  <2>4. CASE mPreviewRunning /\ resize /\ "video" \notin mRunningState
    <3> DEFINE F == R \o ad
    <3>1. C = F \o kb
        BY <2>1, <2>4
    <3>2. F \in Seq(Steps) /\ Ordered(F) /\ OpsOf(F) = OpsOf(R) \union OpsOf(ad)
        BY <1>2, <1>5, <2>2, Joined
    <3>3. OpsOf(F) = Quietens \union {"stop preview", "start preview"}
        BY <1>2, <2>2, <3>2
    <3> HIDE DEF F
    <3>4. F \o kb \in Seq(Steps) /\ Ordered(F \o kb) /\ OpsOf(F \o kb) = OpsOf(F) \union OpsOf(kb)
        BY <1>5, <2>2, <3>2, <3>3, Joined
    <3>5. /\ OpsOf(C) = Quietens \union {"stop preview", "start preview", "take", "answer"}
          /\ Ordered(C) /\ C \in Seq(Steps)
        BY <2>2, <3>1, <3>3, <3>4
    <3> QED
        BY <1>5, <2>4, <3>5 DEF Planned, C
  <2>5. CASE mPreviewRunning /\ ~ (resize /\ "video" \notin mRunningState)
    <3>1. C = kb
        BY <2>1, <2>2, <2>5
    <3>2. OpsOf(C) = {"take", "answer"} /\ Ordered(C) /\ C \in Seq(Steps)
        BY <2>2, <3>1
    <3> QED
        BY <1>5, <3>2 DEF Planned, C
  <2> QED
      BY <2>3, <2>4, <2>5
<1> QED
    BY <1>3, <1>8, <1>9, <1>10, <1>11, <1>12, <1>13 DEF R, P, a, b, d, e, k, g

\* What follows from a plan, whatever the command is
LEMMA Takings ==
    ASSUME IInv, Allowed = {}, commandThread
    PROVE  \E L : /\ Planned(L, Head(commandThreadCommandQ))
                  /\ "stop preview" \in OpsOf(L) => "video" \notin mRunningState
                  /\ todo' = [todo EXCEPT !["command"] = L]
<1> DEFINE cmd == Head(commandThreadCommandQ)
<1>1. /\ commandThreadCommandQ \in Seq(Commands) /\ commandThreadCommandQ # <<>> /\ Quieted
    BY DEF IInv, TypeOK, CallersTyped, commandThread
<1>2. cmd \in Commands /\ cmd \in Elements(commandThreadCommandQ)
    BY <1>1, Taken
<1>3. PICK resize \in BOOLEAN, n \in 1..MaxPictures :
          /\ resize /\ "record" \notin Allowed => "video" \notin mRunningState
          /\ todo' = [todo EXCEPT !["command"] =
                 CASE cmd = "PREVIEW_START" -> PreviewStart(resize)
                   [] cmd = "PREVIEW_STOP" ->
                          stopReceiveFrame \o <<Step("stop preview"), Step("answer")>>
                   [] cmd = "SET_PARAMETERS" -> <<Step("answer")>> \o PreviewStart(resize)
                   [] cmd = "CAPTURE_CANCEL" -> <<Step("flush"), Step("answer")>>
                   [] cmd = "CONTINUOS_PICTURE" -> ContinuosPicture(resize, n)
                   [] cmd = "START_FACE_DETECTION" -> <<Step("faces")>>]
    BY DEF commandThread
<1>4. /\ Planned(PreviewStart(resize), "PREVIEW_START")
      /\ Planned(stopReceiveFrame \o <<Step("stop preview"), Step("answer")>>, "PREVIEW_STOP")
      /\ Planned(<<Step("answer")>> \o PreviewStart(resize), "SET_PARAMETERS")
      /\ Planned(<<Step("flush"), Step("answer")>>, "CAPTURE_CANCEL")
      /\ Planned(ContinuosPicture(resize, n), "CONTINUOS_PICTURE")
      /\ Planned(<<Step("faces")>>, "START_FACE_DETECTION")
      /\ "stop preview" \in OpsOf(PreviewStart(resize)) => resize
      /\ "stop preview" \in OpsOf(<<Step("answer")>> \o PreviewStart(resize)) => resize
      /\ "stop preview" \in OpsOf(ContinuosPicture(resize, n)) =>
            "video" \notin mRunningState
      /\ "stop preview" \notin OpsOf(<<Step("flush"), Step("answer")>>)
      /\ "stop preview" \notin OpsOf(<<Step("faces")>>)
    BY CommandsPlanned
<1>5. /\ resize => "video" \notin mRunningState
      /\ cmd = "PREVIEW_STOP" => "video" \notin mRunningState
    BY <1>1, <1>2, <1>3 DEF Quieted
<1> HIDE DEF cmd
<1>6. CASE cmd = "PREVIEW_START"
    BY <1>3, <1>4, <1>5, <1>6 DEF cmd
<1>7. CASE cmd = "PREVIEW_STOP"
    BY <1>3, <1>4, <1>5, <1>7 DEF cmd
<1>8. CASE cmd = "SET_PARAMETERS"
    BY <1>3, <1>4, <1>5, <1>8 DEF cmd
<1>9. CASE cmd = "CAPTURE_CANCEL"
    BY <1>3, <1>4, <1>5, <1>9 DEF cmd
<1>10. CASE cmd = "CONTINUOS_PICTURE"
    BY <1>3, <1>4, <1>5, <1>10 DEF cmd
<1>11. CASE cmd = "START_FACE_DETECTION"
    BY <1>3, <1>4, <1>5, <1>11 DEF cmd
<1> QED
    BY <1>2, <1>6, <1>7, <1>8, <1>9, <1>10, <1>11 DEF Commands, Waiting

LEMMA commandThreadKeeps ==
    ASSUME IInv, None \notin Frames, Allowed = {}, commandThread
    PROVE  IInv'
<1> DEFINE Q == commandThreadCommandQ
           cmd == Head(commandThreadCommandQ)
<1>1. /\ FlagsTyped /\ CallersTyped /\ Plans /\ Waits /\ Off /\ Quieted /\ FaceAsked /\ Pictures
      /\ {"command", "api"} = Callers /\ "command" # "api" /\ "enc" \in Threads
      /\ Q \in Seq(Commands) /\ todo \in [Callers -> Seq(Steps)]
    BY DEF IInv, TypeOK, CallersTyped, Callers, Threads
<1>2. /\ todo["command"] = <<>> /\ Q # <<>> /\ Q' = Tail(Q) /\ ~ CommandThreadIdle
      /\ \A op : ~ Does("command", op)
      /\ UNCHANGED <<mRunningState, received, mMsgTypeEnabled, pictures, queue, thread, cb, sem,
                     mFrameInfoArray>>
    BY DEF commandThread, CommandThreadIdle, Does, flags, counts, threads, frames
<1>3. PICK L : /\ Planned(L, cmd)
               /\ "stop preview" \in OpsOf(L) => "video" \notin mRunningState
               /\ todo' = [todo EXCEPT !["command"] = L]
    BY Takings
<1>4. /\ L \in Seq(Steps) /\ Ordered(L) /\ "pause" \notin OpsOf(L)
      /\ "answer" \in OpsOf(L) => cmd \in Waiting
      /\ "faces" \in OpsOf(L) => cmd = "START_FACE_DETECTION"
      /\ "stop preview" \in OpsOf(L) => Quietens \subseteq OpsOf(L)
    BY <1>3 DEF Planned
<1>5. todo'["command"] = L /\ todo'["api"] = todo["api"] /\ todo' \in [Callers -> Seq(Steps)]
    BY <1>1, <1>3, <1>4
<1>6. /\ Q' \in Seq(Commands) /\ cmd \in Elements(Q) /\ Elements(Q') \subseteq Elements(Q)
      /\ Len(Q') = Len(Q) - 1 /\ Len(Q) \in Nat \ {0} /\ cmd = Q[1]
      /\ DOMAIN Q = 1..Len(Q) /\ DOMAIN Q' = 1..(Len(Q) - 1)
      /\ \A i \in DOMAIN Q' : Q'[i] = Q[i + 1]
  <2>1. /\ Tail(Q) \in Seq(Commands) /\ cmd \in Elements(Q) /\ Elements(Tail(Q)) \subseteq Elements(Q)
        /\ Len(Tail(Q)) = Len(Q) - 1 /\ Len(Q) \in Nat \ {0}
      BY <1>1, <1>2, Taken
  <2>2. /\ cmd = Q[1] /\ DOMAIN Q = 1..Len(Q) /\ DOMAIN Tail(Q) = 1..(Len(Q) - 1)
        /\ \A i \in DOMAIN Tail(Q) : Tail(Q)[i] = Q[i + 1]
      BY <1>1, <1>2
  <2> QED
      BY <1>2, <2>1, <2>2
<1>7. /\ \A c \in Callers, t \in Threads : Asks(c) \notin Work(t)
      /\ \A t \in Threads : ~ Pausing("api", t)
      /\ ~ Does("api", "stop faces") /\ ~ sem["command"]
      /\ \A k \in {"video", "preview", "face"} : k \notin mRunningState => Clear(k)
    BY <1>2, CommandAlone
<1>8. /\ QueuesTyped' /\ AllDistinct' /\ OnePause' /\ Apart' /\ Known'
      /\ \A t : Work(t)' = Work(t) /\ Queued(t)' = Queued(t)
      /\ \A k : Clear(k)' <=> Clear(k)
    BY <1>2, NotifierStays
<1>9. /\ \A op : Has("command", op)' <=> op \in OpsOf(L)
      /\ \A op : Does("api", op)' <=> Does("api", op)
    BY <1>5 DEF Has, Does
<1>10. \A c \in Callers, t \in Threads : ~ Pausing(c, t)'
  <2>1. \A t : ~ Will("command", On("pause", t))'
    <3>0. \A s \in Seq(Steps) : s # <<>> => Head(s).op \in OpsOf(s)
        BY HeadsOp
    <3>1. L # <<>> => Head(L).op \in OpsOf(L)
        BY <1>4, <3>0
    <3>2. \A t : On("pause", t).op = "pause"
        BY DEF On
    <3> QED
        BY <1>4, <1>5, <3>1, <3>2 DEF Will
  <2>2. \A t \in Threads : ~ Will("api", On("pause", t))'
      BY <1>5, <1>7 DEF Will, Pausing
  <2>3. \A c \in Callers, t \in Threads : (Asks(c) \notin Work(t))'
      BY <1>7, <1>8 DEF Asks
  <2> QED
      BY <1>1, <2>1, <2>2, <2>3 DEF Pausing
<1> HIDE DEF Q, cmd
<1>11. Waits'
  <2>1. AnswerDue' => AnswerDue
      BY <1>4, <1>6, <1>9 DEF AnswerDue, Q
  <2>2. (AnswerDue => Does("api", "await") /\ ~ sem["api"])'
      BY <1>1, <1>2, <1>9, <2>1 DEF Waits
  <2>3. \A c \in Callers : (sem[c] => Does(c, "await"))'
      BY <1>1, <1>2, <1>7, <1>9 DEF Waits
  <2>4. \A i \in DOMAIN Q : Q[i] \in Waiting => i = Len(Q)
      BY <1>1 DEF Waits, Q
  <2>5. \A i \in DOMAIN Q' : Q'[i] \in Waiting => i = Len(Q') /\ "answer" \notin OpsOf(L)
    <3> SUFFICES ASSUME NEW i \in DOMAIN Q', Q'[i] \in Waiting
                 PROVE  i = Len(Q') /\ "answer" \notin OpsOf(L)
        OBVIOUS
    <3>1. i + 1 \in DOMAIN Q /\ Q[i + 1] \in Waiting
        BY <1>6
    <3>2. i + 1 = Len(Q)
        BY <2>4, <3>1
    <3>3. i = Len(Q')
        BY <1>6, <3>2
    <3>4. Len(Q) # 1 /\ 1 \in DOMAIN Q
        BY <1>6, <3>2
    <3> QED
        BY <1>4, <1>6, <2>4, <3>3, <3>4
  <2>6. \A i \in DOMAIN commandThreadCommandQ' : commandThreadCommandQ'[i] \in Waiting
               => i = Len(commandThreadCommandQ') /\ ~ Has("command", "answer")'
      BY <1>9, <2>5 DEF Q
  <2>7. ~ (Does("api", "stop faces") \/ \E t \in Threads : Pausing("api", t))'
      BY <1>1, <1>7, <1>9, <1>10
  <2>8. \A c \in Callers, t \in Threads : (Asks(c) \in Work(t) => Does(c, "await") /\ ~ sem[c])'
      BY <1>7, <1>8 DEF Asks
  <2> QED
      BY <2>2, <2>3, <2>6, <2>7, <2>8 DEF Waits, Asks
<1>12. Off'
    BY <1>2, <1>7, <1>8 DEF Off
<1>13. Quieted'
  <2>1. "PREVIEW_STOP" \in Elements(commandThreadCommandQ)' => "video" \notin mRunningState'
      BY <1>1, <1>2, <1>6 DEF Quieted, Q
  <2>2. ~ Does("api", "stop faces")'
      BY <1>7, <1>9
  <2>3. Has("command", "stop preview")' =>
           /\ "video" \notin mRunningState' /\ Has("command", "pause preview")'
           /\ Has("command", "stop faces")' /\ Has("command", "flush")'
      BY <1>2, <1>3, <1>4, <1>9 DEF Quietens
  <2> QED
      BY <2>1, <2>2, <2>3 DEF Quieted
<1>14. FaceAsked'
    BY <1>1, <1>2, <1>4, <1>6, <1>8, <1>9 DEF FaceAsked, Q
<1>15. Pictures'
    BY <1>1, <1>2, <1>8, <1>10 DEF Pictures
<1>16. Plans'
    BY <1>1, <1>4, <1>5 DEF Plans
<1>17. FlagsTyped' /\ CallersTyped'
    BY <1>1, <1>2, <1>5, <1>6 DEF FlagsTyped, CallersTyped, Q
<1> QED
    BY <1>8, <1>11, <1>12, <1>13, <1>14, <1>15, <1>16, <1>17 DEF IInv, TypeOK

-----------------------------------------------------------------------------
(* The application                                                           *)

\* Between its calls it waits for nothing.
LEMMA ApiFree ==
    ASSUME IInv, todo["api"] = <<>>
    PROVE  /\ ~ AnswerDue /\ ~ sem["api"] /\ \A op : ~ Does("api", op)
           /\ \A t \in Threads : Asks("api") \notin Work(t) /\ ~ Pausing("api", t)
<1>1. Waits /\ "api" \in Callers
    BY DEF IInv, Callers
<1>2. \A op : ~ Does("api", op)
    BY DEF Does
<1>3. ~ AnswerDue /\ ~ sem["api"] /\ \A t \in Threads : Asks("api") \notin Work(t)
    BY <1>1, <1>2 DEF Waits
<1> QED
    BY <1>2, <1>3 DEF Pausing, Will

LEMMA SendsKeeps ==
    ASSUME IInv, None \notin Frames, NEW cmd \in Commands, NEW steps \in {<<>>, <<Step("await")>>},
           cmd \in Waiting <=> steps = <<Step("await")>>, Sends(cmd, steps),
           cmd = "PREVIEW_STOP" => "video" \notin mRunningState,
           UNCHANGED <<mRunningState, received>>, mMsgTypeEnabled \subseteq mMsgTypeEnabled',
           mMsgTypeEnabled' \subseteq Kinds,
           cmd = "START_FACE_DETECTION" => "face" \in mMsgTypeEnabled'
    PROVE  IInv'
<1> DEFINE Q == commandThreadCommandQ
<1>1. /\ FlagsTyped /\ CallersTyped /\ Plans /\ Waits /\ Off /\ Quieted /\ FaceAsked /\ Pictures
      /\ {"command", "api"} = Callers /\ "command" # "api" /\ "enc" \in Threads
      /\ Q \in Seq(Commands) /\ todo \in [Callers -> Seq(Steps)]
    BY DEF IInv, TypeOK, CallersTyped, Callers, Threads
<1>2. /\ todo["api"] = <<>> /\ Q' = Append(Q, cmd) /\ todo' = [todo EXCEPT !["api"] = steps]
      /\ UNCHANGED <<pictures, queue, thread, cb, sem, mFrameInfoArray>>
    BY DEF Sends, counts, threads, frames
<1>3. /\ ~ AnswerDue /\ ~ sem["api"] /\ \A op : ~ Does("api", op)
      /\ \A t \in Threads : Asks("api") \notin Work(t) /\ ~ Pausing("api", t)
    BY <1>2, ApiFree
<1>4. /\ todo'["api"] = steps /\ todo'["command"] = todo["command"]
      /\ todo' \in [Callers -> Seq(Steps)]
  <2>1. steps \in Seq(Steps)
      BY StepsAre, Singles DEF Ops
  <2> QED
      BY <1>1, <1>2, <2>1
<1>5. /\ \A op : Has("command", op)' <=> Has("command", op)
      /\ \A op : Does("command", op)' <=> Does("command", op)
      /\ \A x : Will("command", x)' <=> Will("command", x)
    BY <1>4 DEF Has, Does, Will
<1>6. /\ cmd \in Waiting => Does("api", "await")'
      /\ ~ Does("api", "stop faces")' /\ \A t : ~ Will("api", On("pause", t))'
  <2>1. /\ Step("await") \in Steps /\ Step("await").op = "await"
        /\ \A t : On("pause", t).op = "pause"
      BY StepsAre DEF Ops, On
  <2>2. <<Step("await")>> # <<>> /\ Head(<<Step("await")>>) = Step("await")
      BY <2>1, Singles
  <2> QED
      BY <1>4, <2>1, <2>2 DEF Does, Will
<1>7. /\ QueuesTyped' /\ AllDistinct' /\ OnePause' /\ Apart' /\ Known'
      /\ \A t : Work(t)' = Work(t) /\ Queued(t)' = Queued(t)
      /\ \A k : Clear(k)' <=> Clear(k)
    BY <1>2, NotifierStays
<1>8. /\ Q' \in Seq(Commands) /\ Elements(Q') = Elements(Q) \union {cmd}
      /\ DOMAIN Q' = 1..(Len(Q) + 1) /\ Len(Q') = Len(Q) + 1 /\ DOMAIN Q = 1..Len(Q)
      /\ Len(Q) \in Nat /\ \A i \in DOMAIN Q : Q'[i] = Q[i]
      /\ Q'[Len(Q) + 1] = cmd
  <2>1. Append(Q, cmd) \in Seq(Commands) /\ Elements(Append(Q, cmd)) = Elements(Q) \union {cmd}
      BY <1>1, Appended
  <2>2. /\ DOMAIN Append(Q, cmd) = 1..(Len(Q) + 1) /\ Len(Append(Q, cmd)) = Len(Q) + 1
        /\ DOMAIN Q = 1..Len(Q) /\ Len(Q) \in Nat
        /\ \A i \in DOMAIN Q : Append(Q, cmd)[i] = Q[i]
        /\ Append(Q, cmd)[Len(Q) + 1] = cmd
      BY <1>1
  <2> QED
      BY <1>2, <2>1, <2>2
<1>9. \A c \in Callers, t \in Threads : Pausing(c, t)' <=> Pausing(c, t)
  <2>1. \A t \in Threads : ~ Pausing("api", t)'
      BY <1>3, <1>6, <1>7 DEF Pausing, Asks
  <2>2. \A t \in Threads : Pausing("command", t)' <=> Pausing("command", t)
      BY <1>5, <1>7 DEF Pausing, Asks
  <2> QED
      BY <1>1, <1>3, <2>1, <2>2
<1> HIDE DEF Q
<1>10. Waits'
  <2>1. ~ Has("command", "answer") /\ \A i \in DOMAIN Q : Q[i] \notin Waiting
      BY <1>3 DEF AnswerDue, Q, Elements
  <2>2. AnswerDue' => cmd \in Waiting
      BY <1>3, <1>5, <1>8 DEF AnswerDue, Q
  <2>3. (AnswerDue => Does("api", "await") /\ ~ sem["api"])'
      BY <1>2, <1>3, <1>6, <2>2
  <2>4. \A c \in Callers : (sem[c] => Does(c, "await"))'
      BY <1>1, <1>2, <1>3, <1>5 DEF Waits
  <2>5. \A i \in DOMAIN Q' : Q'[i] \in Waiting => i = Len(Q')
    <3>1. \A i \in DOMAIN Q' : i \in DOMAIN Q \/ i = Len(Q')
        BY <1>8
    <3> QED
        BY <1>8, <2>1, <3>1
  <2>6. \A i \in DOMAIN commandThreadCommandQ' : commandThreadCommandQ'[i] \in Waiting
               => i = Len(commandThreadCommandQ') /\ ~ Has("command", "answer")'
      BY <1>5, <2>1, <2>5 DEF Q
  <2>7. ~ (Does("api", "stop faces") \/ \E t \in Threads : Pausing("api", t))'
      BY <1>1, <1>3, <1>6, <1>9
  <2>8. \A c \in Callers, t \in Threads : (Asks(c) \in Work(t) => Does(c, "await") /\ ~ sem[c])'
    <3>1. \A t \in Threads : (Asks("api") \notin Work(t))'
        BY <1>3, <1>7 DEF Asks
    <3>2. \A t \in Threads : (Asks("command") \in Work(t) => Does("command", "await")
                                                               /\ ~ sem["command"])'
        BY <1>1, <1>2, <1>5, <1>7 DEF Waits, Asks
    <3> QED
        BY <1>1, <3>1, <3>2
  <2> QED
      BY <2>3, <2>4, <2>6, <2>7, <2>8 DEF Waits, Asks
<1>11. Off'
  <2>1. \A k \in {"video", "preview", "face"} : Stopper(k) \in Callers /\ ThreadOf(k) \in Threads
      BY <1>1 DEF Stopper, ThreadOf, Threads
  <2> QED
      BY <1>1, <1>7, <1>9, <2>1 DEF Off
<1>12. Quieted'
  <2>1. "PREVIEW_STOP" \in Elements(commandThreadCommandQ)' => "video" \notin mRunningState'
      BY <1>1, <1>8 DEF Quieted, Q
  <2> QED
      BY <1>1, <1>2, <1>5, <1>6, <1>7, <1>9, <2>1 DEF Quieted
<1>13. FaceAsked'
    BY <1>1, <1>2, <1>5, <1>7, <1>8 DEF FaceAsked, Q
<1>14. Pictures'
    BY <1>1, <1>2, <1>7, <1>9 DEF Pictures
<1>15. Plans'
    BY <1>1, <1>4 DEF Plans, ApiSteps
<1>16. FlagsTyped' /\ CallersTyped'
    BY <1>1, <1>2, <1>4, <1>8 DEF FlagsTyped, CallersTyped, Q
<1> QED
    BY <1>7, <1>10, <1>11, <1>12, <1>13, <1>14, <1>15, <1>16 DEF IInv, TypeOK

LEMMA ApiSends ==
    ASSUME IInv, None \notin Frames, Allowed = {}, ApiStartPreview \/ ApiStartFaces \/ ApiWaits
    PROVE  IInv'
<1>1. /\ mMsgTypeEnabled \subseteq Kinds /\ "face" \in Kinds
      /\ "PREVIEW_START" \in Commands \ Waiting /\ "START_FACE_DETECTION" \in Commands \ Waiting
      /\ Waiting \subseteq Commands /\ <<>> # <<Step("await")>>
      /\ Waiting = {"PREVIEW_STOP", "SET_PARAMETERS", "CAPTURE_CANCEL", "CONTINUOS_PICTURE"}
    BY DEF IInv, TypeOK, FlagsTyped, Kinds, Commands, Waiting
<1>2. CASE ApiStartPreview
    BY <1>1, <1>2, SendsKeeps DEF ApiStartPreview, flags
<1>3. CASE ApiStartFaces
    BY <1>1, <1>3, SendsKeeps DEF ApiStartFaces
<1>4. CASE ApiWaits
  <2>1. PICK cmd \in Waiting :
               /\ cmd = "PREVIEW_STOP" /\ "record" \notin Allowed => "video" \notin mRunningState
               /\ Sends(cmd, <<Step("await")>>)
               /\ UNCHANGED flags
      BY <1>1, <1>4 DEF ApiWaits
  <2>2. cmd \in Commands /\ cmd # "START_FACE_DETECTION"
      BY <1>1
  <2> QED
      BY <1>1, <2>1, <2>2, SendsKeeps DEF flags
<1> QED
    BY <1>2, <1>3, <1>4

\* A frame that is coming is at work, or about to be sent.
LEMMA NothingComing ==
    ASSUME IInv, None \notin Frames, NEW k \in Kinds, Coming(k) = {}
    PROVE  Clear(k) /\ cb = NoMessage
<1>1. UnderWay(k) = {} /\ cb = NoMessage
    BY DEF Coming
<1>2. ThreadOf(k) \in Threads /\ k # "PAUSE"
    BY MessagesAre DEF Kinds
<1>3. ASSUME NEW m \in Work(ThreadOf(k)), m.cmd = k PROVE FALSE
  <2>1. ThreadTyped(ThreadOf(k))
      BY <1>2 DEF IInv, TypeOK, QueuesTyped
  <2>2. m \notin Pauses
      BY <1>2, <1>3, MessagesAre
  <2>3. m \in Queued(ThreadOf(k)) \/ (m = thread[ThreadOf(k)].msg /\ m # NoMessage)
      BY <1>3 DEF Work
  <2>4. m \in Messages(ThreadOf(k))
      BY <2>1, <2>2, <2>3 DEF Messages, Queued, Elements, ThreadTyped
  <2> QED
      BY <1>1, <1>3, <2>4 DEF UnderWay
<1> QED
    BY <1>1, <1>3 DEF Clear

\* A call that is over at once
LEMMA FlagsKeep ==
    ASSUME IInv, UNCHANGED <<queue, thread, cb, mFrameInfoArray, sem, commandThreadCommandQ, todo,
                             pictures>>,
           FlagsTyped', Off', Quieted', FaceAsked',
           "picture" \in mRunningState' <=> "picture" \in mRunningState
    PROVE  IInv'
<1>1. /\ Plans /\ Waits /\ Pictures /\ CallersTyped
    BY DEF IInv, TypeOK
<1>2. /\ QueuesTyped' /\ AllDistinct' /\ OnePause' /\ Apart' /\ Known'
      /\ \A t : Work(t)' = Work(t) /\ Queued(t)' = Queued(t)
    BY NotifierStays
<1>3. \A c, t : Pausing(c, t)' <=> Pausing(c, t)
    BY <1>2 DEF Pausing, Will, Asks
<1>4. Waits'
    BY <1>1, <1>2, <1>3 DEF Waits, AnswerDue, Has, Does, Asks, CommandThreadIdle
<1>5. Plans' /\ CallersTyped'
    BY <1>1 DEF Plans, CallersTyped
<1>6. Pictures'
    BY <1>1, <1>2, <1>3 DEF Pictures
<1> QED
    BY <1>2, <1>4, <1>5, <1>6 DEF IInv, TypeOK

LEMMA IdleCommands ==
    ASSUME IInv, CommandThreadIdle
    PROVE  /\ \A op : ~ Has("command", op) /\ ~ Does("command", op)
           /\ \A cmd : cmd \notin Elements(commandThreadCommandQ)
           /\ \A i : i \notin DOMAIN commandThreadCommandQ
           /\ ~ AnswerDue /\ \A t \in Threads : ~ Pausing("command", t)
           /\ ~ sem["command"]
<1>1. todo["command"] = <<>> /\ commandThreadCommandQ = <<>> /\ Waits /\ "command" \in Callers
    BY DEF CommandThreadIdle, IInv, Callers
<1>2. /\ \A op : ~ Has("command", op) /\ ~ Does("command", op)
      /\ \A cmd : cmd \notin Elements(commandThreadCommandQ)
    BY <1>1, Singles, NothingIn DEF Has, Does
<1>3. \A t \in Threads : ~ Pausing("command", t)
    BY <1>1, <1>2 DEF Pausing, Will, Waits
<1> QED
    BY <1>1, <1>2, <1>3 DEF AnswerDue, Waits

LEMMA MessagesEnabled ==
    ASSUME IInv, None \notin Frames, Allowed = {},
           startRecording \/ enableMsgType \/ disableMsgType
    PROVE  IInv'
<1>1. /\ FlagsTyped /\ Off /\ Quieted /\ FaceAsked
      /\ {"video", "preview"} \subseteq Kinds /\ Kinds = {"face", "video", "picture", "preview"}
    BY DEF IInv, TypeOK, Kinds
<1>2. UNCHANGED <<queue, thread, cb, mFrameInfoArray, sem, commandThreadCommandQ, todo, pictures,
                  received>>
    BY DEF startRecording, enableMsgType, disableMsgType, counts, threads, frames, callers
<1>3. /\ \A t : Work(t)' = Work(t)
      /\ \A k : Clear(k)' <=> Clear(k)
      /\ \A c, t : Pausing(c, t)' <=> Pausing(c, t)
      /\ \A c, op : (Has(c, op)' <=> Has(c, op)) /\ (Does(c, op)' <=> Does(c, op))
  <2>1. (\A t : Work(t)' = Work(t)) /\ \A k : Clear(k)' <=> Clear(k)
      BY <1>2, NotifierStays
  <2> QED
      BY <1>2, <2>1 DEF Pausing, Will, Asks, Has, Does
<1>4. CASE startRecording \/ enableMsgType
  <2>1. /\ mRunningState \subseteq mRunningState'
        /\ mRunningState' \subseteq mRunningState \union {"video", "preview"}
        /\ mMsgTypeEnabled' \subseteq mMsgTypeEnabled \union {"preview"}
        /\ mMsgTypeEnabled \subseteq mMsgTypeEnabled'
        /\ CommandThreadIdle
      BY <1>4 DEF startRecording, enableMsgType
  <2>2. Off'
      BY <1>1, <1>3, <2>1 DEF Off
  <2>3. Quieted'
    <3>1. /\ ~ Has("command", "stop preview")'
          /\ "PREVIEW_STOP" \notin Elements(commandThreadCommandQ)'
        BY <1>2, <1>3, <2>1, IdleCommands
    <3>2. Does("api", "stop faces")' => "face" \notin mRunningState'
        BY <1>1, <1>3, <2>1 DEF Quieted
    <3> QED
        BY <3>1, <3>2 DEF Quieted
  <2>4. FaceAsked'
      BY <1>1, <1>2, <1>3, <2>1 DEF FaceAsked
  <2>5. FlagsTyped'
      BY <1>1, <1>2, <2>1 DEF FlagsTyped
  <2> QED
      BY <1>2, <2>1, <2>2, <2>3, <2>4, <2>5, FlagsKeep
<1>5. CASE disableMsgType
  <2>1. /\ mRunningState' = mRunningState \ {"preview"}
        /\ mMsgTypeEnabled' = mMsgTypeEnabled \ {"preview"} /\ Clear("preview")
      BY <1>1, <1>5, NothingComing DEF disableMsgType
  <2>2. Off'
      BY <1>1, <1>3, <2>1 DEF Off
  <2>3. Quieted'
      BY <1>1, <1>2, <1>3, <2>1 DEF Quieted
  <2>4. FaceAsked'
      BY <1>1, <1>2, <1>3, <2>1 DEF FaceAsked
  <2>5. FlagsTyped'
      BY <1>1, <1>2, <2>1 DEF FlagsTyped
  <2> QED
      BY <1>2, <2>1, <2>2, <2>3, <2>4, <2>5, FlagsKeep
<1> QED
    BY <1>4, <1>5

\* The application stops what it started, and goes on to wait for the thread.
LEMMA StopsKeeps ==
    ASSUME IInv, None \notin Frames, Allowed = {}, stopRecording \/ ApiStopFaces
    PROVE  IInv'
<1> DEFINE kind == IF stopRecording THEN "video" ELSE "face"
           x == IF stopRecording THEN On("pause", "event") ELSE Step("stop faces")
<1>1. /\ FlagsTyped /\ CallersTyped /\ Plans /\ Waits /\ Off /\ Quieted /\ FaceAsked /\ Pictures
      /\ {"command", "api"} = Callers /\ "command" # "api" /\ "enc" \in Threads
      /\ todo \in [Callers -> Seq(Steps)]
    BY DEF IInv, TypeOK, CallersTyped, Callers, Threads
<1>2. /\ todo["api"] = <<>> /\ CommandThreadIdle
      /\ UNCHANGED <<received, pictures, queue, thread, cb, mFrameInfoArray, sem,
                     commandThreadCommandQ>>
      /\ mMsgTypeEnabled' \subseteq mMsgTypeEnabled
    BY DEF stopRecording, ApiStopFaces, Stops, counts, threads, frames
<1>3. /\ mRunningState' = mRunningState \ {kind} /\ todo' = [todo EXCEPT !["api"] = <<x>>]
      /\ kind = "video" => mMsgTypeEnabled' = mMsgTypeEnabled /\ x = On("pause", "event")
      /\ kind = "face" => Clear("face") /\ cb = NoMessage /\ x = Step("stop faces")
      /\ kind \in {"video", "face"}
  <2>1. CASE stopRecording
      BY <2>1 DEF stopRecording, Stops
  <2>2. CASE ~ stopRecording
    <3>1. ApiStopFaces /\ Coming("face") = {} /\ "face" \in Kinds
        BY <2>2 DEF ApiStopFaces, Kinds
    <3>2. Clear("face") /\ cb = NoMessage
        BY <3>1, NothingComing
    <3> QED
        BY <2>2, <3>1, <3>2 DEF ApiStopFaces, Stops
  <2> QED
      BY <2>1, <2>2
<1> HIDE DEF kind, x
<1>4. /\ x \in Steps /\ <<x>> \in ApiSteps /\ <<x>> # <<>> /\ Head(<<x>>) = x /\ <<x>> \in Seq(Steps)
  <2>1. x \in {On("pause", "event"), Step("stop faces")}
      BY <1>3
  <2>2. x \in Steps
      BY <2>1, StepsAre DEF Ops, Threads
  <2> QED
      BY <2>1, <2>2, Singles DEF ApiSteps
<1>5. /\ todo'["api"] = <<x>> /\ todo'["command"] = todo["command"]
      /\ todo' \in [Callers -> Seq(Steps)]
    BY <1>1, <1>3, <1>4
<1>6. /\ \A op : ~ Has("command", op) /\ ~ Does("command", op)
      /\ \A cmd : cmd \notin Elements(commandThreadCommandQ)
      /\ \A i : i \notin DOMAIN commandThreadCommandQ
      /\ ~ AnswerDue /\ \A t \in Threads : ~ Pausing("command", t)
      /\ ~ sem["command"]
    BY <1>2, IdleCommands
<1>7. /\ ~ sem["api"]
      /\ \A t \in Threads : Asks("api") \notin Work(t) /\ ~ Pausing("api", t)
    BY <1>2, ApiFree
<1>8. /\ \A op : ~ Has("command", op)' /\ ~ Does("command", op)'
      /\ CommandThreadIdle' /\ ~ AnswerDue'
      /\ \A cmd : cmd \notin Elements(commandThreadCommandQ)'
      /\ \A i : i \notin DOMAIN commandThreadCommandQ'
    BY <1>2, <1>5, <1>6 DEF Has, Does, CommandThreadIdle, AnswerDue
<1>9. /\ QueuesTyped' /\ AllDistinct' /\ OnePause' /\ Apart' /\ Known'
      /\ \A t : Work(t)' = Work(t) /\ Queued(t)' = Queued(t)
      /\ \A k : Clear(k)' <=> Clear(k)
    BY <1>2, NotifierStays
<1>10. \A c \in Callers, t \in Threads : (Asks(c) \notin Work(t))'
  <2>1. \A t \in Threads : Asks("command") \notin Work(t)
      BY <1>6 DEF Pausing
  <2> QED
      BY <1>1, <1>7, <1>9, <2>1 DEF Asks
<1>11. \A t \in Threads : ~ Pausing("command", t)'
    BY <1>1, <1>2, <1>5, <1>10 DEF Pausing, Will, CommandThreadIdle
<1>12. /\ kind = "video" => Pausing("api", "event")'
       /\ ~ Pausing("api", "enc")'
  <2>1. \A t : Will("api", On("pause", t))' <=> x = On("pause", t)
      BY <1>4, <1>5 DEF Will
  <2>2. x # On("pause", "enc")
    <3>1. /\ On("pause", "enc").op = "pause" /\ On("pause", "enc").on = "enc"
          /\ On("pause", "event").on = "event" /\ Step("stop faces").op = "stop faces"
        BY DEF On, Step
    <3> QED
        BY <1>3, <3>1
  <2>3. "api" \in Callers /\ "enc" \in Threads
      BY <1>1
  <2> QED
      BY <1>3, <1>10, <2>1, <2>2, <2>3 DEF Pausing
<1>13. Waits'
  <2>1. \A c \in Callers : ~ sem'[c]
      BY <1>1, <1>2, <1>6, <1>7
  <2> QED
      BY <1>8, <1>10, <2>1 DEF Waits, Asks
<1>14. \A k \in {"video", "preview", "face"} : k \notin mRunningState => Clear(k)
  <2>1. \A k \in {"video", "preview", "face"} : Stopper(k) \in Callers /\ ThreadOf(k) \in Threads
      BY <1>1 DEF Stopper, ThreadOf, Threads
  <2> QED
      BY <1>1, <1>6, <1>7, <2>1 DEF Off
<1>15. Off'
  <2>1. Stopper("video") = "api" /\ ThreadOf("video") = "event"
      BY DEF Stopper, ThreadOf
  <2> QED
      BY <1>3, <1>9, <1>12, <1>14, <2>1 DEF Off
<1>16. Quieted'
  <2>1. Does("api", "stop faces")' => "face" \notin mRunningState'
    <3>1. On("pause", "event").op # "stop faces"
        BY DEF On
    <3> QED
        BY <1>3, <1>4, <1>5, <3>1 DEF Does
  <2> QED
      BY <1>8, <2>1 DEF Quieted
<1>17. FaceAsked'
  <2>1. CASE kind = "video"
      BY <1>1, <1>2, <1>3, <1>8, <1>9, <2>1 DEF FaceAsked
  <2>2. CASE kind = "face"
    <3>1. cb'.cmd # "face"
        BY <1>2, <1>3, <2>2, MessagesAre DEF None
    <3> QED
        BY <1>3, <1>8, <1>9, <2>2, <3>1 DEF FaceAsked
  <2> QED
      BY <1>3, <2>1, <2>2
<1>18. Pictures'
  <2>1. \A c \in Callers : ~ Pausing(c, "enc")'
      BY <1>1, <1>11, <1>12
  <2> QED
      BY <1>1, <1>2, <1>3, <1>9, <2>1 DEF Pictures
<1>19. Plans'
    BY <1>1, <1>4, <1>5 DEF Plans
<1>20. FlagsTyped' /\ CallersTyped'
    BY <1>1, <1>2, <1>3, <1>5 DEF FlagsTyped, CallersTyped
<1> QED
    BY <1>9, <1>13, <1>15, <1>16, <1>17, <1>18, <1>19, <1>20 DEF IInv, TypeOK

-----------------------------------------------------------------------------
(* The invariant holds                                                       *)

LEMMA NotifierInit == ASSUME None \notin Frames, Init PROVE IInv
<1>1. /\ queue = [t \in Threads |-> <<>>] /\ thread = [t \in Threads |-> Idle]
      /\ cb = NoMessage /\ mFrameInfoArray = {} /\ mRunningState = {} /\ mMsgTypeEnabled = {}
      /\ sem = [c \in Callers |-> FALSE] /\ todo = [c \in Callers |-> <<>>]
      /\ commandThreadCommandQ = <<>> /\ pictures = [num |-> 0, enc |-> 0]
      /\ received = {"preview", "face"}
    BY DEF Init
<1>2. \A t \in Threads : queue[t] = <<>> /\ thread[t].at = "receive" /\ thread[t].msg = NoMessage
    BY <1>1 DEF Idle, Place
<1>3. \A c \in Callers : todo[c] = <<>> /\ ~ sem[c]
    BY <1>1
<1>4. \A t \in Threads : Queued(t) = {} /\ Work(t) = {}
    BY <1>2, NothingIn DEF Queued, Work
<1>5. QueuesTyped
  <2>1. thread \in [Threads -> [at : {"receive", "process", "find", "drain"},
                                msg : Sent \union {NoMessage}]]
      BY <1>1 DEF Idle, Place
  <2>2. queue \in [Threads -> Seq(Sent)] /\ \A t \in Threads : queue[t] \in Seq(Sendable(t))
      BY <1>1, <1>2
  <2>3. \A t \in Threads : ThreadTyped(t)
      BY <1>2 DEF ThreadTyped
  <2> QED
      BY <2>1, <2>2, <2>3 DEF QueuesTyped
<1>6. FlagsTyped /\ CallersTyped
    BY <1>1 DEF FlagsTyped, CallersTyped, Kinds
<1>7. AllDistinct
  <2>1. NoRepeat(<<>>)
      BY DEF NoRepeat
  <2> QED
      BY <1>2, <1>4, <2>1 DEF AllDistinct, Distinct
<1>8. {"command", "api"} = Callers /\ "enc" \in Threads
    BY DEF Callers, Threads
<1>9. Plans
    BY <1>3, <1>8, Singles DEF Plans, ApiSteps
<1>10. OnePause /\ Apart
    BY <1>1, <1>4 DEF OnePause, Apart
<1>11. Known
    BY <1>1, <1>4, MessagesAre DEF Known
<1>12. /\ \A c \in Callers : \A op : ~ Has(c, op) /\ ~ Does(c, op)
       /\ Elements(commandThreadCommandQ) = {} /\ CommandThreadIdle
       /\ \A i : i \notin DOMAIN commandThreadCommandQ
    BY <1>1, <1>3, <1>8, Singles, NothingIn DEF Has, Does, CommandThreadIdle
<1>13. Waits
    BY <1>3, <1>4, <1>8, <1>12 DEF Waits, AnswerDue
<1>14. \A k \in Kinds : Clear(k)
    BY <1>4, MessagesAre DEF Clear
<1>15. Off
    BY <1>14 DEF Off, Kinds
<1>16. Quieted /\ FaceAsked
    BY <1>1, <1>8, <1>12, <1>14, MessagesAre DEF Quieted, FaceAsked, Kinds, None
<1>17. Pictures
    BY <1>1, <1>4, <1>8, MessagesAre DEF Pictures, None
<1> QED
    BY <1>5, <1>6, <1>7, <1>9, <1>10, <1>11, <1>13, <1>15, <1>16, <1>17 DEF IInv, TypeOK

LEMMA NotifierStutters == ASSUME IInv, UNCHANGED vars PROVE IInv'
<1>1. /\ UNCHANGED <<queue, thread, cb, mFrameInfoArray, sem, commandThreadCommandQ, todo,
                     pictures>>
      /\ UNCHANGED <<mRunningState, received, mMsgTypeEnabled>>
      /\ FlagsTyped /\ Off /\ Quieted /\ FaceAsked
    BY DEF IInv, TypeOK, vars, flags, counts, threads, frames, callers
<1>2. /\ \A t : Work(t)' = Work(t)
      /\ \A k : Clear(k)' <=> Clear(k)
      /\ \A c, t : Pausing(c, t)' <=> Pausing(c, t)
      /\ \A c, op : (Has(c, op)' <=> Has(c, op)) /\ (Does(c, op)' <=> Does(c, op))
  <2>1. (\A t : Work(t)' = Work(t)) /\ \A k : Clear(k)' <=> Clear(k)
      BY <1>1, NotifierStays
  <2> QED
      BY <1>1, <2>1 DEF Pausing, Will, Asks, Has, Does
<1>3. Off' /\ Quieted' /\ FaceAsked'
    BY <1>1, <1>2 DEF Off, Quieted, FaceAsked
<1>4. FlagsTyped'
    BY <1>1 DEF FlagsTyped
<1> QED
    BY <1>1, <1>3, <1>4, FlagsKeep

LEMMA NotifierStep ==
    ASSUME IInv, None \notin Frames, Allowed = {}, [Next]_vars
    PROVE  IInv'
<1>1. CASE Notifies
    BY <1>1, NotifiesKeeps
<1>2. ASSUME NEW t \in Threads, NotifierThread(t) PROVE IInv'
  <2>1. CASE ReceiveFrame(t)
      BY <2>1, ReceiveFrameKeeps
  <2>2. CASE FrameDone(t)
      BY <2>2, FrameDoneKeeps
  <2>3. CASE ReceivePause(t)
      BY <2>3, ReceivePauseKeeps
  <2>4. CASE Drain(t)
      BY <2>4, DrainKeeps
  <2>5. CASE Paused(t)
      BY <2>5, PausedKeeps
  <2>6. CASE ReceiveSnapshot
      BY <2>6, ReceiveSnapshotKeeps
  <2>7. CASE FaceProcess
      BY <2>7, FaceProcessKeeps
  <2>8. CASE FaceFound
      BY <2>8, FaceFoundKeeps
  <2> QED
      BY <1>2, <2>1, <2>2, <2>3, <2>4, <2>5, <2>6, <2>7, <2>8 DEF NotifierThread
<1>3. ASSUME NEW c \in Callers, Call(c) PROVE IInv'
  <2>1. CASE PausesThread(c)
      BY <2>1, PausesThreadKeeps
  <2>2. CASE Await(c)
      BY <2>2, AwaitKeeps
  <2>3. CASE flushPicture(c)
      BY <2>3, flushPictureKeeps
  <2>4. CASE pausePreviewCBFrameProcess(c)
      BY <2>4, pausePreviewCBFrameProcessKeeps
  <2>5. CASE stopFaceDection(c)
      BY <2>5, CommandStopsFaces, ApiStopsFaces DEF Callers
  <2> QED
      BY <1>3, <2>1, <2>2, <2>3, <2>4, <2>5 DEF Call
<1>4. "command" \in Callers /\ "api" \in Callers
    BY DEF Callers
<1>5. CASE CommandStep
  <2>1. CASE startReceiveFrame \/ startFaceDection
      BY <2>1, StartsKeep
  <2>2. ASSUME NEW n \in 1..MaxPictures, takePicture(n) PROVE IInv'
      BY <2>2, takePictureKeeps
  <2>3. CASE stopPreview
      BY <2>3, stopPreviewKeeps
  <2>4. CASE startPreview
      BY <2>4, startPreviewKeeps
  <2>5. CASE Answer
      BY <2>5, AnswerKeeps
  <2>6. CASE commandThread
      BY <2>6, commandThreadKeeps
  <2> QED
      BY <1>3, <1>4, <1>5, <2>1, <2>2, <2>3, <2>4, <2>5, <2>6 DEF CommandStep
<1>6. CASE Application
  <2>1. CASE ApiStartPreview \/ ApiStartFaces \/ ApiWaits
      BY <2>1, ApiSends
  <2>2. CASE stopRecording \/ ApiStopFaces
      BY <2>2, StopsKeeps
  <2>3. CASE startRecording \/ enableMsgType \/ disableMsgType
      BY <2>3, MessagesEnabled
  <2> QED
      BY <1>6, <2>1, <2>2, <2>3 DEF Application
<1>7. ASSUME NEW kind \in Kinds, NEW f \in Frames, BufferCb(kind, f) PROVE IInv'
    BY <1>7, BufferCbKeeps
<1>8. CASE UNCHANGED vars
    BY <1>8, NotifierStutters
<1> QED
    BY <1>1, <1>2, <1>3, <1>4, <1>5, <1>6, <1>7, <1>8 DEF Next

LEMMA NotifierInductive ==
    ASSUME None \notin Frames, Allowed = {} PROVE Spec => []IInv
<1>1. Init => IInv
    BY NotifierInit
<1>2. IInv /\ [Next]_vars => IInv'
    BY NotifierStep
<1> QED
    BY <1>1, <1>2, PTL DEF Spec

\* What a thread has of frames, by its messages
LEMMA LentAre ==
    ASSUME IInv, None \notin Frames
    PROVE  \A f : f \in Lent <=>
              /\ f \in Frames
              /\ cb.frame = f \/ \E t \in Threads : \E m \in Work(t) : m.frame = f
<1>1. QueuesTyped /\ FlagsTyped
    BY DEF IInv, TypeOK
<1>2. \A t \in Threads : /\ Work(t) \subseteq FrameMessages \union Pauses
                         /\ Messages(t) \subseteq Work(t)
                         /\ \A m \in Work(t) : m.frame # None => m \in Messages(t)
  <2> SUFFICES ASSUME NEW t \in Threads
               PROVE  /\ Work(t) \subseteq FrameMessages \union Pauses
                      /\ Messages(t) \subseteq Work(t)
                      /\ \A m \in Work(t) : m.frame # None => m \in Messages(t)
      OBVIOUS
  <2>1. ThreadTyped(t) /\ Work(t) \subseteq Sent
      BY <1>1, WorkTyped DEF QueuesTyped
  <2>2. Messages(t) = Queued(t) \union (IF thread[t].at = "process" THEN {thread[t].msg} ELSE {})
      BY DEF Messages, Queued, Elements
  <2>3. thread[t].at = "process" => thread[t].msg \in Work(t)
      BY <1>1, WorkTyped
  <2>4. Messages(t) \subseteq Work(t)
      BY <2>2, <2>3 DEF Work
  <2>5. ASSUME NEW m \in Work(t), m.frame # None PROVE m \in Messages(t)
    <3>1. m \notin Pauses /\ m # NoMessage
        BY <2>5, MessagesAre
    <3> QED
        BY <2>1, <2>2, <2>5, <3>1 DEF Work, ThreadTyped
  <2> QED
      BY <2>1, <2>4, <2>5 DEF Sent
<1>3. \A m \in FrameMessages \union Pauses : m.frame \in Frames \/ m.frame = None
    BY MessagesAre
<1>4. cb.frame \in Frames \/ cb.frame = None
    BY <1>1, MessagesAre DEF FlagsTyped
<1> SUFFICES ASSUME NEW f
             PROVE  f \in Lent <=>
                       /\ f \in Frames
                       /\ cb.frame = f \/ \E t \in Threads : \E m \in Work(t) : m.frame = f
    OBVIOUS
<1>5. f \in Lent <=> /\ f # None
                     /\ cb.frame = f \/ \E t \in Threads : \E m \in Messages(t) : m.frame = f
  <2> DEFINE X == (UNION {Messages(t) : t \in Threads}) \union {cb}
  <2>1. \A m : m \in X <=> m = cb \/ \E t \in Threads : m \in Messages(t)
      OBVIOUS
  <2>2. Lent = {m.frame : m \in X} \ {None}
      BY DEF Lent
  <2> HIDE DEF X
  <2>3. f \in Lent <=> f # None /\ \E m \in X : m.frame = f
      BY <2>2
  <2> QED
      BY <2>1, <2>3
<1>6. f # None => ((\E t \in Threads : \E m \in Messages(t) : m.frame = f)
                      <=> \E t \in Threads : \E m \in Work(t) : m.frame = f)
    BY <1>2
<1>7. f # None /\ (cb.frame = f \/ \E t \in Threads : \E m \in Work(t) : m.frame = f)
         => f \in Frames
    BY <1>2, <1>3, <1>4
<1> QED
    BY <1>5, <1>6, <1>7

LEMMA VideoIsQuiet == ASSUME IInv, None \notin Frames PROVE VideoQuiet
<1> SUFFICES ASSUME "video" \notin mRunningState, todo["api"] = <<>>
             PROVE  UnderWay("video") = {}
    BY DEF VideoQuiet
<1>1. ThreadOf("video") = "event" /\ "event" \in Threads /\ Stopper("video") = "api"
    BY DEF ThreadOf, Threads, Stopper
<1>2. ~ Pausing("api", "event")
    BY <1>1, ApiFree
<1>3. Clear("video") /\ QueuesTyped
    BY <1>1, <1>2 DEF IInv, TypeOK, Off
<1>4. Messages("event") \subseteq Work("event")
  <2>1. thread["event"].at = "process" => thread["event"].msg \in Work("event")
      BY <1>1, <1>3, WorkTyped
  <2>2. Queued("event") \subseteq Work("event")
      BY DEF Work
  <2> QED
      BY <2>1, <2>2 DEF Messages, Queued, Elements
<1> QED
    BY <1>1, <1>3, <1>4 DEF UnderWay, Clear

LEMMA AllCounted == ASSUME IInv, None \notin Frames PROVE PicturesCounted
<1> DEFINE q == queue["enc"]
           P == {i \in DOMAIN q : q[i].cmd = "picture"}
<1>1. /\ QueuesTyped /\ Pictures /\ "enc" \in Threads /\ q \in Seq(Sendable("enc"))
      /\ pictures \in [num : Nat, enc : Nat]
    BY DEF IInv, TypeOK, QueuesTyped, FlagsTyped, Threads
<1>2. DOMAIN q = 1..Len(q) /\ Len(q) \in Nat
    BY <1>1
<1>3. CASE "picture" \in mRunningState
  <2>1. ASSUME NEW i \in DOMAIN q PROVE q[i].cmd = "picture"
    <3>1. q[i] \in Queued("enc")
        BY DEF Queued, Elements
    <3>2. q[i] \in Work("enc") /\ q[i] \in Sendable("enc")
        BY <1>1, <3>1, WorkTyped
    <3>3. \A c \in Callers : q[i] # Asks(c)
        BY <1>1, <1>3, <3>2 DEF Pictures, Pausing
    <3>4. q[i] \notin Pauses
        BY <3>3, MessagesAre DEF Asks
    <3> QED
        BY <3>2, <3>4, MessagesAre DEF Sendable, ThreadOf, Kinds
  <2>2. P = 1..Len(q)
      BY <1>2, <2>1
  <2>3. Cardinality(1..Len(q)) = Len(q)
      BY <1>2, FS_Interval
  <2>4. pictures.enc = pictures.num + Cardinality(P) /\ pictures.enc > 0
      BY <1>1, <1>3, <2>2, <2>3 DEF Pictures
  <2> QED
      BY <1>3, <2>4 DEF PicturesCounted
<1>4. CASE "picture" \notin mRunningState
  <2>1. pictures.enc = 0 /\ pictures.num = 0 /\ \A m \in Queued("enc") : m.cmd # "picture"
      BY <1>1, <1>4 DEF Pictures
  <2>2. P = {}
      BY <2>1 DEF Queued, Elements
  <2>3. Cardinality(P) = 0
      BY <2>2, FS_EmptySet
  <2> HIDE DEF P
  <2>4. pictures.enc = pictures.num + Cardinality(P) /\ ~ (pictures.enc > 0)
      BY <2>1, <2>3
  <2> QED
      BY <1>4, <2>4 DEF PicturesCounted, P
<1> QED
    BY <1>3, <1>4
-----------------------------------------------------------------------------
(* The theorems: the application keeps to the order that the code relies on.  *)

\* A frame that a thread of the notifier works on, or that is on its way to one,
\* still locks its buffer of the engine: no stop of the preview frees it first,
\* for "pause event and enc thread" comes before (AppMsgNotifier.cpp:1909,
\* CameraIspAdapter.cpp:550).
THEOREM FramesExist == ASSUME None \notin Frames, Allowed = {} PROVE Spec => []NoStaleFrame
<1>1. ASSUME IInv PROVE NoStaleFrame
    BY <1>1, LentAre DEF IInv, Known, NoStaleFrame
<1> QED
    BY <1>1, NotifierInductive, PTL

\* A buffer of the engine is locked only for a frame that somebody still has, so
\* that none is lost: each frame that bufferCb lends is returned or on its way
\* (adapterReturnFrame).  Allowed = {} leaves out the two cases in which the code
\* does lose one: the denoiser collects pictures (CameraIspAdapter.cpp:2587-2627),
\* and metadata is disabled while a face is looked for (AppMsgNotifier.cpp:1812).
THEOREM FramesComeBack == ASSUME None \notin Frames, Allowed = {} PROVE Spec => []NoFrameLost
<1>1. ASSUME IInv PROVE NoFrameLost
    BY <1>1, LentAre DEF IInv, TypeOK, FlagsTyped, Known, NoFrameLost
<1> QED
    BY <1>1, NotifierInductive, PTL

\* When stopRecording has returned, no frame of the video is on its way into a
\* buffer that it freed (AppMsgNotifier.cpp:750).
THEOREM VideoStops == ASSUME None \notin Frames, Allowed = {} PROVE Spec => []VideoQuiet
<1>1. IInv => VideoQuiet
    BY VideoIsQuiet
<1> QED
    BY <1>1, NotifierInductive, PTL

\* The two counters of a burst agree with what is queued for the encoder, and the
\* bit of the request is set while a picture is still to be begun
\* (CMD_ENCPROCESS_SNAPSHOT, notifyNewPicFrame and takePicture).
THEOREM BurstsCounted == ASSUME None \notin Frames, Allowed = {} PROVE Spec => []PicturesCounted
<1>1. IInv => PicturesCounted
    BY AllCounted
<1> QED
    BY <1>1, NotifierInductive, PTL
=============================================================================
