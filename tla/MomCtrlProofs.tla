---------------------------- MODULE MomCtrlProofs ----------------------------
(* What holds of the memory output module, its clients and the hardware for   *)
(* any number of buffers, any depth of the command queue and any number of    *)
(* streams, as long as no lock count wraps and no pool callback outlasts a    *)
(* STOP.                                                                      *)
EXTENDS MomCtrl, MediaBufPoolProofs, SequenceTheorems

Halted == {"initialize", "stopped"}

\* Nothing is on its way.
Rest == /\ EmptyBufQueue = <<>> /\ FullBufQueue = <<>>
        /\ thread = Idle /\ mi = NoBuffers /\ irq = "idle" /\ back = NoBuffer

\* Without a ring START takes every buffer from the pool.
AllOut == RingBuffer \/ FreeSet(pool) = {}

\* The thread is idle or has the buffer of a "full".
Handles == /\ thread.at \in {"idle", "queue", "callback", "unlock"}
           /\ thread.at = "idle" <=> thread.b = NoBuffer
           /\ thread.at = "queue" => PathQueue

OnlyFull == \A i \in DOMAIN CommandQueue : CommandQueue[i] = "full"
StopLast == /\ CommandQueue # <<>> /\ CommandQueue[Len(CommandQueue)] = "stop"
            /\ \A i \in 1..(Len(CommandQueue) - 1) : CommandQueue[i] = "full"

\* The places of the engine thread, and how far mom_ctrl is by then
Off == /\ engine = "off" /\ Rest /\ State \in Halted
       /\ CommandQueue = <<>> /\ events = {}

Ending == /\ engine = "shutdown" /\ Rest /\ events = {}
          /\ \/ State \in Halted /\ CommandQueue = <<"shutdown">>
             \/ State = "invalid" /\ CommandQueue = <<>>

Starting ==
    /\ engine = "starting" /\ ClientsDone
    /\ FullBufQueue = <<>> /\ irq = "idle" /\ mi = NoBuffers
    /\ \/ /\ State \in Halted /\ CommandQueue = <<"start">> /\ events = {}
          /\ thread = Idle /\ EmptyBufQueue = <<>>
       \/ /\ State \in Halted /\ CommandQueue = <<>> /\ events = {}
          /\ thread = At("fetch", NoBuffer)
       \/ /\ Running /\ CommandQueue = <<>> /\ events = {"start"}
          /\ thread = Idle /\ AllOut

SettingUp ==
    /\ engine \in {"setup", "setupNext"} /\ ClientsDone
    /\ FullBufQueue = <<>> /\ irq = "idle"
    /\ Running /\ CommandQueue = <<>> /\ events = {} /\ thread = Idle /\ AllOut
    /\ mi.pBuffer = NoBuffer
    /\ mi.pShdBuffer = NoBuffer <=> engine = "setup"

Streaming ==
    /\ engine \in {"streaming", "disconnect", "flush", "stopMom"}
    /\ Running /\ OnlyFull /\ events = {} /\ Handles
    /\ engine \in {"flush", "stopMom"} => irq = "idle"
    /\ IF engine = "stopMom" THEN mi = NoBuffers
       ELSE mi.pShdBuffer # NoBuffer /\ mi.pBuffer # NoBuffer

Stopping ==
    /\ engine = "stopping" /\ irq = "idle" /\ mi = NoBuffers
    /\ \/ Running /\ StopLast /\ events = {} /\ Handles
       \/ /\ State = "stopped" /\ CommandQueue = <<>> /\ events = {}
          /\ thread = At("drain", NoBuffer) /\ FullBufQueue = <<>>
       \/ State = "stopped" /\ CommandQueue = <<>> /\ events = {"stop"} /\ Rest

Phase == Off \/ Ending \/ Starting \/ SettingUp \/ Streaming \/ Stopping

\* From the START to the reset that ends a STOP
Live == \/ engine \notin {"off", "shutdown", "stopping"}
        \/ engine = "stopping" /\ events = {}

Locks == IF Live
         THEN Owned(pool) /\ \A b \in Buffers : pool.lockCount[b] = Owners(b) + held[b]
         ELSE \A b \in Buffers : /\ pool.lockCount[b] = 0 /\ ~ pool.pOwner[b]
                                 /\ Owners(b) = InQueue(out, b)

\* A buffer has one place, and a client's lock on it only once it has left them.
Alone == \A b \in Buffers :
            /\ Owners(b) <= 1
            /\ Owners(b) = 1 /\ held[b] > 0 => thread = At("unlock", b)

IInv == TypeOK /\ FreeCountExact(pool) /\ Phase /\ Locks /\ Alone /\ FullBuffersAnnounced

-----------------------------------------------------------------------------
(* Places are counted                                                        *)

Is(x, y) == IF x = y THEN 1 ELSE 0
InMi(b) == IF b \in MiHolds THEN 1 ELSE 0

LEMMA OwnersSplit ==
    \A b : /\ Owners(b) = Occurs(EmptyBufQueue, b) + Occurs(FullBufQueue, b) + Occurs(out, b)
                           + InMi(b) + Is(b, thread.b) + Is(b, back)
           /\ Owners(b)' = Occurs(EmptyBufQueue', b) + Occurs(FullBufQueue', b)
                            + Occurs(out', b) + InMi(b)' + Is(b, thread'.b) + Is(b, back')
           /\ InQueue(out, b) = Occurs(out, b) /\ InQueue(out, b)' = Occurs(out', b)
BY DEF Owners, InQueue, Occurs, One, InMi, Is

LEMMA PlacesTyped ==
    ASSUME TypeOK, NEW b
    PROVE  /\ Occurs(EmptyBufQueue, b) \in Nat /\ Occurs(FullBufQueue, b) \in Nat
           /\ Occurs(out, b) \in Nat
           /\ InMi(b) \in 0..1 /\ Is(b, thread.b) \in 0..1 /\ Is(b, back) \in 0..1
           /\ b \in Buffers => held[b] \in Nat /\ pool.lockCount[b] \in 0..(CounterMod - 1)
BY OccursCounts DEF TypeOK, InMi, Is, Pools

LEMMA PlacesNext ==
    ASSUME TypeOK', NEW b
    PROVE  /\ Occurs(EmptyBufQueue', b) \in Nat /\ Occurs(FullBufQueue', b) \in Nat
           /\ Occurs(out', b) \in Nat
           /\ InMi(b)' \in 0..1 /\ Is(b, thread'.b) \in 0..1 /\ Is(b, back') \in 0..1
           /\ b \in Buffers => held'[b] \in Nat /\ pool'.lockCount[b] \in 0..(CounterMod - 1)
BY OccursCounts DEF TypeOK, InMi, Is, Pools

(* A buffer is taken from the pool, freed to it, or loses one lock of more.   *)
LEMMA Gets ==
    ASSUME NEW p \in Pools, FreeCountExact(p), CanGet(p)
    PROVE  /\ PoolGet(p) \in Pools /\ FreeCountExact(PoolGet(p))
           /\ FirstFree(p) \in Buffers /\ p.lockCount[FirstFree(p)] = 0
           /\ \A c \in Buffers : /\ PoolGet(p).lockCount[c] = p.lockCount[c] + Is(c, FirstFree(p))
                                 /\ p.pOwner[c] \/ c = FirstFree(p) => PoolGet(p).pOwner[c]
<1>1. /\ PoolGet(p) \in Pools /\ FreeCountExact(PoolGet(p))
      /\ FirstFree(p) \in Buffers /\ p.lockCount[FirstFree(p)] = 0
    BY PoolGetCounts DEF FreeSet
<1>2. /\ PoolGet(p).lockCount = [p.lockCount EXCEPT ![FirstFree(p)] = 1]
      /\ PoolGet(p).pOwner = [p.pOwner EXCEPT ![FirstFree(p)] = TRUE]
    BY DEF PoolGet, Pools
<1>3. /\ p.lockCount \in [Buffers -> 0..(CounterMod - 1)] /\ p.pOwner \in [Buffers -> BOOLEAN]
      /\ CounterMod \in Nat
    BY PoolAssumption DEF Pools
<1>4. \A c \in Buffers : PoolGet(p).lockCount[c] = p.lockCount[c] + Is(c, FirstFree(p))
    BY <1>1, <1>2, <1>3 DEF Is
<1>5. \A c \in Buffers : p.pOwner[c] \/ c = FirstFree(p) => PoolGet(p).pOwner[c]
    BY <1>1, <1>2, <1>3
<1> QED
    BY <1>1, <1>4, <1>5

LEMMA Frees ==
    ASSUME NEW p \in Pools, FreeCountExact(p), NEW b \in Buffers, p.lockCount[b] = 1
    PROVE  /\ PoolFree(p, b) \in Pools /\ FreeCountExact(PoolFree(p, b))
           /\ \A c \in Buffers : /\ PoolFree(p, b).lockCount[c] + Is(c, b) = p.lockCount[c]
                                 /\ PoolFree(p, b).pOwner[c] = p.pOwner[c]
<1>1. FreeSet(p) \ {b} = FreeSet(p)
    BY DEF FreeSet
<1>2. PoolFree(p, b) \in Pools /\ FreeCountExact(PoolFree(p, b))
    BY <1>1, PoolFreeCounts DEF FreeCountExact
<1>3. /\ PoolFree(p, b).lockCount = [p.lockCount EXCEPT ![b] = 0]
      /\ PoolFree(p, b).pOwner = p.pOwner
    BY DEF PoolFree, Pools
<1>4. p.lockCount \in [Buffers -> 0..(CounterMod - 1)] /\ CounterMod \in Nat
    BY PoolAssumption DEF Pools
<1> QED
    BY <1>2, <1>3, <1>4 DEF Is

LEMMA Unlocks ==
    ASSUME NEW p \in Pools, FreeCountExact(p), NEW b \in Buffers, p.pOwner[b],
           p.lockCount[b] > 1
    PROVE  /\ BufUnlock(p, b) \in Pools /\ FreeCountExact(BufUnlock(p, b))
           /\ \A c \in Buffers : /\ BufUnlock(p, b).lockCount[c] + Is(c, b) = p.lockCount[c]
                                 /\ BufUnlock(p, b).pOwner[c] = p.pOwner[c]
<1> DEFINE n == (p.lockCount[b] + CounterMod - 1) % CounterMod
           q == [p EXCEPT !.lockCount[b] = n]
<1>1. p.lockCount \in [Buffers -> 0..(CounterMod - 1)] /\ CounterMod \in Nat
    BY PoolAssumption DEF Pools
<1>2. n = p.lockCount[b] - 1 /\ n # 0 /\ n \in 0..(CounterMod - 1)
    BY <1>1
<1> HIDE DEF n
<1>3. /\ q \in Pools /\ q.lockCount = [p.lockCount EXCEPT ![b] = n]
      /\ q.pOwner = p.pOwner /\ q.freeBufNum = p.freeBufNum /\ q.lockCount[b] = n
    BY <1>1, <1>2, PoolUpdates DEF Pools
<1>4. BufUnlock(p, b) = q
    BY <1>2, <1>3 DEF BufUnlock, n
<1> HIDE DEF q
<1>5. FreeSet(q) = FreeSet(p)
    BY <1>1, <1>2, <1>3 DEF FreeSet
<1> QED
    BY <1>1, <1>2, <1>3, <1>4, <1>5 DEF FreeCountExact, Is

\* MediaBufPoolFreeBuffer with its callback: f is the buffer that it gets, if any.
LEMMA FreesAndGets ==
    ASSUME TypeOK, FreeCountExact(pool), NEW b \in Buffers, pool.lockCount[b] = 1,
           NEW p, p = Refilled(PoolFree(pool, b)), NEW f, f = PutBack(PoolFree(pool, b))
    PROVE  /\ p \in Pools /\ FreeCountExact(p)
           /\ f \in Buffers \union {NoBuffer} /\ (~ Running => f = NoBuffer)
           /\ f # NoBuffer => f = b \/ pool.lockCount[f] = 0
           /\ \A c \in Buffers : p.lockCount[c] + Is(c, b) = pool.lockCount[c] + Is(c, f)
           /\ Owned(pool) => Owned(p)
<1> DEFINE q == PoolFree(pool, b)
<1>1. pool \in Pools /\ CounterMod \in Nat /\ pool.lockCount \in [Buffers -> 0..(CounterMod - 1)]
    BY PoolAssumption DEF TypeOK, Pools
<1>2. /\ q \in Pools /\ FreeCountExact(q)
      /\ \A c \in Buffers : /\ q.lockCount[c] + Is(c, b) = pool.lockCount[c]
                            /\ q.pOwner[c] = pool.pOwner[c]
      /\ q.lockCount \in [Buffers -> 0..(CounterMod - 1)]
    BY <1>1, Frees DEF Pools
<1> HIDE DEF q
<1>3. CASE Refills(q)
    <2>1. p = PoolGet(q) /\ f = FirstFree(q) /\ CanGet(q) /\ Running
        BY <1>3 DEF Refilled, PutBack, Refills, q
    <2>2. /\ PoolGet(q) \in Pools /\ FreeCountExact(PoolGet(q))
          /\ FirstFree(q) \in Buffers /\ q.lockCount[FirstFree(q)] = 0
          /\ \A c \in Buffers : /\ PoolGet(q).lockCount[c] = q.lockCount[c] + Is(c, FirstFree(q))
                                /\ q.pOwner[c] \/ c = FirstFree(q) => PoolGet(q).pOwner[c]
        BY <1>2, <2>1, Gets
    <2>3. \A c, d : Is(c, d) \in 0..1 /\ (Is(c, d) = 1 <=> c = d)
        BY DEF Is
    <2>4. f = b \/ pool.lockCount[f] = 0
        BY <1>1, <1>2, <2>1, <2>2, <2>3
    <2>5. \A c \in Buffers : p.lockCount[c] + Is(c, b) = pool.lockCount[c] + Is(c, f)
        BY <1>1, <1>2, <2>1, <2>2, <2>3
    <2>6. Owned(pool) => Owned(p)
        BY <1>1, <1>2, <2>1, <2>2, <2>3 DEF Owned
    <2> QED
        BY <2>1, <2>2, <2>4, <2>5, <2>6
<1>4. CASE ~ Refills(q)
    <2>1. p = q /\ f = NoBuffer
        BY <1>4 DEF Refilled, PutBack, q
    <2>2. \A c \in Buffers : Is(c, NoBuffer) = 0 /\ Is(c, b) \in 0..1
        BY PoolAssumption DEF Is, NoBuffer, Buffers
    <2> QED
        BY <1>1, <1>2, <2>1, <2>2 DEF Owned
<1> QED
    BY <1>3, <1>4

LEMMA Adds ==
    ASSUME NEW q \in Seq(Buffers), NEW f \in Buffers \union {NoBuffer}, AddEmpty(q, f)
    PROVE  /\ EmptyBufQueue' \in Seq(Buffers)
           /\ \A c \in Buffers : Occurs(EmptyBufQueue', c) = Occurs(q, c) + Is(c, f)
<1>1. CASE f = NoBuffer
    <2>1. EmptyBufQueue' = q
        BY <1>1 DEF AddEmpty
    <2>2. \A c \in Buffers : Is(c, f) = 0 /\ Occurs(q, c) \in Nat
        BY <1>1, OccursCounts, PoolAssumption DEF Is, NoBuffer, Buffers
    <2> QED
        BY <2>1, <2>2
<1>2. CASE f # NoBuffer
    <2>1. f \in Buffers /\ EmptyBufQueue' = Append(q, f)
        BY <1>2 DEF AddEmpty
    <2>2. \A c : Occurs(Append(q, f), c) = Occurs(q, c) + (IF f = c THEN 1 ELSE 0)
        BY <2>1, OccursAppend
    <2> QED
        BY <2>1, <2>2, Appended DEF Is
<1> QED
    BY <1>1, <1>2
-----------------------------------------------------------------------------
(* One step, and the places of the buffers                                   *)

LEMMA SharesOf ==
    \A c, d : Is(c, d) \in 0..1 /\ (Is(c, d) = 1 <=> c = d)
BY DEF Is

\* A buffer in a place that is not the client's queue is in no other.
LEMMA Placed ==
    ASSUME IInv, NEW b \in Buffers,
           \/ Occurs(EmptyBufQueue, b) > 0 \/ Occurs(FullBufQueue, b) > 0
           \/ InMi(b) = 1 \/ b = thread.b \/ b = back
    PROVE  /\ Owners(b) = 1 /\ Live /\ pool.pOwner[b]
           /\ pool.lockCount[b] = 1 + held[b]
           /\ thread # At("unlock", b) => held[b] = 0
           /\ \/ Occurs(EmptyBufQueue, b) > 0 \/ Occurs(FullBufQueue, b) > 0
              \/ InMi(b) = 1 \/ b = back
              => b # thread.b /\ held[b] = 0 /\ pool.lockCount[b] = 1
<1>1. /\ Owners(b) = Occurs(EmptyBufQueue, b) + Occurs(FullBufQueue, b) + Occurs(out, b)
                      + InMi(b) + Is(b, thread.b) + Is(b, back)
      /\ InQueue(out, b) = Occurs(out, b)
    BY OwnersSplit
<1>2. /\ Occurs(EmptyBufQueue, b) \in Nat /\ Occurs(FullBufQueue, b) \in Nat
      /\ Occurs(out, b) \in Nat /\ held[b] \in Nat
      /\ InMi(b) \in 0..1 /\ Is(b, thread.b) \in 0..1 /\ Is(b, back) \in 0..1
    BY PlacesTyped DEF IInv
<1>3. Owners(b) = 1 /\ Owners(b) > InQueue(out, b)
    BY <1>1, <1>2, SharesOf DEF IInv, Alone
<1>4. /\ Live /\ Owned(pool) /\ pool.lockCount[b] = Owners(b) + held[b]
    BY <1>1, <1>2, <1>3 DEF IInv, Locks
<1>5. pool.pOwner[b] /\ pool.lockCount[b] = 1 + held[b]
    BY <1>2, <1>3, <1>4 DEF Owned
<1>6. thread # At("unlock", b) => held[b] = 0
    BY <1>2, <1>3 DEF IInv, Alone
<1>7. ASSUME \/ Occurs(EmptyBufQueue, b) > 0 \/ Occurs(FullBufQueue, b) > 0
             \/ InMi(b) = 1 \/ b = back
      PROVE  b # thread.b /\ held[b] = 0 /\ pool.lockCount[b] = 1
    <2>1. b # thread.b
        BY <1>1, <1>2, <1>3, <1>7, SharesOf
    <2> QED
        BY <1>5, <1>6, <2>1 DEF At
<1> QED
    BY <1>3, <1>4, <1>5, <1>6, <1>7

LEMMA HeadPlaced ==
    ASSUME NEW q \in Seq(Buffers), q # <<>>
    PROVE  /\ Head(q) \in Buffers /\ Tail(q) \in Seq(Buffers)
           /\ Occurs(q, Head(q)) > 0
           /\ \A c : Occurs(Tail(q), c) + Is(c, Head(q)) = Occurs(q, c)
<1>1. Head(q) \in Buffers /\ Tail(q) \in Seq(Buffers)
    BY Taken
<1>2. ASSUME NEW c PROVE Occurs(Tail(q), c) \in Nat
                         /\ Occurs(q, c) = Occurs(Tail(q), c) + (IF Head(q) = c THEN 1 ELSE 0)
    BY <1>1, OccursTail, OccursCounts
<1>3. \A c : Occurs(Tail(q), c) + Is(c, Head(q)) = Occurs(q, c)
    BY <1>2 DEF Is
<1>4. Occurs(q, Head(q)) > 0
    BY <1>2
<1> QED
    BY <1>1, <1>3, <1>4

\* A buffer is handed on, with the lock on it.
LEMMA HandedOn ==
    ASSUME IInv, held' = held, \A b \in Buffers : Owners(b)' = Owners(b),
           pool'.lockCount = pool.lockCount, pool'.pOwner = pool.pOwner,
           Live' <=> Live, out' = out \/ Live,
           thread.at = "unlock" => thread' = thread
    PROVE  Locks' /\ Alone'
<1>1. out' = out => \A b \in Buffers : InQueue(out, b)' = InQueue(out, b)
    BY OwnersSplit
<1>2. CASE Live
    BY <1>2 DEF IInv, Locks, Owned, Alone, At
<1>3. CASE ~ Live
    BY <1>1, <1>3 DEF IInv, Locks, Alone, At
<1> QED
    BY <1>2, <1>3

\* Nothing moves.
LEMMA StillStep ==
    ASSUME IInv, UNCHANGED <<pool, EmptyBufQueue, FullBufQueue, out, held, back>>,
           thread'.b = thread.b, thread.at = "unlock" => thread' = thread,
           MiHolds' = MiHolds, Live' <=> Live
    PROVE  FreeCountExact(pool)' /\ Locks' /\ Alone'
<1>1. \A b : InMi(b)' = InMi(b)
    BY DEF InMi
<1>2. \A b : Owners(b)' = Owners(b)
    BY <1>1, OwnersSplit
<1>3. FreeCountExact(pool)'
    BY DEF IInv, FreeCountExact, FreeSet
<1> QED
    BY <1>2, <1>3, HandedOn

\* What one place loses another gets, in a stream.
LEMMA MoveStep ==
    ASSUME IInv, TypeOK', Live, Live', Owned(pool'),
           \A b \in Buffers : pool'.lockCount[b] + Owners(b) + held[b]
                                  = pool.lockCount[b] + Owners(b)' + held'[b]
    PROVE  Locks'
<1>1. ASSUME NEW b \in Buffers
      PROVE  pool'.lockCount[b] = Owners(b)' + held'[b]
    <2>1. /\ pool.lockCount[b] = Owners(b) + held[b]
          /\ pool'.lockCount[b] + Owners(b) + held[b] = pool.lockCount[b] + Owners(b)' + held'[b]
        BY DEF IInv, Locks
    <2>2. /\ Owners(b) \in Nat /\ Owners(b)' \in Nat /\ held[b] \in Nat /\ held'[b] \in Nat
          /\ pool.lockCount[b] \in Nat /\ pool'.lockCount[b] \in Nat
        BY PlacesTyped, PlacesNext, OwnersSplit DEF IInv
    <2> QED
        BY <2>1, <2>2
<1> QED
    BY <1>1 DEF Locks, Owned

LEMMA OwnersTyped ==
    /\ TypeOK => \A b \in Buffers : Owners(b) \in Nat /\ held[b] \in Nat
                                     /\ pool.lockCount[b] \in Nat
    /\ TypeOK' => \A b \in Buffers : Owners(b)' \in Nat /\ held'[b] \in Nat
                                      /\ pool'.lockCount[b] \in Nat
<1>1. ASSUME TypeOK, NEW b \in Buffers
      PROVE  Owners(b) \in Nat /\ held[b] \in Nat /\ pool.lockCount[b] \in Nat
    BY <1>1, PlacesTyped, OwnersSplit
<1>2. ASSUME TypeOK', NEW b \in Buffers
      PROVE  Owners(b)' \in Nat /\ held'[b] \in Nat /\ pool'.lockCount[b] \in Nat
    BY <1>2, PlacesNext, OwnersSplit
<1> QED
    BY <1>1, <1>2

\* The last lock on b is undone, and the pool hands out f.
LEMMA FreeStep ==
    ASSUME IInv, TypeOK', Live, Live', NEW b \in Buffers, pool.lockCount[b] = 1,
           NEW f, f = PutBack(PoolFree(pool, b)), pool' = Refilled(PoolFree(pool, b)),
           \A c \in Buffers :
              /\ Owners(c)' + held'[c] + Is(c, b) = Owners(c) + held[c] + Is(c, f)
              /\ Owners(c)' <= Owners(c) + Is(c, f) /\ held'[c] <= held[c],
           thread' = thread \/ thread.b = b
    PROVE  FreeCountExact(pool)' /\ Locks' /\ Alone'
<1>1. /\ pool' \in Pools /\ FreeCountExact(pool')
      /\ f # NoBuffer => f = b \/ pool.lockCount[f] = 0
      /\ \A c \in Buffers : pool'.lockCount[c] + Is(c, b) = pool.lockCount[c] + Is(c, f)
      /\ Owned(pool')
      /\ f \in Buffers \union {NoBuffer}
    BY FreesAndGets DEF IInv, Locks
<1>2. \A c \in Buffers :
         /\ pool.lockCount[c] = Owners(c) + held[c] /\ Owners(c) <= 1
         /\ Owners(c) = 1 /\ held[c] > 0 => thread = At("unlock", c)
    BY DEF IInv, Locks, Alone
<1>3. Locks'
    <2>1. \A c \in Buffers : pool'.lockCount[c] + Owners(c) + held[c]
                                 = pool.lockCount[c] + Owners(c)' + held'[c]
        BY <1>1, OwnersTyped, SharesOf DEF IInv
    <2> QED
        BY <1>1, <2>1, MoveStep
<1>4. Alone'
    <2> SUFFICES ASSUME NEW c \in Buffers
                 PROVE  /\ Owners(c)' <= 1
                        /\ Owners(c)' = 1 /\ held'[c] > 0 => thread' = At("unlock", c)
        BY DEF Alone, At
    <2>1. /\ Owners(c) \in Nat /\ held[c] \in Nat /\ pool.lockCount[c] \in Nat
          /\ Owners(c)' \in Nat /\ held'[c] \in Nat /\ pool'.lockCount[c] \in Nat
          /\ Is(c, b) \in 0..1 /\ (Is(c, b) = 1 <=> c = b)
          /\ Is(c, f) \in 0..1 /\ (Is(c, f) = 1 <=> c = f)
        BY OwnersTyped, SharesOf DEF IInv
    <2>2. CASE c = f
        <3>1. c = b \/ pool.lockCount[c] = 0
            BY <1>1, <2>2, PoolAssumption DEF NoBuffer, Buffers
        <3>2. Owners(c)' + held'[c] = 1
            BY <1>2, <2>1, <2>2, <3>1
        <3> QED
            BY <2>1, <3>2
    <2>3. CASE c # f
        <3>1. Owners(c)' <= Owners(c) /\ held'[c] <= held[c]
            BY <2>1, <2>3
        <3>2. Owners(c) = 1 /\ held[c] > 0 => c # b
            BY <1>2, <2>1
        <3> QED
            BY <1>2, <2>1, <3>1, <3>2 DEF At
    <2> QED
        BY <2>2, <2>3
<1>5. FreeCountExact(pool)'
    BY <1>1 DEF FreeCountExact, FreeSet
<1> QED
    BY <1>3, <1>4, <1>5
-----------------------------------------------------------------------------
(* One step, and the types                                                   *)

LEMMA SendTyped ==
    ASSUME TypeOK, NEW c \in {"start", "stop", "full", "shutdown"}, MomCtrlSendCommand(c)
    PROVE  CommandQueue' \in Seq({"start", "stop", "full", "shutdown"})
<1> DEFINE S == {"start", "stop", "full", "shutdown"}
<1>1. CommandQueue \in Seq(S) /\ c \in S
    BY DEF TypeOK
<1> HIDE DEF S
<1>2. Append(CommandQueue, c) \in Seq(S)
    BY <1>1, Appended
<1> QED
    BY <1>1, <1>2 DEF MomCtrlSendCommand, S

LEMMA FreeBufferTyped ==
    ASSUME TypeOK, FreeCountExact(pool), NEW b \in Buffers, pool.lockCount[b] = 1,
           NEW q \in Seq(Buffers), FreeBuffer(b, q)
    PROVE  pool' \in Pools /\ EmptyBufQueue' \in Seq(Buffers)
<1>1. /\ pool' = Refilled(PoolFree(pool, b))
      /\ AddEmpty(q, PutBack(PoolFree(pool, b)))
    BY DEF FreeBuffer
<1>2. pool' \in Pools /\ PutBack(PoolFree(pool, b)) \in Buffers \union {NoBuffer}
    BY <1>1, FreesAndGets
<1> QED
    BY <1>1, <1>2, Adds

LEMMA ThreadTyped ==
    ASSUME IInv, ThreadStep
    PROVE  TypeOK'
<1> USE DEF queues, clients
<1>0. /\ TypeOK /\ FreeCountExact(pool)
      /\ EmptyBufQueue \in Seq(Buffers) /\ FullBufQueue \in Seq(Buffers)
      /\ CommandQueue \in Seq({"start", "stop", "full", "shutdown"}) /\ out \in Seq(Buffers)
      /\ NoBuffer \in Buffers \union {NoBuffer}
    BY DEF IInv, TypeOK
<1>1. ASSUME NEW c, Command(c)
      PROVE  CommandQueue' \in Seq({"start", "stop", "full", "shutdown"})
    BY <1>0, <1>1, Taken DEF Command
<1>2. CASE Shutdown \/ Start \/ Stop
    <2>1. CommandQueue' \in Seq({"start", "stop", "full", "shutdown"})
        BY <1>1, <1>2 DEF Shutdown, Start, Stop
    <2>2. /\ State' \in {"initialize", "running", "stopped", "invalid"}
          /\ thread' \in [at : Places, b : Buffers \union {NoBuffer}]
          /\ events' \subseteq {"start", "stop"}
        <3>1. /\ State' \in {State, "invalid", "stopped"}
              /\ thread' \in {thread, At("fetch", NoBuffer), At("drain", NoBuffer)}
              /\ events' \in {events, events \union {"start"}, events \union {"stop"}}
            <4>1. CASE Shutdown
                BY <4>1 DEF Shutdown
            <4>2. CASE Start
                BY <4>2 DEF Start
            <4>3. CASE Stop
                BY <4>3 DEF Stop
            <4> QED
                BY <1>2, <4>1, <4>2, <4>3
        <3> QED
            BY <1>0, <3>1 DEF TypeOK, At, Places
    <2>3. UNCHANGED <<EmptyBufQueue, FullBufQueue, PathQueue, pool, mi, irq, engine, clients>>
        BY <1>2 DEF Shutdown, Start, Stop
    <2> QED
        BY <1>0, <2>1, <2>2, <2>3 DEF TypeOK
<1>3. CASE Fetch
    <2>1. /\ CanGet(pool) /\ pool' = PoolGet(pool) /\ AddEmpty(EmptyBufQueue, FirstFree(pool))
        BY <1>3 DEF Fetch
    <2>2. pool' \in Pools /\ FirstFree(pool) \in Buffers
        BY <1>0, <2>1, Gets DEF TypeOK
    <2>3. EmptyBufQueue' \in Seq(Buffers)
        BY <1>0, <2>1, <2>2, Adds
    <2> QED
        BY <1>0, <1>3, <2>2, <2>3 DEF Fetch, TypeOK
<1>4. CASE Fetched
    BY <1>0, <1>4 DEF Fetched, TypeOK, Idle, Places
<1>5. CASE ProcFullBuffer
    <2>1. FullBufQueue # <<>> => /\ Head(FullBufQueue) \in Buffers
                                /\ Tail(FullBufQueue) \in Seq(Buffers)
        BY <1>0, Taken
    <2>2. \A b \in Buffers : [pool EXCEPT !.isFull[b] = TRUE] \in Pools
        BY <1>0, PoolFlags DEF TypeOK
    <2>3. CommandQueue' \in Seq({"start", "stop", "full", "shutdown"})
        BY <1>1, <1>5 DEF ProcFullBuffer
    <2>4. /\ FullBufQueue' \in Seq(Buffers) /\ pool' \in Pools
          /\ thread' \in [at : Places, b : Buffers \union {NoBuffer}]
        <3>1. CASE ~ Running \/ FullBufQueue = <<>>
            BY <1>0, <1>5, <3>1 DEF ProcFullBuffer, TypeOK
        <3>2. CASE ~ (~ Running \/ FullBufQueue = <<>>)
            <4>1. /\ FullBufQueue' = Tail(FullBufQueue)
                  /\ pool' = [pool EXCEPT !.isFull[Head(FullBufQueue)] = TRUE]
                  /\ thread' = At(IF PathQueue THEN "queue" ELSE "callback", Head(FullBufQueue))
                BY <1>5, <3>2 DEF ProcFullBuffer
            <4>2. thread' \in [at : Places, b : Buffers \union {NoBuffer}]
                BY <2>1, <3>2, <4>1 DEF At, Places
            <4> QED
                BY <2>1, <2>2, <3>2, <4>1, <4>2
        <3> QED
            BY <3>1, <3>2
    <2> QED
        BY <1>0, <1>5, <2>3, <2>4 DEF ProcFullBuffer, TypeOK
<1>6. CASE Queue
    <2>1. thread.b \in Buffers
        BY <1>6 DEF IInv, Queue, Phase, Off, Ending, Starting, SettingUp, Streaming, Stopping,
                    Rest, Handles, Idle, At, TypeOK
    <2>2. Append(out, thread.b) \in Seq(Buffers)
        BY <1>0, <2>1, Appended
    <2> QED
        BY <1>0, <1>6, <2>2 DEF Queue, TypeOK, Idle, Places
<1>7. CASE Callback
    <2>1. thread.b \in Buffers
        BY <1>7 DEF IInv, Callback, Phase, Off, Ending, Starting, SettingUp, Streaming, Stopping,
                    Rest, Handles, Idle, At, TypeOK
    <2>2. PICK n \in 0..MaxLocks :
              /\ pool' = [pool EXCEPT !.lockCount[thread.b] = (pool.lockCount[thread.b] + n) % CounterMod]
              /\ held' = [held EXCEPT ![thread.b] = @ + n]
        BY <1>7 DEF Callback
    <2>3. (pool.lockCount[thread.b] + n) % CounterMod \in 0..(CounterMod - 1) /\ n \in Nat
        <3>1. /\ pool.lockCount[thread.b] \in Nat /\ n \in Nat
              /\ CounterMod \in Nat \ {0}
            BY <1>0, <2>1, PoolAssumption, MomCtrlAssumption DEF TypeOK, Pools
        <3>2. pool.lockCount[thread.b] + n \in Nat
            BY <3>1
        <3>3. \A k \in Nat : k % CounterMod \in 0..(CounterMod - 1)
            BY <3>1
        <3> QED
            BY <3>1, <3>2, <3>3
    <2>4. pool' \in Pools
        BY <1>0, <2>1, <2>2, <2>3, PoolUpdates DEF TypeOK
    <2>5. held' \in [Buffers -> Nat]
        BY <1>0, <2>1, <2>2, <2>3 DEF TypeOK
    <2> QED
        BY <1>0, <1>7, <2>1, <2>4, <2>5 DEF Callback, TypeOK, At, Places
<1>8. CASE Unlock
    <2>1. thread.b \in Buffers
        BY <1>8 DEF IInv, Unlock, Phase, Off, Ending, Starting, SettingUp, Streaming, Stopping,
                    Rest, Handles, Idle, At, TypeOK
    <2>2. pool' \in Pools /\ EmptyBufQueue' \in Seq(Buffers)
        <3>1. CASE LastLock(thread.b)
            BY <1>0, <1>8, <2>1, <3>1, FreeBufferTyped DEF Unlock, LastLock
        <3>2. CASE ~ LastLock(thread.b)
            BY <1>0, <1>8, <2>1, <3>2, BufUnlockTyped DEF Unlock, TypeOK
        <3> QED
            BY <3>1, <3>2
    <2> QED
        BY <1>0, <1>8, <2>2 DEF Unlock, TypeOK, Idle, Places
<1>9. CASE Drain
    <2>1. ASSUME NEW q \in Seq(Buffers), q # <<>>, q \in {EmptyBufQueue, FullBufQueue}
          PROVE  /\ Head(q) \in Buffers /\ Tail(q) \in Seq(Buffers)
                 /\ pool.lockCount[Head(q)] = 1
        BY <2>1, HeadPlaced, Placed
    <2>2. pool' \in Pools /\ EmptyBufQueue' \in Seq(Buffers) /\ FullBufQueue' \in Seq(Buffers)
        BY <1>0, <1>9, <2>1, FreeBufferTyped DEF Drain
    <2> QED
        BY <1>0, <1>9, <2>2 DEF Drain, TypeOK
<1>10. CASE Drained
    <2>1. PoolReset(pool) \in Pools
        BY <1>0, NewPoolCounts DEF TypeOK
    <2> QED
        BY <1>0, <1>10, <2>1 DEF Drained, TypeOK, Idle, Places
<1> QED
    BY <1>2, <1>3, <1>4, <1>5, <1>6, <1>7, <1>8, <1>9, <1>10 DEF ThreadStep
LEMMA MiTyped ==
    ASSUME NEW m \in MiPaths
    PROVE  /\ m.pShdBuffer \in Buffers \union {NoBuffer} /\ m.pBuffer \in Buffers \union {NoBuffer}
           /\ NoBuffers \in MiPaths /\ Reuse(m) \in MiPaths /\ Starve(m) \in MiPaths
           /\ \A b \in Buffers : /\ Renew(m, b) \in MiPaths
                                 /\ [m EXCEPT !.pShdBuffer = b] \in MiPaths
                                 /\ [m EXCEPT !.pBuffer = b] \in MiPaths
BY DEF MiPaths, NoBuffers, Reuse, Starve, Renew

LEMMA IrqTyped ==
    ASSUME IInv, IrqStep
    PROVE  TypeOK'
<1> USE DEF queues, clients
<1>0. /\ TypeOK /\ mi \in MiPaths
      /\ EmptyBufQueue \in Seq(Buffers) /\ FullBufQueue \in Seq(Buffers)
    BY DEF IInv, TypeOK
<1>1. CASE FrameSkipped
    BY <1>0, <1>1, MiTyped DEF FrameSkipped, TypeOK
<1>2. CASE FrameFull
    <2>1. Running => mi.pShdBuffer \in Buffers
        BY <1>2 DEF IInv, FrameFull, Phase, Off, Ending, Starting, SettingUp, Streaming, Stopping,
                    TypeOK, MiPaths
    <2>2. FullBufQueue' \in Seq(Buffers)
        <3>1. CASE Running
            BY <1>0, <1>2, <2>1, <3>1, Appended DEF FrameFull
        <3>2. CASE ~ Running
            BY <1>0, <1>2, <3>2 DEF FrameFull
        <3> QED
            BY <3>1, <3>2
    <2> QED
        BY <1>0, <1>2, <2>2 DEF FrameFull, TypeOK
<1>3. CASE FrameDropped
    BY <1>0, <1>3 DEF FrameDropped, TypeOK
<1>4. CASE Send
    BY <1>0, <1>4, SendTyped DEF Send, TypeOK
<1>5. CASE Request
    <2>1. mi' \in MiPaths /\ EmptyBufQueue' \in Seq(Buffers)
        <3>1. EmptyBufQueue # <<>> => /\ Head(EmptyBufQueue) \in Buffers
                                      /\ Tail(EmptyBufQueue) \in Seq(Buffers)
            BY <1>0, Taken
        <3> QED
            BY <1>0, <1>5, <3>1, MiTyped DEF Request
    <2> QED
        BY <1>0, <1>5, <2>1 DEF Request, TypeOK
<1> QED
    BY <1>1, <1>2, <1>3, <1>4, <1>5 DEF IrqStep

\* What the path has is somebody's.
LEMMA MiPlaced ==
    ASSUME IInv, engine \in {"disconnect", "flush"}, irq = "idle"
    PROVE  /\ mi.pBuffer \in Buffers /\ mi.pShdBuffer \in Buffers
           /\ InMi(mi.pBuffer) = 1 /\ pool.lockCount[mi.pBuffer] = 1
           /\ engine = "disconnect" => InMi(mi.pShdBuffer) = 1 /\ pool.lockCount[mi.pShdBuffer] = 1
<1>1. mi.pBuffer \in Buffers /\ mi.pShdBuffer \in Buffers
    BY DEF IInv, Phase, Off, Ending, Starting, SettingUp, Streaming, Stopping, TypeOK, MiPaths
<1>2. InMi(mi.pBuffer) = 1 /\ (engine = "disconnect" => InMi(mi.pShdBuffer) = 1)
    BY <1>1, PoolAssumption DEF InMi, MiHolds, NoBuffer, Buffers
<1> QED
    BY <1>1, <1>2, Placed

LEMMA EngineTyped ==
    ASSUME IInv, EngineStep
    PROVE  TypeOK'
<1> USE DEF queues, clients, EngineGo
<1>0. /\ TypeOK /\ mi \in MiPaths /\ NoBuffers \in MiPaths /\ FreeCountExact(pool)
      /\ EmptyBufQueue \in Seq(Buffers) /\ FullBufQueue \in Seq(Buffers)
    BY MiTyped DEF IInv, TypeOK
<1>1. CASE MomCtrlStart \/ MomCtrlStop \/ MomCtrlShutDown
    <2>1. CommandQueue' \in Seq({"start", "stop", "full", "shutdown"})
        BY <1>0, <1>1, SendTyped DEF MomCtrlStart, MomCtrlStop, MomCtrlShutDown
    <2>2. engine' \in {"starting", "stopping", "shutdown"}
        BY <1>1 DEF MomCtrlStart, MomCtrlStop, MomCtrlShutDown
    <2>3. UNCHANGED <<State, EmptyBufQueue, FullBufQueue, PathQueue, pool, mi, thread, irq,
                      events, clients>>
        BY <1>1 DEF MomCtrlStart, MomCtrlStop, MomCtrlShutDown
    <2> QED
        BY <1>0, <2>1, <2>2, <2>3 DEF TypeOK
<1>2. CASE Started
    BY <1>0, <1>2 DEF Started, TypeOK
<1>3. CASE Stopped
    BY <1>0, <1>3 DEF Stopped, TypeOK
<1>4. CASE SetupShadow \/ SetupNext
    <2>1. Head(EmptyBufQueue) \in Buffers /\ Tail(EmptyBufQueue) \in Seq(Buffers)
        BY <1>0, <1>4, Taken DEF SetupShadow, SetupNext, GetsBuffer
    <2>2. mi' \in MiPaths /\ EmptyBufQueue' \in Seq(Buffers)
        BY <1>0, <1>4, <2>1, MiTyped DEF SetupShadow, SetupNext
    <2>3. engine' \in {"setupNext", "streaming"}
        BY <1>4 DEF SetupShadow, SetupNext
    <2>4. UNCHANGED <<State, CommandQueue, FullBufQueue, PathQueue, pool, thread, irq, events,
                      clients>>
        BY <1>4 DEF SetupShadow, SetupNext
    <2> QED
        BY <1>0, <2>2, <2>3, <2>4 DEF TypeOK
<1>5. CASE CamerIcMiStop
    BY <1>0, <1>5 DEF CamerIcMiStop, TypeOK
<1>6. CASE FlushShadow
    <2>1. pool' \in Pools /\ EmptyBufQueue' \in Seq(Buffers)
        <3>1. mi.pShdBuffer \in Buffers /\ pool.lockCount[mi.pShdBuffer] = 1
            BY <1>6, MiPlaced DEF FlushShadow
        <3>2. FreeBuffer(mi.pShdBuffer, EmptyBufQueue) \/ UNCHANGED <<pool, EmptyBufQueue>>
            BY <1>6 DEF FlushShadow
        <3> QED
            BY <1>0, <3>1, <3>2, FreeBufferTyped DEF TypeOK
    <2> QED
        BY <1>0, <1>6, <2>1 DEF FlushShadow, TypeOK
<1>7. CASE FlushNext
    <2>1. pool' \in Pools /\ EmptyBufQueue' \in Seq(Buffers)
        <3>1. irq = "idle"
            BY <1>7 DEF FlushNext, IInv, Phase, Off, Ending, Starting, SettingUp, Streaming,
                        Stopping
        <3>2. mi.pBuffer \in Buffers /\ pool.lockCount[mi.pBuffer] = 1
            BY <1>7, <3>1, MiPlaced DEF FlushNext
        <3>3. FreeBuffer(mi.pBuffer, EmptyBufQueue) \/ UNCHANGED <<pool, EmptyBufQueue>>
            BY <1>7 DEF FlushNext
        <3> QED
            BY <1>0, <3>2, <3>3, FreeBufferTyped DEF TypeOK
    <2> QED
        BY <1>0, <1>7, <2>1 DEF FlushNext, TypeOK
<1>8. CASE MomCtrlInit
    <2>1. <<>> \in Seq(Buffers) /\ <<>> \in Seq({"start", "stop", "full", "shutdown"})
        OBVIOUS
    <2> QED
        BY <1>0, <1>8, <2>1 DEF MomCtrlInit, TypeOK
<1> QED
    BY <1>1, <1>2, <1>3, <1>4, <1>5, <1>6, <1>7, <1>8 DEF EngineStep

LEMMA ClientTyped ==
    ASSUME IInv, ClientStep
    PROVE  TypeOK'
<1> USE DEF queues, clients
<1>0. /\ TypeOK /\ FreeCountExact(pool) /\ pool \in Pools
      /\ EmptyBufQueue \in Seq(Buffers) /\ out \in Seq(Buffers) /\ held \in [Buffers -> Nat]
    BY DEF IInv, TypeOK
<1>1. CASE TakeOut
    <2>1. Head(out) \in Buffers /\ Tail(out) \in Seq(Buffers)
        BY <1>0, <1>1, Taken DEF TakeOut
    <2>2. held' \in [Buffers -> Nat]
        BY <1>0, <1>1, <2>1 DEF TakeOut
    <2> QED
        BY <1>0, <1>1, <2>1, <2>2 DEF TakeOut, TypeOK
<1>2. CASE ClientPutBack
    <2>1. EmptyBufQueue' \in Seq(Buffers)
        BY <1>0, <1>2, Adds DEF ClientPutBack, TypeOK
    <2> QED
        BY <1>0, <1>2, <2>1 DEF ClientPutBack, TypeOK
<1>3. ASSUME NEW b \in Buffers, ClientUnlock(b) PROVE TypeOK'
    <2>1. held' \in [Buffers -> Nat]
        BY <1>0, <1>3 DEF ClientUnlock
    <2>2. pool' \in Pools /\ back' \in Buffers \union {NoBuffer}
        <3>1. CASE LastLock(b)
            BY <1>0, <1>3, <3>1, FreesAndGets DEF ClientUnlock, LastLock
        <3>2. CASE ~ LastLock(b)
            BY <1>0, <1>3, <3>2, BufUnlockTyped DEF ClientUnlock, TypeOK
        <3> QED
            BY <3>1, <3>2
    <2> QED
        BY <1>0, <1>3, <2>1, <2>2 DEF ClientUnlock, TypeOK
<1> QED
    BY <1>1, <1>2, <1>3 DEF ClientStep

LEMMA TypeStep == IInv /\ [Next]_vars => TypeOK'
<1>1. IInv /\ UNCHANGED vars => TypeOK'
    BY DEF IInv, TypeOK, vars, queues, clients
<1> QED
    BY <1>1, ThreadTyped, IrqTyped, EngineTyped, ClientTyped DEF Next
-----------------------------------------------------------------------------
(* Where the engine is when the thread does something                        *)

\* The thread works on full buffers.
AtWork == Streaming \/ (Stopping /\ Running)

LEMMA ThreadPhase ==
    ASSUME IInv
    PROVE  /\ thread.at = "fetch" => /\ Starting /\ thread = At("fetch", NoBuffer)
                                     /\ State \in Halted /\ CommandQueue = <<>> /\ events = {}
           /\ thread.at \in {"queue", "callback", "unlock"} =>
                  AtWork /\ Handles /\ thread.b \in Buffers
           /\ thread.at = "drain" => /\ Stopping /\ thread = At("drain", NoBuffer)
                                     /\ State = "stopped" /\ events = {}
                                     /\ CommandQueue = <<>> /\ FullBufQueue = <<>>
<1> USE DEF Phase, Off, Ending, Starting, SettingUp, Streaming, Stopping, Rest, Handles,
            Idle, At, Running
<1>1. thread.b \in Buffers \union {NoBuffer}
    BY DEF IInv, TypeOK
<1>2. thread.at = "fetch" => /\ Starting /\ thread = At("fetch", NoBuffer)
                            /\ State \in Halted /\ CommandQueue = <<>> /\ events = {}
    BY DEF IInv
<1>3. thread.at \in {"queue", "callback", "unlock"} => AtWork /\ Handles /\ thread.b \in Buffers
    BY <1>1 DEF IInv, AtWork
<1>4. thread.at = "drain" => /\ Stopping /\ thread = At("drain", NoBuffer)
                            /\ State = "stopped" /\ events = {}
                            /\ CommandQueue = <<>> /\ FullBufQueue = <<>>
    BY DEF IInv
<1> QED
    BY <1>2, <1>3, <1>4

LEMMA CommandPhase ==
    ASSUME IInv, NEW c, Command(c)
    PROVE  /\ thread = Idle /\ c \in {"start", "stop", "full", "shutdown"}
           /\ c = "start" => Starting /\ State \in Halted /\ CommandQueue = <<"start">>
           /\ c = "shutdown" => Ending /\ State \in Halted /\ CommandQueue = <<"shutdown">>
           /\ c = "stop" => Stopping /\ Running /\ CommandQueue = <<"stop">>
           /\ c = "full" => AtWork
<1> USE DEF Off, Ending, Starting, SettingUp, Streaming, Stopping, Rest, Handles,
            Idle, At, Running
<1>1. /\ CommandQueue \in Seq({"start", "stop", "full", "shutdown"}) /\ CommandQueue # <<>>
      /\ c = Head(CommandQueue) /\ c = CommandQueue[1] /\ 1 \in DOMAIN CommandQueue
      /\ Len(CommandQueue) \in Nat \ {0} /\ thread.at = "idle" /\ Phase
      /\ c \in {"start", "stop", "full", "shutdown"}
    <2>1. CommandQueue \in Seq({"start", "stop", "full", "shutdown"}) /\ CommandQueue # <<>>
          /\ c = Head(CommandQueue) /\ thread.at = "idle" /\ Phase
        BY DEF Command, IInv, TypeOK
    <2> QED
        BY <2>1, Taken
<1>2. CASE Ending \/ Starting
    BY <1>1, <1>2 DEF Command
<1>3. CASE Streaming
    <2>1. c = "full"
        BY <1>1, <1>3 DEF OnlyFull
    <2>2. thread = Idle
        BY <1>1, <1>3 DEF IInv, TypeOK
    <2> QED
        BY <1>1, <1>3, <2>1, <2>2 DEF AtWork
<1>4. CASE Stopping
    <2>1. Running /\ StopLast /\ Handles
        BY <1>1, <1>4
    <2>2. thread = Idle
        BY <1>1, <2>1 DEF IInv, TypeOK
    <2>3. CASE Len(CommandQueue) = 1
        <3>1. c = "stop"
            BY <1>1, <2>1, <2>3 DEF StopLast
        <3>2. CommandQueue = <<"stop">>
            BY <1>1, <2>3, <3>1
        <3> QED
            BY <1>1, <1>4, <2>1, <2>2, <3>1, <3>2
    <2>4. CASE Len(CommandQueue) # 1
        <3>1. 1 \in 1..(Len(CommandQueue) - 1)
            BY <1>1, <2>4
        <3>2. \A i \in 1..(Len(CommandQueue) - 1) : CommandQueue[i] = "full"
            BY <2>1 DEF StopLast
        <3>3. c = "full"
            BY <1>1, <3>1, <3>2
        <3> QED
            BY <1>1, <1>4, <2>1, <2>2, <3>3 DEF AtWork
    <2> QED
        BY <2>3, <2>4
<1> QED
    BY <1>1, <1>2, <1>3, <1>4 DEF Phase

LEMMA AtWorkLive == AtWork \/ Starting \/ SettingUp => Live
BY DEF AtWork, Streaming, Stopping, Starting, SettingUp, Live, Running
-----------------------------------------------------------------------------
(* One step, the counts and the places                                       *)

\* What Owners adds up, before and after a step
Sums(c) ==
    /\ Occurs(EmptyBufQueue, c) \in Nat /\ Occurs(EmptyBufQueue', c) \in Nat
    /\ Occurs(FullBufQueue, c) \in Nat /\ Occurs(FullBufQueue', c) \in Nat
    /\ Occurs(out, c) \in Nat /\ Occurs(out', c) \in Nat
    /\ InMi(c) \in 0..1 /\ InMi(c)' \in 0..1
    /\ Is(c, thread.b) \in 0..1 /\ Is(c, thread'.b) \in 0..1
    /\ Is(c, back) \in 0..1 /\ Is(c, back') \in 0..1
    /\ Owners(c) \in Nat /\ Owners(c)' \in Nat
    /\ held[c] \in Nat /\ held'[c] \in Nat
    /\ pool.lockCount[c] \in Nat /\ pool'.lockCount[c] \in Nat
    /\ Owners(c) = Occurs(EmptyBufQueue, c) + Occurs(FullBufQueue, c) + Occurs(out, c)
                    + InMi(c) + Is(c, thread.b) + Is(c, back)
    /\ Owners(c)' = Occurs(EmptyBufQueue', c) + Occurs(FullBufQueue', c)
                     + Occurs(out', c) + InMi(c)' + Is(c, thread'.b) + Is(c, back')

LEMMA Adding ==
    ASSUME TypeOK, TypeOK', NEW c \in Buffers
    PROVE  Sums(c)
<1>1. /\ Occurs(EmptyBufQueue, c) \in Nat /\ Occurs(FullBufQueue, c) \in Nat
      /\ Occurs(out, c) \in Nat
      /\ InMi(c) \in 0..1 /\ Is(c, thread.b) \in 0..1 /\ Is(c, back) \in 0..1
    BY PlacesTyped
<1>2. /\ Occurs(EmptyBufQueue', c) \in Nat /\ Occurs(FullBufQueue', c) \in Nat
      /\ Occurs(out', c) \in Nat
      /\ InMi(c)' \in 0..1 /\ Is(c, thread'.b) \in 0..1 /\ Is(c, back') \in 0..1
    BY PlacesNext
<1> QED
    BY <1>1, <1>2, OwnersSplit, OwnersTyped DEF Sums

\* MediaBufPoolFreeBuffer of a buffer that has left its place, EmptyBufQueue
\* being q by then.
LEMMA FreesMove ==
    ASSUME IInv, TypeOK', Live, Live', NEW b \in Buffers, pool.lockCount[b] = 1,
           NEW q \in Seq(Buffers), FreeBuffer(b, q), held' = held,
           thread' = thread \/ thread.b = b,
           \A c \in Buffers :
              Occurs(q, c) + Occurs(FullBufQueue', c) + Occurs(out', c)
              + InMi(c)' + Is(c, thread'.b) + Is(c, back') + Is(c, b) = Owners(c)
    PROVE  FreeCountExact(pool)' /\ Locks' /\ Alone'
<1> DEFINE f == PutBack(PoolFree(pool, b))
<1>1. pool' = Refilled(PoolFree(pool, b)) /\ AddEmpty(q, f)
    BY DEF FreeBuffer
<1>2. f \in Buffers \union {NoBuffer}
    BY FreesAndGets DEF IInv
<1> HIDE DEF f
<1>3. ASSUME NEW c \in Buffers
      PROVE  /\ Owners(c)' + held'[c] + Is(c, b) = Owners(c) + held[c] + Is(c, f)
             /\ Owners(c)' <= Owners(c) + Is(c, f) /\ held'[c] <= held[c]
    <2>1. Occurs(EmptyBufQueue', c) = Occurs(q, c) + Is(c, f) /\ Occurs(q, c) \in Nat
        BY <1>1, <1>2, Adds, OccursCounts
    <2>2. Owners(c)' = Occurs(EmptyBufQueue', c) + Occurs(FullBufQueue', c)
                       + Occurs(out', c) + InMi(c)' + Is(c, thread'.b) + Is(c, back')
        BY OwnersSplit
    <2>3. /\ Occurs(FullBufQueue', c) \in Nat /\ Occurs(out', c) \in Nat
          /\ InMi(c)' \in 0..1 /\ Is(c, thread'.b) \in 0..1 /\ Is(c, back') \in 0..1
          /\ Owners(c) \in Nat /\ held[c] \in Nat
        BY PlacesNext, OwnersTyped DEF IInv
    <2>4. Owners(c)' + Is(c, b) = Owners(c) + Is(c, f)
        <3>1. Is(c, b) \in 0..1 /\ Is(c, f) \in 0..1
            BY SharesOf
        <3> DEFINE A == Occurs(q, c) + Occurs(FullBufQueue', c) + Occurs(out', c)
                   B == A + InMi(c)' + Is(c, thread'.b)
                   A1 == Occurs(EmptyBufQueue', c) + Occurs(FullBufQueue', c) + Occurs(out', c)
                   B1 == A1 + InMi(c)' + Is(c, thread'.b)
                   d == Is(c, f)
        <3>2. B + Is(c, back') + Is(c, b) = Owners(c) /\ Owners(c)' = B1 + Is(c, back')
            BY <2>2
        <3>3. A1 = A + d /\ A \in Nat /\ d \in 0..1 /\ InMi(c)' \in 0..1 /\ Is(c, thread'.b) \in 0..1
            BY <2>1, <2>3, <3>1
        <3> HIDE DEF A, A1
        <3>4. B1 = B + d /\ B \in Nat
            BY <3>3
        <3>5. d \in 0..1 /\ Is(c, back') \in 0..1
            BY <2>3, <3>1
        <3> HIDE DEF B, B1
        <3>6. Owners(c)' + Is(c, b) = Owners(c) + d
            BY <3>1, <3>2, <3>4, <3>5
        <3> QED
            BY <3>6
    <2> QED
        BY <2>2, <2>3, <2>4, SharesOf, OwnersTyped
<1> QED
    BY <1>1, <1>3, FreeStep DEF f

LEMMA ThreadMoves ==
    ASSUME IInv, TypeOK', ThreadStep, PromptCallbacks, MaxLocks + 1 < CounterMod
    PROVE  FreeCountExact(pool)' /\ Locks' /\ Alone'
<1> USE DEF queues, clients
<1>0. /\ TypeOK /\ FreeCountExact(pool) /\ pool \in Pools
      /\ EmptyBufQueue \in Seq(Buffers) /\ FullBufQueue \in Seq(Buffers) /\ out \in Seq(Buffers)
    BY DEF IInv, TypeOK
<1>1. CASE Shutdown \/ Start \/ Stop
    <2>1. /\ UNCHANGED <<EmptyBufQueue, FullBufQueue, PathQueue, pool, mi, irq, engine, clients>>
          /\ thread = Idle
          /\ engine = "stopping" => events' = events
        <3>1. CASE Shutdown
            BY <3>1, CommandPhase DEF Shutdown
        <3>2. CASE Start
            BY <3>2, CommandPhase DEF Start, Starting
        <3>3. CASE Stop
            BY <3>3, CommandPhase DEF Stop
        <3> QED
            BY <1>1, <3>1, <3>2, <3>3
    <2>2. thread'.b = thread.b
        BY <1>1, <2>1 DEF Shutdown, Start, Stop, Idle, At
    <2>3. MiHolds' = MiHolds /\ (Live' <=> Live)
        BY <2>1 DEF MiHolds, Live
    <2> QED
        BY <2>1, <2>2, <2>3, StillStep DEF Idle
<1>2. CASE Fetched
    <2>1. thread = At("fetch", NoBuffer) /\ Starting
        BY <1>2, ThreadPhase DEF Fetched
    <2>2. thread'.b = thread.b
        BY <1>2, <2>1 DEF Fetched, Idle, At
    <2>3. MiHolds' = MiHolds /\ (Live' <=> Live)
        BY <1>2, <2>1 DEF Fetched, Starting, MiHolds, Live
    <2> QED
        BY <1>2, <2>1, <2>2, <2>3, StillStep DEF Fetched, At
<1>3. CASE Fetch
    <2> DEFINE f == FirstFree(pool)
    <2>1. /\ CanGet(pool) /\ pool' = PoolGet(pool) /\ AddEmpty(EmptyBufQueue, f)
          /\ UNCHANGED <<FullBufQueue, mi, thread, irq, engine, events, out, held, back>>
          /\ Starting
        BY <1>3, ThreadPhase DEF Fetch
    <2>2. /\ FreeCountExact(pool') /\ f \in Buffers /\ pool.lockCount[f] = 0
          /\ \A c \in Buffers : /\ pool'.lockCount[c] = pool.lockCount[c] + Is(c, f)
                                /\ pool.pOwner[c] \/ c = f => pool'.pOwner[c]
        BY <1>0, <2>1, Gets
    <2> HIDE DEF f
    <2>3. Live /\ Live' /\ Owned(pool)
        BY <2>1, AtWorkLive DEF Starting, Live, IInv, Locks
    <2>4. \A c \in Buffers : Owners(c)' = Owners(c) + Is(c, f)
        <3> TAKE c \in Buffers
        <3>1. Occurs(EmptyBufQueue', c) = Occurs(EmptyBufQueue, c) + Is(c, f)
            BY <1>0, <2>1, <2>2, Adds
        <3>2. InMi(c)' = InMi(c)
            BY <2>1 DEF InMi, MiHolds
        <3>sums. Sums(c)
            BY <1>0, Adding
        <3> QED
            BY <2>1, <3>1, <3>2, <3>sums, SharesOf DEF Sums
    <2>5. \A c \in Buffers : /\ pool.lockCount[c] = Owners(c) + held[c] /\ Owners(c) <= 1
                             /\ Owners(c) = 1 /\ held[c] > 0 => thread = At("unlock", c)
                             /\ Owners(c) \in Nat /\ held[c] \in Nat
        BY <1>0, <2>3, OwnersTyped DEF IInv, Locks, Alone
    <2>6. Owned(pool')
        <3> SUFFICES ASSUME NEW c \in Buffers, pool'.lockCount[c] # 0 PROVE pool'.pOwner[c]
            BY DEF Owned
        <3>1. CASE c = f
            BY <2>2, <3>1
        <3>2. CASE c # f
            BY <2>2, <2>3, <2>5, <3>2, SharesOf DEF Owned
        <3> QED
            BY <3>1, <3>2
    <2>7. Locks'
        <3>1. ASSUME NEW c \in Buffers
              PROVE  pool'.lockCount[c] + Owners(c) + held[c]
                         = pool.lockCount[c] + Owners(c)' + held'[c]
            <4>1. /\ pool'.lockCount[c] = pool.lockCount[c] + Is(c, f)
                  /\ Owners(c)' = Owners(c) + Is(c, f) /\ held'[c] = held[c]
                  /\ Is(c, f) \in 0..1
                BY <2>1, <2>2, <2>4, SharesOf
            <4>2. /\ Owners(c) \in Nat /\ Owners(c)' \in Nat /\ held[c] \in Nat
                  /\ held'[c] \in Nat /\ pool.lockCount[c] \in Nat /\ pool'.lockCount[c] \in Nat
                BY <1>0, Adding DEF Sums
            <4> QED
                BY <4>1, <4>2
        <3> QED
            BY <2>3, <2>6, <3>1, MoveStep
    <2>8. Alone'
        <3> SUFFICES ASSUME NEW c \in Buffers
                     PROVE  /\ Owners(c)' <= 1
                            /\ Owners(c)' = 1 /\ held'[c] > 0 => thread' = At("unlock", c)
            BY DEF Alone, At
        <3>1. /\ Owners(c) \in Nat /\ held[c] \in Nat /\ Owners(c) <= 1
              /\ pool.lockCount[c] = Owners(c) + held[c]
              /\ Owners(c) = 1 /\ held[c] > 0 => thread = At("unlock", c)
              /\ Owners(c)' = Owners(c) + Is(c, f) /\ held' = held /\ thread' = thread
            <4>1. Owners(c)' = Owners(c) + Is(c, f)
                BY <2>4
            <4> QED
                BY <2>1, <2>5, <4>1
        <3>2. CASE c = f
            <4>1. Owners(c) = 0 /\ held[c] = 0
                BY <2>2, <3>1, <3>2
            <4> QED
                BY <3>1, <4>1, SharesOf
        <3>3. CASE c # f
            <4>1. Is(c, f) = 0
                BY <3>3 DEF Is
            <4> QED
                BY <3>1, <4>1
        <3> QED
            BY <3>2, <3>3
    <2> QED
        BY <2>2, <2>7, <2>8 DEF FreeCountExact, FreeSet
<1>4. CASE ProcFullBuffer
    <2>1. /\ AtWork /\ thread = Idle
          /\ UNCHANGED <<State, EmptyBufQueue, mi, irq, engine, events, out, held, back>>
        BY <1>4, CommandPhase DEF ProcFullBuffer
    <2>2. MiHolds' = MiHolds /\ (Live' <=> Live)
        BY <2>1 DEF MiHolds, Live
    <2>3. CASE FullBufQueue = <<>> \/ ~ Running
        BY <1>4, <2>1, <2>2, <2>3, StillStep DEF ProcFullBuffer
    <2>4. CASE FullBufQueue # <<>> /\ Running
        <3> DEFINE h == Head(FullBufQueue)
        <3>1. /\ FullBufQueue' = Tail(FullBufQueue) /\ thread'.b = h
              /\ pool' = [pool EXCEPT !.isFull[h] = TRUE]
            BY <1>4, <2>4 DEF ProcFullBuffer, At
        <3>2. /\ pool'.lockCount = pool.lockCount /\ pool'.pOwner = pool.pOwner
              /\ pool'.freeBufNum = pool.freeBufNum
            BY <1>0, <3>1 DEF Pools
        <3>3. h \in Buffers /\ \A c : Occurs(Tail(FullBufQueue), c) + Is(c, h) = Occurs(FullBufQueue, c)
            BY <1>0, <2>4, HeadPlaced
        <3> HIDE DEF h
        <3>4. \A c \in Buffers : Owners(c)' = Owners(c)
            <4> TAKE c \in Buffers
            <4>1. InMi(c)' = InMi(c)
                BY <2>2 DEF InMi
            <4>2. Is(c, thread.b) = 0 /\ Is(c, thread'.b) = Is(c, h)
                BY <2>1, <3>1, PoolAssumption DEF Is, Idle, At, NoBuffer, Buffers
            <4>3. Occurs(FullBufQueue', c) + Is(c, h) = Occurs(FullBufQueue, c)
                BY <3>1, <3>3
            <4>sums. Sums(c)
                BY <1>0, Adding
            <4> QED
                BY <2>1, <4>1, <4>2, <4>3, <4>sums DEF Sums
        <3>5. FreeCountExact(pool)'
            BY <1>0, <3>2 DEF FreeCountExact, FreeSet
        <3> QED
            BY <2>1, <2>2, <3>2, <3>4, <3>5, HandedOn DEF Idle
    <2> QED
        BY <2>3, <2>4
<1>5. CASE Queue
    <2>1. /\ AtWork /\ PathQueue /\ thread.b \in Buffers /\ thread.at = "queue"
          /\ out' = Append(out, thread.b) /\ thread' = Idle
          /\ UNCHANGED <<State, EmptyBufQueue, FullBufQueue, pool, mi, irq, engine, events,
                         held, back>>
        BY <1>5, ThreadPhase DEF Queue, Handles
    <2>2. Live /\ (Live' <=> Live)
        BY <2>1, AtWorkLive DEF Live
    <2>3. \A c \in Buffers : Owners(c)' = Owners(c)
        <3> TAKE c \in Buffers
        <3>1. InMi(c)' = InMi(c)
            BY <2>1 DEF InMi, MiHolds
        <3>2. Is(c, thread'.b) = 0
            BY <2>1, PoolAssumption DEF Is, Idle, NoBuffer, Buffers
        <3>3. Occurs(out', c) = Occurs(out, c) + Is(c, thread.b)
            BY <1>0, <2>1, OccursAppend DEF Is
        <3>sums. Sums(c)
            BY <1>0, Adding
        <3> QED
            BY <2>1, <3>1, <3>2, <3>3, <3>sums DEF Sums
    <2>4. FreeCountExact(pool)'
        BY <1>0, <2>1 DEF FreeCountExact, FreeSet
    <2> QED
        BY <2>1, <2>2, <2>3, <2>4, HandedOn
<1>6. CASE Callback
    <2> DEFINE b == thread.b
    <2>1. /\ AtWork /\ b \in Buffers /\ thread.at = "callback"
          /\ thread' = At("unlock", b)
          /\ UNCHANGED <<State, EmptyBufQueue, FullBufQueue, mi, irq, engine, events, out, back>>
        BY <1>6, ThreadPhase DEF Callback
    <2>2. Live /\ Live'
        BY <2>1, AtWorkLive DEF Live
    <2>3. thread # At("unlock", b)
        BY <2>1 DEF At
    <2>4. /\ Owners(b) = 1 /\ pool.pOwner[b] /\ held[b] = 0 /\ pool.lockCount[b] = 1
        BY <2>1, <2>3, Placed
    <2>5. PICK n \in 0..MaxLocks :
              /\ pool' = [pool EXCEPT !.lockCount[b] = (pool.lockCount[b] + n) % CounterMod]
              /\ held' = [held EXCEPT ![b] = held[b] + n]
        BY <1>6 DEF Callback
    <2>6. (pool.lockCount[b] + n) % CounterMod = 1 + n /\ n \in Nat
        BY <2>4, PoolAssumption, MomCtrlAssumption
    <2>7. pool.lockCount \in [Buffers -> 0..(CounterMod - 1)] /\ held \in [Buffers -> Nat]
        BY <1>0 DEF TypeOK, Pools
    <2>8. /\ pool'.lockCount = [pool.lockCount EXCEPT ![b] = 1 + n]
          /\ pool'.pOwner = pool.pOwner /\ pool'.freeBufNum = pool.freeBufNum
        BY <1>0, <2>1, <2>5, <2>6 DEF Pools
    <2>9. FreeCountExact(pool)'
        <3>1. FreeSet(pool') = FreeSet(pool)
            BY <2>1, <2>4, <2>6, <2>7, <2>8 DEF FreeSet
        <3> QED
            BY <1>0, <2>8, <3>1 DEF FreeCountExact, FreeSet
    <2>10. \A c \in Buffers : Owners(c)' = Owners(c)
        <3> TAKE c \in Buffers
        <3>1. InMi(c)' = InMi(c) /\ thread'.b = thread.b
            BY <2>1 DEF InMi, MiHolds, At
        <3> QED
            BY <2>1, <3>1, OwnersSplit
    <2>11. \A c \in Buffers : c # b => held'[c] = held[c] /\ pool'.lockCount[c] = pool.lockCount[c]
        BY <2>1, <2>5, <2>7, <2>8
    <2>12. held'[b] = n /\ pool'.lockCount[b] = 1 + n
        BY <2>1, <2>4, <2>5, <2>6, <2>7, <2>8
    <2> HIDE DEF b
    <2>13. Locks'
        <3>1. ASSUME NEW c \in Buffers
              PROVE  pool'.lockCount[c] + Owners(c) + held[c]
                         = pool.lockCount[c] + Owners(c)' + held'[c]
            <4>1. CASE c = b
                <5>1. Sums(c)
                    BY <1>0, Adding
                <5> QED
                    BY <2>4, <2>6, <2>10, <2>12, <4>1, <5>1 DEF Sums
            <4>2. CASE c # b
                <5>1. Sums(c)
                    BY <1>0, Adding
                <5> QED
                    BY <2>10, <2>11, <4>2, <5>1 DEF Sums
            <4> QED
                BY <4>1, <4>2
        <3>2. Owned(pool')
            BY <2>2, <2>4, <2>8, <2>11 DEF Owned, IInv, Locks
        <3> QED
            BY <2>2, <3>1, <3>2, MoveStep
    <2>14. Alone'
        <3>1. ASSUME NEW c \in Buffers
              PROVE  /\ Owners(c)' <= 1
                     /\ Owners(c)' = 1 /\ held'[c] > 0 => thread' = At("unlock", c)
            <4>1. Owners(c) <= 1 /\ (Owners(c) = 1 /\ held[c] > 0 => thread = At("unlock", c))
                BY DEF IInv, Alone
            <4>2. thread # At("unlock", c)
                BY <2>1 DEF At
            <4> QED
                BY <2>1, <2>10, <2>11, <4>1, <4>2
        <3> QED
            BY <3>1 DEF Alone, At
    <2> QED
        BY <2>9, <2>13, <2>14
<1>7. CASE Unlock
    <2> DEFINE b == thread.b
    <2>1. /\ AtWork /\ b \in Buffers /\ thread.at = "unlock" /\ thread' = Idle
          /\ UNCHANGED <<State, FullBufQueue, mi, irq, engine, events, out, held, back>>
        BY <1>7, ThreadPhase DEF Unlock
    <2>2. Live /\ Live'
        BY <2>1, AtWorkLive DEF Live
    <2>3. Owners(b) = 1 /\ pool.pOwner[b] /\ pool.lockCount[b] = 1 + held[b]
        BY <2>1, Placed
    <2>4. \A c \in Buffers : /\ InMi(c)' = InMi(c)
                             /\ Is(c, thread'.b) = 0 /\ Is(c, thread.b) = Is(c, b)
        BY <2>1, PoolAssumption DEF InMi, MiHolds, Is, Idle, NoBuffer, Buffers
    <2> HIDE DEF b
    <2>5. CASE LastLock(b)
        <3>1. FreeBuffer(b, EmptyBufQueue) /\ pool.lockCount[b] = 1
            BY <1>7, <2>5 DEF Unlock, LastLock, b
        <3>2. ASSUME NEW c \in Buffers
              PROVE  Occurs(EmptyBufQueue, c) + Occurs(FullBufQueue', c) + Occurs(out', c)
                     + InMi(c)' + Is(c, thread'.b) + Is(c, back') + Is(c, b) = Owners(c)
            <4>1. Sums(c)
                BY <1>0, Adding
            <4> QED
                BY <2>1, <2>4, <4>1 DEF Sums
        <3> QED
            BY <1>0, <2>1, <2>2, <3>1, <3>2, FreesMove DEF b
    <2>6. CASE ~ LastLock(b)
        <3>1. pool' = BufUnlock(pool, b) /\ EmptyBufQueue' = EmptyBufQueue
            BY <1>7, <2>6 DEF Unlock, b
        <3>2. pool.lockCount[b] > 1
            <4>1. Sums(b)
                BY <1>0, <2>1, Adding DEF b
            <4> QED
                BY <2>1, <2>3, <2>6, <4>1 DEF Sums, LastLock
        <3>3. /\ FreeCountExact(pool')
              /\ \A c \in Buffers : /\ pool'.lockCount[c] + Is(c, b) = pool.lockCount[c]
                                    /\ pool'.pOwner[c] = pool.pOwner[c]
            BY <1>0, <2>1, <2>3, <3>1, <3>2, Unlocks
        <3>4. ASSUME NEW c \in Buffers PROVE Owners(c)' + Is(c, b) = Owners(c)
            <4>1. Sums(c)
                BY <1>0, Adding
            <4> QED
                BY <2>1, <2>4, <3>1, <4>1 DEF Sums
        <3>5. Owned(pool')
            <4> SUFFICES ASSUME NEW c \in Buffers, pool'.lockCount[c] # 0 PROVE pool'.pOwner[c]
                BY DEF Owned
            <4>1. pool.lockCount[c] # 0
                <5>1. Sums(c)
                    BY <1>0, Adding
                <5> QED
                    BY <3>3, SharesOf, <5>1 DEF Sums
            <4> QED
                BY <2>2, <3>3, <4>1 DEF IInv, Locks, Owned
        <3>6. Locks'
            <4>1. ASSUME NEW c \in Buffers
                  PROVE  pool'.lockCount[c] + Owners(c) + held[c]
                             = pool.lockCount[c] + Owners(c)' + held'[c]
                <5>1. Sums(c)
                    BY <1>0, Adding
                <5> QED
                    BY <2>1, <3>3, <3>4, SharesOf, <5>1 DEF Sums
            <4> QED
                BY <2>2, <3>5, <4>1, MoveStep
        <3>7. Alone'
            <4>1. ASSUME NEW c \in Buffers
                  PROVE  /\ Owners(c)' <= 1
                         /\ Owners(c)' = 1 /\ held'[c] > 0 => thread' = At("unlock", c)
                <5>1. /\ Owners(c)' + Is(c, b) = Owners(c) /\ held' = held
                      /\ Owners(c) \in Nat /\ Owners(c)' \in Nat /\ Owners(c) <= 1
                      /\ Owners(c) = 1 /\ held[c] > 0 => thread = At("unlock", c)
                    <6>1. Sums(c)
                        BY <1>0, Adding
                    <6> QED
                        BY <2>1, <3>4, <6>1 DEF Sums, IInv, Alone
                <5>2. thread = At("unlock", c) => Is(c, b) = 1
                    BY DEF At, b, Is
                <5> QED
                    BY <5>1, <5>2, SharesOf
            <4> QED
                BY <4>1 DEF Alone, At
        <3> QED
            BY <3>3, <3>6, <3>7 DEF FreeCountExact, FreeSet
    <2> QED
        BY <2>5, <2>6
<1>8. CASE Drain
    <2> DEFINE b == Head(EmptyBufQueue)
               q == Tail(EmptyBufQueue)
    <2>1. /\ Stopping /\ State = "stopped" /\ events = {} /\ FullBufQueue = <<>>
        BY <1>8, ThreadPhase DEF Drain
    <2>2. /\ EmptyBufQueue # <<>> /\ FreeBuffer(b, q)
          /\ UNCHANGED <<State, FullBufQueue, thread, mi, irq, engine, events, out, held, back>>
        BY <1>8, <2>1 DEF Drain
    <2>3. Live /\ Live'
        BY <2>1, <2>2 DEF Live, Stopping
    <2>4. /\ b \in Buffers /\ q \in Seq(Buffers) /\ Occurs(EmptyBufQueue, b) > 0
          /\ \A c : Occurs(q, c) + Is(c, b) = Occurs(EmptyBufQueue, c)
        BY <1>0, <2>2, HeadPlaced
    <2> HIDE DEF b, q
    <2>5. pool.lockCount[b] = 1
        BY <2>4, Placed
    <2>6. ASSUME NEW c \in Buffers
          PROVE  Occurs(q, c) + Occurs(FullBufQueue', c) + Occurs(out', c)
                 + InMi(c)' + Is(c, thread'.b) + Is(c, back') + Is(c, b) = Owners(c)
        <3>1. InMi(c)' = InMi(c)
            BY <2>2 DEF InMi, MiHolds
        <3>2. /\ Occurs(q, c) \in Nat /\ Occurs(q, c) + Is(c, b) = Occurs(EmptyBufQueue, c)
              /\ Is(c, b) \in 0..1
            BY <2>4, OccursCounts, SharesOf
        <3>3. FullBufQueue' = FullBufQueue /\ out' = out /\ thread' = thread /\ back' = back
            BY <2>2
        <3>sums. Sums(c)
            BY <1>0, Adding
        <3> QED
            BY <3>1, <3>2, <3>3, <3>sums DEF Sums
    <2> QED
        BY <2>2, <2>3, <2>4, <2>5, <2>6, FreesMove
<1>9. CASE Drained
    <2>1. /\ Stopping /\ thread = At("drain", NoBuffer) /\ State = "stopped" /\ events = {}
        BY <1>9, ThreadPhase DEF Drained
    <2>2. /\ pool' = PoolReset(pool) /\ thread' = Idle /\ events' = {"stop"}
          /\ EmptyBufQueue = <<>> /\ FullBufQueue = <<>> /\ back = NoBuffer
          /\ UNCHANGED <<State, EmptyBufQueue, FullBufQueue, mi, irq, engine, out, held, back>>
        BY <1>9, <2>1 DEF Drained
    <2>3. /\ engine' = "stopping" /\ mi' = NoBuffers
        BY <2>1, <2>2 DEF Stopping
    <2>4. ~ Live'
        BY <2>2, <2>3 DEF Live
    <2>5. /\ FreeCountExact(pool')
          /\ \A c \in Buffers : pool'.lockCount[c] = 0 /\ ~ pool'.pOwner[c]
        BY <1>0, <2>2, NewPoolCounts DEF PoolReset, NewPool
    <2>6. ASSUME NEW c \in Buffers
          PROVE  /\ Owners(c)' = InQueue(out, c)' /\ Owners(c)' = Owners(c)
        <3>1. InMi(c)' = 0 /\ InMi(c) = 0
            BY <2>1, <2>2, PoolAssumption DEF InMi, MiHolds, Stopping, NoBuffers, NoBuffer, Buffers
        <3>2. Is(c, thread'.b) = 0 /\ Is(c, thread.b) = 0 /\ Is(c, back') = 0 /\ Is(c, back) = 0
            BY <2>1, <2>2, PoolAssumption DEF Is, Idle, At, NoBuffer, Buffers
        <3>3. Occurs(<<>>, c) = 0
            BY OccursEmpty
        <3>4. InQueue(out, c)' = Occurs(out', c)
            BY OwnersSplit
        <3>sums. Sums(c)
            BY <1>0, Adding
        <3> QED
            BY <2>2, <3>1, <3>2, <3>3, <3>4, <3>sums DEF Sums
    <2>7. Locks'
        BY <2>4, <2>5, <2>6 DEF Locks
    <2>8. Alone'
        <3>1. \A c \in Buffers : thread # At("unlock", c)
            BY <2>1 DEF At
        <3> QED
            BY <2>2, <2>6, <3>1 DEF IInv, Alone
    <2> QED
        BY <2>5, <2>7, <2>8 DEF FreeCountExact, FreeSet
<1> QED
    BY <1>1, <1>2, <1>3, <1>4, <1>5, <1>6, <1>7, <1>8, <1>9 DEF ThreadStep

\* What the path has, while the interrupt may come and while the engine sets up
LEMMA MiPhase ==
    ASSUME IInv
    PROVE  /\ irq # "idle" => Streaming /\ engine \in {"streaming", "disconnect"}
           /\ engine \in {"streaming", "disconnect", "flush", "stopMom"} => Streaming
           /\ engine \in {"streaming", "disconnect", "flush"} =>
                  mi.pShdBuffer \in Buffers /\ mi.pBuffer \in Buffers
           /\ engine \in {"setup", "setupNext"} => SettingUp
           /\ engine = "starting" => Starting
           /\ engine = "stopping" => Stopping
           /\ engine = "off" => Off
           /\ engine = "shutdown" => Ending
<1>1. mi.pShdBuffer \in Buffers \union {NoBuffer} /\ mi.pBuffer \in Buffers \union {NoBuffer}
    BY DEF IInv, TypeOK, MiPaths
<1>2. Phase
    BY DEF IInv
<1> QED
    BY <1>1, <1>2 DEF Phase, Off, Ending, Starting, SettingUp, Streaming, Stopping, Rest

LEMMA IrqMoves ==
    ASSUME IInv, TypeOK', IrqStep
    PROVE  FreeCountExact(pool)' /\ Locks' /\ Alone'
<1> USE DEF queues, clients
<1>0. /\ TypeOK /\ TypeOK' /\ EmptyBufQueue \in Seq(Buffers) /\ FullBufQueue \in Seq(Buffers)
    BY DEF IInv, TypeOK
<1>1. CASE FrameSkipped
    <2>1. MiHolds' = MiHolds /\ (Live' <=> Live)
        BY <1>1 DEF FrameSkipped, MiHolds, Reuse, Live
    <2> QED
        BY <1>1, <2>1, StillStep DEF FrameSkipped
<1>2. CASE FrameFull
    <2> DEFINE b == mi.pShdBuffer
    <2>1. /\ irq = "idle" /\ engine = "streaming" /\ HasFull(mi) /\ irq' = "send"
          /\ FullBufQueue' = Append(FullBufQueue, b)
          /\ UNCHANGED <<State, EmptyBufQueue, pool, mi, thread, engine, events, out, held, back>>
          /\ b \in Buffers /\ mi.pBuffer \in Buffers
        BY <1>2, MiPhase DEF FrameFull, Streaming
    <2>2. Live /\ (Live' <=> Live)
        BY <2>1 DEF Live
    <2>3. \A c \in Buffers : InMi(c) = InMi(c)' + Is(c, b)
        BY <2>1, PoolAssumption DEF InMi, MiHolds, Is, HasFull, NoBuffer, Buffers
    <2> HIDE DEF b
    <2>4. ASSUME NEW c \in Buffers PROVE Owners(c)' = Owners(c)
        <3>1. Occurs(FullBufQueue', c) = Occurs(FullBufQueue, c) + Is(c, b)
            BY <1>0, <2>1, OccursAppend DEF Is
        <3>2. InMi(c) = InMi(c)' + Is(c, b) /\ Is(c, b) \in 0..1
            BY <2>3, SharesOf
        <3>3. EmptyBufQueue' = EmptyBufQueue /\ out' = out /\ thread' = thread /\ back' = back
            BY <2>1
        <3>4. Sums(c)
            BY <1>0, Adding
        <3> QED
            BY <3>1, <3>2, <3>3, <3>4 DEF Sums
    <2>5. FreeCountExact(pool)'
        BY <2>1 DEF IInv, FreeCountExact, FreeSet
    <2> QED
        BY <2>1, <2>2, <2>4, <2>5, HandedOn
<1>3. CASE FrameDropped
    <2>1. MiHolds' = MiHolds /\ (Live' <=> Live)
        BY <1>3 DEF FrameDropped, MiHolds, HasFull, Live
    <2> QED
        BY <1>3, <2>1, StillStep DEF FrameDropped
<1>4. CASE Send
    <2>1. MiHolds' = MiHolds /\ (Live' <=> Live)
        BY <1>4 DEF Send, MiHolds, Live
    <2> QED
        BY <1>4, <2>1, StillStep DEF Send
<1>5. CASE Request
    <2>1. /\ irq = "request" /\ irq' = "idle" /\ engine \in {"streaming", "disconnect"} /\ Running
          /\ UNCHANGED <<State, FullBufQueue, pool, thread, engine, events, out, held, back>>
          /\ mi.pBuffer \in Buffers
        BY <1>5, MiPhase DEF Request, Streaming
    <2>2. Live /\ (Live' <=> Live)
        BY <2>1 DEF Live
    <2>3. CASE EmptyBufQueue = <<>>
        <3>1. mi' = Starve(mi) /\ UNCHANGED EmptyBufQueue
            BY <1>5, <2>1, <2>3 DEF Request
        <3>2. mi'.pBuffer = mi.pBuffer /\ mi'.pShdBuffer = mi.pBuffer
            BY <3>1, <1>0 DEF Starve, TypeOK, MiPaths
        <3>3. MiHolds' = MiHolds
            BY <2>1, <3>2 DEF MiHolds
        <3> QED
            BY <2>1, <2>2, <3>1, <3>3, StillStep
    <2>4. CASE EmptyBufQueue # <<>>
        <3> DEFINE b == Head(EmptyBufQueue)
        <3>1. mi' = Renew(mi, b) /\ EmptyBufQueue' = Tail(EmptyBufQueue)
            BY <1>5, <2>1, <2>4 DEF Request
        <3>2. /\ b \in Buffers /\ Occurs(EmptyBufQueue, b) > 0
              /\ \A c : Occurs(EmptyBufQueue', c) + Is(c, b) = Occurs(EmptyBufQueue, c)
            BY <1>0, <2>4, <3>1, HeadPlaced
        <3> HIDE DEF b
        <3>3. InMi(b) = 0
            <4>1. Owners(b) = 1
                BY <3>2, Placed
            <4>2. Sums(b)
                BY <1>0, <3>2, Adding
            <4> QED
                BY <3>2, <4>1, <4>2 DEF Sums
        <3>4. b # mi.pBuffer /\ MiHolds = {mi.pBuffer} /\ MiHolds' = {mi.pBuffer, b}
            <4>1. MiHolds = {mi.pBuffer}
                BY <2>1, PoolAssumption DEF MiHolds, NoBuffer, Buffers
            <4>2. MiHolds' = {mi.pBuffer, b}
                BY <2>1, <3>1, <3>2, PoolAssumption DEF MiHolds, NoBuffer, Buffers, Renew
            <4> QED
                BY <3>3, <4>1, <4>2 DEF InMi
        <3>5. ASSUME NEW c \in Buffers PROVE Owners(c)' = Owners(c)
            <4>1. InMi(c)' = InMi(c) + Is(c, b) /\ Is(c, b) \in 0..1
                BY <3>4 DEF InMi, Is
            <4>2. FullBufQueue' = FullBufQueue /\ out' = out /\ thread' = thread /\ back' = back
                BY <2>1
            <4>3. Sums(c)
                BY <1>0, Adding
            <4>4. Occurs(EmptyBufQueue', c) + Is(c, b) = Occurs(EmptyBufQueue, c)
                BY <3>2
            <4> QED
                BY <4>1, <4>2, <4>3, <4>4 DEF Sums
        <3>6. FreeCountExact(pool)'
            BY <2>1 DEF IInv, FreeCountExact, FreeSet
        <3> QED
            BY <2>1, <2>2, <3>5, <3>6, HandedOn
    <2> QED
        BY <2>3, <2>4
<1> QED
    BY <1>1, <1>2, <1>3, <1>4, <1>5 DEF IrqStep

LEMMA HeadIsBuffer ==
    ASSUME NEW s \in Seq(Buffers), s # <<>>
    PROVE  Head(s) \in Buffers /\ Head(s) # NoBuffer
<1>1. Head(s) \in Buffers
    OBVIOUS
<1>2. \A b \in Buffers : b # NoBuffer
    BY PoolAssumption DEF NoBuffer, Buffers
<1> QED
    BY <1>1, <1>2

\* The path is given the head of EmptyBufQueue.
LEMMA HeadToPath ==
    ASSUME IInv, TypeOK', EmptyBufQueue # <<>>, EmptyBufQueue' = Tail(EmptyBufQueue),
           MiHolds' = MiHolds \union {Head(EmptyBufQueue)},
           UNCHANGED <<FullBufQueue, pool, thread, out, held, back>>, Live' <=> Live
    PROVE  FreeCountExact(pool)' /\ Locks' /\ Alone'
<1> DEFINE b == Head(EmptyBufQueue)
<1>0. TypeOK /\ TypeOK' /\ EmptyBufQueue \in Seq(Buffers)
    BY DEF IInv, TypeOK
<1>1. /\ b \in Buffers /\ Occurs(EmptyBufQueue, b) > 0
      /\ \A c : Occurs(EmptyBufQueue', c) + Is(c, b) = Occurs(EmptyBufQueue, c)
    BY <1>0, HeadPlaced
<1>2. MiHolds' = MiHolds \union {b}
    OBVIOUS
<1> HIDE DEF b
<1>3. b \notin MiHolds
    <2>1. Owners(b) = 1
        BY <1>1, Placed
    <2>2. Sums(b)
        BY <1>0, <1>1, Adding
    <2>3. InMi(b) = 0
        BY <1>1, <2>1, <2>2 DEF Sums
    <2> QED
        BY <2>3 DEF InMi
<1>4. ASSUME NEW c \in Buffers PROVE Owners(c)' = Owners(c)
    <2>1. InMi(c)' = InMi(c) + Is(c, b) /\ Is(c, b) \in 0..1
        BY <1>2, <1>3 DEF InMi, Is
    <2>2. Sums(c)
        BY <1>0, Adding
    <2>3. Occurs(EmptyBufQueue', c) + Is(c, b) = Occurs(EmptyBufQueue, c)
        BY <1>1
    <2> QED
        <3> DEFINE A == Occurs(EmptyBufQueue, c) + Occurs(FullBufQueue, c) + Occurs(out, c)
                   A1 == Occurs(EmptyBufQueue', c) + Occurs(FullBufQueue, c) + Occurs(out, c)
                   d == Is(c, b)
        <3>1. /\ Owners(c) = A + InMi(c) + Is(c, thread.b) + Is(c, back)
              /\ Owners(c)' = A1 + InMi(c)' + Is(c, thread.b) + Is(c, back)
            BY <2>2 DEF Sums
        <3>2. /\ Occurs(EmptyBufQueue', c) \in Nat /\ Occurs(EmptyBufQueue', c) + d = Occurs(EmptyBufQueue, c)
              /\ Occurs(FullBufQueue, c) \in Nat /\ Occurs(out, c) \in Nat
              /\ d \in 0..1 /\ InMi(c) \in 0..1 /\ InMi(c)' = InMi(c) + d
            BY <2>1, <2>2, <2>3 DEF Sums
        <3>3. A = A1 + d /\ A1 \in Nat
            BY <3>2
        <3> HIDE DEF A, A1, d
        <3>4. A1 + InMi(c)' = A + InMi(c)
            BY <3>2, <3>3
        <3> QED
            BY <3>1, <3>4
<1>5. FreeCountExact(pool)'
    BY DEF IInv, FreeCountExact, FreeSet
<1> QED
    BY <1>4, <1>5, HandedOn

LEMMA EngineMoves ==
    ASSUME IInv, TypeOK', EngineStep
    PROVE  FreeCountExact(pool)' /\ Locks' /\ Alone'
<1> USE DEF queues, clients, EngineGo
<1>0. /\ TypeOK /\ TypeOK' /\ EmptyBufQueue \in Seq(Buffers) /\ FullBufQueue \in Seq(Buffers)
    BY DEF IInv, TypeOK
<1>1. CASE MomCtrlStart
    <2>1. /\ Off /\ ClientsDone /\ engine' = "starting" /\ Live'
          /\ UNCHANGED <<EmptyBufQueue, FullBufQueue, pool, mi, thread, irq, out, held, back>>
        BY <1>1, MiPhase DEF MomCtrlStart, Live
    <2>2. ~ Live
        BY <2>1 DEF Off, Live
    <2>3. \A c \in Buffers : Owners(c)' = Owners(c)
        <3>1. \A c : InMi(c)' = InMi(c)
            BY <2>1 DEF Off, Rest, InMi, MiHolds
        <3> QED
            BY <2>1, <3>1, OwnersSplit
    <2>4. ASSUME NEW c \in Buffers
          PROVE  /\ pool'.lockCount[c] = 0 /\ Owners(c) = 0 /\ held'[c] = 0
        <3>1. Owners(c) = Occurs(out, c) /\ pool.lockCount[c] = 0
            BY <2>2, OwnersSplit DEF IInv, Locks
        <3> QED
            BY <2>1, <3>1, OccursEmpty DEF ClientsDone
    <2>5. Locks'
        <3>1. Owned(pool') /\ \A c \in Buffers : pool'.lockCount[c] = Owners(c)' + held'[c]
            BY <2>3, <2>4 DEF Owned
        <3> QED
            BY <2>1, <3>1 DEF Locks, Owned
    <2>6. Alone'
        BY <2>3, <2>4 DEF Alone
    <2> QED
        BY <2>1, <2>5, <2>6 DEF IInv, FreeCountExact, FreeSet
<1>2. CASE Started
    <2>1. MiHolds' = MiHolds /\ (Live' <=> Live)
        BY <1>2 DEF Started, MiHolds, Live
    <2> QED
        BY <1>2, <2>1, StillStep DEF Started
<1>3. CASE Stopped
    <2>1. MiHolds' = MiHolds /\ (Live' <=> Live)
        BY <1>3 DEF Stopped, MiHolds, Live
    <2> QED
        BY <1>3, <2>1, StillStep DEF Stopped
<1>4. CASE SetupShadow
    <2>1. /\ EmptyBufQueue # <<>> /\ EmptyBufQueue' = Tail(EmptyBufQueue)
          /\ mi' = [mi EXCEPT !.pShdBuffer = Head(EmptyBufQueue)]
          /\ engine = "setup" /\ engine' = "setupNext" /\ irq' = irq
          /\ UNCHANGED <<FullBufQueue, pool, thread, events, out, held, back>>
          /\ mi.pShdBuffer = NoBuffer /\ mi.pBuffer = NoBuffer /\ irq = "idle"
        BY <1>4, MiPhase DEF SetupShadow, GetsBuffer, SettingUp
    <2>2. Head(EmptyBufQueue) \in Buffers /\ Head(EmptyBufQueue) # NoBuffer
        BY <1>0, <2>1, HeadIsBuffer
    <2>3. MiHolds' = MiHolds \union {Head(EmptyBufQueue)}
        <3>1. mi'.pShdBuffer = Head(EmptyBufQueue) /\ mi'.pBuffer = NoBuffer
            BY <1>0, <2>1 DEF TypeOK, MiPaths
        <3>2. MiHolds = {NoBuffer} \ {NoBuffer} /\ MiHolds' = {mi'.pShdBuffer, mi'.pBuffer} \ {NoBuffer}
            BY <2>1 DEF MiHolds
        <3> QED
            BY <2>1, <2>2, <3>1, <3>2
    <2>4. Live' <=> Live
        BY <2>1 DEF Live
    <2> QED
        BY <2>1, <2>3, <2>4, HeadToPath
<1>5. CASE SetupNext
    <2>1. /\ EmptyBufQueue # <<>> /\ EmptyBufQueue' = Tail(EmptyBufQueue)
          /\ mi' = [mi EXCEPT !.pBuffer = Head(EmptyBufQueue)]
          /\ engine = "setupNext" /\ engine' = "streaming" /\ irq' = irq
          /\ UNCHANGED <<FullBufQueue, pool, thread, events, out, held, back>>
          /\ mi.pShdBuffer # NoBuffer /\ mi.pBuffer = NoBuffer /\ irq = "idle"
        BY <1>5, MiPhase DEF SetupNext, GetsBuffer, SettingUp
    <2>2. Head(EmptyBufQueue) \in Buffers /\ Head(EmptyBufQueue) # NoBuffer
        BY <1>0, <2>1, HeadIsBuffer
    <2>3. MiHolds' = MiHolds \union {Head(EmptyBufQueue)}
        <3>1. mi'.pBuffer = Head(EmptyBufQueue) /\ mi'.pShdBuffer = mi.pShdBuffer
            BY <1>0, <2>1 DEF TypeOK, MiPaths
        <3>2. MiHolds = {mi.pShdBuffer, NoBuffer} \ {NoBuffer} /\ MiHolds' = {mi'.pShdBuffer, mi'.pBuffer} \ {NoBuffer}
            BY <2>1 DEF MiHolds
        <3> QED
            BY <2>1, <2>2, <3>1, <3>2
    <2>4. Live' <=> Live
        BY <2>1 DEF Live
    <2> QED
        BY <2>1, <2>3, <2>4, HeadToPath
<1>6. CASE CamerIcMiStop
    <2>1. MiHolds' = MiHolds /\ (Live' <=> Live)
        BY <1>6 DEF CamerIcMiStop, MiHolds, Live
    <2> QED
        BY <1>6, <2>1, StillStep DEF CamerIcMiStop
<1>7. CASE FlushShadow
    <2> DEFINE b == mi.pShdBuffer
    <2>1. /\ engine = "disconnect" /\ engine' = "flush" /\ irq = "idle" /\ Running
          /\ UNCHANGED <<State, FullBufQueue, mi, thread, irq, events, out, held, back>>
          /\ b \in Buffers /\ mi.pBuffer \in Buffers
          /\ pool.lockCount[b] = 1
        BY <1>7, MiPhase, MiPlaced DEF FlushShadow, Streaming
    <2>2. Live /\ Live'
        BY <2>1 DEF Live
    <2>3. MiHolds = {b, mi.pBuffer} /\ MiHolds' = {mi.pBuffer}
        BY <2>1, PoolAssumption DEF MiHolds, NoBuffer, Buffers
    <2>4. CASE HasFull(mi)
        <3>1. FreeBuffer(b, EmptyBufQueue) /\ b # mi.pBuffer
            BY <1>7, <2>1, <2>4 DEF FlushShadow, HasFull
        <3> HIDE DEF b
        <3>2. ASSUME NEW c \in Buffers
              PROVE  Occurs(EmptyBufQueue, c) + Occurs(FullBufQueue', c) + Occurs(out', c)
                     + InMi(c)' + Is(c, thread'.b) + Is(c, back') + Is(c, b) = Owners(c)
            <4>1. InMi(c) = InMi(c)' + Is(c, b) /\ Is(c, b) \in 0..1
                BY <2>3, <3>1 DEF InMi, Is
            <4>2. FullBufQueue' = FullBufQueue /\ out' = out /\ thread' = thread /\ back' = back
                BY <2>1
            <4>3. Sums(c)
                BY <1>0, Adding
            <4> QED
                BY <4>1, <4>2, <4>3 DEF Sums
        <3> QED
            BY <1>0, <2>1, <2>2, <3>1, <3>2, FreesMove
    <2>5. CASE ~ HasFull(mi)
        BY <1>7, <2>1, <2>2, <2>3, <2>5, StillStep DEF FlushShadow, HasFull
    <2> QED
        BY <2>4, <2>5
<1>8. CASE FlushNext
    <2> DEFINE b == mi.pBuffer
    <2>1. /\ engine = "flush" /\ engine' = "stopMom" /\ irq = "idle" /\ Running
          /\ UNCHANGED <<State, FullBufQueue, thread, irq, events, out, held, back>>
          /\ mi' = NoBuffers /\ b \in Buffers
        BY <1>8, MiPhase DEF FlushNext, Streaming
    <2>2. Live /\ Live' /\ pool.lockCount[b] = 1
        BY <2>1, MiPlaced DEF Live
    <2>3. MiHolds = {b} /\ MiHolds' = {}
        BY <2>1, PoolAssumption DEF MiHolds, NoBuffers, NoBuffer, Buffers
    <2>4. FreeBuffer(b, EmptyBufQueue)
        BY <1>8, <2>1 DEF FlushNext
    <2> HIDE DEF b
    <2>5. ASSUME NEW c \in Buffers
          PROVE  Occurs(EmptyBufQueue, c) + Occurs(FullBufQueue', c) + Occurs(out', c)
                 + InMi(c)' + Is(c, thread'.b) + Is(c, back') + Is(c, b) = Owners(c)
        <3>1. InMi(c) = InMi(c)' + Is(c, b) /\ Is(c, b) \in 0..1
            BY <2>3 DEF InMi, Is
        <3>2. FullBufQueue' = FullBufQueue /\ out' = out /\ thread' = thread /\ back' = back
            BY <2>1
        <3>3. Sums(c)
            BY <1>0, Adding
        <3> QED
            BY <3>1, <3>2, <3>3 DEF Sums
    <2> QED
        BY <1>0, <2>1, <2>2, <2>4, <2>5, FreesMove
<1>9. CASE MomCtrlStop
    <2>1. MiHolds' = MiHolds /\ (Live' <=> Live)
        BY <1>9, MiPhase DEF MomCtrlStop, MiHolds, Live, Streaming
    <2> QED
        BY <1>9, <2>1, StillStep DEF MomCtrlStop
<1>10. CASE MomCtrlShutDown
    <2>1. MiHolds' = MiHolds /\ (Live' <=> Live)
        BY <1>10 DEF MomCtrlShutDown, MiHolds, Live
    <2> QED
        BY <1>10, <2>1, StillStep DEF MomCtrlShutDown
<1>11. CASE MomCtrlInit
    <2>1. MiHolds' = MiHolds /\ (Live' <=> Live)
        BY <1>11 DEF MomCtrlInit, MiHolds, Live
    <2>2. EmptyBufQueue' = EmptyBufQueue /\ FullBufQueue' = FullBufQueue
        BY <1>11, MiPhase DEF MomCtrlInit, Ending, Rest
    <2> QED
        BY <1>11, <2>1, <2>2, StillStep DEF MomCtrlInit
<1> QED
    BY <1>1, <1>2, <1>3, <1>4, <1>5, <1>6, <1>7, <1>8, <1>9, <1>10, <1>11 DEF EngineStep

LEMMA ClientMoves ==
    ASSUME IInv, TypeOK', ClientStep
    PROVE  FreeCountExact(pool)' /\ Locks' /\ Alone'
<1> USE DEF queues, clients
<1>0. /\ TypeOK /\ TypeOK' /\ pool \in Pools /\ FreeCountExact(pool)
      /\ EmptyBufQueue \in Seq(Buffers) /\ out \in Seq(Buffers) /\ held \in [Buffers -> Nat]
    BY DEF IInv, TypeOK
<1>1. CASE TakeOut
    <2> DEFINE b == Head(out)
    <2>1. /\ out # <<>> /\ held' = [held EXCEPT ![b] = held[b] + 1] /\ out' = Tail(out)
          /\ UNCHANGED <<EmptyBufQueue, FullBufQueue, pool, mi, thread, irq, engine, events, back>>
        BY <1>1 DEF TakeOut
    <2>2. /\ b \in Buffers /\ Occurs(out, b) > 0
          /\ \A c : Occurs(out', c) + Is(c, b) = Occurs(out, c)
        BY <1>0, <2>1, HeadPlaced
    <2> HIDE DEF b
    <2>3. Live' <=> Live
        BY <2>1 DEF Live
    <2>4. ASSUME NEW c \in Buffers
          PROVE  /\ Owners(c)' + Is(c, b) = Owners(c) /\ held'[c] = held[c] + Is(c, b)
                 /\ Owners(c) = Occurs(out, c) => Owners(c)' = Occurs(out', c)
        <3>1. Occurs(out', c) + Is(c, b) = Occurs(out, c) /\ Is(c, b) \in 0..1
            BY <2>2, SharesOf
        <3>2. InMi(c)' = InMi(c)
            BY <2>1 DEF InMi, MiHolds
        <3>3. Sums(c)
            BY <1>0, Adding
        <3>4. /\ EmptyBufQueue' = EmptyBufQueue /\ FullBufQueue' = FullBufQueue
              /\ thread' = thread /\ back' = back
            BY <2>1
        <3>5. held'[c] = held[c] + Is(c, b)
            BY <1>0, <2>1, <2>2 DEF Is
        <3> QED
            BY <3>1, <3>2, <3>3, <3>4, <3>5 DEF Sums
    <2>5. Locks'
        <3>1. CASE Live
            <4>1. ASSUME NEW c \in Buffers
                  PROVE  pool'.lockCount[c] + Owners(c) + held[c]
                             = pool.lockCount[c] + Owners(c)' + held'[c]
                <5>1. Owners(c)' + Is(c, b) = Owners(c) /\ held'[c] = held[c] + Is(c, b)
                    BY <2>4
                <5>2. pool' = pool /\ Is(c, b) \in 0..1
                    BY <2>1, SharesOf
                <5>3. /\ Owners(c) \in Nat /\ Owners(c)' \in Nat /\ held[c] \in Nat
                      /\ held'[c] \in Nat /\ pool.lockCount[c] \in Nat
                    BY <1>0, Adding DEF Sums
                <5> QED
                    BY <5>1, <5>2, <5>3
            <4>2. Owned(pool')
                BY <2>1, <3>1 DEF IInv, Locks, Owned
            <4> QED
                BY <2>3, <3>1, <4>1, <4>2, MoveStep
        <3>2. CASE ~ Live
            <4>1. ASSUME NEW c \in Buffers
                  PROVE  /\ pool'.lockCount[c] = 0 /\ ~ pool'.pOwner[c]
                         /\ Owners(c)' = InQueue(out, c)'
                <5>1. pool.lockCount[c] = 0 /\ ~ pool.pOwner[c] /\ Owners(c) = InQueue(out, c)
                    BY <3>2 DEF IInv, Locks
                <5>2. InQueue(out, c) = Occurs(out, c) /\ InQueue(out, c)' = Occurs(out', c)
                    BY OwnersSplit
                <5> QED
                    BY <2>1, <2>4, <5>1, <5>2
            <4> QED
                BY <2>3, <3>2, <4>1 DEF Locks
        <3> QED
            BY <3>1, <3>2
    <2>6. Alone'
        <3>1. ASSUME NEW c \in Buffers
              PROVE  /\ Owners(c)' <= 1
                     /\ Owners(c)' = 1 /\ held'[c] > 0 => thread' = At("unlock", c)
            <4>1. Owners(c)' + Is(c, b) = Owners(c) /\ held'[c] = held[c] + Is(c, b)
                BY <2>4
            <4>2. /\ Owners(c) <= 1 /\ thread' = thread
                  /\ Owners(c) = 1 /\ held[c] > 0 => thread = At("unlock", c)
                BY <2>1 DEF IInv, Alone
            <4>3. Owners(c) \in Nat /\ Owners(c)' \in Nat /\ held[c] \in Nat /\ Is(c, b) \in 0..1
                BY <1>0, Adding, SharesOf DEF Sums
            <4> QED
                BY <4>1, <4>2, <4>3
        <3> QED
            BY <3>1 DEF Alone, At
    <2> QED
        BY <2>1, <2>5, <2>6 DEF IInv, FreeCountExact, FreeSet
<1>2. CASE ClientPutBack
    <2>1. /\ back \in Buffers /\ back' = NoBuffer /\ AddEmpty(EmptyBufQueue, back)
          /\ UNCHANGED <<FullBufQueue, pool, mi, thread, irq, engine, events, out, held>>
        BY <1>2 DEF ClientPutBack, IInv, TypeOK
    <2>2. Live' <=> Live
        BY <2>1 DEF Live
    <2>3. ASSUME NEW c \in Buffers PROVE Owners(c)' = Owners(c)
        <3>1. Occurs(EmptyBufQueue', c) = Occurs(EmptyBufQueue, c) + Is(c, back)
            BY <1>0, <2>1, Adds
        <3>2. InMi(c)' = InMi(c)
            BY <2>1 DEF InMi, MiHolds
        <3>3. Is(c, back') = 0
            BY <2>1, PoolAssumption DEF Is, NoBuffer, Buffers
        <3>4. FullBufQueue' = FullBufQueue /\ thread' = thread /\ out' = out
            BY <2>1
        <3>5. Sums(c)
            BY <1>0, Adding
        <3> QED
            BY <3>1, <3>2, <3>3, <3>4, <3>5 DEF Sums
    <2>4. FreeCountExact(pool)'
        BY <2>1 DEF IInv, FreeCountExact, FreeSet
    <2> QED
        BY <2>1, <2>2, <2>3, <2>4, HandedOn
<1>3. ASSUME NEW b \in Buffers, ClientUnlock(b)
      PROVE  FreeCountExact(pool)' /\ Locks' /\ Alone'
    <2>1. /\ back = NoBuffer /\ held[b] > 0 /\ held' = [held EXCEPT ![b] = held[b] - 1]
          /\ UNCHANGED <<EmptyBufQueue, FullBufQueue, mi, thread, irq, engine, events, out>>
        BY <1>3 DEF ClientUnlock
    <2>2. (Live' <=> Live) /\ \A c : InMi(c)' = InMi(c)
        BY <2>1 DEF Live, InMi, MiHolds
    <2>3. ASSUME NEW c \in Buffers PROVE held'[c] + Is(c, b) = held[c] /\ held'[c] <= held[c]
        BY <1>0, <2>1 DEF Is
    <2>4. CASE LastLock(b)
        <3> DEFINE f == PutBack(PoolFree(pool, b))
        <3>1. /\ pool.lockCount[b] = 1 /\ pool.pOwner[b]
              /\ pool' = Refilled(PoolFree(pool, b)) /\ back' = f
            BY <1>3, <2>4 DEF ClientUnlock, LastLock
        <3>2. Live /\ Live'
            BY <2>2, <3>1 DEF IInv, Locks
        <3>3. f \in Buffers \union {NoBuffer}
            BY <1>0, <3>1, FreesAndGets
        <3> HIDE DEF f
        <3>4. ASSUME NEW c \in Buffers
              PROVE  /\ Owners(c)' + held'[c] + Is(c, b) = Owners(c) + held[c] + Is(c, f)
                     /\ Owners(c)' <= Owners(c) + Is(c, f) /\ held'[c] <= held[c]
            <4>1. /\ held'[c] + Is(c, b) = held[c] /\ held'[c] <= held[c]
                  /\ Is(c, b) \in 0..1 /\ Is(c, f) \in 0..1
                BY <2>3, SharesOf
            <4>2. Is(c, back') = Is(c, f) /\ Is(c, back) = 0
                BY <2>1, <3>1, PoolAssumption DEF Is, NoBuffer, Buffers
            <4>3. /\ FullBufQueue' = FullBufQueue /\ thread' = thread /\ out' = out
                  /\ EmptyBufQueue' = EmptyBufQueue /\ InMi(c)' = InMi(c)
                BY <2>1, <2>2
            <4>4. Sums(c)
                BY <1>0, Adding
            <4>5. Owners(c)' = Owners(c) + Is(c, f)
                BY <4>1, <4>2, <4>3, <4>4 DEF Sums
            <4>6. Owners(c) \in Nat /\ Owners(c)' \in Nat /\ held[c] \in Nat /\ held'[c] \in Nat
                BY <4>4 DEF Sums
            <4> QED
                BY <4>1, <4>5, <4>6
        <3> QED
            BY <2>1, <3>1, <3>2, <3>4, FreeStep DEF f
    <2>5. CASE ~ LastLock(b)
        <3>1. pool' = BufUnlock(pool, b) /\ back' = back
            BY <1>3, <2>5 DEF ClientUnlock
        <3>2. ASSUME NEW c \in Buffers PROVE Owners(c)' = Owners(c)
            <4>1. \A d : InMi(d)' = InMi(d)
                BY <2>2
            <4> QED
                BY <2>1, <3>1, <4>1, OwnersSplit
        <3>3. Alone'
            <4>1. ASSUME NEW c \in Buffers
                  PROVE  /\ Owners(c)' <= 1
                         /\ Owners(c)' = 1 /\ held'[c] > 0 => thread' = At("unlock", c)
                <5>1. /\ Owners(c)' = Owners(c) /\ held'[c] <= held[c] /\ thread' = thread
                      /\ Owners(c) <= 1
                      /\ Owners(c) = 1 /\ held[c] > 0 => thread = At("unlock", c)
                      /\ held'[c] \in Nat /\ held[c] \in Nat
                    BY <1>0, <2>1, <2>3, <3>2, OwnersTyped DEF IInv, Alone
                <5> QED
                    BY <5>1
            <4> QED
                BY <4>1 DEF Alone, At
        <3>4. CASE Live
            <4>1. Owned(pool) /\ pool.lockCount[b] = Owners(b) + held[b]
                BY <3>4 DEF IInv, Locks
            <4>2. Owners(b) \in Nat /\ pool.lockCount[b] \in Nat /\ held[b] \in Nat
                BY <1>0, OwnersTyped
            <4>3. pool.lockCount[b] > 1 /\ pool.pOwner[b]
                BY <2>1, <2>5, <4>1, <4>2 DEF Owned, LastLock
            <4>4. /\ FreeCountExact(pool')
                  /\ \A c \in Buffers : /\ pool'.lockCount[c] + Is(c, b) = pool.lockCount[c]
                                        /\ pool'.pOwner[c] = pool.pOwner[c]
                BY <1>0, <3>1, <4>3, Unlocks
            <4>5. ASSUME NEW c \in Buffers
                  PROVE  /\ pool'.lockCount[c] + Owners(c) + held[c]
                                = pool.lockCount[c] + Owners(c)' + held'[c]
                         /\ pool'.lockCount[c] # 0 => pool.lockCount[c] # 0
                <5>1. /\ Owners(c)' = Owners(c) /\ held'[c] + Is(c, b) = held[c]
                      /\ pool'.lockCount[c] + Is(c, b) = pool.lockCount[c] /\ Is(c, b) \in 0..1
                    BY <2>3, <3>2, <4>4, SharesOf
                <5>2. /\ Owners(c) \in Nat /\ held[c] \in Nat /\ held'[c] \in Nat
                      /\ pool.lockCount[c] \in Nat /\ pool'.lockCount[c] \in Nat
                    BY <1>0, OwnersTyped
                <5> QED
                    BY <5>1, <5>2
            <4>6. Owned(pool')
                BY <4>1, <4>4, <4>5 DEF Owned
            <4>7. Locks'
                BY <2>2, <3>4, <4>5, <4>6, MoveStep
            <4> QED
                BY <3>3, <4>4, <4>7 DEF FreeCountExact, FreeSet
        <3>5. CASE ~ Live
            <4>1. pool' = pool
                BY <3>1, <3>5 DEF IInv, Locks, BufUnlock
            <4>2. ASSUME NEW c \in Buffers
                  PROVE  /\ pool'.lockCount[c] = 0 /\ ~ pool'.pOwner[c]
                         /\ Owners(c)' = InQueue(out, c)'
                <5>1. pool.lockCount[c] = 0 /\ ~ pool.pOwner[c] /\ Owners(c) = InQueue(out, c)
                    BY <3>5 DEF IInv, Locks
                <5>2. InQueue(out, c)' = InQueue(out, c)
                    BY <2>1, OwnersSplit
                <5> QED
                    BY <3>2, <4>1, <5>1, <5>2
            <4>3. Locks'
                BY <2>2, <3>5, <4>2 DEF Locks
            <4> QED
                BY <3>3, <4>1, <4>3 DEF IInv, FreeCountExact, FreeSet
        <3> QED
            BY <3>4, <3>5
    <2> QED
        BY <2>4, <2>5
<1> QED
    BY <1>1, <1>2, <1>3 DEF ClientStep
-----------------------------------------------------------------------------
(* One step, and the place of the engine                                     *)

LEMMA Sent ==
    ASSUME TypeOK, State # "invalid", NEW c \in {"start", "stop", "full", "shutdown"},
           MomCtrlSendCommand(c)
    PROVE  /\ CommandQueue' = Append(CommandQueue, c)
           /\ Occurs(CommandQueue', "full") = Occurs(CommandQueue, "full") + Is(c, "full")
           /\ OnlyFull /\ c = "full" => OnlyFull'
           /\ OnlyFull /\ c = "stop" => StopLast'
<1> DEFINE S == {"start", "stop", "full", "shutdown"}
           q == CommandQueue
           r == CommandQueue'
<1>1. q \in Seq(S) /\ c \in S /\ r = Append(q, c)
    BY DEF TypeOK, MomCtrlSendCommand
<1> HIDE DEF S, q, r
<1>2. /\ r \in Seq(S) /\ Len(r) = Len(q) + 1 /\ DOMAIN r = 1..(Len(q) + 1)
      /\ \A i \in DOMAIN q : i \in 1..Len(q) /\ r[i] = q[i]
      /\ r[Len(q) + 1] = c
      /\ Len(q) \in Nat /\ DOMAIN q = 1..Len(q)
    BY <1>1, Appended
<1>3. Occurs(r, "full") = Occurs(q, "full") + Is(c, "full")
    BY <1>1, OccursAppend DEF Is
<1>4. (\A i \in DOMAIN q : q[i] = "full") /\ c = "full" => \A i \in DOMAIN r : r[i] = "full"
    BY <1>2
<1>5. (\A i \in DOMAIN q : q[i] = "full") /\ c = "stop"
          => /\ r # <<>> /\ r[Len(r)] = "stop"
             /\ \A i \in 1..(Len(r) - 1) : r[i] = "full"
    <2>1. r # <<>>
        BY <1>2
    <2> QED
        BY <1>2, <2>1
<1> QED
    BY <1>1, <1>3, <1>4, <1>5 DEF OnlyFull, StopLast, q, r

LEMMA Received ==
    ASSUME TypeOK, NEW c, Command(c)
    PROVE  /\ CommandQueue' = Tail(CommandQueue)
           /\ Occurs(CommandQueue', "full") + Is(c, "full") = Occurs(CommandQueue, "full")
           /\ OnlyFull => OnlyFull'
           /\ StopLast /\ c = "full" => StopLast'
<1> DEFINE S == {"start", "stop", "full", "shutdown"}
           q == CommandQueue
           r == CommandQueue'
<1>1. q \in Seq(S) /\ q # <<>> /\ c = Head(q) /\ r = Tail(q)
    BY DEF TypeOK, Command
<1> HIDE DEF S, q, r
<1>2. /\ c = q[1] /\ r \in Seq(S)
      /\ Len(q) \in Nat \ {0} /\ Len(r) = Len(q) - 1
      /\ DOMAIN q = 1..Len(q) /\ DOMAIN r = 1..(Len(q) - 1)
      /\ \A i \in DOMAIN r : i + 1 \in DOMAIN q /\ r[i] = q[i + 1]
    BY <1>1, Taken
<1>3. Occurs(r, "full") + Is(c, "full") = Occurs(q, "full")
    <2>1. Occurs(r, "full") \in Nat
        BY <1>2, OccursCounts
    <2> QED
        BY <1>1, <2>1, OccursTail DEF Is
<1>4. (\A i \in DOMAIN q : q[i] = "full") => \A i \in DOMAIN r : r[i] = "full"
    BY <1>2
<1>5. ASSUME q[Len(q)] = "stop", \A i \in 1..(Len(q) - 1) : q[i] = "full", c = "full"
      PROVE  /\ r # <<>> /\ r[Len(r)] = "stop"
             /\ \A i \in 1..(Len(r) - 1) : r[i] = "full"
    <2>1. Len(q) > 1
        <3>1. Len(q) # 1
            BY <1>2, <1>5, "stop" # "full"
        <3> QED
            BY <1>2, <3>1
    <2>2. Len(r) \in Nat \ {0} /\ Len(r) \in DOMAIN r /\ Len(r) + 1 = Len(q)
        BY <1>2, <2>1
    <2>3. r # <<>>
        BY <2>2
    <2>4. r[Len(r)] = "stop"
        BY <1>2, <1>5, <2>2
    <2>5. \A i \in 1..(Len(r) - 1) : i \in DOMAIN r /\ i + 1 \in 1..(Len(q) - 1)
        BY <1>2, <2>2
    <2> QED
        BY <1>2, <1>5, <2>3, <2>4, <2>5
<1> QED
    BY <1>1, <1>3, <1>4, <1>5 DEF OnlyFull, StopLast, q, r

\* The thread goes on with full buffers.
LEMMA Working ==
    ASSUME IInv, AtWork, Handles', OnlyFull => OnlyFull', StopLast => StopLast',
           UNCHANGED <<State, mi, irq, engine, events>>
    PROVE  Phase'
<1>1. CASE Streaming
    BY <1>1 DEF Streaming, Phase, Running
<1>2. CASE Stopping /\ Running
    BY <1>2 DEF Stopping, Phase, Running
<1> QED
    BY <1>1, <1>2 DEF AtWork

LEMMA ThreadPhases ==
    ASSUME IInv, TypeOK', ThreadStep, PromptCallbacks
    PROVE  Phase'
<1> USE DEF queues, clients
<1>0. /\ TypeOK /\ FullBufQueue \in Seq(Buffers)
      /\ thread \in [at : Places, b : Buffers \union {NoBuffer}]
      /\ CommandQueue \in Seq({"start", "stop", "full", "shutdown"})
    BY DEF IInv, TypeOK
<1>1. CASE Shutdown
    <2>1. Ending /\ State \in Halted /\ CommandQueue = <<"shutdown">> /\ thread = Idle
        BY <1>1, CommandPhase DEF Shutdown
    <2>2. CommandQueue' = <<>> /\ State' = "invalid"
        BY <1>1, <2>1 DEF Shutdown, Command, Halted
    <2> QED
        BY <1>1, <2>1, <2>2 DEF Shutdown, Phase, Ending, Rest
<1>2. CASE Start
    <2>1. Starting /\ State \in Halted /\ CommandQueue = <<"start">> /\ thread = Idle
        BY <1>2, CommandPhase DEF Start
    <2>2. CommandQueue' = <<>> /\ thread' = At("fetch", NoBuffer) /\ events' = events
        BY <1>2, <2>1 DEF Start, Command, Halted
    <2>3. events = {}
        BY <2>1 DEF Starting
    <2> QED
        BY <1>2, <2>1, <2>2, <2>3 DEF Start, Phase, Starting, ClientsDone
<1>3. CASE Fetch
    <2>1. Starting /\ State \in Halted /\ CommandQueue = <<>> /\ events = {}
          /\ thread = At("fetch", NoBuffer)
        BY <1>3, ThreadPhase DEF Fetch
    <2> QED
        BY <1>3, <2>1 DEF Fetch, Phase, Starting, ClientsDone
<1>4. CASE Fetched
    <2>1. Starting /\ State \in Halted /\ CommandQueue = <<>> /\ events = {}
        BY <1>4, ThreadPhase DEF Fetched
    <2>2. AllOut'
        <3>1. CASE RingBuffer
            BY <3>1 DEF AllOut
        <3>2. CASE ~ RingBuffer
            <4>1. pool.freeBufNum = 0 /\ pool' = pool
                BY <1>4, <3>2 DEF Fetched, CanGet
            <4>2. Cardinality(FreeSet(pool)) = 0 /\ IsFiniteSet(FreeSet(pool))
                BY <4>1, BufferSets DEF IInv, FreeCountExact, FreeSet
            <4> QED
                BY <4>1, <4>2, FS_EmptySet DEF AllOut, FreeSet
        <3> QED
            BY <3>1, <3>2
    <2>3. events' = {"start"} /\ Running' /\ thread' = Idle
        BY <1>4, <2>1 DEF Fetched, Running
    <2> QED
        BY <1>4, <2>1, <2>2, <2>3 DEF Fetched, Phase, Starting, ClientsDone
<1>5. CASE ProcFullBuffer
    <2>1. AtWork /\ thread = Idle /\ UNCHANGED <<State, mi, irq, engine, events>>
        BY <1>5, CommandPhase DEF ProcFullBuffer
    <2>2. (OnlyFull => OnlyFull') /\ (StopLast => StopLast')
        BY <1>0, <1>5, Received DEF ProcFullBuffer
    <2>3. Handles'
        <3>1. CASE ~ Running \/ FullBufQueue = <<>>
            BY <1>5, <2>1, <3>1, PoolAssumption DEF ProcFullBuffer, Handles, Idle
        <3>2. CASE ~ (~ Running \/ FullBufQueue = <<>>)
            <4>1. Head(FullBufQueue) \in Buffers /\ Head(FullBufQueue) # NoBuffer
                BY <1>0, <3>2, Taken, PoolAssumption DEF NoBuffer, Buffers
            <4>2. /\ thread' = At(IF PathQueue THEN "queue" ELSE "callback", Head(FullBufQueue))
                  /\ PathQueue' = PathQueue
                BY <1>5, <3>2 DEF ProcFullBuffer
            <4> QED
                BY <4>1, <4>2 DEF Handles, At
        <3> QED
            BY <3>1, <3>2
    <2> QED
        BY <2>1, <2>2, <2>3, Working
<1>6. CASE Queue
    <2>1. AtWork /\ UNCHANGED <<State, mi, irq, engine, events, CommandQueue>> /\ thread' = Idle
        BY <1>6, ThreadPhase DEF Queue
    <2>2. Handles'
        BY <2>1 DEF Handles, Idle
    <2> QED
        BY <2>1, <2>2, Working DEF OnlyFull, StopLast
<1>7. CASE Callback
    <2>1. /\ AtWork /\ UNCHANGED <<State, mi, irq, engine, events, CommandQueue>>
          /\ thread' = At("unlock", thread.b) /\ thread.b \in Buffers
        BY <1>7, ThreadPhase DEF Callback
    <2>2. Handles'
        BY <2>1, PoolAssumption DEF Handles, At, NoBuffer, Buffers
    <2> QED
        BY <2>1, <2>2, Working DEF OnlyFull, StopLast
<1>8. CASE Unlock
    <2>1. AtWork /\ UNCHANGED <<State, mi, irq, engine, events, CommandQueue>> /\ thread' = Idle
        BY <1>8, ThreadPhase DEF Unlock
    <2>2. Handles'
        BY <2>1 DEF Handles, Idle
    <2> QED
        BY <2>1, <2>2, Working DEF OnlyFull, StopLast
<1>9. CASE Stop
    <2>1. Stopping /\ Running /\ CommandQueue = <<"stop">> /\ thread = Idle
        BY <1>9, CommandPhase DEF Stop
    <2>2. /\ CommandQueue' = <<>> /\ State' = "stopped" /\ thread' = At("drain", NoBuffer)
          /\ events = {} /\ UNCHANGED <<FullBufQueue, events, irq, mi, engine>>
        BY <1>9, <2>1 DEF Stop, Command, Stopping, Running
    <2>3. FullBufQueue = <<>>
        <3>1. Occurs(<<"stop">>, "full") = 0
            <4>1. {i \in DOMAIN <<"stop">> : <<"stop">>[i] = "full"} = {}
                OBVIOUS
            <4> QED
                BY <4>1, FS_EmptySet DEF Occurs
        <3>2. Len(FullBufQueue) = 0
            BY <2>1, <3>1 DEF IInv, FullBuffersAnnounced, InQueue, Occurs, One, Stopping
        <3> QED
            BY <1>0, <3>2, Taken
    <2> QED
        BY <2>1, <2>2, <2>3 DEF Phase, Stopping
<1>10. CASE Drain
    <2>1. /\ Stopping /\ thread = At("drain", NoBuffer) /\ State = "stopped" /\ events = {}
          /\ CommandQueue = <<>> /\ FullBufQueue = <<>>
        BY <1>10, ThreadPhase DEF Drain
    <2>2. UNCHANGED <<State, CommandQueue, FullBufQueue, mi, thread, irq, engine, events>>
        BY <1>10, <2>1 DEF Drain
    <2> QED
        BY <2>1, <2>2 DEF Phase, Stopping
<1>11. CASE Drained
    <2>1. /\ Stopping /\ thread = At("drain", NoBuffer) /\ State = "stopped" /\ events = {}
          /\ CommandQueue = <<>>
        BY <1>11, ThreadPhase DEF Drained
    <2>2. /\ UNCHANGED <<State, queues, mi, irq, engine, back>>
          /\ EmptyBufQueue = <<>> /\ FullBufQueue = <<>> /\ back = NoBuffer
          /\ thread' = Idle /\ events' = {"stop"}
        BY <1>11, <2>1 DEF Drained
    <2> QED
        BY <2>1, <2>2 DEF Phase, Stopping, Rest
<1> QED
    BY <1>1, <1>2, <1>3, <1>4, <1>5, <1>6, <1>7, <1>8, <1>9, <1>10, <1>11 DEF ThreadStep

LEMMA IrqPhases ==
    ASSUME IInv, TypeOK', IrqStep
    PROVE  Phase'
<1> USE DEF queues, clients
<1>0. TypeOK /\ EmptyBufQueue \in Seq(Buffers) /\ \A b \in Buffers : b # NoBuffer
    BY PoolAssumption DEF IInv, TypeOK, NoBuffer, Buffers
<1>1. Streaming /\ Running /\ OnlyFull
    BY MiPhase DEF IrqStep, FrameSkipped, FrameFull, FrameDropped, Send, Request, Streaming
<1>2. CASE FrameSkipped
    BY <1>1, <1>2 DEF FrameSkipped, Reuse, Phase, Streaming, Handles, OnlyFull, Running
<1>3. CASE FrameFull
    BY <1>1, <1>3 DEF FrameFull, Phase, Streaming, Handles, OnlyFull, Running
<1>4. CASE FrameDropped
    BY <1>1, <1>4 DEF FrameDropped, Phase, Streaming, Handles, OnlyFull, Running
<1>5. CASE Send
    <2>1. OnlyFull'
        BY <1>0, <1>1, <1>5, Sent DEF Send, Running
    <2>2. engine \in {"streaming", "disconnect"}
        BY <1>5, MiPhase DEF Send
    <2> QED
        BY <1>1, <1>5, <2>1, <2>2 DEF Send, Phase, Streaming, Handles, Running
<1>6. CASE Request
    <2>1. EmptyBufQueue # <<>> => Head(EmptyBufQueue) # NoBuffer
        BY <1>0, Taken
    <2>2. engine \in {"streaming", "disconnect"} /\ mi.pBuffer \in Buffers
        BY <1>6, MiPhase DEF Request
    <2>3. mi'.pShdBuffer # NoBuffer /\ mi'.pBuffer # NoBuffer
        BY <1>0, <1>1, <1>6, <2>1, <2>2 DEF Request, Renew, Starve, TypeOK, MiPaths
    <2> QED
        BY <1>1, <1>6, <2>2, <2>3 DEF Request, Phase, Streaming, Handles, OnlyFull, Running
<1> QED
    BY <1>2, <1>3, <1>4, <1>5, <1>6 DEF IrqStep

LEMMA EnginePhases ==
    ASSUME IInv, TypeOK', EngineStep
    PROVE  Phase'
<1> USE DEF queues, clients, EngineGo
<1>0. TypeOK /\ EmptyBufQueue \in Seq(Buffers) /\ \A b \in Buffers : b # NoBuffer
    BY PoolAssumption DEF IInv, TypeOK, NoBuffer, Buffers
<1>1. CASE MomCtrlStart
    <2>1. Off /\ ClientsDone
        BY <1>1, MiPhase DEF MomCtrlStart
    <2>2. CommandQueue' = <<"start">>
        BY <1>0, <1>1, <2>1, Sent DEF MomCtrlStart, Off
    <2> QED
        BY <1>1, <2>1, <2>2 DEF MomCtrlStart, Phase, Starting, Off, Rest, ClientsDone
<1>2. CASE Started
    <2>1. /\ Starting /\ Running /\ CommandQueue = <<>> /\ events = {"start"}
          /\ thread = Idle /\ AllOut
        BY <1>2, MiPhase DEF Started, Starting
    <2>2. events' = {}
        BY <1>2, <2>1 DEF Started
    <2> QED
        BY <1>2, <2>1, <2>2 DEF Started, Phase, Starting, SettingUp, ClientsDone, AllOut, Running,
                                NoBuffers
<1>3. CASE SetupShadow
    <2>1. SettingUp /\ Head(EmptyBufQueue) # NoBuffer /\ mi \in MiPaths
        BY <1>0, <1>3, MiPhase, Taken DEF SetupShadow, GetsBuffer, TypeOK
    <2>2. mi'.pShdBuffer # NoBuffer /\ mi'.pBuffer = NoBuffer
        BY <1>3, <2>1 DEF SetupShadow, SettingUp, MiPaths
    <2> QED
        BY <1>3, <2>1, <2>2 DEF SetupShadow, Phase, SettingUp, ClientsDone, AllOut, Running
<1>4. CASE SetupNext
    <2>1. SettingUp /\ Head(EmptyBufQueue) # NoBuffer /\ mi \in MiPaths
        BY <1>0, <1>4, MiPhase, Taken DEF SetupNext, GetsBuffer, TypeOK
    <2>2. mi'.pShdBuffer # NoBuffer /\ mi'.pBuffer # NoBuffer
        BY <1>4, <2>1 DEF SetupNext, SettingUp, MiPaths
    <2>3. OnlyFull' /\ Handles'
        BY <1>4, <2>1 DEF SetupNext, SettingUp, OnlyFull, Handles, Idle
    <2> QED
        BY <1>4, <2>1, <2>2, <2>3 DEF SetupNext, Phase, SettingUp, Streaming, Running
<1>5. CASE CamerIcMiStop
    BY <1>5, MiPhase DEF CamerIcMiStop, Phase, Streaming, Handles, OnlyFull, Running
<1>6. CASE FlushShadow
    BY <1>6, MiPhase DEF FlushShadow, Phase, Streaming, Handles, OnlyFull, Running
<1>7. CASE FlushNext
    BY <1>7, MiPhase DEF FlushNext, Phase, Streaming, Handles, OnlyFull, Running
<1>8. CASE MomCtrlStop
    <2>1. Streaming /\ Running /\ OnlyFull
        BY <1>8, MiPhase DEF MomCtrlStop, Streaming
    <2>2. StopLast'
        BY <1>0, <1>8, <2>1, Sent DEF MomCtrlStop, Running
    <2> QED
        BY <1>8, <2>1, <2>2 DEF MomCtrlStop, Phase, Streaming, Stopping, Handles, Running
<1>9. CASE Stopped
    <2>1. Stopping /\ State = "stopped" /\ CommandQueue = <<>> /\ events = {"stop"} /\ Rest
        BY <1>9, MiPhase DEF Stopped, Stopping
    <2> QED
        BY <1>9, <2>1 DEF Stopped, Phase, Off, Rest, Halted
<1>10. CASE MomCtrlShutDown
    <2>1. Off
        BY <1>10, MiPhase DEF MomCtrlShutDown
    <2>2. CommandQueue' = <<"shutdown">>
        BY <1>0, <1>10, <2>1, Sent DEF MomCtrlShutDown, Off
    <2> QED
        BY <1>10, <2>1, <2>2 DEF MomCtrlShutDown, Phase, Off, Ending, Rest
<1>11. CASE MomCtrlInit
    <2>1. Ending
        BY <1>11, MiPhase DEF MomCtrlInit
    <2> QED
        BY <1>11, <2>1 DEF MomCtrlInit, Phase, Off, Ending, Rest, Halted
<1> QED
    BY <1>1, <1>2, <1>3, <1>4, <1>5, <1>6, <1>7, <1>8, <1>9, <1>10, <1>11 DEF EngineStep

LEMMA ClientPhases ==
    ASSUME IInv, TypeOK', ClientStep
    PROVE  Phase'
<1> USE DEF queues, clients
<1>1. /\ UNCHANGED <<State, CommandQueue, FullBufQueue, PathQueue, mi, thread, irq, engine, events>>
      /\ ~ Starting /\ ~ SettingUp
      /\ Off \/ Ending \/ (Stopping /\ events = {"stop"}) => UNCHANGED <<EmptyBufQueue, back>>
    <2>1. CASE TakeOut
        BY <2>1 DEF TakeOut, Starting, SettingUp, ClientsDone
    <2>2. CASE ClientPutBack
        BY <2>2 DEF ClientPutBack, Starting, SettingUp, ClientsDone, Off, Ending, Stopping, Rest
    <2>3. ASSUME NEW b \in Buffers, ClientUnlock(b)
          PROVE  /\ UNCHANGED <<State, queues, PathQueue, mi, thread, irq, engine, events>>
                 /\ ~ Starting /\ ~ SettingUp
                 /\ Off \/ Ending \/ (Stopping /\ events = {"stop"}) => UNCHANGED back
        <3>1. ~ Starting /\ ~ SettingUp
            <4>1. held[b] > 0
                BY <2>3 DEF ClientUnlock
            <4> QED
                BY <4>1 DEF Starting, SettingUp, ClientsDone
        <3>2. Off \/ Ending \/ (Stopping /\ events = {"stop"}) => ~ Live
            BY DEF Off, Ending, Stopping, Live
        <3>3. ~ Live => ~ LastLock(b)
            BY DEF IInv, Locks, LastLock
        <3> QED
            BY <2>3, <3>1, <3>2, <3>3 DEF ClientUnlock
    <2> QED
        BY <2>1, <2>2, <2>3 DEF ClientStep
<1>2. CASE Off
    BY <1>1, <1>2 DEF Phase, Off, Rest
<1>3. CASE Ending
    BY <1>1, <1>3 DEF Phase, Ending, Rest
<1>4. CASE Streaming
    BY <1>1, <1>4 DEF Phase, Streaming, Handles, OnlyFull, Running
<1>5. CASE Stopping
    BY <1>1, <1>5 DEF Phase, Stopping, Handles, StopLast, Running, Rest
<1> QED
    BY <1>1, <1>2, <1>3, <1>4, <1>5 DEF IInv, Phase
-----------------------------------------------------------------------------
(* One step, and the commands                                                *)

LEMMA AnnouncedStep ==
    ASSUME IInv, TypeOK', Next
    PROVE  FullBuffersAnnounced'
<1> USE DEF queues, clients
<1> DEFINE N(q) == Occurs(q, "full")
<1>0. /\ TypeOK /\ FullBufQueue \in Seq(Buffers)
      /\ Len(FullBufQueue) = One(irq = "send") + N(CommandQueue)
      /\ N(CommandQueue) \in Nat /\ N(CommandQueue') \in Nat
      /\ Len(FullBufQueue) \in Nat
    <2>1. TypeOK /\ FullBufQueue \in Seq(Buffers) /\ Len(FullBufQueue) \in Nat
        BY DEF IInv, TypeOK
    <2>2. N(CommandQueue) \in Nat /\ N(CommandQueue') \in Nat
        BY <2>1, OccursCounts DEF TypeOK
    <2>3. Len(FullBufQueue) = One(irq = "send") + N(CommandQueue)
        BY DEF IInv, FullBuffersAnnounced, InQueue, Occurs
    <2> QED
        BY <2>1, <2>2, <2>3
<1>1. SUFFICES Len(FullBufQueue') = One(irq' = "send") + N(CommandQueue')
    BY DEF FullBuffersAnnounced, InQueue, Occurs
<1> HIDE DEF N
<1>2. CASE ThreadStep
    <2>1. CASE Shutdown \/ Start \/ Stop
        <3>1. N(CommandQueue') = N(CommandQueue)
            <4>1. PICK c \in {"shutdown", "start", "stop"} : Command(c)
                BY <2>1 DEF Shutdown, Start, Stop
            <4>2. Is(c, "full") = 0 /\ Occurs(CommandQueue', "full") + Is(c, "full") = Occurs(CommandQueue, "full")
                BY <1>0, <4>1, Received DEF Is
            <4> QED
                BY <1>0, <4>2 DEF N
        <3>2. FullBufQueue' = FullBufQueue /\ irq' = irq
            BY <2>1 DEF Shutdown, Start, Stop
        <3> QED
            BY <1>0, <3>1, <3>2
    <2>2. CASE ProcFullBuffer
        <3>1. N(CommandQueue') + 1 = N(CommandQueue)
            BY <1>0, <2>2, Received DEF ProcFullBuffer, Is, N
        <3>2. Running /\ FullBufQueue # <<>>
            <4>1. FullBufQueue # <<>>
                BY <1>0, <3>1 DEF One
            <4> QED
                BY <2>2, <4>1, CommandPhase DEF ProcFullBuffer, AtWork, Streaming
        <3>3. FullBufQueue' = Tail(FullBufQueue) /\ irq' = irq
            BY <2>2, <3>2 DEF ProcFullBuffer
        <3>4. Len(FullBufQueue') = Len(FullBufQueue) - 1
            BY <1>0, <3>2, <3>3, Taken
        <3>5. One(irq = "send") \in 0..1
            BY DEF One
        <3> QED
            BY <1>0, <3>1, <3>3, <3>4, <3>5
    <2>3. CASE Fetch \/ Fetched \/ Queue \/ Callback \/ Unlock \/ Drain \/ Drained
        <3>1. UNCHANGED <<CommandQueue, FullBufQueue, irq>>
            <4>1. CASE Drain
                BY <4>1, ThreadPhase DEF Drain
            <4> QED
                BY <2>3, <4>1 DEF Fetch, Fetched, Queue, Callback, Unlock, Drained
        <3> QED
            BY <1>0, <3>1
    <2> QED
        BY <1>2, <2>1, <2>2, <2>3 DEF ThreadStep
<1>3. CASE IrqStep
    <2>1. CASE FrameFull
        <3>1. Running /\ mi.pShdBuffer \in Buffers
            BY <2>1, MiPhase DEF FrameFull, Streaming
        <3>2. /\ FullBufQueue' = Append(FullBufQueue, mi.pShdBuffer)
              /\ irq = "idle" /\ irq' = "send" /\ CommandQueue' = CommandQueue
            BY <2>1, <3>1 DEF FrameFull
        <3>3. Len(FullBufQueue') = Len(FullBufQueue) + 1
            BY <1>0, <3>1, <3>2, Appended
        <3> QED
            BY <1>0, <3>2, <3>3 DEF One
    <2>2. CASE Send
        <3>1. State # "invalid"
            BY <2>2, MiPhase DEF Send, Streaming, Running
        <3>2. N(CommandQueue') = N(CommandQueue) + 1
            BY <1>0, <2>2, <3>1, Sent DEF Send, Is, N
        <3>3. irq = "send" /\ irq' = "request" /\ FullBufQueue' = FullBufQueue
            BY <2>2 DEF Send
        <3> QED
            BY <1>0, <3>2, <3>3 DEF One
    <2>3. CASE FrameSkipped \/ FrameDropped \/ Request
        <3>1. irq # "send" /\ irq' # "send" /\ UNCHANGED <<CommandQueue, FullBufQueue>>
            BY <2>3 DEF FrameSkipped, FrameDropped, Request
        <3> QED
            BY <1>0, <3>1 DEF One
    <2> QED
        BY <1>3, <2>1, <2>2, <2>3 DEF IrqStep
<1>4. CASE EngineStep
    <2>1. ASSUME NEW c \in {"start", "stop", "shutdown"}, MomCtrlSendCommand(c),
                 State # "invalid", UNCHANGED <<FullBufQueue, irq>>
          PROVE  Len(FullBufQueue') = One(irq' = "send") + N(CommandQueue')
        <3>1. Is(c, "full") = 0
            BY DEF Is
        <3>2. N(CommandQueue') = N(CommandQueue)
            BY <1>0, <2>1, <3>1, Sent DEF N
        <3> QED
            BY <1>0, <2>1, <3>2
    <2>2. CASE MomCtrlStart
        BY <2>1, <2>2 DEF MomCtrlStart
    <2>3. CASE MomCtrlStop
        BY <2>1, <2>3 DEF MomCtrlStop
    <2>4. CASE MomCtrlShutDown
        BY <2>1, <2>4 DEF MomCtrlShutDown
    <2>5. CASE MomCtrlInit
        <3>1. Ending
            BY <2>5, MiPhase DEF MomCtrlInit, EngineGo
        <3>2. /\ CommandQueue' = <<>> /\ FullBufQueue' = <<>> /\ irq' # "send"
            BY <2>5, <3>1 DEF MomCtrlInit, Ending, Rest
        <3>3. N(<<>>) = 0 /\ Len(FullBufQueue') = 0
            BY <3>2, OccursEmpty DEF N
        <3> QED
            BY <3>2, <3>3 DEF One
    <2>6. CASE Started \/ SetupShadow \/ SetupNext \/ CamerIcMiStop \/ FlushShadow \/ FlushNext \/ Stopped
        <3>1. UNCHANGED <<CommandQueue, FullBufQueue, irq>>
            BY <2>6 DEF Started, SetupShadow, SetupNext, CamerIcMiStop, FlushShadow, FlushNext, Stopped
        <3> QED
            BY <1>0, <3>1
    <2> QED
        BY <1>4, <2>2, <2>3, <2>4, <2>5, <2>6 DEF EngineStep
<1>5. CASE ClientStep
    <2>1. UNCHANGED <<CommandQueue, FullBufQueue, irq>>
        BY <1>5 DEF ClientStep, TakeOut, ClientPutBack, ClientUnlock
    <2> QED
        BY <1>0, <2>1
<1> QED
    BY <1>2, <1>3, <1>4, <1>5 DEF Next
-----------------------------------------------------------------------------
(* The inductive invariant                                                   *)

LEMMA InitHolds == Init => IInv
<1> SUFFICES ASSUME Init PROVE IInv
    OBVIOUS
<1>0. /\ State = "initialize" /\ CommandQueue = <<>> /\ EmptyBufQueue = <<>> /\ FullBufQueue = <<>>
      /\ PathQueue \in BOOLEAN /\ pool = NewPool /\ mi = NoBuffers /\ thread = Idle
      /\ irq = "idle" /\ engine = "off" /\ events = {} /\ out = <<>>
      /\ held = [b \in Buffers |-> 0] /\ back = NoBuffer
    BY DEF Init
<1>1. pool \in Pools /\ FreeCountExact(pool)
    BY <1>0, NewPoolCounts
<1>2. TypeOK
    <2>1. <<>> \in Seq(Buffers) /\ <<>> \in Seq({"start", "stop", "full", "shutdown"})
        OBVIOUS
    <2>2. NoBuffers \in MiPaths /\ Idle \in [at : Places, b : Buffers \union {NoBuffer}]
        BY DEF NoBuffers, MiPaths, Idle, Places
    <2> QED
        BY <1>0, <1>1, <2>1, <2>2 DEF TypeOK
<1>3. Phase
    BY <1>0 DEF Phase, Off, Rest, Halted
<1>4. ~ Live
    BY <1>0 DEF Live
<1>5. ASSUME NEW b \in Buffers
      PROVE  /\ pool.lockCount[b] = 0 /\ ~ pool.pOwner[b] /\ Owners(b) = 0
             /\ InQueue(out, b) = 0
    <2>1. pool.lockCount[b] = 0 /\ ~ pool.pOwner[b]
        BY <1>0 DEF NewPool
    <2>2. InMi(b) = 0 /\ Is(b, thread.b) = 0 /\ Is(b, back) = 0
        BY <1>0, PoolAssumption DEF InMi, MiHolds, Is, Idle, NoBuffers, NoBuffer, Buffers
    <2> QED
        BY <1>0, <2>1, <2>2, OwnersSplit, OccursEmpty
<1>6. FullBuffersAnnounced
    <2>1. InQueue(<<>>, "full") = 0
        BY OccursEmpty DEF InQueue, Occurs
    <2> QED
        BY <1>0, <2>1 DEF FullBuffersAnnounced, One
<1> QED
    BY <1>1, <1>2, <1>3, <1>4, <1>5, <1>6 DEF IInv, Locks, Alone

LEMMA StepHolds ==
    ASSUME PromptCallbacks, MaxLocks + 1 < CounterMod, IInv, [Next]_vars
    PROVE  IInv'
<1>1. CASE UNCHANGED vars
    <2>1. /\ \A b : InMi(b)' = InMi(b)
          /\ UNCHANGED <<EmptyBufQueue, FullBufQueue, out, thread, back, pool, held>>
        BY <1>1 DEF InMi, MiHolds, vars, queues, clients
    <2>2. MiHolds' = MiHolds /\ (Live' <=> Live)
        BY <1>1 DEF MiHolds, Live, vars, queues, clients
    <2>3. FreeCountExact(pool)' /\ Locks' /\ Alone'
        BY <2>1, <2>2, StillStep
    <2>4. Phase'
        BY <1>1 DEF IInv, Phase, Off, Ending, Starting, SettingUp, Streaming, Stopping, Rest,
                    Handles, OnlyFull, StopLast, ClientsDone, AllOut, Running, vars, queues, clients
    <2>5. FullBuffersAnnounced'
        BY <1>1 DEF IInv, FullBuffersAnnounced, InQueue, vars, queues
    <2> QED
        BY <2>3, <2>4, <2>5, TypeStep DEF IInv
<1>2. CASE Next
    <2>1. TypeOK'
        BY TypeStep
    <2>2. FreeCountExact(pool)' /\ Locks' /\ Alone' /\ Phase'
        BY <1>2, <2>1, ThreadMoves, IrqMoves, EngineMoves, ClientMoves,
           ThreadPhases, IrqPhases, EnginePhases, ClientPhases DEF Next
    <2>3. FullBuffersAnnounced'
        BY <1>2, <2>1, AnnouncedStep
    <2> QED
        BY <2>1, <2>2, <2>3 DEF IInv
<1> QED
    BY <1>1, <1>2

LEMMA Inductive ==
    ASSUME PromptCallbacks, MaxLocks + 1 < CounterMod
    PROVE  SafeSpec => []IInv
<1>1. IInv /\ [Next]_vars => IInv'
    BY StepHolds
<1> QED
    BY <1>1, InitHolds, PTL DEF SafeSpec

(* "Counting how many times buffer is used. 0 means buffer belongs to pool    *)
(* and is free" (media_buffer.h:59), over any number of streams: the lock     *)
(* count of a buffer that is out is the number of those who have it.          *)
THEOREM CountsAreUses ==
    ASSUME PromptCallbacks, MaxLocks + 1 < CounterMod
    PROVE  SafeSpec => []LockCountsUsers
<1>1. IInv => LockCountsUsers
    <2> SUFFICES ASSUME IInv, NEW b \in Buffers
                 PROVE  IF pool.pOwner[b] THEN pool.lockCount[b] = Owners(b) + held[b]
                        ELSE pool.lockCount[b] = 0 /\ Owners(b) = InQueue(out, b)
        BY DEF LockCountsUsers
    <2>1. CASE Live
        <3>1. /\ pool.lockCount[b] = Owners(b) + held[b]
              /\ pool.lockCount[b] # 0 => pool.pOwner[b]
            BY <2>1 DEF IInv, Locks, Owned
        <3>2. /\ Owners(b) = Occurs(EmptyBufQueue, b) + Occurs(FullBufQueue, b) + Occurs(out, b)
                              + InMi(b) + Is(b, thread.b) + Is(b, back)
              /\ InQueue(out, b) = Occurs(out, b)
            BY OwnersSplit
        <3>3. /\ Occurs(EmptyBufQueue, b) \in Nat /\ Occurs(FullBufQueue, b) \in Nat
              /\ Occurs(out, b) \in Nat /\ held[b] \in Nat
              /\ InMi(b) \in 0..1 /\ Is(b, thread.b) \in 0..1 /\ Is(b, back) \in 0..1
            BY PlacesTyped DEF IInv
        <3>4. pool.lockCount[b] = 0 => Owners(b) = InQueue(out, b)
            BY <3>1, <3>2, <3>3
        <3> QED
            BY <3>1, <3>4
    <2>2. CASE ~ Live
        BY <2>2 DEF IInv, Locks
    <2> QED
        BY <2>1, <2>2
<1> QED
    BY <1>1, Inductive, PTL

(* No buffer is in two places, and nobody has a lock on one that the memory   *)
(* interface writes or is about to write (MomCtrlCamerIcDrvRequestCb,         *)
(* mom_ctrl_cb.c).                                                            *)
THEOREM HardwareAlone ==
    ASSUME PromptCallbacks, MaxLocks + 1 < CounterMod
    PROVE  SafeSpec => []HardwareExclusive
<1>1. IInv => HardwareExclusive
    <2> SUFFICES ASSUME IInv, NEW b \in Buffers
                 PROVE  /\ Owners(b) <= 1
                        /\ b \in MiHolds \union ToSet(EmptyBufQueue) => held[b] = 0
        BY DEF HardwareExclusive
    <2>1. Owners(b) <= 1
        BY DEF IInv, Alone
    <2>2. b \in MiHolds => held[b] = 0
        BY Placed DEF InMi
    <2>3. b \in ToSet(EmptyBufQueue) => held[b] = 0
        <3>1. Occurs(EmptyBufQueue, b) \in Nat
              /\ (b \in ToSet(EmptyBufQueue) => Occurs(EmptyBufQueue, b) # 0)
            BY OccursCounts DEF IInv, TypeOK, ToSet
        <3> QED
            BY <3>1, Placed
    <2> QED
        BY <2>1, <2>2, <2>3
<1> QED
    BY <1>1, Inductive, PTL

(* Each full buffer has its command and each command its buffer, so that a    *)
(* STOP behind them loses no frame (mom_ctrl_cb.c:237-240, mom_ctrl.c:190).   *)
THEOREM FullBuffersProcessed ==
    ASSUME PromptCallbacks, MaxLocks + 1 < CounterMod
    PROVE  SafeSpec => []FullBuffersAnnounced
BY Inductive, PTL DEF IInv

(* The hardware runs only while mom_ctrl does and finds two empty buffers     *)
(* when it starts, unless the pool is a ring: only the input pool is one      *)
(* (cam_engine_subctrls.c:462).                                               *)
THEOREM HardwareFindsBuffers ==
    ASSUME PromptCallbacks, MaxLocks + 1 < CounterMod, ~ RingBuffer, BufNum > 1
    PROVE  SafeSpec => []HardwareServed
<1>1. IInv => HardwareServed
    <2> SUFFICES ASSUME IInv PROVE HardwareServed
        OBVIOUS
    <2>1. engine \in {"streaming", "disconnect", "flush", "stopMom"} => Running
        BY MiPhase DEF Streaming
    <2>2. ASSUME engine \in {"setup", "setupNext"} PROVE GetsBuffer
        <3>1. SettingUp
            BY <2>2, MiPhase
        <3>2. PICK b \in Buffers : b # mi.pShdBuffer
            <4>1. 0 \in Buffers /\ 1 \in Buffers
                BY PoolAssumption DEF Buffers
            <4> QED
                BY <4>1
        <3>3. b \notin MiHolds
            BY <3>1, <3>2, PoolAssumption DEF SettingUp, MiHolds, NoBuffer, Buffers
        <3>4. /\ FullBufQueue = <<>> /\ out = <<>> /\ held[b] = 0 /\ Running
              /\ thread.b = NoBuffer /\ back = NoBuffer /\ pool.lockCount[b] # 0
            BY <3>1 DEF SettingUp, ClientsDone, Idle, AllOut, FreeSet
        <3>5. pool.lockCount[b] = Owners(b) + held[b]
            BY <3>1, AtWorkLive DEF IInv, Locks
        <3>6. /\ Owners(b) = Occurs(EmptyBufQueue, b) + Occurs(FullBufQueue, b) + Occurs(out, b)
                              + InMi(b) + Is(b, thread.b) + Is(b, back)
            BY OwnersSplit
        <3>7. InMi(b) = 0 /\ Is(b, NoBuffer) = 0 /\ Occurs(<<>>, b) = 0
            BY <3>3, OccursEmpty, PoolAssumption DEF InMi, Is, NoBuffer, Buffers
        <3>8. Occurs(EmptyBufQueue, b) \in Nat
            BY PlacesTyped DEF IInv
        <3>9. Occurs(EmptyBufQueue, b) # 0
            BY <3>4, <3>5, <3>6, <3>7, <3>8
        <3> QED
            BY <3>4, <3>7, <3>9 DEF GetsBuffer
    <2> QED
        BY <2>1, <2>2 DEF HardwareServed
<1> QED
    BY <1>1, Inductive, PTL
-----------------------------------------------------------------------------
(* The refinement                                                            *)

\* The buffers of the pool as the clients and the hardware see it
Free == FreeSet(pool) \union ToSet(EmptyBufQueue) \union ({back} \ {NoBuffer})

LEMMA FreeIs ==
    /\ TypeOK => \A c : c \in Free <=> c \in Buffers /\ \/ pool.lockCount[c] = 0
                                                        \/ Occurs(EmptyBufQueue, c) # 0
                                                        \/ c = back
    /\ TypeOK' => \A c : c \in Free' <=> c \in Buffers /\ \/ pool'.lockCount[c] = 0
                                                          \/ Occurs(EmptyBufQueue', c) # 0
                                                          \/ c = back'
<1>1. ASSUME NEW q \in Seq(Buffers), NEW c
      PROVE  c \in ToSet(q) <=> c \in Buffers /\ Occurs(q, c) # 0
    <2>1. Occurs(q, c) # 0 <=> c \in ToSet(q)
        BY OccursCounts DEF ToSet
    <2>2. c \in ToSet(q) => c \in Buffers
        BY DEF ToSet
    <2> QED
        BY <2>1, <2>2
<1>2. ASSUME NEW p, NEW q \in Seq(Buffers), NEW k \in Buffers \union {NoBuffer}, NEW c
      PROVE  c \in FreeSet(p) \union ToSet(q) \union ({k} \ {NoBuffer})
                 <=> c \in Buffers /\ (p.lockCount[c] = 0 \/ Occurs(q, c) # 0 \/ c = k)
    <2>1. c \in {k} \ {NoBuffer} <=> c \in Buffers /\ c = k
        BY PoolAssumption DEF NoBuffer, Buffers
    <2> QED
        BY <1>1, <2>1 DEF FreeSet
<1>3. Free' = FreeSet(pool') \union ToSet(EmptyBufQueue') \union ({back'} \ {NoBuffer})
    BY DEF Free, FreeSet, ToSet
<1>4. ASSUME TypeOK, NEW c
      PROVE  c \in Free <=> c \in Buffers /\ \/ pool.lockCount[c] = 0
                                             \/ Occurs(EmptyBufQueue, c) # 0 \/ c = back
    <2>1. EmptyBufQueue \in Seq(Buffers) /\ back \in Buffers \union {NoBuffer}
        BY <1>4 DEF TypeOK
    <2> QED
        BY <1>2, <2>1 DEF Free
<1>5. ASSUME TypeOK', NEW c
      PROVE  c \in Free' <=> c \in Buffers /\ \/ pool'.lockCount[c] = 0
                                              \/ Occurs(EmptyBufQueue', c) # 0 \/ c = back'
    <2>1. EmptyBufQueue' \in Seq(Buffers) /\ back' \in Buffers \union {NoBuffer}
        BY <1>5 DEF TypeOK
    <2> QED
        BY <1>2, <1>3, <2>1
<1> QED
    BY <1>4, <1>5

LEMMA QueuedIs ==
    ASSUME TypeOK, NEW c
    PROVE  c \in Exchange!Queued <=> Occurs(FullBufQueue, c) # 0
BY OccursCounts DEF Exchange!Queued, TypeOK

\* A buffer that has been given back goes to the free ones.
LEMMA ReleaseStep ==
    ASSUME IInv, TypeOK', NEW b \in Buffers, pool.lockCount[b] = 1,
           Occurs(EmptyBufQueue, b) = 0, Occurs(FullBufQueue, b) = 0, b # back,
           NEW f, f = PutBack(PoolFree(pool, b)), pool' = Refilled(PoolFree(pool, b)),
           \/ back' = back /\ \A c \in Buffers : Occurs(EmptyBufQueue', c) = Occurs(EmptyBufQueue, c) + Is(c, f)
           \/ EmptyBufQueue' = EmptyBufQueue /\ back = NoBuffer /\ back' = f,
           FullBufQueue' = FullBufQueue
    PROVE  [Exchange!Next]_<<Free, FullBufQueue>>
<1>0. TypeOK /\ TypeOK' /\ FreeCountExact(pool)
    BY DEF IInv
<1>1. /\ f \in Buffers \union {NoBuffer}
      /\ f # NoBuffer => f = b \/ pool.lockCount[f] = 0
      /\ \A c \in Buffers : pool'.lockCount[c] + Is(c, b) = pool.lockCount[c] + Is(c, f)
    BY <1>0, FreesAndGets
<1>2. b \notin Free /\ b \notin Exchange!Queued
    BY <1>0, FreeIs, QueuedIs
<1>3. ASSUME NEW c PROVE c \in Free' <=> c \in Free \union {b}
    <2>1. CASE c \notin Buffers
        BY <1>0, <2>1, FreeIs
    <2>2. CASE c \in Buffers
        <3>1. c \in Free <=> pool.lockCount[c] = 0 \/ Occurs(EmptyBufQueue, c) # 0 \/ c = back
            BY <1>0, <2>2, FreeIs
        <3>2. c \in Free' <=> pool'.lockCount[c] = 0 \/ Occurs(EmptyBufQueue', c) # 0 \/ c = back'
            BY <1>0, <2>2, FreeIs
        <3>3. /\ pool.lockCount[c] \in Nat /\ pool'.lockCount[c] \in Nat
              /\ Occurs(EmptyBufQueue, c) \in Nat
            BY <1>0, <2>2, Adding DEF Sums
        <3>4. /\ Is(c, b) \in 0..1 /\ (Is(c, b) = 1 <=> c = b)
              /\ Is(c, f) \in 0..1 /\ (Is(c, f) = 1 <=> c = f)
              /\ pool'.lockCount[c] + Is(c, b) = pool.lockCount[c] + Is(c, f)
            BY <1>1, <2>2, SharesOf
        <3>5. /\ c = f => c = b \/ pool.lockCount[c] = 0
              /\ c = b => pool.lockCount[c] = 1
              /\ c # NoBuffer
            BY <1>1, <2>2, PoolAssumption DEF NoBuffer, Buffers
        <3>6. pool'.lockCount[c] = 0 \/ c = f <=> pool.lockCount[c] = 0 \/ c = b
            BY <3>3, <3>4, <3>5
        <3>7. Occurs(EmptyBufQueue', c) # 0 \/ c = back'
                  <=> Occurs(EmptyBufQueue, c) # 0 \/ c = back \/ c = f
            BY <2>2, <3>3, <3>4, <3>5
        <3> QED
            BY <3>1, <3>2, <3>6, <3>7
    <2> QED
        BY <2>1, <2>2
<1>4. Free' = Free \union {b}
    BY <1>3
<1> QED
    BY <1>2, <1>4 DEF Free, Exchange!Next, Exchange!Release, Exchange!Outside

LEMMA SameFree ==
    ASSUME TypeOK, TypeOK',
           \A c \in Buffers : pool'.lockCount[c] = 0 \/ Occurs(EmptyBufQueue', c) # 0 \/ c = back'
                              <=> pool.lockCount[c] = 0 \/ Occurs(EmptyBufQueue, c) # 0 \/ c = back
    PROVE  Free' = Free
<1>1. ASSUME NEW c PROVE c \in Free' <=> c \in Free
    BY FreeIs
<1> QED
    BY <1>1

\* The path is given an empty buffer.
LEMMA GetEmptyStep ==
    ASSUME IInv, TypeOK', EmptyBufQueue # <<>>, EmptyBufQueue' = Tail(EmptyBufQueue),
           UNCHANGED <<FullBufQueue, pool, back>>
    PROVE  [Exchange!Next]_<<Free, FullBufQueue>>
<1> DEFINE b == Head(EmptyBufQueue)
<1>0. TypeOK /\ TypeOK' /\ EmptyBufQueue \in Seq(Buffers)
    BY DEF IInv, TypeOK
<1>1. /\ b \in Buffers /\ Occurs(EmptyBufQueue, b) > 0
      /\ \A c : Occurs(EmptyBufQueue', c) + Is(c, b) = Occurs(EmptyBufQueue, c)
    BY <1>0, HeadPlaced
<1> HIDE DEF b
<1>2. /\ Owners(b) = 1 /\ pool.lockCount[b] = 1
    BY <1>1, Placed
<1>3. Occurs(EmptyBufQueue, b) = 1 /\ b # back
    <2>1. Sums(b)
        BY <1>0, <1>1, Adding
    <2>2. /\ Occurs(EmptyBufQueue, b) \in Nat /\ Occurs(FullBufQueue, b) \in Nat
          /\ Occurs(out, b) \in Nat /\ InMi(b) \in 0..1
          /\ Is(b, thread.b) \in 0..1 /\ Is(b, back) \in 0..1
        BY <2>1 DEF Sums
    <2>3. 1 = Occurs(EmptyBufQueue, b) + Occurs(FullBufQueue, b) + Occurs(out, b)
                 + InMi(b) + Is(b, thread.b) + Is(b, back)
        BY <1>2, <2>1 DEF Sums
    <2>4. Occurs(EmptyBufQueue, b) > 0
        BY <1>1
    <2>5. Occurs(EmptyBufQueue, b) = 1 /\ Is(b, back) = 0
        BY <2>2, <2>3, <2>4
    <2> QED
        BY <2>5, SharesOf
<1>4. ASSUME NEW c PROVE c \in Free' <=> c \in Free \ {b}
    <2>1. CASE c \notin Buffers
        BY <1>0, <2>1, FreeIs
    <2>2. CASE c \in Buffers
        <3>1. c \in Free <=> pool.lockCount[c] = 0 \/ Occurs(EmptyBufQueue, c) # 0 \/ c = back
            BY <1>0, <2>2, FreeIs
        <3>2. c \in Free' <=> pool.lockCount[c] = 0 \/ Occurs(EmptyBufQueue', c) # 0 \/ c = back
            BY <1>0, <2>2, FreeIs
        <3>3. /\ Occurs(EmptyBufQueue', c) + Is(c, b) = Occurs(EmptyBufQueue, c)
              /\ Is(c, b) \in 0..1 /\ (Is(c, b) = 1 <=> c = b)
              /\ Occurs(EmptyBufQueue, c) \in Nat /\ Occurs(EmptyBufQueue', c) \in Nat
            BY <1>0, <1>1, <2>2, SharesOf, Adding DEF Sums
        <3> QED
            BY <1>2, <1>3, <3>1, <3>2, <3>3
    <2> QED
        BY <2>1, <2>2
<1>5. Free' = Free \ {b} /\ b \in Free
    <2>1. b \in Free
        BY <1>0, <1>1, <1>3, FreeIs
    <2> QED
        BY <1>4, <2>1
<1> QED
    BY <1>5 DEF Free, Exchange!Next, Exchange!GetEmpty

LEMMA StillExchange ==
    ASSUME IInv, TypeOK', UNCHANGED <<pool, EmptyBufQueue, FullBufQueue, back>>
    PROVE  [Exchange!Next]_<<Free, FullBufQueue>>
<1>1. Free' = Free
    BY SameFree DEF IInv
<1> QED
    BY <1>1

\* A buffer only the thread has is free once the thread frees it.
LEMMA FreedByPlace ==
    ASSUME IInv, TypeOK', NEW b \in Buffers, b = thread.b \/ InMi(b) = 1, pool.lockCount[b] = 1,
           FreeBuffer(b, EmptyBufQueue), UNCHANGED <<FullBufQueue, back>>
    PROVE  [Exchange!Next]_<<Free, FullBufQueue>>
<1> DEFINE f == PutBack(PoolFree(pool, b))
<1>0. TypeOK /\ TypeOK' /\ EmptyBufQueue \in Seq(Buffers)
    BY DEF IInv, TypeOK
<1>1. Owners(b) = 1
    BY Placed
<1>2. Occurs(EmptyBufQueue, b) = 0 /\ Occurs(FullBufQueue, b) = 0 /\ b # back
    <2>1. Sums(b)
        BY <1>0, Adding
    <2>2. InMi(b) = 1 \/ Is(b, thread.b) = 1
        BY DEF Is
    <2>3. Occurs(EmptyBufQueue, b) = 0 /\ Occurs(FullBufQueue, b) = 0 /\ Is(b, back) = 0
        BY <1>1, <2>1, <2>2 DEF Sums
    <2> QED
        BY <2>3, SharesOf
<1>3. pool' = Refilled(PoolFree(pool, b)) /\ AddEmpty(EmptyBufQueue, f)
    BY DEF FreeBuffer
<1>4. f \in Buffers \union {NoBuffer}
    BY FreesAndGets DEF IInv
<1> HIDE DEF f
<1>5. \A c \in Buffers : Occurs(EmptyBufQueue', c) = Occurs(EmptyBufQueue, c) + Is(c, f)
    BY <1>0, <1>3, <1>4, Adds
<1> QED
    BY <1>2, <1>3, <1>5, ReleaseStep DEF f

LEMMA ThreadExchange ==
    ASSUME IInv, TypeOK', ThreadStep, PromptCallbacks, MaxLocks + 1 < CounterMod
    PROVE  [Exchange!Next]_<<Free, FullBufQueue>>
<1> USE DEF queues, clients
<1>0. /\ TypeOK /\ TypeOK' /\ pool \in Pools /\ FreeCountExact(pool)
      /\ EmptyBufQueue \in Seq(Buffers) /\ FullBufQueue \in Seq(Buffers)
    BY DEF IInv, TypeOK
<1>1. CASE Shutdown \/ Start \/ Stop \/ Fetched \/ Queue
    <2>1. UNCHANGED <<pool, EmptyBufQueue, FullBufQueue, back>>
        BY <1>1 DEF Shutdown, Start, Stop, Fetched, Queue
    <2> QED
        BY <2>1, StillExchange
<1>2. CASE Fetch
    <2> DEFINE f == FirstFree(pool)
    <2>1. /\ CanGet(pool) /\ pool' = PoolGet(pool) /\ AddEmpty(EmptyBufQueue, f)
          /\ UNCHANGED <<FullBufQueue, back>>
        BY <1>2 DEF Fetch
    <2>2. /\ f \in Buffers /\ pool.lockCount[f] = 0
          /\ \A c \in Buffers : pool'.lockCount[c] = pool.lockCount[c] + Is(c, f)
        BY <1>0, <2>1, Gets
    <2> HIDE DEF f
    <2>3. \A c \in Buffers : Occurs(EmptyBufQueue', c) = Occurs(EmptyBufQueue, c) + Is(c, f)
        BY <1>0, <2>1, <2>2, Adds
    <2>4. ASSUME NEW c \in Buffers
          PROVE  pool'.lockCount[c] = 0 \/ Occurs(EmptyBufQueue', c) # 0 \/ c = back'
                 <=> pool.lockCount[c] = 0 \/ Occurs(EmptyBufQueue, c) # 0 \/ c = back
        <3>1. /\ pool'.lockCount[c] = pool.lockCount[c] + Is(c, f) /\ back' = back
              /\ Occurs(EmptyBufQueue', c) = Occurs(EmptyBufQueue, c) + Is(c, f)
              /\ Is(c, f) \in 0..1 /\ (Is(c, f) = 1 <=> c = f)
            BY <2>1, <2>2, <2>3, SharesOf
        <3>2. pool.lockCount[c] \in Nat /\ Occurs(EmptyBufQueue, c) \in Nat
            BY <1>0, Adding DEF Sums
        <3> QED
            BY <2>2, <3>1, <3>2
    <2>5. Free' = Free
        BY <1>0, <2>4, SameFree
    <2> QED
        BY <2>1, <2>5
<1>3. CASE ProcFullBuffer
    <2>1. CASE FullBufQueue = <<>> \/ ~ Running
        <3>1. UNCHANGED <<pool, EmptyBufQueue, FullBufQueue, back>>
            BY <1>3, <2>1 DEF ProcFullBuffer
        <3> QED
            BY <3>1, StillExchange
    <2>2. CASE FullBufQueue # <<>> /\ Running
        <3>1. /\ FullBufQueue' = Tail(FullBufQueue) /\ UNCHANGED <<EmptyBufQueue, back>>
              /\ pool' = [pool EXCEPT !.isFull[Head(FullBufQueue)] = TRUE]
            BY <1>3, <2>2 DEF ProcFullBuffer
        <3>2. pool'.lockCount = pool.lockCount
            BY <1>0, <3>1 DEF Pools
        <3>3. Free' = Free
            BY <1>0, <3>1, <3>2, SameFree
        <3> QED
            BY <2>2, <3>1, <3>3 DEF Free, Exchange!Next, Exchange!GetFull
    <2> QED
        BY <2>1, <2>2
<1>4. CASE Callback
    <2> DEFINE b == thread.b
    <2>1. /\ b \in Buffers /\ thread.at = "callback"
          /\ UNCHANGED <<EmptyBufQueue, FullBufQueue, back>>
        BY <1>4, ThreadPhase DEF Callback
    <2>2. pool.lockCount[b] = 1
        BY <2>1, Placed DEF At
    <2>3. PICK n \in 0..MaxLocks :
              pool' = [pool EXCEPT !.lockCount[b] = (pool.lockCount[b] + n) % CounterMod]
        BY <1>4 DEF Callback
    <2>4. (pool.lockCount[b] + n) % CounterMod = 1 + n /\ n \in Nat
        BY <2>2, PoolAssumption, MomCtrlAssumption
    <2>5. pool'.lockCount = [pool.lockCount EXCEPT ![b] = 1 + n]
        BY <1>0, <2>1, <2>3, <2>4 DEF Pools
    <2> HIDE DEF b
    <2>6. \A c \in Buffers : pool'.lockCount[c] = 0 <=> pool.lockCount[c] = 0
        BY <1>0, <2>1, <2>2, <2>4, <2>5 DEF Pools
    <2>7. Free' = Free
        BY <1>0, <2>1, <2>6, SameFree
    <2> QED
        BY <2>1, <2>7
<1>5. CASE Unlock
    <2> DEFINE b == thread.b
    <2>1. /\ b \in Buffers /\ UNCHANGED <<FullBufQueue, back>>
        BY <1>5, ThreadPhase DEF Unlock
    <2>2. CASE LastLock(b)
        <3>1. FreeBuffer(b, EmptyBufQueue) /\ pool.lockCount[b] = 1
            BY <1>5, <2>2 DEF Unlock, LastLock
        <3> QED
            BY <2>1, <3>1, FreedByPlace
    <2>3. CASE ~ LastLock(b)
        <3>1. pool' = BufUnlock(pool, b) /\ EmptyBufQueue' = EmptyBufQueue
            BY <1>5, <2>3 DEF Unlock
        <3>2. /\ pool.pOwner[b] /\ pool.lockCount[b] > 1
            <4>1. pool.pOwner[b] /\ pool.lockCount[b] = 1 + held[b]
                BY <2>1, Placed
            <4>2. held[b] \in Nat
                BY <1>0, <2>1, OwnersTyped
            <4> QED
                BY <2>3, <4>1, <4>2 DEF LastLock
        <3>3. \A c \in Buffers : pool'.lockCount[c] + Is(c, b) = pool.lockCount[c]
            BY <1>0, <2>1, <3>1, <3>2, Unlocks
        <3> HIDE DEF b
        <3>4. ASSUME NEW c \in Buffers PROVE pool'.lockCount[c] = 0 <=> pool.lockCount[c] = 0
            <4>1. /\ pool'.lockCount[c] + Is(c, b) = pool.lockCount[c]
                  /\ Is(c, b) \in 0..1 /\ (Is(c, b) = 1 <=> c = b)
                  /\ pool'.lockCount[c] \in Nat /\ pool.lockCount[c] \in Nat
                BY <1>0, <3>3, SharesOf, OwnersTyped
            <4> QED
                BY <3>2, <4>1
        <3>5. Free' = Free
            BY <1>0, <2>1, <3>1, <3>4, SameFree
        <3> QED
            BY <2>1, <3>5
    <2> QED
        BY <2>2, <2>3
<1>6. CASE Drain
    <2> DEFINE b == Head(EmptyBufQueue)
               q == Tail(EmptyBufQueue)
               f == PutBack(PoolFree(pool, b))
    <2>1. /\ EmptyBufQueue # <<>> /\ FreeBuffer(b, q) /\ UNCHANGED <<FullBufQueue, back>>
        BY <1>6, ThreadPhase DEF Drain
    <2>2. /\ b \in Buffers /\ q \in Seq(Buffers) /\ Occurs(EmptyBufQueue, b) > 0
          /\ \A c : Occurs(q, c) + Is(c, b) = Occurs(EmptyBufQueue, c)
        BY <1>0, <2>1, HeadPlaced
    <2>3. pool' = Refilled(PoolFree(pool, b)) /\ AddEmpty(q, f)
        BY <2>1 DEF FreeBuffer
    <2> HIDE DEF b, q
    <2>4. pool.lockCount[b] = 1
        BY <2>2, Placed
    <2>5. /\ f \in Buffers \union {NoBuffer}
          /\ f # NoBuffer => f = b \/ pool.lockCount[f] = 0
          /\ \A c \in Buffers : pool'.lockCount[c] + Is(c, b) = pool.lockCount[c] + Is(c, f)
        BY <1>0, <2>2, <2>3, <2>4, FreesAndGets
    <2> HIDE DEF f
    <2>6. \A c \in Buffers : Occurs(EmptyBufQueue', c) = Occurs(q, c) + Is(c, f)
        BY <2>2, <2>3, <2>5, Adds
    <2>7. ASSUME NEW c \in Buffers
          PROVE  pool'.lockCount[c] = 0 \/ Occurs(EmptyBufQueue', c) # 0 \/ c = back'
                 <=> pool.lockCount[c] = 0 \/ Occurs(EmptyBufQueue, c) # 0 \/ c = back
        <3>1. /\ pool'.lockCount[c] + Is(c, b) = pool.lockCount[c] + Is(c, f) /\ back' = back
              /\ Occurs(EmptyBufQueue', c) = Occurs(q, c) + Is(c, f)
              /\ Occurs(q, c) + Is(c, b) = Occurs(EmptyBufQueue, c)
            BY <2>1, <2>2, <2>5, <2>6
        <3>2. /\ Is(c, f) \in 0..1 /\ (Is(c, f) = 1 <=> c = f)
              /\ Is(c, b) \in 0..1 /\ (Is(c, b) = 1 <=> c = b)
            BY SharesOf
        <3>3. /\ pool.lockCount[c] \in Nat /\ pool'.lockCount[c] \in Nat
              /\ Occurs(EmptyBufQueue, c) \in Nat /\ Occurs(q, c) \in Nat
            BY <1>0, <2>2, OccursCounts, OwnersTyped
        <3>4. c = f => c = b \/ pool.lockCount[c] = 0
            BY <2>5, PoolAssumption DEF NoBuffer, Buffers
        <3> QED
            BY <2>2, <2>4, <3>1, <3>2, <3>3, <3>4
    <2>8. Free' = Free
        BY <1>0, <2>7, SameFree
    <2> QED
        BY <2>1, <2>8
<1>7. CASE Drained
    <2>1. pool' = PoolReset(pool) /\ FullBufQueue' = <<>>
        BY <1>7 DEF Drained
    <2>2. ASSUME NEW c PROVE c \in Free' <=> c \in Buffers
        BY <1>0, <2>1, FreeIs DEF PoolReset, NewPool
    <2>3. Free' = Buffers
        BY <2>2
    <2> QED
        BY <2>1, <2>3 DEF Free, Exchange!Next, Exchange!Reset
<1> QED
    BY <1>1, <1>2, <1>3, <1>4, <1>5, <1>6, <1>7 DEF ThreadStep

LEMMA IrqExchange ==
    ASSUME IInv, TypeOK', IrqStep
    PROVE  [Exchange!Next]_<<Free, FullBufQueue>>
<1> USE DEF queues, clients
<1>0. TypeOK /\ TypeOK'
    BY DEF IInv
<1>1. CASE FrameSkipped \/ FrameDropped \/ Send
    <2>1. UNCHANGED <<pool, EmptyBufQueue, FullBufQueue, back>>
        BY <1>1 DEF FrameSkipped, FrameDropped, Send
    <2> QED
        BY <2>1, StillExchange
<1>2. CASE FrameFull
    <2> DEFINE b == mi.pShdBuffer
    <2>1. /\ irq = "idle" /\ engine = "streaming" /\ b \in Buffers
          /\ FullBufQueue' = Append(FullBufQueue, b) /\ UNCHANGED <<pool, EmptyBufQueue, back>>
        BY <1>2, MiPhase DEF FrameFull, Streaming
    <2>2. InMi(b) = 1
        BY <2>1, PoolAssumption DEF InMi, MiHolds, NoBuffer, Buffers
    <2> HIDE DEF b
    <2>3. Owners(b) = 1 /\ pool.lockCount[b] = 1
        BY <2>1, <2>2, Placed
    <2>4. Occurs(EmptyBufQueue, b) = 0 /\ Occurs(FullBufQueue, b) = 0 /\ b # back
        <3>1. Sums(b)
            BY <1>0, <2>1, Adding
        <3>2. Occurs(EmptyBufQueue, b) = 0 /\ Occurs(FullBufQueue, b) = 0 /\ Is(b, back) = 0
            BY <2>2, <2>3, <3>1 DEF Sums
        <3> QED
            BY <3>2, SharesOf
    <2>5. b \notin Free /\ b \notin Exchange!Queued
        BY <1>0, <2>3, <2>4, FreeIs, QueuedIs
    <2>6. Free' = Free
        BY <1>0, <2>1, SameFree
    <2> QED
        BY <2>1, <2>5, <2>6 DEF Free, Exchange!Next, Exchange!PutFull, Exchange!Outside
<1>3. CASE Request
    <2>1. UNCHANGED <<FullBufQueue, pool, back>>
        BY <1>3 DEF Request
    <2>2. \/ EmptyBufQueue' = EmptyBufQueue
          \/ EmptyBufQueue # <<>> /\ EmptyBufQueue' = Tail(EmptyBufQueue)
        BY <1>3 DEF Request
    <2> QED
        BY <2>1, <2>2, StillExchange, GetEmptyStep
<1> QED
    BY <1>1, <1>2, <1>3 DEF IrqStep

LEMMA EngineExchange ==
    ASSUME IInv, TypeOK', EngineStep
    PROVE  [Exchange!Next]_<<Free, FullBufQueue>>
<1> USE DEF queues, clients, EngineGo
<1>1. CASE \/ MomCtrlStart \/ Started \/ CamerIcMiStop \/ MomCtrlStop \/ Stopped
           \/ MomCtrlShutDown
    <2>1. UNCHANGED <<pool, EmptyBufQueue, FullBufQueue, back>>
        BY <1>1 DEF MomCtrlStart, Started, CamerIcMiStop, MomCtrlStop, Stopped, MomCtrlShutDown
    <2> QED
        BY <2>1, StillExchange
<1>2. CASE SetupShadow \/ SetupNext
    <2>1. /\ EmptyBufQueue # <<>> /\ EmptyBufQueue' = Tail(EmptyBufQueue)
          /\ UNCHANGED <<FullBufQueue, pool, back>>
        BY <1>2 DEF SetupShadow, SetupNext, GetsBuffer
    <2> QED
        BY <2>1, GetEmptyStep
<1>3. CASE FlushShadow
    <2>1. CASE HasFull(mi) /\ Running
        <3>1. /\ FreeBuffer(mi.pShdBuffer, EmptyBufQueue) /\ UNCHANGED <<FullBufQueue, back>>
              /\ engine = "disconnect" /\ irq = "idle"
            BY <1>3, <2>1 DEF FlushShadow
        <3>2. /\ mi.pShdBuffer \in Buffers /\ InMi(mi.pShdBuffer) = 1
              /\ pool.lockCount[mi.pShdBuffer] = 1
            BY <3>1, MiPlaced
        <3> QED
            BY <3>1, <3>2, FreedByPlace
    <2>2. CASE ~ (HasFull(mi) /\ Running)
        BY <1>3, <2>2, StillExchange DEF FlushShadow
    <2> QED
        BY <2>1, <2>2
<1>4. CASE FlushNext
    <2>1. engine = "flush" /\ irq = "idle" /\ Running
        BY <1>4, MiPhase DEF FlushNext, Streaming
    <2>2. FreeBuffer(mi.pBuffer, EmptyBufQueue) /\ UNCHANGED <<FullBufQueue, back>>
        BY <1>4, <2>1 DEF FlushNext
    <2>3. /\ mi.pBuffer \in Buffers /\ InMi(mi.pBuffer) = 1 /\ pool.lockCount[mi.pBuffer] = 1
        BY <2>1, MiPlaced
    <2> QED
        BY <2>2, <2>3, FreedByPlace
<1>5. CASE MomCtrlInit
    <2>1. Ending
        BY <1>5, MiPhase DEF MomCtrlInit
    <2>2. UNCHANGED <<pool, EmptyBufQueue, FullBufQueue, back>>
        BY <1>5, <2>1 DEF MomCtrlInit, Ending, Rest
    <2> QED
        BY <2>2, StillExchange
<1> QED
    BY <1>1, <1>2, <1>3, <1>4, <1>5 DEF EngineStep

LEMMA ClientExchange ==
    ASSUME IInv, TypeOK', ClientStep
    PROVE  [Exchange!Next]_<<Free, FullBufQueue>>
<1> USE DEF queues, clients
<1>0. TypeOK /\ TypeOK' /\ EmptyBufQueue \in Seq(Buffers) /\ pool \in Pools /\ FreeCountExact(pool)
    BY DEF IInv, TypeOK
<1>1. CASE TakeOut
    BY <1>1, StillExchange DEF TakeOut
<1>2. CASE ClientPutBack
    <2>1. /\ back \in Buffers /\ back' = NoBuffer /\ AddEmpty(EmptyBufQueue, back)
          /\ UNCHANGED <<FullBufQueue, pool>>
        BY <1>2 DEF ClientPutBack, IInv, TypeOK
    <2>2. ASSUME NEW c \in Buffers
          PROVE  pool'.lockCount[c] = 0 \/ Occurs(EmptyBufQueue', c) # 0 \/ c = back'
                 <=> pool.lockCount[c] = 0 \/ Occurs(EmptyBufQueue, c) # 0 \/ c = back
        <3>1. Occurs(EmptyBufQueue', c) = Occurs(EmptyBufQueue, c) + Is(c, back)
            BY <1>0, <2>1, Adds
        <3>2. /\ Is(c, back) \in 0..1 /\ (Is(c, back) = 1 <=> c = back)
              /\ Occurs(EmptyBufQueue, c) \in Nat /\ c # back' /\ pool' = pool
            BY <1>0, <2>1, SharesOf, OccursCounts, PoolAssumption DEF NoBuffer, Buffers
        <3> QED
            BY <3>1, <3>2
    <2>3. Free' = Free
        BY <1>0, <2>2, SameFree
    <2> QED
        BY <2>1, <2>3
<1>3. ASSUME NEW b \in Buffers, ClientUnlock(b)
      PROVE  [Exchange!Next]_<<Free, FullBufQueue>>
    <2>1. back = NoBuffer /\ held[b] > 0 /\ UNCHANGED <<EmptyBufQueue, FullBufQueue>>
        BY <1>3 DEF ClientUnlock
    <2>2. Live => pool.lockCount[b] = Owners(b) + held[b] /\ Owned(pool)
        BY DEF IInv, Locks
    <2>3. Sums(b)
        BY <1>0, Adding
    <2>4. CASE LastLock(b)
        <3>1. /\ pool.lockCount[b] = 1 /\ pool.pOwner[b]
              /\ pool' = Refilled(PoolFree(pool, b)) /\ back' = PutBack(PoolFree(pool, b))
            BY <1>3, <2>4 DEF ClientUnlock, LastLock
        <3>2. Live
            BY <3>1 DEF IInv, Locks
        <3>3. Owners(b) = 0
            BY <2>1, <2>2, <2>3, <3>1, <3>2 DEF Sums
        <3>4. Occurs(EmptyBufQueue, b) = 0 /\ Occurs(FullBufQueue, b) = 0
            BY <2>3, <3>3 DEF Sums
        <3>5. b # back
            BY <2>1, PoolAssumption DEF NoBuffer, Buffers
        <3> QED
            BY <2>1, <3>1, <3>4, <3>5, ReleaseStep
    <2>5. CASE ~ LastLock(b)
        <3>1. pool' = BufUnlock(pool, b) /\ back' = back
            BY <1>3, <2>5 DEF ClientUnlock
        <3>2. CASE ~ pool.pOwner[b]
            BY <2>1, <3>1, <3>2, StillExchange DEF BufUnlock
        <3>3. CASE pool.pOwner[b]
            <4>1. Live
                BY <3>3 DEF IInv, Locks
            <4>2. pool.lockCount[b] > 1
                <5>1. pool.lockCount[b] # 1
                    BY <2>5, <3>3 DEF LastLock
                <5>2. /\ Owners(b) \in Nat /\ held[b] \in Nat /\ held[b] > 0
                      /\ pool.lockCount[b] = Owners(b) + held[b]
                    BY <2>1, <2>2, <2>3, <4>1 DEF Sums
                <5> QED
                    BY <5>1, <5>2
            <4>3. \A c \in Buffers : pool'.lockCount[c] + Is(c, b) = pool.lockCount[c]
                BY <1>0, <3>1, <3>3, <4>2, Unlocks
            <4>4. ASSUME NEW c \in Buffers PROVE pool'.lockCount[c] = 0 <=> pool.lockCount[c] = 0
                <5>1. /\ pool'.lockCount[c] + Is(c, b) = pool.lockCount[c]
                      /\ Is(c, b) \in 0..1 /\ (Is(c, b) = 1 <=> c = b)
                      /\ pool'.lockCount[c] \in Nat /\ pool.lockCount[c] \in Nat
                    BY <1>0, <4>3, SharesOf, OwnersTyped
                <5> QED
                    BY <4>2, <5>1
            <4>5. Free' = Free
                BY <1>0, <2>1, <3>1, <4>4, SameFree
            <4> QED
                BY <2>1, <4>5
        <3> QED
            BY <3>2, <3>3
    <2> QED
        BY <2>4, <2>5
<1> QED
    BY <1>1, <1>2, <1>3 DEF ClientStep

(* Seen by the clients and the hardware the whole is the buffer exchange that *)
(* the queue of full buffers implements too (MediaBufQueueProofs.tla): frames *)
(* reach mom_ctrl in the order in which they were written, and only a buffer  *)
(* that everybody has given back is written again.                            *)
THEOREM MomCtrlExchanges ==
    ASSUME PromptCallbacks, MaxLocks + 1 < CounterMod
    PROVE  SafeSpec => ImplementsExchange
<1>1. Init => Exchange!Init
    <2> SUFFICES ASSUME Init PROVE Exchange!Init
        OBVIOUS
    <2>1. /\ pool = NewPool /\ EmptyBufQueue = <<>> /\ FullBufQueue = <<>> /\ back = NoBuffer
        BY DEF Init
    <2>2. Free = Buffers
        <3>1. FreeSet(NewPool) = Buffers
            BY DEF FreeSet, NewPool
        <3>2. ToSet(<<>>) = {}
            BY DEF ToSet
        <3> QED
            BY <2>1, <3>1, <3>2 DEF Free
    <2> QED
        BY <2>1, <2>2 DEF Free, Exchange!Init
<1>2. IInv /\ [Next]_vars => [Exchange!Next]_<<Free, FullBufQueue>>
    <2> SUFFICES ASSUME IInv, [Next]_vars PROVE [Exchange!Next]_<<Free, FullBufQueue>>
        OBVIOUS
    <2>1. TypeOK'
        BY TypeStep
    <2>2. CASE UNCHANGED vars
        BY <2>1, <2>2, StillExchange DEF vars, queues, clients
    <2>3. CASE Next
        BY <2>1, <2>3, ThreadExchange, IrqExchange, EngineExchange, ClientExchange DEF Next
    <2> QED
        BY <2>2, <2>3
<1>3. [Exchange!Next]_<<Free, FullBufQueue>> => [Exchange!Next]_Exchange!vars
    BY DEF Free, Exchange!vars
<1> QED
    BY <1>1, <1>2, <1>3, Inductive, PTL DEF SafeSpec, ImplementsExchange, Exchange!Spec
=============================================================================
