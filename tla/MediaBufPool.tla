---------------------------- MODULE MediaBufPool ----------------------------
(* The buffer pool of bufferpool/source: media_buffer_pool.c and             *)
(* media_buffer.c.  A pool is a value and every function of the code that    *)
(* changes it an operator from the pool before to the pool after, so that    *)
(* the modules of its users can chain the calls one of their steps makes.    *)
EXTENDS Integers, FiniteSets

CONSTANTS BufNum,         \* bufNum, number of buffers
          RingBuffer,     \* is BUFPOOL_RINGBUFFER set in flags?
          HighWatermark,  \* highWatermark, 0 when unused
          LowWatermark,   \* lowWatermark, 0 when unused
          CounterMod      \* bound standing for the 2^32 of lockCount

ASSUME PoolAssumption ==
    /\ BufNum \in Nat \ {0}
    /\ RingBuffer \in BOOLEAN
    /\ HighWatermark \in 0..BufNum
    /\ LowWatermark \in 0..BufNum
    /\ CounterMod \in Nat /\ CounterMod > 2

Buffers == 0..(BufNum - 1)
NoBuffer == -1

\* pOwner is a flag here: a buffer has one pool it can belong to.
Pools == [lockCount  : [Buffers -> 0..(CounterMod - 1)],
          isFull     : [Buffers -> BOOLEAN],
          pOwner     : [Buffers -> BOOLEAN],
          freeBufNum : Nat,
          fillLevel  : Nat,
          index      : Buffers]

\* MediaBufPoolCreate, the meta data memory zeroed
NewPool == [lockCount  |-> [b \in Buffers |-> 0],
            isFull     |-> [b \in Buffers |-> FALSE],
            pOwner     |-> [b \in Buffers |-> FALSE],
            freeBufNum |-> BufNum,
            fillLevel  |-> 0,
            index      |-> 0]

\* MediaBufPoolReset calls MediaBufInit on every buffer, which leaves isFull.
PoolReset(p) == [NewPool EXCEPT !.isFull = p.isFull]

FreeSet(p) == {b \in Buffers : p.lockCount[b] = 0}

-----------------------------------------------------------------------------
(* MediaBufPoolGetBuffer                                                     *)

\* The index, n buffers after i
After(i, n) == (i + n) % BufNum

\* Mutant: the scan stops one buffer early, at the one before the free one.
FirstFreeEarly(p) ==
    CHOOSE b \in Buffers : \E n \in 0..(BufNum - 1) :
        /\ b = After(p.index, n + BufNum - 1)
        /\ After(p.index, n) \in FreeSet(p)
        /\ \A m \in 0..(n - 1) : After(p.index, m) \notin FreeSet(p)

\* The first free buffer from index on, going round.
FirstFree(p) ==
    CHOOSE b \in Buffers : \E n \in 0..(BufNum - 1) :
        /\ b = After(p.index, n)
        /\ b \in FreeSet(p)
        /\ \A m \in 0..(n - 1) : After(p.index, m) \notin FreeSet(p)

\* In ring buffer mode only the buffer at index may be handed out.
CanGet(p) == /\ p.freeBufNum # 0
             /\ RingBuffer => p.index \in FreeSet(p)

\* Mutant: the free counter is left alone.
PoolGetUncounted(p) ==
    LET b == FirstFree(p)
    IN  [p EXCEPT !.lockCount[b] = 1, !.pOwner[b] = TRUE, !.index = After(b, 1)]

\* The pool once FirstFree(p) has been handed out.
PoolGet(p) ==
    LET b == FirstFree(p)
    IN  [p EXCEPT !.freeBufNum   = @ - 1,
                  !.lockCount[b] = 1,
                  !.pOwner[b]    = TRUE,
                  !.index        = After(b, 1)]

-----------------------------------------------------------------------------
(* MediaBufPoolFreeBuffer and MediaBufPoolBufferFilled, and the events they  *)
(* report to the registered callbacks besides EMPTY_BUFFER_ADDED and         *)
(* FULL_BUFFER_ADDED.                                                        *)

PoolFree(p, b) ==
    [p EXCEPT !.lockCount[b] = 0,
              !.freeBufNum   = @ + 1,
              !.fillLevel    = IF p.isFull[b] /\ @ > 0 THEN @ - 1 ELSE @,
              !.isFull[b]    = FALSE]

PoolFilled(p) == [p EXCEPT !.fillLevel = @ + 1]

\* Events of PoolFilled / PoolFree, in terms of the pool they leave.
HighEntered(p) == HighWatermark # 0 /\ HighWatermark = p.fillLevel
LowLeft(p)     == LowWatermark # 0 /\ LowWatermark + 1 = p.fillLevel
LowEntered(p)  == LowWatermark # 0 /\ LowWatermark = p.fillLevel
\* Mutant: "left" is reported on the watermark itself.
HighLeftLate(p) == HighWatermark # 0 /\ HighWatermark = p.fillLevel
HighLeft(p)    == HighWatermark # 0 /\ HighWatermark - 1 = p.fillLevel

-----------------------------------------------------------------------------
(* media_buffer.c: a lock count that any holder of a buffer moves.           *)

BufLock(p, b) == [p EXCEPT !.lockCount[b] = (@ + 1) % CounterMod]

\* RET_FAILURE for a buffer without an owner; the buffer goes back to its
\* pool when the last lock does.
BufUnlock(p, b) ==
    LET q == [p EXCEPT !.lockCount[b] = (@ + CounterMod - 1) % CounterMod]
    IN  IF ~ p.pOwner[b] THEN p
        ELSE IF q.lockCount[b] = 0 THEN PoolFree(q, b) ELSE q

-----------------------------------------------------------------------------
(* The free counter agrees with the lock counts ("0 means buffer belongs to  *)
(* pool and is free", media_buffer.h:59): otherwise the scan of              *)
(* MediaBufPoolGetBuffer never ends, or free buffers are never found.        *)
FreeCountExact(p) == p.freeBufNum = Cardinality(FreeSet(p))
==============================================================================
