---------------------------- MODULE MediaBufQueue ----------------------------
(* The queue of full buffers that media_buffer_queue.c builds on a pool: an   *)
(* array of buffer pointers with a head and a tail.  The code has no lock:    *)
(* one thread at a time calls it, so that each function is one step.          *)
(* The clients are the environment: they call functions on buffers they hold. *)
EXTENDS MediaBufPool, Sequences

VARIABLES pool,          \* pBufQueue->bufPool
          pBufArray,     \* the array of full buffers
          head, tail,    \* its insert and remove positions
          fullBufsAvail, \* full buffers not yet retrieved
          maxFillLevel,  \* statistics
          held,          \* held[b]: references to b that clients may still use
          inHigh, inLow  \* what a registered callback has been told

queue   == <<pBufArray, head, tail, fullBufsAvail>>
clients == <<held, inHigh, inLow>>
vars    == <<pool, queue, maxFillLevel, clients>>

\* MediaBufQueueIsFull
IsFull == pool.fillLevel = BufNum

Init == /\ pool = NewPool
        /\ pBufArray = [i \in Buffers |-> NoBuffer]
        /\ head = 0 /\ tail = 0 /\ fullBufsAvail = 0
        /\ maxFillLevel = 0
        /\ held = [b \in Buffers |-> 0]
        /\ inHigh = FALSE /\ inLow = TRUE

\* Mutant: the position wraps one slot late.
WrapLate(i) == IF i > BufNum THEN 0 ELSE i

\* pIndexHead and pIndexTail wrap at the end of the array.
Wrap(i) == IF i >= BufNum THEN 0 ELSE i

\* What callbacks are told when a buffer is filled, and when one is freed.
TellFilled(p) == /\ inHigh' = (inHigh \/ HighEntered(p))
                 /\ inLow'  = (inLow /\ ~ LowLeft(p))
TellFreed(p)  == /\ inLow'  = (inLow \/ LowEntered(p))
                 /\ inHigh' = (inHigh /\ ~ HighLeft(p))
TellNothing == UNCHANGED <<inHigh, inLow>>

-----------------------------------------------------------------------------
MediaBufQueueGetEmptyBuffer ==
    /\ CanGet(pool)
    /\ LET b == FirstFree(pool)
       IN  /\ pool' = [PoolGet(pool) EXCEPT !.isFull[b] = FALSE]
           /\ held' = [held EXCEPT ![b] = @ + 1]
    /\ UNCHANGED <<queue, maxFillLevel, inHigh, inLow>>

\* Mutant: the head does not wrap.
InsertNoWrap(b) ==
    /\ pool' = PoolFilled([pool EXCEPT !.isFull[b] = TRUE])
    /\ pBufArray' = [pBufArray EXCEPT ![head] = b]
    /\ head' = IF head + 1 >= BufNum THEN head ELSE head + 1
    /\ fullBufsAvail' = fullBufsAvail + 1
    /\ TellFilled(pool')

MediaBufQueueInsertInHead(b) ==
    /\ pool' = PoolFilled([pool EXCEPT !.isFull[b] = TRUE])
    /\ pBufArray' = [pBufArray EXCEPT ![head] = b]
    /\ head' = Wrap(head + 1)
    /\ fullBufsAvail' = fullBufsAvail + 1
    /\ TellFilled(pool')

\* The client's reference goes into the queue with the buffer.
MediaBufQueuePutFullBuffer(b) ==
    /\ ~ IsFull
    /\ MediaBufQueueInsertInHead(b)
    /\ maxFillLevel' = IF pool'.fillLevel > maxFillLevel THEN pool'.fillLevel ELSE maxFillLevel
    /\ held' = [held EXCEPT ![b] = @ - 1]
    /\ UNCHANGED tail

MediaBufQueueGetFromTail ==
    /\ pBufArray' = [pBufArray EXCEPT ![tail] = NoBuffer]
    /\ tail' = Wrap(tail + 1)
    /\ fullBufsAvail' = fullBufsAvail - 1

MediaBufQueueGetFullBuffer ==
    /\ fullBufsAvail > 0
    /\ MediaBufQueueGetFromTail
    /\ held' = [held EXCEPT ![pBufArray[tail]] = @ + 1]
    /\ UNCHANGED <<pool, head, maxFillLevel, inHigh, inLow>>

MediaBufQueueLockBuffer(b) ==
    /\ pool' = BufLock(pool, b)
    /\ held' = [held EXCEPT ![b] = @ + 1]
    /\ UNCHANGED <<queue, maxFillLevel, inHigh, inLow>>

\* Also MediaBufQueueUnlockBuffer, its alias.
MediaBufQueueReleaseBuffer(b) ==
    /\ pool.lockCount[b] # 0
    /\ LET p == [pool EXCEPT !.lockCount[b] = @ - 1]
       IN  IF p.lockCount[b] = 0
           THEN pool' = PoolFree(p, b) /\ TellFreed(pool')
           ELSE pool' = p /\ TellNothing
    /\ held' = [held EXCEPT ![b] = @ - 1]
    /\ UNCHANGED <<queue, maxFillLevel>>

\* The queue position of each full buffer not yet retrieved, oldest first.
Full == [i \in 1..fullBufsAvail |-> pBufArray[(tail + i - 1) % BufNum]]
Queued == {Full[i] : i \in 1..fullBufsAvail}

\* Mutant: one lock is dropped and not all of them.
FlushedOnce(p, S) ==
    LET Dropped == {b \in S : p.lockCount[b] = 1}
    IN  [p EXCEPT !.lockCount  = [b \in Buffers |-> IF b \in S THEN @[b] - 1 ELSE @[b]],
                  !.isFull     = [b \in Buffers |-> b \notin Dropped /\ @[b]],
                  !.freeBufNum = @ + Cardinality(Dropped),
                  !.fillLevel  = @ - Cardinality({b \in Dropped : p.isFull[b]})]

\* The pool after the release loop of MediaBufQueueFlush has dropped every
\* lock of every buffer in S: PoolFree once for each.
Flushed(p, S) ==
    [p EXCEPT !.lockCount  = [b \in Buffers |-> IF b \in S THEN 0 ELSE @[b]],
              !.isFull     = [b \in Buffers |-> b \notin S /\ @[b]],
              !.freeBufNum = @ + Cardinality(S),
              !.fillLevel  = @ - Cardinality({b \in S : p.isFull[b]})]

\* The fill level falls one by one: every watermark it passes is told.
TellFlushed(p, q) ==
    LET Passed == q.fillLevel..(p.fillLevel - 1)
    IN  /\ inLow'  = (inLow \/ LowWatermark \in Passed \ {0})
        /\ inHigh' = (inHigh /\ ~ (HighWatermark # 0 /\ HighWatermark - 1 \in Passed))

\* A client's lock on a queued buffer goes with the queue's own (line 343): its
\* references are void.
MediaBufQueueFlush ==
    /\ pool' = Flushed(pool, Queued)
    /\ TellFlushed(pool, pool')
    /\ pBufArray' = [i \in Buffers |-> IF pBufArray[i] \in Queued THEN NoBuffer ELSE pBufArray[i]]
    /\ tail' = (tail + fullBufsAvail) % BufNum
    /\ fullBufsAvail' = 0
    /\ maxFillLevel' = 0
    /\ held' = [b \in Buffers |-> IF b \in Queued THEN 0 ELSE held[b]]
    /\ UNCHANGED head

\* Mutant: the array is cleared, but not the position to insert at.
ResetKeepHead ==
    /\ pool' = PoolReset(pool)
    /\ pBufArray' = [i \in Buffers |-> NoBuffer]
    /\ tail' = 0 /\ fullBufsAvail' = 0 /\ maxFillLevel' = 0
    /\ inHigh' = FALSE /\ inLow' = TRUE
    /\ held' = [b \in Buffers |-> 0]
    /\ UNCHANGED head

\* No event is reported: who resets the queue knows that it is empty now, and
\* that all references are void.
MediaBufQueueReset ==
    /\ pool' = PoolReset(pool)
    /\ pBufArray' = [i \in Buffers |-> NoBuffer]
    /\ head' = 0 /\ tail' = 0 /\ fullBufsAvail' = 0 /\ maxFillLevel' = 0
    /\ inHigh' = FALSE /\ inLow' = TRUE
    /\ held' = [b \in Buffers |-> 0]

-----------------------------------------------------------------------------
(* Clients act on buffers they hold a reference to, and not on one that a     *)
(* flush or a reset made void, though no function tells them which those are; *)
(* a producer puts a buffer that it got empty.                                *)
UseBuffer(b) ==
    /\ held[b] > 0
    /\ \/ ~ pool.isFull[b] /\ MediaBufQueuePutFullBuffer(b)
       \/ pool.lockCount[b] < CounterMod - 1 /\ MediaBufQueueLockBuffer(b)
       \/ MediaBufQueueReleaseBuffer(b)

Transfer == \/ MediaBufQueueGetEmptyBuffer \/ MediaBufQueueGetFullBuffer
            \/ \E b \in Buffers : UseBuffer(b)

Next == Transfer \/ MediaBufQueueFlush \/ MediaBufQueueReset

Spec == Init /\ [][Next]_vars

-----------------------------------------------------------------------------
TypeOK == /\ pool \in Pools
          /\ pBufArray \in [Buffers -> Buffers \union {NoBuffer}]
          /\ head \in Buffers /\ tail \in Buffers
          /\ fullBufsAvail \in 0..BufNum
          /\ maxFillLevel \in 0..BufNum
          /\ held \in [Buffers -> Nat]
          /\ inHigh \in BOOLEAN /\ inLow \in BOOLEAN

(* The free counter and the lock counts agree, through resets and flushes,    *)
(* so that the endless scan of MediaBufPoolGetBuffer finds a buffer           *)
(* (media_buffer_pool.c:378).                                                 *)
FreeCounted == FreeCountExact(pool)

(* Each lock is somebody's: a reference that a client may still use, or the   *)
(* queue's own on a full buffer.  A release frees the buffer with the last of *)
(* them, and a flush leaves no lock of a client behind that nobody will undo  *)
(* (media_buffer_queue.c:314-321, 340-347).                                   *)
LocksHonoured ==
    \A b \in Buffers :
        pool.lockCount[b] = held[b] + (IF b \in Queued THEN 1 ELSE 0)

(* "Buffer will not be available as empty buffer until unlocked as many times *)
(* as locked before and released" (media_buffer_queue.h:289).  The code does  *)
(* not keep this promise, so that no run checks it: a flush, or a reset,      *)
(* takes a buffer from under a client that locked it.                         *)
HoldersKeepBuffers ==
    [][\A b \in Buffers : b \in FreeSet(pool') => held[b] + (IF b \in Queued THEN 1 ELSE 0) <= 1]_vars

(* What the assertions of MediaBufQueueInsertInHead rely on                   *)
(* (media_buffer_queue.c:45, 46, 64): the fill level counts the full buffers  *)
(* that are not free, the array is a window from tail to head without gaps    *)
(* or repetitions, and a queue that is not full has its head slot empty.      *)
QueueShape ==
    /\ pool.fillLevel = Cardinality({b \in Buffers : pool.lockCount[b] > 0 /\ pool.isFull[b]})
    /\ fullBufsAvail <= pool.fillLevel
    /\ head = (tail + fullBufsAvail) % BufNum
    /\ \A i \in Buffers : pBufArray[i] # NoBuffer <=> (i - tail + BufNum) % BufNum < fullBufsAvail
    /\ Cardinality(Queued) = fullBufsAvail
    /\ \A b \in Queued : pool.isFull[b]
    /\ ~ IsFull => pBufArray[head] = NoBuffer

(* A callback that follows the critical region events knows on which side of  *)
(* each watermark the fill level is (media_buffer_pool.c:437, 450, 500, 513). *)
WatermarksKnown ==
    /\ HighWatermark # 0 => (inHigh <=> pool.fillLevel >= HighWatermark)
    /\ LowWatermark # 0  => (inLow  <=> pool.fillLevel <= LowWatermark)

(* The queue is a first-in first-out exchange of buffers.                     *)
Exchange == INSTANCE BufferExchange WITH free <- FreeSet(pool), full <- Full
ImplementsExchange == Exchange!Spec
==============================================================================
