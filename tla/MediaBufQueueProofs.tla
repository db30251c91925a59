------------------------- MODULE MediaBufQueueProofs -------------------------
(* What holds of the queue of full buffers for any number of buffers, any    *)
(* watermarks and any clients; at the end, of the pool called by threads at   *)
(* the grain of one access (MediaBufPoolThreads).                            *)
EXTENDS MediaBufQueue, MediaBufPoolProofs, SequenceTheorems

\* The buffers in the array, and those whose lock and flag say full.
InArray == {b \in Buffers : \E i \in Buffers : pBufArray[i] = b}
Filled(p) == {b \in Buffers : p.lockCount[b] > 0 /\ p.isFull[b]}

\* The distance of a position from the tail.
Offset(i) == (i - tail + BufNum) % BufNum

Ring == /\ head = (tail + fullBufsAvail) % BufNum
        /\ \A i \in Buffers : pBufArray[i] # NoBuffer <=> Offset(i) < fullBufsAvail
        /\ \A i, j \in Buffers : pBufArray[i] = pBufArray[j] /\ pBufArray[i] # NoBuffer => i = j

Counts == /\ Cardinality(InArray) = fullBufsAvail
          /\ pool.fillLevel = Cardinality(Filled(pool))
          /\ FreeCountExact(pool)

Locks == /\ \A b \in InArray : pool.isFull[b]
         /\ \A b \in Buffers :
               pool.lockCount[b] = held[b] + (IF b \in InArray THEN 1 ELSE 0)

Inv == TypeOK /\ Ring /\ Counts /\ Locks /\ WatermarksKnown

-----------------------------------------------------------------------------
(* Distances are taken round the ring.                                       *)
LEMMA OffsetIs ==
    ASSUME tail \in Buffers, NEW i \in Buffers
    PROVE  /\ Offset(i) = IF i >= tail THEN i - tail ELSE i - tail + BufNum
           /\ Offset(i) \in Buffers
BY PoolAssumption, ModOnce DEF Offset, Buffers

(* The window from tail on and the content of the array are the same.        *)
LEMMA QueuedInArray ==
    ASSUME TypeOK, Ring
    PROVE  Queued = InArray
<1> BufNum \in Nat \ {0} /\ tail \in Buffers /\ fullBufsAvail \in 0..BufNum
    BY PoolAssumption DEF TypeOK
<1> pBufArray \in [Buffers -> Buffers \union {NoBuffer}] /\ NoBuffer \notin Buffers
    BY DEF TypeOK, Buffers, NoBuffer
<1>1. ASSUME NEW n \in 1..fullBufsAvail
      PROVE  Full[n] \in InArray
    <2>1. PICK x \in 0..(2 * BufNum - 1) : x = tail + n - 1
        BY DEF Buffers
    <2> DEFINE k == x % BufNum
    <2>2. k \in Buffers /\ k = IF x < BufNum THEN x ELSE x - BufNum
        BY ModOnce
    <2> HIDE DEF k
    <2>3. Offset(k) = n - 1
        <3>1. Offset(k) = IF k >= tail THEN k - tail ELSE k - tail + BufNum
            BY <2>2, OffsetIs
        <3>2. CASE x < BufNum
            BY <2>1, <2>2, <3>1, <3>2 DEF Buffers
        <3>3. CASE x >= BufNum
            BY <2>1, <2>2, <3>1, <3>3 DEF Buffers
        <3> QED
            BY <3>2, <3>3
    <2>4. pBufArray[k] \in Buffers
        BY <2>2, <2>3 DEF Ring
    <2>5. Full[n] = pBufArray[k]
        BY <2>1 DEF Full, k
    <2> QED
        BY <2>2, <2>4, <2>5 DEF InArray
<1>2. ASSUME NEW b \in InArray
      PROVE  \E n \in 1..fullBufsAvail : Full[n] = b
    <2>1. PICK k \in Buffers : pBufArray[k] = b /\ b \in Buffers
        BY DEF InArray
    <2>2. Offset(k) < fullBufsAvail /\ Offset(k) \in Buffers
        BY <2>1, OffsetIs DEF Ring
    <2> DEFINE n == Offset(k) + 1
    <2>3. n \in 1..fullBufsAvail /\ tail + n - 1 = IF k >= tail THEN k ELSE k + BufNum
        <3>1. Offset(k) = IF k >= tail THEN k - tail ELSE k - tail + BufNum
            BY OffsetIs
        <3> QED
            BY <2>2, <3>1 DEF Buffers
    <2>4. (tail + n - 1) % BufNum = k
        <3> DEFINE x == tail + n - 1
        <3>1. x \in 0..(2 * BufNum - 1) /\ x = IF k >= tail THEN k ELSE k + BufNum
            BY <2>3 DEF Buffers
        <3> HIDE DEF x
        <3>2. x % BufNum = IF x < BufNum THEN x ELSE x - BufNum
            BY <3>1, ModOnce
        <3>3. x % BufNum = k
            BY <3>1, <3>2 DEF Buffers
        <3> QED
            BY <3>3 DEF x
    <2>5. Full[n] = pBufArray[(tail + n - 1) % BufNum]
        BY <2>3 DEF Full
    <2> QED
        BY <2>1, <2>3, <2>4, <2>5
<1>3. Queued = {Full[n] : n \in 1..fullBufsAvail}
    BY DEF Queued
<1> QED
    BY <1>1, <1>2, <1>3

(* A buffer in the array is locked and full; the fill level counts at least  *)
(* these, and never more than there are.                                     *)
LEMMA FillLevels ==
    ASSUME Inv
    PROVE  /\ InArray \subseteq Filled(pool)
           /\ fullBufsAvail <= pool.fillLevel /\ pool.fillLevel \in 0..BufNum
           /\ pool.fillLevel < BufNum => fullBufsAvail < BufNum
<1>1. InArray \subseteq Filled(pool)
    BY DEF Inv, TypeOK, Locks, Filled, InArray
<1>2. Filled(pool) \subseteq Buffers
    BY DEF Filled
<1>3. Cardinality(InArray) <= Cardinality(Filled(pool))
    BY <1>1, <1>2, BufferSets, FS_Subset
<1>4. Cardinality(Filled(pool)) \in 0..BufNum
    BY <1>2, BufferSets
<1> QED
    BY <1>1, <1>3, <1>4, PoolAssumption DEF Inv, Counts, TypeOK

(* While the queue is not full the slot at its head is empty.                *)
LEMMA HeadSlot ==
    ASSUME Inv, ~ IsFull
    PROVE  /\ pool.fillLevel \in 0..(BufNum - 1) /\ fullBufsAvail \in 0..(BufNum - 1)
           /\ Offset(head) = fullBufsAvail /\ pBufArray[head] = NoBuffer
<1>1. /\ BufNum \in Nat \ {0} /\ head \in Buffers /\ tail \in Buffers
      /\ Ring /\ fullBufsAvail \in 0..BufNum
    BY PoolAssumption DEF Inv, TypeOK
<1>2. pool.fillLevel \in 0..(BufNum - 1) /\ fullBufsAvail \in 0..(BufNum - 1)
    BY <1>1, FillLevels DEF IsFull
<1>3. PICK x \in 0..(2 * BufNum - 1) : x = tail + fullBufsAvail
    BY <1>1, <1>2 DEF Buffers
<1>4. head = IF x < BufNum THEN x ELSE x - BufNum
    BY <1>1, <1>3, ModOnce DEF Ring
<1>5. Offset(head) = IF head >= tail THEN head - tail ELSE head - tail + BufNum
    BY <1>1, OffsetIs
<1>6. Offset(head) = fullBufsAvail
    BY <1>1, <1>2, <1>3, <1>4, <1>5 DEF Buffers
<1>7. pBufArray[head] = NoBuffer
    BY <1>1, <1>2, <1>6 DEF Ring
<1> QED
    BY <1>2, <1>6, <1>7

-----------------------------------------------------------------------------
(* The initial state, and what a reset leaves.                               *)
LEMMA InitInv == Init => Inv
<1> SUFFICES ASSUME Init PROVE Inv
    OBVIOUS
<1> BufNum \in Nat \ {0} /\ 0 \in Buffers /\ NoBuffer \notin Buffers
    BY PoolAssumption DEF Buffers, NoBuffer
<1>1. InArray = {} /\ Filled(pool) = {}
    BY DEF Init, InArray, Filled, NewPool
<1>2. TypeOK
    <2>1. pBufArray \in [Buffers -> Buffers \union {NoBuffer}] /\ held \in [Buffers -> Nat]
        BY DEF Init
    <2>2. pool \in Pools
        BY NewPoolCounts DEF Init
    <2>3. head \in Buffers /\ tail \in Buffers /\ fullBufsAvail \in 0..BufNum
          /\ maxFillLevel \in 0..BufNum
        BY DEF Init
    <2>4. inHigh \in BOOLEAN /\ inLow \in BOOLEAN
        BY Zenon DEF Init
    <2> QED
        BY <2>1, <2>2, <2>3, <2>4 DEF TypeOK
<1>3. Ring
    BY OffsetIs, ModOnce DEF Init, Ring, Buffers
<1>4. Counts
    BY <1>1, NewPoolCounts, FS_EmptySet DEF Init, Counts, NewPool
<1>5. Locks
    BY <1>1 DEF Init, Locks, NewPool
<1>6. WatermarksKnown
    BY PoolAssumption DEF Init, WatermarksKnown, NewPool
<1> QED
    BY <1>2, <1>3, <1>4, <1>5, <1>6 DEF Inv

-----------------------------------------------------------------------------
(* Calls that leave the array alone.                                         *)
LEMMA RingStays ==
    ASSUME Ring, UNCHANGED queue
    PROVE  Ring' /\ InArray' = InArray
BY DEF Ring, queue, InArray, Offset

(* A free buffer is locked and handed out, its full flag cleared.            *)
LEMMA GetEmptyBufferInv ==
    ASSUME Inv, MediaBufQueueGetEmptyBuffer
    PROVE  Inv'
<1> DEFINE b == FirstFree(pool)
<1>1. TypeOK /\ Ring /\ Counts /\ Locks /\ WatermarksKnown
    BY DEF Inv
<1>2. pool \in Pools /\ FreeCountExact(pool) /\ CanGet(pool)
    BY <1>1 DEF TypeOK, Counts, MediaBufQueueGetEmptyBuffer
<1>3. b \in FreeSet(pool) /\ PoolGet(pool) \in Pools /\ FreeCountExact(PoolGet(pool))
    BY <1>2, PoolGetCounts
<1>4. b \in Buffers /\ pool.lockCount[b] = 0
    BY <1>3 DEF FreeSet
<1>5. /\ pool' = [PoolGet(pool) EXCEPT !.isFull[b] = FALSE]
      /\ held' = [held EXCEPT ![b] = @ + 1]
      /\ UNCHANGED <<queue, maxFillLevel, inHigh, inLow>>
    BY DEF MediaBufQueueGetEmptyBuffer
<1>6. /\ PoolGet(pool).lockCount = [pool.lockCount EXCEPT ![b] = 1]
      /\ PoolGet(pool).isFull = pool.isFull /\ PoolGet(pool).fillLevel = pool.fillLevel
    BY <1>2 DEF PoolGet, Pools
<1> HIDE DEF b
<1>7. pool' \in Pools
    BY <1>3, <1>4, <1>5, PoolFlags
<1>8. /\ pool'.lockCount = [pool.lockCount EXCEPT ![b] = 1]
      /\ pool'.isFull = [pool.isFull EXCEPT ![b] = FALSE]
      /\ pool'.fillLevel = pool.fillLevel
      /\ pool'.freeBufNum = PoolGet(pool).freeBufNum
    BY <1>3, <1>5, <1>6 DEF Pools
<1>9. Ring' /\ InArray' = InArray
    BY <1>1, <1>5, RingStays
<1>10. held[b] = 0 /\ b \notin InArray
    BY <1>1, <1>4 DEF TypeOK, Locks
<1>11. TypeOK'
    BY <1>1, <1>4, <1>5, <1>7 DEF TypeOK, queue
<1>12. Locks'
    BY <1>1, <1>2, <1>4, <1>5, <1>8, <1>9, <1>10 DEF Locks, TypeOK, Pools, InArray
<1>13. Filled(pool') = Filled(pool)
    BY <1>2, <1>4, <1>8 DEF Filled, Pools
<1>14. FreeSet(pool') = FreeSet(PoolGet(pool))
    BY <1>6, <1>8 DEF FreeSet
<1>15. Counts'
    BY <1>1, <1>3, <1>5, <1>8, <1>9, <1>13, <1>14 DEF Counts, FreeCountExact, queue
<1>16. WatermarksKnown'
    BY <1>1, <1>5, <1>8 DEF WatermarksKnown
<1> QED
    BY <1>9, <1>11, <1>12, <1>15, <1>16 DEF Inv

(* A client's lock on a buffer it has.                                       *)
LEMMA LockBufferInv ==
    ASSUME Inv, NEW b \in Buffers, held[b] > 0, pool.lockCount[b] < CounterMod - 1,
           MediaBufQueueLockBuffer(b)
    PROVE  Inv'
<1>1. TypeOK /\ Ring /\ Counts /\ Locks /\ WatermarksKnown
    BY DEF Inv
<1>2. pool \in Pools /\ CounterMod \in Nat /\ pool.lockCount[b] \in Nat
    BY <1>1, PoolAssumption DEF TypeOK, Pools
<1>3. /\ pool' = [pool EXCEPT !.lockCount[b] = (@ + 1) % CounterMod]
      /\ held' = [held EXCEPT ![b] = @ + 1]
      /\ UNCHANGED <<queue, maxFillLevel, inHigh, inLow>>
    BY DEF MediaBufQueueLockBuffer, BufLock
<1>4. (pool.lockCount[b] + 1) % CounterMod = pool.lockCount[b] + 1
    BY <1>2
<1>5. pool.lockCount[b] > 0
    BY <1>1, <1>2 DEF Locks, TypeOK
<1>6. pool' \in Pools
    <2>1. pool.lockCount[b] + 1 \in 0..(CounterMod - 1)
        BY <1>2
    <2> QED
        BY <1>2, <1>3, <1>4, <2>1, PoolUpdates
<1>7. /\ pool'.lockCount = [pool.lockCount EXCEPT ![b] = @ + 1]
      /\ pool'.isFull = pool.isFull
      /\ pool'.fillLevel = pool.fillLevel /\ pool'.freeBufNum = pool.freeBufNum
    BY <1>2, <1>3, <1>4 DEF Pools
<1>8. Ring' /\ InArray' = InArray
    BY <1>1, <1>3, RingStays
<1>9. TypeOK'
    BY <1>1, <1>3, <1>6 DEF TypeOK, queue
<1>10. Locks'
    BY <1>1, <1>2, <1>3, <1>7, <1>8 DEF Locks, TypeOK, Pools, InArray
<1>11. Filled(pool') = Filled(pool) /\ FreeSet(pool') = FreeSet(pool)
    BY <1>2, <1>5, <1>7 DEF Filled, FreeSet, Pools
<1>12. Counts'
    BY <1>1, <1>3, <1>7, <1>8, <1>11 DEF Counts, FreeCountExact, queue
<1>13. WatermarksKnown'
    BY <1>1, <1>3, <1>7 DEF WatermarksKnown
<1> QED
    BY <1>8, <1>9, <1>10, <1>12, <1>13 DEF Inv

(* A buffer is freed when the last lock on it is released, and nobody else   *)
(* has it then.                                                              *)
LEMMA ReleaseBufferInv ==
    ASSUME Inv, NEW b \in Buffers, held[b] > 0, MediaBufQueueReleaseBuffer(b)
    PROVE  Inv'
<1> DEFINE p == [pool EXCEPT !.lockCount[b] = @ - 1]
<1>1. TypeOK /\ Ring /\ Counts /\ Locks /\ WatermarksKnown
    BY DEF Inv
<1>2. pool \in Pools /\ CounterMod \in Nat /\ pool.lockCount[b] \in 1..(CounterMod - 1)
      /\ held[b] \in Nat
    BY <1>1, PoolAssumption DEF TypeOK, Pools, MediaBufQueueReleaseBuffer
<1>3. /\ pool' = IF p.lockCount[b] = 0 THEN PoolFree(p, b) ELSE p
      /\ IF p.lockCount[b] = 0 THEN TellFreed(pool') ELSE TellNothing
      /\ held' = [held EXCEPT ![b] = @ - 1]
      /\ UNCHANGED <<queue, maxFillLevel>>
    BY Zenon DEF MediaBufQueueReleaseBuffer
<1>4. p \in Pools
    <2>1. pool.lockCount[b] - 1 \in 0..(CounterMod - 1)
        BY <1>2
    <2> QED
        BY <1>2, <2>1, PoolUpdates
<1>5. /\ p.lockCount = [pool.lockCount EXCEPT ![b] = @ - 1]
      /\ p.isFull = pool.isFull /\ p.fillLevel = pool.fillLevel
      /\ p.freeBufNum = pool.freeBufNum
    BY <1>2 DEF Pools
<1> HIDE DEF p
<1>6. Ring' /\ InArray' = InArray
    BY <1>1, <1>3, RingStays DEF queue
<1>7. held' \in [Buffers -> Nat]
    BY <1>1, <1>2, <1>3 DEF TypeOK
<1>8. CASE p.lockCount[b] # 0
    <2>1. pool' = p /\ UNCHANGED <<inHigh, inLow>>
        BY <1>3, <1>8 DEF TellNothing
    <2>2. TypeOK'
        BY <1>1, <1>3, <1>4, <1>7, <2>1 DEF TypeOK, queue
    <2>3. Locks'
        BY <1>1, <1>2, <1>3, <1>5, <1>6, <2>1 DEF Locks, TypeOK, Pools, InArray
    <2>4. Filled(pool') = Filled(pool) /\ FreeSet(pool') = FreeSet(pool)
        BY <1>2, <1>5, <1>8, <2>1 DEF Filled, FreeSet, Pools
    <2>5. Counts'
        BY <1>1, <1>3, <1>5, <1>6, <2>1, <2>4 DEF Counts, FreeCountExact, queue
    <2>6. WatermarksKnown'
        BY <1>1, <1>5, <2>1 DEF WatermarksKnown
    <2> QED
        BY <1>6, <2>2, <2>3, <2>5, <2>6 DEF Inv
<1>9. CASE p.lockCount[b] = 0
    <2>1. pool' = PoolFree(p, b) /\ TellFreed(pool')
        BY <1>3, <1>9
    <2>2. pool.lockCount[b] = 1 /\ held[b] = 1 /\ b \notin InArray
        BY <1>1, <1>2, <1>5, <1>9 DEF Locks, Pools
    <2>3. FreeSet(p) \ {b} = FreeSet(pool)
        BY <1>2, <1>5, <2>2 DEF FreeSet, Pools
    <2>4. pool' \in Pools /\ FreeCountExact(pool')
        BY <1>1, <1>4, <1>5, <2>1, <2>3, PoolFreeCounts DEF Counts, FreeCountExact
    <2>5. /\ pool'.lockCount = [pool.lockCount EXCEPT ![b] = 0]
          /\ pool'.isFull = [pool.isFull EXCEPT ![b] = FALSE]
          /\ pool'.fillLevel = IF pool.isFull[b] /\ pool.fillLevel > 0
                               THEN pool.fillLevel - 1 ELSE pool.fillLevel
        <3>1. p.lockCount[b] = 0 /\ p.lockCount \in [Buffers -> 0..(CounterMod - 1)]
            BY <1>4, <1>9 DEF Pools
        <3>2. /\ pool'.lockCount = [p.lockCount EXCEPT ![b] = 0]
              /\ pool'.isFull = [p.isFull EXCEPT ![b] = FALSE]
              /\ pool'.fillLevel = IF p.isFull[b] /\ p.fillLevel > 0
                                   THEN p.fillLevel - 1 ELSE p.fillLevel
            BY <1>4, <2>1 DEF PoolFree, Pools
        <3>3. [p.lockCount EXCEPT ![b] = 0] = [pool.lockCount EXCEPT ![b] = 0]
            BY <1>2, <1>5 DEF Pools
        <3> QED
            BY <1>5, <3>2, <3>3
    <2>6. Filled(pool') = Filled(pool) \ {b}
        BY <1>2, <2>5 DEF Filled, Pools
    <2>7. pool'.fillLevel = Cardinality(Filled(pool'))
        <3>1. IsFiniteSet(Filled(pool)) /\ Cardinality(Filled(pool)) \in Nat
            BY BufferSets DEF Filled
        <3>2. b \in Filled(pool) <=> pool.isFull[b]
            BY <2>2 DEF Filled
        <3>3. b \in Filled(pool) => Cardinality(Filled(pool)) > 0
            BY <3>1, FS_EmptySet
        <3>4. pool.fillLevel = Cardinality(Filled(pool))
            BY <1>1 DEF Counts
        <3>5. CASE b \in Filled(pool)
            <4>1. Cardinality(Filled(pool) \ {b}) = Cardinality(Filled(pool)) - 1
                BY <3>1, <3>5, FS_RemoveElement
            <4>2. pool'.fillLevel = pool.fillLevel - 1
                BY <2>5, <3>2, <3>3, <3>4, <3>5
            <4> QED
                BY <2>6, <3>4, <4>1, <4>2
        <3>6. CASE b \notin Filled(pool)
            <4>1. Filled(pool') = Filled(pool)
                BY <2>6, <3>6
            <4>2. pool'.fillLevel = pool.fillLevel
                BY <2>5, <3>2, <3>6
            <4> QED
                BY <3>4, <4>1, <4>2
        <3> QED
            BY <3>5, <3>6
    <2>8. TypeOK'
        <3>1. inHigh' \in BOOLEAN /\ inLow' \in BOOLEAN
            BY <2>1, Zenon DEF TellFreed
        <3> QED
            BY <1>1, <1>3, <1>7, <2>4, <3>1 DEF TypeOK, queue
    <2>9. Locks'
        BY <1>1, <1>2, <1>3, <1>6, <2>2, <2>5 DEF Locks, TypeOK, Pools, InArray
    <2>10. Counts'
        BY <1>1, <1>3, <1>6, <2>4, <2>7 DEF Counts, queue
    <2>11. WatermarksKnown'
        <3>1. pool.fillLevel \in Nat /\ HighWatermark \in Nat /\ LowWatermark \in Nat
            BY <1>2, PoolAssumption DEF Pools
        <3>2. pool'.fillLevel \in {pool.fillLevel, pool.fillLevel - 1}
            BY <2>5
        <3>3. /\ pool'.fillLevel >= HighWatermark <=>
                    pool.fillLevel >= HighWatermark /\ HighWatermark - 1 # pool'.fillLevel
              /\ pool'.fillLevel <= LowWatermark <=>
                    pool.fillLevel <= LowWatermark \/ LowWatermark = pool'.fillLevel
            BY <3>1, <3>2
        <3> QED
            BY <1>1, <2>1, <3>3, Zenon DEF WatermarksKnown, TellFreed, HighLeft, LowEntered
    <2> QED
        BY <1>6, <2>8, <2>9, <2>10, <2>11 DEF Inv
<1> QED
    BY <1>8, <1>9

(* A full buffer goes to the head of the array, whose slot is empty.         *)
LEMMA PutFullBufferInv ==
    ASSUME Inv, NEW b \in Buffers, held[b] > 0, ~ pool.isFull[b],
           MediaBufQueuePutFullBuffer(b)
    PROVE  Inv'
<1> DEFINE p == [pool EXCEPT !.isFull[b] = TRUE]
<1>1. TypeOK /\ Ring /\ Counts /\ Locks /\ WatermarksKnown
    BY DEF Inv
<1>2. /\ pool \in Pools /\ BufNum \in Nat \ {0} /\ held[b] \in Nat
      /\ head \in Buffers /\ tail \in Buffers
      /\ pBufArray \in [Buffers -> Buffers \union {NoBuffer}] /\ NoBuffer \notin Buffers
    BY <1>1, PoolAssumption DEF TypeOK, Buffers, NoBuffer
<1>3. /\ pool' = [p EXCEPT !.fillLevel = @ + 1]
      /\ pBufArray' = [pBufArray EXCEPT ![head] = b]
      /\ head' = Wrap(head + 1)
      /\ fullBufsAvail' = fullBufsAvail + 1
      /\ TellFilled(pool')
      /\ maxFillLevel' = IF pool'.fillLevel > maxFillLevel THEN pool'.fillLevel ELSE maxFillLevel
      /\ held' = [held EXCEPT ![b] = @ - 1]
      /\ tail' = tail
    BY DEF MediaBufQueuePutFullBuffer, MediaBufQueueInsertInHead, PoolFilled
<1>4. /\ pool.fillLevel \in 0..(BufNum - 1) /\ fullBufsAvail \in 0..(BufNum - 1)
    BY HeadSlot DEF MediaBufQueuePutFullBuffer
<1>5. p \in Pools
    BY <1>2, PoolFlags
<1>6. pool' \in Pools
    <2>1. p.fillLevel + 1 \in Nat
        BY <1>5 DEF Pools
    <2> HIDE DEF p
    <2> QED
        BY <1>3, <1>5, <2>1, PoolUpdates
<1>7. /\ pool'.lockCount = pool.lockCount
      /\ pool'.isFull = [pool.isFull EXCEPT ![b] = TRUE]
      /\ pool'.fillLevel = pool.fillLevel + 1
      /\ pool'.freeBufNum = pool.freeBufNum
    BY <1>2, <1>3 DEF Pools
<1> HIDE DEF p
<1>8. b \notin InArray /\ pool.lockCount[b] > 0
    BY <1>1, <1>2 DEF Locks
<1>9. Offset(head) = fullBufsAvail /\ pBufArray[head] = NoBuffer
    BY HeadSlot DEF MediaBufQueuePutFullBuffer
<1>10. \A i \in Buffers : /\ pBufArray'[i] = IF i = head THEN b ELSE pBufArray[i]
                          /\ Offset(i)' = Offset(i)
    BY <1>2, <1>3 DEF Offset
<1>11. Ring'
    <2>1. head' \in Buffers /\ head' = (tail' + fullBufsAvail')%BufNum
        <3>1. PICK x \in 0..(2 * BufNum - 1) : x = tail + fullBufsAvail
            BY <1>2, <1>4 DEF Buffers
        <3>2. head = IF x < BufNum THEN x ELSE x - BufNum
            BY <1>1, <3>1, ModOnce DEF Ring
        <3>3. PICK y \in 0..(2 * BufNum - 1) : y = tail + fullBufsAvail + 1
            BY <1>2, <1>4 DEF Buffers
        <3>4. y % BufNum = IF y < BufNum THEN y ELSE y - BufNum
            BY ModOnce
        <3>5. Wrap(head + 1) = y % BufNum /\ Wrap(head + 1) \in Buffers
            BY <1>2, <1>4, <3>1, <3>2, <3>3, <3>4 DEF Wrap, Buffers
        <3>6. tail' + fullBufsAvail' = y
            BY <1>2, <1>3, <1>4, <3>3 DEF Buffers
        <3> QED
            BY <1>3, <3>5, <3>6
    <2>2. ASSUME NEW i \in Buffers
          PROVE  pBufArray'[i] # NoBuffer <=> Offset(i)' < fullBufsAvail'
        <3>1. Offset(i) \in Nat
            BY <1>2, OffsetIs DEF Buffers
        <3>2. CASE i = head
            BY <1>2, <1>3, <1>4, <1>9, <1>10, <3>2
        <3>3. CASE i # head
            <4>1. Offset(i) # fullBufsAvail
                <5>1. /\ Offset(i) = IF i >= tail THEN i - tail ELSE i - tail + BufNum
                      /\ Offset(head) = IF head >= tail THEN head - tail ELSE head - tail + BufNum
                    BY <1>2, OffsetIs
                <5> QED
                    BY <1>2, <1>9, <3>3, <5>1 DEF Buffers
            <4> QED
                BY <1>1, <1>3, <1>4, <1>10, <3>1, <3>3, <4>1 DEF Ring
        <3> QED
            BY <3>2, <3>3
    <2>3. \A i, j \in Buffers : pBufArray'[i] = pBufArray'[j] /\ pBufArray'[i] # NoBuffer => i = j
        BY <1>1, <1>8, <1>10 DEF Ring, InArray
    <2> QED
        BY <2>1, <2>2, <2>3 DEF Ring
<1>12. InArray' = InArray \union {b}
    BY <1>2, <1>9, <1>10 DEF InArray
<1>13. Filled(pool') = Filled(pool) \union {b} /\ b \notin Filled(pool)
    BY <1>2, <1>7, <1>8 DEF Filled, Pools
<1>14. TypeOK'
    <2>1. head' \in Buffers
        BY <1>2, <1>3, PoolAssumption DEF Wrap, Buffers
    <2>2. inHigh' \in BOOLEAN /\ inLow' \in BOOLEAN
        BY <1>3, Zenon DEF TellFilled
    <2>3. held' \in [Buffers -> Nat] /\ pBufArray' \in [Buffers -> Buffers \union {NoBuffer}]
        BY <1>1, <1>2, <1>3 DEF TypeOK
    <2>4. maxFillLevel' \in 0..BufNum /\ fullBufsAvail' \in 0..BufNum
        BY <1>1, <1>2, <1>3, <1>4, <1>7 DEF TypeOK
    <2> QED
        BY <1>2, <1>3, <1>6, <2>1, <2>2, <2>3, <2>4 DEF TypeOK
<1>15. Locks'
    BY <1>1, <1>2, <1>3, <1>7, <1>8, <1>12 DEF Locks, TypeOK, Pools, InArray
<1>16. Counts'
    <2>1. IsFiniteSet(InArray) /\ IsFiniteSet(Filled(pool))
        BY BufferSets DEF InArray, Filled
    <2>2. Cardinality(InArray') = Cardinality(InArray) + 1
        BY <1>8, <1>12, <2>1, FS_AddElement
    <2>3. Cardinality(Filled(pool')) = Cardinality(Filled(pool)) + 1
        BY <1>13, <2>1, FS_AddElement
    <2>4. FreeSet(pool') = FreeSet(pool)
        BY <1>7 DEF FreeSet
    <2> QED
        BY <1>1, <1>3, <1>7, <2>2, <2>3, <2>4 DEF Counts, FreeCountExact
<1>17. WatermarksKnown'
    <2>1. HighWatermark \in Nat /\ LowWatermark \in Nat /\ pool.fillLevel \in Nat
        BY <1>4, PoolAssumption
    <2>2. /\ pool'.fillLevel >= HighWatermark <=>
                pool.fillLevel >= HighWatermark \/ HighWatermark = pool'.fillLevel
          /\ pool'.fillLevel <= LowWatermark <=>
                pool.fillLevel <= LowWatermark /\ LowWatermark + 1 # pool'.fillLevel
        BY <1>7, <2>1
    <2> QED
        BY <1>1, <1>3, <2>2, Zenon DEF WatermarksKnown, TellFilled, HighEntered, LowLeft
<1> QED
    BY <1>11, <1>14, <1>15, <1>16, <1>17 DEF Inv

(* The oldest full buffer leaves from the tail.                              *)
LEMMA GetFullBufferInv ==
    ASSUME Inv, MediaBufQueueGetFullBuffer
    PROVE  Inv'
<1> DEFINE b == pBufArray[tail]
<1>1. TypeOK /\ Ring /\ Counts /\ Locks /\ WatermarksKnown
    BY DEF Inv
<1>2. /\ pool \in Pools /\ BufNum \in Nat \ {0} /\ fullBufsAvail \in 1..BufNum
      /\ head \in Buffers /\ tail \in Buffers
      /\ pBufArray \in [Buffers -> Buffers \union {NoBuffer}] /\ NoBuffer \notin Buffers
    BY <1>1, PoolAssumption DEF TypeOK, Buffers, NoBuffer, MediaBufQueueGetFullBuffer
<1>3. /\ pBufArray' = [pBufArray EXCEPT ![tail] = NoBuffer]
      /\ tail' = Wrap(tail + 1)
      /\ fullBufsAvail' = fullBufsAvail - 1
      /\ held' = [held EXCEPT ![b] = @ + 1]
      /\ UNCHANGED <<pool, head, maxFillLevel, inHigh, inLow>>
    BY DEF MediaBufQueueGetFullBuffer, MediaBufQueueGetFromTail
<1>4. b \in Buffers /\ b \in InArray
    <2>1. Offset(tail) = 0
        BY <1>2, OffsetIs DEF Buffers
    <2> QED
        BY <1>1, <1>2, <2>1 DEF Ring, InArray
<1>5. tail' \in Buffers /\ tail' = IF tail + 1 < BufNum THEN tail + 1 ELSE 0
    BY <1>2, <1>3 DEF Wrap, Buffers
<1>6. \A i \in Buffers : pBufArray'[i] = IF i = tail THEN NoBuffer ELSE pBufArray[i]
    BY <1>2, <1>3
<1>7. \A i, j \in Buffers : pBufArray[i] = pBufArray[j] /\ pBufArray[i] # NoBuffer => i = j
    BY <1>1 DEF Ring
<1> HIDE DEF b
<1>8. InArray' = InArray \ {b}
    <2>1. \A i \in Buffers : pBufArray[i] = b <=> i = tail
        BY <1>2, <1>4, <1>7 DEF b
    <2> QED
        BY <1>2, <1>4, <1>6, <2>1 DEF InArray
<1>9. Ring'
    <2>1. head' = (tail' + fullBufsAvail') % BufNum
        <3>1. PICK x \in 0..(2 * BufNum - 1) : x = tail + fullBufsAvail
            BY <1>2 DEF Buffers
        <3>2. head = IF x < BufNum THEN x ELSE x - BufNum
            BY <1>1, <3>1, ModOnce DEF Ring
        <3>3. PICK y \in 0..(2 * BufNum - 1) : y = tail' + fullBufsAvail - 1
            BY <1>2, <1>5 DEF Buffers
        <3>4. y % BufNum = IF y < BufNum THEN y ELSE y - BufNum
            BY ModOnce
        <3>5. head = y % BufNum
            BY <1>2, <1>5, <3>1, <3>2, <3>3, <3>4 DEF Buffers
        <3>6. tail' + fullBufsAvail' = y
            BY <1>2, <1>3, <1>5, <3>3 DEF Buffers
        <3> QED
            BY <1>3, <3>5, <3>6
    <2>2. ASSUME NEW i \in Buffers
          PROVE  pBufArray'[i] # NoBuffer <=> Offset(i)' < fullBufsAvail'
        <3>1. Offset(i) = IF i >= tail THEN i - tail ELSE i - tail + BufNum
            BY <1>2, OffsetIs
        <3>2. Offset(i)' = IF i >= tail' THEN i - tail' ELSE i - tail' + BufNum
            <4> DEFINE z == i - tail' + BufNum
            <4>a. z \in 0..(2 * BufNum - 1)
                BY <1>2, <1>5 DEF Buffers
            <4>1. PICK x \in 0..(2 * BufNum - 1) : x = i - tail' + BufNum
                BY <4>a
            <4>2. x % BufNum = IF x < BufNum THEN x ELSE x - BufNum
                BY ModOnce
            <4>3. Offset(i)' = x % BufNum
                BY <4>1 DEF Offset
            <4> QED
                BY <1>2, <1>5, <4>1, <4>2, <4>3 DEF Buffers
        <3>3. CASE i = tail
            <4>1. Offset(i)' = BufNum - 1
                BY <1>2, <1>5, <3>2, <3>3 DEF Buffers
            <4> QED
                BY <1>2, <1>3, <1>6, <3>3, <4>1
        <3>4. CASE i # tail
            <4>1. Offset(i)' = Offset(i) - 1 /\ Offset(i) \in Nat
                BY <1>2, <1>5, <3>1, <3>2, <3>4 DEF Buffers
            <4>2. pBufArray[i] # NoBuffer <=> Offset(i) < fullBufsAvail
                BY <1>1 DEF Ring
            <4> QED
                BY <1>2, <1>3, <1>6, <3>4, <4>1, <4>2
        <3> QED
            BY <3>3, <3>4
    <2>3. \A i, j \in Buffers : pBufArray'[i] = pBufArray'[j] /\ pBufArray'[i] # NoBuffer => i = j
        BY <1>6, <1>7
    <2> QED
        BY <2>1, <2>2, <2>3 DEF Ring
<1>10. TypeOK'
    <2>1. held' \in [Buffers -> Nat] /\ pBufArray' \in [Buffers -> Buffers \union {NoBuffer}]
        BY <1>1, <1>2, <1>3, <1>4 DEF TypeOK
    <2>2. fullBufsAvail' \in 0..BufNum
        BY <1>2, <1>3
    <2> QED
        BY <1>1, <1>3, <1>5, <2>1, <2>2 DEF TypeOK
<1>11. Locks'
    BY <1>1, <1>2, <1>3, <1>4, <1>8 DEF Locks, TypeOK, Pools, InArray
<1>12. Counts'
    <2>1. IsFiniteSet(InArray)
        BY BufferSets DEF InArray
    <2>2. Cardinality(InArray') = Cardinality(InArray) - 1
        BY <1>4, <1>8, <2>1, FS_RemoveElement
    <2> QED
        BY <1>1, <1>3, <2>2 DEF Counts, FreeCountExact
<1>13. WatermarksKnown'
    BY <1>1, <1>3 DEF WatermarksKnown
<1> QED
    BY <1>9, <1>10, <1>11, <1>12, <1>13 DEF Inv

(* A flush frees the queued buffers with all their locks: the references of  *)
(* clients to them are void.                                                 *)
LEMMA FlushInv ==
    ASSUME Inv, MediaBufQueueFlush
    PROVE  Inv'
<1> DEFINE S == InArray
           f == [b \in Buffers |-> IF b \in S THEN 0 ELSE pool.lockCount[b]]
           g == [b \in Buffers |-> b \notin S /\ pool.isFull[b]]
           m == pool.fillLevel - Cardinality(S)
<1>1. TypeOK /\ Ring /\ Counts /\ Locks /\ WatermarksKnown
    BY DEF Inv
<1>2. /\ pool \in Pools /\ BufNum \in Nat \ {0} /\ fullBufsAvail \in 0..BufNum
      /\ head \in Buffers /\ tail \in Buffers
      /\ pBufArray \in [Buffers -> Buffers \union {NoBuffer}] /\ NoBuffer \notin Buffers
    BY <1>1, PoolAssumption DEF TypeOK, Buffers, NoBuffer
<1>3. Queued = S
    BY <1>1, QueuedInArray
<1>4. S \subseteq Buffers /\ S \subseteq Filled(pool) /\ \A b \in S : pool.isFull[b]
    BY <1>1, FillLevels DEF InArray, Locks
<1>5. {b \in S : pool.isFull[b]} = S
    BY <1>4
<1>6. IsFiniteSet(S) /\ Cardinality(S) = fullBufsAvail /\ m \in Nat
    <2>1. IsFiniteSet(S) /\ Cardinality(S) = fullBufsAvail
        BY <1>1, <1>4, BufferSets DEF Counts
    <2>2. fullBufsAvail <= pool.fillLevel /\ pool.fillLevel \in Nat
        BY FillLevels
    <2> QED
        BY <1>2, <2>1, <2>2
<1>7. /\ pool' = [pool EXCEPT !.lockCount = f, !.isFull = g,
                              !.freeBufNum = @ + Cardinality(S), !.fillLevel = m]
      /\ TellFlushed(pool, pool')
      /\ pBufArray' = [i \in Buffers |-> IF pBufArray[i] \in S THEN NoBuffer ELSE pBufArray[i]]
      /\ tail' = (tail + fullBufsAvail) % BufNum
      /\ fullBufsAvail' = 0 /\ maxFillLevel' = 0 /\ head' = head
      /\ held' = [b \in Buffers |-> IF b \in S THEN 0 ELSE held[b]]
    BY <1>3, <1>5 DEF MediaBufQueueFlush, Flushed
<1> HIDE DEF S
<1>8. f \in [Buffers -> 0..(CounterMod - 1)] /\ g \in [Buffers -> BOOLEAN]
    BY <1>2, PoolAssumption DEF Pools
<1> HIDE DEF f, g, m
<1>9. pool' \in Pools
    <2> DEFINE p1 == [pool EXCEPT !.lockCount = f]
               p2 == [p1 EXCEPT !.isFull = g]
               p3 == [p2 EXCEPT !.freeBufNum = pool.freeBufNum + Cardinality(S)]
    <2>1. pool' = [p3 EXCEPT !.fillLevel = m]
        BY <1>7
    <2>2. p1 \in Pools
        BY <1>2, <1>8, PoolMaps
    <2> HIDE DEF p1
    <2>3. p2 \in Pools
        BY <1>8, <2>2, PoolMaps
    <2> HIDE DEF p2
    <2>4. pool.freeBufNum + Cardinality(S) \in Nat
        BY <1>2, <1>6 DEF Pools
    <2>5. p3 \in Pools
        BY <2>3, <2>4, PoolUpdates
    <2> HIDE DEF p3
    <2> QED
        BY <1>6, <2>1, <2>5, PoolUpdates
<1>10. /\ pool'.lockCount = f /\ pool'.isFull = g /\ pool'.fillLevel = m
       /\ pool'.freeBufNum = pool.freeBufNum + Cardinality(S)
    BY <1>2, <1>7 DEF Pools
<1>11. tail' = head
    BY <1>1, <1>7 DEF Ring
<1>12. \A i \in Buffers : pBufArray'[i] = NoBuffer
    <2>1. \A i \in Buffers : pBufArray[i] = NoBuffer \/ pBufArray[i] \in S
        BY <1>2 DEF S, InArray
    <2>2. pBufArray' = [i \in Buffers |-> IF pBufArray[i] \in S THEN NoBuffer ELSE pBufArray[i]]
        BY <1>7
    <2> QED
        BY <2>1, <2>2
<1>13. InArray' = {}
    BY <1>2, <1>12 DEF InArray
<1>14. Ring'
    <2>1. head' = (tail' + fullBufsAvail') % BufNum
        <3>1. head \in 0..(2 * BufNum - 1)
            BY <1>2 DEF Buffers
        <3>2. head % BufNum = head
            <4>1. head % BufNum = IF head < BufNum THEN head ELSE head - BufNum
                BY <3>1, ModOnce
            <4>2. head < BufNum
                BY <1>2 DEF Buffers
            <4> QED
                BY <4>1, <4>2
        <3>3. tail' + fullBufsAvail' = head
            BY <1>2, <1>7, <1>11 DEF Buffers
        <3> QED
            BY <1>7, <3>2, <3>3
    <2>2. ASSUME NEW i \in Buffers PROVE ~ (Offset(i)' < fullBufsAvail')
        <3> DEFINE z == i - head + BufNum
        <3>1. z \in 0..(2 * BufNum - 1)
            BY <1>2 DEF Buffers
        <3> HIDE DEF z
        <3>2. z % BufNum \in Buffers
            BY <3>1, ModOnce
        <3>3. Offset(i)' = z % BufNum
            BY <1>11 DEF Offset, z
        <3> QED
            BY <1>2, <1>7, <3>2, <3>3 DEF Buffers
    <2> QED
        BY <1>12, <2>1, <2>2 DEF Ring
<1>15. TypeOK'
    <2>1. inHigh' \in BOOLEAN /\ inLow' \in BOOLEAN
        BY <1>7, Zenon DEF TellFlushed
    <2>2. pBufArray' \in [Buffers -> Buffers \union {NoBuffer}]
        BY <1>2, <1>7
    <2>3. fullBufsAvail' \in 0..BufNum /\ maxFillLevel' \in 0..BufNum
        BY <1>2, <1>7
    <2>4. held' \in [Buffers -> Nat]
        BY <1>1, <1>7 DEF TypeOK
    <2> QED
        BY <1>1, <1>2, <1>7, <1>9, <1>11, <2>1, <2>2, <2>3, <2>4 DEF TypeOK
<1>16. Locks'
    <2>1. \A b \in Buffers : pool'.lockCount[b] = IF b \in S THEN 0 ELSE pool.lockCount[b]
        BY <1>10 DEF f
    <2>2. \A b \in Buffers : held'[b] = IF b \in S THEN 0 ELSE held[b]
        BY <1>7
    <2>3. \A b \in Buffers : b \notin S => pool.lockCount[b] = held[b]
        BY <1>1 DEF Locks, S, TypeOK
    <2> QED
        BY <1>1, <1>13, <2>1, <2>2, <2>3 DEF Locks, TypeOK
<1>17. Counts'
    <2>1. FreeSet(pool') = FreeSet(pool) \union S /\ FreeSet(pool) \intersect S = {}
        BY <1>4, <1>10 DEF f, FreeSet, Filled
    <2>2. Filled(pool) = Filled(pool') \union S /\ Filled(pool') \intersect S = {}
        BY <1>4, <1>10 DEF f, g, Filled
    <2>3. FreeSet(pool) \in SUBSET Buffers /\ Filled(pool') \in SUBSET Buffers
        BY DEF FreeSet, Filled
    <2>4. Cardinality(FreeSet(pool')) = Cardinality(FreeSet(pool)) + Cardinality(S)
        BY <1>4, <2>1, <2>3, DisjointSets
    <2>5. Cardinality(Filled(pool)) = Cardinality(Filled(pool')) + Cardinality(S)
        BY <1>4, <2>2, <2>3, DisjointSets
    <2>6. pool'.fillLevel = Cardinality(Filled(pool'))
        <3>1. Cardinality(Filled(pool')) \in Nat /\ Cardinality(S) \in Nat
            BY <1>4, <2>3, BufferSets, PoolAssumption
        <3>2. pool'.fillLevel = Cardinality(Filled(pool)) - Cardinality(S)
            BY <1>1, <1>10 DEF Counts, m
        <3> QED
            BY <2>5, <3>1, <3>2
    <2> QED
        BY <1>1, <1>7, <1>10, <1>13, <2>4, <2>6, FS_EmptySet DEF Counts, FreeCountExact
<1>18. WatermarksKnown'
    <2>1. /\ HighWatermark \in Nat /\ LowWatermark \in Nat
          /\ pool.fillLevel \in Nat /\ pool'.fillLevel \in Nat /\ pool'.fillLevel <= pool.fillLevel
        BY <1>2, <1>6, <1>9, <1>10, PoolAssumption DEF Pools, m
    <2> DEFINE Passed == pool'.fillLevel..(pool.fillLevel - 1)
    <2>2. HighWatermark # 0 =>
              (pool'.fillLevel >= HighWatermark <=>
                  pool.fillLevel >= HighWatermark /\ ~ (HighWatermark # 0 /\ HighWatermark - 1 \in Passed))
        BY <2>1
    <2>3. LowWatermark # 0 =>
              (pool'.fillLevel <= LowWatermark <=>
                  pool.fillLevel <= LowWatermark \/ LowWatermark \in Passed \ {0})
        BY <2>1
    <2>4. /\ inLow'  = (inLow \/ LowWatermark \in Passed \ {0})
          /\ inHigh' = (inHigh /\ ~ (HighWatermark # 0 /\ HighWatermark - 1 \in Passed))
        BY <1>7, Zenon DEF TellFlushed
    <2> HIDE DEF Passed
    <2> QED
        BY <1>1, <2>2, <2>3, <2>4, Zenon DEF WatermarksKnown
<1> QED
    BY <1>14, <1>15, <1>16, <1>17, <1>18 DEF Inv

(* A reset starts again without any lock: isFull, which it leaves, is of     *)
(* free buffers only then, and every reference is void.                      *)
LEMMA ResetInv ==
    ASSUME Inv, MediaBufQueueReset
    PROVE  Inv'
<1>1. TypeOK
    BY DEF Inv
<1>2. /\ pool \in Pools /\ BufNum \in Nat \ {0} /\ 0 \in Buffers /\ NoBuffer \notin Buffers
      /\ HighWatermark \in Nat /\ LowWatermark \in Nat
    BY <1>1, PoolAssumption DEF TypeOK, Buffers, NoBuffer
<1>3. /\ pool' = PoolReset(pool)
      /\ pBufArray' = [i \in Buffers |-> NoBuffer]
      /\ head' = 0 /\ tail' = 0 /\ fullBufsAvail' = 0 /\ maxFillLevel' = 0
      /\ held' = [b \in Buffers |-> 0]
    BY DEF MediaBufQueueReset
<1>4. inHigh' = FALSE /\ inLow' = TRUE
    BY Zenon DEF MediaBufQueueReset
<1>5. pool' \in Pools /\ FreeCountExact(pool')
    BY <1>2, <1>3, NewPoolCounts
<1>6. pool'.fillLevel = 0 /\ \A b \in Buffers : pool'.lockCount[b] = 0
    BY <1>3 DEF PoolReset, NewPool
<1>7. InArray' = {} /\ Filled(pool') = {}
    BY <1>2, <1>3, <1>6 DEF InArray, Filled
<1>8. TypeOK'
    <2>1. inHigh' \in BOOLEAN /\ inLow' \in BOOLEAN
        BY <1>4, Zenon
    <2>2. pBufArray' \in [Buffers -> Buffers \union {NoBuffer}]
        BY <1>3
    <2> QED
        BY <1>1, <1>2, <1>3, <1>5, <2>1, <2>2 DEF TypeOK
<1>9. Ring'
    <2>1. ASSUME NEW i \in Buffers PROVE ~ (Offset(i)' < fullBufsAvail')
        <3> DEFINE z == i - 0 + BufNum
        <3>1. z \in 0..(2 * BufNum - 1)
            BY <1>2 DEF Buffers
        <3> HIDE DEF z
        <3>2. z % BufNum \in Buffers
            BY <3>1, ModOnce
        <3>3. Offset(i)' = z % BufNum
            BY <1>3 DEF Offset, z
        <3> QED
            BY <1>2, <1>3, <3>2, <3>3 DEF Buffers
    <2>2. head' = (tail' + fullBufsAvail') % BufNum
        BY <1>2, <1>3
    <2>3. \A i \in Buffers : pBufArray'[i] = NoBuffer
        BY <1>3
    <2> QED
        BY <2>1, <2>2, <2>3 DEF Ring
<1>10. Counts'
    BY <1>3, <1>5, <1>6, <1>7, FS_EmptySet DEF Counts
<1>11. Locks'
    BY <1>3, <1>6, <1>7 DEF Locks
<1>12. WatermarksKnown'
    <2>1. (HighWatermark # 0 => ~ (pool'.fillLevel >= HighWatermark))
          /\ (LowWatermark # 0 => pool'.fillLevel <= LowWatermark)
        BY <1>2, <1>6
    <2> QED
        BY <1>4, <2>1, Zenon DEF WatermarksKnown
<1> QED
    BY <1>8, <1>9, <1>10, <1>11, <1>12 DEF Inv

-----------------------------------------------------------------------------
(* Every step of the queue and its clients keeps the invariant.              *)
LEMMA NextInv == Inv /\ [Next]_vars => Inv'
<1> SUFFICES ASSUME Inv, [Next]_vars PROVE Inv'
    OBVIOUS
<1>1. CASE MediaBufQueueGetEmptyBuffer
    BY <1>1, GetEmptyBufferInv
<1>2. CASE MediaBufQueueGetFullBuffer
    BY <1>2, GetFullBufferInv
<1>3. ASSUME NEW b \in Buffers, UseBuffer(b) PROVE Inv'
    BY <1>3, PutFullBufferInv, LockBufferInv, ReleaseBufferInv DEF UseBuffer
<1>4. CASE MediaBufQueueFlush
    BY <1>4, FlushInv
<1>5. CASE MediaBufQueueReset
    BY <1>5, ResetInv
<1>6. CASE UNCHANGED vars
    <2>1. UNCHANGED <<pool, queue, maxFillLevel, held, inHigh, inLow>>
        BY <1>6 DEF vars, clients
    <2>2. Ring' /\ InArray' = InArray
        BY <2>1, RingStays DEF Inv
    <2>3. TypeOK' /\ WatermarksKnown'
        BY <2>1 DEF Inv, TypeOK, WatermarksKnown, queue
    <2>4. Counts' /\ Locks'
        BY <2>1, <2>2 DEF Inv, Counts, Locks, Filled, FreeCountExact, queue
    <2> QED
        BY <2>2, <2>3, <2>4 DEF Inv
<1> QED
    BY <1>1, <1>2, <1>3, <1>4, <1>5, <1>6 DEF Next, Transfer

(* The invariant holds of every behaviour.                                   *)
LEMMA SpecInv == Spec => []Inv
BY InitInv, NextInv, PTL DEF Spec

(* Values keep their types; in particular neither the positions nor the      *)
(* counters leave their ranges.                                              *)
THEOREM TypeCorrect == Spec => []TypeOK
<1>1. Inv => TypeOK
    BY DEF Inv
<1> QED
    BY <1>1, SpecInv, PTL

(* The free counter of the pool is exact, so that the scan for a free buffer *)
(* ends whenever it is started.                                              *)
THEOREM FreeCounterExact == Spec => []FreeCounted
<1>1. Inv => FreeCounted
    BY DEF Inv, Counts, FreeCounted
<1> QED
    BY <1>1, SpecInv, PTL

(* Each lock is a client's or the queue's own, after a flush or a reset in   *)
(* any state too.                                                            *)
THEOREM LocksAccountedFor == Spec => []LocksHonoured
<1>1. Inv => LocksHonoured
    BY QueuedInArray DEF Inv, Locks, LocksHonoured
<1> QED
    BY <1>1, SpecInv, PTL

(* Positions, array and counters describe one queue.                         *)
THEOREM QueueShapeKept == Spec => []QueueShape
<1>1. Inv => QueueShape
    <2> SUFFICES ASSUME Inv PROVE QueueShape
        OBVIOUS
    <2>1. TypeOK /\ Ring /\ Counts /\ Locks
        BY DEF Inv
    <2>2. Queued = InArray
        BY <2>1, QueuedInArray
    <2>3. fullBufsAvail <= pool.fillLevel /\ pool.fillLevel \in 0..BufNum
          /\ (pool.fillLevel < BufNum => fullBufsAvail < BufNum)
        BY FillLevels
    <2>4. ~ IsFull => pBufArray[head] = NoBuffer
        BY HeadSlot
    <2> QED
        BY <2>1, <2>2, <2>3, <2>4
           DEF QueueShape, Ring, Offset, Counts, Filled, Locks
<1> QED
    BY <1>1, SpecInv, PTL

(* The critical region events tell the fill level apart.                     *)
THEOREM WatermarksFollowed == Spec => []WatermarksKnown
<1>1. Inv => WatermarksKnown
    BY DEF Inv
<1> QED
    BY <1>1, SpecInv, PTL

-----------------------------------------------------------------------------
\* The queue as a sequence, for the proof that it implements BufferExchange.
FullIsSequence == /\ Full \in Seq(Buffers) /\ Len(Full) = fullBufsAvail
                  /\ \A n \in 1..fullBufsAvail :
                        /\ (tail + n - 1) % BufNum \in Buffers
                        /\ Offset((tail + n - 1) % BufNum) = n - 1
                        /\ Full[n] = pBufArray[(tail + n - 1) % BufNum]
                  /\ Exchange!Queued = InArray

(* The window is a sequence of buffers, and what it has is in the array.     *)
LEMMA FullSequence == Inv => FullIsSequence
<1> SUFFICES ASSUME Inv PROVE FullIsSequence
    OBVIOUS
<1>1. /\ TypeOK /\ Ring /\ BufNum \in Nat \ {0} /\ tail \in Buffers /\ fullBufsAvail \in 0..BufNum
      /\ pBufArray \in [Buffers -> Buffers \union {NoBuffer}]
    BY PoolAssumption DEF Inv, TypeOK
<1>2. ASSUME NEW n \in 1..fullBufsAvail
      PROVE  /\ (tail + n - 1) % BufNum \in Buffers
             /\ Offset((tail + n - 1) % BufNum) = n - 1
             /\ Full[n] = pBufArray[(tail + n - 1) % BufNum]
             /\ Full[n] \in Buffers
    <2>1. PICK x \in 0..(2 * BufNum - 1) : x = tail + n - 1
        BY <1>1 DEF Buffers
    <2> DEFINE k == x % BufNum
    <2>2. k \in Buffers /\ k = IF x < BufNum THEN x ELSE x - BufNum
        BY ModOnce
    <2>3. k = (tail + n - 1) % BufNum
        BY <2>1
    <2>4. Full[n] = pBufArray[k]
        BY <2>1 DEF Full
    <2> HIDE DEF k
    <2>5. Offset(k) = IF k >= tail THEN k - tail ELSE k - tail + BufNum
        BY <1>1, <2>2, OffsetIs
    <2>6. Offset(k) = n - 1
        BY <1>1, <2>1, <2>2, <2>5 DEF Buffers
    <2>7. pBufArray[k] \in Buffers
        BY <1>1, <2>2, <2>6 DEF Ring
    <2> QED
        BY <2>2, <2>3, <2>4, <2>6, <2>7
<1>3. Full \in [1..fullBufsAvail -> Buffers]
    BY <1>2 DEF Full
<1>4. Full \in Seq(Buffers)
    BY <1>1, <1>3, SeqDef
<1>5. Len(Full) = fullBufsAvail /\ DOMAIN Full = 1..fullBufsAvail
    BY <1>1, <1>3, <1>4, LenProperties
<1>6. Exchange!Queued = Queued
    BY <1>5 DEF Exchange!Queued, Queued
<1>7. Queued = InArray
    BY <1>1, QueuedInArray
<1> QED
    BY <1>2, <1>4, <1>5, <1>6, <1>7 DEF FullIsSequence

(* The same after a step.                                                    *)
LEMMA FullSequenceNext == Inv' => FullIsSequence'
BY FullSequence, PTL

(* Without a change of the array the sequence is the same.                   *)
LEMMA FullStays ==
    ASSUME UNCHANGED queue
    PROVE  Full' = Full
BY DEF queue, Full

(* A buffer put at the head is appended.                                     *)
LEMMA FullAppended ==
    ASSUME Inv, Inv', NEW b \in Buffers, MediaBufQueuePutFullBuffer(b)
    PROVE  Full' = Append(Full, b)
<1>1. FullIsSequence /\ FullIsSequence'
    BY FullSequence, FullSequenceNext
<1>2. /\ BufNum \in Nat \ {0} /\ tail \in Buffers /\ head \in Buffers
      /\ fullBufsAvail \in 0..BufNum /\ fullBufsAvail + 1 \in 0..BufNum
      /\ tail' = tail /\ fullBufsAvail' = fullBufsAvail + 1
      /\ pBufArray' = [pBufArray EXCEPT ![head] = b]
      /\ pBufArray \in [Buffers -> Buffers \union {NoBuffer}]
    BY PoolAssumption
       DEF Inv, TypeOK, MediaBufQueuePutFullBuffer, MediaBufQueueInsertInHead
<1>3. head = (tail + fullBufsAvail) % BufNum
    BY DEF Inv, Ring
<1>4. Full' \in Seq(Buffers) /\ Append(Full, b) \in Seq(Buffers)
      /\ Len(Full') = fullBufsAvail + 1 /\ Len(Append(Full, b)) = fullBufsAvail + 1
    BY <1>1, <1>2, AppendProperties DEF FullIsSequence
<1>5. ASSUME NEW n \in 1..(fullBufsAvail + 1)
      PROVE  Full'[n] = Append(Full, b)[n]
    <2>1. Full'[n] = pBufArray'[(tail + n - 1) % BufNum]
        BY <1>1, <1>2 DEF FullIsSequence
    <2>2. CASE n = fullBufsAvail + 1
        <3>1. (tail + n - 1) % BufNum = head
            BY <1>2, <1>3, <2>2 DEF Buffers
        <3>2. Append(Full, b)[n] = b
            BY <1>1, <2>2, AppendProperties DEF FullIsSequence
        <3> QED
            BY <1>2, <2>1, <3>1, <3>2
    <2>3. CASE n # fullBufsAvail + 1
        <3> DEFINE k == (tail + n - 1) % BufNum
        <3>1. n \in 1..fullBufsAvail
            BY <1>2, <2>3
        <3>2. k \in Buffers /\ Offset(k) = n - 1 /\ Full[n] = pBufArray[k]
            BY <1>1, <3>1 DEF FullIsSequence
        <3>3. Append(Full, b)[n] = Full[n]
            BY <1>1, <1>2, <3>1, AppendProperties DEF FullIsSequence
        <3>4. k # head
            <4>1. pBufArray[head] = NoBuffer /\ NoBuffer \notin Buffers
                BY HeadSlot DEF MediaBufQueuePutFullBuffer, NoBuffer, Buffers
            <4>2. Full[n] \in Buffers
                BY <1>1, <3>1, ElementOfSeq DEF FullIsSequence
            <4> QED
                BY <3>2, <4>1, <4>2
        <3> HIDE DEF k
        <3>5. pBufArray'[k] = pBufArray[k]
            BY <1>2, <3>2, <3>4
        <3> QED
            BY <2>1, <3>2, <3>3, <3>5 DEF k
    <2> QED
        BY <2>2, <2>3
<1> QED
    BY <1>4, <1>5, SeqEqual

(* The buffer retrieved from the tail was the first.                         *)
LEMMA FullTail ==
    ASSUME Inv, Inv', MediaBufQueueGetFullBuffer
    PROVE  Full # <<>> /\ Full' = Tail(Full)
<1>1. FullIsSequence /\ FullIsSequence'
    BY FullSequence, FullSequenceNext
<1>2. /\ BufNum \in Nat \ {0} /\ tail \in Buffers /\ tail' \in Buffers
      /\ fullBufsAvail \in 1..BufNum /\ fullBufsAvail' = fullBufsAvail - 1
      /\ tail' = Wrap(tail + 1)
      /\ pBufArray' = [pBufArray EXCEPT ![tail] = NoBuffer]
      /\ pBufArray \in [Buffers -> Buffers \union {NoBuffer}]
    BY PoolAssumption
       DEF Inv, TypeOK, MediaBufQueueGetFullBuffer, MediaBufQueueGetFromTail
<1>3. Full # <<>> /\ Len(Full) = fullBufsAvail
    BY <1>1, <1>2, EmptySeq DEF FullIsSequence
<1>4. /\ Full' \in Seq(Buffers) /\ Tail(Full) \in Seq(Buffers)
      /\ Len(Full') = fullBufsAvail - 1 /\ Len(Tail(Full)) = fullBufsAvail - 1
      /\ \A n \in 1..(fullBufsAvail - 1) : Tail(Full)[n] = Full[n + 1]
    BY <1>1, <1>2, <1>3, HeadTailProperties DEF FullIsSequence
<1>5. ASSUME NEW n \in 1..(fullBufsAvail - 1)
      PROVE  Full'[n] = Tail(Full)[n]
    <2> DEFINE k == (tail' + n - 1) % BufNum
    <2>1. k \in Buffers /\ Full'[n] = pBufArray'[k]
        BY <1>1, <1>2 DEF FullIsSequence
    <2>2. n + 1 \in 1..fullBufsAvail
        BY <1>2
    <2>3. /\ (tail + (n + 1) - 1) % BufNum \in Buffers
          /\ Offset((tail + (n + 1) - 1) % BufNum) = (n + 1) - 1
          /\ Full[n + 1] = pBufArray[(tail + (n + 1) - 1) % BufNum]
        BY <1>1, <2>2 DEF FullIsSequence
    <2>4. k = (tail + (n + 1) - 1) % BufNum
        <3>1. PICK x \in 0..(2 * BufNum - 1) : x = tail' + n - 1
            BY <1>2 DEF Buffers
        <3>2. PICK y \in 0..(2 * BufNum - 1) : y = tail + (n + 1) - 1
            BY <1>2 DEF Buffers
        <3>3. /\ x % BufNum = IF x < BufNum THEN x ELSE x - BufNum
              /\ y % BufNum = IF y < BufNum THEN y ELSE y - BufNum
            BY ModOnce
        <3>4. x % BufNum = y % BufNum
            BY <1>2, <3>1, <3>2, <3>3 DEF Wrap, Buffers
        <3> QED
            BY <3>1, <3>2, <3>4
    <2> HIDE DEF k
    <2>5. k # tail
        <3>1. Offset(tail) = 0
            BY <1>2, OffsetIs DEF Buffers
        <3>2. Offset(k) = n
            BY <2>3, <2>4
        <3> QED
            BY <3>1, <3>2
    <2> QED
        BY <1>2, <1>4, <2>1, <2>3, <2>4, <2>5
<1> QED
    BY <1>3, <1>4, <1>5, SeqEqual

(* Seen from outside, every call is a transfer of the exchange or changes    *)
(* nothing: buffers come out in the order they went in, and only free ones   *)
(* are handed out to be filled.                                              *)
THEOREM QueueImplementsExchange == Spec => ImplementsExchange
<1>1. Init => Exchange!Init
    <2> SUFFICES ASSUME Init PROVE Exchange!Init
        OBVIOUS
    <2>1. FreeSet(pool) = Buffers
        BY DEF Init, NewPool, FreeSet
    <2>2. Full = <<>>
        <3>1. Full \in Seq(Buffers) /\ Len(Full) = 0
            BY InitInv, FullSequence DEF FullIsSequence, Init
        <3> QED
            BY <3>1, EmptySeq
    <2> QED
        BY <2>1, <2>2 DEF Exchange!Init
<1>2. Inv /\ Inv' /\ [Next]_vars => [Exchange!Next]_(Exchange!vars)
    <2> SUFFICES ASSUME Inv, Inv', [Next]_vars
                 PROVE  Exchange!Next \/ UNCHANGED Exchange!vars
        OBVIOUS
    <2>1. /\ Exchange!Queued = InArray /\ pool \in Pools /\ held \in [Buffers -> Nat]
          /\ Full \in Seq(Buffers)
          /\ \A b \in Buffers :
                pool.lockCount[b] = held[b] + (IF b \in InArray THEN 1 ELSE 0)
        BY FullSequence DEF FullIsSequence, Inv, TypeOK, Locks
    <2>2. \A b \in Buffers : held[b] > 0 /\ b \notin InArray => b \in Exchange!Outside
        BY <2>1 DEF Exchange!Outside, FreeSet
    <2>3. CASE MediaBufQueueGetEmptyBuffer
        <3> DEFINE b == FirstFree(pool)
        <3>1. Full' = Full
            BY <2>3, FullStays DEF MediaBufQueueGetEmptyBuffer
        <3>2. b \in FreeSet(pool)
            BY <2>3, PoolGetCounts DEF Inv, Counts, TypeOK, MediaBufQueueGetEmptyBuffer
        <3>3. pool'.lockCount = [pool.lockCount EXCEPT ![b] = 1]
            BY <2>1, <2>3 DEF MediaBufQueueGetEmptyBuffer, PoolGet, Pools
        <3> HIDE DEF b
        <3>4. FreeSet(pool') = FreeSet(pool) \ {b}
            BY <2>1, <3>2, <3>3 DEF FreeSet, Pools
        <3> QED
            BY <3>1, <3>2, <3>4 DEF Exchange!Next, Exchange!GetEmpty
    <2>4. CASE MediaBufQueueGetFullBuffer
        <3>1. Full # <<>> /\ Full' = Tail(Full)
            BY <2>4, FullTail
        <3>2. FreeSet(pool') = FreeSet(pool)
            BY <2>4 DEF MediaBufQueueGetFullBuffer, FreeSet
        <3> QED
            BY <3>1, <3>2 DEF Exchange!Next, Exchange!GetFull
    <2>5. ASSUME NEW b \in Buffers, held[b] > 0, ~ pool.isFull[b], MediaBufQueuePutFullBuffer(b)
          PROVE  Exchange!PutFull
        <3>1. b \in Exchange!Outside
            BY <2>2, <2>5 DEF Inv, Locks
        <3>2. Full' = Append(Full, b)
            BY <2>5, FullAppended
        <3>3. pool'.lockCount = pool.lockCount
            BY <2>1, <2>5 DEF MediaBufQueuePutFullBuffer, MediaBufQueueInsertInHead, PoolFilled, Pools
        <3>4. FreeSet(pool') = FreeSet(pool)
            BY <3>3 DEF FreeSet
        <3> QED
            BY <3>1, <3>2, <3>4 DEF Exchange!PutFull
    <2>6. ASSUME NEW b \in Buffers, held[b] > 0, pool.lockCount[b] < CounterMod - 1,
                 MediaBufQueueLockBuffer(b)
          PROVE  UNCHANGED Exchange!vars
        <3>1. Full' = Full
            BY <2>6, FullStays DEF MediaBufQueueLockBuffer
        <3>2. pool.lockCount[b] \in 1..(CounterMod - 2) /\ CounterMod \in Nat
            <4>1. pool.lockCount[b] \in 0..(CounterMod - 1) /\ held[b] \in Nat /\ CounterMod \in Nat
                BY <2>1, PoolAssumption DEF Pools
            <4>2. pool.lockCount[b] = held[b] + (IF b \in InArray THEN 1 ELSE 0)
                BY <2>1
            <4> QED
                BY <2>6, <4>1, <4>2
        <3>3. pool'.lockCount = [pool.lockCount EXCEPT ![b] = (@ + 1) % CounterMod]
            BY <2>1, <2>6 DEF MediaBufQueueLockBuffer, BufLock, Pools
        <3>4. (pool.lockCount[b] + 1) % CounterMod # 0
            BY <3>2
        <3>5. FreeSet(pool') = FreeSet(pool)
            BY <2>1, <3>2, <3>3, <3>4 DEF FreeSet, Pools
        <3> QED
            BY <3>1, <3>5 DEF Exchange!vars
    <2>7. ASSUME NEW b \in Buffers, held[b] > 0, MediaBufQueueReleaseBuffer(b)
          PROVE  Exchange!Release \/ UNCHANGED Exchange!vars
        <3> DEFINE p == [pool EXCEPT !.lockCount[b] = @ - 1]
        <3>1. Full' = Full
            BY <2>7, FullStays DEF MediaBufQueueReleaseBuffer, queue
        <3>2. pool.lockCount[b] \in 1..(CounterMod - 1)
            BY <2>1, <2>7 DEF Pools, MediaBufQueueReleaseBuffer
        <3>3. pool' = IF p.lockCount[b] = 0 THEN PoolFree(p, b) ELSE p
            BY <2>7, Zenon DEF MediaBufQueueReleaseBuffer
        <3>4. p.lockCount = [pool.lockCount EXCEPT ![b] = @ - 1] /\ p.freeBufNum = pool.freeBufNum
            BY <2>1 DEF Pools
        <3>5. p \in Pools
            <4>1. pool.lockCount[b] - 1 \in 0..(CounterMod - 1)
                BY <3>2, PoolAssumption
            <4> QED
                BY <2>1, <4>1, PoolUpdates
        <3> HIDE DEF p
        <3>6. CASE p.lockCount[b] = 0
            <4>1. pool'.lockCount = [p.lockCount EXCEPT ![b] = 0]
                BY <3>3, <3>5, <3>6 DEF PoolFree, Pools
            <4>2. FreeSet(pool') = FreeSet(pool) \union {b}
                BY <2>1, <3>4, <4>1 DEF FreeSet, Pools
            <4>3. pool.lockCount[b] = 1
                BY <2>1, <3>2, <3>4, <3>6, PoolAssumption DEF Pools
            <4>4. b \in Exchange!Outside
                BY <2>1, <2>2, <2>7, <4>3
            <4> QED
                BY <3>1, <4>2, <4>4 DEF Exchange!Release
        <3>7. CASE p.lockCount[b] # 0
            <4>1. FreeSet(pool') = FreeSet(pool)
                BY <2>1, <3>2, <3>3, <3>4, <3>7 DEF FreeSet, Pools
            <4> QED
                BY <3>1, <4>1 DEF Exchange!vars
        <3> QED
            BY <3>6, <3>7
    <2>8. CASE MediaBufQueueFlush
        <3>1. Queued = InArray
            BY QueuedInArray DEF Inv
        <3>2. pool'.lockCount = [b \in Buffers |-> IF b \in Queued THEN 0 ELSE pool.lockCount[b]]
            BY <2>1, <2>8 DEF MediaBufQueueFlush, Flushed, Pools
        <3>3. FreeSet(pool') = FreeSet(pool) \union InArray
            BY <3>1, <3>2 DEF FreeSet, InArray
        <3>4. Full' = <<>>
            <4>1. Full' \in Seq(Buffers) /\ Len(Full') = 0
                BY <2>8, FullSequenceNext DEF FullIsSequence, MediaBufQueueFlush
            <4> QED
                BY <4>1, EmptySeq
        <3> QED
            BY <2>1, <3>3, <3>4 DEF Exchange!Next, Exchange!Flush
    <2>9. CASE MediaBufQueueReset
        <3>1. FreeSet(pool') = Buffers
            BY <2>9 DEF MediaBufQueueReset, PoolReset, NewPool, FreeSet
        <3>2. Full' = <<>>
            <4>1. Full' \in Seq(Buffers) /\ Len(Full') = 0
                BY <2>9, FullSequenceNext DEF FullIsSequence, MediaBufQueueReset
            <4> QED
                BY <4>1, EmptySeq
        <3> QED
            BY <3>1, <3>2 DEF Exchange!Next, Exchange!Reset
    <2>10. CASE UNCHANGED vars
        <3>1. Full' = Full /\ pool' = pool
            BY <2>10, FullStays DEF vars
        <3> QED
            BY <3>1 DEF Exchange!vars, FreeSet
    <2> QED
        BY <2>3, <2>4, <2>5, <2>6, <2>7, <2>8, <2>9, <2>10
           DEF Next, Transfer, UseBuffer, Exchange!Next
<1>3. Spec => Exchange!Spec
    BY <1>1, <1>2, NextInv, SpecInv, PTL DEF Spec, Exchange!Spec
<1> QED
    BY <1>3 DEF ImplementsExchange
-----------------------------------------------------------------------------
(* The pool called by any number of threads, one access at a time             *)
(* (MediaBufPoolThreads).  What is proved assumes that they take turns at     *)
(* giving back last references; without it HeldLocked does not hold.          *)

CONSTANTS Callers, MaxHeld, InTurn
VARIABLES shared, refs, at, arg, register

Calls == INSTANCE MediaBufPoolThreads WITH
             Threads <- Callers, pool <- shared, held <- refs, pc <- at,
             buf <- arg, reg <- register

\* What MediaBufPoolThreads assumes of its bounds
CallBounds == /\ MaxHeld \in Nat \ {0}
              /\ CounterMod > MaxHeld /\ CounterMod > BufNum + 1

(* Its operators on a pool are those of this module.                          *)
LEMMA SameOperators ==
    /\ Calls!Buffers = Buffers /\ Calls!NoBuffer = NoBuffer /\ Calls!NewPool = NewPool
    /\ \A i, n : Calls!After(i, n) = After(i, n)
    /\ \A p : /\ Calls!FreeSet(p) = FreeSet(p)
              /\ Calls!FreeCountExact(p) = FreeCountExact(p)
    /\ \A p, b : Calls!BufLock(p, b) = BufLock(p, b)
<1>1. Calls!Buffers = Buffers /\ Calls!NoBuffer = NoBuffer
    BY DEF Calls!Buffers, Buffers, Calls!NoBuffer, NoBuffer
<1>2. Calls!NewPool = NewPool
    BY <1>1 DEF Calls!NewPool, NewPool
<1>3. \A i, n : Calls!After(i, n) = After(i, n)
    BY DEF Calls!After, After
<1>4. \A p : Calls!FreeSet(p) = FreeSet(p)
    BY <1>1 DEF Calls!FreeSet, FreeSet
<1>5. ASSUME NEW p PROVE Calls!FreeCountExact(p) = FreeCountExact(p)
    BY <1>4, Zenon DEF Calls!FreeCountExact, FreeCountExact, Calls!Cardinality, Cardinality
<1>6. ASSUME NEW p, NEW b PROVE Calls!BufLock(p, b) = BufLock(p, b)
    BY DEF Calls!BufLock, BufLock
<1> QED
    BY <1>1, <1>2, <1>3, <1>4, <1>5, <1>6

\* Where a caller is in MediaBufUnlockBuffer and the functions it calls
CallPlaces == {"idle", "free", "count", "check", "scan", "take", "lock"}

\* Buffer b is free, and the counter counts all free buffers but b.
Uncounted(p, b) == /\ b \in Buffers /\ p.lockCount[b] = 0
                   /\ p.freeBufNum = Cardinality(FreeSet(p) \ {b})

\* What the pool is at each place of a call
CallPlace(t) ==
    /\ at[t] \in {"free", "count", "lock"} => Uncounted(shared, arg[t])
    /\ at[t] \in {"check", "scan", "take"} => FreeCountExact(shared)
    /\ at[t] \in {"count", "take"} => register[t] = shared.freeBufNum
    /\ at[t] \in {"scan", "take"} => shared.freeBufNum # 0
    /\ at[t] \in {"take", "lock"} => arg[t] = shared.index /\ shared.index \in FreeSet(shared)

CallTypes == /\ at \in [Callers -> CallPlaces]
             /\ arg \in [Callers -> Buffers \union {NoBuffer}]
             /\ register \in [Callers -> Nat]

\* The threads take turns in the pool.
Alone == \A t, u \in Callers : at[t] # "idle" /\ at[u] # "idle" => t = u

\* mom_ctrl marks no buffer as full.
NoneFull == shared.fillLevel = 0 /\ \A b \in Buffers : ~ shared.isFull[b]

\* A lock is somebody's reference.
RefsCounted == /\ refs \in [Buffers -> 0..MaxHeld]
               /\ \A b \in Buffers : shared.lockCount[b] = refs[b]

PoolShared == shared \in Pools /\ NoneFull /\ RefsCounted

ThreadInv == /\ PoolShared /\ CallTypes /\ Alone
             /\ \A t \in Callers : CallPlace(t)
             /\ Calls!CountedAtRest

(* A lock count that moves while it is not 0 leaves the free buffers alone: a *)
(* thread in the pool finds all as it was.                                    *)
LEMMA CountMoves ==
    ASSUME ThreadInv, CallBounds, NEW b \in Buffers, refs[b] # 0,
           NEW n \in 1..MaxHeld, shared' = [shared EXCEPT !.lockCount[b] = n],
           refs' = [refs EXCEPT ![b] = n], UNCHANGED <<at, register>>,
           \A u \in Callers : at[u] # "idle" => arg'[u] = arg[u],
           arg' \in [Callers -> Buffers \union {NoBuffer}]
    PROVE  ThreadInv'
<1> shared \in Pools /\ NoneFull /\ RefsCounted /\ CallTypes /\ Alone /\ Calls!CountedAtRest
    BY DEF ThreadInv, PoolShared
<1>1. n # 0 /\ n \in 0..(CounterMod - 1) /\ shared.lockCount[b] # 0
    BY PoolAssumption DEF CallBounds, RefsCounted
<1>2. /\ shared'.lockCount = [shared.lockCount EXCEPT ![b] = n]
      /\ shared'.freeBufNum = shared.freeBufNum /\ shared'.isFull = shared.isFull
      /\ shared'.fillLevel = shared.fillLevel /\ shared'.index = shared.index
    BY DEF Pools
<1>3. shared' \in Pools
    BY <1>1, PoolUpdates
<1>4. \A c \in Buffers : shared'.lockCount[c] = 0 <=> shared.lockCount[c] = 0
    BY <1>1, <1>2 DEF Pools
<1>5. FreeSet(shared') = FreeSet(shared)
    BY <1>4 DEF FreeSet
<1>6. PoolShared'
    <2>1. refs' \in [Buffers -> 0..MaxHeld]
        BY DEF RefsCounted, CallBounds
    <2>2. \A c \in Buffers : shared'.lockCount[c] = refs'[c]
        BY <1>2 DEF RefsCounted, Pools
    <2> QED
        BY <1>2, <1>3, <2>1, <2>2 DEF PoolShared, NoneFull, RefsCounted
<1>7. ASSUME NEW u \in Callers PROVE CallPlace(u)'
    <2>1. CallPlace(u) /\ at'[u] = at[u] /\ register'[u] = register[u]
          /\ (at[u] # "idle" => arg'[u] = arg[u])
        BY DEF ThreadInv
    <2>2. \A c : Uncounted(shared, c) => Uncounted(shared', c)
        BY <1>2, <1>4, <1>5 DEF Uncounted
    <2>3. FreeCountExact(shared) => FreeCountExact(shared')
        BY <1>2, <1>5 DEF FreeCountExact
    <2> QED
        BY <1>2, <1>5, <2>1, <2>2, <2>3 DEF CallPlace
<1>8. Calls!CountedAtRest'
    BY SameOperators, <1>2, <1>5 DEF Calls!CountedAtRest, Calls!AtRest, FreeCountExact
<1> QED
    BY <1>6, <1>7, <1>8 DEF ThreadInv, CallTypes, Alone

(* A second lock of a buffer that its caller has                               *)
LEMMA LockStep ==
    ASSUME ThreadInv, NEW t \in Callers, CallBounds, NEW b \in Buffers, Calls!Lock(t, b)
    PROVE  ThreadInv'
<1> RefsCounted /\ CallTypes
    BY DEF ThreadInv, PoolShared
<1> /\ CounterMod \in Nat /\ MaxHeld \in Nat /\ CounterMod > MaxHeld
    BY PoolAssumption DEF CallBounds
<1> DEFINE n == refs[b] + 1
<1>1. /\ refs[b] \in 1..(MaxHeld - 1) /\ refs' = [refs EXCEPT ![b] = n]
      /\ n \in 1..MaxHeld /\ n % CounterMod = n /\ UNCHANGED <<at, arg, register>>
    BY DEF Calls!Lock, RefsCounted
<1>2. shared' = [shared EXCEPT !.lockCount[b] = n]
    BY SameOperators, <1>1 DEF Calls!Lock, BufLock, RefsCounted
<1>3. refs[b] # 0 /\ UNCHANGED <<at, register>>
    BY <1>1
<1>4. /\ \A u \in Callers : at[u] # "idle" => arg'[u] = arg[u]
      /\ arg' \in [Callers -> Buffers \union {NoBuffer}]
    BY <1>1 DEF CallTypes
<1> HIDE DEF n
<1> QED
    BY <1>1, <1>2, <1>3, <1>4, CountMoves

(* What a step in the pool leaves to show: the thread that takes it is alone   *)
(* there.                                                                      *)
LEMMA TurnTaken ==
    ASSUME ThreadInv, NEW t \in Callers, \A u \in Callers \ {t} : at[u] = "idle",
           NEW p \in CallPlaces, at' = [at EXCEPT ![t] = p],
           \/ UNCHANGED arg
           \/ \E b \in Buffers : arg' = [arg EXCEPT ![t] = b],
           \/ UNCHANGED register
           \/ \E n \in Nat : register' = [register EXCEPT ![t] = n],
           PoolShared',
           at'[t] = p => CallPlace(t)',
           p = "idle" => FreeCountExact(shared')
    PROVE  ThreadInv'
<1> CallTypes
    BY DEF ThreadInv
<1>1. at' \in [Callers -> CallPlaces] /\ at'[t] = p /\ \A u \in Callers \ {t} : at'[u] = "idle"
    BY DEF CallTypes
<1>2. arg' \in [Callers -> Buffers \union {NoBuffer}]
    BY DEF CallTypes
<1>3. register' \in [Callers -> Nat]
    BY DEF CallTypes
<1>4. \A u \in Callers \ {t} : CallPlace(u)'
    BY <1>1 DEF CallPlace
<1>5. Alone'
    BY <1>1 DEF Alone
<1>6. Calls!CountedAtRest'
    BY SameOperators, <1>1 DEF Calls!CountedAtRest, Calls!AtRest
<1> QED
    BY <1>1, <1>2, <1>3, <1>4, <1>5, <1>6 DEF ThreadInv, CallTypes

(* The decrement.  The last one, which finds nobody in the pool, puts the      *)
(* thread on its way with a buffer that is free and not counted.               *)
LEMMA UnlockStep ==
    ASSUME ThreadInv, InTurn, NEW t \in Callers, CallBounds, NEW b \in Buffers,
           Calls!Unlock(t, b)
    PROVE  ThreadInv'
<1> shared \in Pools /\ NoneFull /\ RefsCounted /\ CallTypes /\ Calls!CountedAtRest
    BY DEF ThreadInv, PoolShared
<1> DEFINE n == refs[b] - 1
<1>1. /\ CounterMod \in Nat /\ MaxHeld \in Nat /\ CounterMod > MaxHeld
      /\ refs[b] \in 1..MaxHeld /\ n \in 0..(CounterMod - 1) /\ n \in 0..MaxHeld
      /\ refs' = [refs EXCEPT ![b] = n] /\ (n = 0 <=> refs[b] = 1)
      /\ shared.lockCount[b] = refs[b]
    BY PoolAssumption DEF CallBounds, RefsCounted, Calls!Unlock
<1>2. shared' = [shared EXCEPT !.lockCount[b] = n]
    <2>1. (refs[b] + CounterMod - 1) % CounterMod = n
        BY <1>1
    <2> QED
        BY <1>1, <2>1 DEF Calls!Unlock, Calls!Minus1
<1>3. /\ at[t] = "idle" /\ at' = [at EXCEPT ![t] = IF n = 0 THEN "free" ELSE "idle"]
      /\ UNCHANGED register /\ arg' = [arg EXCEPT ![t] = b]
      /\ (n = 0 => Calls!AtRest)
    BY <1>1 DEF Calls!Unlock, Calls!Go
<1> HIDE DEF n
<1>4. CASE n # 0
    <2>1. UNCHANGED at
        BY <1>3, <1>4 DEF CallTypes
    <2>2. arg' \in [Callers -> Buffers \union {NoBuffer}]
          /\ \A u \in Callers : at[u] # "idle" => arg'[u] = arg[u]
        BY <1>3 DEF CallTypes
    <2>3. n \in 1..MaxHeld /\ refs[b] # 0
        BY <1>1, <1>4
    <2> QED
        BY <1>1, <1>2, <1>3, <2>1, <2>2, <2>3, CountMoves
<1>5. CASE n = 0
    <2>1. /\ shared'.lockCount = [shared.lockCount EXCEPT ![b] = n]
          /\ shared'.freeBufNum = shared.freeBufNum /\ shared'.isFull = shared.isFull
          /\ shared'.fillLevel = shared.fillLevel
        BY <1>2 DEF Pools
    <2>2. PoolShared'
        <3>1. shared' \in Pools
            BY <1>1, <1>2, PoolUpdates
        <3>2. refs' \in [Buffers -> 0..MaxHeld]
            BY <1>1 DEF RefsCounted
        <3>3. \A c \in Buffers : shared'.lockCount[c] = refs'[c]
            BY <1>1, <2>1 DEF RefsCounted, Pools
        <3> QED
            BY <2>1, <3>1, <3>2, <3>3 DEF PoolShared, NoneFull, RefsCounted
    <2>3. FreeSet(shared') \ {b} = FreeSet(shared)
        <3>1. shared.lockCount[b] # 0
            BY <1>1
        <3>2. \A c \in Buffers \ {b} : shared'.lockCount[c] = shared.lockCount[c]
            BY <2>1 DEF Pools
        <3> QED
            BY <3>1, <3>2 DEF FreeSet
    <2>4. Uncounted(shared', b)
        <3>1. FreeCountExact(shared)
            BY SameOperators, <1>3, <1>5 DEF Calls!CountedAtRest
        <3> QED
            BY <1>5, <2>1, <2>3, <3>1 DEF Uncounted, FreeCountExact, Pools
    <2>5. "free" \in CallPlaces /\ at' = [at EXCEPT ![t] = "free"] /\ arg'[t] = b
        BY <1>3, <1>5 DEF CallPlaces, CallTypes
    <2>6. \A u \in Callers \ {t} : at[u] = "idle"
        BY <1>3, <1>5 DEF Calls!AtRest
    <2>7. at'[t] = "free" => CallPlace(t)'
        BY <2>4, <2>5 DEF CallPlace
    <2> QED
        BY <1>3, <2>2, <2>5, <2>6, <2>7, TurnTaken
<1> QED
    BY <1>4, <1>5

(* Who takes a step in the pool is alone there.                                *)
LEMMA OthersIdle ==
    ASSUME ThreadInv, NEW t \in Callers, at[t] # "idle"
    PROVE  /\ shared \in Pools /\ NoneFull /\ RefsCounted /\ CallTypes /\ CallPlace(t)
           /\ \A u \in Callers \ {t} : at[u] = "idle"
BY DEF ThreadInv, PoolShared, Alone

(* The lock count is 0 already, so that its clearing changes nothing.         *)
LEMMA FreeClearStep ==
    ASSUME ThreadInv, NEW t \in Callers, CallBounds, Calls!FreeClear(t)
    PROVE  ThreadInv'
<1> DEFINE b == arg[t]
<1>1. at[t] = "free"
    BY DEF Calls!FreeClear, Calls!Go
<1>2. /\ shared \in Pools /\ CallTypes /\ CallPlace(t)
      /\ \A u \in Callers \ {t} : at[u] = "idle"
    BY <1>1, OthersIdle
<1>3. Uncounted(shared, b) /\ shared.freeBufNum \in Nat
    BY <1>1, <1>2 DEF CallPlace, Pools
<1>4. shared' = shared
    <2>1. shared' = [shared EXCEPT !.lockCount[b] = 0]
        BY DEF Calls!FreeClear
    <2>2. [shared.lockCount EXCEPT ![b] = 0] = shared.lockCount
        BY <1>2, <1>3 DEF Uncounted, Pools
    <2> QED
        BY <1>2, <2>1, <2>2 DEF Pools
<1>5. /\ at' = [at EXCEPT ![t] = "count"] /\ "count" \in CallPlaces
      /\ register' = [register EXCEPT ![t] = shared.freeBufNum]
      /\ UNCHANGED <<refs, arg>>
    BY DEF Calls!FreeClear, Calls!Go, CallPlaces
<1>6. at'[t] = "count" => CallPlace(t)'
    BY <1>2, <1>3, <1>4, <1>5 DEF CallPlace, CallTypes
<1>7. PoolShared'
    BY <1>4, <1>5 DEF ThreadInv, PoolShared, NoneFull, RefsCounted
<1> QED
    BY <1>2, <1>3, <1>5, <1>6, <1>7, TurnTaken

(* Nobody else has changed freeBufNum since it was read.                       *)
LEMMA FreeCountStep ==
    ASSUME ThreadInv, NEW t \in Callers, CallBounds, Calls!FreeCount(t)
    PROVE  ThreadInv'
<1> DEFINE b == arg[t]
<1>1. at[t] = "count"
    BY DEF Calls!FreeCount, Calls!Go
<1>2. /\ shared \in Pools /\ NoneFull /\ RefsCounted /\ CallTypes /\ CallPlace(t)
      /\ \A u \in Callers \ {t} : at[u] = "idle"
    BY <1>1, OthersIdle
<1>3. /\ Uncounted(shared, b) /\ b \in Buffers /\ shared.freeBufNum \in Nat
      /\ register[t] = shared.freeBufNum
    BY <1>1, <1>2 DEF CallPlace, Uncounted, Pools
<1>4. shared.freeBufNum \in 0..BufNum
    <2>1. FreeSet(shared) \ {b} \in SUBSET Buffers
        BY DEF FreeSet
    <2> QED
        BY <1>3, <2>1, BufferSets DEF Uncounted
<1>5. Calls!Plus1(register[t]) = shared.freeBufNum + 1
    BY <1>3, <1>4, PoolAssumption DEF CallBounds, Calls!Plus1
<1>6. shared' = [shared EXCEPT !.freeBufNum = shared.freeBufNum + 1, !.isFull[b] = FALSE]
    BY <1>5 DEF Calls!FreeCount
<1>7. /\ shared'.lockCount = shared.lockCount /\ shared'.fillLevel = shared.fillLevel
      /\ shared'.isFull = [shared.isFull EXCEPT ![b] = FALSE]
      /\ shared'.freeBufNum = shared.freeBufNum + 1
    BY <1>2, <1>6 DEF Pools
<1>8. shared' \in Pools
    <2> DEFINE p == [shared EXCEPT !.freeBufNum = shared.freeBufNum + 1]
    <2>1. p \in Pools
        <3>1. shared.freeBufNum + 1 \in Nat
            BY <1>3
        <3> QED
            BY <1>2, <3>1, PoolUpdates
    <2>2. shared' = [p EXCEPT !.isFull[b] = FALSE]
        BY <1>2, <1>6 DEF Pools
    <2> HIDE DEF p
    <2> QED
        BY <1>3, <2>1, <2>2, PoolFlags
<1>9. FreeCountExact(shared')
    <2>1. FreeSet(shared') = FreeSet(shared) /\ b \in FreeSet(shared)
        BY <1>3, <1>7 DEF FreeSet, Uncounted
    <2>2. Cardinality(FreeSet(shared) \ {b}) = Cardinality(FreeSet(shared)) - 1
          /\ Cardinality(FreeSet(shared)) \in Nat
        BY <2>1, BufferSets, FS_RemoveElement, FS_CardinalityType DEF FreeSet
    <2> QED
        BY <1>3, <1>7, <2>1, <2>2 DEF Uncounted, FreeCountExact
<1>10. /\ at' = [at EXCEPT ![t] = "check"] /\ "check" \in CallPlaces
       /\ UNCHANGED <<refs, arg, register>>
    BY DEF Calls!FreeCount, Calls!Go, CallPlaces
<1>11. PoolShared'
    BY <1>2, <1>7, <1>8, <1>10 DEF PoolShared, NoneFull, RefsCounted, Pools
<1>12. at'[t] = "check" => CallPlace(t)'
    BY <1>9 DEF CallPlace
<1> QED
    BY <1>2, <1>10, <1>11, <1>12, TurnTaken

(* The callback finds a free buffer or it has finished.                        *)
LEMMA GetCheckStep ==
    ASSUME ThreadInv, NEW t \in Callers, CallBounds, Calls!GetCheck(t)
    PROVE  ThreadInv'
<1> DEFINE to == IF shared.freeBufNum = 0 THEN "idle" ELSE "scan"
<1>1. at[t] = "check" /\ at' = [at EXCEPT ![t] = to] /\ UNCHANGED <<shared, refs, arg, register>>
    BY DEF Calls!GetCheck, Calls!Go
<1>2. FreeCountExact(shared) /\ \A u \in Callers \ {t} : at[u] = "idle"
    BY <1>1, OthersIdle DEF CallPlace
<1>3. to \in CallPlaces
    BY DEF CallPlaces
<1>4. at'[t] = to => CallPlace(t)'
    BY <1>1, <1>2 DEF CallPlace
<1>5. PoolShared'
    BY <1>1 DEF ThreadInv, PoolShared, NoneFull, RefsCounted
<1> QED
    BY <1>1, <1>2, <1>3, <1>4, <1>5, TurnTaken

(* The scan takes what is free, and moves on over what is not.                 *)
LEMMA GetScanStep ==
    ASSUME ThreadInv, NEW t \in Callers, CallBounds, Calls!GetScan(t)
    PROVE  ThreadInv'
<1>1. at[t] = "scan" /\ UNCHANGED refs
    BY DEF Calls!GetScan, Calls!Go
<1>2. /\ shared \in Pools /\ NoneFull /\ RefsCounted /\ CallTypes /\ CallPlace(t)
      /\ \A u \in Callers \ {t} : at[u] = "idle"
    BY <1>1, OthersIdle
<1>3. FreeCountExact(shared) /\ shared.freeBufNum # 0 /\ shared.freeBufNum \in Nat
      /\ shared.index \in Buffers
    BY <1>1, <1>2 DEF CallPlace, Pools
<1>4. CASE shared.index \in FreeSet(shared)
    <2>1. /\ at' = [at EXCEPT ![t] = "take"] /\ arg' = [arg EXCEPT ![t] = shared.index]
          /\ register' = [register EXCEPT ![t] = shared.freeBufNum] /\ UNCHANGED shared
          /\ "take" \in CallPlaces
        BY SameOperators, <1>4 DEF Calls!GetScan, Calls!Go, CallPlaces
    <2>2. arg'[t] = shared.index /\ register'[t] = shared.freeBufNum
        BY <1>2, <2>1 DEF CallTypes
    <2>3. at'[t] = "take" => CallPlace(t)'
        BY <1>3, <1>4, <2>1, <2>2 DEF CallPlace
    <2>4. PoolShared'
        BY <1>1, <1>2, <2>1 DEF PoolShared, NoneFull, RefsCounted
    <2> QED
        BY <1>2, <1>3, <2>1, <2>3, <2>4, TurnTaken
<1>5. CASE shared.index \notin FreeSet(shared) /\ RingBuffer
    <2>1. at' = [at EXCEPT ![t] = "idle"] /\ UNCHANGED <<shared, arg, register>>
          /\ "idle" \in CallPlaces
        BY SameOperators, <1>5 DEF Calls!GetScan, Calls!Go, CallPlaces
    <2>2. at'[t] = "idle" => CallPlace(t)'
        BY DEF CallPlace
    <2>3. PoolShared'
        BY <1>1, <1>2, <2>1 DEF PoolShared, NoneFull, RefsCounted
    <2> QED
        BY <1>2, <1>3, <2>1, <2>2, <2>3, TurnTaken
<1>6. CASE shared.index \notin FreeSet(shared) /\ ~ RingBuffer
    <2>1. /\ at' = [at EXCEPT ![t] = "scan"] /\ UNCHANGED <<arg, register>>
          /\ shared' = [shared EXCEPT !.index = After(@, 1)]
          /\ "scan" \in CallPlaces
        BY SameOperators, <1>6 DEF Calls!GetScan, Calls!Go, CallPlaces
    <2>2. shared' \in Pools
        <3>1. After(shared.index, 1) \in Buffers
            BY <1>3, ModOnce, PoolAssumption DEF After, Buffers
        <3> QED
            BY <1>2, <2>1, <3>1, PoolUpdates
    <2>3. /\ shared'.lockCount = shared.lockCount /\ shared'.isFull = shared.isFull
          /\ shared'.fillLevel = shared.fillLevel /\ shared'.freeBufNum = shared.freeBufNum
        BY <1>2, <2>1 DEF Pools
    <2>4. FreeCountExact(shared') /\ shared'.freeBufNum # 0
        BY <1>3, <2>3 DEF FreeCountExact, FreeSet
    <2>5. at'[t] = "scan" => CallPlace(t)'
        BY <2>4 DEF CallPlace
    <2>6. PoolShared'
        BY <1>1, <1>2, <2>2, <2>3 DEF PoolShared, NoneFull, RefsCounted
    <2> QED
        BY <1>2, <2>1, <2>5, <2>6, TurnTaken
<1> QED
    BY <1>4, <1>5, <1>6

(* The counter goes down first, and counts the buffer no longer,               *)
LEMMA GetTakeStep ==
    ASSUME ThreadInv, NEW t \in Callers, CallBounds, Calls!GetTake(t)
    PROVE  ThreadInv'
<1> DEFINE b == shared.index
           n == shared.freeBufNum - 1
<1>1. /\ at[t] = "take" /\ at' = [at EXCEPT ![t] = "lock"] /\ "lock" \in CallPlaces
      /\ UNCHANGED <<refs, arg, register>>
    BY DEF Calls!GetTake, Calls!Go, CallPlaces
<1>2. /\ shared \in Pools /\ NoneFull /\ RefsCounted /\ CallTypes /\ CallPlace(t)
      /\ \A u \in Callers \ {t} : at[u] = "idle"
    BY <1>1, OthersIdle
<1>3. /\ FreeCountExact(shared) /\ register[t] = shared.freeBufNum /\ shared.freeBufNum # 0
      /\ arg[t] = b /\ b \in FreeSet(shared) /\ b \in Buffers /\ shared.lockCount[b] = 0
    BY <1>1, <1>2 DEF CallPlace, FreeSet
<1>4. shared.freeBufNum \in 1..BufNum /\ n \in Nat
    <2>1. FreeSet(shared) \in SUBSET Buffers /\ BufNum \in Nat
        BY PoolAssumption DEF FreeSet
    <2>2. shared.freeBufNum \in 0..BufNum
        BY <1>3, <2>1, BufferSets DEF FreeCountExact
    <2> QED
        BY <1>3, <2>1, <2>2
<1>5. Calls!Minus1(register[t]) = n
    BY <1>3, <1>4, PoolAssumption DEF CallBounds, Calls!Minus1
<1>6. shared' = [shared EXCEPT !.freeBufNum = n]
    BY <1>5 DEF Calls!GetTake
<1>7. shared' \in Pools
    BY <1>2, <1>4, <1>6, PoolUpdates
<1>8. /\ shared'.lockCount = shared.lockCount /\ shared'.isFull = shared.isFull
      /\ shared'.fillLevel = shared.fillLevel /\ shared'.freeBufNum = n
      /\ shared'.index = shared.index
    BY <1>2, <1>6 DEF Pools
<1>9. FreeSet(shared') = FreeSet(shared)
    BY <1>8 DEF FreeSet
<1>10. Uncounted(shared', b)
    <2>1. Cardinality(FreeSet(shared) \ {b}) = Cardinality(FreeSet(shared)) - 1
        BY <1>3, BufferSets, FS_RemoveElement DEF FreeSet
    <2> HIDE DEF b
    <2> QED
        BY <1>3, <1>8, <1>9, <2>1 DEF Uncounted, FreeCountExact
<1>11. PoolShared'
    BY <1>1, <1>2, <1>7, <1>8 DEF PoolShared, NoneFull, RefsCounted
<1>12. at'[t] = "lock" => CallPlace(t)'
    BY <1>1, <1>3, <1>8, <1>9, <1>10 DEF CallPlace
<1> QED
    BY <1>1, <1>2, <1>11, <1>12, TurnTaken

(* then the lock count goes up, and nothing is amiss.                          *)
LEMMA GetLockStep ==
    ASSUME ThreadInv, NEW t \in Callers, CallBounds, Calls!GetLock(t)
    PROVE  ThreadInv'
<1> DEFINE b == arg[t]
<1>1. /\ at[t] = "lock" /\ at' = [at EXCEPT ![t] = "idle"] /\ "idle" \in CallPlaces
      /\ UNCHANGED <<arg, register>> /\ refs' = [refs EXCEPT ![b] = @ + 1]
    BY DEF Calls!GetLock, Calls!Go, CallPlaces
<1>2. /\ shared \in Pools /\ NoneFull /\ RefsCounted /\ CallTypes /\ CallPlace(t)
      /\ \A u \in Callers \ {t} : at[u] = "idle"
    BY <1>1, OthersIdle
<1>3. Uncounted(shared, b) /\ b = shared.index /\ b \in Buffers /\ shared.lockCount[b] = 0
    BY <1>1, <1>2 DEF CallPlace, Uncounted
<1>4. shared' = [shared EXCEPT !.lockCount[b] = 1, !.pOwner[b] = TRUE, !.index = After(@, 1)]
    BY SameOperators DEF Calls!GetLock
<1>5. refs' = [refs EXCEPT ![b] = 1] /\ 1 \in 0..MaxHeld
    <2>1. refs[b] = 0
        BY <1>2, <1>3 DEF RefsCounted
    <2> QED
        BY <1>1, <2>1 DEF CallBounds
<1> HIDE DEF b
<1>6. After(b, 1) \in Buffers /\ 1 \in 0..(CounterMod - 1)
    BY <1>3, ModOnce, PoolAssumption DEF After, Buffers
<1>7. /\ shared'.lockCount = [shared.lockCount EXCEPT ![b] = 1]
      /\ shared'.isFull = shared.isFull /\ shared'.fillLevel = shared.fillLevel
      /\ shared'.freeBufNum = shared.freeBufNum
    BY <1>2, <1>4 DEF Pools
<1>8. shared' \in Pools
    <2> DEFINE p1 == [shared EXCEPT !.lockCount[b] = 1]
               p2 == [p1 EXCEPT !.pOwner[b] = TRUE]
    <2>1. p1 \in Pools
        BY <1>2, <1>3, <1>6, PoolUpdates
    <2>2. p1.index = shared.index
        BY <1>2 DEF Pools
    <2> HIDE DEF p1
    <2>3. p2 \in Pools /\ p2.index = shared.index
        <3>1. p2 \in Pools
            BY <1>3, <2>1, PoolFlags
        <3>2. p2.index = p1.index
            BY <2>1 DEF Pools
        <3> QED
            BY <2>2, <3>1, <3>2
    <2>4. shared' = [p2 EXCEPT !.index = After(b, 1)]
        BY <1>2, <1>3, <1>4, <2>2, <2>3 DEF p1, Pools
    <2> HIDE DEF p2
    <2> QED
        BY <1>6, <2>3, <2>4, PoolUpdates
<1>9. FreeCountExact(shared')
    <2>1. FreeSet(shared') = FreeSet(shared) \ {b}
        BY <1>2, <1>3, <1>7 DEF FreeSet, Pools
    <2> QED
        BY <1>3, <1>7, <2>1 DEF Uncounted, FreeCountExact
<1>10. PoolShared'
    <2>1. refs' \in [Buffers -> 0..MaxHeld]
        BY <1>2, <1>5 DEF RefsCounted
    <2>2. \A c \in Buffers : shared'.lockCount[c] = refs'[c]
        BY <1>2, <1>5, <1>7 DEF RefsCounted, Pools
    <2> QED
        BY <1>2, <1>7, <1>8, <2>1, <2>2 DEF PoolShared, NoneFull, RefsCounted
<1>11. at'[t] = "idle" => CallPlace(t)'
    BY DEF CallPlace
<1> QED
    BY <1>1, <1>2, <1>9, <1>10, <1>11, TurnTaken

(* At first every buffer is handed out.                                       *)
LEMMA ThreadInvInit ==
    ASSUME CallBounds, Calls!Init
    PROVE  ThreadInv
<1> BufNum \in Nat \ {0} /\ 1 \in 0..(CounterMod - 1) /\ 1 \in 0..MaxHeld
    BY PoolAssumption DEF CallBounds
<1>1. /\ shared.lockCount = [b \in Buffers |-> 1]
      /\ shared.isFull = [b \in Buffers |-> FALSE] /\ shared.fillLevel = 0
      /\ shared.freeBufNum = 0
    BY SameOperators DEF Calls!Init, NewPool
<1>2. shared \in Pools
    <2>1. 0 \in Buffers
        BY DEF Buffers
    <2>2. shared = [lockCount |-> [b \in Buffers |-> 1], isFull |-> [b \in Buffers |-> FALSE],
                  pOwner |-> [b \in Buffers |-> TRUE], freeBufNum |-> 0, fillLevel |-> 0,
                  index |-> 0]
        BY SameOperators DEF Calls!Init, NewPool
    <2> QED
        BY <2>1, <2>2 DEF Pools
<1>3. Calls!CountedAtRest
    <2>1. FreeSet(shared) = {}
        BY <1>1 DEF FreeSet
    <2> QED
        BY SameOperators, <1>1, <2>1, FS_EmptySet DEF Calls!CountedAtRest, FreeCountExact
<1>4. PoolShared
    BY SameOperators, <1>1, <1>2 DEF Calls!Init, PoolShared, NoneFull, RefsCounted
<1>5. CallTypes /\ \A t \in Callers : at[t] = "idle"
    BY SameOperators DEF Calls!Init, CallTypes, CallPlaces
<1> QED
    BY <1>3, <1>4, <1>5 DEF ThreadInv, Alone, CallPlace

(* So every step keeps the invariant.                                          *)
LEMMA ThreadInvStep ==
    ASSUME CallBounds, InTurn, ThreadInv, [Calls!Next]_(Calls!vars)
    PROVE  ThreadInv'
<1>1. CASE UNCHANGED Calls!vars
    BY <1>1 DEF Calls!vars, ThreadInv, PoolShared, NoneFull, RefsCounted, CallTypes, Alone,
                CallPlace, Calls!CountedAtRest, Calls!AtRest
<1>2. CASE Calls!Next
    BY SameOperators, <1>2, LockStep, UnlockStep, FreeClearStep, FreeCountStep,
       GetCheckStep, GetScanStep, GetTakeStep, GetLockStep DEF Calls!Next, Calls!Run
<1> QED
    BY <1>1, <1>2

(* Threads that take turns at last references: at each place of a call the     *)
(* locks are those of the references, and the counter is off by the buffer in   *)
(* the caller's hands at most, whatever others do to locks meanwhile.           *)
THEOREM ThreadCorrect ==
    ASSUME CallBounds, InTurn
    PROVE  Calls!Spec => []ThreadInv
<1>1. Calls!Init => ThreadInv
    BY ThreadInvInit
<1>2. ThreadInv /\ [Calls!Next]_(Calls!vars) => ThreadInv'
    BY ThreadInvStep
<1> QED
    BY <1>1, <1>2, PTL DEF Calls!Spec

(* A buffer is not free while a client has a reference to it                   *)
(* (media_buffer.h:247), for any number of threads that take turns at last      *)
(* references, of buffers and of references.                                    *)
THEOREM LocksHeld ==
    ASSUME CallBounds, InTurn
    PROVE  Calls!Spec => []Calls!HeldLocked
<1>1. ThreadInv => Calls!HeldLocked
    BY SameOperators DEF CallBounds, ThreadInv, PoolShared, RefsCounted, Calls!HeldLocked
<1> QED
    BY <1>1, ThreadCorrect, PTL

(* No free buffer is forgotten and none counted twice (media_buffer_pool.c:382, *)
(* 476) by threads that take turns at last references.                          *)
THEOREM FreeBuffersCounted ==
    ASSUME CallBounds, InTurn
    PROVE  Calls!Spec => []Calls!CountedAtRest
<1>1. ThreadInv => Calls!CountedAtRest
    BY DEF ThreadInv
<1> QED
    BY <1>1, ThreadCorrect, PTL
==============================================================================
