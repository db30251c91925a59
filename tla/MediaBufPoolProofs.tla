------------------------- MODULE MediaBufPoolProofs -------------------------
(* What the functions of the buffer pool do to its counters, for any number  *)
(* of buffers, and what is in the queues that pass its buffers on: the lemmas *)
(* on which the proofs about the pool's users rest.                          *)
EXTENDS MediaBufPool, FiniteSetTheorems, SequenceTheorems, WellFoundedInduction, TLAPS

(* A set of natural numbers that is not empty has a least element.           *)
LEMMA NatLeast ==
    ASSUME NEW T \in SUBSET Nat, T # {}
    PROVE  \E n \in T : \A m \in T : n <= m
<1> DEFINE R == {ss \in Nat \X Nat : ss[1] < ss[2]}
<1>1. IsWellFoundedOn(R, Nat)
    BY NatLessThanWellFounded DEF OpToRel
<1>2. PICK x \in T : \A y \in T : ~ (<<y, x>> \in R)
    <2> HIDE DEF R
    <2> QED
        BY <1>1, WFMin
<1>3. ASSUME NEW y \in T PROVE x <= y
    <2>1. x \in Nat /\ y \in Nat /\ <<y, x>> \in Nat \X Nat
        OBVIOUS
    <2>2. <<y, x>>[1] = y /\ <<y, x>>[2] = x
        OBVIOUS
    <2>3. ~ (y < x)
        BY <1>2, <2>1, <2>2, Zenon
    <2> QED
        BY <2>1, <2>3
<1> QED
    BY <1>3

(* A ring position that has passed the end at most once.                     *)
LEMMA ModOnce ==
    ASSUME NEW x \in 0..(2 * BufNum - 1)
    PROVE  /\ x % BufNum = IF x < BufNum THEN x ELSE x - BufNum
           /\ x % BufNum \in Buffers
<1> BufNum \in Nat \ {0}
    BY PoolAssumption
<1>1. CASE x < BufNum
    BY <1>1 DEF Buffers
<1>2. CASE x >= BufNum
    BY <1>2 DEF Buffers
<1> QED
    BY <1>1, <1>2

(* There are BufNum buffers, and the counts of sets of them are numbers.     *)
LEMMA BufferSets ==
    /\ IsFiniteSet(Buffers) /\ Cardinality(Buffers) = BufNum
    /\ \A S \in SUBSET Buffers : /\ IsFiniteSet(S)
                                 /\ Cardinality(S) \in 0..BufNum
                                 /\ Cardinality(S) = BufNum => S = Buffers
<1>1. IsFiniteSet(Buffers) /\ Cardinality(Buffers) = BufNum
    BY PoolAssumption, FS_Interval DEF Buffers
<1>2. ASSUME NEW S \in SUBSET Buffers
      PROVE  /\ IsFiniteSet(S) /\ Cardinality(S) \in 0..BufNum
             /\ Cardinality(S) = BufNum => S = Buffers
    <2>1. IsFiniteSet(S) /\ Cardinality(S) <= Cardinality(Buffers)
          /\ (Cardinality(Buffers) = Cardinality(S) => Buffers = S)
        BY <1>1, FS_Subset
    <2>2. Cardinality(S) \in Nat
        BY <2>1, FS_CardinalityType
    <2> QED
        BY <1>1, <2>1, <2>2, PoolAssumption
<1> QED
    BY <1>1, <1>2

(* Sets without a common buffer count separately.                            *)
LEMMA DisjointSets ==
    ASSUME NEW S \in SUBSET Buffers, NEW T \in SUBSET Buffers, S \intersect T = {}
    PROVE  Cardinality(S \union T) = Cardinality(S) + Cardinality(T)
<1>1. /\ IsFiniteSet(S) /\ IsFiniteSet(T)
      /\ Cardinality(S) \in Nat /\ Cardinality(T) \in Nat
    BY BufferSets, PoolAssumption
<1>2. Cardinality(S \union T) = Cardinality(S) + Cardinality(T) - Cardinality(S \intersect T)
    BY <1>1, FS_Union
<1>3. Cardinality(S \intersect T) = 0
    BY FS_EmptySet
<1> QED
    BY <1>1, <1>2, <1>3

(* Changing one field of a pool leaves a pool.                               *)
LEMMA PoolUpdates ==
    ASSUME NEW p \in Pools
    PROVE  /\ \A n \in Nat : /\ [p EXCEPT !.freeBufNum = n] \in Pools
                            /\ [p EXCEPT !.fillLevel = n] \in Pools
           /\ \A b \in Buffers : /\ [p EXCEPT !.index = b] \in Pools
                                /\ \A n \in 0..(CounterMod - 1) :
                                      [p EXCEPT !.lockCount[b] = n] \in Pools
BY DEF Pools

(* So does replacing all lock counts, or all full flags,                      *)
LEMMA PoolMaps ==
    ASSUME NEW p \in Pools
    PROVE  /\ \A f \in [Buffers -> 0..(CounterMod - 1)] : [p EXCEPT !.lockCount = f] \in Pools
           /\ \A f \in [Buffers -> BOOLEAN] : [p EXCEPT !.isFull = f] \in Pools
BY DEF Pools

(* and setting a flag of one buffer.                                         *)
LEMMA PoolFlags ==
    ASSUME NEW p \in Pools, NEW b \in Buffers
    PROVE  /\ [p EXCEPT !.isFull[b] = FALSE] \in Pools
           /\ [p EXCEPT !.isFull[b] = TRUE] \in Pools
           /\ [p EXCEPT !.pOwner[b] = TRUE] \in Pools
BY DEF Pools

\* b is free, n buffers after the index, and none between them is.
FirstAt(p, b, n) == /\ b = After(p.index, n) /\ b \in FreeSet(p)
                    /\ \A m \in 0..(n - 1) : After(p.index, m) \notin FreeSet(p)

(* The scan of MediaBufPoolGetBuffer gets to the first free buffer            *)
LEMMA FirstFreeAt ==
    ASSUME NEW p \in Pools, FreeSet(p) # {}
    PROVE  \E n \in 0..(BufNum - 1) : FirstAt(p, FirstFree(p), n)
<1> DEFINE Steps == {n \in 0..(BufNum - 1) : After(p.index, n) \in FreeSet(p)}
<1> BufNum \in Nat \ {0} /\ p.index \in Buffers
    BY PoolAssumption DEF Pools
<1>1. Steps # {}
    <2>1. PICK b \in Buffers : b \in FreeSet(p)
        BY DEF FreeSet
    <2>2. PICK n \in 0..(BufNum - 1) : p.index + n = b \/ p.index + n = b + BufNum
        <3>1. CASE p.index <= b
            BY <3>1, b - p.index \in 0..(BufNum - 1) DEF Buffers
        <3>2. CASE b < p.index
            BY <3>2, b + BufNum - p.index \in 0..(BufNum - 1) DEF Buffers
        <3> QED
            BY <3>1, <3>2 DEF Buffers
    <2>3. After(p.index, n) = b
        BY <2>2, ModOnce DEF After, Buffers
    <2> QED
        BY <2>1, <2>3
<1>2. PICK n \in Steps : \A m \in Steps : n <= m
    <2>1. Steps \in SUBSET Nat
        OBVIOUS
    <2> QED
        BY <1>1, <2>1, NatLeast
<1>3. \A m \in 0..(n - 1) : After(p.index, m) \notin FreeSet(p)
    BY <1>2
<1>4. After(p.index, n) \in Buffers
    BY DEF FreeSet
<1> QED
    BY <1>3, <1>4 DEF FirstFree, FirstAt

(* and so to a free one.                                                     *)
LEMMA FirstFreeFound ==
    ASSUME NEW p \in Pools, FreeSet(p) # {}
    PROVE  FirstFree(p) \in FreeSet(p)
BY FirstFreeAt DEF FirstAt

(* MediaBufPoolGetBuffer takes one free buffer and counts it.                *)
LEMMA PoolGetCounts ==
    ASSUME NEW p \in Pools, FreeCountExact(p), CanGet(p)
    PROVE  /\ FirstFree(p) \in FreeSet(p)
           /\ PoolGet(p) \in Pools
           /\ FreeCountExact(PoolGet(p))
<1> DEFINE b == FirstFree(p)
           q == PoolGet(p)
<1>1. b \in FreeSet(p)
    <2>1. FreeSet(p) # {}
        BY FS_EmptySet DEF FreeCountExact, CanGet
    <2> QED
        BY <2>1, FirstFreeFound
<1>2. b \in Buffers /\ p.index \in Buffers /\ BufNum \in Nat \ {0} /\ CounterMod \in Nat /\ CounterMod > 2
    BY <1>1, PoolAssumption DEF FreeSet, Pools
<1>3. After(b, 1) \in Buffers
    BY <1>2, ModOnce DEF After, Buffers
<1>4. p.freeBufNum \in Nat /\ p.freeBufNum # 0
    BY DEF Pools, CanGet
<1> HIDE DEF b
<1>5. q = [p EXCEPT !.freeBufNum = @ - 1, !.lockCount[b] = 1, !.pOwner[b] = TRUE,
                    !.index = After(b, 1)]
    BY DEF PoolGet, b
<1>6. q \in Pools
    <2> DEFINE p1 == [p EXCEPT !.freeBufNum = @ - 1]
               p2 == [p1 EXCEPT !.lockCount[b] = 1]
               p3 == [p2 EXCEPT !.pOwner[b] = TRUE]
    <2>1. 1 \in 0..(CounterMod - 1) /\ p.freeBufNum - 1 \in Nat
        BY <1>2, <1>4
    <2>2. q = [p3 EXCEPT !.index = After(b, 1)]
        BY <1>5
    <2>3. p1 \in Pools
        BY <2>1, PoolUpdates
    <2> HIDE DEF p1
    <2>4. p2 \in Pools
        BY <1>2, <2>1, <2>3, PoolUpdates
    <2> HIDE DEF p2
    <2>5. p3 \in Pools
        BY <1>2, <2>4, PoolFlags
    <2> HIDE DEF p3, q
    <2> QED
        BY <1>3, <2>2, <2>5, PoolUpdates
<1>7. FreeSet(q) = FreeSet(p) \ {b}
    BY <1>2, <1>5 DEF FreeSet, Pools
<1>8. FreeCountExact(q)
    <2>1. Cardinality(FreeSet(q)) = Cardinality(FreeSet(p)) - 1
        BY <1>1, <1>7, BufferSets, FS_RemoveElement DEF FreeSet
    <2>2. q.freeBufNum = p.freeBufNum - 1
        BY <1>5 DEF Pools
    <2> QED
        BY <2>1, <2>2 DEF FreeCountExact
<1> QED
    BY <1>1, <1>6, <1>8 DEF b

(* MediaBufPoolFreeBuffer makes the counter exact if it was so but for the   *)
(* buffer it frees.                                                          *)
LEMMA PoolFreeCounts ==
    ASSUME NEW p \in Pools, NEW b \in Buffers,
           p.freeBufNum = Cardinality(FreeSet(p) \ {b})
    PROVE  /\ PoolFree(p, b) \in Pools
           /\ FreeCountExact(PoolFree(p, b))
           /\ FreeSet(PoolFree(p, b)) = FreeSet(p) \union {b}
<1> DEFINE q == PoolFree(p, b)
<1>1. q \in Pools
    <2> DEFINE n  == IF p.isFull[b] /\ p.fillLevel > 0 THEN p.fillLevel - 1 ELSE p.fillLevel
               p1 == [p EXCEPT !.lockCount[b] = 0]
               p2 == [p1 EXCEPT !.freeBufNum = p.freeBufNum + 1]
               p3 == [p2 EXCEPT !.fillLevel = n]
    <2>1. 0 \in 0..(CounterMod - 1) /\ p.freeBufNum + 1 \in Nat /\ n \in Nat
        BY PoolAssumption DEF Pools
    <2>2. q = [p3 EXCEPT !.isFull[b] = FALSE]
        BY DEF PoolFree
    <2> HIDE DEF n
    <2>3. p1 \in Pools
        BY <2>1, PoolUpdates
    <2> HIDE DEF p1
    <2>4. p2 \in Pools
        BY <2>1, <2>3, PoolUpdates
    <2> HIDE DEF p2
    <2>5. p3 \in Pools
        BY <2>1, <2>4, PoolUpdates
    <2> HIDE DEF p3, q
    <2> QED
        BY <2>2, <2>5, PoolFlags
<1>2. FreeSet(q) = (FreeSet(p) \ {b}) \union {b}
    BY DEF FreeSet, PoolFree, Pools
<1>3. Cardinality(FreeSet(q)) = Cardinality(FreeSet(p) \ {b}) + 1
    <2>1. IsFiniteSet(FreeSet(p) \ {b})
        BY BufferSets DEF FreeSet
    <2> QED
        BY <1>2, <2>1, FS_AddElement
<1>4. q.freeBufNum = p.freeBufNum + 1
    BY DEF PoolFree, Pools
<1> QED
    BY <1>1, <1>2, <1>3, <1>4 DEF FreeCountExact

(* A new pool, and one that was reset, counts all its buffers as free.       *)
LEMMA NewPoolCounts ==
    /\ NewPool \in Pools /\ FreeCountExact(NewPool)
    /\ \A p \in Pools : PoolReset(p) \in Pools /\ FreeCountExact(PoolReset(p))
<1> BufNum \in Nat \ {0} /\ 0 \in Buffers /\ 0 \in 0..(CounterMod - 1)
    BY PoolAssumption DEF Buffers
<1>1. NewPool \in Pools
    BY DEF NewPool, Pools
<1>2. FreeSet(NewPool) = Buffers /\ \A p \in Pools : FreeSet(PoolReset(p)) = Buffers
    BY DEF NewPool, PoolReset, FreeSet
<1>3. \A p \in Pools : PoolReset(p) \in Pools /\ PoolReset(p).freeBufNum = BufNum
    BY DEF NewPool, PoolReset, Pools
<1>4. NewPool.freeBufNum = BufNum
    BY DEF NewPool
<1> QED
    BY <1>1, <1>2, <1>3, <1>4, BufferSets DEF FreeCountExact
(* MediaBufUnlockBuffer leaves a pool,                                       *)
LEMMA BufUnlockTyped ==
    ASSUME NEW p \in Pools, NEW b \in Buffers
    PROVE  BufUnlock(p, b) \in Pools
<1> DEFINE n == (p.lockCount[b] + CounterMod - 1) % CounterMod
           q == [p EXCEPT !.lockCount[b] = n]
<1>1. n \in 0..(CounterMod - 1)
    BY PoolAssumption DEF Pools
<1> HIDE DEF n
<1>2. q \in Pools
    BY <1>1, PoolUpdates
<1>3. PoolFree(q, b) \in Pools
    <2> HIDE DEF q
    <2> DEFINE f  == IF q.isFull[b] /\ q.fillLevel > 0 THEN q.fillLevel - 1 ELSE q.fillLevel
               p1 == [q EXCEPT !.lockCount[b] = 0]
               p2 == [p1 EXCEPT !.freeBufNum = q.freeBufNum + 1]
               p3 == [p2 EXCEPT !.fillLevel = f]
    <2>1. 0 \in 0..(CounterMod - 1) /\ q.freeBufNum + 1 \in Nat /\ f \in Nat
        BY <1>2, PoolAssumption DEF Pools
    <2>2. PoolFree(q, b) = [p3 EXCEPT !.isFull[b] = FALSE]
        BY DEF PoolFree
    <2> HIDE DEF f
    <2>3. p1 \in Pools
        BY <1>2, <2>1, PoolUpdates
    <2> HIDE DEF p1
    <2>4. p2 \in Pools
        BY <2>1, <2>3, PoolUpdates
    <2> HIDE DEF p2
    <2>5. p3 \in Pools
        BY <2>1, <2>4, PoolUpdates
    <2> HIDE DEF p3
    <2> QED
        BY <2>2, <2>5, PoolFlags
<1> QED
    <2>1. BufUnlock(p, b) = IF ~ p.pOwner[b] THEN p
                            ELSE IF q.lockCount[b] = 0 THEN PoolFree(q, b) ELSE q
        BY DEF BufUnlock, n
    <2> QED
        BY <1>2, <1>3, <2>1

\* A buffer that is locked knows the pool it goes back to.
Owned(p) == \A b \in Buffers : p.lockCount[b] # 0 => p.pOwner[b]

(* and takes one lock from the buffer.                                       *)
LEMMA BufUnlockLocks ==
    ASSUME NEW p \in Pools, Owned(p), NEW b \in Buffers
    PROVE  /\ \A c \in Buffers \ {b} : BufUnlock(p, b).lockCount[c] = p.lockCount[c]
           /\ p.lockCount[b] # 0 => BufUnlock(p, b).lockCount[b] = p.lockCount[b] - 1
           /\ Owned(BufUnlock(p, b))
<1> DEFINE n == (p.lockCount[b] + CounterMod - 1) % CounterMod
           q == [p EXCEPT !.lockCount[b] = n]
<1>1. /\ p.lockCount[b] \in 0..(CounterMod - 1)
      /\ n \in 0..(CounterMod - 1)
      /\ p.lockCount[b] # 0 => n = p.lockCount[b] - 1
    BY PoolAssumption DEF Pools
<1> HIDE DEF n
<1>2. /\ q.lockCount = [p.lockCount EXCEPT ![b] = n] /\ q.pOwner = p.pOwner
      /\ q.lockCount[b] = n
    BY DEF Pools
<1>3. BufUnlock(p, b) = IF ~ p.pOwner[b] THEN p ELSE IF n = 0 THEN PoolFree(q, b) ELSE q
    BY <1>2 DEF BufUnlock, n
<1>4. n = 0 => /\ PoolFree(q, b).lockCount = [p.lockCount EXCEPT ![b] = n]
               /\ PoolFree(q, b).pOwner = p.pOwner
    <2>1. PoolFree(q, b).lockCount = [q.lockCount EXCEPT ![b] = 0]
          /\ PoolFree(q, b).pOwner = q.pOwner
        BY DEF PoolFree, Pools
    <2> HIDE DEF q
    <2> QED
        BY <1>2, <2>1 DEF Pools
<1> HIDE DEF q
<1>5. CASE ~ p.pOwner[b]
    BY <1>3, <1>5 DEF Owned
<1>6. CASE p.pOwner[b]
    <2>1. /\ BufUnlock(p, b).lockCount = [p.lockCount EXCEPT ![b] = n]
          /\ BufUnlock(p, b).pOwner = p.pOwner
        BY <1>2, <1>3, <1>4, <1>6
    <2>2. \A c \in Buffers :
              [p.lockCount EXCEPT ![b] = n][c] = IF c = b THEN n ELSE p.lockCount[c]
        BY DEF Pools
    <2> QED
        BY <1>1, <1>6, <2>1, <2>2 DEF Owned
<1> QED
    BY <1>5, <1>6

-----------------------------------------------------------------------------
(* The queues that buffers wait in                                           *)

(* What is in a queue once something has been put into it or taken from it.  *)
LEMMA Appended ==
    ASSUME NEW S, NEW s \in Seq(S), NEW e \in S
    PROVE  /\ Append(s, e) \in Seq(S)
           /\ Len(Append(s, e)) = Len(s) + 1
           /\ DOMAIN Append(s, e) = 1..(Len(s) + 1)
           /\ \A i \in DOMAIN s : i \in 1..Len(s) /\ Append(s, e)[i] = s[i]
           /\ Append(s, e)[Len(s) + 1] = e
BY AppendProperties

LEMMA Taken ==
    ASSUME NEW S, NEW s \in Seq(S), s # <<>>
    PROVE  /\ Head(s) \in S /\ Head(s) = s[1]
           /\ Tail(s) \in Seq(S)
           /\ Len(s) \in Nat \ {0} /\ Len(Tail(s)) = Len(s) - 1
           /\ DOMAIN s = 1..Len(s) /\ DOMAIN Tail(s) = 1..(Len(s) - 1)
           /\ \A i \in DOMAIN Tail(s) : i + 1 \in DOMAIN s /\ Tail(s)[i] = s[i + 1]
<1>1. Len(s) \in Nat \ {0} /\ DOMAIN s = 1..Len(s)
    BY EmptySeq
<1>2. Len(Tail(s)) = Len(s) - 1 /\ Tail(s) \in Seq(S) /\ Head(s) \in S
    BY HeadTailProperties
<1>3. DOMAIN Tail(s) = 1..(Len(s) - 1)
    BY <1>2
<1>4. \A i \in DOMAIN Tail(s) : i + 1 \in DOMAIN s /\ Tail(s)[i] = s[i + 1]
    BY <1>1, <1>2, <1>3, HeadTailProperties
<1>5. Head(s) = s[1]
    BY <1>1
<1> QED
    BY <1>1, <1>2, <1>3, <1>4, <1>5

\* Where a sequence holds b
Indices(s, b) == {i \in DOMAIN s : s[i] = b}
Occurs(s, b) == Cardinality({i \in DOMAIN s : s[i] = b})

LEMMA OccursCounts ==
    ASSUME NEW S, NEW s \in Seq(S), NEW b
    PROVE  /\ IsFiniteSet(Indices(s, b)) /\ Occurs(s, b) = Cardinality(Indices(s, b))
           /\ Occurs(s, b) \in Nat
           /\ Occurs(s, b) = 0 <=> b \notin {s[i] : i \in DOMAIN s}
<1>1. IsFiniteSet(1..Len(s)) /\ Indices(s, b) \subseteq 1..Len(s)
    BY FS_Interval DEF Indices
<1>2. IsFiniteSet(Indices(s, b))
    BY <1>1, FS_Subset
<1>3. b \notin {s[i] : i \in DOMAIN s} <=> Indices(s, b) = {}
    BY DEF Indices
<1> QED
    BY <1>2, <1>3, FS_CardinalityType, FS_EmptySet DEF Occurs, Indices

(* How often a queue holds a buffer, once one has been added or taken.       *)
LEMMA OccursAppend ==
    ASSUME NEW S, NEW s \in Seq(S), NEW e \in S, NEW b
    PROVE  Occurs(Append(s, e), b) = Occurs(s, b) + (IF e = b THEN 1 ELSE 0)
<1> DEFINE n == Len(s) + 1
           T == Indices(s, b)
<1>1. n \notin T /\ IsFiniteSet(T) /\ Occurs(s, b) = Cardinality(T) /\ Cardinality(T) \in Nat
    BY OccursCounts DEF Indices
<1>2. Indices(Append(s, e), b) = IF e = b THEN T \union {n} ELSE T
    <2>1. \A i \in 1..n : i \in DOMAIN s \/ i = n
        OBVIOUS
    <2> QED
        BY <2>1, Appended DEF Indices
<1>3. Occurs(Append(s, e), b) = Cardinality(Indices(Append(s, e), b))
    BY DEF Occurs, Indices
<1> HIDE DEF T, n
<1>4. Cardinality(T \union {n}) = Cardinality(T) + 1
    BY <1>1, FS_AddElement
<1> QED
    BY <1>1, <1>2, <1>3, <1>4

LEMMA OccursTail ==
    ASSUME NEW S, NEW s \in Seq(S), s # <<>>, NEW b
    PROVE  Occurs(s, b) = Occurs(Tail(s), b) + (IF Head(s) = b THEN 1 ELSE 0)
<1> DEFINE T == Indices(Tail(s), b)
           U == Indices(s, b) \ {1}
           f == [i \in T |-> i + 1]
<1>1. /\ Len(s) \in Nat \ {0} /\ DOMAIN s = 1..Len(s) /\ DOMAIN Tail(s) = 1..(Len(s) - 1)
      /\ \A i \in DOMAIN Tail(s) : Tail(s)[i] = s[i + 1]
      /\ Head(s) = s[1] /\ Tail(s) \in Seq(S)
    BY Taken
<1>2. f \in Bijection(T, U)
    <2>1. \A i \in T : i \in Nat /\ i + 1 \in U
        BY <1>1 DEF Indices
    <2>2. \A j \in U : j - 1 \in T /\ j = (j - 1) + 1
        BY <1>1 DEF Indices
    <2>3. \A i, j \in T : f[i] = f[j] => i = j
        BY <2>1
    <2>4. \A j \in U : \E i \in T : f[i] = j
        BY <2>2
    <2>5. f \in [T -> U]
        BY <2>1
    <2>6. DOMAIN f = T
        OBVIOUS
    <2> HIDE DEF T, U, f
    <2> QED
        BY <2>3, <2>4, <2>5, <2>6 DEF Bijection, Injection, Surjection, IsInjective
<1>3. /\ IsFiniteSet(T) /\ Occurs(Tail(s), b) = Cardinality(T) /\ Cardinality(T) \in Nat
      /\ IsFiniteSet(Indices(s, b)) /\ Occurs(s, b) = Cardinality(Indices(s, b))
      /\ Cardinality(Indices(s, b)) \in Nat
    BY <1>1, OccursCounts
<1>4. Cardinality(U) = Cardinality(T)
    BY <1>2, <1>3, FS_Bijection DEF ExistsBijection
<1>5. Cardinality(U) = IF 1 \in Indices(s, b) THEN Cardinality(Indices(s, b)) - 1
                       ELSE Cardinality(Indices(s, b))
    BY <1>3, FS_RemoveElement
<1>6. 1 \in Indices(s, b) <=> Head(s) = b
    BY <1>1 DEF Indices
<1> HIDE DEF T, U
<1> QED
    BY <1>3, <1>4, <1>5, <1>6

LEMMA OccursEmpty == ASSUME NEW b PROVE Occurs(<<>>, b) = 0
<1>1. {i \in DOMAIN <<>> : <<>>[i] = b} = {}
    OBVIOUS
<1> QED
    BY <1>1, FS_EmptySet DEF Occurs
=============================================================================
