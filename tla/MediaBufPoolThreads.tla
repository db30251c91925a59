------------------------- MODULE MediaBufPoolThreads -------------------------
(* The pool of MediaBufPool.tla called by threads: MediaBufUnlockBuffer of    *)
(* media_buffer.c with the MediaBufPoolFreeBuffer it ends in, and the         *)
(* MediaBufPoolGetBuffer that mom_ctrl's EMPTY_BUFFER_ADDED callback makes    *)
(* inside it (mom_ctrl_cb.c:51-86), one step per access to the pool.  Only    *)
(* the lock count has a mutex (osAtomicIncrement, osAtomicDecrement).         *)
(* Every buffer is handed out at first, as after MOM_CTRL_CMD_START; whoever  *)
(* has a reference to a buffer may lock it again or unlock it.                *)
EXTENDS MediaBufPool

CONSTANTS Threads,
          MaxHeld, \* bound on the references to one buffer
          InTurn   \* do the threads take turns at giving back last references?

\* Nothing in the code makes them take turns.
ASSUME ThreadsAssumption == /\ Threads # {} /\ InTurn \in BOOLEAN
                            /\ MaxHeld \in Nat \ {0}
                            /\ CounterMod > MaxHeld /\ CounterMod > BufNum + 1

VARIABLES pool,
          held,    \* held[b]: references to b that clients hold
          pc,      \* pc[t]: where thread t is, "idle" outside of the pool
          buf,     \* buf[t]: the argument of t's call, then the buffer it takes
          reg      \* reg[t]: freeBufNum as t read it

vars == <<pool, held, pc, buf, reg>>

Init == /\ pool = [NewPool EXCEPT !.freeBufNum = 0,
                                  !.lockCount = [b \in Buffers |-> 1],
                                  !.pOwner    = [b \in Buffers |-> TRUE]]
        /\ held = [b \in Buffers |-> 1]
        /\ pc   = [t \in Threads |-> "idle"]
        /\ buf  = [t \in Threads |-> NoBuffer]
        /\ reg  = [t \in Threads |-> 0]

\* No thread is in the pool.
AtRest == \A t \in Threads : pc[t] = "idle"

\* Thread t goes from one place to another.
Go(t, from, to) == pc[t] = from /\ pc' = [pc EXCEPT ![t] = to]

Minus1(n) == (n + CounterMod - 1) % CounterMod
Plus1(n)  == (n + 1) % CounterMod

-----------------------------------------------------------------------------
\* MediaBufLockBuffer
Lock(t, b) == /\ pc[t] = "idle"
              /\ held[b] \in 1..(MaxHeld - 1)
              /\ pool' = BufLock(pool, b)
              /\ held' = [held EXCEPT ![b] = @ + 1]
              /\ UNCHANGED <<pc, buf, reg>>

\* MediaBufUnlockBuffer as far as its osAtomicDecrement
Unlock(t, b) ==
    /\ held[b] > 0
    /\ InTurn /\ pool.lockCount[b] = 1 => AtRest
    /\ Go(t, "idle", IF pool.lockCount[b] = 1 THEN "free" ELSE "idle")
    /\ buf' = [buf EXCEPT ![t] = b]
    /\ held' = [held EXCEPT ![b] = @ - 1]
    /\ pool' = [pool EXCEPT !.lockCount[b] = Minus1(@)]
    /\ UNCHANGED reg

\* lockCount = 0 and the read of freeBufNum++
FreeClear(t) == /\ Go(t, "free", "count")
                /\ pool' = [pool EXCEPT !.lockCount[buf[t]] = 0]
                /\ reg' = [reg EXCEPT ![t] = pool.freeBufNum]
                /\ UNCHANGED <<held, buf>>

\* Mutant: the counter is not stored.
FreeCountLost(t) == /\ Go(t, "count", "check")
                    /\ pool' = [pool EXCEPT !.isFull[buf[t]] = FALSE]
                    /\ UNCHANGED <<held, buf, reg>>

\* The write of freeBufNum++, and isFull.  mom_ctrl leaves fillLevel at 0.
FreeCount(t) == /\ Go(t, "count", "check")
                /\ pool' = [pool EXCEPT !.freeBufNum = Plus1(reg[t]),
                                        !.isFull[buf[t]] = FALSE]
                /\ UNCHANGED <<held, buf, reg>>

\* The callback calls MediaBufPoolGetBuffer: is a buffer free?
GetCheck(t) == /\ Go(t, "check", IF pool.freeBufNum = 0 THEN "idle" ELSE "scan")
               /\ UNCHANGED <<pool, held, buf, reg>>

\* Mutant: the lock count is not looked at.
ScanTakesAny(t) ==
    /\ Go(t, "scan", "take")
    /\ buf' = [buf EXCEPT ![t] = pool.index]
    /\ reg' = [reg EXCEPT ![t] = pool.freeBufNum]
    /\ UNCHANGED <<pool, held>>

\* Mutant: index is not moved on.
ScanStaysPut(t) ==
    \/ /\ pool.index \in FreeSet(pool)
       /\ Go(t, "scan", "take")
       /\ buf' = [buf EXCEPT ![t] = pool.index]
       /\ reg' = [reg EXCEPT ![t] = pool.freeBufNum]
       /\ UNCHANGED <<pool, held>>
    \/ /\ pool.index \notin FreeSet(pool)
       /\ Go(t, "scan", IF RingBuffer THEN "idle" ELSE "scan")
       /\ UNCHANGED <<pool, held, buf, reg>>

\* The buffer at index is free (freeBufNum-- reads), or index moves on.
GetScan(t) ==
    \/ /\ pool.index \in FreeSet(pool)
       /\ Go(t, "scan", "take")
       /\ buf' = [buf EXCEPT ![t] = pool.index]
       /\ reg' = [reg EXCEPT ![t] = pool.freeBufNum]
       /\ UNCHANGED <<pool, held>>
    \/ /\ pool.index \notin FreeSet(pool)
       /\ Go(t, "scan", IF RingBuffer THEN "idle" ELSE "scan")
       /\ pool' = IF RingBuffer THEN pool ELSE [pool EXCEPT !.index = After(@, 1)]
       /\ UNCHANGED <<held, buf, reg>>

\* The write of freeBufNum--, then the lock, the owner and the index.
GetTake(t) == /\ Go(t, "take", "lock")
              /\ pool' = [pool EXCEPT !.freeBufNum = Minus1(reg[t])]
              /\ UNCHANGED <<held, buf, reg>>

GetLock(t) == /\ Go(t, "lock", "idle")
              /\ pool' = [pool EXCEPT !.lockCount[buf[t]] = 1,
                                      !.pOwner[buf[t]] = TRUE,
                                      !.index = After(@, 1)]
              /\ held' = [held EXCEPT ![buf[t]] = @ + 1]
              /\ UNCHANGED <<buf, reg>>

Run(t) == \/ FreeClear(t) \/ FreeCount(t)
          \/ GetCheck(t) \/ GetScan(t) \/ GetTake(t) \/ GetLock(t)

Next == \E t \in Threads : \/ Run(t)
                           \/ \E b \in Buffers : Lock(t, b) \/ Unlock(t, b)

\* Whoever has a lock may keep it for ever; a thread in the pool runs.
Spec == Init /\ [][Next]_vars /\ \A t \in Threads : WF_vars(Run(t))

-----------------------------------------------------------------------------
(* "Buffer will not be available as empty buffer until unlocked as many times *)
(* as locked before and released" (media_buffer.h:247).                       *)
HeldLocked == \A b \in Buffers : pool.lockCount[b] >= held[b]

(* Whenever no thread is in the pool the free counter is exact, whatever the  *)
(* others did to lock counts while it was read and written                    *)
(* (media_buffer_pool.c:376, 382, 476): no free buffer is forgotten, and none *)
(* is promised to the scan that is not there.                                 *)
CountedAtRest == AtRest => FreeCountExact(pool)

(* The inner for(;;) of MediaBufPoolGetBuffer comes to an end.                *)
ScanEndsAlways == \A t \in Threads : pc[t] = "scan" ~> pc[t] # "scan"
==============================================================================
