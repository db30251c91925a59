------------------------------- MODULE OsQueue -------------------------------
(* The bounded queue of oslayer_generic.c: a ring of ItemNum slots, a mutex   *)
(* around the two ring pointers, and two semaphores that count free and used  *)
(* slots.  A caller first gets a slot from a semaphore, then moves a pointer  *)
(* under the mutex, then copies the item WITHOUT the mutex, then posts the    *)
(* other semaphore: four steps that the other threads run between.            *)
EXTENDS Integers, Sequences, FiniteSets

CONSTANTS Writers, Readers,  \* the threads that use the queue
          Items,             \* the items they write
          NoItem,            \* the zeroes the slots are initialised with
          ItemNum,           \* osQueueInit's ItemNum
          MaxCount           \* bound standing for the semaphores' 0x7fffffff

ASSUME QueueAssumption ==
    /\ ItemNum \in Nat \ {0}
    /\ MaxCount \in Nat
    /\ ItemNum < MaxCount
    /\ NoItem \notin Items
    /\ Writers \cap Readers = {}

Threads == Writers \union Readers
Slots   == 0..(ItemNum - 1)

VARIABLES buffer,   \* buffer[s]: the item in slot s of pItemBuffer
          rd, wr,   \* the slots of pItemBufferRead and pItemBufferWrite
          freeCount, freeCv,  \* ItemsFreeSema
          usedCount, usedCv,  \* ItemsUsedSema
          pc,       \* pc[t]: where t is in its call
          slot,     \* slot[t]: its local pItemRead or pItemWrite
          op,       \* op[t]: the kind of wait of its call
          item,     \* item[t]: what its pvItem points to
          ret       \* ret[t]: what its last call returned

semas == <<freeCount, freeCv, usedCount, usedCv>>
ring  == <<buffer, rd, wr>>
local == <<pc, slot, op, item, ret>>
vars  == <<ring, semas, local>>

Free == INSTANCE OsSemaphore WITH
            Waiters <- Writers, Posters <- Readers, InitCount <- ItemNum,
            count <- freeCount, cv <- freeCv
Used == INSTANCE OsSemaphore WITH
            Waiters <- Readers, Posters <- Writers, InitCount <- 0,
            count <- usedCount, cv <- usedCv

Init == /\ buffer = [s \in Slots |-> NoItem]
        /\ rd = 0 /\ wr = 0
        /\ freeCount = ItemNum /\ freeCv = [t \in Threads |-> "run"]
        /\ usedCount = 0       /\ usedCv = [t \in Threads |-> "run"]
        /\ pc   = [t \in Threads |-> "idle"]
        /\ slot = [t \in Threads |-> 0]
        /\ op   = [t \in Threads |-> "none"]
        /\ item = [t \in Threads |-> NoItem]
        /\ ret  = [t \in Threads |-> "none"]

Call(t, o, v) ==
    /\ pc[t] = "idle"
    /\ pc'   = [pc   EXCEPT ![t] = "sema"]
    /\ op'   = [op   EXCEPT ![t] = o]
    /\ item' = [item EXCEPT ![t] = v]
    /\ ret'  = [ret  EXCEPT ![t] = "none"]
    /\ UNCHANGED <<ring, semas, slot>>

Goto(t, l) == /\ pc' = [pc EXCEPT ![t] = l]
              /\ UNCHANGED <<op, ret>>

Return(t, r) == /\ pc'  = [pc  EXCEPT ![t] = "idle"]
                /\ op'  = [op  EXCEPT ![t] = "none"]
                /\ ret' = [ret EXCEPT ![t] = r]

Stay == UNCHANGED <<pc, op, ret>>

-----------------------------------------------------------------------------
(* The wait at the head of each function.                                     *)

WaitFor(t, o) == pc[t] = "sema" /\ op[t] = o /\ UNCHANGED <<ring, slot, item>>

osQueueRead(t) ==
    /\ WaitFor(t, "wait")
    /\ \/ (Used!Take(t) \/ Used!Resume(t)) /\ Goto(t, "advance")
       \/ Used!Block(t) /\ Stay
    /\ UNCHANGED <<freeCount, freeCv>>

osQueueTimedRead(t) ==
    /\ WaitFor(t, "timedwait")
    /\ \/ (Used!Take(t) \/ Used!Resume(t) \/ Used!ResumeLate(t)) /\ Goto(t, "advance")
       \/ (Used!TimedBlock(t) \/ Used!Expire(t)) /\ Stay
       \/ Used!GiveUp(t) /\ Return(t, "timeout")
    /\ UNCHANGED <<freeCount, freeCv>>

osQueueTryRead(t) ==
    /\ WaitFor(t, "trywait")
    /\ \/ Used!Take(t)  /\ Goto(t, "advance")
       \/ Used!Empty(t) /\ Return(t, "timeout")
    /\ UNCHANGED <<freeCount, freeCv>>

osQueueWrite(t) ==
    /\ WaitFor(t, "wait")
    /\ \/ (Free!Take(t) \/ Free!Resume(t)) /\ Goto(t, "advance")
       \/ Free!Block(t) /\ Stay
    /\ UNCHANGED <<usedCount, usedCv>>

osQueueTimedWrite(t) ==
    /\ WaitFor(t, "timedwait")
    /\ \/ (Free!Take(t) \/ Free!Resume(t) \/ Free!ResumeLate(t)) /\ Goto(t, "advance")
       \/ (Free!TimedBlock(t) \/ Free!Expire(t)) /\ Stay
       \/ Free!GiveUp(t) /\ Return(t, "timeout")
    /\ UNCHANGED <<usedCount, usedCv>>

\* Mutant: the status of the try-wait is not tested.
osQueueTryWriteAnyway(t) ==
    /\ WaitFor(t, "trywait")
    /\ (Free!Take(t) \/ Free!Empty(t)) /\ Goto(t, "advance")
    /\ UNCHANGED <<usedCount, usedCv>>

osQueueTryWrite(t) ==
    /\ WaitFor(t, "trywait")
    /\ \/ Free!Take(t)  /\ Goto(t, "advance")
       \/ Free!Empty(t) /\ Return(t, "timeout")
    /\ UNCHANGED <<usedCount, usedCv>>

-----------------------------------------------------------------------------
(* osQueueReadInternal and osQueueWriteInternal: advance, copy, post.         *)

NextSlot(s) == IF s + 1 >= ItemNum THEN 0 ELSE s + 1

ReadAdvance(t) ==
    /\ pc[t] = "advance"
    /\ slot' = [slot EXCEPT ![t] = rd]
    /\ rd' = NextSlot(rd)
    /\ Goto(t, "copy")
    /\ UNCHANGED <<buffer, wr, semas, item>>

\* Mutant: the copy is made from the shared read pointer.
ReadCopyFromPointer(t) ==
    /\ pc[t] = "copy"
    /\ item' = [item EXCEPT ![t] = buffer[rd]]
    /\ Goto(t, "post")
    /\ UNCHANGED <<ring, semas, slot>>

ReadCopy(t) ==
    /\ pc[t] = "copy"
    /\ item' = [item EXCEPT ![t] = buffer[slot[t]]]
    /\ Goto(t, "post")
    /\ UNCHANGED <<ring, semas, slot>>

\* osSemaphorePost(&pQueue->ItemsFreeSema)
ReadPost(t) ==
    /\ pc[t] = "post"
    /\ Free!Increment
    /\ Return(t, "ok")
    /\ UNCHANGED <<ring, usedCount, usedCv, slot, item>>

WriteAdvance(t) ==
    /\ pc[t] = "advance"
    /\ slot' = [slot EXCEPT ![t] = wr]
    /\ wr' = NextSlot(wr)
    /\ Goto(t, "copy")
    /\ UNCHANGED <<buffer, rd, semas, item>>

WriteCopy(t) ==
    /\ pc[t] = "copy"
    /\ buffer' = [buffer EXCEPT ![slot[t]] = item[t]]
    /\ Goto(t, "post")
    /\ UNCHANGED <<rd, wr, semas, slot, item>>

\* Mutant: the slot is never handed on to the readers.
WriteNoPost(t) ==
    /\ pc[t] = "post"
    /\ Return(t, "ok")
    /\ UNCHANGED <<ring, semas, slot, item>>

\* osSemaphorePost(&pQueue->ItemsUsedSema)
WritePost(t) ==
    /\ pc[t] = "post"
    /\ Used!Increment
    /\ Return(t, "ok")
    /\ UNCHANGED <<ring, freeCount, freeCv, slot, item>>

Read(t) == \/ osQueueRead(t) \/ osQueueTimedRead(t) \/ osQueueTryRead(t)
           \/ ReadAdvance(t) \/ ReadCopy(t) \/ ReadPost(t)

Write(t) == \/ osQueueWrite(t) \/ osQueueTimedWrite(t) \/ osQueueTryWrite(t)
            \/ WriteAdvance(t) \/ WriteCopy(t) \/ WritePost(t)

Next == \/ \E t \in Writers, o \in Free!WaitOps, v \in Items : Call(t, o, v)
        \/ \E t \in Readers, o \in Used!WaitOps : Call(t, o, NoItem)
        \/ \E t \in Writers : Write(t)
        \/ \E t \in Readers : Read(t)

SafeSpec == Init /\ [][Next]_vars

\* A runnable thread runs on; callers call when they like.
Spec == /\ SafeSpec
        /\ \A t \in Writers : WF_vars(Write(t))
        /\ \A t \in Readers : WF_vars(Read(t))

-----------------------------------------------------------------------------
Granted(t) == pc[t] \in {"advance", "copy", "post"}

TypeOK == /\ buffer \in [Slots -> Items \union {NoItem}]
          /\ rd \in Slots /\ wr \in Slots
          /\ freeCount \in Int /\ freeCv \in [Threads -> Free!CvStates]
          /\ usedCount \in Int /\ usedCv \in [Threads -> Free!CvStates]
          /\ pc   \in [Threads -> {"idle", "sema", "advance", "copy", "post"}]
          /\ slot \in [Threads -> Slots]
          /\ op   \in [Threads -> Free!WaitOps \union {"none"}]
          /\ item \in [Threads -> Items \union {NoItem}]
          /\ ret  \in [Threads -> {"none", "ok", "timeout"}]

(* While a thread copies an item in or out of its slot, without the mutex, no *)
(* other thread is at that slot: nobody reads a slot still being filled, or   *)
(* fills one still being read (oslayer_generic.c:148, 322).                   *)
ExclusiveSlot ==
    \A t, u \in Threads : t # u /\ pc[t] = "copy" /\ pc[u] = "copy" => slot[t] # slot[u]

(* Every slot is counted once: free, used, or in the hands of one thread.  A  *)
(* timeout, or a wake-up that came late, neither leaks a slot nor makes one.  *)
SlotsConserved ==
    freeCount + usedCount + Cardinality({t \in Threads : Granted(t)}) = ItemNum

-----------------------------------------------------------------------------
(* One writer and one reader see an atomic queue.  An item enters it when the *)
(* writer posts ItemsUsedSema and leaves it when the reader posts             *)
(* ItemsFreeSema; in between it is in its slot.                               *)
Reading == {r \in Readers : Granted(r)}

Oldest == IF \E r \in Reading : pc[r] # "advance"
          THEN slot[CHOOSE r \in Reading : pc[r] # "advance"]
          ELSE rd

Contents == [i \in 1..(usedCount + Cardinality(Reading)) |->
                buffer[(Oldest + i - 1) % ItemNum]]

Fifo == INSTANCE BoundedFifo WITH
            Depth <- ItemNum,
            queue <- Contents,
            item  <- [t \in Threads |->
                        IF t \in Readers /\ pc[t] # "idle" THEN NoItem ELSE item[t]]
ImplementsFifo == Fifo!Spec
==============================================================================
