---------------------------- MODULE OsQueueProofs ----------------------------
(* What holds of the queue of the OS abstraction layer for any number of      *)
(* slots and any items: the count of slots for any threads, and for one       *)
(* writer and one reader the first-in first-out queue without a shared slot.  *)
(* What holds of its semaphores, with one waiting thread, for any counts and  *)
(* any number of posting threads.                                             *)
EXTENDS OsQueue, FiniteSetTheorems, SequenceTheorems, TLAPS

Places == {"idle", "sema", "advance", "copy", "post"}
-----------------------------------------------------------------------------
(* Slots, for any number of writers and readers                              *)

\* The threads that have got a slot from a semaphore and not passed it on
Holders == {t \in Threads : Granted(t)}

Counted == /\ pc \in [Threads -> Places]
           /\ freeCount \in Int /\ usedCount \in Int
           /\ IsFiniteSet(Holders)
           /\ SlotsConserved

\* What a step can do to the slots: nothing, take one from a semaphore, or post
\* one to a semaphore.
Keeps == /\ freeCount' = freeCount /\ usedCount' = usedCount
         /\ Holders' = Holders

Takes(t) == /\ t \notin Holders /\ Holders' = Holders \union {t}
            /\ \/ freeCount' = freeCount - 1 /\ usedCount' = usedCount
               \/ freeCount' = freeCount /\ usedCount' = usedCount - 1

Posts(t) == /\ t \in Holders /\ Holders' = Holders \ {t}
            /\ \/ freeCount' = freeCount + 1 /\ usedCount' = usedCount
               \/ freeCount' = freeCount /\ usedCount' = usedCount + 1

\* A thread's move from one place of its call to another
Moves(t, place) == pc' = [pc EXCEPT ![t] = place]

LEMMA HoldersMove ==
    ASSUME pc \in [Threads -> Places], NEW t \in Threads, NEW place \in Places, Moves(t, place)
    PROVE  /\ pc' \in [Threads -> Places]
           /\ place \in {"idle", "sema"} => Holders' = Holders \ {t}
           /\ place \in {"advance", "copy", "post"} => Holders' = Holders \union {t}
BY DEF Moves, Holders, Granted, Places

(* One step moves one slot, if any, from one of its three places to another.  *)
LEMMA SlotMoves ==
    ASSUME pc \in [Threads -> Places], [Next]_vars
    PROVE  /\ pc' \in [Threads -> Places]
           /\ Keeps \/ \E t \in Threads : Takes(t) \/ Posts(t)
<1> USE DEF ring, semas, local
<1>1. ASSUME NEW t \in Threads, NEW o, NEW v, Call(t, o, v)
      PROVE  pc' \in [Threads -> Places] /\ Keeps
    <2>1. pc[t] = "idle" /\ Moves(t, "sema") /\ UNCHANGED <<freeCount, usedCount>>
        BY <1>1 DEF Call, Moves
    <2>2. t \notin Holders
        BY <2>1 DEF Holders, Granted
    <2> QED
        BY <2>1, <2>2, HoldersMove DEF Keeps, Places
<1>2. ASSUME NEW t \in Threads, pc[t] = "sema",
             \/ Goto(t, "advance") /\ \/ freeCount' = freeCount - 1 /\ usedCount' = usedCount
                                      \/ freeCount' = freeCount /\ usedCount' = usedCount - 1
             \/ (Stay \/ Return(t, "timeout")) /\ UNCHANGED <<freeCount, usedCount>>
      PROVE  pc' \in [Threads -> Places] /\ (Keeps \/ Takes(t))
    <2>1. t \notin Holders
        BY <1>2 DEF Holders, Granted
    <2>2. CASE Stay /\ UNCHANGED <<freeCount, usedCount>>
        BY <2>2 DEF Stay, Keeps, Holders, Granted
    <2>3. CASE Return(t, "timeout") /\ UNCHANGED <<freeCount, usedCount>>
        <3>1. Moves(t, "idle") /\ "idle" \in Places
            BY <2>3 DEF Return, Moves, Places
        <3>2. pc' \in [Threads -> Places] /\ Holders' = Holders \ {t}
            BY <3>1, HoldersMove
        <3> QED
            BY <2>1, <2>3, <3>2 DEF Keeps
    <2>4. CASE Goto(t, "advance")
        BY <1>2, <2>1, <2>4, HoldersMove DEF Goto, Stay, Return, Takes, Moves, Places, Keeps
    <2> QED
        BY <1>2, <2>2, <2>3, <2>4
<1>3. ASSUME NEW t \in Threads, osQueueRead(t) \/ osQueueTimedRead(t) \/ osQueueTryRead(t)
      PROVE  pc' \in [Threads -> Places] /\ (Keeps \/ Takes(t))
    BY <1>2, <1>3
       DEF osQueueRead, osQueueTimedRead, osQueueTryRead, WaitFor, Used!Take, Used!Resume,
           Used!ResumeLate, Used!Block, Used!TimedBlock, Used!Expire, Used!GiveUp, Used!Empty
<1>4. ASSUME NEW t \in Threads, osQueueWrite(t) \/ osQueueTimedWrite(t) \/ osQueueTryWrite(t)
      PROVE  pc' \in [Threads -> Places] /\ (Keeps \/ Takes(t))
    BY <1>2, <1>4
       DEF osQueueWrite, osQueueTimedWrite, osQueueTryWrite, WaitFor, Free!Take, Free!Resume,
           Free!ResumeLate, Free!Block, Free!TimedBlock, Free!Expire, Free!GiveUp, Free!Empty
<1>5. ASSUME NEW t \in Threads, pc[t] \in {"advance", "copy"},
             NEW place \in {"copy", "post"}, Moves(t, place), UNCHANGED <<freeCount, usedCount>>
      PROVE  pc' \in [Threads -> Places] /\ Keeps
    <2>1. t \in Holders
        BY <1>5 DEF Holders, Granted
    <2> QED
        BY <1>5, <2>1, HoldersMove DEF Keeps, Places
<1>6. ASSUME NEW t \in Threads,
             ReadAdvance(t) \/ ReadCopy(t) \/ WriteAdvance(t) \/ WriteCopy(t)
      PROVE  pc' \in [Threads -> Places] /\ Keeps
    BY <1>5, <1>6 DEF ReadAdvance, ReadCopy, WriteAdvance, WriteCopy, Goto, Moves
<1>7. ASSUME NEW t \in Threads, ReadPost(t) \/ WritePost(t)
      PROVE  pc' \in [Threads -> Places] /\ Posts(t)
    <2>1. /\ pc[t] = "post" /\ Moves(t, "idle")
          /\ \/ freeCount' = freeCount + 1 /\ usedCount' = usedCount
             \/ freeCount' = freeCount /\ usedCount' = usedCount + 1
        BY <1>7 DEF ReadPost, WritePost, Return, Moves, Free!Increment, Used!Increment
    <2>2. t \in Holders
        BY <2>1 DEF Holders, Granted
    <2> QED
        BY <2>1, <2>2, HoldersMove DEF Posts, Places
<1>8. CASE UNCHANGED vars
    BY <1>8 DEF vars, Keeps, Holders, Granted
<1>9. \A t \in Writers \union Readers : t \in Threads
    BY DEF Threads
<1> QED
    BY <1>1, <1>3, <1>4, <1>6, <1>7, <1>8, <1>9 DEF Next, Read, Write

(* Every slot is free, used or in the hands of one thread, however many       *)
(* threads write and read, and whether or not their waits time out.           *)
THEOREM EverySlotCounted == SafeSpec => []SlotsConserved
<1>1. Init => Counted
    <2> SUFFICES ASSUME Init PROVE Counted
        OBVIOUS
    <2>1. Holders = {} /\ {t \in Threads : Granted(t)} = {}
        BY DEF Init, Holders, Granted
    <2>2. IsFiniteSet({}) /\ Cardinality({}) = 0
        BY FS_EmptySet
    <2> QED
        BY <2>1, <2>2, QueueAssumption DEF Init, Counted, SlotsConserved, Places
<1>2. Counted /\ [Next]_vars => Counted'
    <2> SUFFICES ASSUME Counted, [Next]_vars PROVE Counted'
        OBVIOUS
    <2>0. ItemNum \in Nat /\ Cardinality(Holders) \in Nat
        BY QueueAssumption, FS_CardinalityType DEF Counted
    <2>1. freeCount + usedCount + Cardinality(Holders) = ItemNum
        BY DEF Counted, SlotsConserved, Holders
    <2>2. ASSUME /\ freeCount' \in Int /\ usedCount' \in Int /\ IsFiniteSet(Holders')
                 /\ freeCount' + usedCount' + Cardinality(Holders') = ItemNum
          PROVE  Counted'
        BY <2>2, SlotMoves DEF Counted, SlotsConserved, Holders
    <2>3. CASE Keeps
        BY <2>0, <2>1, <2>2, <2>3 DEF Keeps, Counted
    <2>4. ASSUME NEW t \in Threads, Takes(t) PROVE Counted'
        <3>1. IsFiniteSet(Holders') /\ Cardinality(Holders') = Cardinality(Holders) + 1
            BY <2>4, FS_AddElement DEF Takes, Counted
        <3> QED
            BY <2>0, <2>1, <2>2, <2>4, <3>1 DEF Takes, Counted
    <2>5. ASSUME NEW t \in Threads, Posts(t) PROVE Counted'
        <3>1. IsFiniteSet(Holders') /\ Cardinality(Holders') = Cardinality(Holders) - 1
            BY <2>5, FS_RemoveElement DEF Posts, Counted
        <3> QED
            BY <2>0, <2>1, <2>2, <2>5, <3>1 DEF Posts, Counted
    <2> QED
        BY <2>3, <2>4, <2>5, SlotMoves DEF Counted
<1>3. Counted => SlotsConserved
    BY DEF Counted
<1> QED
    BY <1>1, <1>2, <1>3, PTL DEF SafeSpec
-----------------------------------------------------------------------------
(* The ring, for one writer w and one reader r                               *)

Has(t) == IF Granted(t) THEN 1 ELSE 0

\* A thread that has moved its pointer and not yet posted is at its own slot.
Passed(t) == pc[t] \in {"copy", "post"}

\* The slot a thread works on, or will work on next, for the pointer p it moves
At(t, p) == IF Passed(t) THEN slot[t] ELSE p

\* The slot n places after slot s
Ahead(s, n) == IF s + n < ItemNum THEN s + n ELSE s + n - ItemNum

\* The one thread that waits on a semaphore sleeps only while its count is 0,
\* and a token it was woken for is still there.
WaitInv(t, count, cv) ==
    /\ count \in Nat
    /\ cv[t] # "run" => pc[t] = "sema"
    /\ cv[t] \in {"blocked", "timedblocked"} => count = 0
    /\ cv[t] = "signalled" => count > 0 /\ op[t] \in {"wait", "timedwait"}
    /\ cv[t] = "blocked" => op[t] = "wait"
    /\ cv[t] \in {"timedblocked", "expired"} => op[t] = "timedwait"

SemaInv(w, r) == /\ WaitInv(w, freeCount, freeCv) /\ freeCv[r] = "run"
                 /\ WaitInv(r, usedCount, usedCv) /\ usedCv[w] = "run"

\* The reader's slot, the used slots, the writer's slot and the free slots lie
\* one after the other around the ring.
RingInv(w, r) ==
    /\ At(w, wr) = Ahead(At(r, rd), usedCount + Has(r))
    /\ freeCount + usedCount + Has(w) + Has(r) = ItemNum
    /\ Passed(w) => wr = NextSlot(slot[w])
    /\ Passed(r) => rd = NextSlot(slot[r])

\* A copy stays good until it is posted, and who reads has nothing before it.
CopyInv(w, r) ==
    /\ pc[w] = "post" => buffer[slot[w]] = item[w]
    /\ pc[r] = "post" => buffer[slot[r]] = item[r]
    /\ pc[r] = "sema" => item[r] = NoItem

CallInv == \A t \in Threads : pc[t] = "idle" <=> op[t] = "none"

OneEachInv(w, r) == /\ TypeOK /\ CallInv
                    /\ SemaInv(w, r) /\ RingInv(w, r) /\ CopyInv(w, r)
\* What a step may do as seen from outside of the semaphores: a thread waits on,
\* gets a slot, or is told that there is none.
Waits == UNCHANGED <<ring, freeCount, usedCount, local>>

GetsUsed(r) == /\ pc[r] = "sema" /\ usedCount > 0 /\ usedCount' = usedCount - 1
               /\ Goto(r, "advance") /\ UNCHANGED <<ring, freeCount, slot, item>>

GetsFree(w) == /\ pc[w] = "sema" /\ freeCount > 0 /\ freeCount' = freeCount - 1
               /\ Goto(w, "advance") /\ UNCHANGED <<ring, usedCount, slot, item>>

Refused(t) == /\ pc[t] = "sema" /\ op[t] \in {"timedwait", "trywait"}
              /\ Return(t, "timeout")
              /\ UNCHANGED <<ring, freeCount, usedCount, slot, item>>

ReadSteps(r) == \/ Waits \/ GetsUsed(r)
                \/ usedCount = 0 /\ Refused(r)
                \/ ReadAdvance(r) \/ ReadCopy(r) \/ ReadPost(r)

WriteSteps(w) == \/ Waits \/ GetsFree(w)
                 \/ freeCount = 0 /\ Refused(w)
                 \/ WriteAdvance(w) \/ WriteCopy(w) \/ WritePost(w)

LEMMA ReaderSteps ==
    ASSUME NEW w, NEW r, SemaInv(w, r), Read(r)
    PROVE  ReadSteps(r)
<1>1. CASE osQueueRead(r) \/ osQueueTimedRead(r) \/ osQueueTryRead(r)
    BY <1>1 DEF osQueueRead, osQueueTimedRead, osQueueTryRead, WaitFor, Goto, Stay, Used!Take,
                Used!Resume, Used!ResumeLate, Used!Block, Used!TimedBlock, Used!Expire,
                Used!GiveUp, Used!Empty, SemaInv, WaitInv, ReadSteps, Waits, GetsUsed, Refused,
                ring, local
<1> QED
    BY <1>1 DEF Read, ReadSteps

LEMMA WriterSteps ==
    ASSUME NEW w, NEW r, SemaInv(w, r), Write(w)
    PROVE  WriteSteps(w)
<1>1. CASE osQueueWrite(w) \/ osQueueTimedWrite(w) \/ osQueueTryWrite(w)
    BY <1>1 DEF osQueueWrite, osQueueTimedWrite, osQueueTryWrite, WaitFor, Goto, Stay, Free!Take,
                Free!Resume, Free!ResumeLate, Free!Block, Free!TimedBlock, Free!Expire,
                Free!GiveUp, Free!Empty, SemaInv, WaitInv, WriteSteps, Waits, GetsFree, Refused,
                ring, local
<1> QED
    BY <1>1 DEF Write, WriteSteps

\* With one writer and one reader every step is a call or a step of one of them.
LEMMA OneEachSteps ==
    ASSUME NEW w, NEW r, Writers = {w}, Readers = {r}, SemaInv(w, r), Next
    PROVE  \/ \E o \in Free!WaitOps, v \in Items : Call(w, o, v)
           \/ \E o \in Free!WaitOps : Call(r, o, NoItem)
           \/ WriteSteps(w) \/ ReadSteps(r)
BY ReaderSteps, WriterSteps DEF Next, Free!WaitOps, Used!WaitOps
(* The one waiter of each semaphore: a post finds it asleep only when the     *)
(* count is 0, and then wakes it.                                             *)
LEMMA WaitersStep ==
    ASSUME NEW w, NEW r, Writers = {w}, Readers = {r}, TypeOK, SemaInv(w, r), [Next]_vars
    PROVE  SemaInv(w, r)'
<1>0. w \in Threads /\ r \in Threads /\ Threads = {w, r} /\ w # r
    BY QueueAssumption DEF Threads
<1> USE <1>0 DEF SemaInv, WaitInv, TypeOK
<1>1. ASSUME NEW t \in Threads, NEW o, NEW v, Call(t, o, v) PROVE SemaInv(w, r)'
    BY <1>1 DEF Call, semas
<1>2. CASE osQueueRead(r) \/ osQueueTimedRead(r) \/ osQueueTryRead(r)
    BY <1>2 DEF osQueueRead, osQueueTimedRead, osQueueTryRead, WaitFor, Goto, Stay, Return,
                Used!Take, Used!Resume, Used!ResumeLate, Used!Block, Used!TimedBlock,
                Used!Expire, Used!GiveUp, Used!Empty, ring
<1>3. CASE osQueueWrite(w) \/ osQueueTimedWrite(w) \/ osQueueTryWrite(w)
    BY <1>3 DEF osQueueWrite, osQueueTimedWrite, osQueueTryWrite, WaitFor, Goto, Stay, Return,
                Free!Take, Free!Resume, Free!ResumeLate, Free!Block, Free!TimedBlock,
                Free!Expire, Free!GiveUp, Free!Empty, ring
<1>4. CASE ReadAdvance(r) \/ ReadCopy(r) \/ WriteAdvance(w) \/ WriteCopy(w)
    BY <1>4 DEF ReadAdvance, ReadCopy, WriteAdvance, WriteCopy, Goto, semas, ring
<1>5. CASE ReadPost(r)
    BY <1>5 DEF ReadPost, Return, Free!Increment, Free!CondSignal, Free!Sleepers, ring
<1>6. CASE WritePost(w)
    BY <1>6 DEF WritePost, Return, Used!Increment, Used!CondSignal, Used!Sleepers, ring
<1>7. CASE UNCHANGED vars
    BY <1>7 DEF vars, ring, semas, local
<1> QED
    BY <1>1, <1>2, <1>3, <1>4, <1>5, <1>6, <1>7 DEF Next, Read, Write

LEMMA QueueTyped ==
    ASSUME NEW w, NEW r, Writers = {w}, Readers = {r}, TypeOK, CallInv, SemaInv(w, r), [Next]_vars
    PROVE  TypeOK' /\ CallInv'
<1>0. w \in Threads /\ r \in Threads /\ Threads = {w, r} /\ w # r
      /\ ItemNum \in Nat \ {0}
    BY QueueAssumption DEF Threads
<1> USE <1>0 DEF TypeOK, CallInv, ring, semas, local, Free!CvStates, Free!WaitOps
<1>1. ASSUME NEW t \in Threads, NEW o \in Free!WaitOps, NEW v \in Items \union {NoItem},
             Call(t, o, v)
      PROVE  TypeOK' /\ CallInv'
    BY <1>1 DEF Call
<1>2. CASE osQueueRead(r) \/ osQueueTimedRead(r) \/ osQueueTryRead(r)
    BY <1>2 DEF osQueueRead, osQueueTimedRead, osQueueTryRead, WaitFor, Goto, Stay, Return,
                Used!Take, Used!Resume, Used!ResumeLate, Used!Block, Used!TimedBlock,
                Used!Expire, Used!GiveUp, Used!Empty
<1>3. CASE osQueueWrite(w) \/ osQueueTimedWrite(w) \/ osQueueTryWrite(w)
    BY <1>3 DEF osQueueWrite, osQueueTimedWrite, osQueueTryWrite, WaitFor, Goto, Stay, Return,
                Free!Take, Free!Resume, Free!ResumeLate, Free!Block, Free!TimedBlock,
                Free!Expire, Free!GiveUp, Free!Empty
<1>4. CASE ReadAdvance(r) \/ ReadCopy(r) \/ WriteAdvance(w) \/ WriteCopy(w)
    <2>1. NextSlot(rd) \in Slots /\ NextSlot(wr) \in Slots
        BY DEF NextSlot, Slots
    <2> QED
        BY <1>4, <2>1 DEF ReadAdvance, ReadCopy, WriteAdvance, WriteCopy, Goto
<1>5. CASE ReadPost(r)
    BY <1>5 DEF ReadPost, Return, Free!Increment, Free!CondSignal, Free!Sleepers
<1>6. CASE WritePost(w)
    BY <1>6 DEF WritePost, Return, Used!Increment, Used!CondSignal, Used!Sleepers
<1>7. CASE UNCHANGED vars
    BY <1>7 DEF vars
<1> QED
    BY <1>1, <1>2, <1>3, <1>4, <1>5, <1>6, <1>7 DEF Next, Read, Write, Used!WaitOps
\* Positions around the ring
LEMMA AheadOf ==
    ASSUME NEW s \in Slots, NEW n \in 0..ItemNum
    PROVE  /\ Ahead(s, n) \in Slots
           /\ Ahead(s, 0) = s
           /\ n < ItemNum => NextSlot(Ahead(s, n)) = Ahead(s, n + 1)
           /\ n > 0 => Ahead(NextSlot(s), n - 1) = Ahead(s, n)
           /\ \A m \in 0..(n - 1) : n < ItemNum => Ahead(s, m) # Ahead(s, n)
           /\ (s + n) % ItemNum = Ahead(s, n)
BY QueueAssumption DEF Ahead, NextSlot, Slots

LEMMA RingStep ==
    ASSUME NEW w, NEW r, Writers = {w}, Readers = {r}, OneEachInv(w, r), [Next]_vars
    PROVE  RingInv(w, r)' /\ CopyInv(w, r)'
<1>0. w \in Threads /\ r \in Threads /\ Threads = {w, r} /\ w # r
      /\ ItemNum \in Nat \ {0}
    BY QueueAssumption DEF Threads
<1>1. /\ freeCount \in Nat /\ usedCount \in Nat
      /\ At(r, rd) \in Slots /\ At(w, wr) \in Slots
      /\ usedCount + Has(r) \in 0..ItemNum
    BY <1>0 DEF OneEachInv, TypeOK, SemaInv, WaitInv, RingInv, At, Has
<1>2. ASSUME NEW t \in Threads, NEW o, NEW v, Call(t, o, v), t = r => v = NoItem
      PROVE  RingInv(w, r)' /\ CopyInv(w, r)'
    BY <1>0, <1>2
       DEF Call, OneEachInv, TypeOK, RingInv, CopyInv, At, Has, Passed, Granted, ring, semas
<1>3. CASE Waits \/ UNCHANGED vars
    BY <1>3 DEF Waits, vars, semas, local, ring, OneEachInv, RingInv, CopyInv, At, Has, Passed,
                Granted
<1>4. CASE GetsUsed(r)
    BY <1>0, <1>1, <1>4
       DEF GetsUsed, Goto, OneEachInv, TypeOK, RingInv, CopyInv, At, Has, Passed, Granted, ring
<1>5. CASE GetsFree(w)
    BY <1>0, <1>1, <1>5
       DEF GetsFree, Goto, OneEachInv, TypeOK, RingInv, CopyInv, At, Has, Passed, Granted, ring
<1>6. CASE Refused(r) \/ Refused(w)
    BY <1>0, <1>1, <1>6
       DEF Refused, Return, OneEachInv, TypeOK, RingInv, CopyInv, At, Has, Passed, Granted, ring
<1>7. CASE ReadAdvance(r) \/ WriteAdvance(w)
    BY <1>0, <1>1, <1>7
       DEF ReadAdvance, WriteAdvance, Goto, OneEachInv, TypeOK, RingInv, CopyInv, At, Has, Passed,
           Granted, semas
<1>8. CASE ReadCopy(r)
    BY <1>0, <1>1, <1>8
       DEF ReadCopy, Goto, OneEachInv, TypeOK, RingInv, CopyInv, At, Has, Passed, Granted, ring,
           semas
<1>9. CASE WriteCopy(w)
    <2>1. pc[r] = "post" => slot[w] # slot[r]
        BY <1>0, <1>1, <1>9, AheadOf
           DEF WriteCopy, OneEachInv, TypeOK, RingInv, At, Has, Passed, Granted
    <2> QED
        BY <1>0, <1>1, <1>9, <2>1
           DEF WriteCopy, Goto, OneEachInv, TypeOK, RingInv, CopyInv, At, Has, Passed, Granted,
               semas
<1>10. CASE ReadPost(r)
    <2>1. usedCount + Has(r) > 0 /\ At(r, rd) = slot[r] /\ rd = NextSlot(slot[r])
        BY <1>0, <1>1, <1>10 DEF ReadPost, OneEachInv, RingInv, At, Has, Passed, Granted
    <2>2. Ahead(rd, usedCount) = Ahead(At(r, rd), usedCount + Has(r))
        BY <1>0, <1>1, <1>10, <2>1, AheadOf DEF ReadPost, Has, Granted
    <2> QED
        BY <1>0, <1>1, <1>10, <2>2
           DEF ReadPost, Return, Free!Increment, OneEachInv, TypeOK, RingInv, CopyInv, At, Has,
               Passed, Granted, ring
<1>11. CASE WritePost(w)
    <2>1. usedCount + Has(r) < ItemNum /\ At(w, wr) = slot[w] /\ wr = NextSlot(slot[w])
        BY <1>0, <1>1, <1>11 DEF WritePost, OneEachInv, RingInv, At, Has, Passed, Granted
    <2>2. wr = Ahead(At(r, rd), usedCount + Has(r) + 1)
        BY <1>0, <1>1, <2>1, AheadOf DEF OneEachInv, RingInv
    <2> QED
        BY <1>0, <1>1, <1>11, <2>2
           DEF WritePost, Return, Used!Increment, OneEachInv, TypeOK, RingInv, CopyInv, At, Has,
               Passed, Granted, ring
<1>12. SemaInv(w, r)
    BY DEF OneEachInv
<1> QED
    BY <1>0, <1>2, <1>3, <1>4, <1>6, <1>7, <1>8, <1>9, <1>10, <1>11, <1>12, <1>5,
       OneEachSteps
       DEF ReadSteps, WriteSteps
LEMMA OneEachAlways ==
    ASSUME NEW w, NEW r, Writers = {w}, Readers = {r}
    PROVE  SafeSpec => []OneEachInv(w, r)
<1>1. Init => OneEachInv(w, r)
    BY QueueAssumption
       DEF Init, OneEachInv, TypeOK, CallInv, SemaInv, WaitInv, RingInv, CopyInv, At, Has, Passed,
           Granted, Ahead, Slots, Threads, Free!CvStates, Free!WaitOps
<1>2. OneEachInv(w, r) /\ [Next]_vars => OneEachInv(w, r)'
    BY WaitersStep, QueueTyped, RingStep DEF OneEachInv
<1> QED
    BY <1>1, <1>2, PTL DEF SafeSpec

(* While the writer fills a slot the reader is at another, however many slots *)
(* there are: what the copies outside of the mutex rely on.                   *)
THEOREM SlotsNeverShared ==
    ASSUME NEW w, NEW r, Writers = {w}, Readers = {r}
    PROVE  SafeSpec => []ExclusiveSlot
<1>1. OneEachInv(w, r) => ExclusiveSlot
    <2> SUFFICES ASSUME OneEachInv(w, r), pc[w] = "copy", pc[r] = "copy"
                 PROVE  slot[w] # slot[r]
        BY DEF ExclusiveSlot, Threads
    <2>1. /\ slot[w] = Ahead(slot[r], usedCount + 1)
          /\ usedCount \in Nat /\ freeCount \in Nat
          /\ freeCount + usedCount + 1 + 1 = ItemNum
          /\ slot[r] \in Slots
        BY DEF OneEachInv, TypeOK, SemaInv, WaitInv, RingInv, At, Has, Passed, Granted, Threads
    <2> QED
        BY <2>1, QueueAssumption, AheadOf
<1> QED
    BY <1>1, OneEachAlways, PTL

-----------------------------------------------------------------------------
(* The queue that one writer and one reader see                              *)

\* The slots that hold the items, from the reader's on
Holds(r) ==
    /\ usedCount + Has(r) \in 0..ItemNum /\ At(r, rd) \in Slots
    /\ Contents = [i \in 1..(usedCount + Has(r)) |-> buffer[Ahead(At(r, rd), i - 1)]]
    /\ Contents \in Seq(Items \union {NoItem})
    /\ Len(Contents) = usedCount + Has(r)

LEMMA ContentsSeen ==
    ASSUME NEW w, NEW r, Writers = {w}, Readers = {r}, OneEachInv(w, r)
    PROVE  Holds(r)
<1> DEFINE n == usedCount + Has(r)
<1>1. n \in 0..ItemNum /\ At(r, rd) \in Slots /\ ItemNum \in Nat \ {0}
    BY QueueAssumption
       DEF OneEachInv, TypeOK, SemaInv, WaitInv, RingInv, At, Has, Threads
<1>2. Cardinality(Reading) = Has(r)
    <2>1. CASE Granted(r)
        <3>1. Reading = {r}
            BY <2>1 DEF Reading
        <3> QED
            BY <2>1, <3>1, FS_Singleton DEF Has
    <2>2. CASE ~ Granted(r)
        <3>1. Reading = {}
            BY <2>2 DEF Reading
        <3> QED
            BY <2>2, <3>1, FS_EmptySet DEF Has
    <2> QED
        BY <2>1, <2>2
<1>3. Oldest = At(r, rd)
    <2>1. \A t \in Reading : t = r
        BY DEF Reading
    <2>2. (\E t \in Reading : pc[t] # "advance") <=> Passed(r)
        BY DEF Reading, Granted, Passed
    <2>3. Passed(r) => (CHOOSE t \in Reading : pc[t] # "advance") = r
        BY <2>1, <2>2
    <2> QED
        BY <2>2, <2>3 DEF Oldest, At
<1>4. \A i \in 1..n : (At(r, rd) + i - 1) % ItemNum = Ahead(At(r, rd), i - 1)
    <2> SUFFICES ASSUME NEW i \in 1..n
                 PROVE  (At(r, rd) + i - 1) % ItemNum = Ahead(At(r, rd), i - 1)
        OBVIOUS
    <2>1. i - 1 \in 0..ItemNum /\ At(r, rd) + i - 1 = At(r, rd) + (i - 1)
        BY <1>1 DEF Slots
    <2> QED
        BY <1>1, <2>1, AheadOf
<1>5. Contents = [i \in 1..n |-> buffer[Ahead(At(r, rd), i - 1)]]
    BY <1>2, <1>3, <1>4 DEF Contents
<1>6. \A i \in 1..n : buffer[Ahead(At(r, rd), i - 1)] \in Items \union {NoItem}
    <2> SUFFICES ASSUME NEW i \in 1..n
                 PROVE  buffer[Ahead(At(r, rd), i - 1)] \in Items \union {NoItem}
        OBVIOUS
    <2>1. Ahead(At(r, rd), i - 1) \in Slots
        BY <1>1, AheadOf
    <2> QED
        BY <2>1 DEF OneEachInv, TypeOK
<1> QED
    BY <1>1, <1>5, <1>6, IsASeq DEF Holds

LEMMA ContentsSeenNext ==
    ASSUME NEW w, NEW r, Writers = {w}, Readers = {r}
    PROVE  OneEachInv(w, r)' => Holds(r)'
<1>1. OneEachInv(w, r) => Holds(r)
    BY ContentsSeen
<1> QED
    BY <1>1, PTL
\* A step that shifts neither end of the queue, nor writes into a slot of it,
\* leaves the queue as it is.
LEMMA ContentsKept ==
    ASSUME NEW r, Holds(r), Holds(r)',
           usedCount' + Has(r)' = usedCount + Has(r), At(r, rd)' = At(r, rd),
           \A i \in 1..(usedCount + Has(r)) :
               buffer'[Ahead(At(r, rd), i - 1)] = buffer[Ahead(At(r, rd), i - 1)]
    PROVE  Contents' = Contents
BY DEF Holds, Ahead

(* Each step of the queue of four small steps is one step of the queue of one *)
(* step per call, or none.                                                    *)
LEMMA FifoStep ==
    ASSUME NEW w, NEW r, Writers = {w}, Readers = {r},
           OneEachInv(w, r), OneEachInv(w, r)', [Next]_vars
    PROVE  [Fifo!Next]_(Fifo!vars)
<1>0. /\ w \in Threads /\ r \in Threads /\ Threads = {w, r} /\ w # r
      /\ w \in Writers /\ r \in Readers /\ w \notin Readers
      /\ ItemNum \in Nat \ {0}
    BY QueueAssumption DEF Threads
<1>1. Holds(r) /\ Holds(r)'
    BY ContentsSeen, ContentsSeenNext
<1>2. /\ TypeOK /\ TypeOK' /\ CallInv /\ SemaInv(w, r)
      /\ RingInv(w, r) /\ CopyInv(w, r)
      /\ usedCount \in Nat /\ freeCount \in Nat
      /\ At(r, rd) \in Slots /\ usedCount + Has(r) \in 0..ItemNum
    BY <1>1 DEF OneEachInv, SemaInv, WaitInv, Holds
<1> DEFINE Shown == [t \in Threads |->
                        IF t \in Readers /\ pc[t] # "idle" THEN NoItem ELSE item[t]]
<1>3. ASSUME NEW t \in Threads, NEW o \in Free!WaitOps, NEW v, Call(t, o, v),
             (t = w /\ v \in Items) \/ (t = r /\ v = NoItem)
      PROVE  Fifo!Next
    <2>1. Contents' = Contents
        BY <1>0, <1>1, <1>2, <1>3, ContentsKept
           DEF Call, TypeOK, Has, Granted, At, Passed, ring, semas
    <2>2. Shown' = [Shown EXCEPT ![t] = v]
        BY <1>0, <1>2, <1>3 DEF Call, TypeOK
    <2>3. Fifo!Call(t, o, v)
        BY <1>0, <1>2, <1>3, <2>1, <2>2 DEF Call, Fifo!Call, CallInv
    <2> QED
        BY <1>0, <1>3, <2>3 DEF Fifo!Next, Free!WaitOps
<1>4. CASE Waits \/ UNCHANGED vars
    <2>1. Contents' = Contents /\ Shown' = Shown
        BY <1>1, <1>4, ContentsKept
           DEF Waits, vars, local, ring, semas, Has, Granted, At, Passed
    <2> QED
        BY <1>4, <2>1 DEF Waits, vars, local, Fifo!vars
<1>5. CASE GetsUsed(r) \/ GetsFree(w)
    <2>1. UNCHANGED <<buffer, op, ret>> /\ At(r, rd)' = At(r, rd)
          /\ usedCount' + Has(r)' = usedCount + Has(r)
        <3>1. CASE GetsUsed(r)
            BY <1>0, <1>2, <3>1 DEF GetsUsed, Goto, TypeOK, Has, Granted, At, Passed, ring
        <3>2. CASE GetsFree(w)
            BY <1>0, <1>2, <3>2 DEF GetsFree, Goto, TypeOK, Has, Granted, At, Passed, ring
        <3> QED
            BY <1>5, <3>1, <3>2
    <2>2. Contents' = Contents
        BY <1>1, <2>1, ContentsKept
    <2>3. Shown' = Shown
        BY <1>0, <1>2, <1>5 DEF GetsUsed, GetsFree, Goto, TypeOK
    <2> QED
        BY <2>1, <2>2, <2>3 DEF Fifo!vars
<1>6. ASSUME NEW t \in Threads, Refused(t),
             (t = w /\ freeCount = 0) \/ (t = r /\ usedCount = 0)
      PROVE  Fifo!Next
    <2>1. ~ Granted(t)
        BY <1>6 DEF Refused, Granted
    <2>2. Contents' = Contents
        BY <1>0, <1>1, <1>2, <1>6, ContentsKept
           DEF Refused, Return, TypeOK, Has, Granted, At, Passed, ring
    <2>3. Shown' = Shown
        BY <1>0, <1>2, <1>6 DEF Refused, Return, TypeOK, CopyInv
    <2>4. /\ t = w => Len(Contents) = ItemNum
          /\ t = r => Len(Contents) = 0
        BY <1>0, <1>1, <1>2, <1>6, <2>1 DEF Holds, RingInv, Has
    <2>5. t = r => Contents = <<>>
        BY <1>1, <2>4, EmptySeq DEF Holds
    <2>6. op[t] \in {"timedwait", "trywait"}
        BY <1>6 DEF Refused
    <2>7. t = w => Fifo!Write(w)
        BY <1>6, <2>2, <2>3, <2>4, <2>6
           DEF Refused, Return, Fifo!Write, Fifo!Refuse, Fifo!Answer
    <2>8. t = r => Fifo!Read(r)
        BY <1>6, <2>2, <2>3, <2>5, <2>6
           DEF Refused, Return, Fifo!Read, Fifo!Refuse, Fifo!Answer
    <2> QED
        BY <1>0, <1>6, <2>7, <2>8 DEF Fifo!Next
<1>7. CASE ReadAdvance(r) \/ WriteAdvance(w) \/ ReadCopy(r)
    <2>1. UNCHANGED <<buffer, op, ret>> /\ At(r, rd)' = At(r, rd)
          /\ usedCount' + Has(r)' = usedCount + Has(r)
        BY <1>0, <1>2, <1>7
           DEF ReadAdvance, WriteAdvance, ReadCopy, Goto, TypeOK, Has, Granted, At, Passed, ring,
               semas
    <2>2. Contents' = Contents
        BY <1>1, <2>1, ContentsKept
    <2>3. Shown' = Shown
        BY <1>0, <1>2, <1>7 DEF ReadAdvance, WriteAdvance, ReadCopy, Goto, TypeOK
    <2> QED
        BY <2>1, <2>2, <2>3 DEF Fifo!vars
<1>8. CASE WriteCopy(w)
    <2>1. UNCHANGED <<op, ret>> /\ At(r, rd)' = At(r, rd)
          /\ usedCount' + Has(r)' = usedCount + Has(r)
        BY <1>0, <1>2, <1>8
           DEF WriteCopy, Goto, TypeOK, Has, Granted, At, Passed, semas
    <2>2. slot[w] = Ahead(At(r, rd), usedCount + Has(r)) /\ usedCount + Has(r) < ItemNum
        BY <1>0, <1>2, <1>8 DEF WriteCopy, RingInv, At, Passed, Has, Granted
    <2>3. \A i \in 1..(usedCount + Has(r)) : Ahead(At(r, rd), i - 1) # slot[w]
        BY <1>0, <1>2, <2>2, AheadOf
    <2>4. \A i \in 1..(usedCount + Has(r)) :
             buffer'[Ahead(At(r, rd), i - 1)] = buffer[Ahead(At(r, rd), i - 1)]
        <3> SUFFICES ASSUME NEW i \in 1..(usedCount + Has(r))
                     PROVE  buffer'[Ahead(At(r, rd), i - 1)] = buffer[Ahead(At(r, rd), i - 1)]
            OBVIOUS
        <3>1. Ahead(At(r, rd), i - 1) \in Slots
            BY <1>0, <1>2, AheadOf
        <3> QED
            BY <1>2, <1>8, <2>3, <3>1 DEF WriteCopy, TypeOK
    <2>5. Contents' = Contents
        BY <1>1, <2>1, <2>4, ContentsKept
    <2>6. Shown' = Shown
        BY <1>0, <1>2, <1>8 DEF WriteCopy, Goto, TypeOK
    <2> QED
        BY <2>1, <2>5, <2>6 DEF Fifo!vars
<1>9. CASE ReadPost(r)
    <2>1. /\ Has(r) = 1 /\ At(r, rd) = slot[r] /\ rd = NextSlot(slot[r])
          /\ buffer[slot[r]] = item[r] /\ slot[r] \in Slots
        BY <1>0, <1>2, <1>9 DEF ReadPost, RingInv, CopyInv, At, Passed, Has, Granted, TypeOK
    <2>2. /\ Has(r)' = 0 /\ At(r, rd)' = rd /\ usedCount' = usedCount
          /\ UNCHANGED <<buffer, item>>
        BY <1>0, <1>2, <1>9
           DEF ReadPost, Return, TypeOK, At, Passed, Has, Granted, ring
    <2>3. /\ Contents = [i \in 1..(usedCount + 1) |-> buffer[Ahead(slot[r], i - 1)]]
          /\ Contents' = [i \in 1..usedCount |-> buffer[Ahead(rd, i - 1)]]
          /\ Contents \in Seq(Items \union {NoItem})
          /\ Len(Contents) = usedCount + 1
        <3>1. Contents = [i \in 1..(usedCount + 1) |-> buffer[Ahead(slot[r], i - 1)]]
              /\ Contents \in Seq(Items \union {NoItem}) /\ Len(Contents) = usedCount + 1
            BY <1>1, <2>1 DEF Holds
        <3>2. usedCount' + Has(r)' = usedCount
            BY <1>2, <2>2
        <3>3. Contents' = [i \in 1..(usedCount' + Has(r)') |->
                              buffer'[Ahead(At(r, rd)', i - 1)]]
            BY <1>1 DEF Holds, Ahead
        <3> QED
            BY <2>2, <3>1, <3>2, <3>3
    <2>4. Head(Contents) = item[r]
        BY <1>0, <1>2, <2>1, <2>3, AheadOf
    <2>5. Contents' = Tail(Contents)
        <3>1. \A i \in 1..usedCount : Ahead(rd, i - 1) = Ahead(slot[r], i)
            BY <1>0, <1>2, <2>1, AheadOf
        <3>2. /\ Tail(Contents) \in Seq(Items \union {NoItem})
              /\ Len(Tail(Contents)) = usedCount
              /\ \A i \in 1..usedCount : Tail(Contents)[i] = Contents[i + 1]
            <4>1. Contents # <<>>
                BY <1>2, <2>3, EmptySeq
            <4>2. /\ Tail(Contents) \in Seq(Items \union {NoItem})
                  /\ Len(Tail(Contents)) = Len(Contents) - 1
                  /\ \A i \in 1..Len(Tail(Contents)) : Tail(Contents)[i] = Contents[i + 1]
                BY <2>3, <4>1, HeadTailProperties
            <4>3. Len(Contents) = usedCount + 1 /\ usedCount \in Nat
                BY <1>2, <2>3
            <4>4. Len(Contents) - 1 = usedCount
                BY <4>3
            <4> QED
                BY <4>2, <4>4
        <3>3. Tail(Contents) = [i \in 1..usedCount |-> Tail(Contents)[i]]
            BY <3>2, LenProperties
        <3>4. \A i \in 1..usedCount : Contents[i + 1] = buffer[Ahead(slot[r], i)]
            BY <1>2, <2>3
        <3> QED
            BY <2>3, <3>1, <3>2, <3>3, <3>4
    <2>6. Shown' = [Shown EXCEPT ![r] = item[r]]
        BY <1>0, <1>2, <1>9 DEF ReadPost, Return, TypeOK
    <2>7. op[r] # "none"
        BY <1>0, <1>2, <1>9 DEF ReadPost, CallInv
    <2>8. Contents # <<>>
        BY <1>2, <2>3, EmptySeq
    <2>9. Fifo!Get(r)
        BY <1>9, <2>8, <2>4, <2>5, <2>6, <2>7 DEF ReadPost, Return, Fifo!Get, Fifo!Answer
    <2> QED
        BY <1>0, <2>9 DEF Fifo!Next, Fifo!Read
<1>10. CASE WritePost(w)
    <2>1. /\ slot[w] = Ahead(At(r, rd), usedCount + Has(r)) /\ usedCount + Has(r) < ItemNum
          /\ buffer[slot[w]] = item[w]
        BY <1>0, <1>2, <1>10 DEF WritePost, RingInv, CopyInv, At, Passed, Has, Granted
    <2>2. /\ Has(r)' = Has(r) /\ At(r, rd)' = At(r, rd) /\ usedCount' = usedCount + 1
          /\ UNCHANGED <<buffer, item>>
        BY <1>0, <1>2, <1>10
           DEF WritePost, Return, Used!Increment, TypeOK, At, Passed, Has, Granted, ring
    <2> DEFINE n == usedCount + Has(r)
    <2>3. /\ Contents = [i \in 1..n |-> buffer[Ahead(At(r, rd), i - 1)]]
          /\ Contents' = [i \in 1..(n + 1) |-> buffer[Ahead(At(r, rd), i - 1)]]
          /\ Contents \in Seq(Items \union {NoItem}) /\ Len(Contents) = n /\ n \in Nat
        BY <1>1, <1>2, <2>2 DEF Holds, Ahead, Has
    <2>4. item[w] \in Items \union {NoItem} /\ item[w] = buffer[Ahead(At(r, rd), n)]
        BY <1>0, <1>2, <2>1 DEF TypeOK
    <2> HIDE DEF n
    <2>5. Contents' = Append(Contents, item[w])
        <3>1. /\ Append(Contents, item[w]) \in Seq(Items \union {NoItem})
              /\ Len(Append(Contents, item[w])) = n + 1
              /\ \A i \in 1..n : Append(Contents, item[w])[i] = Contents[i]
              /\ Append(Contents, item[w])[n + 1] = item[w]
            BY <2>3, <2>4, AppendProperties
        <3>2. Append(Contents, item[w]) = [i \in 1..(n + 1) |-> Append(Contents, item[w])[i]]
            BY <3>1, LenProperties
        <3>3. \A i \in 1..(n + 1) :
                 Append(Contents, item[w])[i] = buffer[Ahead(At(r, rd), i - 1)]
            <4> SUFFICES ASSUME NEW i \in 1..(n + 1)
                         PROVE  Append(Contents, item[w])[i] = buffer[Ahead(At(r, rd), i - 1)]
                OBVIOUS
            <4>1. CASE i = n + 1
                <5>1. i - 1 = n
                    BY <2>3, <4>1
                <5> QED
                    BY <2>4, <3>1, <4>1, <5>1
            <4>2. CASE i \in 1..n
                BY <2>3, <3>1, <4>2
            <4> QED
                BY <2>3, <4>1, <4>2
        <3> QED
            BY <2>3, <3>2, <3>3
    <2>6. Shown' = Shown /\ Shown[w] = item[w]
        BY <1>0, <1>2, <1>10 DEF WritePost, Return, TypeOK
    <2>7. op[w] # "none"
        BY <1>0, <1>2, <1>10 DEF WritePost, CallInv
    <2>8. Len(Contents) < ItemNum
        BY <2>1, <2>3 DEF n
    <2>9. Fifo!Put(w)
        BY <1>10, <2>5, <2>6, <2>7, <2>8 DEF WritePost, Return, Fifo!Put, Fifo!Answer
    <2> QED
        BY <1>0, <2>9 DEF Fifo!Next, Fifo!Write
<1>11. \/ UNCHANGED vars
       \/ \E o \in Free!WaitOps, v \in Items : Call(w, o, v)
       \/ \E o \in Free!WaitOps : Call(r, o, NoItem)
       \/ WriteSteps(w) \/ ReadSteps(r)
    BY <1>2, OneEachSteps
<1> QED
    BY <1>0, <1>3, <1>4, <1>5, <1>6, <1>7, <1>8, <1>9, <1>10, <1>11 DEF WriteSteps, ReadSteps

(* One writer and one reader have an atomic first-in first-out queue of       *)
(* ItemNum items: no item is lost, doubled, overtaken or read half written,   *)
(* and a call is refused only while the queue really is full or empty.  It is *)
(* the safety part of ImplementsFifo; that calls are answered is liveness.    *)
THEOREM QueueIsFifo ==
    ASSUME NEW w, NEW r, Writers = {w}, Readers = {r}
    PROVE  SafeSpec => Fifo!SafeSpec
<1>1. Init => Fifo!Init
    <2> SUFFICES ASSUME Init PROVE Fifo!Init
        OBVIOUS
    <2>1. Reading = {} /\ Cardinality(Reading) = 0
        BY FS_EmptySet DEF Init, Reading, Granted, Threads
    <2>2. Contents = <<>>
        BY <2>1 DEF Init, Contents
    <2> QED
        BY <2>2 DEF Init, Fifo!Init, Threads, Fifo!Threads
<1>2. OneEachInv(w, r) /\ OneEachInv(w, r)' /\ [Next]_vars => [Fifo!Next]_(Fifo!vars)
    BY FifoStep
<1> QED
    BY <1>1, <1>2, OneEachAlways, PTL DEF SafeSpec, Fifo!SafeSpec
-----------------------------------------------------------------------------
(* The semaphore by itself, with its own threads and variables: the two of    *)
(* the queue, and every other one of the layer, are instances of it.          *)

CONSTANTS Waiters, Posters, InitCount, MaxTokens
VARIABLES count, cv, semaOp, semaRet

Sema == INSTANCE OsSemaphore WITH
            MaxCount <- MaxTokens, op <- semaOp, ret <- semaRet
Counter == INSTANCE CountingSemaphore WITH
            MaxCount <- MaxTokens, tokens <- count, op <- semaOp, ret <- semaRet

\* What OsSemaphore assumes of its counts.
Bounded == MaxTokens \in Nat \ {0} /\ InitCount \in 0..MaxTokens

\* The way every command queue uses its ItemsUsedSema: one handler thread waits.
OneWaiterOnly == \E w : Waiters = {w} /\ w \notin Posters

(* The steps of the waiting thread keep the single-waiter invariant.          *)
LEMMA WaiterStep ==
    ASSUME NEW w, Bounded, Waiters = {w}, w \notin Posters, Sema!SingleWaiterInv,
           (\E o \in Sema!WaitOps : Sema!Call(w, o)) \/ Sema!Wait(w)
    PROVE  Sema!SingleWaiterInv'
<1> w \in Sema!Threads /\ \A u \in Sema!Threads : u = w \/ u \in Posters
    BY DEF Sema!Threads
<1> USE DEF Bounded, Sema!SingleWaiterInv, Sema!Consistent, Sema!TypeOK,
            Sema!CvStates, Sema!WaitOps
<1>1. ASSUME NEW o \in Sema!WaitOps, Sema!Call(w, o) PROVE Sema!SingleWaiterInv'
    BY <1>1 DEF Sema!Call
<1>2. ASSUME semaOp[w] \in Sema!WaitOps, Sema!Take(w), Sema!Return(w, "ok")
      PROVE Sema!SingleWaiterInv'
    BY <1>2 DEF Sema!Take, Sema!Return
<1>3. ASSUME semaOp[w] = "wait", Sema!Block(w), Sema!Stay
      PROVE Sema!SingleWaiterInv'
    BY <1>3 DEF Sema!Block, Sema!Stay
<1>4. ASSUME semaOp[w] \in {"wait", "timedwait"}, Sema!Resume(w), Sema!Return(w, "ok")
      PROVE Sema!SingleWaiterInv'
    BY <1>4 DEF Sema!Resume, Sema!Return
<1>5. ASSUME semaOp[w] = "timedwait", Sema!TimedBlock(w) \/ Sema!Expire(w), Sema!Stay
      PROVE Sema!SingleWaiterInv'
    BY <1>5 DEF Sema!TimedBlock, Sema!Expire, Sema!Stay
<1>6. ASSUME semaOp[w] = "timedwait", Sema!ResumeLate(w), Sema!Return(w, "ok")
      PROVE Sema!SingleWaiterInv'
    BY <1>6 DEF Sema!ResumeLate, Sema!Return
<1>7. ASSUME semaOp[w] = "timedwait", Sema!GiveUp(w), Sema!Return(w, "timeout")
      PROVE Sema!SingleWaiterInv'
    BY <1>7 DEF Sema!GiveUp, Sema!Return
<1>8. ASSUME semaOp[w] = "trywait", Sema!Empty(w), Sema!Return(w, "timeout")
      PROVE Sema!SingleWaiterInv'
    BY <1>8 DEF Sema!Empty, Sema!Return
<1> QED
    BY <1>1, <1>2, <1>3, <1>4, <1>5, <1>6, <1>7, <1>8
       DEF Sema!Wait, Sema!osSemaphoreWait, Sema!osSemaphoreTimedWait,
           Sema!osSemaphoreTryWait

(* The steps of a posting thread keep it too: the one thread that can sleep   *)
(* is the one a post at count 0 signals.                                      *)
LEMMA PosterStep ==
    ASSUME NEW w, Bounded, Waiters = {w}, w \notin Posters, Sema!SingleWaiterInv,
           NEW t \in Posters, Sema!Call(t, "post") \/ Sema!osSemaphorePost(t)
    PROVE  Sema!SingleWaiterInv'
<1> t \in Sema!Threads /\ w \in Sema!Threads /\ \A u \in Sema!Threads : u = w \/ u \in Posters
    BY DEF Sema!Threads
<1>a. \A u \in Posters : cv[u] \in {"run"}
    BY DEF Sema!SingleWaiterInv, Sema!Consistent, Sema!TypeOK, Sema!CvStates,
           Sema!Threads
<1>b. Sema!Sleepers \subseteq {w}
    BY <1>a DEF Sema!Sleepers, Sema!SingleWaiterInv, Sema!TypeOK
<1> USE DEF Bounded, Sema!SingleWaiterInv, Sema!Consistent, Sema!TypeOK,
            Sema!CvStates, Sema!WaitOps
<1>1. CASE Sema!Call(t, "post")
    BY <1>1 DEF Sema!Call
<1>2. CASE semaOp[t] = "post" /\ Sema!Increment /\ Sema!Return(t, "ok")
    <2>1. CASE count # 0
        BY <1>2, <2>1 DEF Sema!Increment, Sema!Return
    <2>2. CASE count = 0 /\ w \in Sema!Sleepers
        <3>1. cv' = [cv EXCEPT ![w] = "signalled"] /\ count' = 1
            BY <1>2, <1>b, <2>2 DEF Sema!Increment, Sema!CondSignal
        <3>2. semaOp[w] \in {"wait", "timedwait"}
            BY <2>2 DEF Sema!Sleepers
        <3> QED
            BY <1>2, <1>a, <2>2, <3>1, <3>2 DEF Sema!Return
    <2>3. CASE count = 0 /\ w \notin Sema!Sleepers
        <3>1. cv' = cv /\ count' = 1
            BY <1>2, <1>b, <2>3 DEF Sema!Increment, Sema!CondSignal
        <3>2. \A u \in Sema!Threads : cv[u] \notin {"blocked", "timedblocked"}
            BY <1>a, <2>3 DEF Sema!Sleepers
        <3> QED
            BY <1>2, <3>1, <3>2 DEF Sema!Return
    <2> QED
        BY <2>1, <2>2, <2>3
<1>3. CASE semaOp[t] = "post" /\ Sema!AtMaximum /\ Sema!Return(t, "failed")
    BY <1>3 DEF Sema!AtMaximum, Sema!Return
<1> QED
    BY <1>1, <1>2, <1>3 DEF Sema!osSemaphorePost

(* The invariant holds of every behaviour with one waiting thread.            *)
THEOREM SingleWaiterCorrect ==
    ASSUME Bounded, OneWaiterOnly
    PROVE  Sema!SafeSpec => []Sema!SingleWaiterInv
<1>1. PICK w : Waiters = {w} /\ w \notin Posters
    BY DEF OneWaiterOnly
<1>2. Sema!Init => Sema!SingleWaiterInv
    BY DEF Bounded, Sema!Init, Sema!SingleWaiterInv, Sema!Consistent,
           Sema!TypeOK, Sema!CvStates, Sema!WaitOps, Sema!Threads
<1>3. Sema!SingleWaiterInv /\ [Sema!Next]_(Sema!vars) => Sema!SingleWaiterInv'
    <2>1. Sema!SingleWaiterInv /\ Sema!Next => Sema!SingleWaiterInv'
        BY <1>1, WaiterStep, PosterStep DEF Sema!Next
    <2>2. Sema!SingleWaiterInv /\ UNCHANGED Sema!vars => Sema!SingleWaiterInv'
        BY DEF Sema!SingleWaiterInv, Sema!Consistent, Sema!TypeOK, Sema!vars
    <2> QED
        BY <2>1, <2>2
<1> QED
    BY <1>2, <1>3, PTL DEF Sema!SafeSpec

(* One waiting thread never gets a token that was not posted and never sleeps *)
(* beside one: what MCOsSemaphore checks, for every number of posters.        *)
THEOREM SingleWaiterSafe ==
    ASSUME Bounded, OneWaiterOnly
    PROVE  Sema!SafeSpec => [](Sema!NoTokenFromNothing /\ Sema!NoLostWakeup)
<1>1. Sema!SingleWaiterInv => Sema!NoTokenFromNothing /\ Sema!NoLostWakeup
    BY DEF Bounded, Sema!SingleWaiterInv, Sema!Consistent, Sema!TypeOK,
           Sema!NoTokenFromNothing, Sema!NoLostWakeup, Sema!Sleepers
<1> QED
    BY <1>1, SingleWaiterCorrect, PTL

(* Step by step, the semaphore with one waiting thread is a counter: blocking, *)
(* being signalled and expiring are stutters, a return is a grant or a refusal. *)
THEOREM SingleWaiterImplementsCounter ==
    ASSUME Bounded, OneWaiterOnly
    PROVE  Sema!SafeSpec => Counter!SafeSpec
<1>1. PICK w : Waiters = {w} /\ w \notin Posters
    BY DEF OneWaiterOnly
<1>2. Sema!Init => Counter!Init
    BY DEF Sema!Init, Counter!Init, Sema!Threads, Counter!Threads
<1>3. Sema!SingleWaiterInv /\ [Sema!Next]_(Sema!vars) => [Counter!Next]_(Counter!vars)
    <2> SUFFICES ASSUME Sema!SingleWaiterInv, [Sema!Next]_(Sema!vars)
                 PROVE  Counter!Next \/ UNCHANGED Counter!vars
        OBVIOUS
    <2> w \in Sema!Threads
        BY <1>1 DEF Sema!Threads
    <2>1. ASSUME NEW t \in Waiters, NEW o \in Sema!WaitOps, Sema!Call(t, o)
          PROVE Counter!Next
        BY <2>1 DEF Sema!WaitOps, Sema!Call, Counter!Next, Counter!Call
    <2>2. ASSUME NEW t \in Waiters, Sema!Wait(t)
          PROVE Counter!Next \/ UNCHANGED Counter!vars
        <3> t \in Sema!Threads
            BY DEF Sema!Threads
        <3>1. ASSUME count > 0, semaOp[t] \in Sema!WaitOps, count' = count - 1, Sema!Return(t, "ok")
              PROVE  Counter!Grant(t)
            BY <3>1 DEF Sema!WaitOps, Sema!Return, Counter!Grant, Counter!Answer
        <3>2. ASSUME count = 0, semaOp[t] \in {"timedwait", "trywait"}, count' = count,
                     Sema!Return(t, "timeout")
              PROVE  Counter!Refuse(t)
            BY <3>2 DEF Sema!Return, Counter!Refuse, Counter!Answer
        <3>3. ASSUME count' = count, Sema!Stay PROVE UNCHANGED Counter!vars
            BY <3>3 DEF Sema!Stay, Counter!vars
        <3>4. Sema!Take(t) => count > 0 /\ count' = count - 1
            BY DEF Bounded, Sema!Take, Sema!SingleWaiterInv
        <3>5. Sema!Resume(t) => count > 0 /\ count' = count - 1
            BY DEF Sema!Resume, Sema!SingleWaiterInv, Sema!Consistent
        <3>6. Sema!ResumeLate(t) => count > 0 /\ count' = count - 1
            BY DEF Bounded, Sema!ResumeLate, Sema!SingleWaiterInv
        <3>7. Sema!Block(t) \/ Sema!TimedBlock(t) \/ Sema!Expire(t) => count' = count
            BY DEF Sema!Block, Sema!TimedBlock, Sema!Expire
        <3>8. Sema!GiveUp(t) \/ Sema!Empty(t) => count = 0 /\ count' = count
            BY DEF Sema!GiveUp, Sema!Empty
        <3> QED
            BY <2>2, <3>1, <3>2, <3>3, <3>4, <3>5, <3>6, <3>7, <3>8
               DEF Sema!Wait, Sema!WaitOps, Sema!osSemaphoreWait,
                   Sema!osSemaphoreTimedWait,
                   Sema!osSemaphoreTryWait, Counter!Next
    <2>3. ASSUME NEW t \in Posters, Sema!Call(t, "post") PROVE Counter!Next
        BY <2>3 DEF Sema!Call, Counter!Next, Counter!Call
    <2>4. ASSUME NEW t \in Posters, Sema!osSemaphorePost(t) PROVE Counter!Release(t)
        BY <2>4
           DEF Bounded, Sema!osSemaphorePost, Sema!Increment, Sema!AtMaximum,
               Sema!Return, Sema!SingleWaiterInv,
               Counter!Release, Counter!Answer
    <2>5. CASE UNCHANGED Sema!vars
        BY <2>5 DEF Sema!vars, Counter!vars
    <2> QED
        BY <2>1, <2>2, <2>3, <2>4, <2>5 DEF Sema!Next, Counter!Next
<1> QED
    BY <1>2, <1>3, SingleWaiterCorrect, PTL DEF Sema!SafeSpec, Counter!SafeSpec
==============================================================================
