----------------------------- MODULE OsSemaphore -----------------------------
(* The counting semaphore that oslayer_linux.c builds from a pthread mutex,  *)
(* a pthread condition variable and an int32_t.  Each function runs under    *)
(* the mutex, so it is one step up to the point where pthread_cond_wait      *)
(* releases the mutex, and one more from the point where the mutex is taken  *)
(* again.  OsQueue instantiates this module once per semaphore.              *)
EXTENDS Integers

CONSTANTS Waiters,    \* threads that wait, timed-wait and try-wait
          Posters,    \* threads that post
          InitCount,  \* osSemaphoreInit's init_count
          MaxCount    \* bound standing for 0x7fffffff

ASSUME SemaphoreAssumption ==
    /\ MaxCount \in Nat \ {0}
    /\ InitCount \in 0..MaxCount

Threads == Waiters \union Posters

VARIABLES count,  \* pSem->count
          cv,     \* cv[t]: where t stands with respect to pSem->cond
          op,     \* op[t]: the function t has called, "none" outside of any
          ret     \* ret[t]: what the last call of t returned

vars == <<count, cv, op, ret>>

WaitOps == {"wait", "timedwait", "trywait"}

\* "blocked"/"timedblocked": inside pthread_cond_(timed)wait.  "signalled" and
\* "expired": that call is over, with 0 and with ETIMEDOUT, but it has yet to
\* take the mutex again.
CvStates == {"run", "blocked", "timedblocked", "signalled", "expired"}

Init == /\ count = InitCount
        /\ cv  = [t \in Threads |-> "run"]
        /\ op  = [t \in Threads |-> "none"]
        /\ ret = [t \in Threads |-> "none"]

-----------------------------------------------------------------------------
(* The steps of the functions on the semaphore itself: only count and cv.    *)

Take(t) ==                      \* the count is not 0: decrement, no waiting
    /\ cv[t] = "run"
    /\ count # 0
    /\ count' = count - 1
    /\ UNCHANGED cv

Empty(t) ==                     \* osSemaphoreTryWait finds the count at 0
    /\ cv[t] = "run"
    /\ count = 0
    /\ UNCHANGED <<count, cv>>

Block(t) ==                     \* osSemaphoreWait: pthread_cond_wait
    /\ cv[t] = "run"
    /\ count = 0
    /\ cv' = [cv EXCEPT ![t] = "blocked"]
    /\ UNCHANGED count

TimedBlock(t) ==                \* osSemaphoreTimedWait: pthread_cond_timedwait
    /\ cv[t] = "run"
    /\ count = 0
    /\ cv' = [cv EXCEPT ![t] = "timedblocked"]
    /\ UNCHANGED count

\* A thread whose wait was signalled decrements without a second look at the
\* count: the test around the wait is an "if", not a loop.
Resume(t) ==
    /\ cv[t] = "signalled"
    /\ count' = count - 1
    /\ cv' = [cv EXCEPT ![t] = "run"]

Expire(t) ==                    \* pthread_cond_timedwait: ETIMEDOUT
    /\ cv[t] = "timedblocked"
    /\ cv' = [cv EXCEPT ![t] = "expired"]
    /\ UNCHANGED count

\* A timed wait that expired takes a token that was posted in the meantime.
ResumeLate(t) ==
    /\ cv[t] = "expired"
    /\ count # 0
    /\ count' = count - 1
    /\ cv' = [cv EXCEPT ![t] = "run"]

\* Mutant: ETIMEDOUT is believed although a token came before the mutex did.
GiveUpHastily(t) ==
    /\ cv[t] = "expired"
    /\ cv' = [cv EXCEPT ![t] = "run"]
    /\ UNCHANGED count

GiveUp(t) ==
    /\ cv[t] = "expired"
    /\ count = 0
    /\ cv' = [cv EXCEPT ![t] = "run"]
    /\ UNCHANGED count

Sleepers == {t \in DOMAIN cv : cv[t] \in {"blocked", "timedblocked"}}

\* pthread_cond_signal wakes one of the threads blocked on it, if there is one.
CondSignal == IF Sleepers = {} THEN UNCHANGED cv
              ELSE \E t \in Sleepers : cv' = [cv EXCEPT ![t] = "signalled"]

\* Mutant: "if (++count == 0)", the signal is never sent.
IncrementFirst ==
    /\ count # MaxCount
    /\ count' = count + 1
    /\ IF count' = 0 THEN CondSignal ELSE UNCHANGED cv

\* The condition is signalled only when the count was 0.
Increment ==
    /\ count # MaxCount
    /\ count' = count + 1
    /\ IF count = 0 THEN CondSignal ELSE UNCHANGED cv

AtMaximum == count = MaxCount /\ UNCHANGED <<count, cv>>

-----------------------------------------------------------------------------
(* The functions, called by the threads in any order.                        *)

Call(t, o) ==
    /\ op[t] = "none"
    /\ op'  = [op  EXCEPT ![t] = o]
    /\ ret' = [ret EXCEPT ![t] = "none"]
    /\ UNCHANGED <<count, cv>>

Return(t, r) == /\ op'  = [op  EXCEPT ![t] = "none"]
                /\ ret' = [ret EXCEPT ![t] = r]

Stay == UNCHANGED <<op, ret>>

osSemaphoreWait(t) ==
    /\ op[t] = "wait"
    /\ \/ Take(t)   /\ Return(t, "ok")
       \/ Block(t)  /\ Stay
       \/ Resume(t) /\ Return(t, "ok")

osSemaphoreTimedWait(t) ==
    /\ op[t] = "timedwait"
    /\ \/ Take(t)       /\ Return(t, "ok")
       \/ TimedBlock(t) /\ Stay
       \/ Resume(t)     /\ Return(t, "ok")
       \/ Expire(t)     /\ Stay
       \/ ResumeLate(t) /\ Return(t, "ok")
       \/ GiveUp(t)     /\ Return(t, "timeout")

osSemaphoreTryWait(t) ==
    /\ op[t] = "trywait"
    /\ \/ Take(t)  /\ Return(t, "ok")
       \/ Empty(t) /\ Return(t, "timeout")

osSemaphorePost(t) ==
    /\ op[t] = "post"
    /\ \/ Increment /\ Return(t, "ok")
       \/ AtMaximum /\ Return(t, "failed")

Wait(t) == osSemaphoreWait(t) \/ osSemaphoreTimedWait(t) \/ osSemaphoreTryWait(t)

Next == \/ \E t \in Waiters : (\E o \in WaitOps : Call(t, o)) \/ Wait(t)
        \/ \E t \in Posters : Call(t, "post") \/ osSemaphorePost(t)

\* A runnable thread gets the mutex and the processor; a timeout expires.
Fairness == /\ \A t \in Waiters : WF_vars(Wait(t))
            /\ \A t \in Posters : WF_vars(osSemaphorePost(t))

SafeSpec == Init /\ [][Next]_vars
Spec     == SafeSpec /\ Fairness

-----------------------------------------------------------------------------
TypeOK == /\ count \in Int
          /\ cv  \in [Threads -> CvStates]
          /\ op  \in [Threads -> WaitOps \union {"none", "post"}]
          /\ ret \in [Threads -> {"none", "ok", "timeout", "failed"}]

(* No wait ever returns a token that was not posted: the count, which is what *)
(* was put in minus what was taken out, is never negative.  It is what        *)
(* osSemaphoreWait's "if" leaves open (oslayer_linux.c:740).                  *)
NoTokenFromNothing == count >= 0

(* No thread sleeps on the condition variable beside a token that nobody was  *)
(* woken for: osSemaphorePost signals only when the count was 0.              *)
NoLostWakeup ==
    count > 0 /\ Sleepers # {} => \E t \in Threads : cv[t] = "signalled"

(* Where a thread stands, against the count and the function it is in.        *)
Consistent(t) ==
    /\ cv[t] \in {"blocked", "timedblocked"} => count = 0
    /\ cv[t] = "signalled" => count > 0 /\ op[t] \in {"wait", "timedwait"}
    /\ cv[t] = "blocked" => op[t] = "wait"
    /\ cv[t] \in {"timedblocked", "expired"} => op[t] = "timedwait"
    /\ op[t] # "none" => ret[t] = "none"

(* The inductive invariant behind both, for one waiting thread: it sleeps     *)
(* only while the count is 0, and once signalled the token posted for it is   *)
(* still there when it has the mutex again (oslayer_linux.c:740, 855).        *)
SingleWaiterInv ==
    /\ TypeOK
    /\ count \in 0..MaxCount
    /\ \A t \in Threads : Consistent(t)
    /\ \A t \in Posters : op[t] \in {"none", "post"}

(* With one waiting thread the condition variable is invisible: the semaphore *)
(* is a counter of tokens, refusals included, and every wait that a token is  *)
(* there for returns.                                                         *)
Abstract == INSTANCE CountingSemaphore WITH tokens <- count
ImplementsCounter == Abstract!Spec
==============================================================================
