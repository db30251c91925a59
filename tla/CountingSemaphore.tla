-------------------------- MODULE CountingSemaphore --------------------------
(* What the semaphore of the OS abstraction layer promises its callers: a    *)
(* counter of tokens.  A wait takes one token, or, if it may give up, is     *)
(* refused while there is none; a post returns one token and fails only at   *)
(* the maximum.  No condition variable, no mutex, no wake-up.                *)
EXTENDS Naturals

CONSTANTS Waiters, Posters, InitCount, MaxCount

Threads == Waiters \union Posters

VARIABLES tokens,  \* tokens available
          op,      \* op[t]: the operation thread t has under way, or "none"
          ret      \* ret[t]: the answer to the last operation of t

vars == <<tokens, op, ret>>

Init == /\ tokens = InitCount
        /\ op  = [t \in Threads |-> "none"]
        /\ ret = [t \in Threads |-> "none"]

Call(t, o) ==
    /\ op[t] = "none"
    /\ op'  = [op  EXCEPT ![t] = o]
    /\ ret' = [ret EXCEPT ![t] = "none"]
    /\ UNCHANGED tokens

Answer(t, r) == /\ op'  = [op  EXCEPT ![t] = "none"]
                /\ ret' = [ret EXCEPT ![t] = r]

Grant(t) ==
    /\ op[t] \in {"wait", "timedwait", "trywait"}
    /\ tokens > 0
    /\ tokens' = tokens - 1
    /\ Answer(t, "ok")

Refuse(t) ==
    /\ op[t] \in {"timedwait", "trywait"}
    /\ tokens = 0
    /\ Answer(t, "timeout")
    /\ UNCHANGED tokens

Release(t) ==
    /\ op[t] = "post"
    /\ IF tokens < MaxCount THEN tokens' = tokens + 1 /\ Answer(t, "ok")
                            ELSE UNCHANGED tokens     /\ Answer(t, "failed")

Next == \/ \E t \in Waiters : \/ \E o \in {"wait", "timedwait", "trywait"} : Call(t, o)
                              \/ Grant(t)
                              \/ Refuse(t)
        \/ \E t \in Posters : Call(t, "post") \/ Release(t)

SafeSpec == Init /\ [][Next]_vars

\* Whoever may take a token, or may be refused for good, is eventually answered.
Spec == /\ SafeSpec
        /\ \A t \in Waiters : WF_vars(Grant(t) \/ Refuse(t))
        /\ \A t \in Posters : WF_vars(Release(t))
==============================================================================
