----------------------------- MODULE BoundedFifo -----------------------------
(* What a queue of the OS abstraction layer promises one writer and one       *)
(* reader: a first-in first-out queue of at most Depth items.  A write or a   *)
(* read is one indivisible step; one that may give up is refused only while   *)
(* the queue is full or empty.                                                *)
EXTENDS Naturals, Sequences

CONSTANTS Writers, Readers, Items, NoItem, Depth

Threads == Writers \union Readers

VARIABLES queue,  \* the items written and not yet read
          op,     \* op[t]: how thread t waits in the call it has under way
          item,   \* item[t]: a writer's item to write, a reader's item read
          ret     \* ret[t]: the answer to the last call of t

vars == <<queue, op, item, ret>>

Init == /\ queue = <<>>
        /\ op   = [t \in Threads |-> "none"]
        /\ item = [t \in Threads |-> NoItem]
        /\ ret  = [t \in Threads |-> "none"]

Call(t, o, v) ==
    /\ op[t] = "none"
    /\ op'   = [op   EXCEPT ![t] = o]
    /\ item' = [item EXCEPT ![t] = v]
    /\ ret'  = [ret  EXCEPT ![t] = "none"]
    /\ UNCHANGED queue

Answer(t, r) == /\ op'  = [op  EXCEPT ![t] = "none"]
                /\ ret' = [ret EXCEPT ![t] = r]

Put(w) ==
    /\ op[w] # "none"
    /\ Len(queue) < Depth
    /\ queue' = Append(queue, item[w])
    /\ Answer(w, "ok")
    /\ UNCHANGED item

Get(r) ==
    /\ op[r] # "none"
    /\ queue # <<>>
    /\ item'  = [item EXCEPT ![r] = Head(queue)]
    /\ queue' = Tail(queue)
    /\ Answer(r, "ok")

Refuse(t, why) ==
    /\ op[t] \in {"timedwait", "trywait"}
    /\ why
    /\ Answer(t, "timeout")
    /\ UNCHANGED <<queue, item>>

Write(w) == Put(w) \/ Refuse(w, Len(queue) = Depth)
Read(r)  == Get(r) \/ Refuse(r, queue = <<>>)

Next == \E o \in {"wait", "timedwait", "trywait"} :
            \/ \E w \in Writers : (\E v \in Items : Call(w, o, v)) \/ Write(w)
            \/ \E r \in Readers : Call(r, o, NoItem) \/ Read(r)

SafeSpec == Init /\ [][Next]_vars

\* A call that can be answered, with an item, with space or with a refusal, is.
Spec == /\ SafeSpec
        /\ \A w \in Writers : WF_vars(Write(w))
        /\ \A r \in Readers : WF_vars(Read(r))
==============================================================================
