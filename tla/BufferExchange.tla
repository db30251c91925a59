--------------------------- MODULE BufferExchange ---------------------------
(* What a media buffer queue promises: a buffer is free, or somebody's, or   *)
(* in a first-in first-out queue of full buffers, and never two of these.    *)
EXTENDS Sequences, FiniteSets

CONSTANT Buffers

VARIABLES free,  \* the empty buffers
          full   \* the queue of full buffers not yet retrieved

vars == <<free, full>>

Queued == {full[i] : i \in DOMAIN full}
Outside == Buffers \ (free \union Queued)   \* in the hands of clients

Init == free = Buffers /\ full = <<>>

GetEmpty == \E b \in free : free' = free \ {b} /\ UNCHANGED full

PutFull == \E b \in Outside : full' = Append(full, b) /\ UNCHANGED free

GetFull == full # <<>> /\ full' = Tail(full) /\ UNCHANGED free

Release == \E b \in Outside : free' = free \union {b} /\ UNCHANGED full

Flush == free' = free \union Queued /\ full' = <<>>

Reset == free' = Buffers /\ full' = <<>>

Next == GetEmpty \/ PutFull \/ GetFull \/ Release \/ Flush \/ Reset

Spec == Init /\ [][Next]_vars
==============================================================================
