----------------------------- MODULE MCOsQueue -----------------------------
(* One thread that writes and one that reads, as the buffer queues between    *)
(* an interrupt thread and a control thread are used.                         *)
EXTENDS OsQueue

CONSTANTS w1, r1, a, b, zero

OneWriter == {w1}
OneReader == {r1}
TwoItems  == {a, b}
=============================================================================
