--------------------------- MODULE MCOsSemaphore ---------------------------
(* One waiting thread and two posting threads, the way a command queue uses  *)
(* its ItemsUsedSema: the handler thread waits, API and interrupt threads    *)
(* post.                                                                     *)
EXTENDS OsSemaphore

CONSTANTS w1, p1, p2

OneWaiter  == {w1}
TwoPosters == {p1, p2}
=============================================================================
