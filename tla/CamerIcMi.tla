------------------------------ MODULE CamerIcMi ------------------------------
(* The two buffers of an output path of the memory interface, of              *)
(* cameric_drv/source/cameric_mi.c: the one the hardware writes, in the       *)
(* shadow registers, and the one it writes next.  A path is a value, and      *)
(* what CamerIcMiIrq does to it are operators: MomCtrl.tla has the threads.   *)
EXTENDS MediaBufPool

MiPaths == [pShdBuffer : Buffers \union {NoBuffer},
            pBuffer    : Buffers \union {NoBuffer}]

\* Before CamerIcMiStart and after CamerIcFlushAllBuffers
NoBuffers == [pShdBuffer |-> NoBuffer, pBuffer |-> NoBuffer]

\* A single buffer left is not delivered: the hardware needs it.
HasFull(mi) == mi.pShdBuffer # mi.pBuffer

\* The label REUSEBUFFER: the frame is skipped, its buffer written once more.
Reuse(mi) == [pShdBuffer |-> mi.pBuffer, pBuffer |-> mi.pShdBuffer]

\* An empty buffer was received.
Renew(mi, b) == [pShdBuffer |-> mi.pBuffer, pBuffer |-> b]

\* None was: the next buffer is written twice.
Starve(mi) == [mi EXCEPT !.pShdBuffer = mi.pBuffer]
==============================================================================
