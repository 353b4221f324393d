----------------------------- MODULE MCNodeLife -----------------------------
(* Calls in units of 200 ms: the waits of 500, 200 and 600 ms are 2, 1 and *)
(* 3 of them, rounded down; up to four tasks at a time.                    *)
(* The frame timer in units of half a period, on a clock of its own: a     *)
(* call lasts any number of frames.  A second is one and a half periods,   *)
(* so that the period does not divide it, as at 44.1 kHz.  The PTP clock   *)
(* is stepped back by a whole period and ahead by one and a half, and the  *)
(* interrupt is late by a period at most.  With PutOff the frame timer     *)
(* moves only as soon as it matters (NodeFrames).                          *)
EXTENDS NodeFrames

MCWaits == [audio |-> 0, sap |-> 2, rtp |-> 1, ptp |-> 3]
MCJumps == {-2, 3}
=============================================================================
