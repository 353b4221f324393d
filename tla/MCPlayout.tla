------------------------------ MODULE MCPlayout ------------------------------
(* Playout with packets shorter and longer than a descriptor, a buffer of  *)
(* a few packets, and samples of seven bits, silent, soft and at full      *)
(* scale; and output past the converter, with three slots for sinks.       *)
EXTENDS Playback

AllAmps == {-Half, 0, 5, Half - 1}
==============================================================================
