------------------------------ MODULE MCRingBuf ------------------------------
(* RingBuf on a ring of four three-byte frames (thirteen bytes with the    *)
(* spare one), filled with packets of one to three frames and emptied two  *)
(* frames at a time.  Packets are truncated, reads find too little, and    *)
(* thirteen frames take both positions three times around the ring, so     *)
(* they wrap in the middle of a frame.                                     *)
EXTENDS RingBuf
=============================================================================
