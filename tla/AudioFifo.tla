------------------------------ MODULE AudioFifo ------------------------------
(***************************************************************************)
(* What a stream's jitter buffer promises to the task that fills it and to *)
(* the task that empties it: a bounded, lossless first-in-first-out queue  *)
(* of whole audio frames.  A byte is named by its rank among the bytes the *)
(* buffer accepted, so "lossless and in order" means that the n-th block   *)
(* handed out holds exactly the ranks that follow the previous block.      *)
(*                                                                         *)
(* RingBuf.tla implements this with two shared positions and no lock.      *)
(***************************************************************************)
EXTENDS Naturals

CONSTANTS
  FrameBytes,  \* bytes of one frame: channels * sizeof(int32_t)
  Frames       \* frames the buffer holds

VARIABLES
  put,       \* number of bytes accepted so far
  got,       \* number of bytes handed out so far
  delivered  \* the last block handed out, a function from 0..n-1 to ranks

fifo == <<put, got, delivered>>

Capacity == Frames * FrameBytes

FifoInit ==
  /\ put = 0
  /\ got = 0
  /\ delivered = [i \in {} |-> 0]

(* n whole frames that fit are accepted. *)
Accept(n) ==
  /\ put' = put + n * FrameBytes
  /\ put' - got <= Capacity
  /\ UNCHANGED <<got, delivered>>

(* The n oldest frames are handed out, in order. *)
Deliver(n) ==
  /\ got' = got + n * FrameBytes
  /\ got' <= put
  /\ delivered' = [i \in 0 .. n * FrameBytes - 1 |-> got + i]
  /\ UNCHANGED put

FifoNext == \E n \in 1 .. Frames : Accept(n) \/ Deliver(n)

FifoSpec == FifoInit /\ [][FifoNext]_fifo
=============================================================================
