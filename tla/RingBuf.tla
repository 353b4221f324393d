------------------------------- MODULE RingBuf -------------------------------
(***************************************************************************)
(* The lock-free ring buffer of a sink stream (aes67_rtp.c): the RTP RX    *)
(* task fills it, the playback side empties it through aes67_rtp_sink_read *)
(* and only the two volatile positions are shared.                         *)
(*                                                                         *)
(* Every access that the other task can observe is a step of its own: the  *)
(* computation of the free or available space, each byte of the memcpys,   *)
(* and the final update of the position.  The two tasks interleave freely. *)
(* A byte is tagged with its rank among the bytes the ring accepted, the   *)
(* finest data the code could mix up; the code never looks at the data.    *)
(***************************************************************************)
EXTENDS Naturals

CONSTANTS
  FrameBytes,  \* channels * sizeof(int32_t)
  Frames,      \* samples_per_packet * AES67_JITTER_BUF_MULT
  WriteFrames, \* largest packet the RX task converts, in frames
  ReadFrames,  \* frames the consumer asks for in each call
  MaxFrames    \* frames the network delivers: bounds the model

ASSUME RingAssumption ==
  /\ FrameBytes \in Nat \ {0}
  /\ Frames \in Nat \ {0}
  /\ WriteFrames \in Nat \ {0}
  /\ ReadFrames \in 1 .. Frames
  /\ MaxFrames \in Nat

VARIABLES
  data,       \* rb->data
  write_pos,  \* rb->write_pos, written by the RX task only
  read_pos,   \* rb->read_pos, written by the consumer only
  wpc, wlen, wdone,        \* RX task: inside ringbuf_write?, its len, bytes copied
  rpc, rlen, rdone, rbuf,  \* consumer: where, its len, bytes copied, the bytes
  underflow,  \* AES67_RTP_STATUS_UNDERFLOW of the stream
  put,        \* history: bytes accepted by completed ringbuf_write calls
  got,        \* history: bytes returned by completed sink_read calls
  delivered   \* history: the block the last successful sink_read returned

wvars == <<write_pos, wpc, wlen, wdone, put>>
rvars == <<read_pos, rpc, rlen, rdone, rbuf, underflow, got, delivered>>
vars  == <<data, wvars, rvars>>

Capacity  == Frames * FrameBytes
ReadBytes == ReadFrames * FrameBytes
MaxBytes  == MaxFrames * FrameBytes
Blank     == MaxBytes                   \* the memset: the rank of no byte
Empty     == [i \in {} |-> 0]

------------------------------------------------------------------------------
(* A definition whose name extends the name of the one that follows it is  *)
(* a mutant of it: the bug that a property below must notice.              *)
SizeTwoSpare == Capacity + 2

(* One byte more than the frames need, to tell full from empty. *)
Size == Capacity + 1

Advance(pos, n) == (pos + n) % Size

RingAvailable ==
  IF write_pos >= read_pos THEN write_pos - read_pos
                           ELSE Size - read_pos + write_pos

RingFreeNoReserve == Size - RingAvailable

RingFree == Size - 1 - RingAvailable

------------------------------------------------------------------------------
Init ==
  /\ data = [i \in 0 .. Size - 1 |-> Blank]
  /\ write_pos = 0 /\ wpc = "idle" /\ wlen = 0 /\ wdone = 0 /\ put = 0
  /\ read_pos = 0  /\ rpc = "idle" /\ rlen = 0 /\ rdone = 0 /\ rbuf = Empty
  /\ underflow = FALSE /\ got = 0 /\ delivered = Empty

(* ringbuf_write of n frames: len is clamped to the space that is free now. *)
(* A call that finds no space returns 0 and changes nothing.                *)
WriteBegin(n) ==
  LET len == IF n * FrameBytes > RingFree THEN RingFree ELSE n * FrameBytes
  IN  /\ wpc = "idle"
      /\ len > 0
      /\ put + len <= MaxBytes
      /\ wpc' = "copy" /\ wlen' = len /\ wdone' = 0
      /\ UNCHANGED <<data, write_pos, put, rvars>>

(* One byte of the memcpys, the second of which starts again at data[0]. *)
WriteByte ==
  /\ wpc = "copy" /\ wdone < wlen
  /\ data' = [data EXCEPT ![Advance(write_pos, wdone)] = put + wdone]
  /\ wdone' = wdone + 1
  /\ UNCHANGED <<write_pos, wpc, wlen, put, rvars>>

WritePublishEarly ==
  /\ wpc = "copy"
  /\ write_pos' = Advance(write_pos, wlen)
  /\ put' = put + wlen
  /\ wpc' = "idle"
  /\ UNCHANGED <<data, wlen, wdone, rvars>>

(* rb->write_pos is set once all the bytes are in place. *)
WritePublish ==
  /\ wpc = "copy" /\ wdone = wlen
  /\ write_pos' = Advance(write_pos, wlen)
  /\ put' = put + wlen
  /\ wpc' = "idle"
  /\ UNCHANGED <<data, wlen, wdone, rvars>>

SinkReadStrict ==
  /\ rpc = "idle"
  /\ IF RingAvailable <= ReadBytes
     THEN underflow' = TRUE /\ UNCHANGED rpc
     ELSE rpc' = "read" /\ UNCHANGED underflow
  /\ UNCHANGED <<data, wvars, read_pos, rlen, rdone, rbuf, got, delivered>>

SinkReadUnchecked ==
  /\ rpc = "idle"
  /\ RingAvailable > 0
  /\ rpc' = "read"
  /\ UNCHANGED <<data, wvars, read_pos, rlen, rdone, rbuf, underflow, got, delivered>>

(* aes67_rtp_sink_read: with too few bytes it returns silence and flags it. *)
SinkRead ==
  /\ rpc = "idle"
  /\ IF RingAvailable < ReadBytes
     THEN underflow' = TRUE /\ UNCHANGED rpc
     ELSE rpc' = "read" /\ UNCHANGED underflow
  /\ UNCHANGED <<data, wvars, read_pos, rlen, rdone, rbuf, got, delivered>>

(* ringbuf_read computes the available bytes a second time and clamps. *)
ReadBegin ==
  /\ rpc = "read"
  /\ rlen' = IF ReadBytes > RingAvailable THEN RingAvailable ELSE ReadBytes
  /\ rdone' = 0 /\ rbuf' = Empty
  /\ rpc' = "copy"
  /\ UNCHANGED <<data, wvars, read_pos, underflow, got, delivered>>

(* One byte of the memcpys out of the ring. *)
ReadByte ==
  /\ rpc = "copy" /\ rdone < rlen
  /\ rbuf' = [i \in 0 .. rdone |->
                IF i < rdone THEN rbuf[i] ELSE data[Advance(read_pos, rdone)]]
  /\ rdone' = rdone + 1
  /\ UNCHANGED <<data, wvars, read_pos, rpc, rlen, underflow, got, delivered>>

(* rb->read_pos hands the bytes back to the RX task; a short read would be *)
(* padded with silence and flagged.                                        *)
ReadPublish ==
  /\ rpc = "copy" /\ rdone = rlen
  /\ read_pos' = Advance(read_pos, rlen)
  /\ got' = got + rlen
  /\ delivered' = rbuf
  /\ underflow' = (rlen < ReadBytes)
  /\ rpc' = "idle"
  /\ UNCHANGED <<data, wvars, rlen, rdone, rbuf>>

Reader == SinkRead \/ ReadBegin \/ ReadByte \/ ReadPublish

Next ==
  \/ \E n \in 1 .. WriteFrames : WriteBegin(n)
  \/ WriteByte
  \/ WritePublish
  \/ SinkRead
  \/ ReadBegin
  \/ ReadByte
  \/ ReadPublish

Spec == Init /\ [][Next]_vars

(* Both tasks are scheduled: a call that began runs to its end, and the    *)
(* consumer is paced by a clock that never stops.  Nothing obliges the     *)
(* network to deliver a packet.                                            *)
FairSpec ==
  /\ Spec
  /\ WF_vars(WriteByte \/ WritePublish)
  /\ WF_vars(Reader)

------------------------------------------------------------------------------
(* Types, and the values the positions and counters may take. *)
TypeOK ==
  /\ data \in [0 .. Size - 1 -> 0 .. MaxBytes]
  /\ write_pos \in 0 .. Size - 1 /\ read_pos \in 0 .. Size - 1
  /\ wpc \in {"idle", "copy"} /\ wlen \in 0 .. Capacity /\ wdone \in 0 .. wlen
  /\ rpc \in {"idle", "read", "copy"} /\ rlen \in 0 .. ReadBytes /\ rdone \in 0 .. rlen
  /\ rbuf \in [0 .. rdone - 1 -> 0 .. MaxBytes]
  /\ underflow \in BOOLEAN
  /\ put \in 0 .. MaxBytes /\ got \in 0 .. MaxBytes

WriterBytes == IF wpc = "copy" THEN {Advance(write_pos, i) : i \in 0 .. wlen - 1} ELSE {}
UnreadBytes == {Advance(read_pos, i) : i \in 0 .. RingAvailable - 1}

(* The two tasks never touch the same byte of the ring: what the RX task   *)
(* is copying in (ringbuf_write) lies outside the bytes that the consumer  *)
(* may be copying out (ringbuf_read), although neither holds a lock.       *)
ExclusiveBytes == WriterBytes \cap UnreadBytes = {}

(* A packet that does not fit is truncated at a frame boundary: the ring   *)
(* holds whole frames whenever the other task looks, so channels are never *)
(* swapped after an overflow (the clamp in ringbuf_write, the size chosen  *)
(* by stream_alloc_buffers).                                               *)
FrameAligned == \E k \in 0 .. Frames : RingAvailable = k * FrameBytes

(* Once sink_read has seen enough bytes its ringbuf_read returns them all: *)
(* the partial-read branch of sink_read is dead with a single reader.      *)
NoPartialRead == rpc = "copy" => rlen = ReadBytes

(* The queue that the histories of the two tasks describe. *)
Fifo == INSTANCE AudioFifo
          WITH FrameBytes <- FrameBytes, Frames <- Frames,
               put <- put, got <- got, delivered <- delivered

(* The ring is the bounded lossless queue of whole frames of AudioFifo:    *)
(* no frame is lost, repeated, torn or reordered on its way through.       *)
ImplementsFifo == Fifo!FifoSpec

(* Audio that makes up a full read is handed out: the consumer is never    *)
(* stuck in front of a ring that holds what it asked for.                  *)
AudioIsDelivered ==
  \A k \in 0 .. MaxBytes :
    (got = k /\ put - got >= ReadBytes) ~> (got > k)
=============================================================================
