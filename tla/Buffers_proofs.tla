---------------------------- MODULE Buffers_proofs ----------------------------
(***************************************************************************)
(* Proofs about the two buffers that received audio waits in: the ring of  *)
(* each stream (RingBuf), and the stream buffer in front of the converter  *)
(* or the application (Playout, Playback).                                 *)
(*                                                                         *)
(* The ring, for every frame size, ring size, packet size and read size.   *)
(* The properties rest on one inductive invariant, IInv: how far write_pos *)
(* is ahead of read_pos is exactly what was accepted and not yet handed    *)
(* out, the unread bytes are where the consumer will look for them, and    *)
(* the bytes being copied in come after them and still fit.                *)
(*                                                                         *)
(* The stream buffer, for every size of it, of the descriptors and of the  *)
(* packets, and every jitter.  That underruns come to an end needs a       *)
(* balance, FlowInv: what was made up since a stream began is never more   *)
(* than what is buffered, under way or lost, and the time by which the     *)
(* next descriptor comes later than the next packet.  Each underrun uses   *)
(* up its own cause, for then the buffer is empty.  Only a packet that     *)
(* does not fit breaks the balance, and then the buffer is so full that it *)
(* holds by the room that PlayoutAssumption asks for.                      *)
(***************************************************************************)
EXTENDS RingBuf, Playback, Integers, SequenceTheorems, TLAPS

------------------------------------------------------------------------------
(* The ring buffer of a stream.                                            *)

Used == put - got
Aligned(x) == \E k \in Nat : x = k * FrameBytes

Positions ==
  /\ got <= put
  /\ Used <= Capacity
  /\ write_pos = Advance(read_pos, Used)
  /\ Aligned(put) /\ Aligned(got) /\ Aligned(Used)

WriterInv ==
  wpc = "copy" =>
    /\ wlen > 0
    /\ wlen <= Capacity - Used
    /\ put + wlen <= MaxBytes
    /\ Aligned(wlen)

ReaderInv ==
  /\ rpc \in {"read", "copy"} => ReadBytes <= Used
  /\ rpc = "copy" => rlen = ReadBytes /\ rbuf = [i \in 0 .. rdone - 1 |-> got + i]

StoredInv  == \A i \in 0 .. Used - 1 : data[Advance(read_pos, i)] = got + i
PendingInv == wpc = "copy" =>
                \A i \in 0 .. wdone - 1 : data[Advance(write_pos, i)] = put + i

IInv == TypeOK /\ Positions /\ WriterInv /\ ReaderInv /\ StoredInv /\ PendingInv

------------------------------------------------------------------------------
(* The ring has one byte more than its capacity. *)
LEMMA SizeType ==
  /\ Capacity \in Nat /\ Capacity > 0 /\ Size = Capacity + 1 /\ Size \in Nat
  /\ ReadBytes \in Nat /\ ReadBytes > 0 /\ ReadBytes <= Capacity
  /\ MaxBytes \in Nat
<1>1. Capacity \in Nat /\ ReadBytes \in Nat /\ MaxBytes \in Nat
  BY RingAssumption DEF Capacity, ReadBytes, MaxBytes
<1>2. Capacity > 0 /\ ReadBytes > 0
  BY RingAssumption DEF Capacity, ReadBytes
<1>3. ReadBytes <= Capacity
  <2>1. Frames * FrameBytes = ReadFrames * FrameBytes + (Frames - ReadFrames) * FrameBytes
    BY RingAssumption
  <2>2. (Frames - ReadFrames) * FrameBytes \in Nat
    <3>1. Frames - ReadFrames \in Nat
      BY RingAssumption
    <3> QED BY <3>1, RingAssumption
  <2> QED BY <2>1, <2>2, <1>1 DEF Capacity, ReadBytes
<1> QED BY <1>1, <1>2, <1>3 DEF Size

(* A position advances without division: at most one turn is subtracted. *)
LEMMA AdvanceWraps ==
  ASSUME NEW p \in 0 .. Size - 1, NEW n \in 0 .. Size
  PROVE  Advance(p, n) = IF p + n < Size THEN p + n ELSE p + n - Size
<1> USE SizeType DEF Advance
<1>1. CASE p + n < Size
  BY <1>1
<1>2. CASE p + n >= Size
  BY <1>2
<1> QED BY <1>1, <1>2

(* Advancing leads to a position of the ring. *)
LEMMA AdvanceType ==
  ASSUME NEW p \in 0 .. Size - 1, NEW n \in 0 .. Size
  PROVE  Advance(p, n) \in 0 .. Size - 1
BY SizeType, AdvanceWraps

(* Two advances add up, and within one turn no position is met twice. *)
LEMMA AdvanceAdds ==
  ASSUME NEW p \in 0 .. Size - 1, NEW m \in Nat, NEW n \in Nat, m + n <= Size
  PROVE  Advance(Advance(p, m), n) = Advance(p, m + n)
<1>1. Advance(p, m) = IF p + m < Size THEN p + m ELSE p + m - Size
  BY SizeType, AdvanceWraps
<1>2. Advance(p, m) \in 0 .. Size - 1
  BY SizeType, AdvanceType
<1>3. Advance(Advance(p, m), n) =
        IF Advance(p, m) + n < Size THEN Advance(p, m) + n ELSE Advance(p, m) + n - Size
  BY <1>2, SizeType, AdvanceWraps
<1>4. Advance(p, m + n) = IF p + (m + n) < Size THEN p + (m + n) ELSE p + (m + n) - Size
  BY SizeType, AdvanceWraps
<1> QED BY <1>1, <1>3, <1>4, SizeType

(* Two different distances below one turn lead to different positions. *)
LEMMA AdvanceInjective ==
  ASSUME NEW p \in 0 .. Size - 1, NEW m \in 0 .. Size - 1, NEW n \in 0 .. Size - 1,
         Advance(p, m) = Advance(p, n)
  PROVE  m = n
BY SizeType, AdvanceWraps

------------------------------------------------------------------------------
(* Whole frames stay whole frames under the arithmetic of the ring. *)
LEMMA AlignedSum ==
  ASSUME NEW x, NEW y, Aligned(x), Aligned(y)
  PROVE  Aligned(x + y)
<1>1. PICK k \in Nat : x = k * FrameBytes  BY DEF Aligned
<1>2. PICK l \in Nat : y = l * FrameBytes  BY DEF Aligned
<1>3. x + y = (k + l) * FrameBytes
  BY <1>1, <1>2, RingAssumption
<1> QED BY <1>3 DEF Aligned

(* What is left after taking whole frames from whole frames is whole. *)
LEMMA AlignedDifference ==
  ASSUME NEW x, NEW y, Aligned(x), Aligned(y), y <= x
  PROVE  Aligned(x - y)
<1>1. PICK k \in Nat : x = k * FrameBytes  BY DEF Aligned
<1>2. PICK l \in Nat : y = l * FrameBytes  BY DEF Aligned
<1>3. l <= k
  <2> SUFFICES ASSUME l > k PROVE FALSE
    OBVIOUS
  <2>1. l * FrameBytes = k * FrameBytes + (l - k) * FrameBytes
    BY RingAssumption
  <2>2. (l - k) * FrameBytes > 0
    BY RingAssumption
  <2>3. k * FrameBytes \in Nat /\ l * FrameBytes \in Nat /\ (l - k) * FrameBytes \in Int
    BY RingAssumption
  <2> QED BY <2>1, <2>2, <2>3, <1>1, <1>2
<1>4. x - y = (k - l) * FrameBytes
  BY <1>1, <1>2, RingAssumption
<1>5. k - l \in Nat
  BY <1>3
<1> QED BY <1>4, <1>5 DEF Aligned

(* A positive number of whole frames that fits is 1 .. Frames frames. *)
LEMMA AlignedFrames ==
  ASSUME NEW k \in Nat, k * FrameBytes <= Capacity
  PROVE  k \in 0 .. Frames
<1> SUFFICES ASSUME k > Frames PROVE FALSE
  BY RingAssumption
<1>1. k * FrameBytes = Capacity + (k - Frames) * FrameBytes
  BY RingAssumption DEF Capacity
<1>2. (k - Frames) * FrameBytes > 0
  BY RingAssumption
<1>3. k * FrameBytes \in Nat /\ (k - Frames) * FrameBytes \in Int
  BY RingAssumption
<1> QED BY <1>1, <1>2, <1>3, SizeType

(* An empty ring, a full one and one read of the consumer are whole frames. *)
LEMMA AlignedConstants == Aligned(0) /\ Aligned(Capacity) /\ Aligned(ReadBytes)
<1>1. 0 = 0 * FrameBytes
  BY RingAssumption
<1> QED BY <1>1, RingAssumption DEF Aligned, Capacity, ReadBytes

------------------------------------------------------------------------------
(* What either task computes from the two positions is what is in the ring. *)
LEMMA AvailableIsUsed ==
  ASSUME TypeOK, Positions
  PROVE  RingAvailable = Used /\ RingFree = Capacity - Used /\ Used \in 0 .. Capacity
<1>1. Used \in 0 .. Capacity
  BY SizeType DEF TypeOK, Positions, Used
<1>2. write_pos = IF read_pos + Used < Size THEN read_pos + Used ELSE read_pos + Used - Size
  BY <1>1, SizeType, AdvanceWraps DEF TypeOK, Positions
<1>3. RingAvailable = Used
  BY <1>1, <1>2, SizeType DEF TypeOK, RingAvailable
<1> QED BY <1>1, <1>3, SizeType DEF RingFree

------------------------------------------------------------------------------
(* An empty ring with both tasks idle satisfies the inductive invariant. *)
THEOREM InitInv == Init => IInv
<1> SUFFICES ASSUME Init PROVE IInv
  OBVIOUS
<1> USE SizeType
<1>1. TypeOK
  <2>1. rbuf \in [0 .. rdone - 1 -> 0 .. MaxBytes]
    <3>1. rdone = 0 /\ rbuf = [i \in {} |-> 0]
      BY DEF Init, Empty
    <3>2. 0 .. rdone - 1 = {}
      BY <3>1
    <3> QED BY <3>1, <3>2, Zenon
  <2>2. data \in [0 .. Size - 1 -> 0 .. MaxBytes]
    BY DEF Init, Blank
  <2>3. /\ write_pos = 0 /\ wpc = "idle" /\ wlen = 0 /\ wdone = 0 /\ put = 0
        /\ read_pos = 0 /\ rpc = "idle" /\ rlen = 0 /\ rdone = 0
        /\ underflow = FALSE /\ got = 0
    BY DEF Init
  <2>4. /\ write_pos \in 0 .. Size - 1 /\ read_pos \in 0 .. Size - 1
        /\ wlen \in 0 .. Capacity /\ wdone \in 0 .. wlen
        /\ rlen \in 0 .. ReadBytes /\ rdone \in 0 .. rlen
        /\ put \in 0 .. MaxBytes /\ got \in 0 .. MaxBytes
    BY <2>3
  <2> QED BY <2>1, <2>2, <2>3, <2>4, Zenon DEF TypeOK
<1>2. Advance(0, 0) = 0
  BY AdvanceWraps
<1>3. Positions
  BY <1>2, AlignedConstants DEF Init, Positions, Used
<1>4. WriterInv /\ ReaderInv /\ PendingInv
  BY DEF Init, WriterInv, ReaderInv, PendingInv
<1>5. StoredInv
  BY DEF Init, StoredInv, Used
<1> QED BY <1>1, <1>3, <1>4, <1>5 DEF IInv

(* WriteBegin takes what fits of a packet: whole frames, since the free    *)
(* space is whole frames.                                                  *)
LEMMA WriteBeginInv ==
  ASSUME IInv, NEW n \in 1 .. WriteFrames, WriteBegin(n)
  PROVE  IInv'
<1> USE SizeType DEF IInv
<1> DEFINE len == IF n * FrameBytes > RingFree THEN RingFree ELSE n * FrameBytes
<1>1. /\ len > 0 /\ put + len <= MaxBytes
      /\ wpc' = "copy" /\ wlen' = len /\ wdone' = 0
      /\ UNCHANGED <<data, write_pos, put, rvars>>
  BY DEF WriteBegin
<1>2. n * FrameBytes \in Nat /\ Aligned(n * FrameBytes)
  BY RingAssumption DEF Aligned
<1>3. RingFree = Capacity - Used /\ Used \in 0 .. Capacity
  BY AvailableIsUsed
<1>4. len \in 0 .. Capacity /\ len <= Capacity - Used
  BY <1>2, <1>3
<1>5. Aligned(len)
  <2>1. Aligned(Capacity - Used)
    BY <1>3, AlignedConstants, AlignedDifference DEF Positions
  <2> QED BY <1>2, <1>3, <2>1
<1> HIDE DEF len
<1>6. TypeOK'
  BY <1>1, <1>4 DEF TypeOK, rvars
<1>7. Positions' /\ ReaderInv' /\ StoredInv'
  BY <1>1 DEF Positions, ReaderInv, StoredInv, Used, rvars
<1>8. WriterInv'
  BY <1>1, <1>4, <1>5 DEF WriterInv, Used, rvars
<1>9. PendingInv'
  BY <1>1 DEF PendingInv
<1> QED BY <1>6, <1>7, <1>8, <1>9

(* A byte copied in lands behind the unread bytes and the earlier ones. *)
LEMMA WriteByteInv ==
  ASSUME IInv, WriteByte
  PROVE  IInv'
<1> USE SizeType DEF IInv
<1> DEFINE pos == Advance(write_pos, wdone)
<1>1. /\ wpc = "copy" /\ wdone < wlen
      /\ data' = [data EXCEPT ![pos] = put + wdone]
      /\ wdone' = wdone + 1
      /\ UNCHANGED <<write_pos, wpc, wlen, put, rvars>>
  BY DEF WriteByte
<1>2. /\ Used \in 0 .. Capacity /\ wdone \in Nat /\ wlen \in Nat
      /\ wdone < wlen /\ wlen <= Capacity - Used /\ put + wlen <= MaxBytes
      /\ write_pos \in 0 .. Size - 1 /\ read_pos \in 0 .. Size - 1
  BY <1>1, AvailableIsUsed DEF TypeOK, WriterInv
<1>3. pos \in 0 .. Size - 1
  <2>1. wdone \in 0 .. Size
    BY <1>2
  <2> QED BY <1>2, <2>1, AdvanceType
<1>4. pos = Advance(read_pos, Used + wdone)
  BY <1>2, AdvanceAdds DEF Positions
<1> HIDE DEF pos
<1>5. TypeOK'
  BY <1>1, <1>2, <1>3 DEF TypeOK, rvars
<1>6. Positions' /\ WriterInv' /\ ReaderInv'
  BY <1>1 DEF Positions, WriterInv, ReaderInv, Used, rvars
<1>7. StoredInv'
  <2> SUFFICES ASSUME NEW i \in 0 .. Used - 1
               PROVE  data'[Advance(read_pos, i)] = got + i
    BY <1>1 DEF StoredInv, Used, rvars
  <2>1. Advance(read_pos, i) # pos
    BY <1>2, <1>4, AdvanceInjective
  <2>2. Advance(read_pos, i) \in 0 .. Size - 1
    <3>1. i \in 0 .. Size
      BY <1>2
    <3> QED BY <1>2, <3>1, AdvanceType
  <2> QED BY <1>1, <2>1, <2>2 DEF StoredInv, TypeOK
<1>8. PendingInv'
  <2> SUFFICES ASSUME NEW i \in 0 .. wdone
               PROVE  data'[Advance(write_pos, i)] = put + i
    BY <1>1, <1>2 DEF PendingInv
  <2>1. Advance(write_pos, i) \in 0 .. Size - 1
    <3>1. i \in 0 .. Size
      BY <1>2
    <3> QED BY <1>2, <3>1, AdvanceType
  <2>2. CASE i = wdone
    BY <1>1, <1>3, <2>2 DEF TypeOK, pos
  <2>3. CASE i < wdone
    <3>1. Advance(write_pos, i) # pos
      BY <1>2, <2>3, AdvanceInjective DEF pos
    <3> QED BY <1>1, <1>2, <2>1, <2>3, <3>1 DEF PendingInv, TypeOK
  <2> QED BY <2>2, <2>3, <1>2
<1> QED BY <1>5, <1>6, <1>7, <1>8

(* Moving write_pos turns the pending bytes into unread ones. *)
LEMMA WritePublishInv ==
  ASSUME IInv, WritePublish
  PROVE  IInv'
<1> USE SizeType DEF IInv
<1>1. /\ wpc = "copy" /\ wdone = wlen
      /\ write_pos' = Advance(write_pos, wlen)
      /\ put' = put + wlen
      /\ wpc' = "idle"
      /\ UNCHANGED <<data, wlen, wdone, rvars>>
  BY DEF WritePublish
<1>2. /\ Used \in 0 .. Capacity /\ wlen \in Nat
      /\ wlen <= Capacity - Used /\ put + wlen <= MaxBytes
      /\ write_pos \in 0 .. Size - 1 /\ read_pos \in 0 .. Size - 1
      /\ put \in Nat /\ got \in Nat /\ got <= put /\ Aligned(wlen)
  <2>1. TypeOK /\ Positions /\ WriterInv
    BY Zenon
  <2>2. Used \in 0 .. Capacity
    BY <2>1, AvailableIsUsed, Zenon
  <2>3. /\ write_pos \in 0 .. Size - 1 /\ read_pos \in 0 .. Size - 1
        /\ put \in 0 .. MaxBytes /\ got \in 0 .. MaxBytes /\ wlen \in 0 .. Capacity
    BY <2>1, Zenon DEF TypeOK
  <2>4. got <= put
    BY <2>1, Zenon DEF Positions
  <2>5. Aligned(wlen) /\ wlen <= Capacity - Used /\ put + wlen <= MaxBytes
    BY <1>1, <2>1, Zenon DEF WriterInv
  <2> HIDE DEF IInv
  <2> QED BY <2>2, <2>3, <2>4, <2>5
<1>3. Used' = Used + wlen
  BY <1>1, <1>2 DEF Used, rvars
<1>4. TypeOK'
  <2>1. Advance(write_pos, wlen) \in 0 .. Size - 1
    <3>1. wlen \in 0 .. Size
      BY <1>2
    <3> QED BY <1>2, <3>1, AdvanceType
  <2> QED BY <1>1, <1>2, <2>1 DEF TypeOK, rvars
<1>5. Positions'
  <2>1. write_pos' = Advance(read_pos', Used')
    BY <1>1, <1>2, <1>3, AdvanceAdds DEF Positions, rvars
  <2>2. Aligned(put)' /\ Aligned(Used)' /\ Aligned(got)'
    <3>0. Aligned(put) /\ Aligned(Used)
      BY DEF Positions
    <3>1. Aligned(put + wlen) /\ Aligned(Used + wlen)
      BY <1>2, <3>0, AlignedSum
    <3> QED BY <1>1, <1>3, <3>1 DEF Positions, Aligned, rvars
  <2>3. got' <= put' /\ Used' <= Capacity
    BY <1>1, <1>2, <1>3 DEF rvars
  <2> QED BY <2>1, <2>2, <2>3 DEF Positions
<1>6. WriterInv' /\ PendingInv'
  BY <1>1 DEF WriterInv, PendingInv
<1>7. ReaderInv'
  BY <1>1, <1>2, <1>3 DEF ReaderInv, rvars
<1>8. StoredInv'
  <2> SUFFICES ASSUME NEW i \in 0 .. Used + wlen - 1
               PROVE  data[Advance(read_pos, i)] = got + i
    BY <1>1, <1>2, <1>3 DEF StoredInv, rvars
  <2>1. CASE i < Used
    BY <2>1, <1>2 DEF StoredInv
  <2>2. CASE i >= Used
    <3>1. i - Used \in 0 .. wdone - 1
      BY <1>1, <1>2, <2>2
    <3>2. Advance(read_pos, i) = Advance(write_pos, i - Used)
      BY <1>2, <2>2, AdvanceAdds DEF Positions
    <3>3. put + (i - Used) = got + i
      BY <1>2 DEF Used
    <3> QED BY <1>1, <3>1, <3>2, <3>3 DEF PendingInv
  <2> QED BY <2>1, <2>2, <1>2
<1> QED BY <1>4, <1>5, <1>6, <1>7, <1>8

(* SinkRead lets the consumer go on only when a full read is there. *)
LEMMA SinkReadInv ==
  ASSUME IInv, SinkRead
  PROVE  IInv'
<1> USE SizeType DEF IInv
<1>1. /\ rpc = "idle"
      /\ IF RingAvailable < ReadBytes
         THEN underflow' = TRUE /\ UNCHANGED rpc
         ELSE rpc' = "read" /\ UNCHANGED underflow
      /\ UNCHANGED <<data, wvars, read_pos, rlen, rdone, rbuf, got, delivered>>
  BY DEF SinkRead
<1>2. RingAvailable = Used /\ Used \in 0 .. Capacity
  BY AvailableIsUsed
<1>3. TypeOK'
  BY <1>1 DEF TypeOK, wvars
<1>4. Positions' /\ WriterInv' /\ StoredInv' /\ PendingInv'
  BY <1>1 DEF Positions, WriterInv, StoredInv, PendingInv, Used, wvars
<1>5. ReaderInv'
  BY <1>1, <1>2 DEF ReaderInv, Used, wvars
<1> QED BY <1>3, <1>4, <1>5

(* The RX task only adds bytes, so the second look at the ring clamps      *)
(* nothing.                                                                *)
LEMMA ReadBeginInv ==
  ASSUME IInv, ReadBegin
  PROVE  IInv' /\ rlen' = ReadBytes
<1> USE SizeType DEF IInv
<1>1. /\ rpc = "read"
      /\ rlen' = IF ReadBytes > RingAvailable THEN RingAvailable ELSE ReadBytes
      /\ rdone' = 0 /\ rbuf' = Empty
      /\ rpc' = "copy"
      /\ UNCHANGED <<data, wvars, read_pos, underflow, got, delivered>>
  BY DEF ReadBegin
<1>2. RingAvailable = Used /\ Used \in 0 .. Capacity /\ ReadBytes <= Used
  BY <1>1, AvailableIsUsed DEF ReaderInv
<1>3. rlen' = ReadBytes
  BY <1>1, <1>2
<1>4. 0 .. rdone' - 1 = {}
  BY <1>1
<1>5. TypeOK'
  <2>1. rbuf' \in [0 .. rdone' - 1 -> 0 .. MaxBytes]
    BY <1>1, <1>4, Zenon DEF Empty
  <2>2. rlen' \in 0 .. ReadBytes /\ rdone' \in 0 .. rlen'
    BY <1>1, <1>3
  <2> QED BY <1>1, <2>1, <2>2, Zenon DEF TypeOK, wvars
<1>6. Positions' /\ WriterInv' /\ StoredInv' /\ PendingInv'
  BY <1>1 DEF Positions, WriterInv, StoredInv, PendingInv, Used, wvars
<1>7. ReaderInv'
  <2>1. rbuf' = [i \in 0 .. rdone' - 1 |-> got' + i]
    BY <1>1, <1>4 DEF Empty
  <2>2. ReadBytes <= Used'
    BY <1>1, <1>2 DEF Used, wvars
  <2> QED BY <1>1, <1>3, <2>1, <2>2 DEF ReaderInv
<1> QED BY <1>3, <1>5, <1>6, <1>7

(* Each byte copied out is the next unread one. *)
LEMMA ReadByteInv ==
  ASSUME IInv, ReadByte
  PROVE  IInv'
<1> USE SizeType DEF IInv
<1>1. /\ rpc = "copy" /\ rdone < rlen
      /\ rbuf' = [i \in 0 .. rdone |->
                    IF i < rdone THEN rbuf[i] ELSE data[Advance(read_pos, rdone)]]
      /\ rdone' = rdone + 1
      /\ UNCHANGED <<data, wvars, read_pos, rpc, rlen, underflow, got, delivered>>
  BY DEF ReadByte
<1>2. /\ rlen = ReadBytes /\ ReadBytes <= Used /\ rdone \in Nat
      /\ rbuf = [i \in 0 .. rdone - 1 |-> got + i]
      /\ Used \in 0 .. Capacity /\ got \in Nat /\ put \in 0 .. MaxBytes
  BY <1>1, AvailableIsUsed DEF TypeOK, ReaderInv
<1>3. data[Advance(read_pos, rdone)] = got + rdone
  <2>1. rdone \in 0 .. Used - 1
    BY <1>1, <1>2
  <2> QED BY <2>1 DEF StoredInv
<1>4. rbuf' = [i \in 0 .. rdone |-> got + i]
  <2>1. ASSUME NEW i \in 0 .. rdone
        PROVE  (IF i < rdone THEN rbuf[i] ELSE data[Advance(read_pos, rdone)]) = got + i
    BY <1>2, <1>3
  <2> QED BY <1>1, <2>1
<1>5. 0 .. rdone' - 1 = 0 .. rdone
  BY <1>1, <1>2
<1>6. TypeOK'
  <2>1. rbuf' \in [0 .. rdone' - 1 -> 0 .. MaxBytes]
    <3>1. ASSUME NEW i \in 0 .. rdone PROVE got + i \in 0 .. MaxBytes
      BY <1>1, <1>2 DEF Used
    <3> QED BY <1>4, <1>5, <3>1
  <2>2. rdone' \in 0 .. rlen'
    BY <1>1, <1>2
  <2> QED BY <1>1, <2>1, <2>2, Zenon DEF TypeOK, wvars
<1>7. Positions' /\ WriterInv' /\ StoredInv' /\ PendingInv'
  BY <1>1 DEF Positions, WriterInv, StoredInv, PendingInv, Used, wvars
<1>8. ReaderInv'
  <2>1. rbuf' = [i \in 0 .. rdone' - 1 |-> got' + i]
    BY <1>1, <1>4, <1>5
  <2> QED BY <1>1, <1>2, <2>1 DEF ReaderInv, Used, wvars
<1> QED BY <1>6, <1>7, <1>8

(* Moving read_pos leaves the later bytes unread and in place. *)
LEMMA ReadPublishInv ==
  ASSUME IInv, ReadPublish
  PROVE  IInv'
<1> USE SizeType DEF IInv
<1>1. /\ rpc = "copy" /\ rdone = rlen
      /\ read_pos' = Advance(read_pos, rlen)
      /\ got' = got + rlen
      /\ underflow' = (rlen < ReadBytes)
      /\ rpc' = "idle"
      /\ UNCHANGED <<data, wvars, rlen, rdone, rbuf>>
  BY DEF ReadPublish
<1>2. /\ rlen = ReadBytes /\ rlen <= Used /\ Used \in 0 .. Capacity
      /\ read_pos \in 0 .. Size - 1
      /\ put \in 0 .. MaxBytes /\ got \in Nat /\ got <= put
  <2>1. rlen = ReadBytes /\ rlen <= Used
    BY <1>1, Zenon DEF ReaderInv
  <2>2. TypeOK /\ Positions
    BY Zenon
  <2>3. Used \in 0 .. Capacity
    BY <2>2, AvailableIsUsed, Zenon
  <2>4. read_pos \in 0 .. Size - 1 /\ put \in 0 .. MaxBytes /\ got \in 0 .. MaxBytes
    BY <2>2, Zenon DEF TypeOK
  <2>5. got <= put
    BY <2>2, Zenon DEF Positions
  <2> HIDE DEF IInv
  <2> QED BY <2>1, <2>3, <2>4, <2>5
<1>3. Used' = Used - rlen
  BY <1>1, <1>2 DEF Used, wvars
<1>4. Advance(read_pos, rlen) \in 0 .. Size - 1
  <2>1. rlen \in 0 .. Size
    BY <1>2
  <2> QED BY <1>2, <2>1, AdvanceType
<1>5. TypeOK'
  <2>1. got' \in 0 .. MaxBytes
    BY <1>1, <1>2 DEF Used
  <2>2. underflow' \in BOOLEAN
    BY <1>1
  <2>3. read_pos' \in 0 .. Size - 1
    BY <1>1, <1>4
  <2> QED BY <1>1, <2>1, <2>2, <2>3, Zenon DEF TypeOK, wvars
<1>6. Positions'
  <2>1. write_pos' = Advance(read_pos', Used')
    <3>1. Advance(Advance(read_pos, rlen), Used - rlen) = Advance(read_pos, rlen + (Used - rlen))
      BY <1>2, AdvanceAdds
    <3>2. rlen + (Used - rlen) = Used
      BY <1>2
    <3> QED BY <1>1, <1>3, <3>1, <3>2 DEF Positions, wvars
  <2>2. Aligned(put') /\ Aligned(Used') /\ Aligned(got')
    <3>0. Aligned(put) /\ Aligned(got) /\ Aligned(Used) /\ Aligned(rlen)
      BY <1>2, AlignedConstants DEF Positions
    <3>1. Aligned(got + rlen) /\ Aligned(Used - rlen)
      BY <1>2, <3>0, AlignedSum, AlignedDifference
    <3> QED BY <1>1, <1>3, <3>0, <3>1 DEF wvars
  <2>3. got' <= put' /\ Used' <= Capacity
    BY <1>1, <1>2, <1>3 DEF wvars, Used
  <2> QED BY <2>1, <2>2, <2>3 DEF Positions, Aligned
<1>7. WriterInv'
  <2>1. Capacity - Used <= Capacity - Used'
    BY <1>2, <1>3
  <2> QED BY <1>1, <1>2, <1>3, <2>1 DEF WriterInv, TypeOK, Aligned, wvars
<1>8. ReaderInv'
  BY <1>1 DEF ReaderInv
<1>9. StoredInv'
  <2> SUFFICES ASSUME NEW i \in 0 .. (Used - rlen) - 1
               PROVE  data[Advance(Advance(read_pos, rlen), i)] = got + rlen + i
    BY <1>1, <1>2, <1>3 DEF StoredInv
  <2>1. Advance(Advance(read_pos, rlen), i) = Advance(read_pos, rlen + i)
    BY <1>2, AdvanceAdds
  <2>2. rlen + i \in 0 .. Used - 1
    BY <1>2
  <2>3. data[Advance(read_pos, rlen + i)] = got + (rlen + i)
    BY <2>2 DEF StoredInv
  <2> QED BY <1>2, <2>1, <2>3
<1>10. PendingInv'
  BY <1>1 DEF PendingInv, wvars
<1> QED BY <1>5, <1>6, <1>7, <1>8, <1>9, <1>10

------------------------------------------------------------------------------
(* Every step of either task preserves the inductive invariant. *)
LEMMA NextInv == IInv /\ [Next]_vars => IInv'
<1> SUFFICES ASSUME IInv, [Next]_vars PROVE IInv'
  OBVIOUS
<1>1. CASE \E n \in 1 .. WriteFrames : WriteBegin(n)
  BY <1>1, WriteBeginInv
<1>2. CASE WriteByte
  BY <1>2, WriteByteInv
<1>3. CASE WritePublish
  BY <1>3, WritePublishInv
<1>4. CASE SinkRead
  BY <1>4, SinkReadInv
<1>5. CASE ReadBegin
  BY <1>5, ReadBeginInv
<1>6. CASE ReadByte
  BY <1>6, ReadByteInv
<1>7. CASE ReadPublish
  BY <1>7, ReadPublishInv
<1>8. CASE UNCHANGED vars
  BY <1>8 DEF IInv, TypeOK, Positions, WriterInv, ReaderInv, StoredInv, PendingInv,
              Used, Aligned, vars, wvars, rvars
<1> QED BY <1>1, <1>2, <1>3, <1>4, <1>5, <1>6, <1>7, <1>8 DEF Next

(* The inductive invariant holds in every reachable state. *)
THEOREM Invariance == Spec => []IInv
BY InitInv, NextInv, PTL DEF Spec

(* The positions never leave the ring and the counters their ranges. *)
THEOREM TypeCorrect == Spec => []TypeOK
<1>1. IInv => TypeOK
  BY DEF IInv
<1> QED BY <1>1, Invariance, PTL

(* The RX task and the consumer never touch the same byte of the ring. *)
THEOREM BytesAreExclusive == Spec => []ExclusiveBytes
<1>1. IInv => ExclusiveBytes
  <2> USE SizeType
  <2> SUFFICES ASSUME IInv, wpc = "copy",
                      NEW i \in 0 .. wlen - 1, NEW j \in 0 .. RingAvailable - 1,
                      Advance(write_pos, i) = Advance(read_pos, j)
               PROVE  FALSE
    BY DEF ExclusiveBytes, WriterBytes, UnreadBytes
  <2>a. TypeOK /\ Positions /\ WriterInv
    BY DEF IInv
  <2>b. read_pos \in 0 .. Size - 1 /\ wlen \in Nat
    BY <2>a DEF TypeOK
  <2>c. RingAvailable = Used /\ Used \in 0 .. Capacity
    BY <2>a, AvailableIsUsed
  <2>d. write_pos = Advance(read_pos, Used) /\ wlen <= Capacity - Used
    BY <2>a DEF Positions, WriterInv
  <2>1. /\ RingAvailable = Used /\ Used \in 0 .. Capacity
        /\ read_pos \in 0 .. Size - 1 /\ wlen \in Nat /\ wlen <= Capacity - Used
        /\ write_pos = Advance(read_pos, Used)
    BY <2>b, <2>c, <2>d
  <2>2. Advance(write_pos, i) = Advance(read_pos, Used + i)
    BY <2>1, AdvanceAdds
  <2>3. Used + i \in 0 .. Size - 1 /\ j \in 0 .. Size - 1 /\ j # Used + i
    BY <2>1
  <2> QED BY <2>1, <2>2, <2>3, AdvanceInjective
<1> QED BY <1>1, Invariance, PTL

(* The ring holds whole frames whenever either task looks at it. *)
THEOREM FramesStayAligned == Spec => []FrameAligned
<1>1. IInv => FrameAligned
  <2> SUFFICES ASSUME IInv PROVE FrameAligned
    OBVIOUS
  <2>1. RingAvailable = Used /\ Used <= Capacity /\ Aligned(Used)
    BY AvailableIsUsed, SizeType DEF IInv, Positions
  <2>2. PICK k \in Nat : Used = k * FrameBytes
    BY <2>1 DEF Aligned
  <2>3. k \in 0 .. Frames
    BY <2>1, <2>2, AlignedFrames
  <2> QED BY <2>1, <2>2, <2>3 DEF FrameAligned
<1> QED BY <1>1, Invariance, PTL

(* A read that began with enough bytes in the ring returns them all. *)
THEOREM ReadsAreWhole == Spec => []NoPartialRead
<1>1. IInv => NoPartialRead
  BY DEF IInv, ReaderInv, NoPartialRead
<1> QED BY <1>1, Invariance, PTL

(* The ring implements the lossless queue of whole frames: publishing      *)
(* write_pos accepts them, publishing read_pos hands them out, and no      *)
(* other step shows.                                                       *)
THEOREM RingIsFifo == Spec => ImplementsFifo
<1>1. Init => Fifo!FifoInit
  BY DEF Init, Empty, Fifo!FifoInit
<1>2. IInv /\ [Next]_vars => [Fifo!FifoNext]_(Fifo!fifo)
  <2> SUFFICES ASSUME IInv, [Next]_vars
               PROVE  Fifo!FifoNext \/ UNCHANGED <<put, got, delivered>>
    BY DEF Fifo!fifo
  <2> USE SizeType
  <2>0. /\ TypeOK /\ Positions /\ WriterInv /\ ReaderInv
        /\ Used \in 0 .. Capacity /\ put \in Nat /\ got \in Nat /\ Used = put - got
    BY AvailableIsUsed DEF IInv, TypeOK, Used
  <2>1. CASE WritePublish
    <3>1. /\ wlen \in Nat /\ wlen > 0 /\ wlen <= Capacity - Used /\ Aligned(wlen)
          /\ put' = put + wlen /\ UNCHANGED <<got, delivered>>
      BY <2>0, <2>1 DEF TypeOK, WriterInv, WritePublish, rvars
    <3>2. PICK n \in Nat : wlen = n * FrameBytes
      BY <3>1 DEF Aligned
    <3>3. n \in 1 .. Frames
      <4>1. n \in 0 .. Frames
        BY <2>0, <3>1, <3>2, AlignedFrames
      <4>2. n # 0
        BY <3>1, <3>2, RingAssumption
      <4> QED BY <4>1, <4>2
    <3>4. Fifo!Accept(n)
      <4>1. put' - got <= Capacity
        BY <2>0, <3>1
      <4> QED BY <3>1, <3>2, <4>1 DEF Fifo!Accept, Fifo!Capacity, Capacity
    <3> QED BY <3>3, <3>4 DEF Fifo!FifoNext
  <2>2. CASE ReadPublish
    <3>1. /\ rlen = ReadFrames * FrameBytes /\ rlen <= Used
          /\ got' = got + rlen /\ put' = put
          /\ delivered' = [i \in 0 .. rlen - 1 |-> got + i]
      BY <2>0, <2>2 DEF ReaderInv, ReadPublish, ReadBytes, wvars
    <3>2. got' <= put
      BY <2>0, <3>1
    <3>3. Fifo!Deliver(ReadFrames)
      BY <3>1, <3>2 DEF Fifo!Deliver
    <3> QED BY <3>3, RingAssumption DEF Fifo!FifoNext
  <2>3. CASE \E n \in 1 .. WriteFrames : WriteBegin(n)
    BY <2>3 DEF WriteBegin, rvars
  <2>4. CASE WriteByte
    BY <2>4 DEF WriteByte, rvars
  <2>5. CASE SinkRead \/ ReadBegin \/ ReadByte
    BY <2>5 DEF SinkRead, ReadBegin, ReadByte, wvars
  <2>6. CASE UNCHANGED vars
    BY <2>6 DEF vars, wvars, rvars
  <2> QED BY <2>1, <2>2, <2>3, <2>4, <2>5, <2>6 DEF Next
<1> QED BY <1>1, <1>2, Invariance, PTL DEF Spec, ImplementsFifo, Fifo!FifoSpec

------------------------------------------------------------------------------
(* The stream buffer.                                                      *)

(* Frames in the stream buffer, frames under way, and how long it is to    *)
(* the next callback, which is a whole descriptor once the audio starts.   *)
Buffered   == level \div Channels
InFlight   == Len(flight) * sender.spp
ToNextFire == IF isr.on THEN isr.timer ELSE Desc

(* The types, and a sender that waits for a packet time at most.           *)
PlayTypeInv ==
  /\ level \in 0 .. BufferSize
  /\ isr \in [on : BOOLEAN, timer : 0 .. Desc]
  /\ sender \in [sending : BOOLEAN, spp : Spps, timer : Nat] /\ sender.timer <= sender.spp
  /\ flight \in Seq(0 .. Jitter)
  /\ heard \in [flowing : BOOLEAN, made_up : Nat, lost : Nat]
  /\ output \in {"i2s", "callback", "stream_buffer"}

(* The packets under way were sent a packet time apart, the last of them   *)
(* when the timer of the sender was set.                                   *)
FlightInv ==
  sender.sending => \A i \in 1 .. Len(flight) :
    flight[i] = Jitter + sender.timer - (Len(flight) - i + 1) * sender.spp

(* The balance of what a sender sends and what the converter plays: frames *)
(* that were made up are buffered, under way, lost, or stand for the time  *)
(* that the next descriptor comes later than the next packet.              *)
FlowInv ==
  /\ heard.flowing => sender.sending
  /\ ~heard.flowing => heard.made_up = 0 /\ heard.lost = 0
  /\ output # "i2s" => heard.made_up = 0
  /\ output = "i2s" /\ heard.flowing =>
       heard.made_up <= Buffered + InFlight + heard.lost + ToNextFire - sender.timer

PlayInv == PlayTypeInv /\ StaysStereo /\ FlightInv /\ FlowInv /\ StretchIsBounded

(* Numbers of frames are ordered as the numbers of their samples.          *)
LEMMA ProductOrder ==
  ASSUME NEW c \in Nat \ {0}, NEW f \in Int, NEW g \in Int
  PROVE  c * f <= c * g <=> f <= g
<1>1. c * f \in Int /\ c * g \in Int
  OBVIOUS
<1> DEFINE d == g - f
<1>2. d \in Int /\ g = f + d
  OBVIOUS
<1>3. c * g = c * f + c * d
  BY <1>2, Z3
<1> HIDE DEF d
<1>4. d >= 0 => c * d >= 0
  BY <1>2, Z3
<1>5. d < 0 => c * d < 0
  BY <1>2, Z3
<1>6. c * d \in Int
  BY <1>2
<1> QED BY <1>1, <1>2, <1>3, <1>4, <1>5, <1>6

(* The frames of a whole number of frames.                                 *)
LEMMA Quotient ==
  ASSUME NEW c \in Nat \ {0}, NEW f \in Int
  PROVE  (c * f) \div c = f /\ (c * f) % c = 0
<1> DEFINE q == (c * f) \div c
           r == (c * f) % c
<1>1. q \in Int /\ r \in 0 .. c - 1 /\ c * f = c * q + r
  <2>1. c * f \in Int
    OBVIOUS
  <2> QED BY <2>1
<1> HIDE DEF q, r
<1> DEFINE d == f - q
<1>2. d \in Int /\ f = q + d
  BY <1>1
<1>3. c * f = c * q + c * d
  BY <1>1, <1>2, Z3
<1> HIDE DEF d
<1>4. d >= 1 => c * d >= c
  BY <1>2, Z3
<1>5. d <= -1 => c * d <= -c
  BY <1>2, Z3
<1>6. c * d \in Int /\ c * q \in Int /\ c * f \in Int
  BY <1>1, <1>2
<1>7. c * d = r
  <2> DEFINE cf == c * f
             cq == c * q
             cd == c * d
  <2>1. cf \in Int /\ cq \in Int /\ cd \in Int /\ cf = cq + r /\ cf = cq + cd /\ r \in Int
    BY <1>1, <1>3, <1>6
  <2> HIDE DEF cf, cq, cd
  <2>2. cd = r
    BY <2>1
  <2> QED BY <2>2 DEF cd
<1>8. d = 0
  BY <1>1, <1>2, <1>4, <1>5, <1>7
<1>9. c * d = 0
  BY <1>8
<1> QED BY <1>1, <1>2, <1>7, <1>8, <1>9 DEF q, r

(* What has no rest is a multiple.                                         *)
LEMMA Whole ==
  ASSUME NEW c \in Nat \ {0}, NEW x \in Nat, x % c = 0
  PROVE  x \div c \in Nat /\ x = c * (x \div c)
<1>1. x \div c \in Int /\ x = c * (x \div c) + (x % c)
  OBVIOUS
<1>2. c * (x \div c) \in Int
  BY <1>1
<1>3. x = c * (x \div c)
  BY <1>1, <1>2
<1>4. c * 0 <= c * (x \div c)
  BY <1>3
<1>5. 0 <= x \div c
  BY <1>1, <1>4, ProductOrder
<1> QED BY <1>1, <1>3, <1>5

(* The smaller of two numbers.                                             *)
LEMMA MinOfTwo ==
  ASSUME NEW a \in Int, NEW b \in Int
  PROVE  Min({a, b}) = IF a <= b THEN a ELSE b
BY DEF Min

(* The constants, with the size of the buffer in frames.                   *)
LEMMA Sizes ==
  /\ Channels \in Nat \ {0} /\ Desc \in Nat \ {0} /\ Jitter \in Nat /\ MaxLost \in Nat
  /\ Spps \subseteq Nat \ {0} /\ MaxRead \in Nat \ {0} /\ MaxRead % Channels = 0
  /\ \E size \in Nat : /\ BufferSize = Channels * size
                       /\ \A spp \in Spps : size >= Desc + Jitter + 2 * spp
<1>1. /\ Channels \in Nat \ {0} /\ BufferSize \in Nat /\ BufferSize % Channels = 0
      /\ Desc \in Nat /\ Jitter \in Nat /\ Spps \subseteq Nat \ {0}
      /\ \A spp \in Spps : BufferSize >= Channels * (Desc + Jitter + 2 * spp)
  BY PlayoutAssumption
<1>2. PICK size \in Nat : BufferSize = Channels * size
  BY <1>1, Whole
<1>3. ASSUME NEW spp \in Spps
      PROVE  size >= Desc + Jitter + 2 * spp
  <2>1. PICK e \in Int : e = Desc + Jitter + 2 * spp
    BY <1>1
  <2>2. Channels * e <= Channels * size
    BY <1>1, <1>2, <2>1
  <2>3. e <= size
    BY <1>1, <2>1, <2>2, ProductOrder
  <2> QED BY <1>1, <2>1, <2>3
<1> QED BY <1>1, <1>2, <1>3, PlayoutAssumption, PlaybackAssumption

(* The buffer holds a whole number of frames.                              *)
LEMMA BufferedIs ==
  ASSUME PlayTypeInv, StaysStereo
  PROVE  Buffered \in Nat /\ level = Channels * Buffered
<1>1. level \in Nat /\ level % Channels = 0
  BY PlayoutAssumption DEF PlayTypeInv, StaysStereo
<1> QED BY <1>1, Sizes, Whole DEF Buffered

(* A write takes whole frames, all there are if they fit. *)
LEMMA WriteIsWhole ==
  ASSUME PlayInv, NEW spp \in Spps, NEW new, new = level + Accepted(spp * Channels)
  PROVE  /\ new \in 0 .. BufferSize /\ new % Channels = 0
         /\ \/ new \div Channels = Buffered + spp
            \/ \A s \in Spps : new \div Channels >= Desc + Jitter + 2 * s
<1>1. PICK size \in Nat : /\ BufferSize = Channels * size
                          /\ \A s \in Spps : size >= Desc + Jitter + 2 * s
  BY Sizes
<1>2. PICK f \in Nat : f = Buffered /\ level = Channels * f
  BY BufferedIs DEF PlayInv
<1>3. Channels \in Nat \ {0} /\ spp \in Nat
  BY Sizes
<1>4. level \in Nat /\ BufferSize \in Nat /\ level <= BufferSize
  BY PlayoutAssumption DEF PlayInv, PlayTypeInv
<1>5. spp * Channels \in Nat /\ spp * Channels = Channels * spp
  BY <1>3, Z3
<1>6. new = IF spp * Channels <= BufferSize - level THEN level + spp * Channels ELSE BufferSize
  <2>1. Accepted(spp * Channels) = IF spp * Channels <= BufferSize - level
                                   THEN spp * Channels ELSE BufferSize - level
    BY <1>4, <1>5, MinOfTwo DEF Accepted
  <2> QED BY <1>4, <1>5, <2>1
<1>7. CASE spp * Channels <= BufferSize - level
  <2>1. new = Channels * (f + spp)
    <3>1. Channels * (f + spp) = Channels * f + Channels * spp
      BY <1>3, Z3
    <3> QED BY <1>2, <1>4, <1>5, <1>6, <1>7, <3>1
  <2>2. new \div Channels = f + spp /\ new % Channels = 0
    <3>1. f + spp \in Int
      BY <1>2, <1>3
    <3> QED BY <1>3, <2>1, <3>1, Quotient
  <2> QED BY <1>2, <1>4, <1>5, <1>6, <1>7, <2>2
<1>8. CASE ~(spp * Channels <= BufferSize - level)
  <2>1. new = Channels * size /\ new = BufferSize
    BY <1>1, <1>6, <1>8
  <2>2. new \div Channels = size /\ new % Channels = 0
    <3>1. size \in Int
      BY <1>1
    <3> QED BY <1>3, <2>1, <3>1, Quotient
  <2> QED BY <1>1, <1>4, <2>1, <2>2
<1> QED BY <1>7, <1>8

(* So does a read, all there are if they are asked for. *)
LEMMA ReadIsWhole ==
  ASSUME PlayInv, NEW n \in Nat, n % Channels = 0, NEW taken, taken = Min({level, n})
  PROVE  /\ level - taken \in 0 .. BufferSize /\ (level - taken) % Channels = 0
         /\ \/ taken < n /\ taken = level /\ (level - taken) \div Channels = 0
            \/ taken = n /\ (level - taken) \div Channels = Buffered - (n \div Channels)
         /\ taken \div Channels = Buffered - ((level - taken) \div Channels)
<1>1. PICK f \in Nat : f = Buffered /\ level = Channels * f
  BY BufferedIs DEF PlayInv
<1>2. Channels \in Nat \ {0}
  BY Sizes
<1>3. PICK m \in Nat : m = n \div Channels /\ n = Channels * m
  BY <1>2, Whole
<1>4. level \in Nat /\ BufferSize \in Nat /\ level <= BufferSize
  BY PlayoutAssumption DEF PlayInv, PlayTypeInv
<1>5. taken = IF level <= n THEN level ELSE n
  BY <1>4, MinOfTwo
<1>6. CASE level <= n /\ level # n
  <2>1. taken = level /\ level - taken = 0
    BY <1>4, <1>5, <1>6
  <2>2. 0 = Channels * 0
    BY <1>2
  <2>3. 0 \div Channels = 0 /\ 0 % Channels = 0
    BY <1>2, <2>2, Quotient
  <2>4. taken \div Channels = f
    BY <1>1, <1>2, <2>1, Quotient
  <2> QED BY <1>1, <1>4, <1>6, <2>1, <2>3, <2>4
<1>7. CASE ~(level <= n) \/ level = n
  <2>1. taken = n /\ n <= level
    BY <1>4, <1>5, <1>7
  <2>2. level - taken = Channels * (f - m)
    <3>1. Channels * (f - m) = Channels * f - Channels * m
      BY <1>2, Z3
    <3> QED BY <1>1, <1>3, <2>1, <3>1
  <2>3. (level - taken) \div Channels = f - m /\ (level - taken) % Channels = 0
    <3>1. f - m \in Int
      BY <1>1, <1>3
    <3> QED BY <1>2, <2>2, <3>1, Quotient
  <2>4. taken \div Channels = m
    BY <1>3, <2>1
  <2>5. level - taken \in 0 .. BufferSize
    BY <1>4, <2>1
  <2>6. (level - taken) \div Channels = Buffered - (n \div Channels)
    BY <1>1, <1>3, <2>3
  <2>7. taken \div Channels = Buffered - ((level - taken) \div Channels)
    <3>1. f - (f - m) = m
      BY <1>1, <1>3
    <3> QED BY <1>1, <2>3, <2>4, <3>1
  <2> QED BY <2>1, <2>3, <2>5, <2>6, <2>7
<1> QED BY <1>6, <1>7

------------------------------------------------------------------------------
(* The packets under way fill the jitter and the time to the next one at   *)
(* most: each was sent a packet time after the one before it.              *)
LEMMA FlightIsShort ==
  ASSUME PlayInv, sender.sending
  PROVE  InFlight \in Nat /\ InFlight - sender.timer <= Jitter
<1>1. PICK n, spp, t : /\ n = Len(flight) /\ spp = sender.spp /\ t = sender.timer
                       /\ n \in Nat /\ spp \in Nat /\ t \in Nat
  <2>1. Len(flight) \in Nat
    BY LenProperties DEF PlayInv, PlayTypeInv
  <2>2. sender.spp \in Nat /\ sender.timer \in Nat
    BY Sizes DEF PlayInv, PlayTypeInv
  <2> QED BY <2>1, <2>2
<1>2. InFlight = n * spp /\ n * spp \in Nat
  BY <1>1 DEF InFlight
<1>3. CASE n = 0
  <2>1. n * spp = 0
    BY <1>1, <1>3
  <2> QED BY <1>1, <1>2, <2>1, Sizes
<1>4. CASE n # 0
  <2>1. 1 \in 1 .. Len(flight)
    BY <1>1, <1>4
  <2>2. flight[1] \in 0 .. Jitter
    BY <2>1, ElementOfSeq DEF PlayInv, PlayTypeInv
  <2>3. flight[1] = Jitter + t - (n - 1 + 1) * spp
    BY <1>1, <2>1 DEF PlayInv, FlightInv
  <2>4. (n - 1 + 1) * spp = n * spp
    <3>1. n - 1 + 1 = n
      BY <1>1
    <3> QED BY <3>1
  <2>5. PICK all \in Nat : all = n * spp /\ all = InFlight
    BY <1>2
  <2>6. flight[1] = Jitter + t - all /\ flight[1] \in Nat
    BY <2>2, <2>3, <2>4, <2>5, Sizes
  <2>7. all - t <= Jitter
    BY <1>1, <2>6, Sizes
  <2> QED BY <1>1, <2>5, <2>7
<1> QED BY <1>3, <1>4

(* The quantities of the balance are natural numbers.                      *)
LEMMA TimesType ==
  ASSUME PlayInv
  PROVE  /\ ToNextFire \in 0 .. Desc /\ sender.timer \in Nat /\ sender.spp \in Nat
         /\ sender.spp \in Spps /\ sender.timer <= sender.spp
         /\ Len(flight) \in Nat /\ InFlight \in Nat /\ Buffered \in Nat
         /\ heard.made_up \in Nat /\ heard.lost \in Nat
<1>1. Len(flight) \in Nat
  BY LenProperties DEF PlayInv, PlayTypeInv
<1>2. /\ sender.spp \in Nat /\ sender.spp \in Spps
      /\ sender.timer \in Nat /\ sender.timer <= sender.spp
  BY Sizes DEF PlayInv, PlayTypeInv
<1>3. InFlight \in Nat
  BY <1>1, <1>2 DEF InFlight
<1>4. ToNextFire \in 0 .. Desc
  BY Sizes DEF PlayInv, PlayTypeInv, ToNextFire
<1>5. heard.made_up \in Nat /\ heard.lost \in Nat
  BY DEF PlayInv, PlayTypeInv
<1>6. Buffered \in Nat
  BY BufferedIs DEF PlayInv
<1> QED BY <1>1, <1>2, <1>3, <1>4, <1>5, <1>6

(* What is left when the oldest packet under way has gone. *)
LEMMA TailOfFlight ==
  ASSUME PlayInv, flight # <<>>, flight' = Tail(flight), sender' = sender
  PROVE  /\ (flight \in Seq(0 .. Jitter))' /\ FlightInv'
         /\ InFlight' = InFlight - sender.spp
<1>1. /\ Tail(flight) \in Seq(0 .. Jitter) /\ Len(Tail(flight)) = Len(flight) - 1
      /\ \A i \in 1 .. Len(Tail(flight)) : Tail(flight)[i] = flight[i + 1]
  BY HeadTailProperties DEF PlayInv, PlayTypeInv
<1>2. PICK n, spp : n = Len(flight) /\ spp = sender.spp /\ n \in Nat /\ spp \in Nat
  BY TimesType
<1>3. Len(flight') = n - 1 /\ \A i \in 1 .. n - 1 : flight'[i] = flight[i + 1]
  BY <1>1, <1>2
<1>4. InFlight' = n * spp - spp
  <2>1. (n - 1) * spp = n * spp - spp
    BY <1>2, Z3
  <2> QED BY <1>2, <1>3, <2>1 DEF InFlight
<1>5. ASSUME sender.sending, NEW i \in 1 .. n - 1
      PROVE  flight'[i] = Jitter + sender.timer - ((n - 1) - i + 1) * spp
  <2>1. i + 1 \in 1 .. n
    BY <1>2
  <2>2. flight[i + 1] = Jitter + sender.timer - (n - (i + 1) + 1) * spp
    BY <1>2, <1>5, <2>1 DEF PlayInv, FlightInv
  <2>3. n - (i + 1) + 1 = (n - 1) - i + 1
    BY <1>2
  <2> QED BY <1>3, <2>2, <2>3
<1>6. FlightInv'
  BY <1>2, <1>3, <1>5 DEF FlightInv
<1> QED BY <1>1, <1>2, <1>4, <1>6 DEF InFlight

(* A packet that arrives, and is put into the buffer. *)
LEMMA HookInv ==
  ASSUME PlayInv, Hook, output' = output
  PROVE  PlayInv'
<1>1. /\ flight # <<>> /\ level' = level + Accepted(sender.spp * Channels)
      /\ flight' = Tail(flight) /\ heard' = [heard EXCEPT !.flowing = sender.sending]
      /\ last' = last /\ isr' = isr /\ sender' = sender
  BY DEF Hook
<1>2. /\ (flight \in Seq(0 .. Jitter))' /\ FlightInv' /\ InFlight' = InFlight - sender.spp
  BY <1>1, TailOfFlight
<1>3. /\ level' \in 0 .. BufferSize /\ StaysStereo'
      /\ \/ Buffered' = Buffered + sender.spp
         \/ Buffered' >= Desc + Jitter + 2 * sender.spp
  <2>1. sender.spp \in Spps
    BY TimesType
  <2>2. PICK new : new = level' /\ new = level + Accepted(sender.spp * Channels)
    BY <1>1
  <2>3. /\ new \in 0 .. BufferSize /\ new % Channels = 0
        /\ \/ new \div Channels = Buffered + sender.spp
           \/ \A s \in Spps : new \div Channels >= Desc + Jitter + 2 * s
    BY <2>1, <2>2, WriteIsWhole
  <2> QED BY <2>1, <2>2, <2>3 DEF StaysStereo, Buffered
<1>4. /\ heard' \in [flowing : BOOLEAN, made_up : Nat, lost : Nat]
      /\ heard'.made_up = heard.made_up /\ heard'.lost = heard.lost
      /\ heard'.flowing = sender.sending /\ sender.sending \in BOOLEAN
  BY <1>1 DEF PlayInv, PlayTypeInv
<1>5. PlayTypeInv'
  BY <1>1, <1>2, <1>3, <1>4 DEF PlayInv, PlayTypeInv
<1>6. StretchIsBounded'
  BY <1>4 DEF PlayInv, StretchIsBounded
<1>7. FlowInv'
  <2>1. ToNextFire' = ToNextFire /\ sender'.timer = sender.timer
    BY <1>1 DEF ToNextFire
  <2>2. ~heard'.flowing => heard'.made_up = 0 /\ heard'.lost = 0
    BY <1>4 DEF PlayInv, FlowInv
  <2>3. ASSUME output = "i2s", heard'.flowing
        PROVE  heard'.made_up <= Buffered' + InFlight' + heard'.lost + ToNextFire - sender.timer
    <3>1. sender.sending
      BY <1>4, <2>3
    <3>2. Buffered' \in Nat /\ InFlight' \in Nat
      <4>1. PlayTypeInv' /\ StaysStereo'
        BY <1>3, <1>5
      <4>2. Buffered' \in Nat
        <5>1. level' \in Nat /\ level' % Channels = 0
          BY <1>3, PlayoutAssumption DEF StaysStereo
        <5> QED BY <5>1, Sizes, Whole DEF Buffered
      <4>3. InFlight' \in Nat
        <5>1. Len(flight') \in Nat /\ sender'.spp \in Nat
          BY <1>1, <1>2, LenProperties, TimesType
        <5> QED BY <5>1 DEF InFlight
      <4> QED BY <4>2, <4>3
    <3>3. heard.made_up <= Desc + Jitter + heard.lost
      BY DEF PlayInv, StretchIsBounded
    <3>4. PICK b, f, b2, f2 : b = Buffered /\ f = InFlight /\ b2 = Buffered' /\ f2 = InFlight'
      OBVIOUS
    <3>5. PICK made_up, lost, spp, t, d :
            /\ made_up = heard.made_up /\ lost = heard.lost /\ spp = sender.spp
            /\ t = sender.timer /\ d = ToNextFire
      OBVIOUS
    <3>7. {b, f, b2, f2, made_up, lost, spp, t, d} \subseteq Nat
      BY <3>2, <3>4, <3>5, TimesType, Sizes
    <3>8. f2 = f - spp /\ t <= spp /\ made_up <= Desc + Jitter + lost
      BY <1>2, <3>3, <3>4, <3>5, TimesType
    <3>9. made_up <= b2 + f2 + lost + d - t
      <4>1. CASE b2 >= Desc + Jitter + 2 * spp
        BY <3>7, <3>8, <4>1, Sizes
      <4>2. CASE b2 = b + spp /\ heard.flowing
        <5>1. made_up <= b + f + lost + d - t
          BY <2>3, <3>4, <3>5, <4>2 DEF PlayInv, FlowInv
        <5> QED BY <3>7, <3>8, <4>2, <5>1
      <4>3. CASE b2 = b + spp /\ ~heard.flowing
        <5>1. made_up = 0 /\ lost = 0
          BY <3>4, <3>5, <4>3 DEF PlayInv, FlowInv
        <5> QED BY <3>7, <3>8, <4>3, <5>1
      <4> QED BY <1>3, <3>4, <3>5, <4>1, <4>2, <4>3
    <3> QED BY <1>4, <3>4, <3>5, <3>9
  <2>4. output # "i2s" => heard'.made_up = 0
    BY <1>4 DEF PlayInv, FlowInv
  <2> QED BY <1>1, <1>4, <2>1, <2>2, <2>3, <2>4 DEF FlowInv
<1> QED BY <1>2, <1>3, <1>5, <1>6, <1>7 DEF PlayInv

(* A descriptor: what is made up is what the buffer lacked, and then it is *)
(* empty and the missing frames are under way.                             *)
LEMMA FireInv ==
  ASSUME PlayInv, Fire, output = "i2s", output' = output
  PROVE  PlayInv'
<1>1. /\ isr.on /\ isr.timer = 0 /\ level' = level - Received
      /\ heard' = IF heard.flowing THEN [heard EXCEPT !.made_up = heard.made_up + HeldFrames]
                  ELSE heard
      /\ isr' = [isr EXCEPT !.timer = Desc] /\ sender' = sender /\ flight' = flight
  BY DEF Fire
<1>2. PICK taken : taken = Received
  OBVIOUS
<1>3. Desc * Channels \in Nat /\ (Desc * Channels) % Channels = 0
      /\ (Desc * Channels) \div Channels = Desc
  <2>1. Desc * Channels = Channels * Desc /\ Channels * Desc \in Nat
    BY Sizes, Z3
  <2>2. (Channels * Desc) \div Channels = Desc /\ (Channels * Desc) % Channels = 0
    BY Sizes, Quotient
  <2> QED BY <2>1, <2>2
<1>4. PICK n : n = Desc * Channels
  OBVIOUS
<1>5. /\ level - taken \in 0 .. BufferSize /\ (level - taken) % Channels = 0
      /\ \/ taken < n /\ taken = level /\ (level - taken) \div Channels = 0
         \/ taken = n /\ (level - taken) \div Channels = Buffered - (n \div Channels)
      /\ taken \div Channels = Buffered - ((level - taken) \div Channels)
  <2>1. n \in Nat /\ n % Channels = 0 /\ taken = Min({level, n})
    BY <1>2, <1>3, <1>4 DEF Received
  <2> QED BY <2>1, ReadIsWhole
<1>6. level' \in 0 .. BufferSize /\ StaysStereo'
  BY <1>1, <1>2, <1>5 DEF StaysStereo
<1>7. PICK b, b2, held : b = Buffered /\ b2 = Buffered' /\ held = HeldFrames
  OBVIOUS
<1>8. /\ b \in Nat /\ b2 \in Nat /\ held \in Nat /\ held = Desc - (b - b2)
      /\ b2 = 0 \/ held = 0
  <2>1. b \in Nat
    BY <1>7, BufferedIs DEF PlayInv
  <2>2. b2 = (level - taken) \div Channels
    BY <1>1, <1>2, <1>7 DEF Buffered
  <2>3. b2 \in Nat
    <3>1. level - taken \in Nat /\ (level - taken) % Channels = 0
      BY <1>5, PlayoutAssumption
    <3> QED BY <2>2, <3>1, Sizes, Whole
  <2>4. held = Desc - (b - b2)
    BY <1>2, <1>5, <1>7, <2>2 DEF HeldFrames
  <2>5. CASE taken < n
    <3>1. b2 = 0
      BY <1>3, <1>4, <1>5, <2>2, <2>5
    <3>2. Channels * b <= Channels * Desc
      <4>1. level = Channels * b /\ level < n /\ level \in Nat /\ n \in Nat
        BY <1>3, <1>4, <1>5, <1>7, <2>5, BufferedIs, PlayoutAssumption DEF PlayInv, PlayTypeInv
      <4>2. n = Channels * Desc
        BY <1>4, Sizes, Z3
      <4> QED BY <4>1, <4>2
    <3>3. b <= Desc
      BY <2>1, <3>2, Sizes, ProductOrder
    <3> QED BY <2>1, <2>3, <2>4, <3>1, <3>3, Sizes
  <2>6. CASE ~(taken < n)
    <3>1. b2 = b - Desc
      BY <1>3, <1>4, <1>5, <1>7, <2>2, <2>6
    <3> QED BY <2>1, <2>3, <2>4, <3>1, Sizes
  <2> QED BY <2>5, <2>6
<1>9. /\ isr' \in [on : BOOLEAN, timer : 0 .. Desc] /\ ToNextFire = 0 /\ ToNextFire' = Desc
  <2>1. isr \in [on : BOOLEAN, timer : 0 .. Desc] /\ Desc \in 0 .. Desc
    BY Sizes DEF PlayInv, PlayTypeInv
  <2>2. /\ isr' \in [on : BOOLEAN, timer : 0 .. Desc] /\ isr'.on = isr.on /\ isr'.timer = Desc
    BY <1>1, <2>1
  <2> QED BY <1>1, <2>2 DEF ToNextFire
<1>10. /\ heard' \in [flowing : BOOLEAN, made_up : Nat, lost : Nat]
       /\ heard'.flowing = heard.flowing /\ heard'.lost = heard.lost
       /\ heard.flowing => heard'.made_up = heard.made_up + held
       /\ ~heard.flowing => heard'.made_up = heard.made_up
  BY <1>1, <1>7, <1>8 DEF PlayInv, PlayTypeInv
<1>11. PlayTypeInv'
  BY <1>1, <1>6, <1>9, <1>10 DEF PlayInv, PlayTypeInv
<1>12. FlightInv' /\ InFlight' = InFlight
  BY <1>1 DEF PlayInv, FlightInv, InFlight
<1>13. CASE ~heard.flowing
  <2>1. FlowInv'
    BY <1>1, <1>10, <1>13 DEF PlayInv, FlowInv
  <2>2. StretchIsBounded'
    BY <1>10, <1>13 DEF PlayInv, StretchIsBounded
  <2> QED BY <1>6, <1>11, <1>12, <2>1, <2>2 DEF PlayInv
<1>14. CASE heard.flowing
  <2>1. PICK f, made_up, lost, t : /\ f = InFlight /\ made_up = heard.made_up
                                   /\ lost = heard.lost /\ t = sender.timer
    OBVIOUS
  <2>2. {f, made_up, lost, t, b, b2, held} \subseteq Nat
    BY <1>8, <2>1, TimesType
  <2>3. made_up <= b + f + lost + 0 - t
    BY <1>7, <1>9, <1>14, <2>1 DEF PlayInv, FlowInv
  <2>4. f - t <= Jitter
    BY <1>14, <2>1, FlightIsShort DEF PlayInv, FlowInv
  <2>5. made_up + held <= b2 + f + lost + Desc - t
    BY <1>8, <2>2, <2>3, Sizes
  <2>6. made_up + held <= Desc + Jitter + lost
    <3>1. made_up <= Desc + Jitter + lost
      BY <2>1 DEF PlayInv, StretchIsBounded
    <3> QED BY <1>8, <2>2, <2>4, <2>5, <3>1, Sizes
  <2>7. FlowInv'
    BY <1>1, <1>7, <1>9, <1>10, <1>12, <1>14, <2>1, <2>5 DEF PlayInv, FlowInv
  <2>8. StretchIsBounded'
    BY <1>10, <1>14, <2>1, <2>6 DEF StretchIsBounded
  <2> QED BY <1>6, <1>11, <1>12, <2>7, <2>8 DEF PlayInv
<1> QED BY <1>13, <1>14

(* Stopping and starting the audio only puts the next descriptor off. *)
LEMMA AudioInv ==
  ASSUME PlayInv, AudioStart \/ AudioStop, output' = output
  PROVE  PlayInv'
<1>1. UNCHANGED <<level, last, sender, flight, heard>>
  BY DEF AudioStart, AudioStop
<1>2. isr' \in [on : BOOLEAN, timer : 0 .. Desc] /\ ToNextFire' = Desc
  <2>1. Desc \in 0 .. Desc /\ 0 \in 0 .. Desc
    BY Sizes
  <2>2. CASE AudioStart
    <3>1. isr' = [on |-> TRUE, timer |-> Desc]
      BY <2>2 DEF AudioStart
    <3> QED BY <2>1, <3>1 DEF ToNextFire
  <2>3. CASE AudioStop
    <3>1. isr' = [on |-> FALSE, timer |-> 0]
      BY <2>3 DEF AudioStop
    <3> QED BY <2>1, <3>1 DEF ToNextFire
  <2> QED BY <2>2, <2>3
<1>3. PlayTypeInv' /\ StaysStereo' /\ FlightInv' /\ StretchIsBounded'
  BY <1>1, <1>2 DEF PlayInv, PlayTypeInv, StaysStereo, FlightInv, StretchIsBounded
<1>4. Buffered' = Buffered /\ InFlight' = InFlight
  BY <1>1 DEF Buffered, InFlight
<1>5. ASSUME output = "i2s", heard.flowing
      PROVE  heard.made_up <= Buffered + InFlight + heard.lost + Desc - sender.timer
  <2>1. PICK b, f, made_up, lost, t, d :
          /\ b = Buffered /\ f = InFlight /\ made_up = heard.made_up
          /\ lost = heard.lost /\ t = sender.timer /\ d = ToNextFire
    OBVIOUS
  <2>2. {b, f, made_up, lost, t, d} \subseteq Nat /\ d <= Desc
    BY <2>1, TimesType, Sizes
  <2>3. made_up <= b + f + lost + d - t
    BY <1>5, <2>1 DEF PlayInv, FlowInv
  <2>4. made_up <= b + f + lost + Desc - t
    BY <2>2, <2>3, Sizes
  <2> QED BY <2>1, <2>4
<1>6. FlowInv'
  BY <1>1, <1>2, <1>4, <1>5 DEF PlayInv, FlowInv
<1> QED BY <1>3, <1>6 DEF PlayInv

(* A new sender has its whole first packet before it, and no balance yet.  *)
LEMMA SendStartInv ==
  ASSUME PlayInv, NEW spp \in Spps, SendStart(spp), output' = output
  PROVE  PlayInv'
<1>1. /\ ~sender.sending /\ flight = <<>>
      /\ sender' = [sending |-> TRUE, spp |-> spp, timer |-> 0]
      /\ UNCHANGED <<level, last, isr, flight, heard>>
  BY DEF SendStart
<1>2. sender' \in [sending : BOOLEAN, spp : Spps, timer : Nat] /\ sender'.timer <= sender'.spp
  BY <1>1, Sizes
<1>3. PlayTypeInv' /\ StaysStereo' /\ StretchIsBounded'
  BY <1>1, <1>2 DEF PlayInv, PlayTypeInv, StaysStereo, StretchIsBounded
<1>4. FlightInv'
  <2>1. 1 .. Len(flight') = {}
    BY <1>1
  <2> QED BY <2>1 DEF FlightInv
<1>5. FlowInv'
  BY <1>1 DEF PlayInv, FlowInv
<1> QED BY <1>3, <1>4, <1>5 DEF PlayInv

(* The packets of a sender that stopped still arrive, and balance nothing. *)
LEMMA SendStopInv ==
  ASSUME PlayInv, SendStop, output' = output
  PROVE  PlayInv'
<1>1. /\ sender' = [[sender EXCEPT !.sending = FALSE] EXCEPT !.timer = 0]
      /\ heard' = Silent /\ UNCHANGED <<level, last, isr, flight>>
  BY Zenon DEF SendStop
<1>2. /\ sender' \in [sending : BOOLEAN, spp : Spps, timer : Nat] /\ sender'.timer = 0
      /\ sender'.spp = sender.spp /\ ~sender'.sending
  BY <1>1 DEF PlayInv, PlayTypeInv
<1>3. /\ heard' \in [flowing : BOOLEAN, made_up : Nat, lost : Nat]
      /\ ~heard'.flowing /\ heard'.made_up = 0 /\ heard'.lost = 0
  BY <1>1 DEF Silent
<1>4. PlayTypeInv' /\ StaysStereo'
  BY <1>1, <1>2, <1>3, Sizes DEF PlayInv, PlayTypeInv, StaysStereo
<1>5. FlightInv' /\ FlowInv'
  BY <1>2, <1>3 DEF FlightInv, FlowInv
<1>6. StretchIsBounded'
  BY <1>3, Sizes DEF StretchIsBounded
<1> QED BY <1>4, <1>5, <1>6 DEF PlayInv

(* One packet more under way is one packet of frames more.                 *)
LEMMA NextProduct ==
  ASSUME NEW m \in Int, NEW s \in Int
  PROVE  (m + 1) * s = m * s + s
OBVIOUS

(* A packet is sent when the time to it is over. *)
LEMMA SendInv ==
  ASSUME PlayInv, Send, output' = output
  PROVE  PlayInv'
<1>1. /\ sender.sending /\ sender.timer = 0 /\ flight' = Append(flight, Jitter)
      /\ sender' = [sender EXCEPT !.timer = sender.spp]
      /\ UNCHANGED <<level, last, isr, heard>>
  BY DEF Send
<1>2. PICK n, spp : n = Len(flight) /\ spp = sender.spp /\ n \in Nat /\ spp \in Nat
  BY TimesType
<1>3. /\ flight' \in Seq(0 .. Jitter) /\ Len(flight') = n + 1
      /\ flight'[n + 1] = Jitter /\ \A i \in 1 .. n : flight'[i] = flight[i]
  <2>1. flight \in Seq(0 .. Jitter) /\ Jitter \in 0 .. Jitter
    BY Sizes DEF PlayInv, PlayTypeInv
  <2> QED BY <1>1, <1>2, <2>1, AppendProperties
<1>4. /\ sender' \in [sending : BOOLEAN, spp : Spps, timer : Nat]
      /\ sender'.spp = spp /\ sender'.timer = spp /\ sender'.sending
  BY <1>1, <1>2 DEF PlayInv, PlayTypeInv
<1>5. PlayTypeInv' /\ StaysStereo' /\ StretchIsBounded'
  BY <1>1, <1>2, <1>3, <1>4 DEF PlayInv, PlayTypeInv, StaysStereo, StretchIsBounded
<1>6. ASSUME NEW i \in 1 .. n + 1
      PROVE  flight'[i] = Jitter + spp - ((n + 1) - i + 1) * spp
  <2>1. CASE i = n + 1
    <3>1. (n + 1) - i + 1 = 1 /\ 1 * spp = spp
      BY <1>2, <2>1
    <3>2. ((n + 1) - i + 1) * spp = spp
      BY <3>1
    <3> QED BY <1>2, <1>3, <2>1, <3>2, Sizes
  <2>2. CASE i # n + 1
    <3>1. i \in 1 .. n
      BY <1>2, <2>2
    <3>2. flight[i] = Jitter + 0 - (n - i + 1) * spp
      BY <1>1, <1>2, <3>1 DEF PlayInv, FlightInv
    <3>3. PICK m \in Int : m = n - i + 1 /\ (n + 1) - i + 1 = m + 1
      BY <1>2, <3>1
    <3>4. PICK p \in Int : p = m * spp /\ (m + 1) * spp = p + spp
      BY <1>2, <3>3, Z3
    <3>5. ((n + 1) - i + 1) * spp = p + spp /\ (n - i + 1) * spp = p
      BY <3>3, <3>4
    <3>6. flight[i] = Jitter + spp - (p + spp)
      BY <1>2, <3>2, <3>4, <3>5, Sizes
    <3> QED BY <1>3, <3>1, <3>5, <3>6
  <2> QED BY <2>1, <2>2
<1>7. FlightInv'
  BY <1>3, <1>4, <1>6 DEF FlightInv
<1>8. InFlight' = InFlight + spp
  <2>1. (n + 1) * spp = n * spp + spp
    BY <1>2, NextProduct
  <2> QED BY <1>2, <1>3, <1>4, <2>1 DEF InFlight
<1>9. ASSUME output = "i2s", heard.flowing
      PROVE  heard.made_up <= Buffered + InFlight' + heard.lost + ToNextFire - spp
  <2>1. PICK b, f, made_up, lost, d :
          /\ b = Buffered /\ f = InFlight /\ made_up = heard.made_up
          /\ lost = heard.lost /\ d = ToNextFire
    OBVIOUS
  <2>2. {b, f, made_up, lost, d, spp} \subseteq Nat
    BY <1>2, <2>1, TimesType, Sizes
  <2>3. made_up <= b + f + lost + d - 0
    BY <1>1, <1>9, <2>1 DEF PlayInv, FlowInv
  <2>4. made_up <= b + (f + spp) + lost + d - spp
    BY <2>2, <2>3
  <2> QED BY <1>8, <2>1, <2>4
<1>10. FlowInv'
  <2>1. Buffered' = Buffered /\ ToNextFire' = ToNextFire
    BY <1>1 DEF Buffered, ToNextFire
  <2> QED BY <1>1, <1>4, <1>9, <2>1 DEF PlayInv, FlowInv
<1> QED BY <1>5, <1>7, <1>10 DEF PlayInv

(* What is lost is under way no more, but counted.                         *)
LEMMA LoseInv ==
  ASSUME PlayInv, Lose, output' = output
  PROVE  PlayInv'
<1>1. /\ flight # <<>> /\ flight' = Tail(flight) /\ UNCHANGED <<level, last, isr, sender>>
      /\ heard' = IF heard.flowing THEN [heard EXCEPT !.lost = heard.lost + sender.spp] ELSE heard
  BY DEF Lose
<1>2. /\ (flight \in Seq(0 .. Jitter))' /\ FlightInv' /\ InFlight' = InFlight - sender.spp
  BY <1>1, TailOfFlight
<1>3. /\ heard' \in [flowing : BOOLEAN, made_up : Nat, lost : Nat]
      /\ heard'.flowing = heard.flowing /\ heard'.made_up = heard.made_up
      /\ heard.flowing => heard'.lost = heard.lost + sender.spp
      /\ ~heard.flowing => heard'.lost = heard.lost
  <2>1. heard \in [flowing : BOOLEAN, made_up : Nat, lost : Nat]
    BY DEF PlayInv, PlayTypeInv
  <2>2. PICK more \in Nat : more = heard.lost + sender.spp
    BY TimesType
  <2>3. CASE heard.flowing
    <3>1. heard' = [heard EXCEPT !.lost = more]
      BY <1>1, <2>2, <2>3
    <3> QED BY <2>1, <2>2, <2>3, <3>1
  <2>4. CASE ~heard.flowing
    BY <1>1, <2>1, <2>4
  <2> QED BY <2>3, <2>4
<1>4. PlayTypeInv' /\ StaysStereo'
  BY <1>1, <1>2, <1>3 DEF PlayInv, PlayTypeInv, StaysStereo
<1>5. Buffered' = Buffered /\ ToNextFire' = ToNextFire
  BY <1>1 DEF Buffered, ToNextFire
<1>6. CASE ~heard.flowing
  <2>1. FlowInv' /\ StretchIsBounded'
    BY <1>1, <1>3, <1>6 DEF PlayInv, FlowInv, StretchIsBounded
  <2> QED BY <1>2, <1>4, <2>1 DEF PlayInv
<1>7. CASE heard.flowing
  <2>1. PICK b, f, made_up, lost, spp, t, d :
          /\ b = Buffered /\ f = InFlight /\ made_up = heard.made_up /\ spp = sender.spp
          /\ lost = heard.lost /\ t = sender.timer /\ d = ToNextFire
    OBVIOUS
  <2>2. {b, f, made_up, lost, spp, t, d} \subseteq Nat
    BY <2>1, TimesType, Sizes
  <2>3. made_up <= Desc + Jitter + (lost + spp)
    <3>1. made_up <= Desc + Jitter + lost
      BY <2>1 DEF PlayInv, StretchIsBounded
    <3> QED BY <2>2, <3>1, Sizes
  <2>4. ASSUME output = "i2s"
        PROVE  made_up <= b + (f - spp) + (lost + spp) + d - t
    <3>1. made_up <= b + f + lost + d - t
      BY <1>7, <2>1, <2>4 DEF PlayInv, FlowInv
    <3> QED BY <2>2, <3>1
  <2>5. StretchIsBounded'
    BY <1>3, <1>7, <2>1, <2>3 DEF StretchIsBounded
  <2>6. FlowInv'
    BY <1>1, <1>2, <1>3, <1>5, <1>7, <2>1, <2>4 DEF PlayInv, FlowInv
  <2> QED BY <1>2, <1>4, <2>5, <2>6 DEF PlayInv
<1> QED BY <1>6, <1>7

(* Time passes for the converter, the sender and the packets alike.        *)
LEMMA TickInv ==
  ASSUME PlayInv, Tick, output' = output
  PROVE  PlayInv'
<1>1. /\ isr' = [isr EXCEPT !.timer = IF isr.on THEN isr.timer - 1 ELSE isr.timer]
      /\ sender' = [sender EXCEPT !.timer = IF sender.sending THEN sender.timer - 1
                                            ELSE sender.timer]
      /\ flight' = [i \in DOMAIN flight |-> flight[i] - 1]
      /\ UNCHANGED <<level, last, heard>>
      /\ isr.on => isr.timer # 0
      /\ sender.sending => sender.timer # 0
      /\ \A i \in DOMAIN flight : flight[i] # 0
  BY DEF Tick, Due
<1>2. PICK n : /\ n = Len(flight) /\ n \in Nat
               /\ DOMAIN flight = 1 .. n /\ flight \in [1 .. n -> 0 .. Jitter]
  BY LenProperties DEF PlayInv, PlayTypeInv
<1>3. /\ flight' \in Seq(0 .. Jitter) /\ Len(flight') = n
      /\ \A i \in 1 .. n : flight'[i] = flight[i] - 1
  <2>1. \A i \in 1 .. n : flight[i] - 1 \in 0 .. Jitter
    BY <1>1, <1>2, Sizes
  <2>2. flight' \in [1 .. n -> 0 .. Jitter]
    BY <1>1, <1>2, <2>1
  <2>3. flight' \in Seq(0 .. Jitter)
    BY <1>2, <2>2, SeqDef
  <2>4. DOMAIN flight' = 1 .. n
    BY <1>1, <1>2
  <2>5. Len(flight') = n
    <3>1. Len(flight') \in Nat /\ 1 .. Len(flight') = 1 .. n
      BY <2>3, <2>4, LenProperties
    <3> QED BY <1>2, <3>1
  <2> QED BY <1>1, <1>2, <2>3, <2>5
<1>4. /\ isr' \in [on : BOOLEAN, timer : 0 .. Desc] /\ isr'.on = isr.on
      /\ isr.on => isr'.timer = isr.timer - 1
  <2>1. isr \in [on : BOOLEAN, timer : 0 .. Desc]
    BY DEF PlayInv, PlayTypeInv
  <2>2. PICK timer \in 0 .. Desc : /\ isr' = [isr EXCEPT !.timer = timer]
                                   /\ isr.on => timer = isr.timer - 1
    <3>1. CASE isr.on
      <4>1. isr.timer - 1 \in 0 .. Desc
        BY <1>1, <2>1, <3>1, Sizes
      <4> QED BY <1>1, <3>1, <4>1
    <3>2. CASE ~isr.on
      BY <1>1, <2>1, <3>2
    <3> QED BY <3>1, <3>2
  <2> QED BY <2>1, <2>2
<1>5. /\ sender' \in [sending : BOOLEAN, spp : Spps, timer : Nat]
      /\ sender'.spp = sender.spp /\ sender'.sending = sender.sending
      /\ sender.sending => sender'.timer = sender.timer - 1
      /\ sender'.timer <= sender'.spp
  <2>1. sender \in [sending : BOOLEAN, spp : Spps, timer : Nat] /\ sender.timer <= sender.spp
        /\ sender.spp \in Nat /\ sender.timer \in Nat
    BY TimesType DEF PlayInv, PlayTypeInv
  <2>2. PICK timer \in Nat : /\ sender' = [sender EXCEPT !.timer = timer]
                             /\ sender.sending => timer = sender.timer - 1
                             /\ timer <= sender.spp
    <3>1. CASE sender.sending
      <4>1. sender.timer - 1 \in Nat /\ sender.timer - 1 <= sender.spp
        BY <1>1, <2>1, <3>1
      <4> QED BY <1>1, <3>1, <4>1
    <3>2. CASE ~sender.sending
      BY <1>1, <2>1, <3>2
    <3> QED BY <3>1, <3>2
  <2> QED BY <2>1, <2>2
<1>6. PlayTypeInv' /\ StaysStereo' /\ StretchIsBounded'
  BY <1>1, <1>3, <1>4, <1>5 DEF PlayInv, PlayTypeInv, StaysStereo, StretchIsBounded
<1>7. FlightInv'
  <2> SUFFICES ASSUME sender.sending, NEW i \in 1 .. n
               PROVE  flight'[i] = Jitter + sender'.timer - (n - i + 1) * sender.spp
    BY <1>3, <1>5 DEF FlightInv
  <2>1. PICK p, t, spp : p = (n - i + 1) * spp /\ t = sender.timer /\ spp = sender.spp
    OBVIOUS
  <2>2. p \in Int /\ t \in Nat
    BY <1>2, <2>1, TimesType
  <2>3. flight[i] = Jitter + t - p
    BY <1>2, <2>1 DEF PlayInv, FlightInv
  <2>4. flight[i] - 1 = Jitter + (t - 1) - p
    BY <2>2, <2>3, Sizes
  <2> QED BY <1>3, <1>5, <2>1, <2>4
<1>8. Buffered' = Buffered /\ InFlight' = InFlight
  BY <1>1, <1>2, <1>3, <1>5 DEF Buffered, InFlight
<1>9. ASSUME output = "i2s", heard.flowing
      PROVE  heard.made_up <= Buffered + InFlight + heard.lost + ToNextFire' - sender'.timer
  <2>1. PICK b, f, made_up, lost, t, d :
          /\ b = Buffered /\ f = InFlight /\ made_up = heard.made_up
          /\ lost = heard.lost /\ t = sender.timer /\ d = ToNextFire
    OBVIOUS
  <2>2. {b, f, made_up, lost, t, d} \subseteq Nat
    BY <2>1, TimesType, Sizes
  <2>3. made_up <= b + f + lost + d - t
    BY <1>9, <2>1 DEF PlayInv, FlowInv
  <2>4. PICK d2 : d2 = ToNextFire' /\ (d2 = d \/ d2 = d - 1)
    BY <1>4, <2>1 DEF ToNextFire
  <2>5. sender'.timer = t - 1
    BY <1>5, <1>9, <2>1 DEF PlayInv, FlowInv
  <2>6. made_up <= b + f + lost + d2 - (t - 1)
    BY <2>2, <2>3, <2>4
  <2> QED BY <2>1, <2>4, <2>5, <2>6
<1>10. FlowInv'
  BY <1>1, <1>5, <1>8, <1>9 DEF PlayInv, FlowInv
<1> QED BY <1>6, <1>7, <1>10 DEF PlayInv

(* Without I2S nothing is made up, and only the level and the packets      *)
(* under way matter.                                                       *)
LEMMA LevelInv ==
  ASSUME PlayInv, output # "i2s", output' = output,
         level' \in 0 .. BufferSize, StaysStereo', UNCHANGED <<isr, sender>>,
         (flight \in Seq(0 .. Jitter))', FlightInv',
         heard' \in [flowing : BOOLEAN, made_up : Nat, lost : Nat],
         heard'.made_up = heard.made_up, heard'.lost = heard.lost,
         heard'.flowing => sender.sending, ~heard'.flowing => heard.lost = 0
  PROVE  PlayInv'
<1>1. PlayTypeInv' /\ StretchIsBounded'
  BY DEF PlayInv, PlayTypeInv, StretchIsBounded
<1>2. FlowInv'
  BY DEF PlayInv, FlowInv
<1> QED BY <1>1, <1>2 DEF PlayInv

(* The receive task writes a packet if there is a sink.                    *)
LEMMA RxInv ==
  ASSUME PlayInv, Rx, output # "i2s", output' = output
  PROVE  PlayInv'
<1>1. /\ flight # <<>> /\ flight' = Tail(flight) /\ UNCHANGED <<last, isr, sender>>
      /\ level' = IF sinks = {} THEN level ELSE level + Accepted(sender.spp * Channels)
      /\ heard' = [heard EXCEPT !.flowing = sender.sending]
  BY DEF Rx
<1>2. (flight \in Seq(0 .. Jitter))' /\ FlightInv'
  BY <1>1, TailOfFlight
<1>3. level' \in 0 .. BufferSize /\ StaysStereo'
  <2>1. PICK new : new = level + Accepted(sender.spp * Channels) /\ sender.spp \in Spps
    BY TimesType
  <2>2. new \in 0 .. BufferSize /\ new % Channels = 0
    BY <2>1, WriteIsWhole
  <2>3. CASE sinks = {}
    BY <1>1, <2>3 DEF PlayInv, PlayTypeInv, StaysStereo
  <2>4. CASE sinks # {}
    BY <1>1, <2>1, <2>2, <2>4 DEF StaysStereo
  <2> QED BY <2>3, <2>4
<1>4. /\ heard' \in [flowing : BOOLEAN, made_up : Nat, lost : Nat]
      /\ heard'.made_up = heard.made_up /\ heard'.lost = heard.lost
      /\ heard'.flowing = sender.sending /\ sender.sending \in BOOLEAN
  BY <1>1 DEF PlayInv, PlayTypeInv
<1>5. ~sender.sending => heard.lost = 0
  BY DEF PlayInv, PlayTypeInv, FlowInv
<1> QED BY <1>1, <1>2, <1>3, <1>4, <1>5, LevelInv

(* The playback task reads what there is, up to the size of its read.      *)
LEMMA PlayReadInv ==
  ASSUME PlayInv, Read, output # "i2s", output' = output
  PROVE  PlayInv'
<1>1. level' = level - PlayReads /\ UNCHANGED <<isr, sender, flight, heard>>
  BY DEF Read
<1>2. level' \in 0 .. BufferSize /\ StaysStereo'
  <2>1. PICK n, taken : n = MaxRead /\ taken = Min({level, n})
    OBVIOUS
  <2>2. level - taken \in 0 .. BufferSize /\ (level - taken) % Channels = 0
    <3>1. n \in Nat /\ n % Channels = 0
      BY <2>1, Sizes
    <3> QED BY <2>1, <3>1, ReadIsWhole
  <2>3. level' = level - taken
    BY <1>1, <2>1 DEF PlayReads
  <2> QED BY <2>2, <2>3 DEF StaysStereo
<1>3. /\ (flight \in Seq(0 .. Jitter))' /\ FlightInv'
      /\ heard' \in [flowing : BOOLEAN, made_up : Nat, lost : Nat]
      /\ heard'.made_up = heard.made_up /\ heard'.lost = heard.lost
      /\ (heard'.flowing => sender.sending) /\ (~heard'.flowing => heard.lost = 0)
  BY <1>1 DEF PlayInv, PlayTypeInv, FlightInv, FlowInv
<1> QED BY <1>1, <1>2, <1>3, LevelInv

(* Sinks that come and go and the search for one leave the buffer alone.   *)
LEMMA StillInv ==
  ASSUME PlayInv, UNCHANGED playoutVars, output' = output
  PROVE  PlayInv'
<1>1. PlayTypeInv' /\ StaysStereo' /\ FlightInv' /\ StretchIsBounded'
  BY DEF playoutVars, PlayInv, PlayTypeInv, StaysStereo, FlightInv, StretchIsBounded
<1>2. FlowInv'
  BY DEF playoutVars, PlayInv, FlowInv, Buffered, InFlight, ToNextFire
<1> QED BY <1>1, <1>2 DEF PlayInv

(* Every step of every output keeps the balance.                           *)
LEMMA PlayNextInv == PlayInv /\ [PlaybackNext]_allVars => PlayInv'
<1> SUFFICES ASSUME PlayInv, [PlaybackNext]_allVars
             PROVE  PlayInv'
  OBVIOUS
<1>1. ASSUME NEW spp \in Spps, Either(SendStart(spp))
      PROVE  PlayInv'
  BY <1>1, SendStartInv DEF Either, playbackVars
<1>2. CASE I2s(Hook)
  BY <1>2, HookInv DEF I2s, playbackVars
<1>3. CASE I2s(Fire)
  BY <1>3, FireInv DEF I2s, playbackVars
<1>4. CASE I2s(AudioStart) \/ I2s(AudioStop)
  BY <1>4, AudioInv DEF I2s, playbackVars
<1>5. CASE Either(SendStop)
  BY <1>5, SendStopInv DEF Either, playbackVars
<1>6. CASE Either(Send)
  BY <1>6, SendInv DEF Either, playbackVars
<1>7. CASE Either(Lose)
  BY <1>7, LoseInv DEF Either, playbackVars
<1>8. CASE Either(Tick)
  BY <1>8, TickInv DEF Either, playbackVars
<1>9. CASE Player(Rx)
  BY <1>9, RxInv DEF Player
<1>10. CASE Player(HandOn) \/ Player(Drop)
  BY <1>10, PlayReadInv DEF Player, HandOn, Drop
<1>11. CASE Player(AddSink) \/ \E i \in SinkSlots : Player(RemoveSink(i))
  <2>1. UNCHANGED playoutVars /\ output' = output
    BY <1>11 DEF Player, AddSink, RemoveSink
  <2> QED BY <2>1, StillInv
<1>12. CASE Player(PlayerStart) \/ Player(PlayerStop) \/ Player(Search)
  <2>1. UNCHANGED playoutVars /\ output' = output
    BY <1>12 DEF Player, PlayerStart, PlayerStop, Search
  <2> QED BY <2>1, StillInv
<1>13. CASE UNCHANGED allVars
  <2>1. UNCHANGED playoutVars /\ output' = output
    BY <1>13 DEF allVars, playbackVars
  <2> QED BY <2>1, StillInv
<1>14. \/ \E spp \in Spps : Either(SendStart(spp))
       \/ I2s(Hook) \/ I2s(Fire) \/ I2s(AudioStart) \/ I2s(AudioStop)
       \/ Either(SendStop) \/ Either(Send) \/ Either(Lose) \/ Either(Tick)
       \/ Player(AddSink) \/ (\E i \in SinkSlots : Player(RemoveSink(i)))
       \/ Player(Rx) \/ Player(PlayerStart) \/ Player(PlayerStop)
       \/ Player(Search) \/ Player(HandOn) \/ Player(Drop) \/ UNCHANGED allVars
  BY Zenon DEF PlaybackNext
<1> QED BY <1>1, <1>2, <1>3, <1>4, <1>5, <1>6, <1>7, <1>8, <1>9, <1>10, <1>11, <1>12, <1>13,
           <1>14, Zenon

(* What is played, buffered, under way, lost and made up balances at every *)
(* time, for any sizes, jitter and packet times.                           *)
THEOREM PlaybackInvariant == PlaybackSpec => []PlayInv
<1>1. PlaybackInit => PlayInv
  <2> SUFFICES ASSUME PlaybackInit
               PROVE  PlayInv
    OBVIOUS
  <2>1. PICK spp \in Spps : sender = [sending |-> FALSE, spp |-> spp, timer |-> 0]
    BY DEF PlaybackInit, PlayoutInit
  <2>2. /\ level = 0 /\ isr = [on |-> FALSE, timer |-> 0] /\ flight = <<>> /\ heard = Silent
        /\ output \in {"i2s", "callback", "stream_buffer"}
    BY DEF PlaybackInit, PlayoutInit
  <2>3. PlayTypeInv
    <3>1. level \in 0 .. BufferSize
      BY <2>2, PlayoutAssumption
    <3>2. isr \in [on : BOOLEAN, timer : 0 .. Desc]
      <4>1. 0 \in 0 .. Desc
        BY Sizes
      <4> QED BY <2>2, <4>1
    <3>3. sender \in [sending : BOOLEAN, spp : Spps, timer : Nat] /\ sender.timer <= sender.spp
      BY <2>1, Sizes
    <3>4. flight \in Seq(0 .. Jitter)
      BY <2>2, EmptySeq
    <3>5. heard \in [flowing : BOOLEAN, made_up : Nat, lost : Nat]
      BY <2>2 DEF Silent
    <3> QED BY <2>2, <3>1, <3>2, <3>3, <3>4, <3>5 DEF PlayTypeInv
  <2>4. StaysStereo
    <3>1. Channels * 0 = 0 /\ (Channels * 0) % Channels = 0
      BY Sizes, Quotient
    <3> QED BY <2>2, <3>1 DEF StaysStereo
  <2>5. FlightInv /\ FlowInv
    BY <2>1, <2>2 DEF FlightInv, FlowInv, Silent
  <2>6. StretchIsBounded
    BY <2>2, Sizes DEF StretchIsBounded, Silent
  <2> QED BY <2>3, <2>4, <2>5, <2>6 DEF PlayInv
<1> QED BY <1>1, PlayNextInv, PTL DEF PlaybackSpec

(* Whole frames stay whole frames in the stream buffer, for any number of  *)
(* channels and any sizes of it, of the packets and of the reads that have *)
(* whole frames themselves (aes67_audio_slot_write, on_i2s_tx_sent_sbuf,   *)
(* rx_task_func, playback_task).                                           *)
THEOREM StereoIsKept == PlaybackSpec => []StaysStereo
<1>1. PlayInv => StaysStereo
  BY DEF PlayInv
<1> QED BY <1>1, PlaybackInvariant, PTL

(* No stream is stretched by more than a descriptor, the jitter and what   *)
(* was lost, however long it lasts, if the buffer has room for them and    *)
(* two packets (on_i2s_tx_sent_sbuf).                                      *)
THEOREM UnderrunsEnd == PlaybackSpec => []StretchIsBounded
<1>1. PlayInv => StretchIsBounded
  BY DEF PlayInv
<1> QED BY <1>1, PlaybackInvariant, PTL
==============================================================================
