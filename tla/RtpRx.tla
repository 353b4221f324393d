-------------------------------- MODULE RtpRx --------------------------------
(***************************************************************************)
(* RTP reception (aes67_rtp.c): how rx_task_func assigns a packet to a     *)
(* sink, locks sinks to the SSRCs they hear and accounts for lost packets. *)
(*                                                                         *)
(* All sinks listen on one socket, which receives every multicast group    *)
(* any of them joined.  The network may lose, duplicate and reorder.       *)
(* Every sink the session adds has config.ssrc = 0: it locks to the first  *)
(* SSRC it hears.                                                          *)
(***************************************************************************)
EXTENDS Integers, FiniteSets, FiniteSetsExt

CONSTANTS
  Slots,    \* engine->streams[]: 1 .. AES67_MAX_STREAMS
  Senders,  \* remote senders: [ssrc, group, pt], SSRCs distinct and not 0
  Own,      \* the SSRC of this device's source, whose packets loop back
  Groups,   \* multicast groups of the sinks
  Pt,       \* the payload type in the sinks' SDPs
  SeqMod,   \* 2^16
  FirstSeq, \* the first number a sender uses
  MaxSend,  \* packets each sender sends: bounds the model
  MaxAir,   \* packets of a sender under way: bounds the reordering
  MaxDup    \* packets that are duplicated: bounds the model

ASSUME RtpRxAssumption ==
  /\ Slots \subseteq Nat
  /\ SeqMod \in Nat /\ SeqMod % 2 = 0 /\ FirstSeq \in 0 .. SeqMod - 1
  /\ MaxSend \in [Senders -> 0 .. (SeqMod \div 2) - 1]   \* no gap reaches half the range
  /\ \A s \in Senders : s.ssrc # 0 /\ s.ssrc # Own
  /\ \A s, t \in Senders : s.ssrc = t.ssrc => s = t

VARIABLES
  streams,  \* the sinks: see Sink, or None
  next,     \* per sender: packets sent so far
  air,      \* packets under way: [from, n, short], n counts without wrapping
  dups      \* packets duplicated so far

vars == <<streams, next, air, dups>>

None == [kind |-> "none"]

(* A sink right after aes67_rtp_stream_add, with its history: the senders  *)
(* it accepted packets from, the first and the highest number it accounted *)
(* for, the numbers seen since, and whether they came in order.            *)
Sink(group) ==
  [kind |-> "sink", group |-> group, ssrc |-> 0, first_packet |-> TRUE,
   packets_received |-> 0, last_seq |-> 0, packets_lost |-> 0, seq_error |-> FALSE,
   heard |-> {}, seen |-> {}, last |-> 0, ordered |-> TRUE]

Sinks == {i \in Slots : streams[i].kind = "sink"}
Wire(n) == (FirstSeq + n) % SeqMod

Init ==
  /\ streams = [i \in Slots |-> None]
  /\ next = [s \in Senders |-> 0]
  /\ air = {} /\ dups = 0

------------------------------------------------------------------------------
(* A definition whose name extends the name of the one that follows it is  *)
(* a mutant of it: the bug that a property below must notice.              *)

LowestOf(S) == CHOOSE i \in S : \A j \in S : i <= j

(* find_sink_stream: the sink that is locked to the SSRC, or else the      *)
(* first one that is not locked yet.                                       *)
LockedTo(ssrc) == {i \in Sinks : streams[i].ssrc = ssrc}
Unlocked       == {i \in Sinks : streams[i].first_packet}

FindSinkUnlockedFirst(ssrc) == IF Unlocked # {} THEN Unlocked ELSE LockedTo(ssrc)

FindSink(ssrc) == IF LockedTo(ssrc) # {} THEN LockedTo(ssrc) ELSE Unlocked

Lock(k, ssrc) == [k EXCEPT !.ssrc = ssrc, !.first_packet = FALSE]

SignedNoWrap(x) == x

(* (int16_t) of a difference of 16-bit numbers *)
Signed(x) == LET m == x % SeqMod IN IF m >= SeqMod \div 2 THEN m - SeqMod ELSE m

(* How far a packet is ahead of the one expected; 0 if it is the one. *)
Gap(k, seq) == Signed(seq - ((k.last_seq + 1) % SeqMod))

SequenceIgnoresLate(k, seq) ==
  LET gap == Gap(k, seq) IN
  IF k.packets_received > 0 /\ gap > 0
  THEN [k EXCEPT !.packets_lost = @ + gap, !.seq_error = TRUE, !.last_seq = seq]
  ELSE [k EXCEPT !.last_seq = seq]

(* The continuity check, which starts with the second packet; a late one   *)
(* is an error but no loss, and becomes the one the next is compared with. *)
Sequence(k, seq) ==
  LET gap  == Gap(k, seq)
      lost == IF gap > 0 THEN gap ELSE 0
  IN  IF k.packets_received > 0 /\ gap # 0
      THEN [k EXCEPT !.packets_lost = @ + lost, !.seq_error = TRUE, !.last_seq = seq]
      ELSE [k EXCEPT !.last_seq = seq]

(* A payload shorter than a frame is not counted as received. *)
Receive(k, short) == IF short THEN k ELSE [k EXCEPT !.packets_received = @ + 1]

(* The history of a packet that passed the checks: it counts from the      *)
(* first whole packet on.                                                  *)
Record(k, p) ==
  IF k.packets_received = 0 /\ p.short THEN [k EXCEPT !.heard = @ \cup {p.from}]
  ELSE [k EXCEPT !.heard = @ \cup {p.from}, !.seen = @ \cup {p.n}, !.last = p.n,
                 !.ordered = @ /\ (k.seen = {} \/ p.n > k.last)]

------------------------------------------------------------------------------
(* aes67_rtp_stream_add and aes67_rtp_stream_remove of a sink. *)
AddSink(i, group) ==
  /\ streams[i] = None /\ \A j \in Slots \ Sinks : i <= j
  /\ streams' = [streams EXCEPT ![i] = Sink(group)]
  /\ UNCHANGED <<next, air, dups>>

RemoveSink(i) ==
  /\ i \in Sinks
  /\ streams' = [streams EXCEPT ![i] = None]
  /\ UNCHANGED <<next, air, dups>>

(* One pass of rx_task_func: packets of this device's own source are       *)
(* skipped, and so are those no sink takes; a wrong payload type is        *)
(* noticed only after the sink was locked.                                 *)
Process(p) ==
  LET found == FindSink(p.from.ssrc) IN
  IF p.from.ssrc = Own \/ found = {} THEN UNCHANGED streams
  ELSE LET i == LowestOf(found)
           k == Lock(streams[i], p.from.ssrc)
       IN  streams' = [streams EXCEPT ![i] =
             IF p.from.pt # Pt THEN k
             ELSE Receive(Sequence(Record(k, p), Wire(p.n)), p.short)]

RxPacket(p) ==
  /\ p \in air
  /\ Process(p)
  /\ air' = air \ {p}
  /\ UNCHANGED <<next, dups>>

RxDuplicate(p) ==
  /\ p \in air /\ dups < MaxDup
  /\ Process(p)
  /\ dups' = dups + 1
  /\ UNCHANGED <<next, air>>

(* This device's packets, when the network loops them back. *)
RxOwn(g) ==
  /\ Process([from |-> [ssrc |-> Own, group |-> g, pt |-> Pt], n |-> 0, short |-> FALSE])
  /\ UNCHANGED <<next, air, dups>>

Send(s, short) ==
  /\ next[s] < MaxSend[s]
  /\ Cardinality({p \in air : p.from = s}) < MaxAir
  /\ air' = air \cup {[from |-> s, n |-> next[s], short |-> short]}
  /\ next' = [next EXCEPT ![s] = @ + 1]
  /\ UNCHANGED <<streams, dups>>

Lose(p) ==
  /\ p \in air
  /\ air' = air \ {p}
  /\ UNCHANGED <<streams, next, dups>>

Next ==
  \/ \E i \in Slots, g \in Groups : AddSink(i, g)
  \/ \E i \in Slots : RemoveSink(i)
  \/ \E p \in air : RxPacket(p)
  \/ \E p \in air : RxDuplicate(p)
  \/ \E g \in Groups : RxOwn(g)
  \/ \E s \in Senders, short \in BOOLEAN : Send(s, short)
  \/ \E p \in air : Lose(p)

Spec == Init /\ [][Next]_vars

------------------------------------------------------------------------------
(* A sink that locked to a sender plays that sender only, and no sender is *)
(* split between two sinks, in whatever order sinks come and go and        *)
(* packets arrive (find_sink_stream).  This device's own packets are never *)
(* played.                                                                 *)
OneSinkPerSender ==
  /\ \A i \in Sinks : Cardinality(streams[i].heard) <= 1
  /\ \A i, j \in Sinks : i # j => streams[i].heard \cap streams[j].heard = {}
  /\ \A i \in Sinks : \A s \in streams[i].heard : s.ssrc = streams[i].ssrc

Missing(k) == Max(k.seen) - Min(k.seen) + 1 - Cardinality(k.seen)

(* packets_lost never hides a loss, although reordering and duplicates may *)
(* inflate it, and it is exact while packets arrive in order, across the   *)
(* wrap of the 16-bit sequence number.                                     *)
LossIsCounted ==
  \A i \in Sinks : LET k == streams[i] IN
    k.seen # {} => /\ k.ordered => k.packets_lost = Missing(k)
                   /\ Max(k.seen) = k.last => k.packets_lost >= Missing(k)

(* A sink that never flagged AES67_RTP_STATUS_SEQ_ERROR received every     *)
(* packet of its stream once and in order.                                 *)
NoErrorMeansIntact ==
  \A i \in Sinks : LET k == streams[i] IN
    k.seen # {} /\ ~k.seq_error => k.ordered /\ Missing(k) = 0 /\ k.packets_lost = 0

(* The comment of find_sink_stream: packets match "by SSRC or dest addr".  *)
(* A sink then plays only what was sent to the group it joined.            *)
HeardIsAddressed ==
  \A i \in Sinks, s \in Senders : s \in streams[i].heard => s.group = streams[i].group
=============================================================================
