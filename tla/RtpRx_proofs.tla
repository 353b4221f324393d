----------------------------- MODULE RtpRx_proofs -----------------------------
(***************************************************************************)
(* Proofs about RtpRx for any number of sinks and senders, any payload     *)
(* types and any loss, duplication and reordering: no sink plays two       *)
(* senders, no sender is split between two sinks, and no loss is hidden.   *)
(*                                                                         *)
(* That it was played is not what keeps a sender at its sink: a packet     *)
(* with a wrong payload type locks a sink, too, before it is thrown away.  *)
(* So the invariant is about the SSRCs, which are distinct once they are   *)
(* not 0, and find_sink_stream finds a locked sink before an unlocked one. *)
(*                                                                         *)
(* That packets_lost never hides a loss needs more than its definition:    *)
(* the invariant is that it covers what is missing below the packet a sink *)
(* took last, wherever that packet is, and exactly so while they come in   *)
(* order.  A packet that jumps ahead is charged for all it leaves out; one *)
(* that is late leaves nothing more out.                                   *)
(*                                                                         *)
(* What the conversions of the payload keep of the samples is proved at    *)
(* the end, for every number of samples.                                   *)
(***************************************************************************)
EXTENDS RtpRx, Convert, FiniteSetTheorems, WellFoundedInduction, TLAPS

Fields == {"kind", "group", "ssrc", "first_packet", "packets_received", "last_seq", "packets_lost",
           "seq_error", "heard", "seen", "last", "ordered"}
IsSink(k) == DOMAIN k = Fields /\ k.kind = "sink"

TypeInv ==
  /\ streams = [i \in Slots |-> streams[i]]
  /\ \A i \in Slots : streams[i] = None \/ IsSink(streams[i])
  /\ \A p \in air : p.from \in Senders

LockInv ==
  /\ \A i \in Sinks : streams[i].first_packet => streams[i].heard = {}
  /\ \A i \in Sinks : \A s \in streams[i].heard : s \in Senders /\ s.ssrc = streams[i].ssrc
  /\ \A i, j \in Sinks : i # j /\ streams[i].ssrc = streams[j].ssrc => streams[i].ssrc = 0

Inv == TypeInv /\ LockInv

------------------------------------------------------------------------------
(* What a packet does to the sink that takes it. *)
Kept(k, u) ==
  /\ IsSink(u)
  /\ u.ssrc = k.ssrc /\ u.first_packet = k.first_packet /\ u.heard = k.heard

LEMMA LockKeeps ==
  ASSUME NEW k, NEW ssrc, IsSink(k)
  PROVE  /\ IsSink(Lock(k, ssrc)) /\ Lock(k, ssrc).ssrc = ssrc
         /\ Lock(k, ssrc).first_packet = FALSE /\ Lock(k, ssrc).heard = k.heard
<1>1. Lock(k, ssrc) = [[k EXCEPT !.ssrc = ssrc] EXCEPT !.first_packet = FALSE]
  BY Zenon DEF Lock
<1> QED BY <1>1 DEF IsSink, Fields

LEMMA ReceiveKeeps ==
  ASSUME NEW k, NEW short, IsSink(k)
  PROVE  Kept(k, Receive(k, short))
BY DEF Receive, Kept, IsSink, Fields

LEMMA SequenceKeeps ==
  ASSUME NEW k, NEW seq, IsSink(k)
  PROVE  Kept(k, Sequence(k, seq))
<1> DEFINE gap == Gap(k, seq)
           lost == IF gap > 0 THEN gap ELSE 0
<1>1. Sequence(k, seq) =
        IF k.packets_received > 0 /\ gap # 0
        THEN [[[k EXCEPT !.packets_lost = k.packets_lost + lost] EXCEPT !.seq_error = TRUE]
                EXCEPT !.last_seq = seq]
        ELSE [k EXCEPT !.last_seq = seq]
  BY Zenon DEF Sequence
<1> HIDE DEF gap, lost
<1> QED BY <1>1 DEF Kept, IsSink, Fields

LEMMA RecordKeeps ==
  ASSUME NEW k, NEW p, IsSink(k)
  PROVE  /\ IsSink(Record(k, p)) /\ Record(k, p).ssrc = k.ssrc
         /\ Record(k, p).first_packet = k.first_packet
         /\ Record(k, p).heard = k.heard \cup {p.from}
<1>1. PICK o : Record(k, p) =
        IF k.packets_received = 0 /\ p.short THEN [k EXCEPT !.heard = k.heard \cup {p.from}]
        ELSE [[[[k EXCEPT !.heard = k.heard \cup {p.from}] EXCEPT !.seen = k.seen \cup {p.n}]
                EXCEPT !.last = p.n] EXCEPT !.ordered = o]
  BY Zenon DEF Record
<1> QED BY <1>1 DEF IsSink, Fields

LEMMA LowestIsMember ==
  ASSUME NEW S \in SUBSET Slots, S # {}
  PROVE  LowestOf(S) \in S
<1>1. S \subseteq Nat
  BY RtpRxAssumption
<1>2. \E i \in S : \A j \in S : i <= j
  <2>1. PICK i \in S : \A j \in S : ~(<<j, i>> \in OpToRel(<, Nat))
    BY <1>1, NatLessThanWellFounded, WFMin
  <2>2. ASSUME NEW j \in S
        PROVE  i <= j
    <3>1. j < i => <<j, i>> \in OpToRel(<, Nat)
      BY <1>1 DEF OpToRel
    <3>2. ~(j < i)
      BY <2>1, <3>1
    <3> QED BY <1>1, <3>2
  <2> QED BY <2>2
<1> QED BY <1>2 DEF LowestOf

------------------------------------------------------------------------------
(* The sink that find_sink_stream gives a packet to, if any. *)
Taken(k, p) ==
  IF p.from.pt # Pt THEN Lock(k, p.from.ssrc)
  ELSE Receive(Sequence(Record(Lock(k, p.from.ssrc), p), Wire(p.n)), p.short)

TakenBy(i, p) ==
  /\ p.from \in Senders /\ p.from.ssrc # 0 /\ p.from.ssrc # Own
  /\ streams[i].ssrc = p.from.ssrc \/ (streams[i].first_packet /\ LockedTo(p.from.ssrc) = {})
  /\ streams' = [streams EXCEPT ![i] = Taken(streams[i], p)]

LEMMA ProcessTakes ==
  ASSUME NEW p, p.from.ssrc # Own => p.from \in Senders, Process(p)
  PROVE  streams' = streams \/ \E i \in Sinks : TakenBy(i, p)
<1> DEFINE ssrc == p.from.ssrc
           found == FindSink(ssrc)
           i == LowestOf(found)
<1>1. CASE ssrc = Own \/ found = {}
  BY <1>1 DEF Process
<1>2. CASE ssrc # Own /\ found # {}
  <2>1. streams' = [streams EXCEPT ![i] = Taken(streams[i], p)]
    BY <1>2 DEF Process, Taken
  <2>2. p.from \in Senders /\ ssrc # 0
    BY <1>2, RtpRxAssumption
  <2>3. /\ i \in Sinks
        /\ streams[i].ssrc = ssrc \/ (streams[i].first_packet /\ LockedTo(ssrc) = {})
    <3>1. found \in SUBSET Slots
      BY DEF FindSink, LockedTo, Unlocked, Sinks
    <3>2. i \in found
      <4> HIDE DEF found
      <4> QED BY <1>2, <3>1, LowestIsMember
    <3>3. CASE LockedTo(ssrc) # {}
      <4>1. found = LockedTo(ssrc)
        BY <3>3 DEF FindSink
      <4> HIDE DEF i
      <4> QED BY <3>2, <4>1 DEF LockedTo
    <3>4. CASE LockedTo(ssrc) = {}
      <4>1. found = Unlocked
        BY <3>4 DEF FindSink
      <4> HIDE DEF i
      <4> QED BY <3>2, <3>4, <4>1 DEF Unlocked
    <3> QED BY <3>3, <3>4
  <2> HIDE DEF i
  <2>4. TakenBy(i, p)
    BY <1>2, <2>1, <2>2, <2>3 DEF TakenBy
  <2> QED BY <2>3, <2>4
<1> QED BY <1>1, <1>2

LEMMA ProcessInv ==
  ASSUME Inv, NEW p, p.from.ssrc # Own => p.from \in Senders, Process(p)
  PROVE  streams' = [i \in Slots |-> streams'[i]] /\ LockInv'
         /\ \A i \in Slots : streams'[i] = None \/ IsSink(streams'[i])
<1> USE DEF Inv
<1>1. CASE streams' = streams
  BY <1>1 DEF TypeInv, LockInv, Sinks
<1>2. ASSUME NEW i \in Sinks, TakenBy(i, p)
      PROVE  streams' = [j \in Slots |-> streams'[j]] /\ LockInv'
             /\ \A j \in Slots : streams'[j] = None \/ IsSink(streams'[j])
  <2> DEFINE ssrc == p.from.ssrc
             k == Lock(streams[i], ssrc)
             u == Taken(streams[i], p)
  <2>1. streams' = [streams EXCEPT ![i] = u]
    BY <1>2 DEF TakenBy
  <2>2. p.from \in Senders /\ ssrc # 0
    BY <1>2 DEF TakenBy
  <2>3. /\ i \in Sinks
        /\ streams[i].ssrc = ssrc \/ (streams[i].first_packet /\ LockedTo(ssrc) = {})
    BY <1>2 DEF TakenBy
  <2>4. IsSink(streams[i])
    BY <2>3 DEF TypeInv, Sinks, None
  <2>5. /\ IsSink(k) /\ k.ssrc = ssrc /\ k.first_packet = FALSE
        /\ k.heard = streams[i].heard
    BY <2>4, LockKeeps
  <2> HIDE DEF k
  <2>6. /\ IsSink(u) /\ u.ssrc = ssrc /\ u.first_packet = FALSE
        /\ u.heard \subseteq streams[i].heard \cup {p.from}
    <3>1. CASE p.from.pt # Pt
      <4>1. u = k
        BY <3>1 DEF Taken, k
      <4> QED BY <2>5, <4>1
    <3>2. CASE p.from.pt = Pt
      <4> DEFINE r == Record(k, p)
                 q == Sequence(r, Wire(p.n))
      <4>1. /\ IsSink(r) /\ r.ssrc = ssrc /\ r.first_packet = FALSE
            /\ r.heard = streams[i].heard \cup {p.from}
        BY <2>5, RecordKeeps
      <4>2. Kept(r, q)
        BY <4>1, SequenceKeeps
      <4>3. Kept(q, Receive(q, p.short))
        BY <4>2, ReceiveKeeps DEF Kept
      <4> HIDE DEF r, q
      <4>4. Kept(q, u)
        BY <3>2, <4>3 DEF Taken, r, q, k
      <4> QED BY <4>1, <4>2, <4>4 DEF Kept
    <3> QED BY <3>1, <3>2
  <2> HIDE DEF u
  <2>7. /\ streams' = [j \in Slots |-> streams'[j]]
        /\ streams'[i] = u
        /\ \A j \in Slots \ {i} : streams'[j] = streams[j]
        /\ i \in Slots
    BY <2>1, <2>3 DEF TypeInv, Sinks
  <2>8. Sinks' = Sinks
    BY <2>3, <2>6, <2>7 DEF Sinks, IsSink
  <2>9. \A s \in streams[i].heard : s \in Senders /\ s.ssrc = ssrc
    BY <2>2, <2>3 DEF LockInv
  <2>10. \A j \in Sinks \ {i} : streams[j].ssrc # ssrc
    BY <2>2, <2>3 DEF LockInv, LockedTo
  <2>11. LockInv'
    <3>1. \A j \in Sinks : streams'[j].first_packet => streams'[j].heard = {}
      BY <2>6, <2>7 DEF LockInv, Sinks
    <3>2. \A j \in Sinks : \A s \in streams'[j].heard : s \in Senders /\ s.ssrc = streams'[j].ssrc
      BY <2>2, <2>6, <2>7, <2>9 DEF LockInv, Sinks
    <3>3. \A j, l \in Sinks : j # l /\ streams'[j].ssrc = streams'[l].ssrc => streams'[j].ssrc = 0
      BY <2>6, <2>7, <2>10 DEF LockInv, Sinks
    <3> QED BY <2>8, <3>1, <3>2, <3>3 DEF LockInv
  <2> QED BY <2>6, <2>7, <2>11 DEF TypeInv
<1> QED BY <1>1, <1>2, ProcessTakes

LEMMA RxNextInv == Inv /\ [Next]_vars => Inv'
<1> SUFFICES ASSUME Inv, [Next]_vars
             PROVE  Inv'
  OBVIOUS
<1> USE DEF Inv
<1>1. ASSUME NEW i \in Slots, NEW g \in Groups, AddSink(i, g)
      PROVE  Inv'
  <2>1. /\ streams' = [streams EXCEPT ![i] = Sink(g)] /\ air' = air
        /\ streams[i] = None
    BY <1>1 DEF AddSink
  <2>2. /\ IsSink(Sink(g)) /\ Sink(g).ssrc = 0 /\ Sink(g).heard = {}
    BY DEF Sink, IsSink, Fields
  <2>3. TypeInv'
    BY <2>1, <2>2 DEF TypeInv
  <2>4. Sinks' = Sinks \cup {i} /\ i \notin Sinks
    BY <2>1, <2>2 DEF TypeInv, Sinks, IsSink, None
  <2>5. streams'[i] = Sink(g) /\ \A j \in Sinks : streams'[j] = streams[j]
    BY <2>1, <2>4 DEF TypeInv, Sinks
  <2>6. LockInv'
    BY <2>2, <2>4, <2>5 DEF LockInv
  <2> QED BY <2>3, <2>6
<1>2. ASSUME NEW i \in Slots, RemoveSink(i)
      PROVE  Inv'
  <2>1. streams' = [streams EXCEPT ![i] = None] /\ air' = air
    BY <1>2 DEF RemoveSink
  <2>2. TypeInv'
    BY <2>1 DEF TypeInv
  <2>3. Sinks' = Sinks \ {i} /\ \A j \in Sinks' : streams'[j] = streams[j]
    BY <2>1 DEF TypeInv, Sinks, None
  <2>4. LockInv'
    BY <2>3 DEF LockInv
  <2> QED BY <2>2, <2>4
<1>3. ASSUME NEW p \in air, RxPacket(p) \/ RxDuplicate(p)
      PROVE  Inv'
  <2>1. p.from \in Senders /\ Process(p) /\ air' \subseteq air
    BY <1>3 DEF RxPacket, RxDuplicate, TypeInv
  <2> QED BY <2>1, ProcessInv DEF TypeInv
<1>4. ASSUME NEW g \in Groups, RxOwn(g)
      PROVE  Inv'
  <2> DEFINE p == [from |-> [ssrc |-> Own, group |-> g, pt |-> Pt], n |-> 0, short |-> FALSE]
  <2>1. p.from.ssrc = Own /\ Process(p) /\ air' = air
    BY <1>4 DEF RxOwn
  <2> HIDE DEF p
  <2> QED BY <2>1, ProcessInv DEF TypeInv
<1>5. ASSUME NEW s \in Senders, NEW short \in BOOLEAN, Send(s, short)
      PROVE  Inv'
  <2>1. streams' = streams /\ \A p \in air' : p \in air \/ p.from = s
    BY <1>5 DEF Send
  <2> QED BY <2>1 DEF TypeInv, LockInv, Sinks
<1>6. ASSUME NEW p \in air, Lose(p)
      PROVE  Inv'
  <2>1. streams' = streams /\ air' \subseteq air
    BY <1>6 DEF Lose
  <2> QED BY <2>1 DEF TypeInv, LockInv, Sinks
<1>7. ASSUME UNCHANGED vars
      PROVE  Inv'
  BY <1>7 DEF vars, TypeInv, LockInv, Sinks
<1> QED BY <1>1, <1>2, <1>3, <1>4, <1>5, <1>6, <1>7 DEF Next

(* For any number of sinks and senders, each sink plays at most one sender *)
(* and each sender is played by at most one sink (find_sink_stream).       *)
THEOREM SendersAreNotSplit == Spec => []OneSinkPerSender
<1>1. Init => Inv
  BY DEF Init, Inv, TypeInv, LockInv, Sinks, None
<1>2. Inv => OneSinkPerSender
  <2> SUFFICES ASSUME Inv
               PROVE  OneSinkPerSender
    OBVIOUS
  <2> USE DEF Inv, LockInv
  <2>1. ASSUME NEW i \in Sinks
        PROVE  Cardinality(streams[i].heard) <= 1
    <3>1. CASE streams[i].heard = {}
      BY <3>1, FS_EmptySet
    <3>2. ASSUME NEW s \in streams[i].heard
          PROVE  Cardinality(streams[i].heard) <= 1
      <4>1. streams[i].heard = {s}
        <5>1. \A t \in streams[i].heard : t \in Senders /\ t.ssrc = s.ssrc
          BY <3>2
        <5>2. s \in Senders /\ \A t \in Senders : t.ssrc = s.ssrc => t = s
          BY <5>1, <3>2, RtpRxAssumption
        <5> QED BY <5>1, <5>2, <3>2
      <4>2. Cardinality({s}) = 1
        BY FS_Singleton
      <4> QED BY <4>1, <4>2
    <3> QED BY <3>1, <3>2
  <2>2. ASSUME NEW i \in Sinks, NEW j \in Sinks, i # j
        PROVE  streams[i].heard \cap streams[j].heard = {}
    BY <2>2, RtpRxAssumption
  <2> QED BY <2>1, <2>2 DEF OneSinkPerSender
<1> QED BY <1>1, <1>2, RxNextInv, PTL DEF Spec

------------------------------------------------------------------------------
(* Loss.  The numbers a sink has not seen between the first and the last   *)
(* packet it took: one that jumps ahead is charged for all it leaves out,  *)
(* so that what is missing below the last is never more than was counted.  *)
Below(k) == {n \in 0 .. k.last : n \notin k.seen /\ \E m \in k.seen : m < n}

Hist(k) ==
  /\ k.packets_received \in Nat /\ k.packets_lost \in Nat /\ k.last \in Nat
  /\ k.seq_error \in BOOLEAN /\ k.ordered \in BOOLEAN
  /\ \A s \in k.heard : s \in Senders /\ k.seen \subseteq 0 .. MaxSend[s] - 1
  /\ k.heard = {} => k.packets_received = 0
  /\ k.packets_received = 0 =>
       k.seen = {} /\ k.ordered = TRUE /\ k.packets_lost = 0 /\ k.seq_error = FALSE
  /\ k.packets_received > 0 =>
       /\ k.last \in k.seen /\ k.last_seq = Wire(k.last)
       /\ Cardinality(Below(k)) <= k.packets_lost
       /\ k.ordered = TRUE => /\ \A n \in k.seen : n <= k.last
                              /\ Cardinality(Below(k)) = k.packets_lost
  /\ k.seq_error = FALSE => k.ordered = TRUE /\ k.packets_lost = 0

HistInv ==
  /\ \A i \in Sinks : Hist(streams[i])
  /\ next \in [Senders -> Nat]
  /\ \A p \in air : p.n \in Nat /\ p.n < MaxSend[p.from] /\ p.short \in BOOLEAN

------------------------------------------------------------------------------
(* 16-bit numbers. *)
LEMMA Numbers ==
  /\ SeqMod \in Nat \ {0} /\ SeqMod \div 2 \in Nat /\ SeqMod = 2 * (SeqMod \div 2)
  /\ FirstSeq \in 0 .. SeqMod - 1
  /\ \A s \in Senders : MaxSend[s] \in 0 .. (SeqMod \div 2) - 1
BY RtpRxAssumption

LEMMA RestIs ==
  ASSUME NEW x \in Int, NEW q \in Int, NEW r \in 0 .. SeqMod - 1, x = q * SeqMod + r
  PROVE  x % SeqMod = r
<1> DEFINE d == x \div SeqMod
           m == x % SeqMod
<1>1. d \in Int /\ x = d * SeqMod + m
  BY Numbers
<1>2. m \in 0 .. SeqMod - 1
  BY Numbers
<1> HIDE DEF d, m
<1> DEFINE e == d - q
<1>3. e \in Int /\ d = q + e
  BY <1>1
<1>4. d * SeqMod = q * SeqMod + e * SeqMod
  BY <1>3, Numbers, Z3
<1> HIDE DEF e
<1>5. e >= 1 => e * SeqMod >= SeqMod
  BY <1>3, Numbers, Z3
<1>6. e <= -1 => e * SeqMod <= -SeqMod
  BY <1>3, Numbers, Z3
<1>7. e * SeqMod = r - m /\ e * SeqMod \in Int
  BY <1>1, <1>2, <1>3, <1>4, Numbers
<1>8. e = 0
  BY <1>2, <1>3, <1>5, <1>6, <1>7, Numbers
<1>9. e * SeqMod = 0
  BY <1>8, Numbers
<1> QED BY <1>2, <1>7, <1>9 DEF m

LEMMA RestOf ==
  ASSUME NEW x \in Int
  PROVE  x % SeqMod \in 0 .. SeqMod - 1 /\ \E q \in Int : x = q * SeqMod + (x % SeqMod)
<1>1. x \div SeqMod \in Int /\ x = (x \div SeqMod) * SeqMod + (x % SeqMod)
  BY Numbers
<1>2. x % SeqMod \in 0 .. SeqMod - 1
  BY Numbers
<1> QED BY <1>1, <1>2

(* The signed difference of two numbers on the wire is the difference of   *)
(* the numbers they stand for, if these are not half the range apart.      *)
LEMMA GapIs ==
  ASSUME NEW k, NEW last \in Nat, NEW n \in Nat, k.last_seq = Wire(last),
         n - last - 1 < SeqMod \div 2, last + 1 - n <= SeqMod \div 2
  PROVE  Gap(k, Wire(n)) = n - last - 1
<1> DEFINE a == FirstSeq + n
           b == FirstSeq + last
           x == Wire(n)
           y == (Wire(last) + 1) % SeqMod
<1>8. /\ FirstSeq \in Int /\ a \in Int /\ b \in Int
      /\ x = a % SeqMod /\ Wire(last) = b % SeqMod
  BY Numbers DEF Wire
<1> HIDE DEF a, b, x
<1>1. PICK qa \in Int : a = qa * SeqMod + x /\ x \in 0 .. SeqMod - 1
  <2>1. a % SeqMod \in 0 .. SeqMod - 1 /\ \E z \in Int : a = z * SeqMod + (a % SeqMod)
    BY <1>8, RestOf
  <2> QED BY <1>8, <2>1
<1>2. PICK qb \in Int : b = qb * SeqMod + Wire(last) /\ Wire(last) \in 0 .. SeqMod - 1
  <2>1. b % SeqMod \in 0 .. SeqMod - 1 /\ \E z \in Int : b = z * SeqMod + (b % SeqMod)
    BY <1>8, RestOf
  <2> QED BY <1>8, <2>1
<1>3. PICK qc \in Int : Wire(last) + 1 = qc * SeqMod + y /\ y \in 0 .. SeqMod - 1
  BY <1>2, RestOf
<1> DEFINE d == n - last - 1
           q == qb + qc - qa
<1>4. x - y = q * SeqMod + d /\ q \in Int /\ x - y \in Int
  <2> HIDE DEF y
  <2>1. qa * SeqMod \in Int /\ qb * SeqMod \in Int /\ qc * SeqMod \in Int
    BY Numbers
  <2>2. q * SeqMod = qb * SeqMod + qc * SeqMod - qa * SeqMod
    BY Numbers, Z3
  <2>3. b - a = last - n
    BY <1>8 DEF a, b
  <2>4. q \in Int
    OBVIOUS
  <2> DEFINE pa == qa * SeqMod
             pb == qb * SeqMod
             pc == qc * SeqMod
             w == Wire(last)
             z == q * SeqMod
  <2>5. /\ {pa, pb, pc, w, x, y, z, a, b} \subseteq Int
        /\ a = pa + x /\ b = pb + w /\ w + 1 = pc + y /\ z = pb + pc - pa
    BY <1>1, <1>2, <1>3, <1>8, <2>1, <2>2, Numbers
  <2> HIDE DEF pa, pb, pc, w, q, z
  <2>6. x - y = z + d /\ x - y \in Int
    BY <2>3, <2>5
  <2> QED BY <2>4, <2>6 DEF z
<1> HIDE DEF x, y, q
<1>5. d \in Int /\ d < SeqMod \div 2 /\ -d <= SeqMod \div 2
  BY Numbers
<1> HIDE DEF d
<1> DEFINE m == (x - y) % SeqMod
<1>6. CASE d >= 0
  <2>3. d \in 0 .. SeqMod - 1
    BY <1>5, <1>6, Numbers
  <2>1. m = d
    BY <1>4, <2>3, RestIs
  <2>2. Signed(x - y) = d
    BY <1>5, <2>1, Numbers DEF Signed
  <2> QED BY <2>2 DEF Gap, x, y, d
<1>7. CASE d < 0
  <2>1. x - y = (q - 1) * SeqMod + (d + SeqMod)
    <3>1. (q - 1) * SeqMod = q * SeqMod - SeqMod
      BY <1>4, Numbers, Z3
    <3>2. q * SeqMod \in Int
      BY <1>4, Numbers
    <3> QED BY <1>4, <1>5, <3>1, <3>2, Numbers
  <2>2. d + SeqMod \in 0 .. SeqMod - 1 /\ q - 1 \in Int
    BY <1>4, <1>5, <1>7, Numbers
  <2>3. m = d + SeqMod
    BY <1>4, <2>1, <2>2, RestIs
  <2>4. Signed(x - y) = d
    BY <1>5, <2>3, Numbers DEF Signed
  <2> QED BY <2>4 DEF Gap, x, y, d
<1> QED BY <1>5, <1>6, <1>7

------------------------------------------------------------------------------
(* What a packet that passed the checks changes in its sink. *)
LEMMA RecordFields ==
  ASSUME NEW k, NEW p, IsSink(k), k.ordered \in BOOLEAN
  PROVE  LET u == Record(k, p) IN
         /\ IsSink(u) /\ u.heard = k.heard \cup {p.from}
         /\ u.packets_received = k.packets_received /\ u.packets_lost = k.packets_lost
         /\ u.seq_error = k.seq_error /\ u.last_seq = k.last_seq /\ u.ordered \in BOOLEAN
         /\ k.packets_received = 0 /\ p.short =>
              u.seen = k.seen /\ u.last = k.last /\ u.ordered = k.ordered
         /\ ~(k.packets_received = 0 /\ p.short) =>
              /\ u.seen = k.seen \cup {p.n} /\ u.last = p.n
              /\ u.ordered = TRUE <=> k.ordered = TRUE /\ (k.seen = {} \/ p.n > k.last)
<1> DEFINE h == [k EXCEPT !.heard = k.heard \cup {p.from}]
           o == k.ordered /\ (k.seen = {} \/ p.n > k.last)
           v == [h EXCEPT !.seen = k.seen \cup {p.n}]
           w == [v EXCEPT !.last = p.n]
           u == Record(k, p)
<1>1. u = IF k.packets_received = 0 /\ p.short THEN h ELSE [w EXCEPT !.ordered = o]
  BY Zenon DEF Record
<1>2. /\ IsSink(h) /\ h.heard = k.heard \cup {p.from} /\ h.seen = k.seen /\ h.last = k.last
      /\ h.packets_received = k.packets_received /\ h.packets_lost = k.packets_lost
      /\ h.seq_error = k.seq_error /\ h.last_seq = k.last_seq /\ h.ordered = k.ordered
  BY DEF IsSink, Fields
<1>3. o \in BOOLEAN /\ (o = TRUE <=> k.ordered = TRUE /\ (k.seen = {} \/ p.n > k.last))
  BY Zenon
<1> HIDE DEF o, h, u
<1>4. CASE k.packets_received = 0 /\ p.short
  <2>1. u = h
    BY <1>1, <1>4
  <2> QED BY <1>2, <1>4, <2>1 DEF u
<1>5. CASE ~(k.packets_received = 0 /\ p.short)
  <2>1. /\ IsSink(w) /\ w.heard = h.heard /\ w.seen = k.seen \cup {p.n} /\ w.last = p.n
        /\ w.packets_received = h.packets_received /\ w.packets_lost = h.packets_lost
        /\ w.seq_error = h.seq_error /\ w.last_seq = h.last_seq
    BY <1>2 DEF IsSink, Fields
  <2> HIDE DEF w
  <2>2. u = [w EXCEPT !.ordered = o]
    BY <1>1, <1>5
  <2>3. /\ IsSink(u) /\ u.heard = w.heard /\ u.seen = w.seen /\ u.last = w.last
        /\ u.packets_received = w.packets_received /\ u.packets_lost = w.packets_lost
        /\ u.seq_error = w.seq_error /\ u.last_seq = w.last_seq /\ u.ordered = o
    BY <2>1, <2>2 DEF IsSink, Fields
  <2> QED BY <1>2, <1>3, <1>5, <2>1, <2>3 DEF u
<1> QED BY <1>4, <1>5

(* What the continuity check changes. *)
Sequenced(k, seq, gap, u) ==
  /\ IsSink(u) /\ u.heard = k.heard /\ u.seen = k.seen /\ u.last = k.last
  /\ u.ordered = k.ordered /\ u.packets_received = k.packets_received
  /\ u.last_seq = seq
  /\ ~(k.packets_received > 0 /\ gap # 0) =>
       u.packets_lost = k.packets_lost /\ u.seq_error = k.seq_error
  /\ k.packets_received > 0 /\ gap # 0 =>
       /\ u.packets_lost = k.packets_lost + (IF gap > 0 THEN gap ELSE 0)
       /\ u.seq_error = TRUE

LEMMA SequenceFields ==
  ASSUME NEW k, NEW seq, NEW u, NEW gap, IsSink(k), u = Sequence(k, seq), gap = Gap(k, seq)
  PROVE  Sequenced(k, seq, gap, u)
<1> DEFINE lost == IF gap > 0 THEN gap ELSE 0
           v == [k EXCEPT !.packets_lost = k.packets_lost + lost]
           w == [v EXCEPT !.seq_error = TRUE]
<1>1. u = IF k.packets_received > 0 /\ gap # 0 THEN [w EXCEPT !.last_seq = seq]
          ELSE [k EXCEPT !.last_seq = seq]
  BY Zenon DEF Sequence
<1> HIDE DEF lost
<1>2. CASE k.packets_received > 0 /\ gap # 0
  <2>1. /\ IsSink(w) /\ w.heard = k.heard /\ w.seen = k.seen /\ w.last = k.last
        /\ w.ordered = k.ordered /\ w.packets_received = k.packets_received
        /\ w.packets_lost = k.packets_lost + lost /\ w.seq_error = TRUE
    BY DEF IsSink, Fields
  <2> HIDE DEF w
  <2>2. u = [w EXCEPT !.last_seq = seq]
    BY <1>1, <1>2
  <2>3. /\ IsSink(u) /\ u.heard = w.heard /\ u.seen = w.seen /\ u.last = w.last
        /\ u.ordered = w.ordered /\ u.packets_received = w.packets_received
        /\ u.packets_lost = w.packets_lost /\ u.seq_error = w.seq_error /\ u.last_seq = seq
    BY <2>1, <2>2 DEF IsSink, Fields
  <2> QED BY <1>2, <2>1, <2>3 DEF Sequenced, lost
<1>3. CASE ~(k.packets_received > 0 /\ gap # 0)
  <2>1. u = [k EXCEPT !.last_seq = seq]
    BY <1>1, <1>3
  <2>2. /\ IsSink(u) /\ u.heard = k.heard /\ u.seen = k.seen /\ u.last = k.last
        /\ u.ordered = k.ordered /\ u.packets_received = k.packets_received
        /\ u.packets_lost = k.packets_lost /\ u.seq_error = k.seq_error /\ u.last_seq = seq
    BY <2>1 DEF IsSink, Fields
  <2> QED BY <1>3, <2>2 DEF Sequenced
<1> QED BY <1>2, <1>3

LEMMA ReceiveFields ==
  ASSUME NEW k, NEW short \in BOOLEAN, IsSink(k)
  PROVE  LET u == Receive(k, short) IN
         /\ IsSink(u) /\ u.heard = k.heard /\ u.seen = k.seen /\ u.last = k.last
         /\ u.ordered = k.ordered /\ u.last_seq = k.last_seq
         /\ u.packets_lost = k.packets_lost /\ u.seq_error = k.seq_error
         /\ u.packets_received = IF short THEN k.packets_received ELSE k.packets_received + 1
BY DEF Receive, IsSink, Fields

LEMMA LockFields ==
  ASSUME NEW k, NEW ssrc, IsSink(k)
  PROVE  LET u == Lock(k, ssrc) IN
         /\ IsSink(u) /\ u.heard = k.heard /\ u.seen = k.seen /\ u.last = k.last
         /\ u.ordered = k.ordered /\ u.last_seq = k.last_seq
         /\ u.packets_lost = k.packets_lost /\ u.seq_error = k.seq_error
         /\ u.packets_received = k.packets_received
<1>1. Lock(k, ssrc) = [[k EXCEPT !.ssrc = ssrc] EXCEPT !.first_packet = FALSE]
  BY Zenon DEF Lock
<1> QED BY <1>1 DEF IsSink, Fields

------------------------------------------------------------------------------
LEMMA IntervalIsFinite ==
  ASSUME NEW a \in Int, NEW b \in Int
  PROVE  IsFiniteSet(a .. b) /\ Cardinality(a .. b) = IF a > b THEN 0 ELSE b - a + 1
BY FS_Interval

LEMMA BelowIsFinite ==
  ASSUME NEW k, k.last \in Nat
  PROVE  IsFiniteSet(Below(k)) /\ Cardinality(Below(k)) \in Nat
<1>1. Below(k) \subseteq 0 .. k.last
  BY DEF Below
<1>2. IsFiniteSet(0 .. k.last)
  <2>1. 0 \in Int /\ k.last \in Int
    OBVIOUS
  <2> QED BY <2>1, IntervalIsFinite
<1> QED BY <1>1, <1>2, FS_Subset, FS_CardinalityType

(* A packet that is late, or came before, leaves nothing more out. *)
LEMMA LateLeavesOut ==
  ASSUME NEW k, NEW u, NEW n \in Nat, k.last \in Nat, n <= k.last, k.seen \subseteq Nat,
         u.last = n, u.seen = k.seen \cup {n}
  PROVE  Cardinality(Below(u)) <= Cardinality(Below(k))
<1>1. Below(u) \subseteq Below(k)
  BY DEF Below
<1> QED BY <1>1, BelowIsFinite, FS_Subset

(* One that is ahead leaves out what is between the last one and itself. *)
LEMMA AheadLeavesOut ==
  ASSUME NEW k, NEW u, NEW n \in Nat, k.last \in Nat, n > k.last, k.seen \subseteq Nat,
         k.last \in k.seen, u.last = n, u.seen = k.seen \cup {n}
  PROVE  /\ Cardinality(Below(u)) <= Cardinality(Below(k)) + (n - k.last - 1)
         /\ (\A m \in k.seen : m <= k.last) =>
              Cardinality(Below(u)) = Cardinality(Below(k)) + (n - k.last - 1)
<1> DEFINE l == k.last
           skipped == l + 1 .. n - 1
<1>1. IsFiniteSet(skipped) /\ Cardinality(skipped) = n - l - 1
  <2>1. l \in Nat /\ n > l
    OBVIOUS
  <2> HIDE DEF l
  <2>2. l + 1 \in Int /\ n - 1 \in Int
    BY <2>1
  <2>3. IsFiniteSet(skipped) /\ Cardinality(skipped) = IF l + 1 > n - 1 THEN 0
                                                       ELSE (n - 1) - (l + 1) + 1
    BY <2>2, IntervalIsFinite
  <2> HIDE DEF skipped
  <2> QED BY <2>1, <2>3
<1>2. Below(u) \subseteq Below(k) \cup skipped
  BY DEF Below
<1>3. Below(k) \cap skipped = {}
  BY DEF Below
<1>4. (\A m \in k.seen : m <= l) => Below(u) = Below(k) \cup skipped
  BY DEF Below
<1> HIDE DEF skipped, l
<1>5. IsFiniteSet(Below(k)) /\ Cardinality(Below(k)) \in Nat
  BY BelowIsFinite
<1>6. Cardinality({}) = 0
  BY FS_EmptySet
<1>7. /\ IsFiniteSet(Below(k) \cup skipped)
      /\ Cardinality(Below(k) \cup skipped) = Cardinality(Below(k)) + Cardinality(skipped)
                                                - Cardinality({})
  BY <1>1, <1>3, <1>5, FS_Union
<1>8. Cardinality(Below(u)) <= Cardinality(Below(k) \cup skipped)
  BY <1>2, <1>7, FS_Subset
<1>9. Cardinality(skipped) = n - k.last - 1
  BY <1>1 DEF l
<1>10. Cardinality(Below(k) \cup skipped) = Cardinality(Below(k)) + (n - k.last - 1)
  BY <1>5, <1>6, <1>7, <1>9
<1> QED BY <1>4, <1>8, <1>10 DEF l

LEMMA FirstLeavesOut ==
  ASSUME NEW u, u.last \in Nat, u.seen = {u.last}
  PROVE  Cardinality(Below(u)) = 0
<1>1. Below(u) = {}
  BY DEF Below
<1> QED BY <1>1, FS_EmptySet

(* What one packet changes in the history of the sink that takes it. *)
Took(k, p, u) ==
  /\ IsSink(u) /\ u.heard = k.heard \cup {p.from} /\ u.last_seq = Wire(p.n)
  /\ u.packets_received = IF p.short THEN k.packets_received ELSE k.packets_received + 1
  /\ IF k.packets_received = 0 /\ p.short
     THEN u.seen = k.seen /\ u.last = k.last /\ u.ordered = k.ordered
     ELSE /\ u.seen = k.seen \cup {p.n} /\ u.last = p.n /\ u.ordered \in BOOLEAN
          /\ u.ordered = TRUE <=> k.ordered = TRUE /\ (k.seen = {} \/ p.n > k.last)
  /\ LET gap == Gap(k, Wire(p.n)) IN
     IF k.packets_received > 0 /\ gap # 0
     THEN /\ u.packets_lost = k.packets_lost + (IF gap > 0 THEN gap ELSE 0)
          /\ u.seq_error = TRUE
     ELSE u.packets_lost = k.packets_lost /\ u.seq_error = k.seq_error

LEMMA PacketFields ==
  ASSUME NEW k, NEW p, IsSink(k), k.ordered \in BOOLEAN, p.short \in BOOLEAN
  PROVE  Took(k, p, Receive(Sequence(Record(k, p), Wire(p.n)), p.short))
<1>1. PICK r : /\ r = Record(k, p)
               /\ IsSink(r) /\ r.heard = k.heard \cup {p.from}
               /\ r.packets_received = k.packets_received /\ r.packets_lost = k.packets_lost
               /\ r.seq_error = k.seq_error /\ r.last_seq = k.last_seq /\ r.ordered \in BOOLEAN
               /\ k.packets_received = 0 /\ p.short =>
                    r.seen = k.seen /\ r.last = k.last /\ r.ordered = k.ordered
               /\ ~(k.packets_received = 0 /\ p.short) =>
                    /\ r.seen = k.seen \cup {p.n} /\ r.last = p.n
                    /\ r.ordered = TRUE <=> k.ordered = TRUE /\ (k.seen = {} \/ p.n > k.last)
  BY RecordFields
<1>2. PICK gap, seq : seq = Wire(p.n) /\ gap = Gap(k, seq) /\ gap = Gap(r, seq)
  BY <1>1 DEF Gap
<1>3. PICK q : q = Sequence(r, seq)
  OBVIOUS
<1>7. /\ IsSink(q) /\ q.heard = r.heard /\ q.seen = r.seen /\ q.last = r.last
      /\ q.ordered = r.ordered /\ q.packets_received = r.packets_received
      /\ q.last_seq = seq
      /\ ~(r.packets_received > 0 /\ gap # 0) =>
           q.packets_lost = r.packets_lost /\ q.seq_error = r.seq_error
      /\ r.packets_received > 0 /\ gap # 0 =>
           /\ q.packets_lost = r.packets_lost + (IF gap > 0 THEN gap ELSE 0)
           /\ q.seq_error = TRUE
  <2>1. IsSink(r)
    BY <1>1
  <2>2. gap = Gap(r, seq)
    BY <1>2
  <2>3. Sequenced(r, seq, gap, q)
    BY <1>3, <2>1, <2>2, SequenceFields
  <2> QED BY <2>3 DEF Sequenced
<1>4. PICK u : /\ u = Receive(q, p.short)
               /\ IsSink(u) /\ u.heard = q.heard /\ u.seen = q.seen /\ u.last = q.last
               /\ u.ordered = q.ordered /\ u.last_seq = q.last_seq
               /\ u.packets_lost = q.packets_lost /\ u.seq_error = q.seq_error
               /\ u.packets_received = IF p.short THEN q.packets_received
                                       ELSE q.packets_received + 1
  BY <1>7, ReceiveFields
<1>5. Took(k, p, u)
  <2>1. /\ IsSink(u) /\ u.heard = k.heard \cup {p.from} /\ u.last_seq = Wire(p.n)
        /\ u.packets_received = IF p.short THEN k.packets_received ELSE k.packets_received + 1
    BY <1>1, <1>2, <1>7, <1>4
  <2>2. IF k.packets_received = 0 /\ p.short
        THEN u.seen = k.seen /\ u.last = k.last /\ u.ordered = k.ordered
        ELSE /\ u.seen = k.seen \cup {p.n} /\ u.last = p.n /\ u.ordered \in BOOLEAN
             /\ u.ordered = TRUE <=> k.ordered = TRUE /\ (k.seen = {} \/ p.n > k.last)
    BY <1>1, <1>7, <1>4
  <2>3. IF k.packets_received > 0 /\ gap # 0
        THEN /\ u.packets_lost = k.packets_lost + (IF gap > 0 THEN gap ELSE 0)
             /\ u.seq_error = TRUE
        ELSE u.packets_lost = k.packets_lost /\ u.seq_error = k.seq_error
    BY <1>1, <1>7, <1>4
  <2> QED BY <1>2, <2>1, <2>2, <2>3 DEF Took
<1>6. u = Receive(Sequence(Record(k, p), Wire(p.n)), p.short)
  BY <1>1, <1>2, <1>3, <1>4
<1> QED BY <1>5, <1>6

(* A packet of the sender that the sink hears, or of the first one. *)
LEMMA PacketKeepsHist ==
  ASSUME NEW k, NEW p, NEW u, Hist(k), Took(k, p, u), p.from \in Senders, p.short \in BOOLEAN,
         p.n \in Nat, p.n < MaxSend[p.from], \A s \in k.heard : s = p.from
  PROVE  Hist(u)
<1>1. PICK gap : /\ gap = Gap(k, Wire(p.n))
                 /\ ~(k.packets_received > 0 /\ gap # 0) =>
                      u.packets_lost = k.packets_lost /\ u.seq_error = k.seq_error
                 /\ k.packets_received > 0 /\ gap # 0 =>
                      /\ u.packets_lost = k.packets_lost + (IF gap > 0 THEN gap ELSE 0)
                      /\ u.seq_error = TRUE
  BY DEF Took
<1>2. /\ u.heard = k.heard \cup {p.from} /\ u.last_seq = Wire(p.n)
      /\ u.packets_received = IF p.short THEN k.packets_received ELSE k.packets_received + 1
      /\ k.packets_received = 0 /\ p.short =>
           u.seen = k.seen /\ u.last = k.last /\ u.ordered = k.ordered
      /\ ~(k.packets_received = 0 /\ p.short) =>
           /\ u.seen = k.seen \cup {p.n} /\ u.last = p.n /\ u.ordered \in BOOLEAN
           /\ u.ordered = TRUE <=> k.ordered = TRUE /\ (k.seen = {} \/ p.n > k.last)
  BY DEF Took
<1>5. /\ k.packets_received \in Nat /\ k.packets_lost \in Nat /\ k.last \in Nat
      /\ k.seq_error \in BOOLEAN /\ k.ordered \in BOOLEAN
      /\ k.seen \subseteq 0 .. MaxSend[p.from] - 1
      /\ MaxSend[p.from] \in 0 .. (SeqMod \div 2) - 1 /\ SeqMod \div 2 \in Nat
  <2>1. k.heard # {} \/ k.seen = {}
    BY DEF Hist
  <2>2. k.seen \subseteq 0 .. MaxSend[p.from] - 1
    BY <2>1 DEF Hist
  <2> QED BY <2>2, Numbers DEF Hist
<1>6. /\ u.heard # {} /\ \A s \in u.heard : s = p.from
  BY <1>1, <1>2
<1>7. CASE k.packets_received = 0 /\ p.short
  <2>1. /\ u.seen = k.seen /\ u.last = k.last /\ u.ordered = k.ordered
        /\ u.packets_received = 0 /\ u.packets_lost = k.packets_lost
        /\ u.seq_error = k.seq_error
    BY <1>1, <1>2, <1>7
  <2> QED BY <1>5, <1>6, <1>7, <2>1 DEF Hist
<1>8. CASE k.packets_received = 0 /\ ~p.short
  <2>1. k.seen = {} /\ k.ordered = TRUE /\ k.packets_lost = 0 /\ k.seq_error = FALSE
    BY <1>8 DEF Hist
  <2>2. /\ u.seen = {p.n} /\ u.last = p.n /\ u.ordered = TRUE /\ u.last_seq = Wire(p.n)
        /\ u.packets_received = 1 /\ u.packets_lost = 0 /\ u.seq_error = FALSE
    BY <1>1, <1>2, <1>8, <2>1
  <2>3. Cardinality(Below(u)) = 0
    BY <2>2, FirstLeavesOut
  <2>4. u.seen \subseteq 0 .. MaxSend[p.from] - 1
    <3>1. p.n \in 0 .. MaxSend[p.from] - 1
      BY <1>5
    <3> QED BY <2>2, <3>1
  <2>5. u.packets_received > 0 /\ u.last \in u.seen /\ u.last_seq = Wire(u.last)
    BY <2>2
  <2>6. Cardinality(Below(u)) <= u.packets_lost /\ \A m \in u.seen : m <= u.last
    BY <2>2, <2>3
  <2>7. u.packets_received \in Nat /\ u.packets_lost \in Nat /\ u.last \in Nat
    BY <2>2
  <2>9. u.seq_error \in BOOLEAN /\ u.ordered \in BOOLEAN
    BY <2>2
  <2>10. \A s \in u.heard : s \in Senders /\ u.seen \subseteq 0 .. MaxSend[s] - 1
    BY <1>6, <2>4
  <2>8. Cardinality(Below(u)) = u.packets_lost
    BY <2>2, <2>3
  <2> QED BY <1>6, <2>2, <2>5, <2>6, <2>7, <2>8, <2>9, <2>10 DEF Hist
<1>9. CASE k.packets_received > 0
  <2> DEFINE n == p.n
             last == k.last
  <2>1. /\ k.last \in k.seen /\ k.last_seq = Wire(k.last)
        /\ Cardinality(Below(k)) <= k.packets_lost
        /\ k.ordered = TRUE => /\ \A m \in k.seen : m <= k.last
                               /\ Cardinality(Below(k)) = k.packets_lost
        /\ k.seq_error = FALSE => k.ordered = TRUE /\ k.packets_lost = 0
    BY <1>9 DEF Hist
  <2>2. n \in Nat /\ last \in Nat /\ n - last - 1 < SeqMod \div 2 /\ last + 1 - n <= SeqMod \div 2
    BY <1>5, <2>1, Numbers
  <2>3. gap = n - last - 1
    BY <1>1, <2>1, <2>2, GapIs
  <2>4. /\ u.seen = k.seen \cup {n} /\ u.last = n /\ u.last_seq = Wire(n)
        /\ u.ordered \in BOOLEAN /\ (u.ordered = TRUE <=> k.ordered = TRUE /\ n > last)
        /\ u.packets_received \in Nat /\ u.packets_received > 0
        /\ gap = 0 => u.packets_lost = k.packets_lost /\ u.seq_error = k.seq_error
        /\ gap # 0 => /\ u.packets_lost = k.packets_lost + (IF gap > 0 THEN gap ELSE 0)
                      /\ u.seq_error = TRUE
    <3>1. k.seen # {}
      BY <2>1
    <3> QED BY <1>1, <1>2, <1>5, <1>9, <3>1
  <2>5. /\ u.seen \subseteq 0 .. MaxSend[p.from] - 1 /\ u.seen \subseteq Nat /\ k.seen \subseteq Nat
        /\ u.seq_error \in BOOLEAN
    <3>1. n \in 0 .. MaxSend[p.from] - 1
      BY <1>5
    <3>2. u.seen \subseteq 0 .. MaxSend[p.from] - 1 /\ u.seen \subseteq Nat /\ k.seen \subseteq Nat
      BY <1>5, <2>4, <3>1
    <3>3. u.seq_error \in BOOLEAN
      <4>1. CASE gap = 0
        BY <1>5, <2>4, <4>1
      <4>2. CASE gap # 0
        BY <2>4, <4>2
      <4> QED BY <4>1, <4>2
    <3> QED BY <3>2, <3>3
  <2>6. Cardinality(Below(k)) \in Nat /\ Cardinality(Below(u)) \in Nat
    BY <2>2, <2>4, BelowIsFinite
  <2>7. CASE n <= last
    <3>1. Cardinality(Below(u)) <= Cardinality(Below(k))
      BY <2>2, <2>4, <2>5, <2>7, LateLeavesOut
    <3>2. u.packets_lost = k.packets_lost /\ u.seq_error = TRUE /\ u.ordered = FALSE
      BY <1>5, <2>2, <2>3, <2>4, <2>7
    <3>3. Cardinality(Below(u)) <= u.packets_lost
      BY <1>5, <2>1, <2>6, <3>1, <3>2
    <3> QED BY <1>5, <1>6, <2>2, <2>4, <2>5, <3>2, <3>3 DEF Hist
  <2>8. CASE n > last
    <3>1. /\ Cardinality(Below(u)) <= Cardinality(Below(k)) + (n - last - 1)
          /\ (\A m \in k.seen : m <= last) =>
               Cardinality(Below(u)) = Cardinality(Below(k)) + (n - last - 1)
      BY <2>1, <2>2, <2>4, <2>5, <2>8, AheadLeavesOut
    <3>2. u.packets_lost = k.packets_lost + (n - last - 1) /\ u.packets_lost \in Nat
      BY <1>5, <2>2, <2>3, <2>4, <2>8
    <3>3. Cardinality(Below(u)) <= u.packets_lost
      BY <1>5, <2>1, <2>2, <2>6, <3>1, <3>2
    <3>4. ASSUME u.ordered = TRUE
          PROVE  (\A m \in u.seen : m <= u.last) /\ Cardinality(Below(u)) = u.packets_lost
      <4>1. k.ordered = TRUE
        BY <2>4, <3>4
      <4>2. \A m \in k.seen : m \in Nat /\ m <= last
        BY <2>1, <2>5, <4>1
      <4>3. \A m \in u.seen : m <= u.last
        BY <2>2, <2>4, <2>8, <4>2
      <4> QED BY <2>1, <3>1, <3>2, <4>1, <4>2, <4>3
    <3>5. ASSUME u.seq_error = FALSE
          PROVE  u.ordered = TRUE /\ u.packets_lost = 0
      <4>1. gap = 0
        BY <2>4, <3>5
      <4> QED BY <2>1, <2>4, <2>8, <3>5, <4>1
    <3>6. /\ u.last \in Nat /\ u.last \in u.seen /\ u.last_seq = Wire(u.last)
          /\ u.ordered \in BOOLEAN /\ u.packets_received # 0
      BY <2>2, <2>4
    <3>7. \A s \in u.heard : s \in Senders /\ u.seen \subseteq 0 .. MaxSend[s] - 1
      BY <1>6, <2>5
    <3> QED BY <1>6, <2>4, <2>5, <3>2, <3>3, <3>4, <3>5, <3>6, <3>7 DEF Hist
  <2> QED BY <2>2, <2>7, <2>8
<1> QED BY <1>5, <1>7, <1>8, <1>9

LEMMA LockKeepsHist ==
  ASSUME NEW k, NEW ssrc, IsSink(k), Hist(k)
  PROVE  IsSink(Lock(k, ssrc)) /\ Hist(Lock(k, ssrc)) /\ Lock(k, ssrc).heard = k.heard
<1>1. PICK u : u = Lock(k, ssrc)
  OBVIOUS
<1>2. /\ IsSink(u) /\ u.heard = k.heard /\ u.seen = k.seen /\ u.last = k.last
      /\ u.ordered = k.ordered /\ u.last_seq = k.last_seq
      /\ u.packets_lost = k.packets_lost /\ u.seq_error = k.seq_error
      /\ u.packets_received = k.packets_received
  BY <1>1, LockFields
<1>3. Below(u) = Below(k)
  BY <1>2 DEF Below
<1>4. Hist(u)
  BY <1>2, <1>3 DEF Hist
<1> QED BY <1>1, <1>2, <1>4

LEMMA ProcessKeepsHist ==
  ASSUME Inv, HistInv, NEW p, Process(p),
         p.from.ssrc # Own => /\ p.from \in Senders /\ p.short \in BOOLEAN
                              /\ p.n \in Nat /\ p.n < MaxSend[p.from]
  PROVE  \A i \in Sinks' : Hist(streams'[i])
<1>1. CASE streams' = streams
  BY <1>1 DEF HistInv, Sinks
<1>2. ASSUME NEW i \in Sinks, TakenBy(i, p)
      PROVE  \A j \in Sinks' : Hist(streams'[j])
  <2>1. PICK k, u : k = Lock(streams[i], p.from.ssrc) /\ u = Taken(streams[i], p)
    OBVIOUS
  <2>2. IsSink(streams[i]) /\ Hist(streams[i]) /\ i \in Slots
    BY DEF Inv, TypeInv, HistInv, Sinks, None
  <2>3. IsSink(k) /\ Hist(k) /\ k.heard = streams[i].heard
    BY <2>1, <2>2, LockKeepsHist
  <2>4. /\ p.from \in Senders /\ p.short \in BOOLEAN
        /\ p.n \in Nat /\ p.n < MaxSend[p.from]
    BY <1>2 DEF TakenBy
  <2>5. \A s \in k.heard : s = p.from
    <3>1. \A s \in streams[i].heard : s \in Senders /\ s.ssrc = p.from.ssrc
      BY <1>2 DEF Inv, LockInv, TakenBy
    <3> QED BY <2>3, <2>4, <3>1, RtpRxAssumption
  <2>6. Hist(u)
    <3>1. CASE p.from.pt # Pt
      <4>1. u = k
        BY <2>1, <3>1 DEF Taken
      <4> QED BY <2>3, <4>1
    <3>2. CASE p.from.pt = Pt
      <4>1. u = Receive(Sequence(Record(k, p), Wire(p.n)), p.short)
        BY <2>1, <3>2 DEF Taken
      <4>2. k.ordered \in BOOLEAN
        BY <2>3 DEF Hist
      <4>3. Took(k, p, u)
        BY <2>3, <2>4, <4>1, <4>2, PacketFields
      <4> QED BY <2>3, <2>4, <2>5, <4>3, PacketKeepsHist
    <3> QED BY <3>1, <3>2
  <2>7. streams' = [streams EXCEPT ![i] = u]
    BY <1>2, <2>1 DEF TakenBy
  <2>8. streams'[i] = u /\ \A j \in Slots \ {i} : streams'[j] = streams[j]
    BY <2>2, <2>7 DEF Inv, TypeInv
  <2>9. \A j \in Sinks' : j \in Slots /\ (j = i \/ j \in Sinks)
    BY <2>8 DEF Sinks
  <2> QED BY <2>6, <2>8, <2>9 DEF HistInv
<1> QED BY <1>1, <1>2, ProcessTakes

LEMMA HistNextInv == Inv /\ HistInv /\ [Next]_vars => HistInv'
<1> SUFFICES ASSUME Inv, HistInv, [Next]_vars
             PROVE  HistInv'
  OBVIOUS
<1>1. ASSUME NEW i \in Slots, NEW g \in Groups, AddSink(i, g)
      PROVE  HistInv'
  <2>1. /\ streams' = [streams EXCEPT ![i] = Sink(g)] /\ air' = air /\ next' = next
    BY <1>1 DEF AddSink
  <2>2. Hist(Sink(g))
    BY DEF Sink, Hist
  <2>3. streams'[i] = Sink(g) /\ \A j \in Slots \ {i} : streams'[j] = streams[j]
    BY <2>1 DEF Inv, TypeInv
  <2>4. \A j \in Sinks' : j \in Slots /\ (j = i \/ j \in Sinks)
    BY <2>3 DEF Sinks
  <2> QED BY <2>1, <2>2, <2>3, <2>4 DEF HistInv
<1>2. ASSUME NEW i \in Slots, RemoveSink(i)
      PROVE  HistInv'
  <2>1. streams' = [streams EXCEPT ![i] = None] /\ air' = air /\ next' = next
    BY <1>2 DEF RemoveSink
  <2>2. Sinks' = Sinks \ {i} /\ \A j \in Sinks' : streams'[j] = streams[j]
    BY <2>1 DEF Inv, TypeInv, Sinks, None
  <2> QED BY <2>1, <2>2 DEF HistInv
<1>3. ASSUME NEW p \in air, RxPacket(p) \/ RxDuplicate(p)
      PROVE  HistInv'
  <2>1. Process(p) /\ air' \subseteq air /\ next' = next
    BY <1>3 DEF RxPacket, RxDuplicate
  <2>2. p.from \in Senders /\ p.short \in BOOLEAN /\ p.n \in Nat /\ p.n < MaxSend[p.from]
    BY DEF Inv, TypeInv, HistInv
  <2>3. \A i \in Sinks' : Hist(streams'[i])
    BY <2>1, <2>2, ProcessKeepsHist
  <2> QED BY <2>1, <2>3 DEF HistInv
<1>4. ASSUME NEW g \in Groups, RxOwn(g)
      PROVE  HistInv'
  <2> DEFINE p == [from |-> [ssrc |-> Own, group |-> g, pt |-> Pt], n |-> 0, short |-> FALSE]
  <2>1. p.from.ssrc = Own /\ Process(p) /\ air' = air /\ next' = next
    BY <1>4 DEF RxOwn
  <2> HIDE DEF p
  <2>2. \A i \in Sinks' : Hist(streams'[i])
    BY <2>1, ProcessKeepsHist
  <2> QED BY <2>1, <2>2 DEF HistInv
<1>5. ASSUME NEW s \in Senders, NEW short \in BOOLEAN, Send(s, short)
      PROVE  HistInv'
  <2>1. /\ streams' = streams /\ next' = [next EXCEPT ![s] = @ + 1]
        /\ air' = air \cup {[from |-> s, n |-> next[s], short |-> short]}
        /\ next[s] < MaxSend[s]
    BY <1>5 DEF Send
  <2>2. next[s] \in Nat /\ next' \in [Senders -> Nat]
    BY <2>1 DEF HistInv
  <2>3. \A p \in air' : p.n \in Nat /\ p.n < MaxSend[p.from] /\ p.short \in BOOLEAN
    BY <2>1, <2>2 DEF HistInv
  <2> QED BY <2>1, <2>2, <2>3 DEF HistInv, Sinks
<1>6. ASSUME NEW p \in air, Lose(p)
      PROVE  HistInv'
  <2>1. streams' = streams /\ air' \subseteq air /\ next' = next
    BY <1>6 DEF Lose
  <2> QED BY <2>1 DEF HistInv, Sinks
<1>7. ASSUME UNCHANGED vars
      PROVE  HistInv'
  BY <1>7 DEF vars, HistInv, Sinks
<1> QED BY <1>1, <1>2, <1>3, <1>4, <1>5, <1>6, <1>7 DEF Next

(* Whatever is lost, duplicated and reordered, what a sink has counted as  *)
(* lost covers all that it has not seen below the last packet it took.     *)
THEOREM HistoryInvariant == Spec => [](Inv /\ HistInv)
<1>1. Init => Inv /\ HistInv
  <2>1. Init => Inv
    BY DEF Init, Inv, TypeInv, LockInv, Sinks, None
  <2>2. Init => HistInv
    BY DEF Init, HistInv, Sinks, None
  <2> QED BY <2>1, <2>2
<1> QED BY <1>1, RxNextInv, HistNextInv, PTL DEF Spec

------------------------------------------------------------------------------
(* The extremes of a set of packet numbers. *)
LEMMA MinIs ==
  ASSUME NEW S \in SUBSET Nat, S # {}
  PROVE  Min(S) \in S /\ \A n \in S : Min(S) <= n
<1>1. PICK a \in S : \A n \in S : ~(<<n, a>> \in OpToRel(<, Nat))
  BY NatLessThanWellFounded, WFMin
<1>2. ASSUME NEW n \in S
      PROVE  a <= n
  <2>1. n < a => <<n, a>> \in OpToRel(<, Nat)
    BY DEF OpToRel
  <2>2. ~(n < a)
    BY <1>1, <2>1
  <2> QED BY <2>2
<1> QED BY <1>2 DEF Min

LEMMA MaxIs ==
  ASSUME NEW M \in Nat, NEW S \in SUBSET (0 .. M), S # {}
  PROVE  Max(S) \in S /\ \A n \in S : n <= Max(S)
<1> DEFINE T == {M - n : n \in S}
<1>1. T \in SUBSET Nat /\ T # {}
  <2>1. \A n \in S : n \in Nat /\ M - n \in Nat
    OBVIOUS
  <2>2. T \subseteq Nat
    BY <2>1
  <2>3. \E n \in S : M - n \in T
    OBVIOUS
  <2> QED BY <2>2, <2>3
<1>2. PICK a \in T : \A t \in T : a <= t
  <2> HIDE DEF T
  <2> QED BY <1>1, MinIs
<1>3. PICK x \in S : a = M - x
  BY <1>2
<1>4. ASSUME NEW n \in S
      PROVE  n <= x
  <2>1. M - x <= M - n
    BY <1>2, <1>3
  <2>2. n \in Nat /\ x \in Nat
    OBVIOUS
  <2> QED BY <2>1, <2>2
<1> QED BY <1>4 DEF Max

LEMMA MissingIsBelow ==
  ASSUME NEW k, NEW M \in Nat, k.seen \subseteq 0 .. M, k.last \in k.seen,
         \A n \in k.seen : n <= k.last
  PROVE  Missing(k) = Cardinality(Below(k))
<1> DEFINE a == Min(k.seen)
           S == a .. k.last
<1>1. a \in k.seen /\ a \in Nat /\ \A n \in k.seen : a <= n
  <2>1. k.seen \in SUBSET Nat /\ k.seen # {}
    OBVIOUS
  <2> QED BY <2>1, MinIs
<1>2. Max(k.seen) = k.last
  <2>1. Max(k.seen) \in k.seen /\ \A n \in k.seen : n <= Max(k.seen)
    BY MaxIs
  <2> QED BY <2>1
<1> HIDE DEF a
<1>3. k.seen \subseteq S /\ Below(k) = S \ k.seen /\ S \cap k.seen = k.seen
  BY <1>1 DEF Below
<1>4. IsFiniteSet(S) /\ Cardinality(S) = k.last - a + 1
  <2>1. k.last \in Int /\ a \in Int /\ a <= k.last
    BY <1>1
  <2> QED BY <2>1, IntervalIsFinite
<1> HIDE DEF S
<1>5. Cardinality(S \ k.seen) = Cardinality(S) - Cardinality(S \cap k.seen)
  BY <1>4, FS_Difference
<1>6. Missing(k) = k.last - a + 1 - Cardinality(k.seen)
  BY <1>2 DEF Missing, a
<1>7. Cardinality(Below(k)) = Cardinality(S) - Cardinality(k.seen)
  BY <1>3, <1>5
<1>8. Cardinality(S) = k.last - a + 1
  BY <1>4
<1>9. Cardinality(k.seen) \in Nat
  BY <1>3, <1>4, FS_Subset, FS_CardinalityType
<1>10. k.last \in Int /\ a \in Int
  BY <1>1
<1> QED BY <1>6, <1>7, <1>8, <1>9, <1>10

LEMMA SeenOf ==
  ASSUME Inv, HistInv, NEW i \in Sinks, streams[i].seen # {}
  PROVE  /\ Hist(streams[i]) /\ streams[i].packets_received > 0
         /\ \E M \in Nat : streams[i].seen \subseteq 0 .. M
<1>1. Hist(streams[i])
  BY DEF HistInv
<1>2. streams[i].packets_received > 0 /\ streams[i].heard # {}
  BY <1>1 DEF Hist
<1>3. PICK s \in Senders : streams[i].seen \subseteq 0 .. MaxSend[s] - 1
  BY <1>1, <1>2 DEF Hist
<1>4. MaxSend[s] \in Nat
  BY Numbers
<1>5. streams[i].seen \subseteq 0 .. MaxSend[s]
  BY <1>3, <1>4
<1> QED BY <1>1, <1>2, <1>4, <1>5

(* For any number of senders, any losses, duplicates and reordering of     *)
(* fewer than SeqMod / 2 packets each, and across the wrap of the sequence *)
(* numbers, packets_lost is exact while packets come in order, and never   *)
(* less than what is missing when the last packet is the newest (the       *)
(* continuity check of rx_task_func).                                      *)
THEOREM LossIsAlwaysCounted == Spec => []LossIsCounted
<1>1. Inv /\ HistInv => LossIsCounted
  <2> SUFFICES ASSUME Inv, HistInv, NEW i \in Sinks, streams[i].seen # {}
               PROVE  /\ streams[i].ordered => streams[i].packets_lost = Missing(streams[i])
                      /\ Max(streams[i].seen) = streams[i].last =>
                           streams[i].packets_lost >= Missing(streams[i])
    BY DEF LossIsCounted
  <2>1. PICK k : k = streams[i]
    OBVIOUS
  <2>2. PICK M \in Nat : k.seen \subseteq 0 .. M
    BY <2>1, SeenOf
  <2>3. /\ k.last \in k.seen /\ k.packets_lost \in Nat /\ k.last \in Nat
        /\ Cardinality(Below(k)) <= k.packets_lost
        /\ k.ordered = TRUE => /\ \A n \in k.seen : n <= k.last
                               /\ Cardinality(Below(k)) = k.packets_lost
    BY <2>1, SeenOf DEF Hist
  <2>4. ASSUME k.ordered
        PROVE  k.packets_lost = Missing(k)
    <3>1. k.ordered = TRUE
      BY <2>1, <2>4, SeenOf DEF Hist
    <3> QED BY <2>2, <2>3, <3>1, MissingIsBelow
  <2>5. ASSUME Max(k.seen) = k.last
        PROVE  k.packets_lost >= Missing(k)
    <3>1. k.seen # {} /\ \A n \in k.seen : n <= k.last
      BY <2>1, <2>2, <2>5, MaxIs
    <3>2. Missing(k) = Cardinality(Below(k))
      BY <2>2, <2>3, <3>1, MissingIsBelow
    <3>3. Cardinality(Below(k)) \in Nat
      BY <2>3, BelowIsFinite
    <3> QED BY <2>3, <3>2, <3>3
  <2> QED BY <2>1, <2>4, <2>5
<1> QED BY <1>1, HistoryInvariant, PTL

(* A sink without AES67_RTP_STATUS_SEQ_ERROR got every packet of its       *)
(* stream once and in order, for any number of senders.                    *)
THEOREM NoErrorIsAlwaysIntact == Spec => []NoErrorMeansIntact
<1>1. Inv /\ HistInv => NoErrorMeansIntact
  <2> SUFFICES ASSUME Inv, HistInv, NEW i \in Sinks, streams[i].seen # {},
                      ~streams[i].seq_error
               PROVE  /\ streams[i].ordered /\ Missing(streams[i]) = 0
                      /\ streams[i].packets_lost = 0
    BY DEF NoErrorMeansIntact
  <2>1. PICK k : k = streams[i]
    OBVIOUS
  <2>2. PICK M \in Nat : k.seen \subseteq 0 .. M
    BY <2>1, SeenOf
  <2>3. k.seq_error = FALSE
    BY <2>1, SeenOf DEF Hist
  <2>4. /\ k.last \in k.seen /\ k.ordered = TRUE /\ k.packets_lost = 0
        /\ \A n \in k.seen : n <= k.last
        /\ Cardinality(Below(k)) = k.packets_lost
    BY <2>1, <2>3, SeenOf DEF Hist
  <2>5. Missing(k) = 0
    BY <2>2, <2>4, MissingIsBelow
  <2> QED BY <2>1, <2>4, <2>5
<1> QED BY <1>1, HistoryInvariant, PTL

------------------------------------------------------------------------------
(* Where the packed byte of a sample is found.                             *)
LEMMA PackedIndex ==
  ASSUME NEW n \in Nat, NEW w \in {2, 3, 4}, NEW i \in 1 .. n, NEW b \in 1 .. w
  PROVE  /\ (i - 1) * w + b \in 1 .. n * w
         /\ ((i - 1) * w + b - 1) \div w + 1 = i
         /\ (((i - 1) * w + b - 1) % w) + 1 = b
<1>1. CASE w = 2 BY <1>1, SMT
<1>2. CASE w = 3 BY <1>2, SMT
<1>3. CASE w = 4 BY <1>3, SMT
<1> QED BY <1>1, <1>2, <1>3

LEMMA SampleIndex ==
  ASSUME NEW n \in Nat, NEW w \in {2, 3, 4}, NEW j \in 1 .. n * w
  PROVE  /\ (j - 1) \div w + 1 \in 1 .. n
         /\ ((j - 1) % w) + 1 \in 1 .. w
         /\ ((j - 1) \div w + 1 - 1) * w + (((j - 1) % w) + 1) = j
<1>1. CASE w = 2 BY <1>1, SMT
<1>2. CASE w = 3 BY <1>2, SMT
<1>3. CASE w = 4 BY <1>3, SMT
<1> QED BY <1>1, <1>2, <1>3

LEMMA UnpackedPacked ==
  ASSUME NEW n \in Nat, NEW w \in {2, 3, 4}, NEW src \in [1 .. n -> Samples]
  PROVE  Unpacked(Packed(src, n, w), n, w) = [i \in 1 .. n |-> Truncated(src[i], w)]
<1>1. ASSUME NEW i \in 1 .. n, NEW b \in 1 .. 4, b <= w
      PROVE  Packed(src, n, w)[(i - 1) * w + b] = src[i][b]
  <2>1. b \in 1 .. w
    BY <1>1, SMT
  <2> DEFINE j == (i - 1) * w + b
  <2>2. j \in 1 .. n * w /\ (j - 1) \div w + 1 = i /\ ((j - 1) % w) + 1 = b
    BY <2>1, PackedIndex
  <2> HIDE DEF j
  <2>3. Packed(src, n, w)[j] = src[(j - 1) \div w + 1][((j - 1) % w) + 1]
    BY <2>2 DEF Packed
  <2>4. Packed(src, n, w)[j] = src[i][b]
    BY <2>2, <2>3
  <2> QED BY <2>4 DEF j
<1>2. ASSUME NEW i \in 1 .. n
      PROVE  [b \in 1 .. 4 |-> IF b <= w THEN Packed(src, n, w)[(i - 1) * w + b] ELSE 0]
             = [b \in 1 .. 4 |-> IF b <= w THEN src[i][b] ELSE 0]
  BY <1>1
<1> QED BY <1>2 DEF Unpacked, Truncated

LEMMA PackedUnpacked ==
  ASSUME NEW n \in Nat, NEW w \in {2, 3, 4}, NEW payload \in [1 .. n * w -> Bytes]
  PROVE  Packed(Unpacked(payload, n, w), n, w) = payload
<1>1. ASSUME NEW j \in 1 .. n * w
      PROVE  Unpacked(payload, n, w)[(j - 1) \div w + 1][((j - 1) % w) + 1] = payload[j]
  <2> DEFINE i == (j - 1) \div w + 1
             b == ((j - 1) % w) + 1
  <2>1. i \in 1 .. n /\ b \in 1 .. w /\ (i - 1) * w + b = j
    BY SampleIndex
  <2> HIDE DEF i, b
  <2>2. b \in 1 .. 4 /\ b <= w
    BY <2>1, SMT
  <2>3. Unpacked(payload, n, w)[i][b] = payload[(i - 1) * w + b]
    BY <2>1, <2>2 DEF Unpacked
  <2>4. Unpacked(payload, n, w)[i][b] = payload[j]
    BY <2>1, <2>3
  <2> QED BY <2>4 DEF i, b
<1>2. Packed(Unpacked(payload, n, w), n, w) = [j \in 1 .. n * w |-> payload[j]]
  BY <1>1 DEF Packed
<1> QED BY <1>2

(* Whatever is captured comes out of a packet as it was, to the precision  *)
(* of the format, for every number of samples (aes67_convert.c).           *)
THEOREM EveryAudioSurvives ==
  ASSUME NEW n \in Nat, NEW w \in Nat, NEW src \in [1 .. n -> Samples]
  PROVE  AudioSurvives(src, n, w)
<1>1. CASE w = 2
  BY <1>1, UnpackedPacked
     DEF AudioSurvives, Width, convert_to_net, convert_from_net, to_l16, from_l16
<1>2. CASE w = 4
  BY <1>2, UnpackedPacked
     DEF AudioSurvives, Width, convert_to_net, convert_from_net, to_l32, from_l32
<1>3. CASE w # 2 /\ w # 4
  BY <1>3, UnpackedPacked
     DEF AudioSurvives, Width, convert_to_net, convert_from_net, to_l24, from_l24
<1> QED BY <1>1, <1>2, <1>3

(* A payload of whole frames survives a node that receives and sends it.   *)
THEOREM EveryPayloadSurvives ==
  ASSUME NEW n \in Nat, NEW w \in Nat, NEW payload \in [1 .. n * Width(w) -> Bytes]
  PROVE  PayloadSurvives(payload, n, w)
<1>1. CASE w = 2
  BY <1>1, PackedUnpacked
     DEF PayloadSurvives, Width, convert_to_net, convert_from_net, to_l16, from_l16
<1>2. CASE w = 4
  BY <1>2, PackedUnpacked
     DEF PayloadSurvives, Width, convert_to_net, convert_from_net, to_l32, from_l32
<1>3. CASE w # 2 /\ w # 4
  <2>1. Width(w) = 3
    BY <1>3 DEF Width
  <2> QED BY <1>3, <2>1, PackedUnpacked
     DEF PayloadSurvives, convert_to_net, convert_from_net, to_l24, from_l24
<1> QED BY <1>1, <1>2, <1>3

(* In AM824 the three bytes of audio survive.                              *)
THEOREM EveryAm824Survives ==
  ASSUME NEW n \in Nat, NEW src \in [1 .. n -> Samples]
  PROVE  Am824Survives(src, n)
<1> DEFINE cleared == [i \in 1 .. n |-> Cleared(src[i])]
<1>1. cleared \in [1 .. n -> Samples]
  BY ConvertAssumption DEF Cleared, Samples
<1> HIDE DEF cleared
<1>2. Unpacked(Packed(cleared, n, 4), n, 4) = [i \in 1 .. n |-> Truncated(cleared[i], 4)]
  BY <1>1, UnpackedPacked
<1>3. ASSUME NEW i \in 1 .. n
      PROVE  Cleared(Truncated(cleared[i], 4)) = Cleared(src[i])
  BY <1>1 DEF Cleared, Truncated, Samples, cleared
<1>4. from_am824(to_am824(src, n), n) = [i \in 1 .. n |-> Cleared(Truncated(cleared[i], 4))]
  BY <1>2 DEF from_am824, to_am824, cleared
<1> QED BY <1>3, <1>4 DEF Am824Survives
==============================================================================
