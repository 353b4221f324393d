--------------------------- MODULE SapLocal_proofs ---------------------------
(***************************************************************************)
(* Proofs about the announcement of local sources: what a pass of          *)
(* sap_tx_task sends, for any number of sources and slots and any ids, and *)
(* what the SDP it sends tells a sink.                                     *)
(*                                                                         *)
(* The task reads the table while a call writes it.  Inv says what the     *)
(* table holds in the middle of a call: the entry of a registered source   *)
(* is not touched until the source is removed, wherever the pass has got   *)
(* to, because an id is given to one entry only and no call takes an       *)
(* active entry of another id.                                             *)
(***************************************************************************)
EXTENDS SapLocal, Sdp, NaturalsInduction, WellFoundedInduction, TLAPS

TypeInv ==
  /\ local \in [Slots -> [active : BOOLEAN, msg_id : Ids \cup {None}, head : Halves, tail : Halves]]
  /\ caller \in [pc : {"idle", "id", "head", "tail", "clear"}, sdp : Halves,
                 slot : Slots \cup {0}, fresh : BOOLEAN]
  /\ registered \subseteq Sources
  /\ tx \in [pc : {"off", "scan", "load", "head", "send", "wait"}, slot : Slots,
             id : Ids \cup {None}, head : Halves]
  /\ quiet \in BOOLEAN

(* An entry is known by its id, except while its first id is being stored. *)
Known(i)   == local[i].active = TRUE /\ ~(caller.pc = "id" /\ caller.slot = i)
Holds(i, s) == Known(i) /\ local[i].msg_id = IdOf[s] /\ local[i].head = s /\ local[i].tail = s
Writing(s) == caller.pc \in {"head", "tail"} /\ caller.sdp = s

(* The table, between and during the caller's calls. *)
CallInv ==
  /\ caller.pc = "idle" => caller.sdp = None
  /\ caller.pc # "idle" => caller.sdp \in Sources
  /\ caller.pc \in {"id", "head", "tail"} =>
       /\ caller.sdp \notin registered /\ caller.slot \in Slots
       /\ local[caller.slot].active = TRUE
  /\ caller.pc \in {"head", "tail"} => local[caller.slot].msg_id = IdOf[caller.sdp]
  /\ caller.pc = "tail" => local[caller.slot].head = caller.sdp
  /\ caller.pc = "id" => \A i \in Slots : Known(i) => local[i].msg_id # IdOf[caller.sdp]

TableInv ==
  /\ \A i, j \in Slots : Known(i) /\ Known(j) /\ local[i].msg_id = local[j].msg_id => i = j
  /\ \A s \in Distinct \cap registered : \E i \in Slots : Holds(i, s)
  /\ \A s \in Distinct : \A i \in Slots :
       Known(i) /\ local[i].msg_id = IdOf[s] => s \in registered \/ Writing(s)

(* The pass of the TX task. *)
Passed(i) == Running /\ (i < tx.slot \/ tx.pc = "wait")

SteadyInv ==
  /\ steady \subseteq registered
  /\ caller.pc = "clear" => caller.sdp \notin steady
  /\ tx.pc = "off" => steady = {}
  /\ \A s \in Distinct \cap steady : \A i \in Slots : Holds(i, s) =>
       /\ Passed(i) => AnnounceOf(s) \in sent
       /\ tx.slot = i /\ tx.pc \in {"head", "send"} => tx.id = IdOf[s]
       /\ tx.slot = i /\ tx.pc = "send" => tx.head = s

QuietInv ==
  quiet = TRUE =>
    /\ caller.pc = "idle"
    /\ Running => steady = registered
    /\ \A p \in sent : \A s \in Distinct : p.id = IdOf[s] => p = AnnounceOf(s) /\ s \in registered
    /\ tx.pc \in {"load", "head", "send"} => local[tx.slot].active = TRUE
    /\ tx.pc \in {"head", "send"} => tx.id = local[tx.slot].msg_id
    /\ tx.pc = "send" => tx.head = local[tx.slot].head

Inv == TypeInv /\ CallInv /\ TableInv /\ SteadyInv /\ QuietInv

------------------------------------------------------------------------------
LEMMA FirstIsMember ==
  ASSUME NEW S, S \subseteq Slots, S # {}
  PROVE  First(S) \in S
<1>1. S \subseteq Nat
  BY SapLocalAssumption DEF Slots
<1>2. PICK i \in S : \A j \in S : ~(<<j, i>> \in OpToRel(<, Nat))
  BY <1>1, NatLessThanWellFounded, WFMin
<1>3. ASSUME NEW j \in S
      PROVE  i <= j
  <2>1. i \in Nat /\ j \in Nat
    BY <1>1
  <2>2. j < i => <<j, i>> \in OpToRel(<, Nat)
    BY <2>1 DEF OpToRel
  <2>3. ~(j < i)
    BY <1>2, <2>2
  <2> QED BY <2>1, <2>3
<1> QED BY <1>3 DEF First

Entry == [active : BOOLEAN, msg_id : Ids \cup {None}, head : Halves, tail : Halves]

Task == [pc : {"off", "scan", "load", "head", "send", "wait"}, slot : Slots,
         id : Ids \cup {None}, head : Halves]

LEMMA NextSlotOfPass ==
  ASSUME NEW t \in Task, t.pc # "off"
  PROVE  /\ TxNextSlot(t) \in Task /\ TxNextSlot(t).pc \in {"scan", "wait"}
         /\ \A i \in Slots : i < TxNextSlot(t).slot \/ TxNextSlot(t).pc = "wait" =>
              i < t.slot \/ i = t.slot
<1>1. TxNextSlot(t) = IF t.slot = MaxLocal THEN [t EXCEPT !.pc = "wait"]
                      ELSE [[t EXCEPT !.pc = "scan"] EXCEPT !.slot = t.slot + 1]
  BY Zenon DEF TxNextSlot
<1>2. MaxLocal \in Nat /\ Slots = 1 .. MaxLocal /\ t.slot \in Slots
  BY SapLocalAssumption DEF Slots, Task
<1>3. CASE t.slot = MaxLocal
  <2>1. TxNextSlot(t) = [t EXCEPT !.pc = "wait"]
    BY <1>1, <1>3
  <2>2. TxNextSlot(t) \in Task /\ TxNextSlot(t).pc = "wait"
    BY <2>1 DEF Task
  <2>3. \A i \in Slots : i < t.slot \/ i = t.slot
    BY <1>2, <1>3
  <2> QED BY <2>2, <2>3
<1>4. CASE t.slot # MaxLocal
  <2> DEFINE u == [t EXCEPT !.pc = "scan"]
  <2>1. u \in Task /\ u.pc = "scan" /\ u.slot = t.slot
    BY DEF Task
  <2>2. TxNextSlot(t) = [u EXCEPT !.slot = t.slot + 1]
    BY <1>1, <1>4
  <2> HIDE DEF u
  <2>3. t.slot + 1 \in Slots
    BY <1>2, <1>4
  <2>4. TxNextSlot(t) \in Task /\ TxNextSlot(t).pc = "scan" /\ TxNextSlot(t).slot = t.slot + 1
    BY <2>1, <2>2, <2>3 DEF Task
  <2>5. \A i \in Slots : i < t.slot + 1 => i < t.slot \/ i = t.slot
    BY <1>2
  <2> QED BY <2>4, <2>5
<1> QED BY <1>3, <1>4

(* The id of a distinct source is its own.                                 *)
LEMMA OwnId ==
  ASSUME NEW s \in Distinct, NEW r \in Sources, IdOf[r] = IdOf[s]
  PROVE  r = s
  BY DEF Distinct

LEMMA Typed == TypeInv => local \in [Slots -> Entry] /\ tx \in Task
  BY DEF TypeInv, Entry, Task

------------------------------------------------------------------------------
(* What the calls have in common: what they leave of a pass.               *)
LEMMA CallKeepsPass ==
  ASSUME Inv, quiet' = FALSE, tx' = tx, sent \subseteq sent',
         steady' \subseteq steady, steady' \subseteq registered',
         caller'.pc = "clear" => caller'.sdp \notin steady',
         \A s \in Distinct \cap steady' : \A i \in Slots : Holds(i, s)' => Holds(i, s)
  PROVE  SteadyInv' /\ QuietInv'
<1>1. QuietInv'
  BY DEF QuietInv
<1>2. tx'.pc = "off" => steady' = {}
  BY DEF Inv, SteadyInv
<1>3. \A s \in Distinct \cap steady' : \A i \in Slots : Holds(i, s)' =>
       /\ Passed(i)' => AnnounceOf(s) \in sent'
       /\ tx'.slot = i /\ tx'.pc \in {"head", "send"} => tx'.id = IdOf[s]
       /\ tx'.slot = i /\ tx'.pc = "send" => tx'.head = s
  BY DEF Inv, SteadyInv, Passed, Running
<1> QED BY <1>1, <1>2, <1>3 DEF SteadyInv, AnnounceOf, Packet

(* ... and what they leave of the table if they change no known entry.     *)
LEMMA KnownKept ==
  ASSUME Inv, registered' = registered,
         \A i \in Slots : Known(i)' <=> Known(i),
         \A i \in Slots : Known(i) => local'[i] = local[i],
         \A s \in Distinct : Writing(s) => Writing(s)' \/ s \in registered'
  PROVE  /\ TableInv'
         /\ \A i \in Slots, s \in Sources : Holds(i, s)' <=> Holds(i, s)
<1>1. \A i \in Slots, s \in Sources : Holds(i, s)' <=> Holds(i, s)
  BY DEF Holds
<1>2. \A i, j \in Slots : Known(i)' /\ Known(j)' /\ local'[i].msg_id = local'[j].msg_id => i = j
  BY DEF Inv, TableInv
<1>3. \A s \in Distinct \cap registered' : \E i \in Slots : Holds(i, s)'
  BY <1>1 DEF Inv, TableInv, Distinct
<1>4. \A s \in Distinct : \A i \in Slots :
       Known(i)' /\ local'[i].msg_id = IdOf[s] => s \in registered' \/ Writing(s)'
  BY DEF Inv, TableInv
<1> QED BY <1>1, <1>2, <1>3, <1>4 DEF TableInv

LEMMA AnnounceKeeps == ASSUME NEW sdp \in Sources, Inv, Announce(sdp) PROVE Inv'
<1>0. /\ caller.pc = "idle" /\ sdp \notin registered /\ quiet' = FALSE
      /\ registered' = registered /\ tx' = tx /\ sent' = sent /\ steady' = steady
      /\ steady \subseteq registered /\ TypeInv
  BY DEF Announce, Inv, SteadyInv
<1>1. \A s : ~Writing(s)
  BY <1>0 DEF Writing
<1>2. CASE AnnounceUpdate(sdp)
  <2> DEFINE k == First(Matching(IdOf[sdp]))
  <2>1. k \in Slots /\ local[k].active = TRUE /\ local[k].msg_id = IdOf[sdp]
    <3>1. Matching(IdOf[sdp]) \subseteq Slots /\ Matching(IdOf[sdp]) # {}
      BY <1>2 DEF AnnounceUpdate, Matching
    <3>2. k \in Matching(IdOf[sdp])
      BY <3>1, FirstIsMember
    <3> QED BY <1>0, <3>2 DEF Matching, TypeInv
  <2>2. caller' = [pc |-> "head", sdp |-> sdp, slot |-> k, fresh |-> FALSE] /\ local' = local
    BY <1>2 DEF AnnounceUpdate, Call
  <2> HIDE DEF k
  <2>3. TypeInv'
    BY <1>0, <2>1, <2>2 DEF TypeInv, Halves
  <2>4. CallInv'
    BY <1>0, <2>1, <2>2 DEF CallInv
  <2>5. \A i \in Slots : Known(i)' <=> Known(i)
    BY <1>0, <2>2 DEF Known
  <2>6. TableInv' /\ \A i \in Slots, s \in Sources : Holds(i, s)' <=> Holds(i, s)
    BY <1>0, <1>1, <2>2, <2>5, KnownKept
  <2>7. SteadyInv' /\ QuietInv'
    BY <1>0, <2>2, <2>6, CallKeepsPass DEF Distinct
  <2> QED BY <2>3, <2>4, <2>6, <2>7 DEF Inv
<1>3. CASE AnnounceNew(sdp)
  <2> DEFINE k == First(Free)
  <2>1. k \in Slots /\ local[k].active = FALSE
    <3>1. Free \subseteq Slots /\ Free # {}
      BY <1>3 DEF AnnounceNew, Free
    <3>2. k \in Free
      BY <3>1, FirstIsMember
    <3> QED BY <1>0, <3>2 DEF Free, TypeInv
  <2>2. /\ caller' = [pc |-> "id", sdp |-> sdp, slot |-> k, fresh |-> TRUE]
        /\ local' = [local EXCEPT ![k].active = TRUE]
    BY <1>3 DEF AnnounceNew, Call
  <2>3. \A i \in Slots : local[i].active = TRUE => local[i].msg_id # IdOf[sdp]
    BY <1>3 DEF AnnounceNew, Matching
  <2>11. local \in [Slots -> Entry]
    BY <1>0, Typed
  <2> HIDE DEF k
  <2>4. /\ local' \in [Slots -> Entry] /\ local'[k].active = TRUE
        /\ \A i \in Slots \ {k} : local'[i] = local[i]
    BY <2>1, <2>2, <2>11 DEF Entry
  <2>5. TypeInv'
    BY <1>0, <2>1, <2>2, <2>4 DEF TypeInv, Halves, Entry
  <2>6. \A i \in Slots : Known(i)' <=> Known(i)
    BY <1>0, <2>1, <2>2, <2>4 DEF Known
  <2>7. \A i \in Slots : Known(i) => local'[i] = local[i]
    BY <2>1, <2>4 DEF Known
  <2>8. CallInv'
    BY <1>0, <2>1, <2>2, <2>3, <2>4, <2>6, <2>7 DEF CallInv, Known
  <2>9. TableInv' /\ \A i \in Slots, s \in Sources : Holds(i, s)' <=> Holds(i, s)
    BY <1>0, <1>1, <2>6, <2>7, KnownKept
  <2>10. SteadyInv' /\ QuietInv'
    BY <1>0, <2>2, <2>9, CallKeepsPass DEF Distinct
  <2> QED BY <2>5, <2>8, <2>9, <2>10 DEF Inv
<1>4. CASE AnnounceRefused(sdp)
  <2>1. local' = local /\ caller' = caller
    BY <1>4 DEF AnnounceRefused
  <2>2. TypeInv' /\ CallInv'
    BY <1>0, <2>1 DEF Inv, TypeInv, CallInv, Known
  <2>3. \A i \in Slots : Known(i)' <=> Known(i)
    BY <2>1 DEF Known
  <2>4. TableInv' /\ \A i \in Slots, s \in Sources : Holds(i, s)' <=> Holds(i, s)
    BY <1>0, <1>1, <2>1, <2>3, KnownKept
  <2>5. SteadyInv' /\ QuietInv'
    BY <1>0, <2>1, <2>4, CallKeepsPass DEF Distinct
  <2> QED BY <2>2, <2>4, <2>5 DEF Inv
<1> QED BY <1>2, <1>3, <1>4 DEF Announce

LEMMA SetIdKeeps == ASSUME Inv, SetId PROVE Inv'
<1> DEFINE k == caller.slot
           sdp == caller.sdp
<1>0. /\ caller.pc = "id" /\ k \in Slots /\ sdp \in Sources /\ sdp \notin registered
      /\ local[k].active = TRUE /\ TypeInv
      /\ registered' = registered /\ tx' = tx /\ sent' = sent /\ steady' = steady
      /\ quiet' = FALSE /\ steady \subseteq registered
      /\ \A i \in Slots : Known(i) => local[i].msg_id # IdOf[sdp]
  BY DEF SetId, session, Inv, CallInv, SteadyInv
<1>1. caller' \in [pc : {"head"}, sdp : Halves, slot : Slots \cup {0}, fresh : BOOLEAN]
      /\ caller'.pc = "head" /\ caller'.sdp = sdp /\ caller'.slot = k
  BY DEF SetId, Inv, TypeInv
<1>2. IdOf[sdp] \in Ids
  BY <1>0, SapLocalAssumption
<1>3. /\ local' \in [Slots -> Entry] /\ local'[k].msg_id = IdOf[sdp] /\ local'[k].active = TRUE
      /\ \A i \in Slots \ {k} : local'[i] = local[i]
  <2>1. local' = [local EXCEPT ![k].msg_id = IdOf[sdp]]
    BY DEF SetId
  <2>2. local \in [Slots -> Entry]
    BY <1>0, Typed
  <2>0. k \in Slots
    BY <1>0
  <2> HIDE DEF k, sdp
  <2>3. /\ local' \in [Slots -> Entry] /\ local'[k].msg_id = IdOf[sdp]
        /\ local'[k].active = local[k].active
        /\ \A i \in Slots \ {k} : local'[i] = local[i]
    BY <1>2, <2>0, <2>1, <2>2 DEF Entry
  <2> QED BY <1>0, <2>3
<1> HIDE DEF k, sdp
<1>4. TypeInv'
  BY <1>0, <1>1, <1>3 DEF TypeInv, Entry
<1>5. CallInv'
  BY <1>0, <1>1, <1>3 DEF CallInv
<1>6. /\ ~Known(k) /\ Known(k)'
      /\ \A i \in Slots \ {k} : (Known(i)' <=> Known(i)) /\ local'[i] = local[i]
  BY <1>0, <1>1, <1>3 DEF Known, k
<1>7. \A s : Writing(s)' <=> s = sdp
  BY <1>1 DEF Writing
<1>8. \A s : ~Writing(s)
  BY <1>0 DEF Writing
<1>9. ASSUME NEW i \in Slots, NEW s \in registered
      PROVE  s \in Distinct => (Holds(i, s)' <=> Holds(i, s))
  <2>1. CASE i # k
    BY <1>6, <2>1 DEF Holds
  <2>2. CASE i = k
    <3>1. s \in Distinct => IdOf[sdp] # IdOf[s]
      BY <1>0, OwnId
    <3> QED BY <1>3, <1>6, <2>2, <3>1 DEF Holds
  <2> QED BY <2>1, <2>2
<1>10. TableInv'
  <2>1. \A i, j \in Slots : Known(i)' /\ Known(j)' /\ local'[i].msg_id = local'[j].msg_id => i = j
    BY <1>0, <1>3, <1>6 DEF Inv, TableInv
  <2>2. \A s \in Distinct \cap registered' : \E i \in Slots : Holds(i, s)'
    BY <1>0, <1>9 DEF Inv, TableInv
  <2>3. ASSUME NEW s \in Distinct, NEW i \in Slots, Known(i)', local'[i].msg_id = IdOf[s]
        PROVE  s \in registered' \/ Writing(s)'
    <3>1. CASE i # k
      BY <1>0, <1>6, <1>8, <2>3, <3>1 DEF Inv, TableInv
    <3>2. CASE i = k
      BY <1>0, <1>3, <1>7, <2>3, <3>2, OwnId
    <3> QED BY <3>1, <3>2
  <2> QED BY <2>1, <2>2, <2>3 DEF TableInv
<1>11. SteadyInv' /\ QuietInv'
  <2>1. \A s \in Distinct \cap steady' : \A i \in Slots : Holds(i, s)' => Holds(i, s)
    BY <1>0, <1>9
  <2> QED BY <1>0, <1>1, <2>1, CallKeepsPass
<1> QED BY <1>4, <1>5, <1>10, <1>11 DEF Inv

(* The stores of the SDP change no entry of a registered source.           *)
LEMMA SdpStoreKeeps ==
  ASSUME Inv, caller.pc \in {"head", "tail"}, caller.slot \in Slots,
         local' \in [Slots -> Entry],
         local'[caller.slot].active = TRUE,
         local'[caller.slot].msg_id = local[caller.slot].msg_id,
         \A i \in Slots \ {caller.slot} : local'[i] = local[i],
         caller'.pc # "id"
  PROVE  /\ \A i \in Slots : Known(i)' <=> Known(i)
         /\ \A i \in Slots : local'[i].msg_id = local[i].msg_id
         /\ \A i \in Slots, s \in Distinct \cap registered : Holds(i, s)' <=> Holds(i, s)
<1> DEFINE k == caller.slot
<1>1. /\ local[k].active = TRUE /\ local[k].msg_id = IdOf[caller.sdp]
      /\ caller.sdp \in Sources /\ caller.sdp \notin registered
  BY DEF Inv, CallInv
<1>2. \A i \in Slots : Known(i)' <=> Known(i)
  BY <1>1 DEF Known
<1>3. \A i \in Slots : local'[i].msg_id = local[i].msg_id
  OBVIOUS
<1>4. ASSUME NEW i \in Slots, NEW s \in Distinct \cap registered
      PROVE  Holds(i, s)' <=> Holds(i, s)
  <2>1. CASE i = k
    <3>1. IdOf[caller.sdp] # IdOf[s]
      BY <1>1, OwnId
    <3> QED BY <1>1, <1>3, <2>1, <3>1 DEF Holds
  <2>2. CASE i # k
    BY <1>2, <2>2 DEF Holds
  <2> QED BY <2>1, <2>2
<1> QED BY <1>2, <1>3, <1>4

LEMMA SetSdpHeadKeeps == ASSUME Inv, SetSdpHead PROVE Inv'
<1> DEFINE k == caller.slot
           sdp == caller.sdp
<1>0. /\ caller.pc = "head" /\ k \in Slots /\ sdp \in Sources /\ sdp \notin registered
      /\ local[k].active = TRUE /\ local[k].msg_id = IdOf[sdp] /\ TypeInv
      /\ registered' = registered /\ tx' = tx /\ sent' = sent /\ steady' = steady
      /\ quiet' = FALSE /\ steady \subseteq registered
  BY DEF SetSdpHead, session, Inv, CallInv, SteadyInv
<1>1. caller' \in [pc : {"tail"}, sdp : Halves, slot : Slots \cup {0}, fresh : BOOLEAN]
      /\ caller'.pc = "tail" /\ caller'.sdp = sdp /\ caller'.slot = k
  BY DEF SetSdpHead, Inv, TypeInv
<1>2. /\ local' \in [Slots -> Entry] /\ local'[k].head = sdp
      /\ local'[k].msg_id = local[k].msg_id /\ local'[k].active = TRUE
      /\ \A i \in Slots \ {k} : local'[i] = local[i]
  <2>1. local' = [local EXCEPT ![k].head = sdp]
    BY DEF SetSdpHead
  <2>2. local \in [Slots -> Entry] /\ sdp \in Halves
    BY <1>0, Typed DEF Halves
  <2>0. k \in Slots
    BY <1>0
  <2> HIDE DEF k, sdp
  <2>3. /\ local' \in [Slots -> Entry] /\ local'[k].head = sdp
           /\ local'[k].active = local[k].active /\ local'[k].msg_id = local[k].msg_id
        /\ \A i \in Slots \ {k} : local'[i] = local[i]
    BY <2>0, <2>1, <2>2 DEF Entry
  <2> QED BY <1>0, <2>3
<1>3. /\ \A i \in Slots : Known(i)' <=> Known(i)
      /\ \A i \in Slots : local'[i].msg_id = local[i].msg_id
      /\ \A i \in Slots, s \in Distinct \cap registered : Holds(i, s)' <=> Holds(i, s)
  BY <1>0, <1>1, <1>2, SdpStoreKeeps
<1>4. \A s : Writing(s)' <=> Writing(s)
  BY <1>0, <1>1 DEF Writing
<1> HIDE DEF k, sdp
<1>5. TypeInv'
  BY <1>0, <1>1, <1>2 DEF TypeInv, Entry
<1>6. CallInv'
  BY <1>0, <1>1, <1>2 DEF CallInv
<1>7. TableInv'
  BY <1>0, <1>3, <1>4 DEF Inv, TableInv
<1>8. SteadyInv' /\ QuietInv'
  <2>1. \A s \in Distinct \cap steady' : \A i \in Slots : Holds(i, s)' => Holds(i, s)
    BY <1>0, <1>3
  <2> QED BY <1>0, <1>1, <2>1, CallKeepsPass
<1> QED BY <1>5, <1>6, <1>7, <1>8 DEF Inv

LEMMA SetSdpTailKeeps == ASSUME Inv, SetSdpTail PROVE Inv'
<1> DEFINE k == caller.slot
           sdp == caller.sdp
<1>0. /\ caller.pc = "tail" /\ k \in Slots /\ sdp \in Sources /\ sdp \notin registered
      /\ local[k].active = TRUE /\ local[k].msg_id = IdOf[sdp] /\ local[k].head = sdp /\ TypeInv
      /\ registered' = registered \cup {sdp} /\ tx' = tx /\ sent \subseteq sent'
      /\ steady' = steady /\ quiet' = FALSE /\ steady \subseteq registered
  BY DEF SetSdpTail, Inv, CallInv, SteadyInv
<1>1. caller' = [pc |-> "idle", sdp |-> None, slot |-> 0, fresh |-> FALSE]
  BY DEF SetSdpTail, NoCall
<1>2. /\ local' \in [Slots -> Entry] /\ local'[k].tail = sdp /\ local'[k].head = sdp
      /\ local'[k].msg_id = local[k].msg_id /\ local'[k].active = TRUE
      /\ \A i \in Slots \ {k} : local'[i] = local[i]
  <2>1. local' = [local EXCEPT ![k].tail = sdp]
    BY DEF SetSdpTail
  <2>2. local \in [Slots -> Entry] /\ sdp \in Halves
    BY <1>0, Typed DEF Halves
  <2>0. k \in Slots
    BY <1>0
  <2> HIDE DEF k, sdp
  <2>3. /\ local' \in [Slots -> Entry] /\ local'[k].tail = sdp
           /\ local'[k].active = local[k].active /\ local'[k].msg_id = local[k].msg_id
           /\ local'[k].head = local[k].head
        /\ \A i \in Slots \ {k} : local'[i] = local[i]
    BY <2>0, <2>1, <2>2 DEF Entry
  <2> QED BY <1>0, <2>3
<1>3. /\ \A i \in Slots : Known(i)' <=> Known(i)
      /\ \A i \in Slots : local'[i].msg_id = local[i].msg_id
      /\ \A i \in Slots, s \in Distinct \cap registered : Holds(i, s)' <=> Holds(i, s)
  BY <1>0, <1>1, <1>2, SdpStoreKeeps
<1>4. \A s : Writing(s) => s = sdp
  BY DEF Writing
<1> HIDE DEF k, sdp
<1>5. TypeInv'
  BY <1>0, <1>1, <1>2 DEF TypeInv, Entry, Halves
<1>6. CallInv'
  BY <1>1 DEF CallInv
<1>7. TableInv'
  <2>1. \A i \in Slots, s \in Sources : i = k /\ s = sdp => Holds(i, s)'
    BY <1>0, <1>1, <1>2 DEF Holds, Known
  <2>2. ASSUME NEW s \in Distinct \cap registered'
        PROVE  \E i \in Slots : Holds(i, s)'
    <3>1. CASE s = sdp
      BY <1>0, <2>1, <3>1
    <3>2. CASE s # sdp
      <4>1. s \in Distinct \cap registered
        BY <1>0, <2>2, <3>2
      <4> QED BY <1>3, <4>1 DEF Inv, TableInv
    <3> QED BY <3>1, <3>2
  <2> QED BY <1>0, <1>3, <1>4, <2>2 DEF Inv, TableInv
<1>8. SteadyInv' /\ QuietInv'
  <2>1. \A s \in Distinct \cap steady' : \A i \in Slots : Holds(i, s)' => Holds(i, s)
    BY <1>0, <1>3
  <2>2. caller'.pc = "idle" /\ steady' \subseteq registered'
    BY <1>0, <1>1
  <2> QED BY <1>0, <2>1, <2>2, CallKeepsPass
<1> QED BY <1>5, <1>6, <1>7, <1>8 DEF Inv

LEMMA DeleteKeeps == ASSUME NEW sdp \in Sources, Inv, Delete(sdp) PROVE Inv'
<1>0. /\ caller.pc = "idle" /\ quiet' = FALSE /\ local' = local
      /\ registered' = registered /\ tx' = tx /\ sent \subseteq sent' /\ steady' = steady \ {sdp}
      /\ steady \subseteq registered /\ TypeInv
      /\ caller' = [pc |-> "clear", sdp |-> sdp, slot |-> 0, fresh |-> FALSE]
  BY DEF Delete, Call, session, Inv, SteadyInv
<1>1. TypeInv' /\ CallInv'
  BY <1>0 DEF TypeInv, CallInv, Halves
<1>2. \A i \in Slots : Known(i)' <=> Known(i)
  BY <1>0 DEF Known
<1>3. \A s : ~Writing(s)
  BY <1>0 DEF Writing
<1>4. TableInv' /\ \A i \in Slots, s \in Sources : Holds(i, s)' <=> Holds(i, s)
  BY <1>0, <1>2, <1>3, KnownKept
<1>5. SteadyInv' /\ QuietInv'
  <2>1. steady' \subseteq steady /\ steady' \subseteq registered' /\ caller'.sdp \notin steady'
    BY <1>0
  <2> QED BY <1>0, <1>4, <2>1, CallKeepsPass DEF Distinct
<1> QED BY <1>1, <1>4, <1>5 DEF Inv

LEMMA DeleteEntryKeeps == ASSUME Inv, DeleteEntry PROVE Inv'
<1> DEFINE M == Matching(IdOf[caller.sdp])
           k == First(M)
           sdp == caller.sdp
<1>0. /\ caller.pc = "clear" /\ sdp \in Sources /\ sdp \notin steady /\ TypeInv
      /\ registered' = registered \ {sdp} /\ tx' = tx /\ sent' = sent /\ steady' = steady
      /\ quiet' = FALSE /\ steady \subseteq registered
      /\ caller' = [pc |-> "idle", sdp |-> None, slot |-> 0, fresh |-> FALSE]
  BY DEF DeleteEntry, Forget, NoCall, Inv, CallInv, SteadyInv
<1>1. \A i \in Slots : i \in M <=> local[i].active = TRUE /\ local[i].msg_id = IdOf[sdp]
  BY <1>0 DEF Matching, TypeInv
<1>2. /\ local' \in [Slots -> Entry]
      /\ \A i \in Slots : i \in M => local'[i].active = FALSE
      /\ \A i \in Slots : i \notin M => local'[i] = local[i]
  <2>1. local \in [Slots -> Entry]
    BY <1>0, Typed
  <2>2. CASE M = {}
    <3>1. local' = local
      BY <2>2 DEF DeleteEntry
    <3> QED BY <2>1, <2>2, <3>1
  <2>3. CASE M # {}
    <3>1. local' = [local EXCEPT ![k].active = FALSE]
      BY <2>3 DEF DeleteEntry
    <3>2. k \in M /\ k \in Slots
      BY <2>3, FirstIsMember DEF Matching
    <3>3. \A i, j \in M : i = j
      <4>1. \A i \in M : i \in Slots /\ Known(i) /\ local[i].msg_id = IdOf[sdp]
        BY <1>0, <1>1 DEF Known, Matching
      <4> QED BY <4>1 DEF Inv, TableInv
    <3> HIDE DEF k, M
    <3>4. /\ local' \in [Slots -> Entry] /\ local'[k].active = FALSE
          /\ \A i \in Slots \ {k} : local'[i] = local[i]
      BY <2>1, <3>1, <3>2 DEF Entry
    <3> QED BY <3>2, <3>3, <3>4
  <2> QED BY <2>2, <2>3
<1> HIDE DEF M, k, sdp
<1>3. \A i \in Slots : Known(i)' <=> Known(i) /\ i \notin M
  BY <1>0, <1>1, <1>2 DEF Known
<1>4. \A s : ~Writing(s)
  BY <1>0 DEF Writing
<1>5. TypeInv'
  BY <1>0, <1>2 DEF TypeInv, Entry, Halves
<1>6. CallInv'
  BY <1>0 DEF CallInv
<1>7. \A s : \A i \in Slots : Holds(i, s)' => Holds(i, s)
  BY <1>2, <1>3 DEF Holds
<1>8. TableInv'
  <2>1. \A i, j \in Slots : Known(i)' /\ Known(j)' /\ local'[i].msg_id = local'[j].msg_id => i = j
    BY <1>2, <1>3 DEF Inv, TableInv
  <2>2. ASSUME NEW s \in Distinct \cap registered'
        PROVE  \E i \in Slots : Holds(i, s)'
    <3>1. PICK i \in Slots : Holds(i, s)
      BY <1>0, <2>2 DEF Inv, TableInv
    <3>2. IdOf[sdp] # IdOf[s]
      BY <1>0, <2>2, OwnId
    <3>3. i \notin M
      BY <1>1, <3>1, <3>2 DEF Holds
    <3> QED BY <1>2, <1>3, <3>1, <3>3 DEF Holds
  <2>3. ASSUME NEW s \in Distinct, NEW i \in Slots, Known(i)', local'[i].msg_id = IdOf[s]
        PROVE  s \in registered' \/ Writing(s)'
    <3>1. Known(i) /\ i \notin M /\ local[i].msg_id = IdOf[s]
      BY <1>2, <1>3, <2>3
    <3>2. s \in registered
      BY <1>4, <3>1 DEF Inv, TableInv
    <3>3. s # sdp
      BY <1>1, <3>1 DEF Known
    <3> QED BY <1>0, <3>2, <3>3
  <2> QED BY <2>1, <2>2, <2>3 DEF TableInv
<1>9. SteadyInv' /\ QuietInv'
  <2>1. steady' \subseteq steady /\ steady' \subseteq registered' /\ caller'.pc = "idle"
    BY <1>0
  <2> QED BY <1>0, <1>7, <2>1, CallKeepsPass
<1> QED BY <1>5, <1>6, <1>8, <1>9 DEF Inv

LEMMA CallsKeep ==
  Inv /\ (\/ \E sdp \in Sources : Announce(sdp)
          \/ SetId \/ SetSdpHead \/ SetSdpTail
          \/ \E sdp \in Sources : Delete(sdp)
          \/ DeleteEntry) => Inv'
BY AnnounceKeeps, SetIdKeeps, SetSdpHeadKeeps, SetSdpTailKeeps, DeleteKeeps, DeleteEntryKeeps

------------------------------------------------------------------------------
(* The steps of the task leave the table alone.                            *)
LEMMA PassKeepsTable ==
  ASSUME Inv, UNCHANGED <<local, caller, session>>
  PROVE  /\ CallInv' /\ TableInv'
         /\ \A s : \A i \in Slots : Holds(i, s)' <=> Holds(i, s)
<1>1. \A i : Known(i)' <=> Known(i)
  BY DEF Known
<1>2. \A s : \A i \in Slots : Holds(i, s)' <=> Holds(i, s)
  BY <1>1 DEF Holds
<1>3. \A s : Writing(s)' <=> Writing(s)
  BY DEF Writing
<1>4. CallInv'
  BY <1>1 DEF Inv, CallInv, session
<1>5. TableInv'
  BY <1>1, <1>2, <1>3 DEF Inv, TableInv, session
<1> QED BY <1>2, <1>4, <1>5

LEMMA TxScanKeeps == ASSUME Inv, TxScan PROVE Inv'
<1>0. /\ tx.pc = "scan" /\ UNCHANGED <<local, caller, session, sent, quiet, steady>>
      /\ TypeInv /\ tx \in Task /\ local[tx.slot].active \in BOOLEAN
  BY Typed DEF TxScan, Inv, TypeInv
<1>1. CallInv' /\ TableInv' /\ \A s : \A i \in Slots : Holds(i, s)' <=> Holds(i, s)
  BY <1>0, PassKeepsTable
<1>2. /\ tx' \in Task /\ tx'.pc \in {"load", "scan", "wait"}
      /\ tx'.pc = "load" => local[tx.slot].active = TRUE /\ tx'.slot = tx.slot
      /\ \A i \in Slots : Passed(i)' => Passed(i) \/ (i = tx.slot /\ local[tx.slot].active = FALSE)
  <2>1. CASE local[tx.slot].active = TRUE
    <3>1. tx' = [tx EXCEPT !.pc = "load"]
      BY <2>1 DEF TxScan
    <3> QED BY <1>0, <2>1, <3>1 DEF Task, Passed, Running
  <2>2. CASE local[tx.slot].active = FALSE
    <3>1. tx' = TxNextSlot(tx)
      BY <2>2 DEF TxScan
    <3> QED BY <1>0, <2>2, <3>1, NextSlotOfPass DEF Passed, Running
  <2> QED BY <1>0, <2>1, <2>2
<1>3. TypeInv'
  BY <1>0, <1>2 DEF TypeInv, Task, session
<1>4. SteadyInv'
  <2>1. ASSUME NEW s \in Distinct \cap steady, NEW i \in Slots, Holds(i, s)', Passed(i)'
        PROVE  AnnounceOf(s) \in sent
    <3>1. Holds(i, s)
      BY <1>1, <2>1
    <3>2. Passed(i)
      BY <1>2, <2>1, <3>1 DEF Holds, Known
    <3> QED BY <3>1, <3>2 DEF Inv, SteadyInv
  <2>2. ASSUME NEW s \in Distinct \cap steady', NEW i \in Slots, Holds(i, s)'
        PROVE  /\ Passed(i)' => AnnounceOf(s) \in sent'
               /\ tx'.slot = i /\ tx'.pc \in {"head", "send"} => tx'.id = IdOf[s]
               /\ tx'.slot = i /\ tx'.pc = "send" => tx'.head = s
    BY <1>0, <1>2, <2>1, <2>2
  <2>3. steady' \subseteq registered' /\ (caller'.pc = "clear" => caller'.sdp \notin steady')
        /\ tx'.pc # "off"
    BY <1>0, <1>2 DEF Inv, SteadyInv, session
  <2> QED BY <2>2, <2>3 DEF SteadyInv, AnnounceOf, Packet
<1>5. QuietInv'
  BY <1>0, <1>2 DEF Inv, QuietInv, session, Running, AnnounceOf, Packet
<1> QED BY <1>1, <1>3, <1>4, <1>5 DEF Inv

LEMMA TxLoadIdKeeps == ASSUME Inv, TxLoadId PROVE Inv'
<1>0. /\ tx.pc = "load" /\ UNCHANGED <<local, caller, session, sent, quiet, steady>>
      /\ TypeInv /\ tx \in Task /\ local[tx.slot].msg_id \in Ids \cup {None}
  BY Typed DEF TxLoadId, Inv, TypeInv
<1>1. CallInv' /\ TableInv' /\ \A s : \A i \in Slots : Holds(i, s)' <=> Holds(i, s)
  BY <1>0, PassKeepsTable
<1>2. /\ tx' \in Task /\ tx'.pc = "head" /\ tx'.slot = tx.slot
      /\ tx'.id = local[tx.slot].msg_id
  <2>1. tx' = [[tx EXCEPT !.pc = "head"] EXCEPT !.id = local[tx.slot].msg_id]
    BY Zenon DEF TxLoadId
  <2> QED BY <1>0, <2>1 DEF Task
<1>3. TypeInv'
  BY <1>0, <1>2 DEF TypeInv, Task, session
<1>4. SteadyInv'
  <2>1. \A i \in Slots : Passed(i)' => Passed(i)
    BY <1>0, <1>2 DEF Passed, Running
  <2>2. ASSUME NEW s \in Distinct \cap steady', NEW i \in Slots, Holds(i, s)'
        PROVE  /\ Passed(i)' => AnnounceOf(s) \in sent'
               /\ tx'.slot = i /\ tx'.pc \in {"head", "send"} => tx'.id = IdOf[s]
               /\ tx'.slot = i /\ tx'.pc = "send" => tx'.head = s
    BY <1>0, <1>1, <1>2, <2>1, <2>2 DEF Inv, SteadyInv, Holds
  <2>3. steady' \subseteq registered' /\ (caller'.pc = "clear" => caller'.sdp \notin steady')
        /\ tx'.pc # "off"
    BY <1>0, <1>2 DEF Inv, SteadyInv, session
  <2> QED BY <2>2, <2>3 DEF SteadyInv, AnnounceOf, Packet
<1>5. QuietInv'
  BY <1>0, <1>2 DEF Inv, QuietInv, session, Running, AnnounceOf, Packet
<1> QED BY <1>1, <1>3, <1>4, <1>5 DEF Inv

LEMMA TxCopyHeadKeeps == ASSUME Inv, TxCopyHead PROVE Inv'
<1>0. /\ tx.pc = "head" /\ UNCHANGED <<local, caller, session, sent, quiet, steady>>
      /\ TypeInv /\ tx \in Task /\ local[tx.slot].head \in Halves
  BY Typed DEF TxCopyHead, Inv, TypeInv
<1>1. CallInv' /\ TableInv' /\ \A s : \A i \in Slots : Holds(i, s)' <=> Holds(i, s)
  BY <1>0, PassKeepsTable
<1>2. /\ tx' \in Task /\ tx'.pc = "send" /\ tx'.slot = tx.slot
      /\ tx'.id = tx.id /\ tx'.head = local[tx.slot].head
  <2>1. tx' = [[tx EXCEPT !.pc = "send"] EXCEPT !.head = local[tx.slot].head]
    BY Zenon DEF TxCopyHead
  <2> QED BY <1>0, <2>1 DEF Task
<1>3. TypeInv'
  BY <1>0, <1>2 DEF TypeInv, Task, session
<1>4. SteadyInv'
  <2>1. \A i \in Slots : Passed(i)' => Passed(i)
    BY <1>0, <1>2 DEF Passed, Running
  <2>2. ASSUME NEW s \in Distinct \cap steady', NEW i \in Slots, Holds(i, s)'
        PROVE  /\ Passed(i)' => AnnounceOf(s) \in sent'
               /\ tx'.slot = i /\ tx'.pc \in {"head", "send"} => tx'.id = IdOf[s]
               /\ tx'.slot = i /\ tx'.pc = "send" => tx'.head = s
    BY <1>0, <1>1, <1>2, <2>1, <2>2 DEF Inv, SteadyInv, Holds
  <2>3. steady' \subseteq registered' /\ (caller'.pc = "clear" => caller'.sdp \notin steady')
        /\ tx'.pc # "off"
    BY <1>0, <1>2 DEF Inv, SteadyInv, session
  <2> QED BY <2>2, <2>3 DEF SteadyInv, AnnounceOf, Packet
<1>5. QuietInv'
  BY <1>0, <1>2 DEF Inv, QuietInv, session, Running, AnnounceOf, Packet
<1> QED BY <1>1, <1>3, <1>4, <1>5 DEF Inv

LEMMA TxSendKeeps == ASSUME Inv, TxSend PROVE Inv'
<1> DEFINE q == Packet("announce", tx.id, tx.head, local[tx.slot].tail)
<1>0. /\ tx.pc = "send" /\ UNCHANGED <<local, caller, session, quiet, steady>>
      /\ sent' = sent \cup {q} /\ tx' = TxNextSlot(tx) /\ tx.slot \in Slots
      /\ TypeInv /\ tx \in Task
  BY Typed DEF TxSend, Inv, TypeInv
<1>1. CallInv' /\ TableInv' /\ \A s : \A i \in Slots : Holds(i, s)' <=> Holds(i, s)
  BY <1>0, PassKeepsTable
<1>2. /\ tx' \in Task /\ tx'.pc \in {"scan", "wait"}
      /\ \A i \in Slots : Passed(i)' => Passed(i) \/ i = tx.slot
  BY <1>0, NextSlotOfPass DEF Passed, Running
<1>3. TypeInv'
  BY <1>0, <1>2 DEF TypeInv, Task, session
<1>4. SteadyInv'
  <2>1. ASSUME NEW s \in Distinct \cap steady, NEW i \in Slots, Holds(i, s)', Passed(i)'
        PROVE  AnnounceOf(s) \in sent'
    <3>1. Holds(i, s)
      BY <1>1, <2>1
    <3>2. CASE Passed(i)
      BY <1>0, <3>1, <3>2 DEF Inv, SteadyInv
    <3>3. CASE i = tx.slot
      <4>1. tx.id = IdOf[s] /\ tx.head = s
        BY <1>0, <3>1, <3>3 DEF Inv, SteadyInv
      <4>2. q = AnnounceOf(s)
        BY <3>1, <3>3, <4>1 DEF AnnounceOf, Holds
      <4> QED BY <1>0, <4>2
    <3> QED BY <1>2, <2>1, <3>2, <3>3
  <2>2. ASSUME NEW s \in Distinct \cap steady', NEW i \in Slots, Holds(i, s)'
        PROVE  /\ Passed(i)' => AnnounceOf(s) \in sent'
               /\ tx'.slot = i /\ tx'.pc \in {"head", "send"} => tx'.id = IdOf[s]
               /\ tx'.slot = i /\ tx'.pc = "send" => tx'.head = s
    BY <1>0, <1>2, <2>1, <2>2
  <2>3. steady' \subseteq registered' /\ (caller'.pc = "clear" => caller'.sdp \notin steady')
        /\ tx'.pc # "off"
    BY <1>0, <1>2 DEF Inv, SteadyInv, session
  <2> QED BY <2>2, <2>3 DEF SteadyInv, AnnounceOf, Packet
<1>5. QuietInv'
  <2> SUFFICES ASSUME quiet' = TRUE
               PROVE  QuietInv'
    BY DEF QuietInv
  <2>1. /\ caller.pc = "idle" /\ steady = registered /\ local[tx.slot].active = TRUE
        /\ tx.id = local[tx.slot].msg_id /\ tx.head = local[tx.slot].head
        /\ \A p \in sent : \A s \in Distinct :
             p.id = IdOf[s] => p = AnnounceOf(s) /\ s \in registered
    BY <1>0 DEF Inv, QuietInv, Running
  <2>2. ASSUME NEW s \in Distinct, q.id = IdOf[s]
        PROVE  q = AnnounceOf(s) /\ s \in registered
    <3>1. Known(tx.slot) /\ local[tx.slot].msg_id = IdOf[s]
      BY <2>1, <2>2 DEF Known, Packet
    <3>2. s \in registered
      BY <1>0, <2>1, <3>1 DEF Inv, TableInv, Writing
    <3>3. Holds(tx.slot, s)
      <4>1. PICK i \in Slots : Holds(i, s)
        BY <3>2 DEF Inv, TableInv
      <4>2. i = tx.slot
        BY <1>0, <3>1, <4>1 DEF Inv, TableInv, Holds
      <4> QED BY <4>1, <4>2
    <3>4. q = AnnounceOf(s)
      BY <2>1, <3>3 DEF AnnounceOf, Holds
    <3> QED BY <3>2, <3>4
  <2>3. \A p \in sent' : \A s \in Distinct : p.id = IdOf[s] => p = AnnounceOf(s) /\ s \in registered
    BY <1>0, <2>1, <2>2
  <2>4. caller'.pc = "idle" /\ steady' = registered' /\ registered' = registered
    BY <1>0, <2>1 DEF session
  <2> QED BY <1>2, <2>3, <2>4 DEF QuietInv, AnnounceOf, Packet
<1> QED BY <1>1, <1>3, <1>4, <1>5 DEF Inv

LEMMA TxWakeKeeps == ASSUME Inv, TxWake PROVE Inv'
<1>0. /\ UNCHANGED <<local, caller, session>> /\ TypeInv
      /\ tx' = [pc |-> "scan", slot |-> 1, id |-> None, head |-> None]
      /\ sent' = {} /\ quiet' = (caller.pc = "idle") /\ steady' = registered \ {caller.sdp}
  BY DEF TxWake, Inv
<1>1. CallInv' /\ TableInv'
  BY <1>0, PassKeepsTable
<1>2. 1 \in Slots /\ \A i \in Slots : ~(i < 1)
  BY SapLocalAssumption DEF Slots
<1>3. TypeInv'
  BY <1>0, <1>2 DEF TypeInv, Halves, session
<1>4. SteadyInv'
  <2>1. \A i \in Slots : ~Passed(i)'
    BY <1>0, <1>2 DEF Passed
  <2> QED BY <1>0, <2>1 DEF SteadyInv, session
<1>5. QuietInv'
  <2>1. caller.pc = "idle" => registered \ {caller.sdp} = registered
    BY <1>0, SapLocalAssumption DEF Inv, CallInv, TypeInv
  <2> QED BY <1>0, <2>1 DEF QuietInv, session
<1> QED BY <1>1, <1>3, <1>4, <1>5 DEF Inv

LEMMA StutterKeeps == Inv /\ UNCHANGED vars => Inv'
<1> SUFFICES ASSUME Inv, UNCHANGED vars
             PROVE  Inv'
  OBVIOUS
<1>1. CallInv' /\ TableInv' /\ \A s : \A i \in Slots : Holds(i, s)' <=> Holds(i, s)
  BY PassKeepsTable DEF vars
<1>2. TypeInv'
  BY DEF Inv, TypeInv, vars, session
<1>3. \A i : Passed(i)' <=> Passed(i)
  BY DEF Passed, Running, vars
<1>4. SteadyInv'
  BY <1>1, <1>3 DEF Inv, SteadyInv, vars, session, AnnounceOf, Packet
<1>5. QuietInv'
  BY DEF Inv, QuietInv, vars, session, Running, AnnounceOf, Packet
<1> QED BY <1>1, <1>2, <1>4, <1>5 DEF Inv

LEMMA InitInv == Init => Inv
<1> SUFFICES ASSUME Init
             PROVE  Inv
  OBVIOUS
<1>1. 1 \in Slots
  BY SapLocalAssumption DEF Slots
<1>2. TypeInv
  BY <1>1 DEF Init, TypeInv, NoCall, Halves
<1>3. \A i \in Slots : ~Known(i)
  BY DEF Init, Known
<1>4. CallInv
  BY DEF Init, CallInv, NoCall
<1>5. TableInv
  BY <1>3 DEF Init, TableInv
<1>6. SteadyInv
  BY DEF Init, SteadyInv, NoCall
<1>7. QuietInv
  BY DEF Init, QuietInv, NoCall, Running
<1> QED BY <1>2, <1>4, <1>5, <1>6, <1>7 DEF Inv

LEMMA NextInv == Inv /\ [Next]_vars => Inv'
BY CallsKeep, TxScanKeeps, TxLoadIdKeeps, TxCopyHeadKeeps, TxSendKeeps, TxWakeKeeps, StutterKeeps
   DEF Next

(* Whatever calls do to the table while the task reads it, the entry of a  *)
(* registered source stays as it was stored, and the pass announced those  *)
(* it has passed (aes67_sap_announce, aes67_sap_delete, sap_tx_task).      *)
THEOREM SapLocalInvariant == Spec => []Inv
BY InitInv, NextInv, PTL DEF Spec

(* A pass of sap_tx_task announces each source with an id of its own that  *)
(* was registered all the while, whole, whatever calls are made meanwhile. *)
THEOREM SteadySourcesAnnounced == Spec => []SteadyIsAnnounced
<1>1. Inv => SteadyIsAnnounced
  <2> SUFFICES ASSUME Inv, tx.pc = "wait", NEW s \in steady \cap Distinct
               PROVE  AnnounceOf(s) \in sent
    BY DEF SteadyIsAnnounced
  <2>1. PICK i \in Slots : Holds(i, s)
    BY DEF Inv, TableInv, SteadyInv
  <2>2. Passed(i)
    BY DEF Passed, Running
  <2> QED BY <2>1, <2>2 DEF Inv, SteadyInv
<1> QED BY <1>1, SapLocalInvariant, PTL

(* A pass of sap_tx_task that no call disturbs announces every registered  *)
(* source with an id of its own, whole, and no other such source.          *)
THEOREM QuietPassesAreExact == Spec => []QuietPassIsExact
<1>1. Inv => QuietPassIsExact
  <2> SUFFICES ASSUME Inv, tx.pc = "wait", quiet = TRUE
               PROVE  {p \in sent : \E s \in Distinct : IdOf[s] = p.id} =
                      {AnnounceOf(sdp) : sdp \in registered \cap Distinct}
    BY DEF QuietPassIsExact, Inv, TypeInv
  <2>1. \A p \in sent : \A s \in Distinct : p.id = IdOf[s] => p = AnnounceOf(s) /\ s \in registered
    BY DEF Inv, QuietInv
  <2>2. ASSUME NEW s \in registered \cap Distinct
        PROVE  AnnounceOf(s) \in sent /\ AnnounceOf(s).id = IdOf[s]
    <3>1. s \in steady
      BY DEF Inv, QuietInv, Running
    <3>2. PICK i \in Slots : Holds(i, s)
      BY DEF Inv, TableInv
    <3>3. Passed(i)
      BY DEF Passed, Running
    <3>4. AnnounceOf(s) \in sent
      BY <3>1, <3>2, <3>3 DEF Inv, SteadyInv
    <3> QED BY <3>4 DEF AnnounceOf, Packet
  <2> QED BY <2>1, <2>2
<1> QED BY <1>1, SapLocalInvariant, PTL

------------------------------------------------------------------------------
(* The packet time in the SDP that is announced.                           *)

(* Division of a number below 1000 into its digits.                        *)
LEMMA DigitsAdd ==
  ASSUME NEW n \in 0 .. 999
  PROVE  (n \div 100) * 100 + ((n \div 10) % 10) * 10 + (n % 10) = n
  BY SMT

(* Stripping drops zeros only: the digits that are read back are the same. *)
LEMMA StrippedDigits ==
  ASSUME NEW n \in 0 .. 999
  PROVE  /\ Digit(Stripped(n), 1) = n \div 100
         /\ Digit(Stripped(n), 2) = (n \div 10) % 10
         /\ Digit(Stripped(n), 3) = n % 10
<1> DEFINE a == n \div 100
           b == (n \div 10) % 10
           c == n % 10
<1>1. a \in Int /\ b \in Int /\ c \in Int
  BY SMT
<1>2. Stripped(n) = IF c # 0 THEN <<a, b, c>> ELSE IF b # 0 THEN <<a, b>>
                    ELSE IF a # 0 THEN <<a>> ELSE <<>>
  BY DEF Stripped
<1> HIDE DEF a, b, c
<1>3. Digit(Stripped(n), 1) = a /\ Digit(Stripped(n), 2) = b /\ Digit(Stripped(n), 3) = c
  <2>1. CASE c # 0
    BY <1>1, <1>2, <2>1 DEF Digit
  <2>2. CASE c = 0 /\ b # 0
    BY <1>1, <1>2, <2>2 DEF Digit
  <2>3. CASE c = 0 /\ b = 0 /\ a # 0
    BY <1>1, <1>2, <2>3 DEF Digit
  <2>4. CASE c = 0 /\ b = 0 /\ a = 0
    BY <1>1, <1>2, <2>4 DEF Digit
  <2> QED BY <2>1, <2>2, <2>3, <2>4
<1> QED BY <1>3 DEF a, b, c

LEMMA FitsIn16Bits ==
  ASSUME NEW x \in Int, 0 <= x, x < 65536
  PROVE  x % 65536 = x
  BY Z3

(* What is read back of the text of a fraction.                            *)
LEMMA FractionSurvives ==
  ASSUME NEW n \in 0 .. 999
  PROVE  Thousandths(Stripped(n)) = n
<1>1. Thousandths(Stripped(n)) = (n \div 100) * 100 + ((n \div 10) % 10) * 10 + (n % 10)
  BY StrippedDigits, Zenon DEF Thousandths
<1>2. (n \div 100) * 100 + ((n \div 10) % 10) * 10 + (n % 10) = n
  BY DigitsAdd, Zenon
<1> QED BY <1>1, <1>2, Zenon

(* Every packet time of 16 bits survives its text, so that a sink expects  *)
(* packets of the length its source sends (aes67_sdp.c).                   *)
THEOREM EveryPtimeSurvives ==
  ASSUME NEW us \in 0 .. 65535
  PROVE  PtimeSurvives(us)
<1> DEFINE q == us \div 1000
           r == us % 1000
<1>1. q \in Int /\ r \in 0 .. 999 /\ q * 1000 + r = us
  BY SMT
<1>2. PtimeText(us) = [ms |-> q, frac |-> Stripped(r)]
  BY DEF PtimeText
<1> HIDE DEF q, r
<1>3. Thousandths(Stripped(r)) = r
  BY <1>1, FractionSurvives
<1>4. parse_ptime_us([ms |-> q, frac |-> Stripped(r)]) = (q * 1000 + r) % 65536
  BY <1>3, SMT DEF parse_ptime_us
<1>5. us % 65536 = us
  BY FitsIn16Bits
<1>6. (q * 1000 + r) % 65536 = us
  BY <1>1, <1>5, SMT
<1> QED BY <1>2, <1>4, <1>6 DEF PtimeSurvives
==============================================================================
