------------------------------ MODULE SapLocal ------------------------------
(***************************************************************************)
(* Announcing local sources (aes67_sap.c, aes67_session.c): the table of   *)
(* announced sources that the session writes and sap_tx_task reads with no *)
(* lock between them.                                                      *)
(*                                                                         *)
(* The session's lock admits one caller of aes67_sap_announce and          *)
(* aes67_sap_delete at a time.  Each of the caller's stores that the TX    *)
(* task can see is a step, and so is each load of the TX task.  An SDP     *)
(* text is copied in two halves, so that a copy may mix two texts.         *)
(***************************************************************************)
EXTENDS FiniteSets, SequencesExt

CONSTANTS
  Sources,   \* the SDPs announced over time; no two are alike
  Ids,       \* SAP message ids
  IdOf,      \* the message id of a source: CRC16 of its SDP, may collide
  None,      \* the content of an empty slot
  MaxLocal   \* SAP_MAX_LOCAL

ASSUME SapLocalAssumption ==
  /\ IdOf \in [Sources -> Ids]
  /\ None \notin Sources
  /\ MaxLocal \in Nat \ {0}

VARIABLES
  local,      \* ctx->local: [active, msg_id, head, tail], head and tail the SDP's halves
  caller,     \* the call in progress: [pc, sdp, slot, fresh]
  registered, \* the sources that were announced and not removed
  refused,    \* the sources the session keeps although the table was full
  removed,    \* the sources the session removed
  tx,         \* sap_tx_task: [pc, slot, id, head]; "off" until aes67_sap_start
  sent,       \* history: the packets sent since the current pass began
  quiet,      \* history: no call took a step since the current pass began
  steady      \* history: sources registered from the start of the pass until now

session == <<registered, refused, removed>>
vars    == <<local, caller, session, tx, sent, quiet, steady>>

Slots   == 1 .. MaxLocal
Halves  == Sources \cup {None}
Packet(kind, id, head, tail) == [kind |-> kind, id |-> id, head |-> head, tail |-> tail]
AnnounceOf(sdp) == Packet("announce", IdOf[sdp], sdp, sdp)
NoCall  == [pc |-> "idle", sdp |-> None, slot |-> 0, fresh |-> FALSE]

Running == tx.pc # "off"

Init ==
  /\ local = [i \in Slots |-> [active |-> FALSE, msg_id |-> None, head |-> None, tail |-> None]]
  /\ caller = NoCall
  /\ registered = {} /\ refused = {} /\ removed = {}
  /\ tx = [pc |-> "off", slot |-> 1, id |-> None, head |-> None]
  /\ sent = {} /\ quiet = TRUE /\ steady = {}

------------------------------------------------------------------------------
(* The caller: aes67_sap_announce updates the active entry with the same   *)
(* id, takes the first free slot, or refuses.                              *)
Matching(id) == {i \in Slots : local[i].active /\ local[i].msg_id = id}
Free         == {i \in Slots : ~local[i].active}
First(S)     == CHOOSE i \in S : \A j \in S : i <= j

Call(pc, sdp, slot, fresh) ==
  caller' = [pc |-> pc, sdp |-> sdp, slot |-> slot, fresh |-> fresh]

AnnounceUpdate(sdp) ==
  /\ Matching(IdOf[sdp]) # {}
  /\ Call("head", sdp, First(Matching(IdOf[sdp])), FALSE)
  /\ UNCHANGED <<local, refused>>

AnnounceNew(sdp) ==
  /\ Matching(IdOf[sdp]) = {} /\ Free # {}
  /\ local' = [local EXCEPT ![First(Free)].active = TRUE]
  /\ Call("id", sdp, First(Free), TRUE)
  /\ UNCHANGED refused

AnnounceRefused(sdp) ==
  /\ Matching(IdOf[sdp]) = {} /\ Free = {}
  /\ refused' = refused \cup {sdp}
  /\ UNCHANGED <<local, caller>>

Announce(sdp) ==
  /\ caller.pc = "idle" /\ sdp \notin registered \cup refused \cup removed
  /\ AnnounceUpdate(sdp) \/ AnnounceNew(sdp) \/ AnnounceRefused(sdp)
  /\ quiet' = FALSE
  /\ UNCHANGED <<registered, removed, tx, sent, steady>>

SetId ==
  /\ caller.pc = "id"
  /\ local' = [local EXCEPT ![caller.slot].msg_id = IdOf[caller.sdp]]
  /\ caller' = [caller EXCEPT !.pc = "head"]
  /\ quiet' = FALSE
  /\ UNCHANGED <<session, tx, sent, steady>>

SetSdpHead ==
  /\ caller.pc = "head"
  /\ local' = [local EXCEPT ![caller.slot].head = caller.sdp]
  /\ caller' = [caller EXCEPT !.pc = "tail"]
  /\ quiet' = FALSE
  /\ UNCHANGED <<session, tx, sent, steady>>

(* The last store of a call; a new source is also announced at once. *)
SetSdpTail ==
  /\ caller.pc = "tail"
  /\ local' = [local EXCEPT ![caller.slot].tail = caller.sdp]
  /\ registered' = registered \cup {caller.sdp}
  /\ sent' = sent \cup {p \in {AnnounceOf(caller.sdp)} : caller.fresh /\ Running}
  /\ caller' = NoCall
  /\ quiet' = FALSE
  /\ UNCHANGED <<refused, removed, tx, steady>>

(* aes67_sap_delete sends the deletion first ...                           *)
Delete(sdp) ==
  /\ caller.pc = "idle" /\ sdp \in registered \cup refused
  /\ sent' = sent \cup {p \in {Packet("delete", IdOf[sdp], sdp, sdp)} : Running}
  /\ Call("clear", sdp, 0, FALSE)
  /\ steady' = steady \ {sdp}
  /\ quiet' = FALSE
  /\ UNCHANGED <<local, session, tx>>

Forget(sdp) ==
  /\ registered' = registered \ {sdp}
  /\ refused' = refused \ {sdp}
  /\ removed' = removed \cup {sdp}
  /\ caller' = NoCall
  /\ quiet' = FALSE

DeleteEntryKeepsSlot ==
  /\ caller.pc = "clear"
  /\ Forget(caller.sdp)
  /\ UNCHANGED <<local, tx, sent, steady>>

(* ... and then frees the entry, if there is one with this id.             *)
DeleteEntry ==
  /\ caller.pc = "clear"
  /\ local' = IF Matching(IdOf[caller.sdp]) = {} THEN local
              ELSE [local EXCEPT ![First(Matching(IdOf[caller.sdp]))].active = FALSE]
  /\ Forget(caller.sdp)
  /\ UNCHANGED <<tx, sent, steady>>

------------------------------------------------------------------------------
(* sap_tx_task: one pass over the slots, then the wait for the next one.   *)
(* A definition whose name extends the name of the one that follows it is  *)
(* a mutant of it: the bug that a property below must notice.              *)
TxNextSlot(t) == IF t.slot = MaxLocal THEN [t EXCEPT !.pc = "wait"]
                                      ELSE [t EXCEPT !.pc = "scan", !.slot = @ + 1]

TxScanStopsAtGap ==
  /\ tx.pc = "scan"
  /\ tx' = IF local[tx.slot].active THEN [tx EXCEPT !.pc = "load"] ELSE [tx EXCEPT !.pc = "wait"]
  /\ UNCHANGED <<local, caller, session, sent, quiet, steady>>

TxScan ==
  /\ tx.pc = "scan"
  /\ tx' = IF local[tx.slot].active THEN [tx EXCEPT !.pc = "load"] ELSE TxNextSlot(tx)
  /\ UNCHANGED <<local, caller, session, sent, quiet, steady>>

TxLoadId ==
  /\ tx.pc = "load"
  /\ tx' = [tx EXCEPT !.pc = "head", !.id = local[tx.slot].msg_id]
  /\ UNCHANGED <<local, caller, session, sent, quiet, steady>>

TxCopyHead ==
  /\ tx.pc = "head"
  /\ tx' = [tx EXCEPT !.pc = "send", !.head = local[tx.slot].head]
  /\ UNCHANGED <<local, caller, session, sent, quiet, steady>>

TxSend ==
  /\ tx.pc = "send"
  /\ sent' = sent \cup {Packet("announce", tx.id, tx.head, local[tx.slot].tail)}
  /\ tx' = TxNextSlot(tx)
  /\ UNCHANGED <<local, caller, session, quiet, steady>>

(* aes67_sap_start creates the task; later the next interval begins. *)
TxWake ==
  /\ tx.pc \in {"off", "wait"}
  /\ tx' = [pc |-> "scan", slot |-> 1, id |-> None, head |-> None]
  /\ sent' = {} /\ quiet' = (caller.pc = "idle")
  /\ steady' = registered \ {caller.sdp}
  /\ UNCHANGED <<local, caller, session>>

Next ==
  \/ \E sdp \in Sources : Announce(sdp)
  \/ SetId
  \/ SetSdpHead
  \/ SetSdpTail
  \/ \E sdp \in Sources : Delete(sdp)
  \/ DeleteEntry
  \/ TxScan
  \/ TxLoadId
  \/ TxCopyHead
  \/ TxSend
  \/ TxWake

Spec == Init /\ [][Next]_vars

------------------------------------------------------------------------------
(* The sources whose message id no other source shares. *)
Distinct == {s \in Sources : \A t \in Sources \ {s} : IdOf[t] # IdOf[s]}

(* A pass of sap_tx_task that no call disturbed announced every registered *)
(* source, each under its own id with its whole SDP, and nothing that was  *)
(* removed or refused: slots are neither lost nor announced twice, in      *)
(* spite of gaps and reuse.  Two sources whose ids collide share an entry  *)
(* and are not covered.                                                    *)
QuietPassIsExact ==
  tx.pc = "wait" /\ quiet =>
    {p \in sent : \E s \in Distinct : IdOf[s] = p.id} =
    {AnnounceOf(sdp) : sdp \in registered \cap Distinct}

(* Every pass, also one that calls disturb, announces each source that was *)
(* registered when the pass began and is still not being removed, whole    *)
(* and under its own id.                                                   *)
SteadyIsAnnounced ==
  tx.pc = "wait" => {AnnounceOf(sdp) : sdp \in steady \cap Distinct} \subseteq sent
=============================================================================
