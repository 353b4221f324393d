------------------------------ MODULE SapRemote ------------------------------
(***************************************************************************)
(* SAP discovery (aes67_sap.c): the table of remote sources that sap_rx    *)
(* builds from announcements, deletions and silence, and the events its    *)
(* callback reports.  The other nodes run the same sap_tx_task: every      *)
(* TxInterval a node announces its sources, and the network may lose some  *)
(* of the packets.                                                         *)
(*                                                                         *)
(* Time passes in units of which the intervals of the code are multiples.  *)
(* The receive task keeps up: it handles what arrived, and a select() that *)
(* timed out, before the next unit begins.  Within a unit the order of     *)
(* arrivals, wake-ups and the senders' actions is free.  An entry holds    *)
(* its age, what the code computes as tick count minus last_seen.          *)
(***************************************************************************)
EXTENDS Integers, SequencesExt

CONSTANTS
  Nodes,         \* the remote nodes: origin_ip
  Keys,          \* the sources: [ip, id], origin_ip and SAP message id
  MaxRemote,     \* SAP_MAX_REMOTE
  TxInterval,    \* SAP_TX_INTERVAL_MS
  SelectTimeout, \* the select() timeout of sap_rx_task
  Timeout,       \* SAP_TIMEOUT_MS
  MaxMissed,     \* announcements of a source the network loses in a row
  InboxMax       \* packets that wait in the socket: bounds the model

ASSUME SapRemoteAssumption ==
  /\ IsFiniteSet(Keys)
  /\ \A k \in Keys : k = [ip |-> k.ip, id |-> k.id] /\ k.ip \in Nodes
  /\ {MaxRemote, TxInterval, SelectTimeout, Timeout, MaxMissed, InboxMax} \subseteq Nat \ {0}

VARIABLES
  remote,  \* ctx->remote[0 .. remote_count - 1], as [key, age]
  waited,  \* time sap_rx_task has been in select()
  balance, \* history: "discovered" minus "lost" events of each key
  sender,  \* each source: not yet added, announced or removed by its node
  tx_wait, \* time since each node's last announcement round
  missed,  \* announcements lost since one was last handled
  inbox    \* packets in the socket, oldest first, as [delete, key]

rx   == <<remote, waited, balance>>
net  == <<sender, tx_wait, missed>>
vars == <<rx, net, inbox>>

Announce(k) == [delete |-> FALSE, key |-> k]
Delete(k)   == [delete |-> TRUE, key |-> k]
On          == {k \in Keys : sender[k] = "announced"}

------------------------------------------------------------------------------
(* A definition whose name extends the name of the one that follows it is  *)
(* a mutant of it: the bug that a property below must notice.              *)

SameSourceById(e, k) == e.key.id = k.id

(* find_remote compares both fields. *)
SameSource(e, k) == e.key.ip = k.ip /\ e.key.id = k.id

FindRemote(t, k) ==  \* 0 if none
  LET I == {i \in DOMAIN t : SameSource(t[i], k)} IN IF I = {} THEN 0 ELSE CHOOSE i \in I : TRUE

Expired(e) == e.age >= Timeout

TableFull(t) == Len(t) >= MaxRemote

RemovedCopiedLate(t, i) == IF i < Len(t) THEN t[i + 1].key ELSE t[i].key

(* The entry an event names is copied before remove_remote compacts. *)
Removed(t, i) == t[i].key

(* What the table becomes, and the events: +1 discovered, -1 lost. *)
Outcome(t, k, d) == [table |-> t, events |-> [l \in Keys |-> IF l = k THEN d ELSE 0]]
Nothing(t)       == [table |-> t, events |-> [l \in Keys |-> 0]]

(* handle_sap_rx: an announcement refreshes its entry without an event, or *)
(* appends one unless the table is full; a deletion removes its entry.     *)
HandleSapRx(t, p) ==
  LET i == FindRemote(t, p.key) IN
  IF p.delete
  THEN IF i > 0 THEN Outcome(RemoveAt(t, i), Removed(t, i), -1) ELSE Nothing(t)
  ELSE IF i > 0 THEN Nothing([t EXCEPT ![i].age = 0])
  ELSE IF TableFull(t) THEN Nothing(t)
  ELSE Outcome(Append(t, [key |-> p.key, age |-> 0]), p.key, 1)

(* expire_remote_sources walks down, so that a removal moves only entries  *)
(* it has seen.                                                            *)
ExpireRemoteSources(o) ==
  LET n == Len(o.table)
      down[i \in 1 .. n + 1] ==
        IF i = n + 1 THEN o
        ELSE LET u == down[i + 1] IN
             IF Expired(u.table[i])
             THEN [table  |-> RemoveAt(u.table, i),
                   events |-> [u.events EXCEPT ![Removed(u.table, i)] = @ - 1]]
             ELSE u
  IN  down[1]

------------------------------------------------------------------------------
Init ==
  /\ remote = <<>> /\ waited = 0
  /\ balance = [k \in Keys |-> 0]
  /\ sender = [k \in Keys |-> "new"]
  /\ tx_wait \in [Nodes -> 0 .. TxInterval]
  /\ missed = [k \in Keys |-> 0]
  /\ inbox = <<>>

Update(o) ==
  /\ remote' = o.table
  /\ balance' = [k \in Keys |-> balance[k] + o.events[k]]

RxPacketNoExpire ==
  /\ inbox # <<>>
  /\ Update(HandleSapRx(remote, Head(inbox)))
  /\ inbox' = Tail(inbox)
  /\ waited' = 0
  /\ missed' = [missed EXCEPT ![Head(inbox).key] = 0]
  /\ UNCHANGED <<sender, tx_wait>>

(* sap_rx_task: select() reports a packet; it is handled, then the table   *)
(* is swept.                                                               *)
RxPacket ==
  /\ inbox # <<>>
  /\ Update(ExpireRemoteSources(HandleSapRx(remote, Head(inbox))))
  /\ inbox' = Tail(inbox)
  /\ waited' = 0
  /\ missed' = [missed EXCEPT ![Head(inbox).key] = 0]
  /\ UNCHANGED <<sender, tx_wait>>

(* sap_rx_task: select() timed out; the table is swept. *)
RxTimeout ==
  /\ waited = SelectTimeout
  /\ Update(ExpireRemoteSources(Nothing(remote)))
  /\ waited' = 0
  /\ UNCHANGED <<net, inbox>>

Arrive(packets) ==
  /\ Len(inbox \o packets) <= InboxMax
  /\ inbox' = inbox \o packets

(* The network delivers the announcements of ks but loses those of lost.   *)
Transmit(ks, lost) ==
  /\ \A k \in lost : missed[k] < MaxMissed
  /\ missed' = [k \in Keys |-> IF k \in lost THEN missed[k] + 1
                                               ELSE missed[k]]
  /\ Arrive(SetToSeq({Announce(k) : k \in ks \ lost}))

(* A node adds a source: aes67_sap_announce sends it at once. *)
AddSource(k) ==
  /\ sender[k] = "new"
  /\ sender' = [sender EXCEPT ![k] = "announced"]
  /\ \E lost \in SUBSET {k} : Transmit({k}, lost)
  /\ UNCHANGED <<rx, tx_wait>>

(* One round of a node's sap_tx_task. *)
TxRound(n) ==
  /\ tx_wait[n] = TxInterval
  /\ tx_wait' = [tx_wait EXCEPT ![n] = 0]
  /\ LET ks == {k \in On : k.ip = n}
     IN  \E lost \in SUBSET ks : Transmit(ks, lost)
  /\ UNCHANGED <<rx, sender>>

(* A node removes a source, or dies: the deletion may get lost, and the    *)
(* node's sap_tx_task, had it just read the entry, announces it once more. *)
(* A node never reuses the message id of a session.                        *)
RemoveSource(k) ==
  /\ k \in On
  /\ sender' = [sender EXCEPT ![k] = "removed"]
  /\ missed' = [missed EXCEPT ![k] = 0]
  /\ \E ps \in {<<>>, <<Delete(k)>>, <<Delete(k), Announce(k)>>} : Arrive(ps)
  /\ UNCHANGED <<rx, tx_wait>>

(* Time passes once everything that is due has been done. *)
Tick ==
  /\ inbox = <<>> /\ waited < SelectTimeout
  /\ \A n \in Nodes : tx_wait[n] < TxInterval
  /\ remote' = [i \in DOMAIN remote |-> [remote[i] EXCEPT !.age = @ + 1]]
  /\ waited' = waited + 1
  /\ tx_wait' = [n \in Nodes |-> tx_wait[n] + 1]
  /\ UNCHANGED <<balance, sender, missed, inbox>>

Next ==
  \/ RxPacket
  \/ RxTimeout
  \/ \E k \in Keys : AddSource(k)
  \/ \E n \in Nodes : TxRound(n)
  \/ \E k \in Keys : RemoveSource(k)
  \/ Tick

Spec == Init /\ [][Next]_vars

------------------------------------------------------------------------------
(* The callback's events add up to the table: a source is reported         *)
(* discovered and lost in turn, the entry an event names is the one that   *)
(* came or went, no source has two entries, and the table never outgrows   *)
(* its array (handle_sap_rx, expire_remote_sources, remove_remote).        *)
EventsMatchTable ==
  /\ Len(remote) <= MaxRemote
  /\ \A k \in Keys :
       balance[k] = Cardinality({i \in DOMAIN remote : remote[i].key = k}) /\ balance[k] <= 1

KnownKeys == {remote[i].key : i \in DOMAIN remote}

(* A source whose node still announces it is dropped only after four       *)
(* announcements in a row were lost (SAP_TIMEOUT_MS against                *)
(* SAP_TX_INTERVAL_MS), and never by the packets of another source.        *)
NoFalseLoss ==
  [][\A k \in On \cap KnownKeys :
       k \notin KnownKeys' => missed[k] >= Timeout \div TxInterval - 1]_vars

(* A source that fell silent, whatever happened to its deletion, leaves    *)
(* the table within the timeout and one select(), also when other sources  *)
(* keep the receive task busy.  It also keeps every age far below the wrap *)
(* of the tick counter, where the unsigned subtraction would be wrong.     *)
SilenceIsNoticed ==
  \A i \in DOMAIN remote : remote[i].age <= Timeout + SelectTimeout
=============================================================================
