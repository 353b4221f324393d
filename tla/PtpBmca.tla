------------------------------ MODULE PtpBmca ------------------------------
(***************************************************************************)
(* How the PTP daemons (ptpd.c) of several nodes choose a grandmaster      *)
(* among themselves.  A node without a valid source announces itself and   *)
(* sends syncs; a node that hears a better clock than itself, and than the *)
(* source it has, follows that clock until its syncs stop.                 *)
(*                                                                         *)
(* Announcements may be lost, delayed and reordered; nodes may fail and    *)
(* come back.  The timeout of a minute is far longer than the interval of  *)
(* the syncs, so a source that keeps sending them is not given up.         *)
(***************************************************************************)
EXTENDS Naturals

CONSTANTS
  Nodes,
  None,       \* no source selected yet
  Fields,     \* the fields of an announcement that are compared, as 1 .. n
  Identity    \* own_identity of a node: priority1, clock quality, priority2, identity

ASSUME PtpBmcaAssumption ==
  /\ Identity \in [Nodes -> [Fields -> Nat]]
  /\ None \notin Nodes

VARIABLES
  alive,   \* whether a node is switched on
  source,  \* state->selected_source, by its sender
  valid,   \* state->selected_source_valid
  air      \* announcements under way: <<sender, receiver>>

vars == <<alive, source, valid, air>>

(* A node with a valid source neither announces itself nor sends syncs. *)
Master(n) == alive[n] /\ ~valid[n]

Init ==
  /\ alive \in [Nodes -> BOOLEAN]
  /\ source = [n \in Nodes |-> None]
  /\ valid = [n \in Nodes |-> FALSE]
  /\ air = {}

------------------------------------------------------------------------------
(* A definition whose name extends the name of the one that follows it is  *)
(* a mutant of it: the bug that a property below must notice.              *)
IsBetterClockOrEqual(a, b) == \E i \in Fields : Identity[a][i] <= Identity[b][i]

(* is_better_clock: some field is smaller. *)
IsBetterClock(a, b) == \E i \in Fields : Identity[a][i] < Identity[b][i]

(* ptp_process_announce *)
Selects(m, n) ==
  /\ IsBetterClock(n, m)
  /\ ~valid[m] \/ IsBetterClock(n, source[m])

(* ptp_periodic_send: an announcement to one receiver. *)
SendAnnounce(n, m) ==
  /\ Master(n) /\ n # m /\ <<n, m>> \notin air
  /\ air' = air \cup {<<n, m>>}
  /\ UNCHANGED <<alive, source, valid>>

ProcessAnnounce(n, m) ==
  /\ <<n, m>> \in air /\ alive[m]
  /\ air' = air \ {<<n, m>>}
  /\ IF Selects(m, n)
     THEN /\ source' = [source EXCEPT ![m] = n]
          /\ valid' = [valid EXCEPT ![m] = TRUE]
     ELSE UNCHANGED <<source, valid>>
  /\ UNCHANGED alive

LoseAnnounce(n, m) ==
  /\ <<n, m>> \in air
  /\ air' = air \ {<<n, m>>}
  /\ UNCHANGED <<alive, source, valid>>

(* A sync of the selected source makes it valid again, even if the node    *)
(* had given it up (ptp_process_sync, is_selected_source_valid).           *)
ProcessSync(m) ==
  /\ alive[m] /\ ~valid[m]
  /\ source[m] # None /\ Master(source[m])
  /\ valid' = [valid EXCEPT ![m] = TRUE]
  /\ UNCHANGED <<alive, source, air>>

ExpireOnAnnounce(m) ==
  /\ alive[m] /\ valid[m] /\ ~Master(source[m])
  /\ \E n \in Nodes : <<n, m>> \in air
  /\ valid' = [valid EXCEPT ![m] = FALSE]
  /\ UNCHANGED <<alive, source, air>>

(* No sync came for NETUTILS_PTPD_TIMEOUT_MS: the source stays selected    *)
(* but is not valid any more.                                              *)
Expire(m) ==
  /\ alive[m] /\ valid[m] /\ ~Master(source[m])
  /\ valid' = [valid EXCEPT ![m] = FALSE]
  /\ UNCHANGED <<alive, source, air>>

(* A node is switched off: the daemon's state is gone. *)
Fail(n) ==
  /\ alive[n]
  /\ alive' = [alive EXCEPT ![n] = FALSE]
  /\ source' = [source EXCEPT ![n] = None]
  /\ valid' = [valid EXCEPT ![n] = FALSE]
  /\ UNCHANGED air

(* The daemon of a node starts. *)
Boot(n) ==
  /\ ~alive[n]
  /\ alive' = [alive EXCEPT ![n] = TRUE]
  /\ UNCHANGED <<source, valid, air>>

Next ==
  \/ \E n, m \in Nodes : SendAnnounce(n, m) \/ ProcessAnnounce(n, m) \/ LoseAnnounce(n, m)
  \/ \E n \in Nodes : ProcessSync(n) \/ Expire(n) \/ Fail(n) \/ Boot(n)

Spec == Init /\ [][Next]_vars

------------------------------------------------------------------------------
(* The comparison orders the nodes' clocks, as it does if their priorities *)
(* and qualities are the same and only their identities differ.            *)
Ordered == \A a, b \in Nodes : IsBetterClock(a, b) => ~IsBetterClock(b, a)

(* Types; only a running daemon has a valid source, which is another node. *)
TypeOK ==
  /\ alive \in [Nodes -> BOOLEAN]
  /\ source \in [Nodes -> Nodes \cup {None}]
  /\ valid \in [Nodes -> BOOLEAN]
  /\ air \subseteq Nodes \X Nodes
  /\ \A n \in Nodes : valid[n] => alive[n] /\ source[n] \in Nodes \ {n}

Follows(m, n) == valid[m] /\ source[m] = n

(* Two nodes never follow each other, or neither would send syncs          *)
(* (is_better_clock, ptp_process_announce).                                *)
NoMutualSlaves == \A m, n \in Nodes : ~(Follows(m, n) /\ Follows(n, m))

Grandmaster(g) ==
  /\ Master(g)
  /\ \A m \in Nodes \ {g} : alive[m] => Follows(m, g) /\ IsBetterClock(g, m)

(* Unless nodes fail and come back forever, the best of those that are on  *)
(* becomes the one grandmaster, and stays it (component README: "BMCA      *)
(* promotes this node to GM when no better clock is present").             *)
OneGrandmaster ==
  \/ []<><<alive' # alive>>_alive
  \/ <>[](\E g \in Nodes : Grandmaster(g))
  \/ <>[](\A n \in Nodes : ~alive[n])

(* Kconfig.projbuild on priority1, the first field: "A higher priority1    *)
(* clock will be selected without regard to announced clock quality        *)
(* fields."  A node then never follows one of lower priority than its own. *)
PriorityIsObeyed ==
  \A m, n \in Nodes : Follows(m, n) => Identity[n][1] <= Identity[m][1]
==============================================================================
