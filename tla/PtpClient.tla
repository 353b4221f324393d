------------------------------ MODULE PtpClient ------------------------------
(***************************************************************************)
(* How one of the PTP daemons of PtpBmca keeps its clock: two-step syncs,  *)
(* the steps of the clock, and the path delay that it measures with delay  *)
(* requests (ptpd.c).  Every message is sent twice, on the tap and by UDP, *)
(* and arrives twice, once or not at all.                                  *)
(*                                                                         *)
(* Of the time only the scale matters, the time that a clock shows up to a *)
(* second: a clock in the scale of its master is slewed, one in another is *)
(* stepped, and a path delay from two scales is out of range.              *)
(***************************************************************************)
EXTENDS PtpBmca

CONSTANTS
  Me,       \* the daemon whose clock it is
  Scale,    \* the scale of every node's own clock
  Astray,   \* the scale of a clock that follows none
  Copies    \* of every message

ASSUME PtpClientAssumption ==
  /\ Me \in Nodes
  /\ Scale \in [Nodes -> STRING] /\ Astray \notin {Scale[n] : n \in Nodes}
  /\ Copies \in Nat \ {0}

VARIABLES
  clock,    \* the scale of Me's clock
  twostep,  \* twostep_packet: [of, followups under way, whether twostep_rxtime is in the scale]
  settled,  \* history: a sync of the source was used since it was selected
  request,  \* whom delayreq_time is of a request to, None if no answer can be in range
  delays    \* whom the requests were sent to whose answers are averaged in path_delay_ns

clientVars == <<clock, twostep, settled, request, delays>>
allVars    == <<vars, clientVars>>

NoSync == [of |-> None, followups |-> 0, fresh |-> TRUE]

ClientInit ==
  /\ Init
  /\ clock = Astray
  /\ twostep = NoSync
  /\ settled = FALSE
  /\ request = None
  /\ delays = {}

------------------------------------------------------------------------------
(* ptp_process_announce: a new source starts with no path delay, and the   *)
(* time of the request to the old one is set to zero.                      *)
SelectKeepsRequest(n) ==
  /\ ProcessAnnounce(n, Me)
  /\ IF Selects(Me, n)
     THEN settled' = FALSE /\ delays' = {}
     ELSE UNCHANGED <<settled, delays>>
  /\ UNCHANGED <<clock, twostep, request>>

Select(n) ==
  /\ ProcessAnnounce(n, Me)
  /\ IF Selects(Me, n)
     THEN settled' = FALSE /\ delays' = {} /\ request' = None
     ELSE UNCHANGED <<settled, delays, request>>
  /\ UNCHANGED <<clock, twostep>>

(* ptp_process_sync: of the selected source only, the second copy as the   *)
(* first.                                                                  *)
From(n) == Master(n) /\ alive[Me] /\ IF valid[Me] THEN UNCHANGED vars ELSE ProcessSync(Me)

ReceiveSyncOfAny(n) ==
  /\ n # Me /\ source[Me] # None /\ Master(n) /\ valid[Me] /\ UNCHANGED vars
  /\ twostep' = [of |-> n, followups |-> Copies, fresh |-> TRUE]
  /\ UNCHANGED <<clock, settled, request, delays>>

ReceiveSyncKeepsTime(n) ==
  /\ n = source[Me] /\ From(n)
  /\ twostep' = [of |-> n, followups |-> Copies, fresh |-> twostep.fresh]
  /\ UNCHANGED <<clock, settled, request, delays>>

ReceiveSync(n) ==
  /\ n = source[Me] /\ From(n)
  /\ twostep' = [of |-> n, followups |-> Copies, fresh |-> TRUE]
  /\ UNCHANGED <<clock, settled, request, delays>>

(* ptp_process_followup: of the sync that is waiting for it.               *)
FollowUp ==
  /\ alive[Me] /\ twostep.followups > 0
  /\ settled' = (settled \/ twostep.of = source[Me])
  /\ UNCHANGED <<vars, delays>>

Used(fresh) ==
  IF twostep.followups = 1 THEN NoSync
  ELSE [of |-> twostep.of, followups |-> twostep.followups - 1, fresh |-> fresh]

(* ptp_update_local_clock steps the clock by the difference of the remote  *)
(* time and the local time of the sync, which is from before the step when *)
(* a second copy arrives: the step is made once more.  The time of the     *)
(* last request is in the old scale then ...                               *)
Jump ==
  /\ FollowUp
  /\ twostep.fresh => clock # Scale[twostep.of]
  /\ clock' = IF twostep.fresh THEN Scale[twostep.of] ELSE Astray
  /\ twostep' = Used(FALSE)
  /\ request' = None

(* ... or slews it (ptp_lock_local_clock_freq).                            *)
Slew ==
  /\ FollowUp
  /\ twostep.fresh /\ clock = Scale[twostep.of]
  /\ twostep' = Used(TRUE)
  /\ UNCHANGED <<clock, request>>

(* ptp_periodic_send, ptp_send_delay_req: to the source that is selected   *)
(* at the end of the pass of the loop that slewed the clock.  When the     *)
(* interval is over and the offset is stable is left open.                 *)
SendDelayReq ==
  /\ valid[Me]
  /\ request' = IF clock = Scale[source[Me]] THEN source[Me] ELSE None
  /\ UNCHANGED <<vars, clock, twostep, settled, delays>>

(* ptp_process_delay_req: every master answers, whoever the request was    *)
(* meant for.                                                              *)
Answers(n) == n # Me /\ Master(n)

(* ptp_process_delay_resp: of the source, to the last request, early, late *)
(* or again.  Both times must be in one scale, or it is out of range.      *)
ProcessDelayResp(n) ==
  /\ valid[Me] /\ n = source[Me]
  /\ request # None /\ Answers(n)
  /\ delays' = delays \cup {request}
  /\ UNCHANGED <<vars, clock, twostep, settled, request>>

(* A failure takes the daemon's state, and its clock's time. *)
FailMe ==
  /\ Fail(Me)
  /\ clock' = Astray
  /\ twostep' = NoSync
  /\ settled' = FALSE
  /\ request' = None
  /\ delays' = {}

(* What the daemons do without touching the clock of Me. *)
Elsewhere ==
  /\ \/ \E n, m \in Nodes : SendAnnounce(n, m) \/ LoseAnnounce(n, m)
     \/ \E n \in Nodes, m \in Nodes \ {Me} : ProcessAnnounce(n, m)
     \/ \E m \in Nodes \ {Me} : ProcessSync(m) \/ Fail(m)
     \/ \E m \in Nodes : Expire(m) \/ Boot(m)
  /\ UNCHANGED clientVars

ClientNext ==
  \/ \E n \in Nodes : Select(n) \/ ReceiveSync(n) \/ ProcessDelayResp(n)
  \/ Jump \/ Slew
  \/ SendDelayReq
  \/ FailMe
  \/ Elsewhere

ClientSpec == ClientInit /\ [][ClientNext]_allVars

Others == Nodes \ {Me}

ClientFairSpec ==
  /\ ClientSpec
  /\ \A n \in Nodes : \A m \in Nodes \ {n} : WF_allVars(SendAnnounce(n, m) /\ UNCHANGED clientVars)
  /\ \A m \in Others : \A n \in Nodes \ {m} : SF_allVars(ProcessAnnounce(n, m) /\ UNCHANGED clientVars)
  /\ \A n \in Others : SF_allVars(Select(n))
  /\ \A m \in Others : WF_allVars(ProcessSync(m) /\ UNCHANGED clientVars)
  /\ \A m \in Nodes : WF_allVars(Expire(m) /\ UNCHANGED clientVars)
  /\ WF_allVars(\E n \in Others : ReceiveSync(n))
  /\ WF_allVars(Jump \/ Slew)

------------------------------------------------------------------------------
(* Once a sync of the selected source was used, no follow-up of another    *)
(* one, however late, is used until another one is selected: the follow-up *)
(* itself is only compared with the sync that waits for it                 *)
(* (ptp_process_sync, ptp_process_followup).                               *)
StaysWithSource ==
  settled /\ twostep.followups > 0 => twostep.of = source[Me]

(* The path delay is made of answers to requests to the selected source    *)
(* only, though it answers the request to the source before it as well, at *)
(* any time and more than once (ptp_process_announce, ptp_process_delay_resp). *)
DelayIsOfOneMaster == delays \subseteq {source[Me]}

Following == alive[Me] /\ valid[Me] /\ Master(source[Me])

(* A daemon that goes on following a master has its clock in the time      *)
(* scale of that master again and again, though the second copy of a       *)
(* follow-up may step it out of it (ptp_update_local_clock).               *)
ComesBackInStep == []<>(Following => clock = Scale[source[Me]])
=============================================================================
