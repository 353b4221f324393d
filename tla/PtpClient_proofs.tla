--------------------------- MODULE PtpClient_proofs ---------------------------
(***************************************************************************)
(* Proofs about PtpBmca and PtpClient for any number of nodes, scales of   *)
(* time and copies of a message: who follows whom, and which master the    *)
(* syncs and the delay answers that a daemon uses belong to.               *)
(*                                                                         *)
(* NoMutualSlaves needs two things: that is_better_clock orders the clocks *)
(* (the assumption Ordered) and that a node only ever selects a clock      *)
(* better than its own, which is the inductive invariant SelectedIsBetter. *)
(*                                                                         *)
(* Neither property of the client is inductive.  That the follow-ups are   *)
(* of the source needs that a sync waiting for a follow-up is of the       *)
(* source it was received from, unless another one was selected since;     *)
(* that the answers are needs that the time of the last request is of one  *)
(* to the source.                                                          *)
(***************************************************************************)
EXTENDS PtpClient, TLAPS

(* A source, once selected, stays a better clock, also while it is not     *)
(* valid: a late sync may make it valid again.                             *)
SelectedIsBetter == \A m \in Nodes : source[m] # None => IsBetterClock(source[m], m)

------------------------------------------------------------------------------
(* The daemons start without a source. *)
LEMMA InitType == Init => TypeOK /\ SelectedIsBetter
BY PtpBmcaAssumption DEF Init, TypeOK, SelectedIsBetter

(* No clock is better than itself. *)
LEMMA NotBetterThanItself == \A n \in Nodes : ~IsBetterClock(n, n)
<1> SUFFICES ASSUME NEW n \in Nodes, NEW i \in Fields, Identity[n][i] < Identity[n][i]
             PROVE  FALSE
  BY DEF IsBetterClock
<1>1. Identity[n][i] \in Nat
  BY PtpBmcaAssumption
<1> QED BY <1>1

(* Every step of a daemon, of the network or of a power switch keeps both. *)
LEMMA NextType ==
  ASSUME TypeOK, SelectedIsBetter, [Next]_vars
  PROVE  TypeOK' /\ SelectedIsBetter'
<1> USE PtpBmcaAssumption DEF TypeOK, SelectedIsBetter
<1>1. CASE UNCHANGED vars
  BY <1>1 DEF vars
<1>2. ASSUME NEW n \in Nodes, NEW m \in Nodes, SendAnnounce(n, m)
      PROVE  TypeOK' /\ SelectedIsBetter'
  BY <1>2 DEF SendAnnounce
<1>3. ASSUME NEW n \in Nodes, NEW m \in Nodes, ProcessAnnounce(n, m)
      PROVE  TypeOK' /\ SelectedIsBetter'
  <2>1. CASE Selects(m, n)
    <3>1. n # m
      BY <2>1, NotBetterThanItself DEF Selects
    <3>2. TypeOK'
      <4>1. /\ alive' = alive /\ alive[m]
            /\ source' = [source EXCEPT ![m] = n]
            /\ valid' = [valid EXCEPT ![m] = TRUE]
            /\ air' \subseteq Nodes \X Nodes
        BY <1>3, <2>1 DEF ProcessAnnounce
      <4>2. \A k \in Nodes : valid'[k] => alive'[k] /\ source'[k] \in Nodes \ {k}
        <5> SUFFICES ASSUME NEW k \in Nodes, valid'[k]
                     PROVE  alive'[k] /\ source'[k] \in Nodes \ {k}
          OBVIOUS
        <5>1. CASE k = m
          BY <5>1, <4>1, <3>1
        <5>2. CASE k # m
          <6>1. valid'[k] = valid[k] /\ source'[k] = source[k]
            BY <5>2, <4>1
          <6> QED BY <6>1, <4>1
        <5> QED BY <5>1, <5>2
      <4> QED BY <4>1, <4>2
    <3>3. SelectedIsBetter'
      BY <1>3, <2>1 DEF ProcessAnnounce, Selects
    <3> QED BY <3>2, <3>3
  <2>2. CASE ~Selects(m, n)
    BY <1>3, <2>2 DEF ProcessAnnounce
  <2> QED BY <2>1, <2>2
<1>4. ASSUME NEW n \in Nodes, NEW m \in Nodes, LoseAnnounce(n, m)
      PROVE  TypeOK' /\ SelectedIsBetter'
  BY <1>4 DEF LoseAnnounce
<1>5. ASSUME NEW m \in Nodes, ProcessSync(m)
      PROVE  TypeOK' /\ SelectedIsBetter'
  <2>1. source[m] # m
    BY <1>5, NotBetterThanItself DEF ProcessSync
  <2> QED BY <1>5, <2>1 DEF ProcessSync
<1>6. ASSUME NEW m \in Nodes, Expire(m)
      PROVE  TypeOK' /\ SelectedIsBetter'
  BY <1>6 DEF Expire
<1>7. ASSUME NEW n \in Nodes, Fail(n)
      PROVE  TypeOK' /\ SelectedIsBetter'
  BY <1>7 DEF Fail
<1>8. ASSUME NEW n \in Nodes, Boot(n)
      PROVE  TypeOK' /\ SelectedIsBetter'
  BY <1>8 DEF Boot
<1> QED BY <1>1, <1>2, <1>3, <1>4, <1>5, <1>6, <1>7, <1>8 DEF Next

(* The state is well typed, and a selected source is a better clock. *)
THEOREM SelectionInvariant == Spec => [](TypeOK /\ SelectedIsBetter)
BY InitType, NextType, PTL DEF Spec

(* Only a running daemon has a valid source, and that is another node. *)
THEOREM TypeCorrect == Spec => []TypeOK
BY SelectionInvariant, PTL

(* Where is_better_clock orders the clocks, no two nodes follow each other. *)
THEOREM NoDeadlockOfSlaves ==
  ASSUME Ordered
  PROVE  Spec => []NoMutualSlaves
<1>1. TypeOK /\ SelectedIsBetter => NoMutualSlaves
  <2> SUFFICES ASSUME SelectedIsBetter, NEW m \in Nodes, NEW n \in Nodes,
                      source[m] = n, source[n] = m
               PROVE  FALSE
    BY DEF NoMutualSlaves, Follows
  <2>1. source[m] # None /\ source[n] # None
    BY PtpBmcaAssumption
  <2>2. IsBetterClock(n, m) /\ IsBetterClock(m, n)
    BY <2>1 DEF SelectedIsBetter
  <2> QED BY <2>2 DEF Ordered
<1> QED BY <1>1, SelectionInvariant, PTL

(* If the nodes' clocks differ in nothing but the last field, as those of  *)
(* nodes with the same firmware do, is_better_clock orders them.           *)
THEOREM SameFirmwareIsOrdered ==
  ASSUME NEW last \in Fields,
         \A a, b \in Nodes : \A i \in Fields \ {last} : Identity[a][i] = Identity[b][i]
  PROVE  Ordered
<1> SUFFICES ASSUME NEW a \in Nodes, NEW b \in Nodes, NEW i \in Fields, NEW j \in Fields,
                    Identity[a][i] < Identity[b][i], Identity[b][j] < Identity[a][j]
             PROVE  FALSE
  BY DEF Ordered, IsBetterClock
<1>1. /\ Identity[a][i] \in Nat /\ Identity[b][i] \in Nat
      /\ Identity[a][j] \in Nat /\ Identity[b][j] \in Nat
  BY PtpBmcaAssumption
<1>2. i = last
  BY <1>1
<1>3. j = last
  BY <1>1
<1> QED BY <1>1, <1>2, <1>3

------------------------------------------------------------------------------
ClientType ==
  /\ twostep.followups \in Nat
  /\ delays \subseteq Nodes
  /\ delays # {} => source[Me] # None

RequestIsToSource == request # None => request = source[Me]

ClientInv ==
  /\ TypeOK /\ SelectedIsBetter
  /\ ClientType
  /\ StaysWithSource
  /\ RequestIsToSource
  /\ DelayIsOfOneMaster

------------------------------------------------------------------------------
(* A daemon that starts waits for nothing and has measured nothing. *)
LEMMA ClientInitInv == ClientInit => ClientInv
BY InitType DEF ClientInit, ClientInv, ClientType, StaysWithSource, RequestIsToSource,
   DelayIsOfOneMaster, NoSync

(* Every step of PtpClient is a step of PtpBmca, or leaves it alone. *)
LEMMA StepsOfBmca == [ClientNext]_allVars => [Next]_vars
<1>1. ASSUME NEW n \in Nodes, Select(n) PROVE Next
  BY <1>1, PtpClientAssumption DEF Select, Next
<1>2. ASSUME NEW n \in Nodes, ReceiveSync(n) PROVE [Next]_vars
  BY <1>2, PtpClientAssumption DEF ReceiveSync, From, Next
<1>3. ASSUME NEW n \in Nodes, ProcessDelayResp(n) PROVE UNCHANGED vars
  BY <1>3 DEF ProcessDelayResp
<1>4. ASSUME Jump \/ Slew \/ SendDelayReq PROVE UNCHANGED vars
  BY <1>4 DEF Jump, Slew, FollowUp, SendDelayReq
<1>5. ASSUME FailMe PROVE Next
  BY <1>5, PtpClientAssumption DEF FailMe, Next
<1>6. ASSUME Elsewhere PROVE Next
  BY <1>6 DEF Elsewhere, Next
<1>7. ASSUME UNCHANGED allVars PROVE UNCHANGED vars
  BY <1>7 DEF allVars
<1> QED BY <1>1, <1>2, <1>3, <1>4, <1>5, <1>6, <1>7 DEF ClientNext

(* What happens elsewhere leaves the source of Me as it is. *)
LEMMA ElsewhereKeepsSource ==
  ASSUME TypeOK, Elsewhere
  PROVE  source'[Me] = source[Me]
<1> USE PtpClientAssumption DEF TypeOK
<1>1. ASSUME NEW n \in Nodes, NEW m \in Nodes, SendAnnounce(n, m) \/ LoseAnnounce(n, m)
      PROVE  source' = source
  BY <1>1 DEF SendAnnounce, LoseAnnounce
<1>2. ASSUME NEW n \in Nodes, NEW m \in Nodes \ {Me}, ProcessAnnounce(n, m)
      PROVE  source'[Me] = source[Me]
  BY <1>2 DEF ProcessAnnounce
<1>3. ASSUME NEW m \in Nodes \ {Me}, ProcessSync(m) \/ Fail(m)
      PROVE  source'[Me] = source[Me]
  BY <1>3 DEF ProcessSync, Fail
<1>4. ASSUME NEW m \in Nodes, Expire(m) \/ Boot(m)
      PROVE  source' = source
  BY <1>4 DEF Expire, Boot
<1> QED BY <1>1, <1>2, <1>3, <1>4 DEF Elsewhere

(* Every step keeps the invariant. *)
LEMMA ClientNextInv == ClientInv /\ [ClientNext]_allVars => ClientInv'
<1> SUFFICES ASSUME ClientInv, [ClientNext]_allVars
             PROVE  ClientInv'
  OBVIOUS
<1> USE PtpClientAssumption, PtpBmcaAssumption
<1>1. TypeOK' /\ SelectedIsBetter'
  BY StepsOfBmca, NextType DEF ClientInv
<1>2. ASSUME NEW n \in Nodes, Select(n)
      PROVE  ClientType' /\ StaysWithSource' /\ RequestIsToSource' /\ DelayIsOfOneMaster'
  <2>1. CASE Selects(Me, n)
    BY <1>2, <2>1 DEF Select, ClientInv, ClientType, StaysWithSource, RequestIsToSource,
       DelayIsOfOneMaster
  <2>2. CASE ~Selects(Me, n)
    BY <1>2, <2>2 DEF Select, ProcessAnnounce, ClientInv, ClientType, StaysWithSource,
       RequestIsToSource, DelayIsOfOneMaster
  <2> QED BY <2>1, <2>2
<1>3. ASSUME NEW n \in Nodes, ReceiveSync(n)
      PROVE  ClientType' /\ StaysWithSource' /\ RequestIsToSource' /\ DelayIsOfOneMaster'
  <2>1. source' = source
    BY <1>3 DEF ReceiveSync, From, ProcessSync, vars
  <2> QED
    BY <1>3, <2>1 DEF ReceiveSync, ClientInv, ClientType, StaysWithSource, RequestIsToSource,
       DelayIsOfOneMaster
<1>4. ASSUME Jump \/ Slew
      PROVE  ClientType' /\ StaysWithSource' /\ RequestIsToSource' /\ DelayIsOfOneMaster'
  <2>1. source' = source /\ delays' = delays
    BY <1>4 DEF Jump, Slew, FollowUp, vars
  <2>2. request' \in {None, request}
    BY <1>4 DEF Jump, Slew
  <2>3. /\ settled' => settled \/ twostep.of = source[Me]
        /\ twostep.followups > 0
    BY <1>4 DEF Jump, Slew, FollowUp
  <2>4. /\ twostep'.followups \in Nat
        /\ twostep'.followups > 0 => twostep'.of = twostep.of
    <3>1. ASSUME NEW fresh
          PROVE  /\ Used(fresh).followups \in Nat
                 /\ Used(fresh).followups > 0 => Used(fresh).of = twostep.of
      BY <2>3 DEF Used, NoSync, ClientInv, ClientType
    <3> QED BY <1>4, <3>1 DEF Jump, Slew
  <2>5. StaysWithSource'
    BY <2>1, <2>3, <2>4 DEF StaysWithSource, ClientInv
  <2>6. ClientType'
    BY <2>1, <2>4 DEF ClientType, ClientInv
  <2> QED BY <2>1, <2>2, <2>5, <2>6 DEF ClientInv, RequestIsToSource, DelayIsOfOneMaster
<1>5. ASSUME SendDelayReq
      PROVE  ClientType' /\ StaysWithSource' /\ RequestIsToSource' /\ DelayIsOfOneMaster'
  BY <1>5 DEF SendDelayReq, vars, ClientInv, ClientType, StaysWithSource, RequestIsToSource,
     DelayIsOfOneMaster
<1>6. ASSUME NEW n \in Nodes, ProcessDelayResp(n)
      PROVE  ClientType' /\ StaysWithSource' /\ RequestIsToSource' /\ DelayIsOfOneMaster'
  BY <1>6 DEF ProcessDelayResp, vars, ClientInv, ClientType, StaysWithSource, RequestIsToSource,
     DelayIsOfOneMaster
<1>7. ASSUME FailMe
      PROVE  ClientType' /\ StaysWithSource' /\ RequestIsToSource' /\ DelayIsOfOneMaster'
  BY <1>7 DEF FailMe, NoSync, ClientType, StaysWithSource, RequestIsToSource, DelayIsOfOneMaster
<1>8. ASSUME Elsewhere
      PROVE  ClientType' /\ StaysWithSource' /\ RequestIsToSource' /\ DelayIsOfOneMaster'
  <2>1. source'[Me] = source[Me]
    BY <1>8, ElsewhereKeepsSource DEF ClientInv
  <2>2. UNCHANGED <<twostep, settled, request, delays>>
    BY <1>8 DEF Elsewhere, clientVars
  <2> QED BY <2>1, <2>2 DEF ClientInv, ClientType, StaysWithSource, RequestIsToSource, DelayIsOfOneMaster
<1>9. CASE UNCHANGED allVars
  BY <1>9 DEF allVars, clientVars, vars, ClientInv, TypeOK, SelectedIsBetter, ClientType,
     StaysWithSource, RequestIsToSource, DelayIsOfOneMaster
<1> QED
  BY <1>1, <1>2, <1>3, <1>4, <1>5, <1>6, <1>7, <1>8, <1>9 DEF ClientNext, ClientInv

(* The inductive invariant of the exchange of messages with the master. *)
THEOREM ClientInvariant == ClientSpec => []ClientInv
BY ClientInitInv, ClientNextInv, PTL DEF ClientSpec

(* Once a sync of its source was used, a daemon uses no follow-up of       *)
(* another one, whatever arrives late, twice or not at all.                *)
THEOREM FollowUpsAreOfSource == ClientSpec => []StaysWithSource
BY ClientInvariant, PTL DEF ClientInv

(* A path delay is averaged over answers to requests to one master only.   *)
THEOREM DelaysAreOfSource == ClientSpec => []DelayIsOfOneMaster
BY ClientInvariant, PTL DEF ClientInv

(* The daemons that keep their clocks select their sources as PtpBmca      *)
(* says: what PtpClient adds are steps of PtpBmca, or leave it alone.      *)
THEOREM ClientsRefineSelection == ClientSpec => Spec
<1>1. ClientInit => Init
  BY DEF ClientInit
<1> QED BY <1>1, StepsOfBmca, PTL DEF ClientSpec, Spec

(* No two nodes follow each other in the system with clocks either. *)
THEOREM NoMutualClients ==
  ASSUME Ordered
  PROVE  ClientSpec => []NoMutualSlaves
BY ClientsRefineSelection, NoDeadlockOfSlaves, PTL
==============================================================================
