---------------------------- MODULE PtpLock_proofs ----------------------------
(***************************************************************************)
(* Proofs about PtpLock for any number of monitor tasks, any intervals and *)
(* any number of grandmasters: the lock is earned, reported, and gone once *)
(* aes67_ptp_stop has returned, and the daemon answers only polls that     *)
(* still wait.                                                             *)
(*                                                                         *)
(* The argument about the daemon's slot is one about ages.  What it serves *)
(* was asked at most AnswerMax ago, so it has not given up; while          *)
(* aes67_ptp_stop waits nobody asks, so what is in the slot is at least as *)
(* old as the wait, and too old to be looked at when the wait ends.        *)
(***************************************************************************)
EXTENDS PtpLock, TLAPS

Waiting(m) == monitor[m].pc = "status" /\ monitor[m].timer <= StatusTimeout
Young(m)   == StatusTimeout <= monitor[m].timer + AnswerMax
AsOldAsStop(m) == StopWait + monitor[m].timer <= StatusTimeout + stopper.timer

SlotWaits   == ptpd.request # None => Waiting(ptpd.request)
ServedWaits == ptpd.serving # None => Waiting(ptpd.serving) /\ Young(ptpd.serving)

StopAges ==
  Running(stopper) =>
    /\ ~ctx.running
    /\ ptpd.request # None => AsOldAsStop(ptpd.request)
    /\ ptpd.serving # None => AsOldAsStop(ptpd.serving)

Stopped ==
  ~ctx.running /\ ~Running(stopper) =>
    /\ ptpd.serving = None
    /\ ptpd.request # None => ~Young(ptpd.request)

CountsPolls ==
  ctx.lock_state = "LOCKING" => ctx.stable_count <= streak /\ ctx.stable_count < LockedStableCount

SlotInv == TypeOK /\ SlotWaits /\ ServedWaits /\ CountsPolls

StopInv == SlotInv /\ StopAges /\ Stopped /\ ReportedIsCurrent /\ StoppedIsUnlocked

------------------------------------------------------------------------------
(* A node that has just booted. *)
LEMMA LockInitInv == Init => StopInv
BY PtpLockAssumption
   DEF Init, StopInv, SlotInv, TypeOK, SlotWaits, ServedWaits, StopAges, Stopped, CountsPolls,
       ReportedIsCurrent, StoppedIsUnlocked, Absent, NoDaemon, Running, LockStates, Deltas

(* What the monitor task makes of an answer. *)
LEMMA EvaluateType ==
  ASSUME SlotInv,
         NEW p \in [alive : {"yes", "stopping", "no"}, source : Gms \cup {Own, None},
                    delta : Deltas, request : Monitors \cup {None}, serving : Monitors \cup {None}]
  PROVE  /\ Evaluate(ctx, p).running = ctx.running
         /\ Evaluate(ctx, p).lock_state \in LockStates
         /\ Evaluate(ctx, p).stable_count \in 0 .. LockedStableCount
         /\ Evaluate(ctx, p).is_grandmaster \in BOOLEAN
         /\ Evaluate(ctx, p).grandmaster_id = p.source
         /\ Evaluate(ctx, p) \in [running : BOOLEAN, lock_state : LockStates,
                                  stable_count : 0 .. LockedStableCount,
                                  is_grandmaster : BOOLEAN, grandmaster_id : Gms \cup {Own, None}]
<1> USE PtpLockAssumption DEF SlotInv, TypeOK, CountsPolls, LockStates, Deltas
<1> DEFINE gm == p.source \in {None, Own}
<1>1. CASE gm
  <2>1. Seen(ctx, p) = [running |-> ctx.running, lock_state |-> ctx.lock_state,
                        stable_count |-> ctx.stable_count, is_grandmaster |-> TRUE,
                        grandmaster_id |-> p.source]
    <3>1. gm = TRUE  BY <1>1
    <3> QED BY <3>1, Zenon DEF Seen
  <2> QED BY <1>1, <2>1 DEF Evaluate, SetLock
<1>2. CASE ~gm
  <2>1. Seen(ctx, p) = [running |-> ctx.running, lock_state |-> ctx.lock_state,
                        stable_count |-> ctx.stable_count, is_grandmaster |-> FALSE,
                        grandmaster_id |-> p.source]
    <3>1. gm = FALSE  BY <1>2
    <3> QED BY <3>1, Zenon DEF Seen
  <2>2. Evaluate(ctx, p) = UpdateLockState(Seen(ctx, p), p.delta)
    BY <1>2 DEF Evaluate
  <2>3. Seen(ctx, p) \in [running : BOOLEAN, lock_state : LockStates,
                          stable_count : 0 .. LockedStableCount,
                          is_grandmaster : BOOLEAN, grandmaster_id : Gms \cup {Own, None}]
    BY <2>1
  <2>4. CASE ctx.lock_state = "UNLOCKED"
    BY <2>1, <2>2, <2>3, <2>4 DEF UpdateLockState, FromUnlocked, SetLock
  <2>5. CASE ctx.lock_state = "LOCKING"
    BY <2>1, <2>2, <2>3, <2>5 DEF UpdateLockState, FromLocking, SetLock
  <2>6. CASE ctx.lock_state = "LOCKED"
    BY <2>1, <2>2, <2>3, <2>6 DEF UpdateLockState, FromLocked, SetLock
  <2> QED BY <2>4, <2>5, <2>6
<1> QED BY <1>1, <1>2

(* The count of stable polls is never ahead of the polls that were stable, *)
(* and a lock that is not the grandmaster's is the last of them.           *)
LEMMA EvaluateCounts ==
  ASSUME SlotInv, NEW m \in Monitors, Answer(m)
  PROVE  /\ CountsPolls'
         /\ ctx.lock_state # "LOCKED" /\ ctx'.lock_state = "LOCKED" /\ ~ctx'.is_grandmaster
              => streak' = LockedStableCount
<1> USE PtpLockAssumption DEF SlotInv, TypeOK, LockStates, Deltas
<1>1. ctx' = Evaluate(ctx, Got(m))
  BY DEF Answer
<1>2. Got(m).source \in Gms \cup {Own, None} /\ Got(m).delta \in Deltas
  BY DEF Got, NoDaemon
<1>3. CASE Got(m).source \in {None, Own}
  <2>1. ctx'.lock_state = "LOCKED"
    BY <1>1, <1>3 DEF Evaluate, SetLock
  <2>2. ctx'.is_grandmaster = (Got(m).source \in {None, Own})
    BY <1>1, <1>3, Zenon DEF Evaluate, SetLock, Seen
  <2> QED BY <1>3, <2>1, <2>2 DEF CountsPolls
<1>4. CASE Got(m).source \in Gms
  <2> DEFINE c == Seen(ctx, Got(m))
  <2>1. /\ c.lock_state = ctx.lock_state
        /\ c.stable_count = ctx.stable_count
    BY Zenon DEF Seen
  <2>2. ctx' = UpdateLockState(c, Got(m).delta)
    BY <1>1, <1>4 DEF Evaluate
  <2>3. streak' = IF Got(m).delta = "stable"
                  THEN IF streak < LockedStableCount THEN streak + 1 ELSE streak
                  ELSE 0
    BY <1>4 DEF Answer
  <2> HIDE DEF c
  <2>4. CASE ctx.lock_state = "UNLOCKED"
    BY <1>2, <2>1, <2>2, <2>3, <2>4 DEF UpdateLockState, FromUnlocked, SetLock, CountsPolls
  <2>5. CASE ctx.lock_state = "LOCKING"
    <3>1. ctx' = FromLocking(c, Got(m).delta)
      BY <2>1, <2>2, <2>5 DEF UpdateLockState
    <3>2. ctx.stable_count <= streak /\ ctx.stable_count < LockedStableCount
      BY <2>5 DEF CountsPolls
    <3>3. CASE Got(m).delta # "stable"
      BY <1>2, <2>3, <3>1, <3>3 DEF FromLocking, SetLock, CountsPolls
    <3>4. CASE Got(m).delta = "stable"
      <4>1. /\ ctx'.stable_count = ctx.stable_count + 1
            /\ ctx'.lock_state = IF ctx.stable_count + 1 >= LockedStableCount
                                 THEN "LOCKED" ELSE "LOCKING"
        BY <2>1, <3>1, <3>4 DEF FromLocking, SetLock
      <4> QED BY <2>3, <3>2, <3>4, <4>1 DEF CountsPolls
    <3> QED BY <3>3, <3>4
  <2>6. CASE ctx.lock_state = "LOCKED"
    BY <1>2, <2>1, <2>2, <2>3, <2>6 DEF UpdateLockState, FromLocked, SetLock, CountsPolls
  <2> QED BY <2>4, <2>5, <2>6
<1> QED BY <1>2, <1>3, <1>4

(* Every step keeps the types, what waits for the daemon and the count. *)
LEMMA SlotNextInv == SlotInv /\ [Next]_vars => SlotInv'
<1> SUFFICES ASSUME SlotInv, [Next]_vars
             PROVE  SlotInv'
  OBVIOUS
<1> USE PtpLockAssumption DEF SlotInv
<1> DEFINE Rest == TypeOK' /\ CountsPolls'
           Slot == SlotWaits' /\ ServedWaits'
<1>1. ASSUME NEW m \in Monitors, Wake(m)
      PROVE  Rest /\ Slot
  <2>1. Rest
    BY <1>1 DEF Wake, Absent, TypeOK, CountsPolls
  <2>2. Slot
    BY <1>1 DEF Wake, Absent, TypeOK, SlotWaits, ServedWaits, Waiting, Young
  <2> QED BY <2>1, <2>2
<1>2. ASSUME NEW m \in Monitors, Answer(m)
      PROVE  Rest /\ Slot
  <2>1. Got(m) \in [alive : {"yes", "stopping", "no"}, source : Gms \cup {Own, None},
                    delta : Deltas, request : Monitors \cup {None}, serving : Monitors \cup {None}]
    BY DEF TypeOK, Got, NoDaemon, Deltas
  <2>2. ctx' \in [running : BOOLEAN, lock_state : LockStates, stable_count : 0 .. LockedStableCount,
                  is_grandmaster : BOOLEAN, grandmaster_id : Gms \cup {Own, None}]
    BY <1>2, <2>1, EvaluateType DEF Answer
  <2>3. TypeOK'
    <3>1. monitor' \in [Monitors -> [pc : {"none", "sleep", "status"}, timer : Nat]]
      BY <1>2 DEF Answer, Loop, TypeOK
    <3>2. reported' \in LockStates /\ streak' \in 0 .. LockedStableCount
      BY <1>2, <2>2 DEF Answer, Notify, TypeOK
    <3>3. ptpd' \in [alive : {"yes", "stopping", "no"}, source : Gms \cup {Own, None},
                     delta : Deltas, request : Monitors \cup {None}, serving : Monitors \cup {None}]
      BY <1>2 DEF Answer, TypeOK
    <3>4. stopper' = stopper
      BY <1>2 DEF Answer
    <3> QED BY <2>2, <3>1, <3>2, <3>3, <3>4 DEF TypeOK
  <2>4. CountsPolls'
    BY <1>2, <2>1, EvaluateCounts DEF Answer
  <2>5. ptpd'.request = None /\ ptpd'.serving = None
    BY <1>2 DEF Answer, TypeOK
  <2> QED BY <2>3, <2>4, <2>5 DEF SlotWaits, ServedWaits
<1>3. ASSUME NEW m \in Monitors, NoAnswer(m)
      PROVE  Rest /\ Slot
  <2>1. Rest
    BY <1>3 DEF NoAnswer, Loop, TypeOK, CountsPolls
  <2>2. ptpd'.request = None /\ ptpd'.serving = ptpd.serving
    BY <1>3 DEF NoAnswer, TypeOK
  <2>3. ASSUME ptpd.serving # None
        PROVE  Waiting(ptpd.serving)' /\ Young(ptpd.serving)'
    <3>1. ptpd.serving # m
      BY <1>3, <2>3 DEF NoAnswer, ServedWaits, Young
    <3> QED BY <1>3, <2>2, <2>3, <3>1 DEF NoAnswer, TypeOK, ServedWaits, Waiting, Young
  <2> QED BY <2>1, <2>2, <2>3 DEF SlotWaits, ServedWaits
<1>4. ASSUME NEW m \in Monitors, CrashNull(m)
      PROVE  Rest /\ Slot
  BY <1>4 DEF CrashNull, Absent, NoDaemon, TypeOK, CountsPolls, SlotWaits, ServedWaits,
     LockStates, Deltas
<1>5. ASSUME NEW m \in Monitors, Start(m)
      PROVE  Rest /\ Slot
  <2>1. Rest
    BY <1>5 DEF Start, SetLock, NoDaemon, TypeOK, CountsPolls, LockStates, Deltas
  <2>2. ptpd'.request = None /\ ptpd'.serving = None
    BY <1>5 DEF Start, NoDaemon
  <2> QED BY <2>1, <2>2 DEF SlotWaits, ServedWaits
<1>6. ASSUME Serve
      PROVE  Rest /\ Slot
  <2>1. Rest
    BY <1>6 DEF Serve, TypeOK, CountsPolls
  <2>2. Slot
    BY <1>6 DEF Serve, TypeOK, SlotWaits, ServedWaits, Waiting, Young
  <2> QED BY <2>1, <2>2
<1>7. ASSUME AnswerNobody \/ DaemonExit
      PROVE  Rest /\ Slot
  BY <1>7 DEF AnswerNobody, DaemonExit, NoDaemon, TypeOK, CountsPolls, SlotWaits, ServedWaits,
     Deltas
<1>8. ASSUME StartFails
      PROVE  Rest /\ Slot
  BY <1>8 DEF StartFails, SetLock, NoDaemon, TypeOK, CountsPolls, SlotWaits, ServedWaits,
     LockStates, Deltas
<1>9. ASSUME StopBegin
      PROVE  Rest /\ Slot
  <2>1. Rest
    <3>1. ctx' = [ctx EXCEPT !.running = FALSE] /\ stopper' = [pc |-> "wait", timer |-> StopWait]
      BY <1>9 DEF StopBegin
    <3>2. /\ ctx' \in [running : BOOLEAN, lock_state : LockStates,
                       stable_count : 0 .. LockedStableCount,
                       is_grandmaster : BOOLEAN, grandmaster_id : Gms \cup {Own, None}]
          /\ ctx'.lock_state = ctx.lock_state /\ ctx'.stable_count = ctx.stable_count
      BY <3>1 DEF TypeOK
    <3>3. stopper' \in [pc : {"none", "wait"}, timer : 0 .. StopWait]
      BY <3>1
    <3> QED BY <1>9, <3>2, <3>3 DEF StopBegin, TypeOK, CountsPolls
  <2>2. Slot
    BY <1>9 DEF StopBegin, SlotWaits, ServedWaits, Waiting, Young
  <2> QED BY <2>1, <2>2
<1>10. ASSUME StopEnd
       PROVE  Rest /\ Slot
  <2>1. Rest
    BY <1>10 DEF StopEnd, SetLock, Notify, Absent, TypeOK, CountsPolls, LockStates
  <2>2. Slot
    BY <1>10 DEF StopEnd, TypeOK, SlotWaits, ServedWaits, Waiting, Young
  <2> QED BY <2>1, <2>2
<1>11. ASSUME NEW g \in Gms \cup {Own}, NEW delta \in Deltas,
              SelectSource(g) \/ LoseSource \/ Sync(delta)
       PROVE  Rest /\ Slot
  <2>1. Rest
    BY <1>11 DEF SelectSource, LoseSource, Sync, TypeOK, CountsPolls
  <2>2. Slot
    BY <1>11 DEF SelectSource, LoseSource, Sync, TypeOK, SlotWaits, ServedWaits, Waiting, Young
  <2> QED BY <2>1, <2>2
<1>12. ASSUME Tick
       PROVE  Rest /\ Slot
  <2>1. \A m \in Monitors : Later(monitor[m]) \in [pc : {"none", "sleep", "status"}, timer : Nat]
    <3> TAKE m \in Monitors
    <3>1. monitor[m] \in [pc : {"none", "sleep", "status"}, timer : Nat]
      BY DEF TypeOK
    <3>2. CASE ~Running(monitor[m])
      BY <3>1, <3>2 DEF Later
    <3>3. CASE Running(monitor[m])
      <4>1. monitor[m].timer - 1 \in Nat
        BY <1>12, <3>1, <3>3 DEF Tick, Due
      <4> QED BY <3>1, <3>3, <4>1 DEF Later
    <3> QED BY <3>2, <3>3
  <2>2. Later(stopper) \in [pc : {"none", "wait"}, timer : 0 .. StopWait]
    <3>1. stopper \in [pc : {"none", "wait"}, timer : 0 .. StopWait]
      BY DEF TypeOK
    <3>2. CASE ~Running(stopper)
      BY <3>1, <3>2 DEF Later
    <3>3. CASE Running(stopper)
      <4>1. stopper.timer - 1 \in 0 .. StopWait
        BY <1>12, <3>1, <3>3 DEF Tick, Due
      <4> QED BY <3>1, <3>3, <4>1 DEF Later
    <3> QED BY <3>2, <3>3
  <2>3. Rest
    BY <1>12, <2>1, <2>2 DEF Tick, TypeOK, CountsPolls
  <2>4. SlotWaits'
    BY <1>12, <2>1 DEF Tick, Later, Due, Running, TypeOK, SlotWaits, Waiting
  <2>5. ServedWaits'
    BY <1>12 DEF Tick, ServedWaits
  <2> QED BY <2>3, <2>4, <2>5
<1>13. ASSUME UNCHANGED vars
       PROVE  Rest /\ Slot
  BY <1>13 DEF vars, TypeOK, CountsPolls, SlotWaits, ServedWaits, Waiting, Young
<1> QED
  BY <1>1, <1>2, <1>3, <1>4, <1>5, <1>6, <1>7, <1>8, <1>9, <1>10, <1>11, <1>12,
     <1>13 DEF Next, Deltas

(* The same for the wait of aes67_ptp_stop, if it is longer than the       *)
(* daemon takes to look at a request.                                      *)
LEMMA StopNextInv ==
  ASSUME AnswerMax < StopWait
  PROVE  StopInv /\ [Next]_vars => StopInv'
<1> SUFFICES ASSUME StopInv, [Next]_vars
             PROVE  StopInv'
  OBVIOUS
<1> USE PtpLockAssumption DEF StopInv, SlotInv
<1> SUFFICES StopAges' /\ Stopped' /\ ReportedIsCurrent' /\ StoppedIsUnlocked'
  BY SlotNextInv
<1> DEFINE Ages == StopAges' /\ Stopped'
           Reports == ReportedIsCurrent' /\ StoppedIsUnlocked'
<1>1. ASSUME NEW m \in Monitors, Wake(m)
      PROVE  Ages /\ Reports
  <2>1. CASE ctx.running
    <3>1. ctx' = ctx /\ stopper' = stopper
      BY <1>1 DEF Wake
    <3> QED BY <1>1, <2>1, <3>1 DEF Wake, StopAges, Stopped, ReportedIsCurrent, StoppedIsUnlocked
  <2>2. CASE ~ctx.running
    <3>1. /\ ctx' = ctx /\ stopper' = stopper /\ ptpd' = ptpd /\ reported' = reported
          /\ monitor' = [monitor EXCEPT ![m] = Absent]
      BY <1>1, <2>2 DEF Wake
    <3>2. ptpd.request # m /\ ptpd.serving # m
      BY <1>1 DEF Wake, SlotWaits, ServedWaits, Waiting
    <3>3. Ages
      BY <3>1, <3>2 DEF TypeOK, StopAges, Stopped, AsOldAsStop, Young
    <3> QED BY <3>1, <3>3 DEF ReportedIsCurrent, StoppedIsUnlocked
  <2> QED BY <2>1, <2>2
<1>2. ASSUME NEW m \in Monitors, Answer(m)
      PROVE  Ages /\ Reports
  <2>1. ptpd.serving # None /\ stopper' = stopper
        /\ ptpd'.request = None /\ ptpd'.serving = None
    BY <1>2 DEF Answer, TypeOK
  <2>2. ctx.running \/ Running(stopper)
    BY <2>1 DEF Stopped
  <2>3. ctx'.running = ctx.running
    <3>1. Got(m) \in [alive : {"yes", "stopping", "no"}, source : Gms \cup {Own, None},
                      delta : Deltas, request : Monitors \cup {None}, serving : Monitors \cup {None}]
      BY DEF TypeOK, Got, NoDaemon, Deltas
    <3> QED BY <1>2, <3>1, EvaluateType DEF Answer
  <2>4. reported' = ctx'.lock_state
    BY <1>2 DEF Answer, Notify, ReportedIsCurrent
  <2> QED BY <2>1, <2>2, <2>3, <2>4 DEF StopAges, Stopped, ReportedIsCurrent, StoppedIsUnlocked
<1>3. ASSUME NEW m \in Monitors, NoAnswer(m)
      PROVE  Ages /\ Reports
  <2>1. /\ ctx' = ctx /\ stopper' = stopper /\ reported' = reported
        /\ ptpd'.request = None /\ ptpd'.serving = ptpd.serving
        /\ monitor' = [monitor EXCEPT ![m] = Loop]
    BY <1>3 DEF NoAnswer, TypeOK
  <2>2. ASSUME ptpd.serving # None  PROVE ptpd.serving # m
    BY <1>3, <2>2 DEF NoAnswer, ServedWaits, Young
  <2>3. Ages
    BY <2>1, <2>2 DEF TypeOK, StopAges, Stopped, AsOldAsStop
  <2> QED BY <2>1, <2>3 DEF ReportedIsCurrent, StoppedIsUnlocked
<1>4. ASSUME NEW m \in Monitors, CrashNull(m)
      PROVE  Ages /\ Reports
  BY <1>4 DEF CrashNull, Absent, NoDaemon, Running, StopAges, Stopped, ReportedIsCurrent,
     StoppedIsUnlocked
<1>5. ASSUME NEW m \in Monitors, Start(m)
      PROVE  Ages /\ Reports
  <2>1. /\ ctx'.running = TRUE /\ ctx'.lock_state = "UNLOCKED"
        /\ ~Running(stopper') /\ reported' = reported
    BY <1>5 DEF Start, SetLock, Absent, Running, TypeOK
  <2>2. ctx.lock_state = "UNLOCKED"
    BY <1>5 DEF Start, Absent, Running, StoppedIsUnlocked
  <2> QED BY <2>1, <2>2 DEF StopAges, Stopped, ReportedIsCurrent, StoppedIsUnlocked, Running
<1>6. ASSUME Serve
      PROVE  Ages /\ Reports
  <2>1. /\ ctx' = ctx /\ stopper' = stopper /\ monitor' = monitor /\ reported' = reported
        /\ ptpd'.serving = ptpd.request /\ ptpd'.request = ptpd.request
        /\ ptpd.request # None
    BY <1>6 DEF Serve, TypeOK
  <2>2. Young(ptpd.request)
    BY <1>6 DEF Serve, TypeOK, Young
  <2>3. Ages
    BY <2>1, <2>2 DEF StopAges, Stopped, AsOldAsStop
  <2> QED BY <2>1, <2>3 DEF ReportedIsCurrent, StoppedIsUnlocked
<1>7. ASSUME AnswerNobody \/ DaemonExit
      PROVE  Ages /\ Reports
  <2>1. /\ ctx' = ctx /\ stopper' = stopper /\ reported' = reported
        /\ ptpd'.request = None /\ ptpd'.serving = None
    BY <1>7 DEF AnswerNobody, DaemonExit, NoDaemon, TypeOK
  <2> QED BY <2>1 DEF StopAges, Stopped, ReportedIsCurrent, StoppedIsUnlocked
<1>8. ASSUME StartFails
      PROVE  Ages /\ Reports
  <2>1. /\ ctx'.running = ctx.running /\ ctx'.lock_state = "UNLOCKED"
        /\ ~Running(stopper') /\ reported' = reported
        /\ ptpd'.request = None /\ ptpd'.serving = None
    BY <1>8 DEF StartFails, SetLock, NoDaemon, Absent, Running
  <2>2. ctx.lock_state = "UNLOCKED"
    BY <1>8 DEF StartFails, Absent, Running, StoppedIsUnlocked
  <2> QED BY <2>1, <2>2 DEF StopAges, Stopped, ReportedIsCurrent, StoppedIsUnlocked, Running
<1>9. ASSUME StopBegin
      PROVE  Ages /\ Reports
  <2>1. /\ ctx'.running = FALSE /\ ctx'.lock_state = ctx.lock_state
        /\ stopper' = [pc |-> "wait", timer |-> StopWait]
        /\ ptpd' = ptpd /\ monitor' = monitor /\ reported' = reported
    BY <1>9 DEF StopBegin, TypeOK
  <2>2. Running(stopper)' /\ stopper'.timer = StopWait
    BY <2>1 DEF Running
  <2>3. ptpd.request # None => AsOldAsStop(ptpd.request)'
    BY <2>1, <2>2 DEF SlotWaits, Waiting, AsOldAsStop, TypeOK
  <2>4. ptpd.serving # None => AsOldAsStop(ptpd.serving)'
    BY <2>1, <2>2 DEF ServedWaits, Waiting, AsOldAsStop, TypeOK
  <2> QED BY <2>1, <2>2, <2>3, <2>4
          DEF StopAges, Stopped, ReportedIsCurrent, StoppedIsUnlocked, AsOldAsStop
<1>10. ASSUME StopEnd
       PROVE  Ages /\ Reports
  <2>1. /\ ctx'.lock_state = "UNLOCKED" /\ ~Running(stopper')
        /\ ptpd'.request = ptpd.request /\ ptpd'.serving = ptpd.serving
        /\ monitor' = monitor /\ reported' = "UNLOCKED"
    BY <1>10 DEF StopEnd, SetLock, Notify, Absent, Running, TypeOK, ReportedIsCurrent
  <2>2. Running(stopper) /\ stopper.timer = 0
    BY <1>10 DEF StopEnd, Running
  <2>3. ptpd.request # None => ~Young(ptpd.request)
    BY <2>2 DEF StopAges, AsOldAsStop, Young, TypeOK
  <2>4. ptpd.serving = None
    BY <2>2 DEF StopAges, AsOldAsStop, ServedWaits, Young, TypeOK
  <2> QED BY <2>1, <2>3, <2>4
          DEF StopAges, Stopped, ReportedIsCurrent, StoppedIsUnlocked, Running, Young
<1>11. ASSUME NEW g \in Gms \cup {Own}, NEW delta \in Deltas,
              SelectSource(g) \/ LoseSource \/ Sync(delta)
       PROVE  Ages /\ Reports
  <2>1. /\ ctx' = ctx /\ stopper' = stopper /\ monitor' = monitor /\ reported' = reported
        /\ ptpd'.request = ptpd.request /\ ptpd'.serving = ptpd.serving
    BY <1>11 DEF SelectSource, LoseSource, Sync, TypeOK
  <2> QED BY <2>1
          DEF StopAges, Stopped, ReportedIsCurrent, StoppedIsUnlocked, AsOldAsStop, Young
<1>12. ASSUME Tick
       PROVE  Ages /\ Reports
  <2>1. /\ ctx' = ctx /\ ptpd' = ptpd /\ reported' = reported
        /\ ptpd.serving = None
        /\ stopper' = Later(stopper)
        /\ monitor' = [m \in Monitors |-> Later(monitor[m])]
    BY <1>12 DEF Tick
  <2>2. ASSUME ptpd.request # None
        PROVE  monitor'[ptpd.request].timer = monitor[ptpd.request].timer - 1
    BY <2>1, <2>2 DEF TypeOK, SlotWaits, Waiting, Later, Running
  <2>3. Running(stopper)' <=> Running(stopper)
    BY <2>1 DEF Later, Running, TypeOK
  <2>4. Running(stopper) => stopper'.timer = stopper.timer - 1
    BY <2>1 DEF Later, TypeOK
  <2>5. StopAges'
    BY <2>1, <2>2, <2>3, <2>4 DEF StopAges, AsOldAsStop, TypeOK
  <2>6. Stopped'
    BY <2>1, <2>2, <2>3 DEF Stopped, Young, TypeOK
  <2> QED BY <2>1, <2>3, <2>5, <2>6 DEF ReportedIsCurrent, StoppedIsUnlocked
<1>13. ASSUME UNCHANGED vars
       PROVE  Ages /\ Reports
  BY <1>13 DEF vars, StopAges, Stopped, ReportedIsCurrent, StoppedIsUnlocked, AsOldAsStop, Young
<1> QED
  BY <1>1, <1>2, <1>3, <1>4, <1>5, <1>6, <1>7, <1>8, <1>9, <1>10, <1>11, <1>12,
     <1>13 DEF Next, Deltas

------------------------------------------------------------------------------
LEMMA SlotAlways == Spec => []SlotInv
<1>1. Init => SlotInv
  BY LockInitInv DEF StopInv
<1> QED BY <1>1, SlotNextInv, PTL DEF Spec

(* Types, for any number of monitor tasks and any intervals (every handler *)
(* of aes67_ptp.c and the daemon's request slot).                          *)
THEOREM LockTypeCorrect == Spec => []TypeOK
<1>1. SlotInv => TypeOK
  BY DEF SlotInv
<1> QED BY <1>1, SlotAlways, PTL

(* The daemon never holds a request of a poll that has given up, whatever  *)
(* overwrites or withdraws requests (ptpd_status, ptp_process_statusreq).  *)
THEOREM RequestsAwaited == Spec => []AnswersAreAwaited
<1>1. SlotInv => AnswersAreAwaited
  BY DEF SlotInv, SlotWaits, ServedWaits, Waiting, AnswersAreAwaited
<1> QED BY <1>1, SlotAlways, PTL

(* A node that follows a grandmaster becomes locked only after             *)
(* PTP_LOCKED_STABLE_COUNT stable polls in a row (ptp_update_lock_state).  *)
THEOREM LockEarned == Spec => LockIsEarned
<1>1. SlotInv /\ [Next]_vars =>
        [ctx.lock_state # "LOCKED" /\ ctx'.lock_state = "LOCKED" /\ ~ctx'.is_grandmaster
           => streak' = LockedStableCount]_vars
  <2> SUFFICES ASSUME SlotInv, Next, ctx.lock_state # "LOCKED", ctx'.lock_state = "LOCKED",
                      ~ctx'.is_grandmaster
               PROVE  streak' = LockedStableCount
    BY DEF vars
  <2> USE DEF SlotInv, TypeOK
  <2>1. ASSUME NEW m \in Monitors, Answer(m)
        PROVE  streak' = LockedStableCount
    BY <2>1, EvaluateCounts
  <2>2. ASSUME NEW m \in Monitors, Wake(m) \/ NoAnswer(m)
        PROVE  FALSE
    BY <2>2 DEF Wake, NoAnswer
  <2>3. ASSUME NEW m \in Monitors, CrashNull(m) \/ Start(m)
        PROVE  FALSE
    BY <2>3 DEF CrashNull, Start, SetLock
  <2>4. ASSUME Serve \/ AnswerNobody \/ DaemonExit \/ Tick
        PROVE  FALSE
    BY <2>4 DEF Serve, AnswerNobody, DaemonExit, Tick
  <2>5. ASSUME StartFails \/ StopBegin \/ StopEnd
        PROVE  FALSE
    BY <2>5 DEF StartFails, StopBegin, StopEnd, SetLock
  <2>6. ASSUME NEW g \in Gms \cup {Own}, NEW delta \in Deltas,
               SelectSource(g) \/ LoseSource \/ Sync(delta)
        PROVE  FALSE
    BY <2>6 DEF SelectSource, LoseSource, Sync
  <2> QED BY <2>1, <2>2, <2>3, <2>4, <2>5, <2>6 DEF Next, Deltas
<1> QED BY <1>1, SlotAlways, PTL DEF Spec, LockIsEarned

LEMMA StopAlways ==
  ASSUME AnswerMax < StopWait
  PROVE  Spec => []StopInv
<1>1. StopInv /\ [Next]_vars => StopInv'
  BY StopNextInv
<1> QED BY <1>1, LockInitInv, PTL DEF Spec

(* Once aes67_ptp_stop has returned the clock is not reported as locked:   *)
(* its wait is longer than the daemon takes to look at a request, and      *)
(* nobody asks while it lasts.                                             *)
THEOREM StopUnlocks ==
  ASSUME AnswerMax < StopWait
  PROVE  Spec => []StoppedIsUnlocked
<1>1. StopInv => StoppedIsUnlocked
  BY DEF StopInv
<1> QED BY <1>1, StopAlways, PTL

(* lock_cb was last called with the state there is; a restart, which       *)
(* assigns it silently (aes67_ptp_start), finds it unlocked.               *)
THEOREM StateIsReported ==
  ASSUME AnswerMax < StopWait
  PROVE  Spec => []ReportedIsCurrent
<1>1. StopInv => ReportedIsCurrent
  BY DEF StopInv
<1> QED BY <1>1, StopAlways, PTL
===============================================================================
