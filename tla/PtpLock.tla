------------------------------- MODULE PtpLock -------------------------------
(***************************************************************************)
(* The PTP lock monitor (aes67_ptp.c) on top of the PTP daemon (ptpd.c):   *)
(* the task that polls the daemon every 500 ms and drives the lock state,  *)
(* and the calls that start and stop both.                                 *)
(*                                                                         *)
(* Time passes in steps of 100 ms, and whatever is due happens before the  *)
(* next step.  A poll leaves its request in the daemon's only slot for     *)
(* one, waits and gives up after a second, withdrawing what the slot then  *)
(* holds.  The daemon looks at the slot within AnswerMax, or not at all    *)
(* when it does not get to run; it remembers whom it answers, but wakes    *)
(* whoever's request is in the slot when it is done.  Evaluating the       *)
(* answer is one step with it.                                             *)
(***************************************************************************)
EXTENDS Naturals, FiniteSets

CONSTANTS
  Gms,              \* the grandmasters on the network
  Own,              \* this node's own clock identity
  None,             \* no clock source; the all-zero identity
  LockedStableCount, \* PTP_LOCKED_STABLE_COUNT
  MonitorInterval,  \* PTP_MONITOR_INTERVAL_MS
  StopWait,         \* what aes67_ptp_stop waits: PTP_MONITOR_INTERVAL_MS + 100
  StatusTimeout,    \* the sem_timedwait of ptpd_status
  AnswerMax,        \* how long after the request the daemon may look at it
  Monitors          \* monitor tasks that may exist at a time: bounds the model

ASSUME PtpLockAssumption ==
  /\ {LockedStableCount, MonitorInterval, StopWait, StatusTimeout} \subseteq Nat \ {0}
  /\ AnswerMax \in 0 .. StatusTimeout - 1
  /\ Own \notin Gms /\ None \notin Gms \cup {Own} \cup Monitors

VARIABLES
  ctx,      \* aes67_ptp_ctx: [running, lock_state, stable_count, is_grandmaster, grandmaster_id]
  monitor,  \* each monitor task: [pc, timer], the timer counts down to what is due
  stopper,  \* aes67_ptp_stop: [pc, timer]
  ptpd,     \* the daemon: [alive, source, delta, request, serving], delta is
            \* last_delta_ns, request the poll in status_req, serving whom it answers
  reported, \* history: the last state lock_cb was called with
  streak    \* history: answered polls in a row as a slave below the locked threshold

vars == <<ctx, monitor, stopper, ptpd, reported, streak>>

\* |last_delta_ns|: below 1 us, below 10 ms, or above
Deltas == {"stable", "near", "far"}
LockStates == {"UNLOCKED", "LOCKING", "LOCKED"}
Absent == [pc |-> "none", timer |-> 0]
NoDaemon == [alive |-> "no", source |-> None, delta |-> "stable",
             request |-> None, serving |-> None]

Init ==
  /\ ctx = [running |-> FALSE, lock_state |-> "UNLOCKED", stable_count |-> 0,
            is_grandmaster |-> FALSE, grandmaster_id |-> None]
  /\ monitor = [m \in Monitors |-> Absent]
  /\ stopper = Absent
  /\ ptpd = NoDaemon
  /\ reported = "UNLOCKED" /\ streak = 0

------------------------------------------------------------------------------
(* A new lock state, with the count of stable polls that goes with it. *)
SetLock(c, lock_state, stable_count) ==
  [running |-> c.running, lock_state |-> lock_state, stable_count |-> stable_count,
   is_grandmaster |-> c.is_grandmaster, grandmaster_id |-> c.grandmaster_id]

(* A definition whose name extends the name of the one that follows it is  *)
(* a mutant of it: the bug that a property below must notice.              *)

FromLockingKeepsCount(c, delta) ==
  CASE delta = "far"  -> SetLock(c, "UNLOCKED", 0)
    [] delta = "near" -> c
    [] OTHER -> SetLock(c, IF c.stable_count + 1 >= LockedStableCount THEN "LOCKED" ELSE "LOCKING",
                        c.stable_count + 1)

(* ptp_update_lock_state, in each of its three states. *)
FromLocking(c, delta) ==
  CASE delta = "far"  -> SetLock(c, "UNLOCKED", 0)
    [] delta = "near" -> SetLock(c, "LOCKING", 0)
    [] OTHER -> SetLock(c, IF c.stable_count + 1 >= LockedStableCount THEN "LOCKED" ELSE "LOCKING",
                        c.stable_count + 1)

FromUnlocked(c, delta) ==
  IF delta = "far" THEN c ELSE SetLock(c, "LOCKING", 0)

FromLocked(c, delta) ==
  CASE delta = "far"  -> SetLock(c, "UNLOCKED", 0)
    [] delta = "near" -> SetLock(c, "LOCKING", 0)
    [] OTHER -> c

UpdateLockState(c, delta) ==
  CASE c.lock_state = "UNLOCKED" -> FromUnlocked(c, delta)
    [] c.lock_state = "LOCKING"  -> FromLocking(c, delta)
    [] c.lock_state = "LOCKED"   -> FromLocked(c, delta)

(* Without a valid source, or with its own id as the grandmaster's, the    *)
(* node is the grandmaster, and locked to itself.                          *)
Seen(c, p) ==
  [running |-> c.running, lock_state |-> c.lock_state, stable_count |-> c.stable_count,
   is_grandmaster |-> p.source \in {None, Own}, grandmaster_id |-> p.source]

EvaluateStuck(c, p) ==
  IF c.lock_state = "LOCKED" THEN Seen(c, p)
  ELSE IF p.source \in {None, Own} THEN SetLock(Seen(c, p), "LOCKED", c.stable_count)
  ELSE UpdateLockState(Seen(c, p), p.delta)

Evaluate(c, p) ==
  IF p.source \in {None, Own} THEN SetLock(Seen(c, p), "LOCKED", c.stable_count)
  ELSE UpdateLockState(Seen(c, p), p.delta)

(* lock_cb is called when the state changed. *)
Notify(state) == reported' = IF state # ctx.lock_state THEN state ELSE reported

------------------------------------------------------------------------------
(* ptp_monitor_task: the loop's head, reached after every pass. *)
Loop == [pc |-> IF ctx.running THEN "sleep" ELSE "none",
         timer |-> IF ctx.running THEN MonitorInterval ELSE 0]

(* The sleep ends: the task leaves if it is to stop, or asks the daemon.   *)
(* The request of another task that is still waiting is overwritten.       *)
Wake(m) ==
  /\ monitor[m] = [pc |-> "sleep", timer |-> 0]
  /\ IF ctx.running
     THEN /\ monitor' = [monitor EXCEPT ![m] = [pc |-> "status", timer |-> StatusTimeout]]
          /\ ptpd' = [ptpd EXCEPT !.request = m]
     ELSE /\ monitor' = [monitor EXCEPT ![m] = Absent]
          /\ UNCHANGED ptpd
  /\ UNCHANGED <<ctx, stopper, reported, streak>>

(* ptp_process_statusreq: the daemon turns to the request in the slot.     *)
Serve ==
  /\ ptpd.alive # "no" /\ ptpd.serving = None /\ ptpd.request # None
  /\ StatusTimeout - monitor[ptpd.request].timer <= AnswerMax
  /\ ptpd' = [ptpd EXCEPT !.serving = ptpd.request]
  /\ UNCHANGED <<ctx, monitor, stopper, reported, streak>>

(* It is done and wakes the poll in the slot, which evaluates what it got: *)
(* the answer if it is the one that was answered, zeros if not, and those  *)
(* say that there is no source.                                            *)
Got(m) == IF m = ptpd.serving THEN ptpd ELSE NoDaemon

Answer(m) ==
  /\ ptpd.serving # None /\ m = ptpd.request
  /\ ctx' = Evaluate(ctx, Got(m))
  /\ Notify(ctx'.lock_state)
  /\ streak' = IF Got(m).source \in Gms /\ Got(m).delta = "stable"
               THEN IF streak < LockedStableCount THEN streak + 1 ELSE streak
               ELSE 0
  /\ monitor' = [monitor EXCEPT ![m] = Loop]
  /\ ptpd' = [[ptpd EXCEPT !.request = None] EXCEPT !.serving = None]
  /\ UNCHANGED stopper

(* The same, when the request was withdrawn in between: nobody is woken.   *)
AnswerNobody ==
  /\ ptpd.serving # None /\ ptpd.request = None
  /\ ptpd' = [ptpd EXCEPT !.serving = None]
  /\ UNCHANGED <<ctx, monitor, stopper, reported, streak>>

NoAnswerLeavesRequest(m) ==
  /\ monitor[m] = [pc |-> "status", timer |-> 0] /\ ptpd.alive # "no"
  /\ monitor' = [monitor EXCEPT ![m] = Loop]
  /\ UNCHANGED <<ctx, stopper, ptpd, reported, streak>>

(* ptpd_status gives up and clears the slot, whoever's request it holds.   *)
NoAnswer(m) ==
  /\ monitor[m] = [pc |-> "status", timer |-> 0] /\ ptpd.alive # "no"
  /\ monitor' = [monitor EXCEPT ![m] = Loop]
  /\ ptpd' = [ptpd EXCEPT !.request = None]
  /\ UNCHANGED <<ctx, stopper, reported, streak>>

(* The same after the daemon has gone: s_state is NULL, the store traps    *)
(* and the device boots again.                                             *)
CrashNull(m) ==
  /\ monitor[m] = [pc |-> "status", timer |-> 0] /\ ptpd.alive = "no"
  /\ ctx' = [running |-> FALSE, lock_state |-> "UNLOCKED", stable_count |-> 0,
              is_grandmaster |-> FALSE, grandmaster_id |-> None]
  /\ monitor' = [n \in Monitors |-> Absent]
  /\ stopper' = Absent /\ ptpd' = NoDaemon
  /\ reported' = "UNLOCKED" /\ streak' = 0

------------------------------------------------------------------------------
(* aes67_ptp_start: the daemon starts only once its predecessor has gone. *)
Start(m) ==
  /\ ~ctx.running /\ stopper = Absent /\ ptpd.alive = "no"
  /\ monitor[m] = Absent
  /\ ptpd' = [NoDaemon EXCEPT !.alive = "yes"]
  /\ ctx' = SetLock([ctx EXCEPT !.running = TRUE], "UNLOCKED", 0)
  /\ monitor' = [monitor EXCEPT ![m] = [pc |-> "sleep", timer |-> MonitorInterval]]
  /\ streak' = 0
  /\ UNCHANGED <<stopper, reported>>

(* The same call, when the monitor task cannot be created. *)
StartFails ==
  /\ ~ctx.running /\ stopper = Absent /\ ptpd.alive = "no"
  /\ ptpd' = [NoDaemon EXCEPT !.alive = "stopping"]
  /\ ctx' = SetLock(ctx, "UNLOCKED", 0)
  /\ streak' = 0
  /\ UNCHANGED <<monitor, stopper, reported>>

StopBeginNoWait ==
  /\ ctx.running /\ stopper = Absent
  /\ ctx' = [ctx EXCEPT !.running = FALSE]
  /\ stopper' = [pc |-> "wait", timer |-> 0]
  /\ UNCHANGED <<monitor, ptpd, reported, streak>>

(* aes67_ptp_stop: the flag, the wait ...                                  *)
StopBegin ==
  /\ ctx.running /\ stopper = Absent
  /\ ctx' = [ctx EXCEPT !.running = FALSE]
  /\ stopper' = [pc |-> "wait", timer |-> StopWait]
  /\ UNCHANGED <<monitor, ptpd, reported, streak>>

StopEndSilent ==
  /\ stopper = [pc |-> "wait", timer |-> 0]
  /\ stopper' = Absent
  /\ ptpd' = [ptpd EXCEPT !.alive = "stopping"]
  /\ ctx' = SetLock(ctx, "UNLOCKED", 0)
  /\ streak' = 0
  /\ UNCHANGED <<monitor, reported>>

(* ... and the rest, whether or not the task has left.                     *)
StopEnd ==
  /\ stopper = [pc |-> "wait", timer |-> 0]
  /\ stopper' = Absent
  /\ ptpd' = [ptpd EXCEPT !.alive = "stopping"]
  /\ ctx' = SetLock(ctx, "UNLOCKED", 0)
  /\ Notify("UNLOCKED")
  /\ streak' = 0
  /\ UNCHANGED monitor

------------------------------------------------------------------------------
(* The daemon.  It selects a better source that announces itself, without  *)
(* touching last_delta_ns, which is 0 until the first measurement.  g may  *)
(* be this node's own identity: a boundary clock that follows this node    *)
(* forwards it in its announcements, and ptp_monitor_task compares it.     *)
SelectSource(g) ==
  /\ ptpd.alive = "yes" /\ g # ptpd.source
  /\ ptpd' = [ptpd EXCEPT !.source = g]
  /\ UNCHANGED <<ctx, monitor, stopper, reported, streak>>

(* No sync for NETUTILS_PTPD_TIMEOUT_MS. *)
LoseSource ==
  /\ ptpd.alive = "yes" /\ ptpd.source # None
  /\ ptpd' = [ptpd EXCEPT !.source = None]
  /\ UNCHANGED <<ctx, monitor, stopper, reported, streak>>

(* A sync is measured; an offset above the settime threshold is corrected  *)
(* by a jump, and last_delta_ns set to 0.                                  *)
Sync(delta) ==
  /\ ptpd.alive = "yes" /\ ptpd.source # None /\ delta # ptpd.delta
  /\ ptpd' = [ptpd EXCEPT !.delta = delta]
  /\ UNCHANGED <<ctx, monitor, stopper, reported, streak>>

DaemonExit ==
  /\ ptpd.alive = "stopping" /\ ptpd.serving = None
  /\ ptpd' = NoDaemon
  /\ UNCHANGED <<ctx, monitor, stopper, reported, streak>>

Running(task) == task.pc # "none"
Due(task)     == Running(task) /\ task.timer = 0
Later(task)   == IF Running(task) THEN [task EXCEPT !.timer = @ - 1] ELSE task

Tick ==
  /\ ~Due(stopper) /\ (\A m \in Monitors : ~Due(monitor[m])) /\ ptpd.serving = None
  /\ Running(stopper) \/ \E m \in Monitors : Running(monitor[m])
  /\ stopper' = Later(stopper)
  /\ monitor' = [m \in Monitors |-> Later(monitor[m])]
  /\ UNCHANGED <<ctx, ptpd, reported, streak>>

Next ==
  \/ \E m \in Monitors : Wake(m) \/ Answer(m) \/ NoAnswer(m) \/ CrashNull(m) \/ Start(m)
  \/ Serve
  \/ AnswerNobody
  \/ StartFails
  \/ StopBegin
  \/ StopEnd
  \/ \E g \in Gms \cup {Own} : SelectSource(g)
  \/ LoseSource
  \/ \E delta \in Deltas : Sync(delta)
  \/ DaemonExit
  \/ Tick

Spec == Init /\ [][Next]_vars

(* Time passes, due steps are taken, and the daemon does not miss every    *)
(* poll from some point on: its loop turns every 125 ms.                   *)
FairSpec ==
  /\ Spec
  /\ WF_vars(Tick) /\ SF_vars(Serve) /\ WF_vars(AnswerNobody)
  /\ \A m \in Monitors : WF_vars(Wake(m)) /\ WF_vars(NoAnswer(m)) /\ WF_vars(Answer(m))

------------------------------------------------------------------------------
(* Types; stable_count stops at its threshold. *)
TypeOK ==
  /\ ctx \in [running : BOOLEAN, lock_state : LockStates, stable_count : 0 .. LockedStableCount,
              is_grandmaster : BOOLEAN, grandmaster_id : Gms \cup {Own, None}]
  /\ monitor \in [Monitors -> [pc : {"none", "sleep", "status"}, timer : Nat]]
  /\ stopper \in [pc : {"none", "wait"}, timer : 0 .. StopWait]
  /\ ptpd \in [alive : {"yes", "stopping", "no"}, source : Gms \cup {Own, None}, delta : Deltas,
               request : Monitors \cup {None}, serving : Monitors \cup {None}]
  /\ reported \in LockStates /\ streak \in 0 .. LockedStableCount

(* A node that follows a grandmaster becomes locked only after             *)
(* PTP_LOCKED_STABLE_COUNT polls in a row below a microsecond, whatever    *)
(* drift, loss of the source, role changes, restarts and silent polls came *)
(* in between (ptp_update_lock_state, aes67_ptp_start, aes67_ptp_stop).    *)
LockIsEarned ==
  [][ctx.lock_state # "LOCKED" /\ ctx'.lock_state = "LOCKED" /\ ~ctx'.is_grandmaster
       => streak' = LockedStableCount]_vars

(* Whoever follows lock_cb knows the lock state, across stops and restarts *)
(* as well (every place that assigns lock_state).                          *)
ReportedIsCurrent == reported = ctx.lock_state

(* Once aes67_ptp_stop has returned the clock is not reported as locked    *)
(* any more, although a monitor task may still be waiting for the daemon.  *)
(* This needs the daemon's answer before the wait of aes67_ptp_stop ends.  *)
StoppedIsUnlocked ==
  ~ctx.running /\ ~Running(stopper) => ctx.lock_state = "UNLOCKED"

(* The status, and the semaphore to post, live in the poll that asked.  The *)
(* daemon never holds a request of a poll that has given up, through       *)
(* time-outs, restarts and polls of two tasks that share the slot          *)
(* (ptpd_status, ptp_process_statusreq).  It must not take until the       *)
(* time-out to look at a request: AnswerMax is below it.                   *)
AnswersAreAwaited ==
  \A m \in {ptpd.request, ptpd.serving} \ {None} : monitor[m].pc = "status"

Alone             == Cardinality({m \in Monitors : Running(monitor[m])}) = 1
Steady(condition) == ctx.running /\ ptpd.alive = "yes" /\ Alone /\ condition
Mastered          == ptpd.source \in Gms

(* The lock state comes to agree with the clock: locked if the offset      *)
(* stays below a microsecond or there is no other grandmaster, unlocked if *)
(* it stays above ten milliseconds.  The monitor task of an earlier start  *)
(* must not poll on beside the new one: each can withdraw the other's      *)
(* requests for ever.                                                      *)
LockFollowsClock ==
  /\ <>[]Steady(Mastered => ptpd.delta = "stable") => <>[](ctx.lock_state = "LOCKED")
  /\ <>[]Steady(Mastered /\ ptpd.delta = "far")    => <>[](ctx.lock_state = "UNLOCKED")
==============================================================================
