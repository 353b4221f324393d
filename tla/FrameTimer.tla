----------------------------- MODULE FrameTimer -----------------------------
(***************************************************************************)
(* The hardware timer of the audio frames (aes67_hw_timer.c): an interrupt *)
(* at every multiple of the frame period on the PTP clock, which the PTP   *)
(* daemon may step at any time (esp_eth_time.c).                           *)
(*                                                                         *)
(* All times are relative: "phase" is the PTP time since the last multiple *)
(* of the period, every other time is how far ahead of the PTP time it is, *)
(* negative when it has passed.  Time in units of a fraction of a period.  *)
(*                                                                         *)
(* A timespec has two halves, written and read one after the other: "nsec" *)
(* is that of the PTP time, from which the halves of every other time      *)
(* follow.  An interrupt of an earlier start may come between the halves,  *)
(* on the core that runs the start, and is over before the start goes on.  *)
(***************************************************************************)
EXTENDS Integers

CONSTANTS
  Period,   \* frame_period_ns
  Second,   \* 1000000000
  Jumps,    \* by how much the PTP clock may be stepped: integers
  BackMax,  \* bounds how far the clock is stepped back before the next interrupt
  BehindMax \* bounds how late an interrupt, or the task that starts the timer, can be

VARIABLES
  phase,    \* 0 .. Period - 1
  nsec,     \* 0 .. Second - 1: the time since the PTP time's last full second
  timer,    \* s_timer: [registered, running, next]
  target,   \* what the Ethernet MAC compares its clock with: [armed, at]
  starting, \* how far aes67_hw_timer_start is, and the time it has at hand: [done, next]
  back,     \* history: how far the clock was stepped back since the last interrupt,
            \* and a period when that interrupt was not the one of s_timer's target,
            \* a second when the halves of the target were mixed up
  torn      \* history: what an interrupt of the last start tore apart, and no later
            \* one has set right: "no", the MAC's "target" or s_timer's "next"

vars == <<phase, nsec, timer, target, starting, back, torn>>

Disarmed    == [armed |-> FALSE, at |-> 0]
NotStarting == [done |-> "none", next |-> 0]
Stopped     == [registered |-> timer.registered, running |-> FALSE, next |-> 0]

Init ==
  /\ phase = 0 /\ nsec = 0
  /\ timer = [registered |-> FALSE, running |-> FALSE, next |-> 0]
  /\ target = Disarmed
  /\ starting = NotStarting
  /\ back = 0 /\ torn = "no"

(* The next multiple of the period, ((now / period) + 1) * period. *)
NextBoundary == Period - phase

(* The halves of a time, tv_sec as the beginning of its second, and a time *)
(* made of the halves of two.                                              *)
Nsec(time)        == (nsec + time) % Second
Sec(time)         == time - Nsec(time)
Joined(sec, nano) == Sec(sec) + Nsec(nano)

------------------------------------------------------------------------------
(* A definition whose name extends the name of the one that follows it is  *)
(* a mutant of it: the bug that a property below must notice.              *)

(* The device boots again: nothing is armed. *)
Boot ==
  /\ phase' = 0 /\ nsec' = 0
  /\ timer' = [registered |-> FALSE, running |-> FALSE, next |-> 0]
  /\ target' = Disarmed
  /\ starting' = NotStarting
  /\ back' = 0 /\ torn' = "no"

(* aes67_hw_timer_init, which the task that starts the timer calls, too;   *)
(* the target of an earlier start stays armed.                             *)
HwTimerInit ==
  /\ starting = NotStarting
  /\ timer' = [registered |-> TRUE, running |-> FALSE, next |-> 0]
  /\ UNCHANGED <<phase, nsec, target, starting, back, torn>>

HwTimerInitFails ==
  /\ starting = NotStarting
  /\ timer' = Stopped
  /\ UNCHANGED <<phase, nsec, target, starting, back, torn>>

(* aes67_hw_timer_start, which an interrupt of an earlier start may enter: *)
(* the clock is read ...                                                   *)
ReadClock ==
  /\ starting.done = "none"
  /\ starting' = [done |-> "read", next |-> NextBoundary]
  /\ back' = 0 /\ torn' = "no"
  /\ UNCHANGED <<phase, nsec, timer, target>>

(* ... the halves of the first target are set in s_timer, with the second  *)
(* one the flag, without which an interrupt looks at neither ...           *)
SetSec ==
  /\ starting.done = "read"
  /\ timer' = [timer EXCEPT !.next = Joined(starting.next, @)]
  /\ starting' = [starting EXCEPT !.done = "sec"]
  /\ UNCHANGED <<phase, nsec, target, back, torn>>

SetNsec ==
  /\ starting.done = "sec"
  /\ timer' = [registered |-> timer.registered, running |-> TRUE,
               next |-> Joined(timer.next, starting.next)]
  /\ starting' = [done |-> "nsec", next |-> 0]
  /\ UNCHANGED <<phase, nsec, target, back, torn>>

(* ... read again by esp_eth_clock_set_target_time ...                     *)
GetSec ==
  /\ starting.done = "nsec"
  /\ starting' = [done |-> "load", next |-> timer.next]
  /\ UNCHANGED <<phase, nsec, timer, target, back, torn>>

MixedUp == IF torn = "no" THEN 0 ELSE Second

(* ... and handed to the MAC, which calls nobody without the callback.     *)
HandOver ==
  /\ starting.done = "load"
  /\ target' = IF timer.registered THEN [armed |-> TRUE, at |-> Joined(starting.next, timer.next)]
                                   ELSE target
  /\ starting' = NotStarting
  /\ back' = back + MixedUp
  /\ UNCHANGED <<phase, nsec, torn>>

SetTarget ==
  /\ HandOver
  /\ timer' = IF timer.registered THEN timer ELSE [timer EXCEPT !.next = 0]

(* SetTarget, then aes67_hw_timer_stop. *)
SetTargetAndStop == HandOver /\ timer' = Stopped

(* hw_timer_isr: the next target is a period after this one, unless that   *)
(* has passed as well.                                                     *)
RearmedFromNow(next)  == IF next + Period > 0 THEN next + Period ELSE Period
RearmedTooFar(next)   == IF next + Period > 0 THEN next + Period ELSE NextBoundary + Period
Rearmed(next)         == IF next + Period > 0 THEN next + Period ELSE NextBoundary

Due == target.armed /\ target.at <= 0

SinceIsr ==
  IF starting.done = "read" \/ (starting.done = "sec" /\ ~timer.running) THEN back
  ELSE IF timer.running /\ target.at # timer.next THEN back + Period ELSE 0

TornByIsr ==
  IF starting.done = "sec" \/ (torn = "next" /\ timer.next + Period > 0) THEN "next"
  ELSE IF starting.done = "load" THEN "target" ELSE "no"

IsrLeavesTarget ==
  /\ Due /\ timer.running
  /\ timer' = [timer EXCEPT !.next = Rearmed(@)]
  /\ target' = IF timer.next + Period > 0 THEN [armed |-> TRUE, at |-> timer'.next] ELSE Disarmed
  /\ back' = 0 /\ torn' = TornByIsr
  /\ UNCHANGED <<phase, nsec, starting>>

Isr ==
  /\ Due /\ timer.running
  /\ timer' = [timer EXCEPT !.next = Rearmed(@)]
  /\ target' = [armed |-> TRUE, at |-> timer'.next]
  /\ back' = SinceIsr /\ torn' = TornByIsr
  /\ UNCHANGED <<phase, nsec, starting>>

IsrStopped ==
  /\ Due /\ ~timer.running
  /\ target' = Disarmed
  /\ back' = SinceIsr
  /\ UNCHANGED <<phase, nsec, timer, starting, torn>>

------------------------------------------------------------------------------
(* The times that matter, and where they may be. *)
NextMatters ==
  (timer.running /\ target.armed) \/ starting.done \in {"sec", "nsec", "load"}

Moved(n) ==
  /\ phase' = (phase + n) % Period /\ nsec' = (nsec + n) % Second
  /\ target' = IF target.armed THEN [target EXCEPT !.at = @ - n] ELSE target
  /\ timer' = IF NextMatters THEN [timer EXCEPT !.next = @ - n] ELSE timer
  /\ starting' = IF starting.done \in {"read", "sec", "load"} THEN [starting EXCEPT !.next = @ - n]
                                                             ELSE starting
  /\ UNCHANGED torn

InBounds ==
  \A n \in {timer.next, target.at, starting.next} : n >= -BehindMax

(* The clock goes on, or is stepped (esp_eth_clock_settime). *)
Advance ==
  /\ Moved(1) /\ InBounds'
  /\ UNCHANGED back

StepClock(n) ==
  /\ Moved(n) /\ InBounds'
  /\ back' = IF n < 0 /\ (target.armed \/ starting # NotStarting) THEN back - n ELSE back
  /\ n > 0 \/ back' <= BackMax + MixedUp

Next ==
  \/ Boot \/ HwTimerInit \/ HwTimerInitFails
  \/ ReadClock \/ SetSec \/ SetNsec \/ GetSec \/ SetTarget \/ SetTargetAndStop
  \/ Isr \/ IsrStopped
  \/ Advance
  \/ \E n \in Jumps : StepClock(n)

Spec == Init /\ [][Next]_vars

------------------------------------------------------------------------------
(* Every frame is due on a multiple of the period, whatever the PTP clock  *)
(* was stepped by between two interrupts, while the timer was started, or  *)
(* before an earlier start's timer was (hw_timer_isr, aes67_hw_timer_start:*)
(* a sender and a receiver keep the same grid).  If the period divides a   *)
(* second that holds even in the middle of a start and when an interrupt   *)
(* mixed up the halves of two times; if it does not, such an interrupt     *)
(* takes the frames off the grid until one comes too late, or a new start. *)
OnGrid ==
  target.armed /\ timer.running /\ (Second % Period = 0 \/ (starting = NotStarting /\ torn = "no"))
    => (phase + target.at) % Period = 0 /\ (phase + timer.next) % Period = 0

(* The next frame is never further away than a period and what the clock   *)
(* was stepped back since the last one (hw_timer_isr does not notice a     *)
(* clock that is stepped back: the frames are silent for as long), but for *)
(* the timer of a stopped node that interrupts aes67_hw_timer_start: then  *)
(* a frame is skipped, or up to a second when the halves of a time are     *)
(* mixed up.                                                               *)
SilenceIsBounded ==
  target.armed /\ timer.running /\ starting = NotStarting =>
    target.at <= Period + back
=============================================================================
