----------------------------- MODULE NodeFrames -----------------------------
(***************************************************************************)
(* The life of a node together with its frame timer: aes67_node_init makes *)
(* the semaphore and the timer, aes67_node_start starts it before the      *)
(* frame task, and neither stop nor destroy stops it.  It goes on for a    *)
(* node that is stopped, while it is destroyed, and while the next node is *)
(* made and started.                                                       *)
(***************************************************************************)
EXTENDS NodeLife

CONSTANTS
  Period, Second, Jumps, BackMax, BehindMax,  \* of FrameTimer
  PutOff \* whether steps of the timer are put off to where they matter

ASSUME NodeFramesAssumption ==
  /\ Second \in Nat \ {0} /\ Period \in 1 .. Second
  /\ Jumps \subseteq Int
  /\ BackMax \in Nat /\ BehindMax \in Nat
  /\ PutOff \in BOOLEAN

VARIABLES
  phase, nsec, timer, target, starting, back, torn,
  frame_sem \* whether s_frame_sem is a semaphore

Frame == INSTANCE FrameTimer
           WITH Period <- Period, Second <- Second, Jumps <- Jumps,
                BackMax <- BackMax, BehindMax <- BehindMax,
                phase <- phase, nsec <- nsec, timer <- timer, target <- target,
                starting <- starting, back <- back, torn <- torn

timerVars == <<phase, nsec, timer, target, starting, back, torn>>
frameVars == <<timerVars, frame_sem>>
allVars   == <<vars, frameVars>>

FramesInit == Init /\ Frame!Init /\ frame_sem = FALSE

(* The timer shares nothing with most steps of the calls and the tasks, so *)
(* that its steps can be put off to where one of them meets it, or the     *)
(* node runs.  A stop or an init takes many frames: what the timer does    *)
(* meanwhile can come before or after it, so that it is at a time when a   *)
(* frame is about to come.  What tasks do while the timer is started can   *)
(* come before, so that they have just looked at their flags then.         *)
Settled == daemon # "starting" /\ \A t \in Of(Prompt) : t.timer = LookMax

Meets ==
  \/ In("init", "node")
  \/ In("start", "node") /\ Settled
  \/ Idle /\ "node" \in running
  \/ ~PutOff

FrameIsNext ==
  PutOff => nsec = 0 /\ (IF target.armed THEN target.at = 1 /\ back = 0 ELSE phase = 0)

NotYet == PutOff /\ In("start", "node") => ~Settled

(* aes67_node_init: a semaphore, and with or without the callback a node;  *)
(* without a semaphore, or a frame callback of the audio driver, none.     *)
InitNodeTimer ==
  /\ InitNode /\ FrameIsNext
  /\ Frame!HwTimerInit \/ Frame!HwTimerInitFails
  /\ frame_sem' = TRUE

InitNodeFails ==
  /\ InitFails("node") /\ FrameIsNext
  /\ frame_sem' \in {FALSE, frame_sem}
  /\ UNCHANGED timerVars

(* aes67_node_start ends with the start of the timer, and if that succeeds *)
(* with the frame task: the timer is stopped again when there is none.     *)
StartTimer ==
  /\ In("start", "node") /\ Meets
  /\ Frame!ReadClock \/ Frame!SetSec \/ Frame!SetNsec \/ Frame!GetSec
  /\ UNCHANGED <<vars, frame_sem>>

StartNodeTimer ==
  /\ StartNode
  /\ \/ tasks' # tasks /\ Frame!SetTarget
     \/ tasks' = tasks /\ Frame!SetTargetAndStop
     \/ /\ tasks' = tasks /\ starting = Frame!NotStarting
        /\ UNCHANGED timerVars
  /\ UNCHANGED frame_sem

(* hw_frame_isr gives the semaphore. *)
Tic ==
  /\ Meets /\ frame_sem
  /\ Frame!Isr
  /\ UNCHANGED <<vars, frame_sem>>

Boot == Frame!Boot /\ frame_sem' = FALSE

(* ... that could not be made. *)
CrashNoSemaphore ==
  /\ Meets /\ Frame!Due /\ timer.running /\ ~frame_sem
  /\ Reboot /\ Boot

IsrStopped == Meets /\ Frame!IsrStopped /\ UNCHANGED <<vars, frame_sem>>
Advance    == Meets /\ Frame!Advance /\ UNCHANGED <<vars, frame_sem>>
StepBack   == Meets /\ (\E n \in Jumps : n < 0 /\ Frame!StepClock(n)) /\ UNCHANGED <<vars, frame_sem>>
StepAhead  == Meets /\ (\E n \in Jumps : n > 0 /\ Frame!StepClock(n)) /\ UNCHANGED <<vars, frame_sem>>

(* The steps of NodeLife that leave the timer alone. *)
OtherCallStep == CallStep /\ ~In("init", "node") /\ ~In("start", "node") /\ UNCHANGED frameVars

OtherFailure ==
  /\ \/ \E part \in Parts \ {"node"} : InitFails(part)
     \/ MonitorFails \/ RtpFails \/ SapFails \/ SapTxFails \/ AudioFails \/ DaemonFails
  /\ UNCHANGED frameVars

Crash == (CrashStale \/ CrashNull) /\ Boot

OtherStep ==
  /\ \/ \E sap \in BOOLEAN : InitBegin(sap)
     \/ StartBegin
     \/ (StopBegin \/ DestroyBegin) /\ FrameIsNext
     \/ \E t \in BagToSet(tasks) : Look(t)
     \/ LeaveStale \/ DaemonUp \/ DaemonExit
     \/ Tick
  /\ NotYet
  /\ UNCHANGED frameVars

FramesNext ==
  \/ InitNodeTimer \/ InitNodeFails \/ StartTimer \/ StartNodeTimer
  \/ Tic \/ CrashNoSemaphore \/ IsrStopped \/ Advance \/ StepBack \/ StepAhead
  \/ OtherCallStep \/ OtherFailure \/ Crash \/ OtherStep

(* A call runs to its end, tasks are scheduled, time passes, the clock runs *)
(* and the interrupt comes, and a null pointer that is used ends the life  *)
(* of the device; nobody has to make a call.                               *)
FramesSpec ==
  /\ FramesInit /\ [][FramesNext]_allVars
  /\ WF_allVars(OtherCallStep \/ InitNodeTimer \/ StartTimer \/ StartNodeTimer)
  /\ WF_allVars(Tick /\ NotYet /\ UNCHANGED frameVars)
  /\ WF_allVars(LookDue /\ NotYet /\ UNCHANGED frameVars)
  /\ WF_allVars((\E t \in Of({"sap_rx"}) : Look(t)) /\ NotYet /\ UNCHANGED frameVars)
  /\ WF_allVars(DaemonUp /\ NotYet /\ UNCHANGED frameVars)
  /\ WF_allVars(DaemonExit /\ NotYet /\ UNCHANGED frameVars)
  /\ WF_allVars(CrashNull /\ Boot)
  /\ WF_allVars(Tic) /\ WF_allVars(IsrStopped) /\ WF_allVars(Advance)

------------------------------------------------------------------------------
OnGrid           == Frame!OnGrid
SilenceIsBounded == Frame!SilenceIsBounded

(* Every frame task that stays, in a node whose interrupt could be         *)
(* registered, is woken again and again, through every step of the clock   *)
(* and every restart of the node, as long as the clock is stepped back so  *)
(* far only between two interrupts (aes67_node_start, hw_timer_isr).       *)
FramesGoOn ==
  <>[]("node" \in running /\ timer.running /\ timer.registered)
    => []<><<Tic>>_allVars
=============================================================================
