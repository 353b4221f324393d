------------------------------ MODULE NodeLife ------------------------------
(***************************************************************************)
(* The life of a node: aes67_node_init, start, stop and destroy (aes67.c)  *)
(* with the calls of the subsystems they make, the failures each may meet, *)
(* and the tasks that are told to leave by a flag and waited for by the    *)
(* clock.                                                                  *)
(*                                                                         *)
(* One task of the application makes the calls, one after the other.  The  *)
(* unit of time is that of the waits.  A null pointer that is used, or     *)
(* memory that is used after it was freed, may make the device boot again. *)
(***************************************************************************)
EXTENDS Integers, FiniteSets, Bags

CONSTANTS
  MaxTasks,    \* how many tasks may exist: bounds the model
  Waits,       \* what the stop of a subsystem waits: [{"audio", "sap", "rtp", "ptp"} -> Nat]
  SapUndoWait, \* what aes67_sap_start waits when it fails half-way
  LookMax      \* rtp_rx, sap_tx and the frame task look at their flag at least so often

ASSUME NodeLifeAssumption ==
  /\ MaxTasks \in Nat
  /\ Waits \in [{"audio", "sap", "rtp", "ptp"} -> Nat]
  /\ SapUndoWait \in Nat /\ LookMax \in Nat \ {0}

VARIABLES
  sap_enabled, \* of the node's configuration
  exists,      \* the contexts that are allocated, "node" when the caller has the handle
  running,     \* those whose running flag is set
  call,        \* the call under way: [op, at, waiting, timer], op "destroy" stops, "free" frees
  tasks,       \* the tasks that loop on a flag, a bag: [kind, timer]
  daemon,      \* the PTP daemon: s_state is NULL while it is "none" or "starting"
  sockets,     \* how many sockets each of the two keeps open
  held         \* what was allocated beside contexts, since the last init began,
               \* and not freed

vars == <<sap_enabled, exists, running, call, tasks, daemon, sockets, held>>

(* What a part allocates when it is made, and what of it the code frees    *)
(* when it is destroyed (the "buffers" are those of the rings and the DMA).*)
Parts  == {"ptp", "rtp", "sap", "audio", "session", "node"}
Objects(part) ==
  CASE part = "rtp"     -> {"audio_stream_buf"}
    [] part = "audio"   -> {"buffers", "channels", "staging_buf", "dma_sem", "conv_buf"}
    [] part = "session" -> {"lock"}
    [] part = "node"    -> {"s_frame_sem"}
    [] OTHER            -> {}
Freed == {"buffers", "channels", "conv_buf", "lock"}

NoCall == [op |-> "none", at |-> "none", waiting |-> FALSE, timer |-> 0]
Idle   == call = NoCall

(* The tasks of each kind loop while the running flag of their owner is    *)
(* set; those whose owner was freed are called stale.                      *)
Owner == [rtp_rx |-> "rtp", sap_rx |-> "sap", sap_tx |-> "sap", tic |-> "node"]
Prompt == {"rtp_rx", "sap_tx", "tic"}
Task(kind) == [kind |-> kind, timer |-> IF kind \in Prompt THEN LookMax ELSE 0]
Of(kinds)  == {t \in BagToSet(tasks) : t.kind \in kinds}

Init ==
  /\ sap_enabled = FALSE
  /\ exists = {} /\ running = {}
  /\ call = NoCall
  /\ tasks = EmptyBag
  /\ daemon = "none"
  /\ sockets = [rtp |-> 0, sap |-> 0]
  /\ held = {}

(* The device boots again. *)
Reboot ==
  /\ sap_enabled' = FALSE
  /\ exists' = {} /\ running' = {}
  /\ call' = NoCall
  /\ tasks' = EmptyBag
  /\ daemon' = "none"
  /\ sockets' = [rtp |-> 0, sap |-> 0]
  /\ held' = {}

(* xTaskCreate *)
Spawn(kind) ==
  /\ BagCardinality(tasks) < MaxTasks
  /\ tasks' = tasks (+) SetToBag({Task(kind)})

GoTo(op, at) == call' = [NoCall EXCEPT !.op = op, !.at = at]
In(op, at)   == call = [NoCall EXCEPT !.op = op, !.at = at]

------------------------------------------------------------------------------
(* A definition whose name extends the name of the one that follows it is  *)
(* a mutant of it: the bug that a property below must notice.              *)

(* aes67_node_init *)
InitBegin(sap) ==
  /\ Idle /\ exists = {}
  /\ sap_enabled' = sap
  /\ GoTo("init", "ptp")
  /\ held' = {}
  /\ UNCHANGED <<exists, running, tasks, daemon, sockets>>

Wanted(part) == part # "sap" \/ sap_enabled

(* A part is made, or not wanted, and the next one is due. *)
Made(part, next) ==
  /\ In("init", part)
  /\ exists' = IF Wanted(part) THEN exists \cup {part} ELSE exists
  /\ held' = held \cup Objects(part)
  /\ IF next = "none" THEN call' = NoCall ELSE GoTo("init", next)
  /\ UNCHANGED <<sap_enabled, running, tasks, daemon>>

InitPtp     == Made("ptp", "rtp")       /\ UNCHANGED sockets
InitRtp     == Made("rtp", "sap")       /\ sockets' = [sockets EXCEPT !.rtp = @ + 1]
InitSap     == Made("sap", "audio")     /\ UNCHANGED sockets
InitAudio   == Made("audio", "session") /\ UNCHANGED sockets
InitSession == Made("session", "node")  /\ UNCHANGED sockets
InitNode    == Made("node", "none")     /\ UNCHANGED sockets

(* The labels of aes67_node_init: where to begin destroying when a part    *)
(* cannot be made.  They fall through to all that was made before it.      *)
LabelOffByOne(part) ==
  [ptp |-> "node", rtp |-> "ptp", sap |-> "ptp", audio |-> "rtp",
   session |-> "audio", node |-> "session"][part]
Label(part) ==
  [ptp |-> "node", rtp |-> "ptp", sap |-> "rtp", audio |-> "sap",
   session |-> "audio", node |-> "session"][part]

(* What a part that cannot be made has allocated and does not free.        *)
LeftBy(part) ==
  CASE part = "rtp"   -> {{}, {"audio_stream_buf"}}
    [] part = "audio" -> {{}, {"staging_buf"}, {"staging_buf", "dma_sem"}}
    [] OTHER          -> {{}}

InitFails(part) ==
  /\ In("init", part) /\ Wanted(part)
  /\ \E left \in LeftBy(part) : held' = held \cup left
  /\ GoTo("free", Label(part))
  /\ UNCHANGED <<sap_enabled, exists, running, tasks, daemon, sockets>>

------------------------------------------------------------------------------
(* aes67_node_start *)
StartBegin ==
  /\ Idle /\ "node" \in exists \ running
  /\ GoTo("start", "ptp")
  /\ UNCHANGED <<sap_enabled, exists, running, tasks, daemon, sockets, held>>

(* The beginning of what is undone when a part fails to start. *)
UndoFrom(part) == GoTo("undo", part)

(* aes67_ptp_start: ptpd_start refuses while s_state is set. *)
StartDaemon ==
  /\ In("start", "ptp") /\ daemon \in {"none", "starting"}
  /\ daemon' = "starting"
  /\ running' = running \cup {"ptp"}
  /\ GoTo("start", "monitor")
  /\ UNCHANGED <<sap_enabled, exists, tasks, sockets, held>>

StartRefused ==
  /\ In("start", "ptp") /\ daemon \in {"up", "stopping"}
  /\ call' = NoCall
  /\ UNCHANGED <<sap_enabled, exists, running, tasks, daemon, sockets, held>>

(* The monitor task itself is the matter of PtpLock. *)
StartMonitor ==
  /\ In("start", "monitor")
  /\ GoTo("start", "rtp")
  /\ UNCHANGED <<sap_enabled, exists, running, tasks, daemon, sockets, held>>

(* ptpd_stop writes through s_state. *)
StopDaemon ==
  /\ daemon \in {"up", "stopping"}
  /\ daemon' = "stopping"

MonitorFails ==
  /\ In("start", "monitor")
  /\ StopDaemon
  /\ running' = running \ {"ptp"}
  /\ call' = NoCall
  /\ UNCHANGED <<sap_enabled, exists, tasks, sockets, held>>

(* aes67_rtp_engine_start *)
StartRtp ==
  /\ In("start", "rtp")
  /\ running' = running \cup {"rtp"}
  /\ Spawn("rtp_rx")
  /\ GoTo("start", IF sap_enabled THEN "sap" ELSE "audio")
  /\ UNCHANGED <<sap_enabled, exists, daemon, sockets, held>>

RtpFailsLeavesPtp ==
  /\ In("start", "rtp")
  /\ call' = NoCall
  /\ UNCHANGED <<sap_enabled, exists, running, tasks, daemon, sockets, held>>

RtpFails ==
  /\ In("start", "rtp")
  /\ UndoFrom("ptp")
  /\ UNCHANGED <<sap_enabled, exists, running, tasks, daemon, sockets, held>>

(* aes67_sap_start: the socket, the flag and the receiving task ...        *)
StartSap ==
  /\ In("start", "sap")
  /\ sockets' = [sockets EXCEPT !.sap = @ + 1]
  /\ running' = running \cup {"sap"}
  /\ Spawn("sap_rx")
  /\ GoTo("start", "sap_tx")
  /\ UNCHANGED <<sap_enabled, exists, daemon, held>>

(* ... whatever of these fails leaves nothing behind ...                   *)
SapFails ==
  /\ In("start", "sap")
  /\ UndoFrom("rtp")
  /\ UNCHANGED <<sap_enabled, exists, running, tasks, daemon, sockets, held>>

(* ... and the sending task.                                               *)
StartSapTx ==
  /\ In("start", "sap_tx")
  /\ Spawn("sap_tx")
  /\ GoTo("start", "audio")
  /\ UNCHANGED <<sap_enabled, exists, running, daemon, sockets, held>>

SapTxFails ==
  /\ In("start", "sap_tx")
  /\ running' = running \ {"sap"}
  /\ call' = [call EXCEPT !.waiting = TRUE, !.timer = SapUndoWait]
  /\ UNCHANGED <<sap_enabled, exists, tasks, daemon, sockets, held>>

SapUndo ==
  /\ call = [op |-> "start", at |-> "sap_tx", waiting |-> TRUE, timer |-> 0]
  /\ sockets' = [sockets EXCEPT !.sap = @ - 1]
  /\ UndoFrom("rtp")
  /\ UNCHANGED <<sap_enabled, exists, running, tasks, daemon, held>>

(* aes67_audio_start *)
StartAudio ==
  /\ In("start", "audio")
  /\ running' = running \cup {"audio"}
  /\ GoTo("start", "node")
  /\ UNCHANGED <<sap_enabled, exists, tasks, daemon, sockets, held>>

AudioFails ==
  /\ In("start", "audio")
  /\ UndoFrom("sap")
  /\ UNCHANGED <<sap_enabled, exists, running, tasks, daemon, sockets, held>>

(* The node runs, with or without its frame task. *)
StartNode ==
  /\ In("start", "node")
  /\ running' = running \cup {"node"}
  /\ Spawn("tic") \/ UNCHANGED tasks
  /\ call' = NoCall
  /\ UNCHANGED <<sap_enabled, exists, daemon, sockets, held>>

------------------------------------------------------------------------------
(* aes67_node_stop, also as the beginning of aes67_node_destroy, and what  *)
(* a failed start undoes: the parts are stopped one after the other.       *)
StopBegin ==
  /\ Idle /\ "node" \in running
  /\ GoTo("stop", "audio")
  /\ UNCHANGED <<sap_enabled, exists, running, tasks, daemon, sockets, held>>

DestroyBegin ==
  /\ Idle /\ "node" \in exists
  /\ IF "node" \in running THEN GoTo("destroy", "audio") ELSE GoTo("free", "session")
  /\ UNCHANGED <<sap_enabled, exists, running, tasks, daemon, sockets, held>>

Stopped == [audio |-> "sap", sap |-> "rtp", rtp |-> "ptp", ptp |-> "node"]  \* what is next
Stopping(part) == call.op \in {"undo", "stop", "destroy"} /\ call.at = part

StopFlagNoWait(part) ==
  /\ Stopping(part) /\ ~call.waiting /\ part \in running
  /\ running' = running \ {part}
  /\ call' = [call EXCEPT !.waiting = TRUE, !.timer = 0]
  /\ UNCHANGED <<sap_enabled, exists, tasks, daemon, sockets, held>>

(* The flag is cleared and the tasks get some time to notice ...           *)
StopFlag(part) ==
  /\ Stopping(part) /\ ~call.waiting /\ part \in running
  /\ running' = running \ {part}
  /\ call' = [call EXCEPT !.waiting = TRUE, !.timer = Waits[part]]
  /\ UNCHANGED <<sap_enabled, exists, tasks, daemon, sockets, held>>

(* ... then what the part holds is given up, whether they did or not.      *)
StopPart(part) ==
  /\ Stopping(part) /\ call.waiting /\ call.timer = 0
  /\ GoTo(call.op, Stopped[part])
  /\ UNCHANGED <<sap_enabled, exists, running, tasks, held>>

StopAudio == StopPart("audio") /\ UNCHANGED <<daemon, sockets>>
StopSap   == StopPart("sap") /\ sockets' = [sockets EXCEPT !.sap = @ - 1] /\ UNCHANGED daemon
StopRtp   == StopPart("rtp") /\ UNCHANGED <<daemon, sockets>>
StopPtp   == StopPart("ptp") /\ StopDaemon /\ UNCHANGED sockets

StopSkip(part) ==
  /\ Stopping(part) /\ ~call.waiting /\ part \notin running
  /\ GoTo(call.op, Stopped[part])
  /\ UNCHANGED <<sap_enabled, exists, running, tasks, daemon, sockets, held>>

StopEnd ==
  /\ Stopping("node")
  /\ running' = running \ {"node"}
  /\ IF call.op = "destroy" THEN GoTo("free", "session") ELSE call' = NoCall
  /\ UNCHANGED <<sap_enabled, exists, tasks, daemon, sockets, held>>

(* aes67_node_destroy frees the parts one after the other.  Tasks that are *)
(* left refer to memory that is no longer theirs.                          *)
Destroy(part, next) ==
  /\ In("free", part)
  /\ exists' = exists \ {part}
  /\ held' = held \ (Objects(part) \cap Freed)
  /\ tasks' = BagOfAll(LAMBDA t : IF t.kind # "stale" /\ Owner[t.kind] = part THEN Task("stale") ELSE t, tasks)
  /\ IF next = "none" THEN call' = NoCall ELSE GoTo("free", next)
  /\ UNCHANGED <<sap_enabled, running, daemon>>

DestroySession == Destroy("session", "audio") /\ UNCHANGED sockets
DestroyAudio   == Destroy("audio", "sap")     /\ UNCHANGED sockets
DestroySap     == Destroy("sap", "rtp")       /\ UNCHANGED sockets
DestroyRtp     == Destroy("rtp", "ptp")       /\ sockets' = [sockets EXCEPT !.rtp = @ - 1]
DestroyPtp     == Destroy("ptp", "node")      /\ UNCHANGED sockets
DestroyNode    == Destroy("node", "none")     /\ UNCHANGED sockets

------------------------------------------------------------------------------
(* The tasks.  A loop's head: rtp_rx after 100 ms in recvfrom at most,     *)
(* sap_tx and the frame task as soon, sap_rx up to five seconds later.     *)
Look(t) ==
  /\ BagIn(t, tasks) /\ t.kind \in DOMAIN Owner
  /\ tasks' = (tasks (-) SetToBag({t})) (+)
              (IF Owner[t.kind] \in running THEN SetToBag({Task(t.kind)}) ELSE EmptyBag)
  /\ UNCHANGED <<sap_enabled, exists, running, call, daemon, sockets, held>>

(* What a stale flag reads as is anybody's guess: the task leaves, or      *)
(* loops on, or what it does next ends in a crash.                         *)
LeaveStale ==
  /\ Of({"stale"}) # {}
  /\ tasks' = tasks (-) SetToBag({Task("stale")})
  /\ UNCHANGED <<sap_enabled, exists, running, call, daemon, sockets, held>>

CrashStale == Of({"stale"}) # {} /\ Reboot

(* ptp_daemon: initialization sets s_state, or the task ends. *)
DaemonUp ==
  /\ daemon = "starting"
  /\ daemon' = "up"
  /\ UNCHANGED <<sap_enabled, exists, running, call, tasks, sockets, held>>

DaemonFails ==
  /\ daemon = "starting"
  /\ daemon' = "none"
  /\ UNCHANGED <<sap_enabled, exists, running, call, tasks, sockets, held>>

DaemonExitKeepsState ==
  /\ daemon = "stopping"
  /\ UNCHANGED vars

DaemonExit ==
  /\ daemon = "stopping"
  /\ daemon' = "none"
  /\ UNCHANGED <<sap_enabled, exists, running, call, tasks, sockets, held>>

(* ptpd_stop, or the monitor's ptpd_status, with s_state NULL. *)
CrashNull ==
  /\ \/ In("start", "monitor") /\ daemon \in {"none", "starting"}
     \/ Stopping("ptp") /\ call.waiting /\ call.timer = 0 /\ daemon \in {"none", "starting"}
     \/ "ptp" \in running /\ daemon = "none"
  /\ Reboot

Earlier(timer) == IF timer = 0 THEN 0 ELSE timer - 1

LookDue == \E t \in Of(Prompt) : t.timer = 0 /\ Look(t)

Tick ==
  /\ daemon # "starting" /\ \A t \in Of(Prompt) : t.timer > 0
  /\ call' = [call EXCEPT !.timer = Earlier(@)]
  /\ tasks' = BagOfAll(LAMBDA t : [t EXCEPT !.timer = Earlier(@)], tasks)
  /\ UNCHANGED <<sap_enabled, exists, running, daemon, sockets, held>>

CallStep ==
  \/ InitPtp \/ InitRtp \/ InitSap \/ InitAudio \/ InitSession \/ InitNode
  \/ StartDaemon \/ StartRefused \/ StartMonitor \/ StartRtp \/ StartSap \/ StartSapTx
  \/ SapUndo \/ StartAudio \/ StartNode
  \/ \E part \in DOMAIN Stopped : StopFlag(part) \/ StopSkip(part)
  \/ StopAudio \/ StopSap \/ StopRtp \/ StopPtp \/ StopEnd
  \/ DestroySession \/ DestroyAudio \/ DestroySap \/ DestroyRtp \/ DestroyPtp \/ DestroyNode

Failure ==
  \/ \E part \in Parts : InitFails(part)
  \/ MonitorFails \/ RtpFails \/ SapFails \/ SapTxFails \/ AudioFails
  \/ DaemonFails \/ CrashStale \/ CrashNull

Next ==
  \/ \E sap \in BOOLEAN : InitBegin(sap)
  \/ StartBegin
  \/ StopBegin
  \/ DestroyBegin
  \/ CallStep
  \/ Failure
  \/ \E t \in BagToSet(tasks) : Look(t)
  \/ LeaveStale
  \/ DaemonUp
  \/ DaemonExit
  \/ Tick

Spec == Init /\ [][Next]_vars

------------------------------------------------------------------------------
Whole == {part \in Parts : Wanted(part)}

(* Whatever fails in whichever call, the next call finds all parts running *)
(* or none: a failed start, and a stop, stop every part that had started   *)
(* (the error paths of aes67_node_start, aes67_node_stop).                 *)
RunningTogether ==
  Idle => running \in {{}, Whole \ {"session"}}

(* A failed init and a destroy leave no context and no socket behind, and  *)
(* of what was allocated beside them just what no function of the code     *)
(* ever frees: the stream buffer of RTP, the staging ring of the audio     *)
(* driver with its semaphore, and the semaphore of the frames.  A node     *)
(* that exists has everything it was made with.  SAP holds one socket      *)
(* while it runs and none after any failure                                *)
(* (the labels of aes67_node_init, aes67_sap_start, the destroy calls).    *)
NeverFreed == {"audio_stream_buf", "staging_buf", "dma_sem", "s_frame_sem"}

NothingLeftOpen ==
  Idle => /\ exists \in {{}, Whole}
          /\ exists = {} => held \subseteq NeverFreed
          /\ exists = Whole => UNION {Objects(part) : part \in Parts} \subseteq held
          /\ sockets.rtp = Cardinality(exists \cap {"rtp"})
          /\ sockets.sap = Cardinality(running \cap {"sap"})

(* The waits of aes67_rtp_engine_stop and aes67_sap_stop are long enough   *)
(* for the receiving and the announcing task: when a stop or a failed      *)
(* start has returned, and before anything is freed, they have left, so    *)
(* that neither uses a context that is freed and no second one is started  *)
(* beside them.                                                            *)
StopsInTime ==
  call.op \in {"none", "init", "free"} /\ "node" \notin running => Of({"rtp_rx", "sap_tx"}) = {}

(* A stopped node can be started again: starts that are tried over and     *)
(* over are not refused forever on account of the old daemon, unless the   *)
(* node is stopped or destroyed, or fails, over and over as well           *)
(* (ptpd_start, ptp_daemon).                                               *)
RestartWorks ==
  []<><<StartBegin>>_vars => []<><<StopBegin \/ DestroyBegin \/ Failure>>_vars
=============================================================================
