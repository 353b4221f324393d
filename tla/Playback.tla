------------------------------- MODULE Playback -------------------------------
(***************************************************************************)
(* Output to the application (aes67.c) beside that to the I2S converter    *)
(* (Playout): which of them a node has is part of its configuration.       *)
(* Without I2S the receive task of the RTP engine (aes67_rtp.c) writes the *)
(* packets of all sinks into the engine's stream buffer, and playback_task *)
(* reads them there.  It hands them to the callback if that is the output; *)
(* if the output is the stream buffer itself, which the application is to  *)
(* read, it drops them.  An application that reads beside the task is not  *)
(* modelled.                                                               *)
(*                                                                         *)
(* The buffer, the sender and the network are those of Playout; the sinks  *)
(* have the channels of the node.                                          *)
(***************************************************************************)
EXTENDS Playout, FiniteSets

CONSTANTS
  MaxSinks, \* CONFIG_AES67_MAX_SINKS
  MaxRead   \* samples the task reads at a time, all whole frames

ASSUME PlaybackAssumption ==
  /\ MaxSinks \in Nat /\ MaxRead \in Nat \ {0} /\ MaxRead % Channels = 0

VARIABLES
  output,  \* config.output_mode: "i2s", "callback" or "stream_buffer"
  sinks,   \* the session's slots that are enabled
  player   \* playback_task: "none", "search" until it found a sink, then "play"

playbackVars == <<output, sinks, player>>
allVars      == <<playoutVars, playbackVars>>

SinkSlots == 0 .. MaxSinks - 1

PlaybackInit ==
  /\ PlayoutInit
  /\ output \in {"i2s", "callback", "stream_buffer"}
  /\ sinks = {}
  /\ player = "none"

------------------------------------------------------------------------------
(* A definition whose name extends the name of the one that follows it is  *)
(* a mutant of it: the bug that a property below must notice.              *)

(* The way to the converter, what all have in common, and the ways through *)
(* playback_task.                                                          *)
I2s(action) == output = "i2s" /\ action /\ UNCHANGED playbackVars
Either(action) == action /\ UNCHANGED playbackVars
Player(action) == output # "i2s" /\ action /\ UNCHANGED output

(* aes67_session_add_sink, aes67_session_remove_sink *)
AddSink ==
  /\ SinkSlots \ sinks # {}
  /\ sinks' = sinks \cup {Min(SinkSlots \ sinks)}
  /\ UNCHANGED <<playoutVars, player>>

RemoveSink(i) ==
  /\ i \in sinks
  /\ sinks' = sinks \ {i}
  /\ UNCHANGED <<playoutVars, player>>

(* rx_task_func: a packet that no sink takes is dropped; that of a sink is *)
(* written as far as there is room.                                        *)
Rx ==
  /\ flight # <<>>
  /\ level' = IF sinks = {} THEN level ELSE level + Accepted(sender.spp * Channels)
  /\ flight' = Tail(flight)
  /\ heard' = [heard EXCEPT !.flowing = sender.sending]
  /\ UNCHANGED <<last, isr, sender, sinks, player>>

(* aes67_node_start creates the task, a stop ends it at its next turn.     *)
PlayerStart ==
  /\ player = "none"
  /\ player' = "search"
  /\ UNCHANGED <<playoutVars, sinks>>

PlayerStop ==
  /\ player # "none"
  /\ player' = "none"
  /\ UNCHANGED <<playoutVars, sinks>>

(* playback_task looks for a sink among as many slots as there are sinks.  *)
LookedAtButOne == {i \in SinkSlots : i < Cardinality(sinks) - 1}
LookedAt       == {i \in SinkSlots : i < Cardinality(sinks)}

Search ==
  /\ player = "search" /\ sinks \cap LookedAt # {}
  /\ player' = "play"
  /\ UNCHANGED <<playoutVars, sinks>>

(* It waits for a frame and reads all there is with it; what is behind the *)
(* last whole one is gone, and so is the rest of a first frame that is not *)
(* whole.                                                                  *)
PlayReadsButLast == Min({level, MaxRead}) - 1
PlayReads        == Min({level, MaxRead})

Read ==
  /\ player = "play" /\ level > 0
  /\ level' = level - PlayReads
  /\ UNCHANGED <<last, isr, sender, flight, heard, sinks, player>>

(* What it read goes to the audio_cb of the configuration, or to nobody.   *)
HandOn == output = "callback" /\ Read
Drop   == output = "stream_buffer" /\ Read

PlaybackNext ==
  \/ I2s(Hook) \/ I2s(Fire) \/ I2s(AudioStart) \/ I2s(AudioStop)
  \/ \E spp \in Spps : Either(SendStart(spp))
  \/ Either(SendStop) \/ Either(Send) \/ Either(Lose) \/ Either(Tick)
  \/ Player(AddSink) \/ \E i \in SinkSlots : Player(RemoveSink(i))
  \/ Player(Rx)
  \/ Player(PlayerStart) \/ Player(PlayerStop) \/ Player(Search)
  \/ Player(HandOn) \/ Player(Drop)

(* As in Playout; and the task runs, and the network lets packets through. *)
PlaybackSpec ==
  /\ PlaybackInit /\ [][PlaybackNext]_allVars
  /\ WF_allVars(Either(Tick)) /\ WF_allVars(I2s(Fire)) /\ WF_allVars(Either(Send))
  /\ WF_allVars(I2s(Hook) \/ Player(Rx) \/ Either(Lose))
  /\ SF_allVars(Player(Rx))
  /\ WF_allVars(Player(Search)) /\ WF_allVars(Player(HandOn) \/ Player(Drop))

------------------------------------------------------------------------------
(* The callback gets audio again and again while packets come for a sink,  *)
(* whenever the task was started and sinks came and went before.  This     *)
(* needs that the task has found a sink or can: one that was left behind   *)
(* in a slot as high as the number of sinks, or higher, is not among those *)
(* it looks at (playback_task).  It is said of the callback only: with the *)
(* stream buffer as output the task drops what it reads.                   *)
AppIsFed ==
  <>[]( /\ output = "callback" /\ player # "none"
        /\ sender.sending /\ sinks # {}
        /\ player = "play" \/ \E i \in sinks : i < Cardinality(sinks))
    => []<><<HandOn>>_allVars
=============================================================================
