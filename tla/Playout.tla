------------------------------- MODULE Playout -------------------------------
(***************************************************************************)
(* The way of received audio to the converter: the Ethernet hook of main.c *)
(* writes each packet into a stream buffer, and the I2S DMA callback of    *)
(* aes67_audio.c fills one descriptor from it whenever one has been        *)
(* played, making up what is missing by holding the last frame.            *)
(*                                                                         *)
(* Time is counted in frames.  A sender with the node's clock emits its    *)
(* packets regularly and the network delays each by at most Jitter, or     *)
(* loses it.  Whatever is due happens before time goes on.  What the audio *)
(* contains is left open: only its amount is kept, in samples, and the     *)
(* value that is held.                                                     *)
(***************************************************************************)
EXTENDS Integers, Sequences, FiniteSetsExt

CONSTANTS
  BufferSize, \* samples the stream buffer holds
  Channels,   \* samples of a frame; the I2S side is stereo
  Desc,       \* DMA_FRAME_NUM: frames of a descriptor
  Spps,       \* frames of a packet, for the senders considered
  Jitter,     \* longest delay of a packet, in frames
  Half,       \* samples are in -Half .. Half - 1, Half is a power of 2
  Amps,       \* the values that the last frame of a descriptor may have
  MaxLost     \* frames lost in a row of one sender: bounds the model

ASSUME PlayoutAssumption ==
  /\ {BufferSize, Channels, Desc, Half} \subseteq Nat \ {0}
  /\ Spps # {} /\ Spps \subseteq Nat \ {0}
  /\ BufferSize % Channels = 0
  /\ \A spp \in Spps : BufferSize >= Channels * (Desc + Jitter + 2 * spp)
  /\ Jitter \in Nat /\ MaxLost \in Nat
  /\ Amps \subseteq -Half .. Half - 1

VARIABLES
  level,  \* samples in the stream buffer
  last,   \* s_last_frame, in either channel
  isr,    \* the DMA: [on, timer], timer counts down to the next callback
  sender, \* [sending, spp, timer], timer counts down to the next packet
  flight, \* the packets on their way: for each, how long it may still take
  heard   \* history, since the first packet of a sender: [flowing, made_up, lost], in frames

playoutVars == <<level, last, isr, sender, flight, heard>>

Silent == [flowing |-> FALSE, made_up |-> 0, lost |-> 0]

(* app_main creates the buffer and hooks the driver before audio starts.   *)
PlayoutInit ==
  /\ level = 0
  /\ last = 0
  /\ isr = [on |-> FALSE, timer |-> 0]
  /\ sender \in {[sending |-> FALSE, spp |-> spp, timer |-> 0] : spp \in Spps}
  /\ flight = <<>>
  /\ heard = Silent

------------------------------------------------------------------------------
(* A definition whose name extends the name of the one that follows it is  *)
(* a mutant of it: the bug that a property below must notice.              *)

AcceptedButOne(samples) == Min({samples, BufferSize - 1 - level})

(* xStreamBufferSend without waiting takes what fits. *)
Accepted(samples) == Min({samples, BufferSize - level})

(* eth_rtp_hook converts the payload and hands it to aes67_audio_slot_write. *)
Hook ==
  /\ flight # <<>>
  /\ level' = level + Accepted(sender.spp * Channels)
  /\ flight' = Tail(flight)
  /\ heard' = [heard EXCEPT !.flowing = sender.sending]
  /\ UNCHANGED <<last, isr, sender>>

(* int32_t arithmetic: the product wraps, the quotient is truncated. *)
Wrap(x)     == ((x + Half) % (2 * Half)) - Half
Eighth(x)   == IF x >= 0 THEN x \div 8 ELSE -((-x) \div 8)

DecayedFloors(x) == Wrap(x * 7) \div 8
Decayed(x)       == Eighth(Wrap(x * 7))

Received == Min({level, Desc * Channels})
Underrun == Received < Desc * Channels

(* The frames of the descriptor that are filled with the held one: those   *)
(* behind what was received.                                               *)
HeldFramesAll == IF Underrun THEN Desc ELSE 0
HeldFrames    == Desc - Received \div Channels

(* on_i2s_tx_sent_sbuf: the callback takes what is there and fills the     *)
(* rest of the descriptor with the last frame of the last full one.        *)
Fire ==
  /\ isr.on /\ isr.timer = 0
  /\ level' = level - Received
  /\ IF Underrun THEN last' = Decayed(last) ELSE last' \in Amps
  /\ heard' = IF heard.flowing THEN [heard EXCEPT !.made_up = @ + HeldFrames] ELSE heard
  /\ isr' = [isr EXCEPT !.timer = Desc]
  /\ UNCHANGED <<sender, flight>>

(* aes67_audio_start and aes67_audio_stop; the hook does not notice.       *)
AudioStart ==
  /\ ~isr.on
  /\ isr' = [on |-> TRUE, timer |-> Desc]
  /\ UNCHANGED <<level, last, sender, flight, heard>>

AudioStop ==
  /\ isr.on
  /\ isr' = [on |-> FALSE, timer |-> 0]
  /\ UNCHANGED <<level, last, sender, flight, heard>>

------------------------------------------------------------------------------
(* The sender and the network. *)
SendStart(spp) ==
  /\ ~sender.sending /\ flight = <<>>
  /\ sender' = [sending |-> TRUE, spp |-> spp, timer |-> 0]
  /\ UNCHANGED <<level, last, isr, flight, heard>>

SendStop ==
  /\ sender.sending
  /\ sender' = [sender EXCEPT !.sending = FALSE, !.timer = 0]
  /\ heard' = Silent
  /\ UNCHANGED <<level, last, isr, flight>>

Send ==
  /\ sender.sending /\ sender.timer = 0
  /\ flight' = Append(flight, Jitter)
  /\ sender' = [sender EXCEPT !.timer = sender.spp]
  /\ UNCHANGED <<level, last, isr, heard>>

Lose ==
  /\ flight # <<>>
  /\ heard.lost + sender.spp <= MaxLost
  /\ flight' = Tail(flight)
  /\ heard' = IF heard.flowing THEN [heard EXCEPT !.lost = @ + sender.spp] ELSE heard
  /\ UNCHANGED <<level, last, isr, sender>>

Due == \/ isr.on /\ isr.timer = 0
       \/ sender.sending /\ sender.timer = 0
       \/ \E i \in DOMAIN flight : flight[i] = 0

Tick ==
  /\ ~Due
  /\ isr.on \/ sender.sending \/ flight # <<>>
  /\ isr' = [isr EXCEPT !.timer = IF isr.on THEN @ - 1 ELSE @]
  /\ sender' = [sender EXCEPT !.timer = IF sender.sending THEN @ - 1 ELSE @]
  /\ flight' = [i \in DOMAIN flight |-> flight[i] - 1]
  /\ UNCHANGED <<level, last, heard>>

PlayoutNext ==
  \/ Hook
  \/ Fire
  \/ AudioStart
  \/ AudioStop
  \/ \E spp \in Spps : SendStart(spp)
  \/ SendStop
  \/ Send
  \/ Lose
  \/ Tick

PlayoutSpec == PlayoutInit /\ [][PlayoutNext]_playoutVars

------------------------------------------------------------------------------
(* Between two calls the buffer holds whole frames, so that what the       *)
(* callback takes begins with the left channel, although packets of any    *)
(* size are cut where the buffer is full and descriptors are filled in     *)
(* part (aes67_audio_slot_write, on_i2s_tx_sent_sbuf).                     *)
StaysStereo == level % Channels = 0

(* However long a sender with the node's clock keeps sending, the output   *)
(* is stretched by no more than a descriptor and the jitter, and by what   *)
(* was lost: each underrun makes the buffer deeper, until none occurs any  *)
(* more, without any pre-buffering (on_i2s_tx_sent_sbuf).                  *)
StretchIsBounded == heard.made_up <= Desc + Jitter + heard.lost

(* When a stream has ended the output becomes silent: the held frame fades *)
(* to zero and does not stay as a direct voltage (on_i2s_tx_sent_sbuf).    *)
EndsInSilence == <>[](isr.on /\ ~sender.sending) => <>[](last = 0)

(* The next value of a fade is on the same side of zero and an eighth      *)
(* smaller, up to rounding.                                                *)
Fades(x, y) == IF x >= 0 THEN y \in x - x \div 8 - 1 .. x ELSE -y \in -x - (-x) \div 8 - 1 .. -x

(* The comment of on_i2s_tx_sent_sbuf: the held frame decays toward zero   *)
(* from underrun to underrun, without a jump.                              *)
SmoothDecay == [][Fire /\ Underrun => Fades(last, last')]_playoutVars
==============================================================================
