------------------------------ MODULE SourceTx ------------------------------
(***************************************************************************)
(* Transmission: the session's sources (aes67_session.c), the streams of   *)
(* the RTP engine (aes67_rtp.c) and audio_frame_task (aes67.c), which at   *)
(* every tick of the PTP timer copies a block of captured audio into each  *)
(* source's ring and sends a packet of each ring that holds one.           *)
(*                                                                         *)
(* The session's lock admits one call that adds or removes a source or a   *)
(* sink at a time.  The frame task takes it only to copy a source's entry; *)
(* it uses the copied stream, and walks the engine's table, without.       *)
(*                                                                         *)
(* Time passes in frames of the media clock.  RTP timestamps are relative  *)
(* to the clock, and those that fell far behind it are not told apart.     *)
(***************************************************************************)
EXTENDS Integers, FiniteSets, FiniteSetsExt

CONSTANTS
  MaxSources, \* CONFIG_AES67_MAX_SOURCES
  MaxSinks,  \* CONFIG_AES67_MAX_SINKS
  NodeSpp,   \* frames per packet of the node's own packet time
  Spps,      \* frames per packet of the streams: set_packet_time changes it
  Mult,      \* AES67_JITTER_BUF_MULT
  Behind     \* frames: a timestamp that lags more counts as lagging so much

ASSUME SourceTxAssumption ==
  /\ MaxSources \in Nat \ {0} /\ MaxSinks \in Nat
  /\ {NodeSpp, Mult, Behind} \cup Spps \subseteq Nat \ {0}
  /\ Mult >= 2 /\ Behind >= NodeSpp

VARIABLES
  session,   \* rtp_stream of each session entry, None if it is not enabled
  engine,    \* engine->streams[]
  streams,   \* the streams themselves, by address: see New, or Freed
  manager,   \* the call that holds the session's lock: [pc, entry, stream]
  frame,     \* audio_frame_task: [pc, i, stream, ts], ts the clock it read
  sem,       \* s_frame_sem
  phase      \* frames since the last tick

vars == <<session, engine, streams, manager, frame, sem, phase>>

Sources == 1 .. MaxSources
Sinks   == MaxSources + 1 .. MaxSources + MaxSinks
Entries == Sources \cup Sinks
Slots   == 1 .. MaxSources + MaxSinks     \* AES67_MAX_STREAMS
Streams == 1 .. MaxSources + MaxSinks     \* addresses, one for each stream that can exist
None    == 0
NoCall  == [pc |-> "idle", entry |-> None, stream |-> None]
Waiting == [pc |-> "wait", i |-> 1, stream |-> None, ts |-> 0]

(* A stream: ahead is its rtp_timestamp minus the clock. *)
Freed == [kind |-> "freed", spp |-> 1, level |-> 0, init |-> FALSE, ahead |-> 0, overflow |-> FALSE]
New(kind, spp) == [Freed EXCEPT !.kind = kind, !.spp = spp]

Init ==
  /\ session = [e \in Entries |-> None]
  /\ engine = [i \in Slots |-> None]
  /\ streams = [s \in Streams |-> Freed]
  /\ manager = NoCall /\ frame = Waiting
  /\ sem = FALSE /\ phase = 0

------------------------------------------------------------------------------
(* A definition whose name extends the name of the one that follows it is  *)
(* a mutant of it: the bug that a property below must notice.              *)

(* The session's calls.  Without a free slot, or memory, they change nothing. *)

(* aes67_rtp_stream_add stores the complete stream in the first free slot. *)
(* A new stream takes the lowest memory that is free: a stale pointer soon *)
(* points to a new stream.                                                 *)
StreamAdd(s, kind, spp) ==
  /\ streams[s] = Freed /\ \A r \in Streams : streams[r] = Freed => s <= r
  /\ \E i \in Slots :
       /\ engine[i] = None /\ \A j \in Slots : engine[j] = None => i <= j
       /\ engine' = [engine EXCEPT ![i] = s]
  /\ streams' = [streams EXCEPT ![s] = New(kind, spp)]

Add(entries, kind, s, spp) ==
  /\ manager.pc = "idle"
  /\ \E e \in entries :
       /\ session[e] = None /\ \A d \in entries : session[d] = None => e <= d
       /\ manager' = [pc |-> "store", entry |-> e, stream |-> s]
  /\ StreamAdd(s, kind, spp)
  /\ UNCHANGED <<session, frame, sem, phase>>

AddSource(s, spp) == Add(Sources, "source", s, spp)
AddSink(s)        == Add(Sinks, "sink", s, NodeSpp)

(* The entry is filled in and the lock released. *)
AddStore ==
  /\ manager.pc = "store"
  /\ session' = [session EXCEPT ![manager.entry] = manager.stream]
  /\ manager' = NoCall
  /\ UNCHANGED <<engine, streams, frame, sem, phase>>

(* aes67_rtp_stream_remove first clears the stream's slot ...              *)
StreamUnlink(s) == engine' = [i \in Slots |-> IF engine[i] = s THEN None ELSE engine[i]]

Remove(e) ==
  /\ manager.pc = "idle" /\ session[e] # None
  /\ StreamUnlink(session[e])
  /\ manager' = [pc |-> "free", entry |-> e, stream |-> session[e]]
  /\ UNCHANGED <<session, streams, frame, sem, phase>>

RemoveSource(e) == e \in Sources /\ Remove(e)
RemoveSink(e)   == e \in Sinks /\ Remove(e)

RemoveEndLeaks ==
  /\ manager.pc = "free"
  /\ session' = [session EXCEPT ![manager.entry] = None]
  /\ manager' = NoCall
  /\ UNCHANGED <<engine, streams, frame, sem, phase>>

(* ... and then frees it; the entry is cleared and the lock released.      *)
RemoveEnd ==
  /\ manager.pc = "free"
  /\ streams' = [streams EXCEPT ![manager.stream] = Freed]
  /\ session' = [session EXCEPT ![manager.entry] = None]
  /\ manager' = NoCall
  /\ UNCHANGED <<engine, frame, sem, phase>>

------------------------------------------------------------------------------
(* audio_frame_task *)

Take ==
  /\ frame.pc = "wait" /\ sem
  /\ sem' = FALSE
  /\ frame' = [frame EXCEPT !.pc = "clock"]
  /\ UNCHANGED <<session, engine, streams, manager, phase>>

(* The clock is read; then the capture buffer is found to hold a whole     *)
(* block, or what it holds is discarded.                                   *)
Captured(pc) ==
  /\ frame.pc = "clock"
  /\ frame' = [frame EXCEPT !.pc = pc, !.ts = 0]
  /\ UNCHANGED <<session, engine, streams, manager, sem, phase>>

CaptureBlock == Captured("get")
CaptureShort == Captured("load")

(* The next source, then the next slot of the engine, then the next tick. *)
NextSourceSkipsLast ==
  IF frame.i + 1 < MaxSources
  THEN [frame EXCEPT !.pc = "get", !.i = @ + 1, !.stream = None]
  ELSE [frame EXCEPT !.pc = "load", !.i = 1, !.stream = None]

NextSource == IF frame.i + 1 \in Sources
              THEN [frame EXCEPT !.pc = "get", !.i = @ + 1, !.stream = None]
              ELSE [frame EXCEPT !.pc = "load", !.i = 1, !.stream = None]
NextSlot   == IF frame.i + 1 \in Slots
              THEN [frame EXCEPT !.pc = "load", !.i = @ + 1, !.stream = None] ELSE Waiting

(* aes67_session_get_source *)
GetSource(i) ==
  /\ frame.pc = "get" /\ frame.i = i /\ manager.pc = "idle"
  /\ frame' = IF session[i] = None THEN NextSource
              ELSE [frame EXCEPT !.pc = "write", !.stream = session[i]]
  /\ UNCHANGED <<session, engine, streams, manager, sem, phase>>

(* The lock was held for a second: the source is skipped. *)
GetSourceTimeout ==
  /\ frame.pc = "get" /\ manager.pc # "idle"
  /\ frame' = NextSource
  /\ UNCHANGED <<session, engine, streams, manager, sem, phase>>

(* aes67_rtp_source_write: what does not fit is dropped. *)
Written(t) ==
  LET free == Mult * t.spp - t.level
  IN  IF NodeSpp > free THEN [t EXCEPT !.level = @ + free, !.overflow = TRUE]
                        ELSE [t EXCEPT !.level = @ + NodeSpp]

SourceWrite ==
  /\ frame.pc = "write" /\ streams[frame.stream].kind # "freed"
  /\ streams' = IF streams[frame.stream].kind = "sink" THEN streams
                ELSE [streams EXCEPT ![frame.stream] = Written(@)]
  /\ frame' = NextSource
  /\ UNCHANGED <<session, engine, manager, sem, phase>>

(* aes67_rtp_engine_process_tx loads the pointer in a slot ...             *)
TxLoad ==
  /\ frame.pc = "load"
  /\ frame' = IF engine[frame.i] = None THEN NextSlot
              ELSE [frame EXCEPT !.pc = "tx", !.stream = engine[frame.i]]
  /\ UNCHANGED <<session, engine, streams, manager, sem, phase>>

(* ... initializes the timestamp of a source on its first turn, and sends  *)
(* a packet if there is one.                                               *)
Started(t) == IF t.init THEN t ELSE [t EXCEPT !.init = TRUE, !.ahead = frame.ts]
HasPacket(t) == t.level >= t.spp
SentOne(t) == [t EXCEPT !.level = @ - t.spp, !.ahead = @ + t.spp]

ProcessedAdvances(t) ==
  LET u == Started(t) IN
  IF t.kind # "source" THEN t ELSE IF HasPacket(t) THEN SentOne(u)
                                   ELSE [u EXCEPT !.ahead = @ + t.spp]

Processed(t) == IF t.kind # "source" THEN t
                ELSE IF HasPacket(t) THEN SentOne(Started(t)) ELSE Started(t)

TxStreamStopsAtUnderflow ==
  /\ frame.pc = "tx" /\ streams[frame.stream].kind # "freed"
  /\ streams' = [streams EXCEPT ![frame.stream] = Processed(@)]
  /\ frame' = IF streams[frame.stream].kind = "source" /\ ~HasPacket(streams[frame.stream])
              THEN Waiting ELSE NextSlot
  /\ UNCHANGED <<session, engine, manager, sem, phase>>

TxStream ==
  /\ frame.pc = "tx" /\ streams[frame.stream].kind # "freed"
  /\ streams' = [streams EXCEPT ![frame.stream] = Processed(@)]
  /\ frame' = NextSlot
  /\ UNCHANGED <<session, engine, manager, sem, phase>>

(* The stream was freed after the task got hold of it.  What the task then *)
(* does is undefined: mostly it finds the stream inactive ...              *)
UseFreed ==
  /\ frame.pc \in {"write", "tx"} /\ streams[frame.stream].kind = "freed"
  /\ frame' = IF frame.pc = "write" THEN NextSource ELSE NextSlot
  /\ UNCHANGED <<session, engine, streams, manager, sem, phase>>

(* ... or the device crashes and boots again.                              *)
Crash ==
  /\ frame.pc \in {"write", "tx"} /\ streams[frame.stream].kind = "freed"
  /\ session' = [e \in Entries |-> None]
  /\ engine' = [i \in Slots |-> None]
  /\ streams' = [s \in Streams |-> Freed]
  /\ manager' = NoCall /\ frame' = Waiting
  /\ sem' = FALSE /\ phase' = 0

(* A frame of the media clock; hw_frame_isr gives the semaphore when a     *)
(* packet time is over.                                                    *)
Lag(ts)  == Max({ts - 1, -Behind})
Older(t) == IF t.init THEN [t EXCEPT !.ahead = Lag(@)] ELSE t

Elapse ==
  /\ phase' = (phase + 1) % NodeSpp
  /\ sem' = (sem \/ phase' = 0)
  /\ streams' = [s \in Streams |-> Older(streams[s])]
  /\ frame' = IF frame.pc \in {"wait", "clock"} THEN frame ELSE [frame EXCEPT !.ts = Lag(@)]
  /\ UNCHANGED <<session, engine, manager>>

Manage ==
  \/ \E s \in Streams, spp \in Spps : AddSource(s, spp)
  \/ \E s \in Streams : AddSink(s)
  \/ AddStore
  \/ \E e \in Entries : RemoveSource(e)
  \/ \E e \in Entries : RemoveSink(e)
  \/ RemoveEnd

Next ==
  \/ Manage
  \/ Take
  \/ CaptureBlock
  \/ CaptureShort
  \/ \E i \in Sources : GetSource(i)
  \/ GetSourceTimeout
  \/ SourceWrite
  \/ TxLoad
  \/ TxStream
  \/ UseFreed
  \/ Crash
  \/ Elapse

Spec == Init /\ [][Next]_vars

FrameTask ==
  \/ Take \/ CaptureBlock \/ CaptureShort
  \/ (\E i \in Sources : GetSource(i)) \/ GetSourceTimeout \/ SourceWrite
  \/ TxLoad \/ TxStream \/ UseFreed

(* The clock advances and the frame task is scheduled; whole blocks are    *)
(* captured again and again, and the lock, whose waiters are served by     *)
(* priority, is not always held.  Nobody has to add or remove anything,    *)
(* but a call that began runs to its end.                                  *)
FairSpec ==
  /\ Spec
  /\ WF_vars(Elapse) /\ WF_vars(FrameTask)
  /\ SF_vars(CaptureBlock) /\ \A i \in Sources : SF_vars(GetSource(i))
  /\ WF_vars(AddStore \/ RemoveEnd)

------------------------------------------------------------------------------
Held(table)      == {table[i] : i \in DOMAIN table} \ {None}
Injective(table) == \A i, j \in DOMAIN table : table[i] = table[j] /\ table[i] # None => i = j

(* Between the session's calls its entries, the engine's table and the     *)
(* streams that exist correspond one to one, each to its kind: no stream   *)
(* is leaked, sent twice per tick or freed twice, and the engine has room  *)
(* for every free entry, although each table is searched on its own        *)
(* (aes67_session_add_source, aes67_rtp_stream_add and their opposites).   *)
TablesAgree ==
  manager.pc = "idle" =>
    /\ Held(session) = Held(engine) /\ Injective(session) /\ Injective(engine)
    /\ Held(session) = {s \in Streams : streams[s] # Freed}
    /\ \A e \in Entries : session[e] # None =>
         streams[session[e]].kind = IF e \in Sources THEN "source" ELSE "sink"

(* No captured audio is dropped for want of room in a source's ring: one   *)
(* call of aes67_rtp_engine_process_tx per tick keeps up with the blocks,  *)
(* if no source's packets are shorter than the node's.                     *)
EveryBlockFits == \A s \in Streams : ~streams[s].overflow

(* How far the timestamp of a packet may be ahead of the clock: two packet *)
(* times of the node, or three if the source's packets are longer than the *)
(* node's but not twice as long, so that what is left of two blocks copied *)
(* in one tick and the next makes a packet.                                *)
Lead(spp) == IF NodeSpp < spp /\ spp < 2 * NodeSpp THEN 3 * NodeSpp ELSE 2 * NodeSpp

(* However late the task runs, and however often streams are added and     *)
(* removed, timestamps stay close to the clock: ticks the task missed are  *)
(* not made up for (s_frame_sem, timestamp_initialized).                   *)
NotAhead ==
  \A s \in Streams : streams[s].ahead - streams[s].spp < Lead(streams[s].spp)

Sends(e) ==
  \E s \in Streams : /\ session[e] = s
                     /\ streams'[s].kind = "source" /\ streams'[s].level < streams[s].level

(* A source that stays in the session keeps sending, whatever happens to   *)
(* the other sources and sinks, unless calls that hold the session's lock  *)
(* for more than a second never end to come.                               *)
SourcesKeepSending ==
  \/ []<><<GetSourceTimeout>>_vars
  \/ \A e \in Sources : <>[](session[e] # None) => []<><<Sends(e)>>_vars
=============================================================================
