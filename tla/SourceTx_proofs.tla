--------------------------- MODULE SourceTx_proofs ---------------------------
(***************************************************************************)
(* Proofs about SourceTx for any number of sources and sinks, any packet   *)
(* times and any size of the rings.                                        *)
(*                                                                         *)
(* The three tables a stream is in agree whenever no call that changes     *)
(* them is under way.  In between they do not.  A stream that is added is  *)
(* in the engine before it is in the session, one that is removed leaves   *)
(* the engine before it is freed and forgotten: TablesInv says by which    *)
(* stream they differ.                                                     *)
(*                                                                         *)
(* The rings and the timestamps stay within their bounds.  In the middle   *)
(* of a tick that takes what the tick has still to do for each stream, and *)
(* that a stale pointer of the frame task, to a stream freed and allocated *)
(* again, gives a new stream no second block or packet: RingInv.           *)
(***************************************************************************)
EXTENDS SourceTx, TLAPS

Fields == {"kind", "spp", "level", "init", "ahead", "overflow"}
IsStream(t) == DOMAIN t = Fields /\ (t.kind \in {"source", "sink"} \/ t = Freed)

TypeInv ==
  /\ session \in [Entries -> Streams \cup {None}]
  /\ engine \in [Slots -> Streams \cup {None}]
  /\ streams = [s \in Streams |-> streams[s]]
  /\ \A s \in Streams : IsStream(streams[s])
  /\ manager \in [pc : {"idle", "store", "free"}, entry : Entries \cup {None},
                  stream : Streams \cup {None}]
  /\ manager.pc # "idle" => manager.entry \in Entries /\ manager.stream \in Streams

Live(s)      == streams[s] # Freed
InSession(s) == \E e \in Entries : session[e] = s
InEngine(s)  == \E i \in Slots : engine[i] = s
Adding(s)    == manager.pc = "store" /\ manager.stream = s
Removing(s)  == manager.pc = "free" /\ manager.stream = s
KindOf(e)    == IF e \in Sources THEN "source" ELSE "sink"

TablesInv ==
  /\ Injective(session) /\ Injective(engine)
  /\ \A s \in Streams : /\ Live(s) <=> InSession(s) \/ Adding(s)
                        /\ Live(s) <=> InEngine(s) \/ Removing(s)
  /\ manager.pc = "store" => /\ session[manager.entry] = None
                             /\ ~InSession(manager.stream)
                             /\ streams[manager.stream].kind = KindOf(manager.entry)
  /\ manager.pc = "free" => /\ session[manager.entry] = manager.stream
                            /\ ~InEngine(manager.stream)
  /\ \A e \in Entries : session[e] # None => streams[session[e]].kind = KindOf(e)

Inv == TypeInv /\ TablesInv

------------------------------------------------------------------------------
(* What the calls, the frame task and the clock do to a stream. *)
Same(t, u) == DOMAIN u = DOMAIN t /\ u.kind = t.kind /\ (t = Freed => u = Freed)

LEMMA FreedFields == IsStream(Freed) /\ Freed.kind = "freed" /\ Freed.init = FALSE
BY DEF Freed, IsStream, Fields

LEMMA NewStream ==
  ASSUME NEW kind \in {"source", "sink"}, NEW spp
  PROVE  IsStream(New(kind, spp)) /\ New(kind, spp).kind = kind /\ New(kind, spp) # Freed
<1> DEFINE t == [Freed EXCEPT !.kind = kind]
<1>1. New(kind, spp) = [t EXCEPT !.spp = spp]
  BY Zenon DEF New
<1>2. DOMAIN t = Fields /\ t.kind = kind
  BY FreedFields DEF IsStream, Fields
<1> HIDE DEF t
<1>3. DOMAIN New(kind, spp) = Fields /\ New(kind, spp).kind = kind
  BY <1>1, <1>2 DEF Fields
<1> QED BY <1>3, FreedFields DEF IsStream

LEMMA WrittenSame ==
  ASSUME NEW t, IsStream(t), t # Freed
  PROVE  Same(t, Written(t))
<1> DEFINE free == Mult * t.spp - t.level
<1>1. Written(t) = IF NodeSpp > free
                   THEN [[t EXCEPT !.level = t.level + free] EXCEPT !.overflow = TRUE]
                   ELSE [t EXCEPT !.level = t.level + NodeSpp]
  BY Zenon DEF Written
<1> HIDE DEF free
<1> QED BY <1>1 DEF Same, IsStream, Fields

LEMMA ProcessedSame ==
  ASSUME NEW t, IsStream(t), t # Freed
  PROVE  Same(t, Processed(t))
<1> DEFINE Kept(u, v) == DOMAIN v = DOMAIN u /\ v.kind = u.kind
<1>1. Kept(t, Started(t))
  <2>1. Started(t) = IF t.init THEN t ELSE [[t EXCEPT !.init = TRUE] EXCEPT !.ahead = frame.ts]
    BY Zenon DEF Started
  <2> QED BY <2>1 DEF IsStream, Fields
<1>2. ASSUME NEW u, DOMAIN u = Fields
      PROVE  Kept(u, SentOne(u))
  <2>1. SentOne(u) = [[u EXCEPT !.level = u.level - u.spp] EXCEPT !.ahead = u.ahead + u.spp]
    BY <1>2, Zenon DEF SentOne, Fields
  <2> QED BY <1>2, <2>1 DEF Fields
<1> QED BY <1>1, <1>2 DEF Processed, Same, IsStream

LEMMA OlderSame ==
  ASSUME NEW t, IsStream(t)
  PROVE  Same(t, Older(t))
BY FreedFields DEF Older, Same, IsStream, Fields

------------------------------------------------------------------------------
(* What changes no table and no stream's kind keeps the invariant. *)
LEMMA KindsKept ==
  ASSUME Inv, UNCHANGED <<session, engine, manager>>,
         streams' = [s \in Streams |-> streams'[s]],
         \A s \in Streams : Same(streams[s], streams'[s])
  PROVE  Inv'
<1>1. \A s \in Streams : /\ IsStream(streams'[s]) /\ streams'[s].kind = streams[s].kind
                         /\ streams'[s] = Freed <=> streams[s] = Freed
  BY FreedFields DEF Inv, TypeInv, IsStream, Same
<1>2. TypeInv'
  BY <1>1 DEF Inv, TypeInv
<1>3. \A s \in Streams : Live(s)' <=> Live(s)
  BY <1>1 DEF Live
<1>4. \A e \in Entries : session[e] # None => streams'[session[e]].kind = KindOf(e)
  BY <1>1 DEF Inv, TypeInv, TablesInv
<1>5. manager.pc = "store" => streams'[manager.stream].kind = KindOf(manager.entry)
  BY <1>1 DEF Inv, TypeInv, TablesInv
<1>6. TablesInv'
  BY <1>3, <1>4, <1>5
     DEF Inv, TablesInv, InSession, InEngine, Adding, Removing, KindOf, Injective
<1> QED BY <1>2, <1>6 DEF Inv

LEMMA OneStreamKept ==
  ASSUME Inv, UNCHANGED <<session, engine, manager>>, NEW s, NEW t,
         streams' = [streams EXCEPT ![s] = t],
         s \in Streams => Same(streams[s], t)
  PROVE  Inv'
<1>1. \A r \in Streams : Same(streams[r], streams'[r])
  BY DEF Inv, TypeInv, Same
<1>2. streams' = [r \in Streams |-> streams'[r]]
  BY DEF Inv, TypeInv
<1> QED BY <1>1, <1>2, KindsKept

LEMMA StreamsKept ==
  ASSUME Inv, UNCHANGED <<session, engine, manager, streams>>
  PROVE  Inv'
<1>1. \A r \in Streams : Same(streams[r], streams'[r])
  BY DEF Same
<1> QED BY <1>1, KindsKept DEF Inv, TypeInv

(* A node that has just booted has no streams. *)
NoStreams ==
  /\ session = [e \in Entries |-> None]
  /\ engine = [i \in Slots |-> None]
  /\ streams = [s \in Streams |-> Freed]
  /\ manager = NoCall

LEMMA EmptyTables == NoStreams => Inv
<1> SUFFICES ASSUME NoStreams
             PROVE  Inv
  OBVIOUS
<1> USE SourceTxAssumption DEF NoStreams
<1>1. None \notin Streams
  BY DEF None, Streams
<1>2. TypeInv
  BY <1>1, FreedFields DEF TypeInv, NoCall, IsStream
<1>3. TablesInv
  BY <1>1 DEF TablesInv, Injective, Live, InSession, InEngine, Adding, Removing, NoCall
<1> QED BY <1>2, <1>3 DEF Inv

LEMMA EmptyTablesAgain == NoStreams' => Inv'
BY EmptyTables, PTL

(* A stream that is added is in the engine, not yet in the session. *)
LEMMA AddKeeps ==
  ASSUME Inv, NEW entries \in SUBSET Entries, NEW kind \in {"source", "sink"},
         NEW s \in Streams, NEW spp, Add(entries, kind, s, spp),
         \A e \in entries : KindOf(e) = kind
  PROVE  Inv'
<1> USE DEF Inv
<1>1. PICK e \in entries : /\ manager.pc = "idle" /\ session[e] = None
                           /\ manager' = [pc |-> "store", entry |-> e, stream |-> s]
  BY DEF Add
<1>2. PICK i \in Slots : engine[i] = None /\ engine' = [engine EXCEPT ![i] = s]
  BY DEF Add, StreamAdd
<1>3. /\ streams[s] = Freed /\ session' = session
      /\ streams' = [streams EXCEPT ![s] = New(kind, spp)]
  BY DEF Add, StreamAdd
<1>4. None \notin Streams
  BY SourceTxAssumption DEF None, Streams
<1>5. ~InSession(s) /\ ~InEngine(s)
  BY <1>1, <1>3 DEF TablesInv, Live, Adding, Removing
<1>6. TypeInv'
  <2>1. streams' = [r \in Streams |-> streams'[r]] /\ \A r \in Streams : IsStream(streams'[r])
    BY <1>3, NewStream DEF TypeInv
  <2> QED BY <1>1, <1>2, <1>3, <2>1 DEF TypeInv
<1>7. /\ streams'[s] # Freed /\ streams'[s].kind = kind
      /\ \A r \in Streams \ {s} : streams'[r] = streams[r]
  BY <1>3, NewStream DEF TypeInv
<1>8. Injective(session)' /\ Injective(engine)'
  BY <1>2, <1>3, <1>5 DEF TypeInv, TablesInv, Injective, InEngine
<1>9. \A r \in Streams : InEngine(r)' <=> InEngine(r) \/ r = s
  BY <1>2, <1>4 DEF TypeInv, InEngine
<1>10. \A r \in Streams : /\ Live(r)' <=> InSession(r)' \/ Adding(r)'
                          /\ Live(r)' <=> InEngine(r)' \/ Removing(r)'
  BY <1>1, <1>3, <1>7, <1>9 DEF TablesInv, Live, InSession, Adding, Removing
<1>11. \A d \in Entries : session[d] # None => streams'[session[d]].kind = KindOf(d)
  BY <1>3, <1>5, <1>7 DEF TypeInv, TablesInv, InSession
<1> QED BY <1>1, <1>3, <1>5, <1>6, <1>7, <1>8, <1>10, <1>11 DEF TablesInv, InSession, KindOf

LEMMA AddStoreKeeps == Inv /\ AddStore => Inv'
<1> SUFFICES ASSUME Inv, AddStore
             PROVE  Inv'
  OBVIOUS
<1> USE DEF Inv
<1> DEFINE e == manager.entry
           s == manager.stream
<1>1. /\ manager.pc = "store" /\ manager' = NoCall
      /\ session' = [session EXCEPT ![e] = s] /\ engine' = engine /\ streams' = streams
  BY DEF AddStore
<1>2. e \in Entries /\ s \in Streams /\ session[e] = None /\ ~InSession(s)
  BY <1>1 DEF TypeInv, TablesInv
<1>3. None \notin Streams
  BY SourceTxAssumption DEF None, Streams
<1>4. TypeInv'
  BY <1>1, <1>2 DEF TypeInv, NoCall
<1>5. Injective(session)' /\ Injective(engine)'
  BY <1>1, <1>2 DEF TypeInv, TablesInv, Injective, InSession
<1>6. \A r \in Streams : InSession(r)' <=> InSession(r) \/ r = s
  BY <1>1, <1>2, <1>3 DEF TypeInv, InSession
<1>7. \A r \in Streams : /\ Live(r)' <=> InSession(r)' \/ Adding(r)'
                         /\ Live(r)' <=> InEngine(r)' \/ Removing(r)'
  BY <1>1, <1>6 DEF TablesInv, Live, InEngine, Adding, Removing, NoCall
<1>8. \A d \in Entries : session'[d] # None => streams'[session'[d]].kind = KindOf(d)
  BY <1>1, <1>2 DEF TypeInv, TablesInv
<1> QED BY <1>1, <1>4, <1>5, <1>7, <1>8 DEF TablesInv, NoCall, KindOf

(* A stream that is removed is not in the engine any more. *)
LEMMA RemoveKeeps ==
  ASSUME Inv, NEW e \in Entries, Remove(e)
  PROVE  Inv'
<1> USE DEF Inv
<1> DEFINE s == session[e]
<1>1. /\ manager.pc = "idle" /\ session[e] # None
      /\ engine' = [i \in Slots |-> IF engine[i] = s THEN None ELSE engine[i]]
      /\ manager' = [pc |-> "free", entry |-> e, stream |-> s]
      /\ session' = session /\ streams' = streams
  BY DEF Remove, StreamUnlink
<1>2. s \in Streams /\ None \notin Streams
  BY <1>1, SourceTxAssumption DEF TypeInv, None, Streams
<1>3. TypeInv'
  BY <1>1, <1>2 DEF TypeInv
<1>4. Injective(session)' /\ Injective(engine)'
  BY <1>1 DEF TypeInv, TablesInv, Injective
<1>5. \A r \in Streams : InEngine(r)' <=> InEngine(r) /\ r # s
  BY <1>1, <1>2 DEF TypeInv, InEngine
<1>6. Live(s)
  BY <1>1, <1>2 DEF TablesInv, InSession
<1>7. \A r \in Streams : /\ Live(r)' <=> InSession(r)' \/ Adding(r)'
                         /\ Live(r)' <=> InEngine(r)' \/ Removing(r)'
  BY <1>1, <1>5, <1>6 DEF TablesInv, Live, InSession, Adding, Removing
<1>8. ~InEngine(s)'
  BY <1>1, <1>2 DEF TypeInv, InEngine
<1> QED BY <1>1, <1>3, <1>4, <1>7, <1>8 DEF TablesInv, KindOf, InEngine

LEMMA RemoveEndKeeps == Inv /\ RemoveEnd => Inv'
<1> SUFFICES ASSUME Inv, RemoveEnd
             PROVE  Inv'
  OBVIOUS
<1> USE DEF Inv
<1> DEFINE e == manager.entry
           s == manager.stream
<1>1. /\ manager.pc = "free" /\ manager' = NoCall /\ engine' = engine
      /\ session' = [session EXCEPT ![e] = None] /\ streams' = [streams EXCEPT ![s] = Freed]
  BY DEF RemoveEnd
<1>2. e \in Entries /\ s \in Streams /\ session[e] = s /\ ~InEngine(s)
  BY <1>1 DEF TypeInv, TablesInv
<1>3. None \notin Streams
  BY SourceTxAssumption DEF None, Streams
<1>4. TypeInv'
  <2>1. streams' = [r \in Streams |-> streams'[r]] /\ \A r \in Streams : IsStream(streams'[r])
    BY <1>1, FreedFields DEF TypeInv
  <2> QED BY <1>1, <1>2, <2>1 DEF TypeInv, NoCall
<1>5. Injective(session)' /\ Injective(engine)'
  BY <1>1, <1>2 DEF TypeInv, TablesInv, Injective
<1>6. \A d \in Entries : session[d] = s => d = e
  BY <1>2, <1>3 DEF TypeInv, TablesInv, Injective
<1>7. \A r \in Streams : InSession(r)' <=> InSession(r) /\ r # s
  BY <1>1, <1>2, <1>3, <1>6 DEF TypeInv, InSession
<1>8. /\ streams'[s] = Freed
      /\ \A r \in Streams \ {s} : streams'[r] = streams[r]
  BY <1>1, <1>2 DEF TypeInv
<1>9. \A r \in Streams : /\ Live(r)' <=> InSession(r)' \/ Adding(r)'
                         /\ Live(r)' <=> InEngine(r)' \/ Removing(r)'
  BY <1>1, <1>2, <1>7, <1>8 DEF TablesInv, Live, InEngine, Adding, Removing, NoCall
<1>10. \A d \in Entries : session'[d] # None => streams'[session'[d]].kind = KindOf(d)
  BY <1>1, <1>2, <1>6, <1>8 DEF TypeInv, TablesInv
<1> QED BY <1>1, <1>4, <1>5, <1>9, <1>10 DEF TablesInv, NoCall, KindOf

------------------------------------------------------------------------------
LEMMA TablesNextInv == Inv /\ [Next]_vars => Inv'
<1> SUFFICES ASSUME Inv, [Next]_vars
             PROVE  Inv'
  OBVIOUS
<1> USE DEF Inv
<1>1. ASSUME NEW s \in Streams, NEW spp \in Spps, AddSource(s, spp)
      PROVE  Inv'
  <2>1. Sources \in SUBSET Entries /\ \A e \in Sources : KindOf(e) = "source"
    BY DEF Entries, KindOf
  <2> QED BY <1>1, <2>1, AddKeeps DEF AddSource
<1>2. ASSUME NEW s \in Streams, AddSink(s)
      PROVE  Inv'
  <2>1. Sinks \in SUBSET Entries /\ \A e \in Sinks : KindOf(e) = "sink"
    BY SourceTxAssumption DEF Entries, KindOf, Sinks, Sources
  <2> QED BY <1>2, <2>1, AddKeeps DEF AddSink
<1>3. ASSUME NEW e \in Entries, RemoveSource(e) \/ RemoveSink(e)
      PROVE  Inv'
  BY <1>3, RemoveKeeps DEF RemoveSource, RemoveSink
<1>4. ASSUME Manage
      PROVE  Inv'
  BY <1>1, <1>2, <1>3, <1>4, AddStoreKeeps, RemoveEndKeeps DEF Manage
<1>5. ASSUME NEW i \in Sources,
             Take \/ CaptureBlock \/ CaptureShort \/ GetSource(i) \/ GetSourceTimeout
               \/ TxLoad \/ UseFreed
      PROVE  Inv'
  BY <1>5, StreamsKept
     DEF Take, CaptureBlock, CaptureShort, Captured, GetSource, GetSourceTimeout, TxLoad, UseFreed
<1>6. ASSUME SourceWrite
      PROVE  Inv'
  <2> DEFINE s == frame.stream
  <2>1. CASE streams[s].kind = "sink"
    BY <1>6, <2>1, StreamsKept DEF SourceWrite
  <2>2. CASE streams[s].kind # "sink"
    <3>1. streams[s] # Freed
      BY <1>6, FreedFields DEF SourceWrite
    <3>2. s \in Streams => Same(streams[s], Written(streams[s]))
      BY <3>1, WrittenSame DEF TypeInv
    <3>3. streams' = [streams EXCEPT ![s] = Written(streams[s])]
      BY <1>6, <2>2 DEF SourceWrite
    <3> HIDE DEF s
    <3> QED BY <1>6, <3>2, <3>3, OneStreamKept DEF SourceWrite
  <2> QED BY <2>1, <2>2
<1>7. ASSUME TxStream
      PROVE  Inv'
  <2> DEFINE s == frame.stream
  <2>1. streams[s] # Freed
    BY <1>7, FreedFields DEF TxStream
  <2>2. s \in Streams => Same(streams[s], Processed(streams[s]))
    BY <2>1, ProcessedSame DEF TypeInv
  <2>3. streams' = [streams EXCEPT ![s] = Processed(streams[s])]
    BY <1>7 DEF TxStream
  <2> HIDE DEF s
  <2> QED BY <1>7, <2>2, <2>3, OneStreamKept DEF TxStream
<1>8. ASSUME Crash
      PROVE  Inv'
  BY <1>8, EmptyTablesAgain DEF Crash, NoStreams
<1>9. ASSUME Elapse
      PROVE  Inv'
  <2>1. streams' = [s \in Streams |-> Older(streams[s])]
    BY <1>9 DEF Elapse
  <2>2. \A s \in Streams : Same(streams[s], streams'[s])
    BY <2>1, OlderSame DEF TypeInv
  <2>3. streams' = [s \in Streams |-> streams'[s]]
    BY <2>1
  <2> QED BY <1>9, <2>2, <2>3, KindsKept DEF Elapse
<1>10. ASSUME UNCHANGED vars
       PROVE  Inv'
  BY <1>10, StreamsKept DEF vars
<1>11. CASE Sources = {}
  BY <1>4, <1>6, <1>7, <1>8, <1>9, <1>10, <1>11, StreamsKept
     DEF Next, Take, CaptureBlock, CaptureShort, Captured, GetSourceTimeout, TxLoad, UseFreed
<1>12. CASE Sources # {}
  BY <1>4, <1>5, <1>6, <1>7, <1>8, <1>9, <1>10, <1>12 DEF Next
<1> QED BY <1>11, <1>12

(* For any number of sources and sinks, a stream is in the session, in the *)
(* engine and in memory, or in none of them, and nowhere twice, between    *)
(* the session's calls (aes67_session_add_source, aes67_rtp_stream_add and *)
(* their opposites).                                                       *)
THEOREM TablesAlwaysAgree == Spec => []TablesAgree
<1>1. Init => Inv
  BY EmptyTables DEF Init, NoStreams
<1>2. Inv => TablesAgree
  <2> SUFFICES ASSUME Inv, manager.pc = "idle"
               PROVE  /\ Held(session) = Held(engine) /\ Injective(session) /\ Injective(engine)
                      /\ Held(session) = {s \in Streams : streams[s] # Freed}
                      /\ \A e \in Entries : session[e] # None =>
                           streams[session[e]].kind = IF e \in Sources THEN "source" ELSE "sink"
    BY DEF TablesAgree
  <2> USE DEF Inv
  <2>1. \A s \in Streams : (Live(s) <=> InSession(s)) /\ (Live(s) <=> InEngine(s))
    BY DEF TablesInv, Adding, Removing
  <2>2. None \notin Streams
    BY SourceTxAssumption DEF None, Streams
  <2>3. Held(session) = {s \in Streams : InSession(s)}
    BY <2>2 DEF TypeInv, Held, InSession
  <2>4. Held(engine) = {s \in Streams : InEngine(s)}
    BY <2>2 DEF TypeInv, Held, InEngine
  <2> QED BY <2>1, <2>3, <2>4 DEF TablesInv, Live, KindOf
<1> QED BY <1>1, <1>2, TablesNextInv, PTL DEF Spec

------------------------------------------------------------------------------
(* The rings and the timestamps.                                           *)
StreamRec == [kind : {"freed", "source", "sink"}, spp : Nat \ {0}, level : Nat,
              init : BOOLEAN, ahead : Int, overflow : BOOLEAN]
(* What a tick has still to do for a stream.                               *)
Home(s, e)  == session[e] = s \/ (Adding(s) /\ manager.entry = e)
ToCopy(s)   == /\ InEngine(s)
               /\ \/ frame.pc = "clock"
                  \/ frame.pc = "get" /\ \E e \in Sources : Home(s, e) /\ frame.i <= e
                  \/ frame.pc = "write" /\ \E e \in Sources : Home(s, e) /\ frame.i < e
Copying(s)  == frame.pc = "write" /\ frame.stream = s
Later(s)    == \E j \in Slots : engine[j] = s /\ frame.i < j
ToSend(s)   == \/ frame.pc \in {"clock", "get", "write"}
               \/ frame.pc = "load" /\ \E j \in Slots : engine[j] = s /\ frame.i <= j
               \/ frame.pc = "tx" /\ (frame.stream = s \/ Later(s))
Credit(b)   == IF b THEN NodeSpp ELSE 0

NumInv ==
  /\ streams \in [Streams -> StreamRec]
  /\ \A s \in Streams : /\ streams[s].kind = "source" => streams[s].spp \in Spps
                        /\ streams[s].kind = "sink" => streams[s].spp = NodeSpp
                        /\ streams[s].kind # "source" =>
                             streams[s].level = 0 /\ streams[s].init = FALSE
                        /\ streams[s].init = FALSE => streams[s].ahead = 0
  /\ frame \in [pc : {"wait", "clock", "get", "write", "load", "tx"}, i : Nat \ {0},
                stream : Streams \cup {None}, ts : Int]
  /\ frame.pc \in {"wait", "clock"} => frame.i = 1
  /\ frame.pc \in {"write", "tx"} => frame.stream \in Streams
  /\ frame.pc \in {"get", "write"} => frame.i \in Sources
  /\ frame.pc \in {"load", "tx"} => frame.i \in Slots
  /\ sem \in BOOLEAN /\ phase \in 0 .. NodeSpp - 1

(* The level before a block is copied, of a stream with packets as long as *)
(* the node's or longer.                                                   *)
Before(t) == IF t.init THEN t.spp ELSE NodeSpp
LevelOf(s) ==
  /\ streams[s].overflow = FALSE
  /\ streams[s].level <= Before(streams[s]) + NodeSpp
  /\ ToCopy(s) \/ Copying(s) \/ (InEngine(s) /\ ~ToSend(s)) =>
       streams[s].level <= Before(streams[s])

StaleInv ==
  \A s \in Streams :
    /\ Copying(s) /\ ToCopy(s) => streams[s].level = 0 /\ streams[s].init = FALSE
    /\ frame.pc = "tx" /\ frame.stream = s /\ Later(s) => streams[s].level = 0

LevelInv == \A s \in Streams : NodeSpp <= streams[s].spp => LevelOf(s)

(* The timestamp of a packet that is sent first.                           *)
TsInv == frame.pc \notin {"wait", "clock"} =>
           frame.ts <= 0 /\ frame.ts + phase + Credit(sem) < 2 * NodeSpp

AheadOf(s) ==
  /\ streams[s].ahead - streams[s].spp < Lead(streams[s].spp)
  /\ streams[s].spp <= NodeSpp =>
       streams[s].ahead + phase + Credit(sem) + Credit(ToSend(s)) < 3 * NodeSpp
  /\ NodeSpp < streams[s].spp =>
       streams[s].ahead + streams[s].level + phase + Credit(sem) + Credit(ToCopy(s) \/ Copying(s))
         < streams[s].spp + Lead(streams[s].spp)

AheadInv == \A s \in Streams : streams[s].init = TRUE => AheadOf(s)

RingInv == NumInv /\ StaleInv /\ LevelInv /\ TsInv /\ AheadInv

------------------------------------------------------------------------------
(* What a block, a packet and the clock change in a stream. *)
LEMMA Numbers ==
  /\ NodeSpp \in Nat \ {0} /\ Mult \in Nat \ {0} /\ Mult >= 2 /\ Spps \subseteq Nat \ {0}
  /\ Behind \in Nat /\ Behind >= NodeSpp
  /\ MaxSources \in Nat \ {0} /\ MaxSinks \in Nat /\ 1 \in Sources /\ 1 \in Slots
  /\ None \notin Streams
  /\ Sources = 1 .. MaxSources /\ Slots = 1 .. MaxSources + MaxSinks
BY SourceTxAssumption DEF Sources, Slots, Streams, None

LEMMA RingHasRoom ==
  ASSUME NEW spp \in Nat \ {0}, NEW level \in Nat, NodeSpp <= spp, level <= spp
  PROVE  NodeSpp <= Mult * spp - level
<1>1. \A m \in Nat : m >= 2 => m * spp >= 2 * spp
  <2> SUFFICES ASSUME NEW m \in Nat, m >= 2
               PROVE  m * spp >= 2 * spp
    OBVIOUS
  <2>1. PICK k \in Nat : m = 2 + k
    <3>1. m - 2 \in Nat /\ m = 2 + (m - 2)
      OBVIOUS
    <3> QED BY <3>1
  <2>2. k * spp \in Nat
    OBVIOUS
  <2>3. m * spp = 2 * spp + k * spp
    BY <2>1, Z3
  <2> QED BY <2>2, <2>3
<1>2. Mult * spp >= 2 * spp /\ Mult * spp \in Nat
  BY <1>1, Numbers
<1> QED BY <1>2, Numbers

LEMMA WrittenFields ==
  ASSUME NEW t \in StreamRec
  PROVE  /\ Written(t) \in StreamRec
         /\ Written(t).kind = t.kind /\ Written(t).spp = t.spp
         /\ Written(t).init = t.init /\ Written(t).ahead = t.ahead
         /\ Written(t).level <= t.level + NodeSpp
         /\ NodeSpp <= Mult * t.spp - t.level => Written(t).overflow = t.overflow
<1> DEFINE free == Mult * t.spp - t.level
<1>1. Written(t) = IF NodeSpp > free
                   THEN [[t EXCEPT !.level = t.level + free] EXCEPT !.overflow = TRUE]
                   ELSE [t EXCEPT !.level = t.level + NodeSpp]
  BY Zenon DEF Written
<1>2. t.level + free \in Nat /\ free \in Int /\ NodeSpp \in Nat /\ t.level + NodeSpp \in Nat
  <2>1. t.spp \in Nat /\ t.level \in Nat
    BY DEF StreamRec
  <2>2. Mult * t.spp \in Nat
    BY <2>1, Numbers
  <2> QED BY <2>1, <2>2, Numbers
<1>3. t.level \in Nat
  BY DEF StreamRec
<1> HIDE DEF free
<1>4. CASE NodeSpp > free
  <2> DEFINE u == [t EXCEPT !.level = t.level + free]
  <2>1. u \in StreamRec /\ u.level = t.level + free /\ u.kind = t.kind /\ u.spp = t.spp
        /\ u.init = t.init /\ u.ahead = t.ahead
    BY <1>2 DEF StreamRec
  <2>2. Written(t) = [u EXCEPT !.overflow = TRUE]
    BY <1>1, <1>4
  <2> HIDE DEF u
  <2>3. Written(t) \in StreamRec /\ Written(t).level = u.level /\ Written(t).kind = u.kind
        /\ Written(t).spp = u.spp /\ Written(t).init = u.init /\ Written(t).ahead = u.ahead
    BY <2>1, <2>2 DEF StreamRec
  <2>4. t.level + free <= t.level + NodeSpp
    BY <1>2, <1>3, <1>4
  <2>5. ~(NodeSpp <= free)
    BY <1>2, <1>4
  <2> QED BY <2>1, <2>3, <2>4, <2>5 DEF free
<1>5. CASE ~(NodeSpp > free)
  <2>1. Written(t) = [t EXCEPT !.level = t.level + NodeSpp]
    BY <1>1, <1>5
  <2>2. Written(t) \in StreamRec /\ Written(t).level = t.level + NodeSpp
        /\ Written(t).kind = t.kind /\ Written(t).spp = t.spp /\ Written(t).init = t.init
        /\ Written(t).ahead = t.ahead /\ Written(t).overflow = t.overflow
    BY <1>2, <2>1 DEF StreamRec
  <2> QED BY <1>2, <2>2
<1> QED BY <1>4, <1>5

(* The timestamp the next packet of a stream would have. *)
Base(t) == IF t.init THEN t.ahead ELSE frame.ts

LEMMA ProcessedFields ==
  ASSUME NEW t \in StreamRec, t.kind = "source", frame.ts \in Int
  PROVE  /\ Processed(t) \in StreamRec
         /\ Processed(t).kind = t.kind /\ Processed(t).spp = t.spp
         /\ Processed(t).init = TRUE /\ Processed(t).overflow = t.overflow
         /\ t.level >= t.spp => /\ Processed(t).level = t.level - t.spp
                                /\ Processed(t).ahead = Base(t) + t.spp
         /\ t.level < t.spp => Processed(t).level = t.level /\ Processed(t).ahead = Base(t)
<1> DEFINE u == Started(t)
<1>1. u \in StreamRec /\ u.kind = t.kind /\ u.spp = t.spp /\ u.level = t.level
      /\ u.init = TRUE /\ u.overflow = t.overflow /\ u.ahead = Base(t)
  <2>1. u = IF t.init THEN t ELSE [[t EXCEPT !.init = TRUE] EXCEPT !.ahead = frame.ts]
    BY Zenon DEF Started
  <2>2. t.init \in BOOLEAN
    BY DEF StreamRec
  <2>3. CASE t.init = TRUE
    <3>1. u = t
      BY <2>1, <2>3
    <3> QED BY <2>3, <3>1 DEF Base
  <2>4. CASE t.init = FALSE
    <3> DEFINE v == [t EXCEPT !.init = TRUE]
    <3>1. v \in StreamRec /\ v.kind = t.kind /\ v.spp = t.spp /\ v.level = t.level
          /\ v.init = TRUE /\ v.overflow = t.overflow
      BY DEF StreamRec
    <3>2. u = [v EXCEPT !.ahead = frame.ts]
      BY <2>1, <2>4
    <3> HIDE DEF u, v
    <3> QED BY <2>4, <3>1, <3>2 DEF StreamRec, Base
  <2> QED BY <2>2, <2>3, <2>4
<1>2. Processed(t) = IF HasPacket(t) THEN SentOne(u) ELSE u
  BY DEF Processed
<1>3. SentOne(u) = [[u EXCEPT !.level = u.level - u.spp] EXCEPT !.ahead = u.ahead + u.spp]
  BY Zenon DEF SentOne
<1> HIDE DEF u
<1>4. t.level \in Nat /\ t.spp \in Nat /\ u.ahead \in Int
  BY <1>1 DEF StreamRec
<1>5. CASE t.level >= t.spp
  <2> DEFINE v == [u EXCEPT !.level = u.level - u.spp]
  <2>1. v \in StreamRec /\ v.kind = u.kind /\ v.spp = u.spp /\ v.level = u.level - u.spp
        /\ v.init = u.init /\ v.overflow = u.overflow /\ v.ahead = u.ahead
    BY <1>1, <1>4, <1>5 DEF StreamRec
  <2>2. Processed(t) = [v EXCEPT !.ahead = u.ahead + u.spp]
    BY <1>2, <1>3, <1>5 DEF HasPacket
  <2> HIDE DEF v
  <2>3. u.ahead + u.spp \in Int
    BY <1>1, <1>4
  <2>4. Processed(t) \in StreamRec /\ Processed(t).kind = v.kind /\ Processed(t).spp = v.spp
        /\ Processed(t).level = v.level /\ Processed(t).init = v.init
        /\ Processed(t).overflow = v.overflow /\ Processed(t).ahead = u.ahead + u.spp
    BY <2>1, <2>2, <2>3 DEF StreamRec
  <2> QED BY <1>1, <1>4, <1>5, <2>1, <2>4
<1>6. CASE t.level < t.spp
  <2>1. Processed(t) = u
    BY <1>2, <1>4, <1>6 DEF HasPacket
  <2> QED BY <1>1, <1>4, <1>6, <2>1
<1>7. t.level >= t.spp \/ t.level < t.spp
  BY <1>4
<1> QED BY <1>5, <1>6, <1>7, Zenon

LEMMA LagIs ==
  ASSUME NEW ts \in Int
  PROVE  Lag(ts) = IF ts - 1 >= -Behind THEN ts - 1 ELSE -Behind
<1> DEFINE m == IF ts - 1 >= -Behind THEN ts - 1 ELSE -Behind
           S == {ts - 1, -Behind}
<1>1. m \in S /\ (\A y \in S : m >= y) /\ S \subseteq Int
  BY Numbers
<1>2. \A x \in S : (\A y \in S : x >= y) => x = m
  <2> HIDE DEF m, S
  <2> QED BY <1>1
<1>3. Lag(ts) = CHOOSE x \in S : \A y \in S : x >= y
  BY DEF Lag, Max
<1> HIDE DEF m, S
<1>4. Lag(ts) = m
  BY <1>1, <1>2, <1>3
<1> QED BY <1>4 DEF m

LEMMA OlderFields ==
  ASSUME NEW t \in StreamRec
  PROVE  /\ Older(t) \in StreamRec
         /\ Older(t).kind = t.kind /\ Older(t).spp = t.spp /\ Older(t).level = t.level
         /\ Older(t).init = t.init /\ Older(t).overflow = t.overflow
         /\ Older(t).ahead = IF t.init THEN Lag(t.ahead) ELSE t.ahead
<1>1. Lag(t.ahead) \in Int
  BY LagIs, Numbers DEF StreamRec
<1>2. CASE t.init = TRUE
  <2>1. Older(t) = [t EXCEPT !.ahead = Lag(t.ahead)]
    BY <1>2 DEF Older
  <2> QED BY <1>1, <1>2, <2>1 DEF StreamRec
<1>3. CASE t.init = FALSE
  BY <1>3 DEF Older
<1> QED BY <1>2, <1>3 DEF StreamRec

LEMMA FreedIs ==
  /\ Freed \in StreamRec /\ Freed.kind = "freed" /\ Freed.spp = 1 /\ Freed.level = 0
  /\ Freed.init = FALSE /\ Freed.ahead = 0 /\ Freed.overflow = FALSE
BY DEF Freed, StreamRec

LEMMA NewIs ==
  ASSUME NEW kind \in {"source", "sink"}, NEW spp \in Nat \ {0}
  PROVE  /\ New(kind, spp) \in StreamRec
         /\ New(kind, spp).kind = kind /\ New(kind, spp).spp = spp /\ New(kind, spp).level = 0
         /\ New(kind, spp).init = FALSE /\ New(kind, spp).ahead = 0
         /\ New(kind, spp).overflow = FALSE
<1> DEFINE t == [Freed EXCEPT !.kind = kind]
<1>1. New(kind, spp) = [t EXCEPT !.spp = spp]
  BY Zenon DEF New
<1>2. /\ t \in StreamRec /\ t.kind = kind /\ t.level = 0
      /\ t.init = FALSE /\ t.ahead = 0 /\ t.overflow = FALSE
  BY FreedIs DEF StreamRec
<1> HIDE DEF t
<1> QED BY <1>1, <1>2 DEF StreamRec

------------------------------------------------------------------------------
(* What holds of one stream. *)
OfStream(s) ==
  /\ NodeSpp <= streams[s].spp => LevelOf(s)
  /\ streams[s].init = TRUE => AheadOf(s)

LEMMA Gathered ==
  ASSUME NumInv, StaleInv, TsInv, \A s \in Streams : OfStream(s)
  PROVE  RingInv
BY DEF RingInv, LevelInv, AheadInv, OfStream

LEMMA GatheredAgain ==
  ASSUME NumInv', StaleInv', TsInv', \A s \in Streams : OfStream(s)'
  PROVE  RingInv'
BY DEF RingInv, LevelInv, AheadInv, OfStream

LEMMA LeadIs ==
  ASSUME NEW spp \in Nat
  PROVE  Lead(spp) \in {2 * NodeSpp, 3 * NodeSpp}
BY DEF Lead

LEMMA CreditIs ==
  ASSUME NEW b
  PROVE  Credit(b) \in {0, NodeSpp}
BY DEF Credit

(* A stream that a step does not change keeps its distance from the clock  *)
(* if a tick that begins, or goes on, takes the place of one that is over. *)
LEMMA AheadKept ==
  ASSUME RingInv, NEW s \in Streams, streams'[s] = streams[s], phase' = phase,
         streams[s].init = TRUE,
         Credit(sem)' + Credit(ToSend(s))' <= Credit(sem) + Credit(ToSend(s)),
         Credit(sem)' + Credit(ToCopy(s) \/ Copying(s))' <=
           Credit(sem) + Credit(ToCopy(s) \/ Copying(s))
  PROVE  AheadOf(s)'
<1> DEFINE c == Credit(ToCopy(s) \/ Copying(s))
           d == Credit(ToSend(s))
           e == Credit(sem)
           l == Lead(streams[s].spp)
<1>1. AheadOf(s)
  BY DEF RingInv, AheadInv
<1>2. /\ e' + d' <= e + d /\ e' + c' <= e + c
      /\ {c, c', d, d', e, e'} \subseteq Nat
  BY Numbers DEF Credit
<1>3. /\ streams[s].ahead \in Int /\ streams[s].spp \in Nat /\ streams[s].level \in Nat
      /\ phase \in Nat
  BY Numbers DEF RingInv, NumInv, StreamRec
<1>4. l \in Nat /\ NodeSpp \in Nat
  BY <1>3, LeadIs, Numbers
<1>5. l' = l
  BY DEF Lead
<1> HIDE DEF c, d, e
<1>6. /\ streams[s].spp <= NodeSpp =>
           streams[s].ahead + phase + e + d < 3 * NodeSpp
      /\ NodeSpp < streams[s].spp =>
           streams[s].ahead + streams[s].level + phase + e + c < streams[s].spp + l
  BY <1>1 DEF AheadOf, c, d, e
<1> HIDE DEF l
<1>7. /\ streams[s].spp <= NodeSpp =>
           streams[s].ahead + phase + e' + d' < 3 * NodeSpp
      /\ NodeSpp < streams[s].spp =>
           streams[s].ahead + streams[s].level + phase + e' + c' < streams[s].spp + l
  BY <1>2, <1>3, <1>4, <1>6
<1>8. streams[s].ahead - streams[s].spp < l
  BY <1>1 DEF AheadOf, l
<1> QED BY <1>5, <1>7, <1>8 DEF AheadOf, c, d, e, l

(* A stream that a step does not change, and that it does not come back to. *)
LEMMA StreamRests ==
  ASSUME RingInv, NEW s \in Streams, streams'[s] = streams[s], UNCHANGED <<sem, phase>>,
         ToCopy(s)' \/ Copying(s)' => ToCopy(s) \/ Copying(s),
         ToSend(s)' => ToSend(s),
         InEngine(s)' /\ ~ToSend(s)' => ToCopy(s) \/ Copying(s) \/ (InEngine(s) /\ ~ToSend(s))
  PROVE  OfStream(s)'
<1>1. NodeSpp <= streams[s].spp => LevelOf(s)'
  BY DEF RingInv, LevelInv, LevelOf, Before
<1>2. /\ Credit(ToSend(s))' <= Credit(ToSend(s)) /\ Credit(sem)' = Credit(sem)
      /\ Credit(ToCopy(s) \/ Copying(s))' <= Credit(ToCopy(s) \/ Copying(s))
      /\ {Credit(sem), Credit(ToSend(s)), Credit(ToSend(s))', Credit(ToCopy(s) \/ Copying(s)),
          Credit(ToCopy(s) \/ Copying(s))'} \subseteq Nat
  BY Numbers DEF Credit
<1>3. /\ Credit(sem)' + Credit(ToSend(s))' <= Credit(sem) + Credit(ToSend(s))
      /\ Credit(sem)' + Credit(ToCopy(s) \/ Copying(s))' <=
           Credit(sem) + Credit(ToCopy(s) \/ Copying(s))
  <2> DEFINE c == Credit(ToCopy(s) \/ Copying(s))
             d == Credit(ToSend(s))
             e == Credit(sem)
  <2>1. d' <= d /\ e' = e /\ c' <= c /\ {e, d, d', c, c'} \subseteq Nat
    BY <1>2
  <2> HIDE DEF c, d, e
  <2>2. e' + d' <= e + d /\ e' + c' <= e + c
    BY <2>1
  <2> QED BY <2>2 DEF c, d, e
<1>4. ASSUME streams[s].init = TRUE
      PROVE  AheadOf(s)'
  BY <1>3, <1>4, AheadKept
<1>5. (streams[s].init = TRUE)' => AheadOf(s)'
  BY <1>4
<1> QED BY <1>1, <1>5 DEF OfStream

(* A stream that has just been stored or freed. *)
LEMMA EmptyStream ==
  ASSUME NEW s \in Streams, streams[s] \in StreamRec, streams[s].level = 0,
         streams[s].init = FALSE, streams[s].overflow = FALSE
  PROVE  OfStream(s)
<1>1. Before(streams[s]) \in Nat
  BY Numbers DEF Before
<1> QED BY <1>1, Numbers DEF OfStream, LevelOf

LEMMA EmptyStreamAgain ==
  ASSUME NEW s \in Streams, streams'[s] \in StreamRec, streams'[s].level = 0,
         streams'[s].init = FALSE, streams'[s].overflow = FALSE
  PROVE  OfStream(s)'
<1>1. Before(streams[s])' \in Nat
  BY Numbers DEF Before
<1> QED BY <1>1, Numbers DEF OfStream, LevelOf

------------------------------------------------------------------------------
(* The session's calls do not disturb the other streams. *)
LEMMA SamePlaces ==
  ASSUME NEW r, UNCHANGED frame, \A j \in Slots : engine'[j] = r <=> engine[j] = r,
         \A e \in Sources : Home(r, e)' <=> Home(r, e)
  PROVE  /\ InEngine(r)' <=> InEngine(r)
         /\ ToCopy(r)' <=> ToCopy(r)
         /\ Copying(r)' <=> Copying(r)
         /\ Later(r)' <=> Later(r)
         /\ ToSend(r)' <=> ToSend(r)
<1>1. InEngine(r)' <=> InEngine(r)
  BY DEF InEngine
<1>2. ToCopy(r)' <=> ToCopy(r)
  BY <1>1 DEF ToCopy
<1>3. Copying(r)' <=> Copying(r)
  BY DEF Copying
<1>4. Later(r)' <=> Later(r)
  BY DEF Later
<1>5. ToSend(r)' <=> ToSend(r)
  BY <1>4 DEF ToSend
<1> QED BY <1>1, <1>2, <1>3, <1>4, <1>5

LEMMA AddRings ==
  ASSUME Inv, RingInv, NEW entries \in SUBSET Entries, NEW kind \in {"source", "sink"},
         NEW s \in Streams, NEW spp \in Nat \ {0}, Add(entries, kind, s, spp),
         kind = "source" => spp \in Spps, kind = "sink" => spp = NodeSpp
  PROVE  RingInv'
<1>1. PICK e \in entries : /\ manager.pc = "idle"
                           /\ manager' = [pc |-> "store", entry |-> e, stream |-> s]
  BY DEF Add
<1>2. PICK i \in Slots : engine[i] = None /\ engine' = [engine EXCEPT ![i] = s]
  BY DEF Add, StreamAdd
<1>3. /\ streams[s] = Freed /\ UNCHANGED <<session, frame, sem, phase>>
      /\ streams' = [streams EXCEPT ![s] = New(kind, spp)]
  BY DEF Add, StreamAdd
<1>4. engine \in [Slots -> Streams \cup {None}] /\ streams \in [Streams -> StreamRec]
  BY DEF Inv, TypeInv, RingInv, NumInv
<1> DEFINE n == New(kind, spp)
<1>5. /\ n \in StreamRec /\ n.kind = kind /\ n.spp = spp /\ n.level = 0
      /\ n.init = FALSE /\ n.ahead = 0 /\ n.overflow = FALSE
  BY NewIs
<1> HIDE DEF n
<1>6. /\ streams' \in [Streams -> StreamRec] /\ streams'[s] = n
      /\ \A r \in Streams \ {s} : streams'[r] = streams[r]
  BY <1>3, <1>4, <1>5 DEF n
<1>7. NumInv'
  BY <1>3, <1>5, <1>6 DEF RingInv, NumInv
<1>8. ASSUME NEW r \in Streams \ {s}
      PROVE  /\ InEngine(r)' <=> InEngine(r)
             /\ ToCopy(r)' <=> ToCopy(r)
             /\ Copying(r)' <=> Copying(r)
             /\ Later(r)' <=> Later(r)
             /\ ToSend(r)' <=> ToSend(r)
  <2>1. \A j \in Slots : engine'[j] = r <=> engine[j] = r
    BY <1>2, <1>4, Numbers
  <2>2. \A d \in Sources : Home(r, d)' <=> Home(r, d)
    BY <1>1, <1>3 DEF Home, Adding
  <2> QED BY <1>3, <2>1, <2>2, SamePlaces
<1>9. StaleInv'
  <2>1. \A r \in Streams \ {s} :
          /\ Copying(r)' /\ ToCopy(r)' => streams'[r].level = 0 /\ streams'[r].init = FALSE
          /\ frame'.pc = "tx" /\ frame'.stream = r /\ Later(r)' => streams'[r].level = 0
    BY <1>3, <1>6, <1>8 DEF RingInv, StaleInv
  <2> QED BY <1>5, <1>6, <2>1 DEF StaleInv
<1>10. TsInv'
  BY <1>3 DEF RingInv, TsInv, Credit
<1>11. ASSUME NEW r \in Streams
       PROVE  OfStream(r)'
  <2>1. CASE r = s
    BY <1>5, <1>6, <2>1, EmptyStreamAgain
  <2>2. CASE r # s
    BY <1>3, <1>6, <1>8, <2>2, StreamRests
  <2> QED BY <2>1, <2>2
<1> QED BY <1>7, <1>9, <1>10, <1>11, GatheredAgain

LEMMA AddStoreRings == ASSUME Inv, RingInv, AddStore PROVE RingInv'
<1>1. /\ manager.pc = "store" /\ manager' = NoCall
      /\ session' = [session EXCEPT ![manager.entry] = manager.stream]
      /\ UNCHANGED <<engine, streams, frame, sem, phase>>
  BY DEF AddStore
<1>2. /\ session \in [Entries -> Streams \cup {None}] /\ session[manager.entry] = None
      /\ manager.entry \in Entries /\ Sources \subseteq Entries
  BY <1>1 DEF Inv, TypeInv, TablesInv, Entries
<1>3. ASSUME NEW r \in Streams
      PROVE  /\ InEngine(r)' <=> InEngine(r)
             /\ ToCopy(r)' <=> ToCopy(r)
             /\ Copying(r)' <=> Copying(r)
             /\ Later(r)' <=> Later(r)
             /\ ToSend(r)' <=> ToSend(r)
  <2>1. \A d \in Sources : Home(r, d)' <=> Home(r, d)
    BY <1>1, <1>2, Numbers DEF Home, Adding, NoCall
  <2> QED BY <1>1, <2>1, SamePlaces
<1>4. NumInv'
  BY <1>1 DEF RingInv, NumInv
<1>5. StaleInv'
  BY <1>1, <1>3 DEF RingInv, StaleInv
<1>6. TsInv'
  BY <1>1 DEF RingInv, TsInv, Credit
<1>7. \A r \in Streams : OfStream(r)'
  BY <1>1, <1>3, StreamRests
<1> QED BY <1>4, <1>5, <1>6, <1>7, GatheredAgain

LEMMA RemoveRings == ASSUME Inv, RingInv, NEW e \in Entries, Remove(e) PROVE RingInv'
<1>1. /\ manager.pc = "idle" /\ session[e] # None
      /\ engine' = [i \in Slots |-> IF engine[i] = session[e] THEN None ELSE engine[i]]
      /\ manager' = [pc |-> "free", entry |-> e, stream |-> session[e]]
      /\ UNCHANGED <<session, streams, frame, sem, phase>>
  BY DEF Remove, StreamUnlink
<1>2. session[e] \in Streams /\ engine \in [Slots -> Streams \cup {None}]
  BY <1>1, Numbers DEF Inv, TypeInv
<1>3. ASSUME NEW r \in Streams
      PROVE  /\ InEngine(r)' => InEngine(r)
             /\ ToCopy(r)' => ToCopy(r)
             /\ Copying(r)' <=> Copying(r)
             /\ Later(r)' => Later(r)
             /\ ToSend(r)' => ToSend(r)
             /\ InEngine(r)' => (ToSend(r) => ToSend(r)')
  <2>1. \A d \in Sources : Home(r, d)' <=> Home(r, d)
    BY <1>1 DEF Home, Adding
  <2>2. CASE r # session[e]
    <3>1. \A j \in Slots : engine'[j] = r <=> engine[j] = r
      BY <1>1, <1>2, <2>2, Numbers
    <3> QED BY <1>1, <2>1, <3>1, SamePlaces
  <2>3. CASE r = session[e]
    <3>1. ~InEngine(r)' /\ ~Later(r)'
      BY <1>1, <2>3, Numbers DEF InEngine, Later
    <3>2. Copying(r)' <=> Copying(r)
      BY <1>1 DEF Copying
    <3>3. \A j \in Slots : engine'[j] = r => engine[j] = r
      BY <1>1, <2>3, Numbers
    <3>4. ToSend(r)' => ToSend(r)
      BY <1>1, <3>3 DEF ToSend, Later
    <3> QED BY <3>1, <3>2, <3>4 DEF ToCopy
  <2> QED BY <2>2, <2>3
<1>4. NumInv'
  BY <1>1 DEF RingInv, NumInv
<1>5. StaleInv'
  BY <1>1, <1>3 DEF RingInv, StaleInv
<1>6. TsInv'
  BY <1>1 DEF RingInv, TsInv, Credit
<1>7. \A r \in Streams : OfStream(r)'
  BY <1>1, <1>3, StreamRests
<1> QED BY <1>4, <1>5, <1>6, <1>7, GatheredAgain

LEMMA RemoveEndRings == ASSUME Inv, RingInv, RemoveEnd PROVE RingInv'
<1>1. PICK s \in Streams, e \in Entries : s = manager.stream /\ e = manager.entry
  BY DEF Inv, TypeInv, RemoveEnd
<1>2. /\ manager.pc = "free" /\ manager' = NoCall
      /\ session' = [session EXCEPT ![e] = None]
      /\ streams' = [streams EXCEPT ![s] = Freed]
      /\ UNCHANGED <<engine, frame, sem, phase>>
  BY <1>1 DEF RemoveEnd
<1>3. /\ session \in [Entries -> Streams \cup {None}] /\ session[e] = s
      /\ streams \in [Streams -> StreamRec] /\ Sources \subseteq Entries
  BY <1>1, <1>2 DEF Inv, TypeInv, TablesInv, RingInv, NumInv, Entries
<1>4. /\ streams' \in [Streams -> StreamRec] /\ streams'[s] = Freed
      /\ \A r \in Streams \ {s} : streams'[r] = streams[r]
  BY <1>2, <1>3, FreedIs
<1>5. NumInv'
  BY <1>2, <1>4, FreedIs DEF RingInv, NumInv
<1>6. ASSUME NEW r \in Streams \ {s}
      PROVE  /\ InEngine(r)' <=> InEngine(r)
             /\ ToCopy(r)' <=> ToCopy(r)
             /\ Copying(r)' <=> Copying(r)
             /\ Later(r)' <=> Later(r)
             /\ ToSend(r)' <=> ToSend(r)
  <2>1. \A d \in Sources : Home(r, d)' <=> Home(r, d)
    BY <1>2, <1>3, Numbers DEF Home, Adding, NoCall
  <2> QED BY <1>2, <2>1, SamePlaces
<1>7. StaleInv'
  <2>1. \A r \in Streams \ {s} :
          /\ Copying(r)' /\ ToCopy(r)' => streams'[r].level = 0 /\ streams'[r].init = FALSE
          /\ frame'.pc = "tx" /\ frame'.stream = r /\ Later(r)' => streams'[r].level = 0
    BY <1>2, <1>4, <1>6 DEF RingInv, StaleInv
  <2> QED BY <1>4, <2>1, FreedIs DEF StaleInv
<1>8. TsInv'
  BY <1>2 DEF RingInv, TsInv, Credit
<1>9. ASSUME NEW r \in Streams
      PROVE  OfStream(r)'
  <2>1. CASE r = s
    BY <1>4, <2>1, FreedIs, EmptyStreamAgain
  <2>2. CASE r # s
    BY <1>2, <1>4, <1>6, <2>2, StreamRests
  <2> QED BY <2>1, <2>2
<1> QED BY <1>5, <1>7, <1>8, <1>9, GatheredAgain

------------------------------------------------------------------------------
(* The frame task moves on to the next source or the next slot. *)
LEMMA NextSourceIs ==
  ASSUME NumInv, frame.pc \in {"get", "write"}, frame' = NextSource
  PROVE  /\ frame' \in [pc : {"get", "load"}, i : Nat \ {0}, stream : {None}, ts : {frame.ts}]
         /\ frame'.pc = "get" => frame'.i = frame.i + 1 /\ frame'.i \in Sources
         /\ frame'.pc = "load" => frame'.i = 1
<1>1. NextSource = IF frame.i + 1 \in Sources
                   THEN [[[frame EXCEPT !.pc = "get"] EXCEPT !.i = frame.i + 1]
                           EXCEPT !.stream = None]
                   ELSE [[[frame EXCEPT !.pc = "load"] EXCEPT !.i = 1] EXCEPT !.stream = None]
  BY Zenon DEF NextSource
<1>2. frame.i \in Nat \ {0} /\ frame.i + 1 \in Nat \ {0}
  BY DEF NumInv
<1>3. CASE frame.i + 1 \in Sources
  <2> DEFINE u == [frame EXCEPT !.pc = "get"]
             v == [u EXCEPT !.i = frame.i + 1]
  <2>1. u = [pc |-> "get", i |-> frame.i, stream |-> frame.stream, ts |-> frame.ts]
    BY DEF NumInv
  <2> HIDE DEF u
  <2>2. v = [pc |-> "get", i |-> frame.i + 1, stream |-> frame.stream, ts |-> frame.ts]
    BY <2>1
  <2>3. frame' = [v EXCEPT !.stream = None]
    BY <1>1, <1>3 DEF u
  <2> HIDE DEF v
  <2>4. frame' = [pc |-> "get", i |-> frame.i + 1, stream |-> None, ts |-> frame.ts]
    BY <2>2, <2>3
  <2> QED BY <1>2, <1>3, <2>4
<1>4. CASE frame.i + 1 \notin Sources
  <2> DEFINE u == [frame EXCEPT !.pc = "load"]
             v == [u EXCEPT !.i = 1]
  <2>1. u = [pc |-> "load", i |-> frame.i, stream |-> frame.stream, ts |-> frame.ts]
    BY DEF NumInv
  <2> HIDE DEF u
  <2>2. v = [pc |-> "load", i |-> 1, stream |-> frame.stream, ts |-> frame.ts]
    BY <2>1
  <2>3. frame' = [v EXCEPT !.stream = None]
    BY <1>1, <1>4 DEF u
  <2> HIDE DEF v
  <2>4. frame' = [pc |-> "load", i |-> 1, stream |-> None, ts |-> frame.ts]
    BY <2>2, <2>3
  <2> QED BY <2>4
<1> QED BY <1>3, <1>4

LEMMA NextSlotIs ==
  ASSUME NumInv, frame.pc \in {"load", "tx"}, frame' = NextSlot
  PROVE  \/ /\ frame' = [pc |-> "load", i |-> frame.i + 1, stream |-> None, ts |-> frame.ts]
            /\ frame.i + 1 \in Slots
         \/ /\ frame' = [pc |-> "wait", i |-> 1, stream |-> None, ts |-> 0]
            /\ frame.i + 1 \notin Slots
<1>1. NextSlot = IF frame.i + 1 \in Slots
                 THEN [[[frame EXCEPT !.pc = "load"] EXCEPT !.i = frame.i + 1]
                         EXCEPT !.stream = None]
                 ELSE Waiting
  BY Zenon DEF NextSlot
<1>2. CASE frame.i + 1 \in Slots
  <2> DEFINE u == [frame EXCEPT !.pc = "load"]
             v == [u EXCEPT !.i = frame.i + 1]
  <2>1. u = [pc |-> "load", i |-> frame.i, stream |-> frame.stream, ts |-> frame.ts]
    BY DEF NumInv
  <2> HIDE DEF u
  <2>2. v = [pc |-> "load", i |-> frame.i + 1, stream |-> frame.stream, ts |-> frame.ts]
    BY <2>1
  <2>3. frame' = [v EXCEPT !.stream = None]
    BY <1>1, <1>2 DEF u
  <2> HIDE DEF v
  <2>4. frame' = [pc |-> "load", i |-> frame.i + 1, stream |-> None, ts |-> frame.ts]
    BY <2>2, <2>3
  <2> QED BY <1>2, <2>4
<1>3. CASE frame.i + 1 \notin Slots
  BY <1>1, <1>3 DEF Waiting
<1> QED BY <1>2, <1>3

(* No source is copied to twice, and each is sent after it was copied to.  *)
LEMMA PastSource ==
  ASSUME RingInv, frame.pc \in {"get", "write"}, frame' = NextSource,
         UNCHANGED <<session, engine, manager, sem, phase>>,
         streams' \in [Streams -> StreamRec],
         \A r \in Streams : streams'[r].kind = streams[r].kind /\ streams'[r].spp = streams[r].spp
                            /\ streams'[r].init = streams[r].init
                            /\ streams'[r].ahead = streams[r].ahead
                            /\ (streams[r].kind # "source" => streams'[r].level = streams[r].level)
  PROVE  /\ NumInv' /\ StaleInv' /\ TsInv'
         /\ \A r \in Streams : /\ InEngine(r)' <=> InEngine(r)
                               /\ ToCopy(r)' => ToCopy(r)
                               /\ ~Copying(r)'
                               /\ ToSend(r)
                               /\ InEngine(r) => ToSend(r)'
<1>1. /\ frame' \in [pc : {"get", "load"}, i : Nat \ {0}, stream : {None}, ts : {frame.ts}]
      /\ frame'.pc = "get" => frame'.i = frame.i + 1 /\ frame'.i \in Sources
      /\ frame'.pc = "load" => frame'.i = 1
      /\ frame.i \in Nat /\ frame.ts \in Int
  BY NextSourceIs DEF RingInv, NumInv
<1>2. NumInv'
  <2>1. /\ frame' \in [pc : {"get", "load"}, i : Nat \ {0}, stream : {None}, ts : Int]
        /\ frame'.pc = "get" => frame'.i \in Sources
        /\ frame'.pc = "load" => frame'.i \in Slots
    BY <1>1, Numbers
  <2>2. \A r \in Streams : /\ streams'[r].kind = "source" => streams'[r].spp \in Spps
                           /\ streams'[r].kind = "sink" => streams'[r].spp = NodeSpp
                           /\ streams'[r].kind # "source" =>
                                streams'[r].level = 0 /\ streams'[r].init = FALSE
                           /\ streams'[r].init = FALSE => streams'[r].ahead = 0
    <3>1. \A r \in Streams : /\ streams[r].kind = "source" => streams[r].spp \in Spps
                             /\ streams[r].kind = "sink" => streams[r].spp = NodeSpp
                             /\ streams[r].kind # "source" =>
                                  streams[r].level = 0 /\ streams[r].init = FALSE
                             /\ streams[r].init = FALSE => streams[r].ahead = 0
      BY DEF RingInv, NumInv
    <3> QED BY <3>1
  <2>3. sem' \in BOOLEAN /\ phase' \in 0 .. NodeSpp - 1
    BY DEF RingInv, NumInv
  <2> QED BY <2>1, <2>2, <2>3 DEF NumInv
<1>3. StaleInv'
  BY <1>1 DEF StaleInv, Copying
<1>4. TsInv'
  BY <1>1 DEF RingInv, TsInv, Credit
<1>5. ASSUME NEW r \in Streams
      PROVE  /\ InEngine(r)' <=> InEngine(r)
             /\ ToCopy(r)' => ToCopy(r)
             /\ ~Copying(r)'
             /\ ToSend(r)
             /\ InEngine(r) => ToSend(r)'
  <2>1. InEngine(r)' <=> InEngine(r)
    BY DEF InEngine
  <2>2. \A e \in Sources : Home(r, e)' <=> Home(r, e)
    BY DEF Home, Adding
  <2>3. ToCopy(r)' => ToCopy(r)
    BY <1>1, <2>1, <2>2, Numbers DEF ToCopy
  <2>4. ToSend(r)
    BY DEF ToSend
  <2>5. InEngine(r) => ToSend(r)'
    BY <1>1, Numbers DEF InEngine, ToSend
  <2> QED BY <1>1, <2>1, <2>3, <2>4, <2>5 DEF Copying
<1> QED BY <1>2, <1>3, <1>4, <1>5

LEMMA PastSlot ==
  ASSUME RingInv, frame.pc \in {"load", "tx"}, frame' = NextSlot,
         UNCHANGED <<session, engine, manager, sem, phase>>,
         streams' \in [Streams -> StreamRec],
         \A r \in Streams : streams'[r].kind = streams[r].kind /\ streams'[r].spp = streams[r].spp
                            /\ (streams'[r].init = FALSE =>
                                  streams[r].init = FALSE /\ streams'[r].ahead = streams[r].ahead)
                            /\ (streams[r].kind # "source" => streams'[r].level = streams[r].level
                                                              /\ streams'[r].init = streams[r].init)
  PROVE  /\ NumInv' /\ StaleInv' /\ TsInv'
         /\ \A r \in Streams : /\ InEngine(r)' <=> InEngine(r)
                               /\ ~ToCopy(r)' /\ ~Copying(r)'
                               /\ ToSend(r)' => ToSend(r)
                               /\ frame.pc = "tx" /\ ToSend(r)' => Later(r)
                               /\ InEngine(r) /\ ToSend(r) /\ ~ToSend(r)' =>
                                    \/ frame.pc = "load" /\ engine[frame.i] = r
                                    \/ frame.pc = "tx" /\ frame.stream = r
<1>1. /\ \/ /\ frame' = [pc |-> "load", i |-> frame.i + 1, stream |-> None, ts |-> frame.ts]
            /\ frame.i + 1 \in Slots
         \/ /\ frame' = [pc |-> "wait", i |-> 1, stream |-> None, ts |-> 0]
            /\ frame.i + 1 \notin Slots
      /\ frame.i \in Slots /\ frame.ts \in Int
  BY NextSlotIs DEF RingInv, NumInv
<1>2. NumInv'
  <2>1. /\ frame' \in [pc : {"wait", "load"}, i : Nat \ {0}, stream : {None}, ts : Int]
        /\ frame'.pc = "wait" => frame'.i = 1
        /\ frame'.pc = "load" => frame'.i \in Slots
    BY <1>1, Numbers
  <2> QED BY <2>1 DEF RingInv, NumInv
<1>3. StaleInv'
  BY <1>1 DEF StaleInv, Copying
<1>4. TsInv'
  BY <1>1 DEF RingInv, TsInv, Credit
<1>5. ASSUME NEW r \in Streams
      PROVE  /\ InEngine(r)' <=> InEngine(r)
             /\ ~ToCopy(r)' /\ ~Copying(r)'
             /\ ToSend(r)' => ToSend(r)
             /\ frame.pc = "tx" /\ ToSend(r)' => Later(r)
             /\ InEngine(r) /\ ToSend(r) /\ ~ToSend(r)' =>
                  \/ frame.pc = "load" /\ engine[frame.i] = r
                  \/ frame.pc = "tx" /\ frame.stream = r
  <2>1. InEngine(r)' <=> InEngine(r)
    BY DEF InEngine
  <2>2. ~ToCopy(r)' /\ ~Copying(r)'
    BY <1>1 DEF ToCopy, Copying
  <2>3. ToSend(r)' <=> \E j \in Slots : engine[j] = r /\ frame.i + 1 <= j
    BY <1>1, Numbers DEF ToSend
  <2>4. (ToSend(r)' => ToSend(r)) /\ (frame.pc = "tx" /\ ToSend(r)' => Later(r))
    BY <1>1, <2>3, Numbers DEF ToSend, Later
  <2>5. ToSend(r) /\ ~ToSend(r)' => \/ frame.pc = "load" /\ engine[frame.i] = r
                                    \/ frame.pc = "tx" /\ frame.stream = r
    <3>1. \A j \in Slots : frame.i <= j => frame.i + 1 <= j \/ j = frame.i
      BY <1>1, Numbers
    <3>2. \A j \in Slots : frame.i < j => frame.i + 1 <= j
      BY <1>1, Numbers
    <3> QED BY <2>3, <3>1, <3>2 DEF ToSend, Later
  <2> QED BY <2>1, <2>2, <2>4, <2>5
<1> QED BY <1>2, <1>3, <1>4, <1>5

LEMMA FrameWith ==
  ASSUME NumInv, NEW pc \in {"clock", "get", "load"}, NEW ts \in Int,
         frame' = [frame EXCEPT !.pc = pc, !.ts = ts]
  PROVE  frame' = [pc |-> pc, i |-> frame.i, stream |-> frame.stream, ts |-> ts]
<1> DEFINE u == [frame EXCEPT !.pc = pc]
<1>1. frame' = [u EXCEPT !.ts = ts]
  BY Zenon
<1>2. u = [pc |-> pc, i |-> frame.i, stream |-> frame.stream, ts |-> frame.ts]
  BY DEF NumInv
<1> HIDE DEF u
<1> QED BY <1>1, <1>2

LEMMA FrameTo ==
  ASSUME NumInv, NEW pc \in {"write", "tx"}, NEW s \in Streams,
         frame' = [frame EXCEPT !.pc = pc, !.stream = s]
  PROVE  frame' = [pc |-> pc, i |-> frame.i, stream |-> s, ts |-> frame.ts]
<1> DEFINE u == [frame EXCEPT !.pc = pc]
<1>1. frame' = [u EXCEPT !.stream = s]
  BY Zenon
<1>2. u = [pc |-> pc, i |-> frame.i, stream |-> frame.stream, ts |-> frame.ts]
  BY DEF NumInv
<1> HIDE DEF u
<1> QED BY <1>1, <1>2

(* A tick that begins owes each stream of the engine what it was owed for  *)
(* the tick that the semaphore announced.                                  *)
LEMMA TakeRings == ASSUME Inv, RingInv, Take PROVE RingInv'
<1>1. /\ frame.pc = "wait" /\ sem = TRUE /\ sem' = FALSE
      /\ UNCHANGED <<session, engine, streams, manager, phase>>
  BY DEF Take, RingInv, NumInv
<1>2. frame' = [frame EXCEPT !.pc = "clock"]
  BY DEF Take
<1>3. /\ frame' = [pc |-> "clock", i |-> frame.i, stream |-> frame.stream, ts |-> frame.ts]
      /\ frame.i = 1
  BY <1>1, <1>2 DEF RingInv, NumInv
<1>4. NumInv'
  BY <1>1, <1>3 DEF RingInv, NumInv
<1>5. StaleInv'
  BY <1>3 DEF StaleInv, Copying
<1>6. TsInv'
  BY <1>3 DEF TsInv
<1>7. ASSUME NEW s \in Streams
      PROVE  OfStream(s)'
  <2>1. /\ ToSend(s)' /\ ~ToSend(s)
        /\ ToCopy(s)' => InEngine(s)
        /\ ~Copying(s)'
    BY <1>1, <1>3 DEF ToSend, ToCopy, InEngine, Copying
  <2>2. NodeSpp <= streams[s].spp => LevelOf(s)'
    BY <1>1, <2>1 DEF RingInv, LevelInv, LevelOf, Before
  <2>3. /\ Credit(sem) = NodeSpp /\ Credit(sem)' = 0
        /\ Credit(ToSend(s))' = NodeSpp /\ Credit(ToSend(s)) = 0
    BY <1>1, <2>1 DEF Credit
  <2>4. /\ Credit(ToCopy(s) \/ Copying(s)) \in {0, NodeSpp}
        /\ Credit(ToCopy(s) \/ Copying(s))' \in {0, NodeSpp}
    BY DEF Credit
  <2>5. /\ Credit(sem)' + Credit(ToSend(s))' <= Credit(sem) + Credit(ToSend(s))
        /\ Credit(sem)' + Credit(ToCopy(s) \/ Copying(s))' <=
             Credit(sem) + Credit(ToCopy(s) \/ Copying(s))
    BY <2>3, <2>4, Numbers
  <2>6. ASSUME streams[s].init = TRUE
        PROVE  AheadOf(s)'
    BY <1>1, <2>5, <2>6, AheadKept
  <2> QED BY <1>1, <2>2, <2>6 DEF OfStream
<1> QED BY <1>4, <1>5, <1>6, <1>7, GatheredAgain

LEMMA CapturedRings ==
  ASSUME Inv, RingInv, NEW pc \in {"get", "load"}, Captured(pc)
  PROVE  RingInv'
<1>1. /\ frame.pc = "clock" /\ frame' = [frame EXCEPT !.pc = pc, !.ts = 0]
      /\ UNCHANGED <<session, engine, streams, manager, sem, phase>>
  BY DEF Captured
<1>2. /\ frame' = [pc |-> pc, i |-> frame.i, stream |-> frame.stream, ts |-> 0]
      /\ frame.i = 1
  BY <1>1, FrameWith DEF RingInv, NumInv
<1>3. NumInv'
  BY <1>1, <1>2, Numbers DEF RingInv, NumInv
<1>4. StaleInv'
  BY <1>2 DEF StaleInv, Copying
<1>5. TsInv'
  <2>1. phase \in 0 .. NodeSpp - 1 /\ Credit(sem) \in {0, NodeSpp}
    BY CreditIs DEF RingInv, NumInv
  <2>2. 0 + phase + Credit(sem) < 2 * NodeSpp
    BY <2>1, Numbers
  <2>3. Credit(sem)' = Credit(sem) /\ phase' = phase /\ frame'.ts = 0
    BY <1>1, <1>2 DEF Credit
  <2> QED BY <2>2, <2>3 DEF TsInv
<1>6. ASSUME NEW s \in Streams
      PROVE  OfStream(s)'
  <2>1. /\ ToCopy(s)' \/ Copying(s)' => ToCopy(s)
        /\ ToSend(s)
        /\ InEngine(s)' => ToSend(s)'
    BY <1>1, <1>2, Numbers DEF ToSend, ToCopy, InEngine, Copying
  <2> QED BY <1>1, <2>1, StreamRests
<1> QED BY <1>3, <1>4, <1>5, <1>6, GatheredAgain

LEMMA PastSourceRests ==
  ASSUME RingInv, frame.pc \in {"get", "write"}, frame' = NextSource,
         UNCHANGED <<session, engine, streams, manager, sem, phase>>
  PROVE  RingInv'
<1>1. streams \in [Streams -> StreamRec]
  BY DEF RingInv, NumInv
<1>2. /\ NumInv' /\ StaleInv' /\ TsInv'
      /\ \A r \in Streams : /\ InEngine(r)' <=> InEngine(r)
                            /\ ToCopy(r)' => ToCopy(r)
                            /\ ~Copying(r)'
                            /\ ToSend(r)
                            /\ InEngine(r) => ToSend(r)'
  BY <1>1, PastSource
<1>3. ASSUME NEW r \in Streams
      PROVE  OfStream(r)'
  BY <1>2, StreamRests
<1> QED BY <1>2, <1>3, GatheredAgain

(* The lock is held only to copy the session's entry, in the engine at the *)
(* time.                                                                   *)
LEMMA GetSourceRings == ASSUME Inv, RingInv, NEW i \in Sources, GetSource(i) PROVE RingInv'
<1>1. /\ frame.pc = "get" /\ frame.i = i /\ manager.pc = "idle"
      /\ UNCHANGED <<session, engine, streams, manager, sem, phase>>
      /\ frame' = IF session[i] = None THEN NextSource
                  ELSE [frame EXCEPT !.pc = "write", !.stream = session[i]]
  BY DEF GetSource
<1>2. CASE session[i] = None
  BY <1>1, <1>2, PastSourceRests
<1>3. CASE session[i] # None
  <2>1. PICK r \in Streams : r = session[i]
    BY <1>3, Numbers DEF Inv, TypeInv, Entries
  <2>2. frame' = [pc |-> "write", i |-> i, stream |-> r, ts |-> frame.ts]
    BY <1>1, <1>3, <2>1, FrameTo DEF RingInv
  <2>3. InEngine(r)
    <3>1. InSession(r) /\ ~Removing(r)
      BY <1>1, <2>1 DEF InSession, Removing, Entries
    <3> QED BY <3>1 DEF Inv, TablesInv
  <2>4. Home(r, i) /\ \A e \in Sources : Home(r, e) => e = i
    <3>1. \A e \in Sources : ~Adding(r) /\ (session[e] = r /\ r # None => e = i)
      BY <1>1, <2>1 DEF Inv, TypeInv, TablesInv, Injective, Adding, Entries
    <3> QED BY <2>1, <3>1, Numbers DEF Home
  <2>5. ASSUME NEW s \in Streams
        PROVE  /\ InEngine(s)' <=> InEngine(s)
               /\ ToCopy(s)' => ToCopy(s) /\ s # r
               /\ Copying(s)' => s = r /\ ToCopy(s)
               /\ ToSend(s) /\ ToSend(s)'
    <3>1. InEngine(s)' <=> InEngine(s)
      BY <1>1 DEF InEngine
    <3>2. \A e \in Sources : Home(s, e)' <=> Home(s, e)
      BY <1>1 DEF Home, Adding
    <3>3. ToCopy(s)' => ToCopy(s) /\ s # r
      BY <1>1, <2>2, <2>4, <3>1, <3>2, Numbers DEF ToCopy
    <3>4. Copying(s)' => s = r /\ ToCopy(s)
      <4>1. i <= i
        BY Numbers
      <4>2. ToCopy(r)
        BY <1>1, <2>3, <2>4, <4>1 DEF ToCopy
      <4>3. Copying(s)' => s = r
        BY <2>2 DEF Copying
      <4> QED BY <4>2, <4>3
    <3> QED BY <1>1, <2>2, <3>1, <3>3, <3>4 DEF ToSend
  <2>6. NumInv'
    <3>1. /\ frame' \in [pc : {"write"}, i : Nat \ {0}, stream : Streams, ts : Int]
          /\ frame'.i \in Sources
      BY <1>1, <2>2 DEF RingInv, NumInv
    <3> QED BY <1>1, <3>1 DEF RingInv, NumInv
  <2>7. StaleInv'
    BY <2>2, <2>5 DEF StaleInv
  <2>8. TsInv'
    BY <1>1, <2>2 DEF RingInv, TsInv, Credit
  <2>9. ASSUME NEW s \in Streams
        PROVE  OfStream(s)'
    BY <1>1, <2>5, StreamRests
  <2> QED BY <2>6, <2>7, <2>8, <2>9, GatheredAgain
<1> QED BY <1>2, <1>3

LEMMA GetSourceTimeoutRings == ASSUME RingInv, GetSourceTimeout PROVE RingInv'
BY PastSourceRests DEF GetSourceTimeout

(* Each copy finds room: the ring was left with less than a packet, or     *)
(* never had more than the block of a tick before its first turn.          *)
LEMMA SourceWriteRings == ASSUME Inv, RingInv, SourceWrite PROVE RingInv'
<1>1. PICK s \in Streams : s = frame.stream
  BY DEF RingInv, NumInv, SourceWrite
<1>2. /\ frame.pc = "write" /\ streams[s].kind # "freed" /\ frame' = NextSource
      /\ UNCHANGED <<session, engine, manager, sem, phase>>
      /\ streams' = IF streams[s].kind = "sink" THEN streams
                    ELSE [streams EXCEPT ![s] = Written(streams[s])]
  BY <1>1 DEF SourceWrite
<1>3. streams \in [Streams -> StreamRec]
  BY DEF RingInv, NumInv
<1>4. CASE streams[s].kind = "sink"
  BY <1>2, <1>4, PastSourceRests
<1>5. CASE streams[s].kind # "sink"
  <2> DEFINE t == streams[s]
             u == Written(t)
  <2>1. t \in StreamRec /\ t.kind = "source"
    BY <1>2, <1>3, <1>5 DEF StreamRec
  <2>2. /\ u \in StreamRec
        /\ u.kind = t.kind /\ u.spp = t.spp
        /\ u.init = t.init /\ u.ahead = t.ahead
        /\ u.level <= t.level + NodeSpp
        /\ NodeSpp <= Mult * t.spp - t.level => u.overflow = t.overflow
    BY <2>1, WrittenFields
  <2>3. streams' = [streams EXCEPT ![s] = u]
    BY <1>2, <1>5
  <2> HIDE DEF u
  <2>4. /\ streams' \in [Streams -> StreamRec] /\ streams'[s] = u
        /\ \A r \in Streams \ {s} : streams'[r] = streams[r]
    BY <1>3, <2>2, <2>3
  <2>5. \A r \in Streams : /\ streams'[r].kind = streams[r].kind
                           /\ streams'[r].spp = streams[r].spp
                           /\ streams'[r].init = streams[r].init
                           /\ streams'[r].ahead = streams[r].ahead
                           /\ streams[r].kind # "source" => streams'[r].level = streams[r].level
    BY <2>1, <2>2, <2>4
  <2>6. /\ NumInv' /\ StaleInv' /\ TsInv'
        /\ \A r \in Streams : /\ InEngine(r)' <=> InEngine(r)
                              /\ ToCopy(r)' => ToCopy(r)
                              /\ ~Copying(r)'
                              /\ ToSend(r)
                              /\ InEngine(r) => ToSend(r)'
    BY <1>2, <2>4, <2>5, PastSource
  <2>7. Copying(s) /\ (ToCopy(s) => t.level = 0 /\ t.init = FALSE)
    BY <1>1, <1>2 DEF Copying, RingInv, StaleInv
  <2>8. /\ t.level \in Nat /\ t.spp \in Nat \ {0} /\ t.ahead \in Int /\ t.init \in BOOLEAN
        /\ u.level \in Nat /\ NodeSpp \in Nat
    BY <2>1, <2>2, Numbers DEF StreamRec
  <2>9. NodeSpp <= t.spp => LevelOf(s)'
    <3> SUFFICES ASSUME NodeSpp <= t.spp
                 PROVE  LevelOf(s)'
      OBVIOUS
    <3>1. LevelOf(s)
      BY DEF RingInv, LevelInv
    <3>2. Before(t) \in Nat /\ Before(t) <= t.spp /\ (t.init = FALSE => Before(t) = NodeSpp)
      BY <2>8 DEF Before
    <3>3. t.overflow = FALSE /\ t.level <= Before(t)
      BY <2>7, <3>1 DEF LevelOf
    <3>4. t.level <= t.spp
      BY <2>8, <3>2, <3>3
    <3>5. u.overflow = FALSE
      BY <2>2, <2>8, <3>3, <3>4, RingHasRoom
    <3>6. u.level <= Before(t) + NodeSpp
      BY <2>2, <2>8, <3>2, <3>3
    <3>7. ToCopy(s)' => u.level <= Before(t)
      BY <2>2, <2>6, <2>7, <2>8, <3>2
    <3>8. Before(streams[s])' = Before(t)
      BY <2>2, <2>4 DEF Before
    <3> HIDE DEF t
    <3> QED BY <2>4, <2>6, <3>5, <3>6, <3>7, <3>8 DEF LevelOf
  <2>10. ASSUME t.init = TRUE
         PROVE  AheadOf(s)'
    <3>1. AheadOf(s)
      BY <2>10 DEF RingInv, AheadInv
    <3>2. ~(ToCopy(s)' \/ Copying(s)')
      BY <2>6, <2>7, <2>10
    <3>3. /\ Credit(ToCopy(s) \/ Copying(s)) = NodeSpp
          /\ Credit(ToCopy(s) \/ Copying(s))' = 0
          /\ Credit(ToSend(s)) = NodeSpp /\ Credit(ToSend(s))' \in {0, NodeSpp}
      BY <2>6, <2>7, <3>2 DEF Credit
    <3>4. /\ Credit(sem)' = Credit(sem) /\ Credit(sem) \in {0, NodeSpp}
          /\ phase' = phase /\ phase \in Nat
      BY <1>2, Numbers DEF Credit, RingInv, NumInv
    <3> DEFINE l == Lead(t.spp)
    <3>5. l \in Nat /\ Lead(streams[s].spp)' = l
      BY <2>2, <2>4, <2>8, LeadIs DEF Lead
    <3>6. /\ t.ahead - t.spp < l
          /\ t.spp <= NodeSpp => t.ahead + phase + Credit(sem) + NodeSpp < 3 * NodeSpp
          /\ NodeSpp < t.spp =>
               t.ahead + t.level + phase + Credit(sem) + NodeSpp < t.spp + l
      BY <3>1, <3>3 DEF AheadOf
    <3> HIDE DEF l, t
    <3>7. /\ u.ahead - u.spp < l
          /\ u.spp <= NodeSpp => u.ahead + phase + Credit(sem) + Credit(ToSend(s))' < 3 * NodeSpp
          /\ NodeSpp < u.spp =>
               u.ahead + u.level + phase + Credit(sem) + 0 < u.spp + l
      BY <2>2, <2>8, <3>3, <3>4, <3>5, <3>6
    <3> QED BY <2>4, <3>3, <3>4, <3>5, <3>7 DEF AheadOf
  <2>11. ASSUME NEW r \in Streams
         PROVE  OfStream(r)'
    <3>1. CASE r = s
      BY <2>2, <2>4, <2>9, <2>10, <3>1 DEF OfStream
    <3>2. CASE r # s
      BY <1>2, <2>4, <2>6, <3>2, StreamRests
    <3> QED BY <3>1, <3>2
  <2> QED BY <2>6, <2>11, GatheredAgain
<1> QED BY <1>4, <1>5

------------------------------------------------------------------------------
LEMMA PastSlotRests ==
  ASSUME RingInv, frame.pc \in {"load", "tx"}, frame' = NextSlot,
         UNCHANGED <<session, engine, streams, manager, sem, phase>>,
         frame.pc = "load" => engine[frame.i] = None,
         frame.pc = "tx" => ~InEngine(frame.stream) \/ streams[frame.stream].kind # "source"
  PROVE  RingInv'
<1>1. streams \in [Streams -> StreamRec]
  BY DEF RingInv, NumInv
<1>2. /\ NumInv' /\ StaleInv' /\ TsInv'
      /\ \A r \in Streams : /\ InEngine(r)' <=> InEngine(r)
                            /\ ~ToCopy(r)' /\ ~Copying(r)'
                            /\ ToSend(r)' => ToSend(r)
                            /\ frame.pc = "tx" /\ ToSend(r)' => Later(r)
                            /\ InEngine(r) /\ ToSend(r) /\ ~ToSend(r)' =>
                                 \/ frame.pc = "load" /\ engine[frame.i] = r
                                 \/ frame.pc = "tx" /\ frame.stream = r
  BY <1>1, PastSlot
<1>3. ASSUME NEW r \in Streams
      PROVE  OfStream(r)'
  <2>1. CASE frame.pc = "tx" /\ frame.stream = r /\ streams[r].kind # "source"
    <3>1. /\ streams[r].level = 0 /\ streams[r].init = FALSE
          /\ NodeSpp <= streams[r].spp => streams[r].overflow = FALSE
      BY <2>1 DEF RingInv, NumInv, LevelInv, LevelOf
    <3>2. Before(streams[r]) \in Nat /\ Before(streams[r])' = Before(streams[r])
          /\ NodeSpp \in Nat
      BY <1>1, Numbers DEF Before, StreamRec
    <3> QED BY <3>1, <3>2 DEF OfStream, LevelOf
  <2>2. CASE ~(frame.pc = "tx" /\ frame.stream = r /\ streams[r].kind # "source")
    BY <1>2, <2>2, StreamRests, Numbers
  <2> QED BY <2>1, <2>2
<1> QED BY <1>2, <1>3, GatheredAgain

LEMMA TxLoadRings == ASSUME Inv, RingInv, TxLoad PROVE RingInv'
<1>1. PICK i \in Slots : i = frame.i
  BY DEF RingInv, NumInv, TxLoad
<1>2. /\ frame.pc = "load" /\ UNCHANGED <<session, engine, streams, manager, sem, phase>>
      /\ frame' = IF engine[i] = None THEN NextSlot
                  ELSE [frame EXCEPT !.pc = "tx", !.stream = engine[i]]
  BY <1>1 DEF TxLoad
<1>3. CASE engine[i] = None
  BY <1>1, <1>2, <1>3, PastSlotRests
<1>4. CASE engine[i] # None
  <2>1. PICK r \in Streams : r = engine[i]
    BY <1>4, Numbers DEF Inv, TypeInv
  <2>2. frame' = [pc |-> "tx", i |-> i, stream |-> r, ts |-> frame.ts]
    BY <1>1, <1>2, <1>4, <2>1, FrameTo DEF RingInv
  <2>3. \A j \in Slots : engine[j] = r => j = i
    BY <2>1, Numbers DEF Inv, TypeInv, TablesInv, Injective
  <2>4. ASSUME NEW s \in Streams
        PROVE  /\ InEngine(s)' <=> InEngine(s)
               /\ ~ToCopy(s)' /\ ~Copying(s)'
               /\ s = r => ~Later(s)'
               /\ ToSend(s)' <=> ToSend(s)
    <3>1. InEngine(s)' <=> InEngine(s)
      BY <1>2 DEF InEngine
    <3>2. ~ToCopy(s)' /\ ~Copying(s)'
      BY <2>2 DEF ToCopy, Copying
    <3>3. Later(s)' <=> \E j \in Slots : engine[j] = s /\ i < j
      <4>1. frame'.i = i
        BY <2>2
      <4>2. engine' = engine
        BY <1>2
      <4> QED BY Zenon, <4>1, <4>2 DEF Later
    <3>4. s = r => ~Later(s)'
      BY <2>3, <3>3, Numbers
    <3>5. ToSend(s)' <=> s = r \/ Later(s)'
      BY <2>2 DEF ToSend
    <3>6. ToSend(s) <=> \E j \in Slots : engine[j] = s /\ i <= j
      BY <1>1, <1>2 DEF ToSend
    <3>7. ToSend(s)' <=> ToSend(s)
      <4>1. \A j \in Slots : i <= j <=> i < j \/ j = i
        BY Numbers
      <4> QED BY <2>1, <3>3, <3>5, <3>6, <4>1
    <3> QED BY <3>1, <3>2, <3>4, <3>7
  <2>5. NumInv'
    <3>1. /\ frame' \in [pc : {"tx"}, i : Nat \ {0}, stream : Streams, ts : Int]
          /\ frame'.i \in Slots
      BY <1>1, <2>2, Numbers DEF RingInv, NumInv
    <3> QED BY <1>2, <3>1 DEF RingInv, NumInv
  <2>6. StaleInv'
    BY <2>2, <2>4 DEF StaleInv
  <2>7. TsInv'
    BY <1>2, <2>2 DEF RingInv, TsInv, Credit
  <2>8. ASSUME NEW s \in Streams
        PROVE  OfStream(s)'
    BY <1>2, <2>4, StreamRests
  <2> QED BY <2>5, <2>6, <2>7, <2>8, GatheredAgain
<1> QED BY <1>3, <1>4

LEMMA UseFreedRings == ASSUME Inv, RingInv, UseFreed PROVE RingInv'
<1>1. /\ frame.pc \in {"write", "tx"} /\ streams[frame.stream].kind = "freed"
      /\ frame' = IF frame.pc = "write" THEN NextSource ELSE NextSlot
      /\ UNCHANGED <<session, engine, streams, manager, sem, phase>>
  BY DEF UseFreed
<1>2. CASE frame.pc = "write"
  BY <1>1, <1>2, PastSourceRests
<1>3. CASE frame.pc = "tx"
  BY <1>1, <1>3, PastSlotRests
<1> QED BY <1>1, <1>2, <1>3

(* A packet leaves less than a packet in the ring, and advances the        *)
(* timestamp by no more than the ring had beyond the clock.                *)
LEMMA TxStreamRings == ASSUME Inv, RingInv, TxStream PROVE RingInv'
<1>1. PICK s \in Streams : s = frame.stream
  BY DEF RingInv, NumInv, TxStream
<1>2. /\ frame.pc = "tx" /\ streams[s].kind # "freed" /\ frame' = NextSlot
      /\ UNCHANGED <<session, engine, manager, sem, phase>>
      /\ streams' = [streams EXCEPT ![s] = Processed(streams[s])]
  BY <1>1 DEF TxStream
<1>3. streams \in [Streams -> StreamRec]
  BY DEF RingInv, NumInv
<1>4. CASE streams[s].kind # "source"
  <2>1. streams' = streams
    BY <1>2, <1>3, <1>4 DEF Processed
  <2> QED BY <1>1, <1>2, <1>4, <2>1, PastSlotRests
<1>5. CASE streams[s].kind = "source"
  <2> DEFINE t == streams[s]
             u == Processed(t)
             b == Base(t)
  <2>1. frame.ts \in Int /\ t \in StreamRec
    BY <1>3 DEF RingInv, NumInv
  <2>2. /\ u \in StreamRec
        /\ u.kind = t.kind /\ u.spp = t.spp
        /\ u.init = TRUE /\ u.overflow = t.overflow
        /\ t.level >= t.spp => u.level = t.level - t.spp /\ u.ahead = b + t.spp
        /\ t.level < t.spp => u.level = t.level /\ u.ahead = b
    BY <1>5, <2>1, ProcessedFields
  <2> HIDE DEF u
  <2>3. /\ streams' \in [Streams -> StreamRec] /\ streams'[s] = u
        /\ \A r \in Streams \ {s} : streams'[r] = streams[r]
    BY <1>2, <1>3, <2>2 DEF u
  <2>4. \A r \in Streams : /\ streams'[r].kind = streams[r].kind
                           /\ streams'[r].spp = streams[r].spp
                           /\ streams'[r].init = FALSE =>
                                streams[r].init = FALSE /\ streams'[r].ahead = streams[r].ahead
                           /\ streams[r].kind # "source" => streams'[r].level = streams[r].level
                                                            /\ streams'[r].init = streams[r].init
    BY <1>5, <2>2, <2>3
  <2>5. /\ NumInv' /\ StaleInv' /\ TsInv'
        /\ \A r \in Streams : /\ InEngine(r)' <=> InEngine(r)
                              /\ ~ToCopy(r)' /\ ~Copying(r)'
                              /\ ToSend(r)' => ToSend(r)
                              /\ frame.pc = "tx" /\ ToSend(r)' => Later(r)
                              /\ InEngine(r) /\ ToSend(r) /\ ~ToSend(r)' =>
                                   \/ frame.pc = "load" /\ engine[frame.i] = r
                                   \/ frame.pc = "tx" /\ frame.stream = r
    BY <1>2, <2>3, <2>4, PastSlot
  <2>6. /\ ToSend(s)
        /\ ToSend(s)' => t.level = 0
    BY <1>1, <1>2, <2>5 DEF ToSend, RingInv, StaleInv
  <2>7. /\ t.level \in Nat /\ t.spp \in Nat \ {0} /\ t.ahead \in Int /\ t.init \in BOOLEAN
        /\ b \in Int /\ NodeSpp \in Nat \ {0}
    BY <2>1, Numbers DEF StreamRec, Base
  <2>8. NodeSpp <= t.spp => t.level <= Before(t) + NodeSpp /\ t.overflow = FALSE
    BY DEF RingInv, LevelInv, LevelOf
  <2>9. Before(t) = IF t.init THEN t.spp ELSE NodeSpp
    BY DEF Before
  <2>10. NodeSpp <= t.spp => LevelOf(s)'
    <3> SUFFICES ASSUME NodeSpp <= t.spp
                 PROVE  LevelOf(s)'
      OBVIOUS
    <3>1. Before(streams[s])' = t.spp
      BY <2>2, <2>3 DEF Before
    <3>2. Before(t) \in Nat /\ Before(t) <= t.spp
      BY <2>7, <2>9
    <3> HIDE DEF t
    <3>3. u.level <= t.spp /\ u.level \in Nat
      BY <2>2, <2>7, <2>8, <3>2
    <3> QED BY <2>2, <2>3, <2>7, <2>8, <3>1, <3>3 DEF LevelOf
  <2> DEFINE l == Lead(t.spp)
             e == Credit(sem)
             d == Credit(ToSend(s))
  <2>11. /\ l \in Nat /\ l >= 2 * NodeSpp
         /\ t.spp < 2 * NodeSpp /\ NodeSpp < t.spp => l = 3 * NodeSpp
         /\ Lead(streams[s].spp)' = l
    BY <2>2, <2>3, <2>7 DEF Lead
  <2>12. /\ phase \in Nat /\ phase' = phase /\ e \in Nat /\ e' = e /\ d' \in {0, NodeSpp}
         /\ d' = NodeSpp => t.level = 0
    BY <1>2, <2>6, Numbers DEF RingInv, NumInv, Credit
  <2> HIDE DEF l, e, d
  <2>13. /\ b - t.spp < l
         /\ t.spp <= NodeSpp => b + phase + e < 2 * NodeSpp
         /\ NodeSpp < t.spp => b + t.level + phase + e < t.spp + l
    <3>1. CASE t.init = TRUE
      <4>1. AheadOf(s) /\ Credit(ToSend(s)) = NodeSpp /\ b = t.ahead
        BY <2>6, <3>1 DEF RingInv, AheadInv, Base, Credit
      <4>2. Credit(ToCopy(s) \/ Copying(s)) \in Nat
        BY Numbers DEF Credit
      <4>3. /\ t.ahead - t.spp < l
            /\ t.spp <= NodeSpp => t.ahead + phase + e + NodeSpp < 3 * NodeSpp
            /\ NodeSpp < t.spp => t.ahead + t.level + phase + e + Credit(ToCopy(s) \/ Copying(s))
                                    < t.spp + l
        BY <4>1 DEF AheadOf, e, l
      <4> HIDE DEF t, b
      <4> QED BY <2>7, <2>11, <2>12, <4>1, <4>2, <4>3
    <3>2. CASE t.init = FALSE
      <4>1. b = frame.ts /\ frame.ts <= 0 /\ frame.ts + phase + e < 2 * NodeSpp
        BY <1>2, <3>2 DEF Base, RingInv, TsInv, e
      <4>2. NodeSpp <= t.spp => t.level <= 2 * NodeSpp
        BY <2>7, <2>8, <2>9, <3>2
      <4> HIDE DEF t, b
      <4> QED BY <2>7, <2>11, <2>12, <4>1, <4>2
    <3> QED BY <2>7, <3>1, <3>2
  <2> HIDE DEF t, b
  <2>14. b < l \/ t.level < t.spp
    BY <2>7, <2>11, <2>12, <2>13
  <2>15. /\ u.ahead - u.spp < l
         /\ u.spp <= NodeSpp => u.ahead + phase + e + d' < 3 * NodeSpp
         /\ NodeSpp < u.spp => u.ahead + u.level + phase + e + 0 < u.spp + l
    BY <2>2, <2>7, <2>11, <2>12, <2>13, <2>14
  <2>16. AheadOf(s)'
    <3>1. Credit(ToCopy(s) \/ Copying(s))' = 0
      BY <2>5 DEF Credit
    <3> QED BY <2>3, <2>11, <2>12, <2>15, <3>1 DEF AheadOf, d, e
  <2>17. ASSUME NEW r \in Streams
         PROVE  OfStream(r)'
    <3>1. CASE r = s
      BY <2>2, <2>3, <2>10, <2>16, <3>1 DEF OfStream, t
    <3>2. CASE r # s
      BY <1>1, <1>2, <2>3, <2>5, <3>2, StreamRests, Numbers
    <3> QED BY <3>1, <3>2
  <2> QED BY <2>5, <2>17, GatheredAgain
<1> QED BY <1>4, <1>5

LEMMA CrashRings == ASSUME Crash PROVE RingInv'
<1>1. /\ engine' = [i \in Slots |-> None] /\ streams' = [s \in Streams |-> Freed]
      /\ frame' = Waiting /\ sem' = FALSE /\ phase' = 0
  BY DEF Crash
<1>2. frame' = [pc |-> "wait", i |-> 1, stream |-> None, ts |-> 0]
  BY <1>1 DEF Waiting
<1>3. NumInv'
  <2>1. streams' \in [Streams -> StreamRec]
    BY <1>1, FreedIs
  <2>2. frame' \in [pc : {"wait"}, i : Nat \ {0}, stream : {None}, ts : Int] /\ frame'.i = 1
    BY <1>2
  <2>3. sem' \in BOOLEAN /\ phase' \in 0 .. NodeSpp - 1
    <3>1. 0 \in 0 .. NodeSpp - 1
      BY Numbers
    <3> QED BY <1>1, <3>1
  <2>4. \A s \in Streams : streams'[s] = Freed
    BY <1>1
  <2> QED BY <2>1, <2>2, <2>3, <2>4, FreedIs DEF NumInv
<1>4. StaleInv' /\ TsInv'
  BY <1>2 DEF StaleInv, TsInv, Copying
<1>5. ASSUME NEW s \in Streams
      PROVE  OfStream(s)'
  BY <1>1, FreedIs, EmptyStreamAgain
<1> QED BY <1>3, <1>4, <1>5, GatheredAgain

LEMMA InitRings == ASSUME Init PROVE RingInv
<1>1. /\ engine = [i \in Slots |-> None] /\ streams = [s \in Streams |-> Freed]
      /\ frame = [pc |-> "wait", i |-> 1, stream |-> None, ts |-> 0] /\ sem = FALSE /\ phase = 0
  BY DEF Init, Waiting
<1>2. NumInv
  <2>1. streams \in [Streams -> StreamRec]
    BY <1>1, FreedIs
  <2>2. frame \in [pc : {"wait"}, i : Nat \ {0}, stream : {None}, ts : Int] /\ frame.i = 1
    BY <1>1
  <2>3. sem \in BOOLEAN /\ phase \in 0 .. NodeSpp - 1
    <3>1. 0 \in 0 .. NodeSpp - 1
      BY Numbers
    <3> QED BY <1>1, <3>1
  <2>4. \A s \in Streams : streams[s] = Freed
    BY <1>1
  <2> QED BY <2>1, <2>2, <2>3, <2>4, FreedIs DEF NumInv
<1>3. StaleInv /\ TsInv
  BY <1>1 DEF StaleInv, TsInv, Copying
<1>4. ASSUME NEW s \in Streams
      PROVE  OfStream(s)
  BY <1>1, FreedIs, EmptyStream
<1> QED BY <1>2, <1>3, <1>4, Gathered

LEMMA SelfModulo == ASSUME NEW n \in Nat \ {0} PROVE n % n = 0
<1> DEFINE q == n \div n
           r == n % n
<1>1. q \in Int /\ n = q * n + r
  OBVIOUS
<1>2. r \in 0 .. n - 1
  OBVIOUS
<1> HIDE DEF q, r
<1>3. q >= 2 => q * n >= 2 * n
  BY <1>1, Z3
<1>4. q <= 0 => q * n <= 0
  BY <1>1, Z3
<1>5. q = 1
  BY <1>1, <1>2, <1>3, <1>4
<1> QED BY <1>1, <1>2, <1>5 DEF r

(* A frame of the clock ages every timestamp, and announces a tick when it *)
(* ends a packet time.                                                     *)
LEMMA ElapseRings == ASSUME RingInv, Elapse PROVE RingInv'
<1>1. /\ phase' = (phase + 1) % NodeSpp /\ sem' = (sem \/ phase' = 0)
      /\ streams' = [s \in Streams |-> Older(streams[s])]
      /\ frame' = IF frame.pc \in {"wait", "clock"} THEN frame
                  ELSE [frame EXCEPT !.ts = Lag(frame.ts)]
      /\ UNCHANGED <<session, engine, manager>>
  BY DEF Elapse
<1>2. /\ streams \in [Streams -> StreamRec] /\ frame.ts \in Int /\ sem \in BOOLEAN
      /\ phase \in 0 .. NodeSpp - 1 /\ NodeSpp \in Nat \ {0} /\ Behind \in Nat /\ NodeSpp <= Behind
  BY Numbers DEF RingInv, NumInv
<1>3. /\ frame'.pc = frame.pc /\ frame'.i = frame.i /\ frame'.stream = frame.stream
      /\ frame' \in [pc : {"wait", "clock", "get", "write", "load", "tx"}, i : Nat \ {0},
                     stream : Streams \cup {None}, ts : Int]
      /\ frame.pc \notin {"wait", "clock"} => frame'.ts = Lag(frame.ts)
  <2>1. Lag(frame.ts) \in Int
    BY <1>2, LagIs
  <2> QED BY <1>1, <2>1 DEF RingInv, NumInv
<1>4. PICK e \in Nat, f \in Nat, q \in Nat :
         /\ e = Credit(sem) /\ f = Credit(sem)' /\ f <= NodeSpp
         /\ q = phase' /\ q < NodeSpp /\ sem' \in BOOLEAN
         /\ q + f <= phase + 1 + e
  <2> SUFFICES /\ Credit(sem) \in Nat /\ Credit(sem)' \in Nat /\ Credit(sem)' <= NodeSpp
               /\ phase' \in Nat /\ phase' < NodeSpp /\ sem' \in BOOLEAN
               /\ phase' + Credit(sem)' <= phase + 1 + Credit(sem)
    OBVIOUS
  <2>1. CASE phase + 1 < NodeSpp
    <3>1. phase' = phase + 1 /\ sem' = sem
      BY <1>1, <1>2, <2>1
    <3> QED BY <1>2, <2>1, <3>1 DEF Credit
  <2>2. CASE phase + 1 = NodeSpp
    <3>1. phase' = 0 /\ sem' = TRUE
      <4>1. NodeSpp % NodeSpp = 0
        BY <1>2, SelfModulo
      <4> QED BY <1>1, <2>2, <4>1
    <3> QED BY <1>2, <2>2, <3>1 DEF Credit
  <2> QED BY <1>2, <2>1, <2>2
<1>5. ASSUME NEW s \in Streams
      PROVE  /\ streams'[s] \in StreamRec
             /\ streams'[s].kind = streams[s].kind /\ streams'[s].spp = streams[s].spp
             /\ streams'[s].level = streams[s].level /\ streams'[s].init = streams[s].init
             /\ streams'[s].overflow = streams[s].overflow
             /\ streams'[s].ahead = IF streams[s].init THEN Lag(streams[s].ahead)
                                    ELSE streams[s].ahead
  BY <1>1, <1>2, OlderFields
<1>6. ASSUME NEW s \in Streams
      PROVE  /\ InEngine(s)' <=> InEngine(s)
             /\ ToCopy(s)' <=> ToCopy(s)
             /\ Copying(s)' <=> Copying(s)
             /\ Later(s)' <=> Later(s)
             /\ ToSend(s)' <=> ToSend(s)
  <2>1. engine' = engine /\ \A d \in Sources : Home(s, d)' <=> Home(s, d)
    BY <1>1 DEF Home, Adding
  <2>2. InEngine(s)' <=> InEngine(s)
    BY <2>1 DEF InEngine
  <2>3. ToCopy(s)' <=> ToCopy(s)
    BY <1>3, <2>1, <2>2 DEF ToCopy
  <2>4. Copying(s)' <=> Copying(s)
    BY <1>3 DEF Copying
  <2>5. Later(s)' <=> Later(s)
    BY Zenon, <1>3, <2>1 DEF Later
  <2>6. ToSend(s)' <=> ToSend(s)
    BY <1>3, <2>1, <2>5 DEF ToSend
  <2> QED BY <2>2, <2>3, <2>4, <2>5, <2>6
<1>7. NumInv'
  <2>1. streams' \in [Streams -> StreamRec]
    BY <1>1, <1>5
  <2>2. \A s \in Streams : /\ streams'[s].kind = "source" => streams'[s].spp \in Spps
                           /\ streams'[s].kind = "sink" => streams'[s].spp = NodeSpp
                           /\ streams'[s].kind # "source" =>
                                streams'[s].level = 0 /\ streams'[s].init = FALSE
                           /\ streams'[s].init = FALSE => streams'[s].ahead = 0
    BY <1>2, <1>5 DEF RingInv, NumInv
  <2>3. /\ frame'.pc \in {"wait", "clock"} => frame'.i = 1
        /\ frame'.pc \in {"write", "tx"} => frame'.stream \in Streams
        /\ frame'.pc \in {"get", "write"} => frame'.i \in Sources
        /\ frame'.pc \in {"load", "tx"} => frame'.i \in Slots
    BY <1>3 DEF RingInv, NumInv
  <2>4. sem' \in BOOLEAN /\ phase' \in 0 .. NodeSpp - 1
    BY <1>2, <1>4
  <2> QED BY <1>3, <2>1, <2>2, <2>3, <2>4 DEF NumInv
<1>8. StaleInv'
  BY <1>3, <1>5, <1>6 DEF RingInv, StaleInv
<1>9. TsInv'
  <2> SUFFICES ASSUME frame.pc \notin {"wait", "clock"}
               PROVE  frame'.ts <= 0 /\ frame'.ts + q + f < 2 * NodeSpp
    BY <1>3, <1>4 DEF TsInv
  <2>1. frame.ts <= 0 /\ frame.ts + phase + e < 2 * NodeSpp
    BY <1>4 DEF RingInv, TsInv
  <2>2. frame'.ts = IF frame.ts - 1 >= -Behind THEN frame.ts - 1 ELSE -Behind
    BY <1>2, <1>3, LagIs
  <2> QED BY <1>2, <1>4, <2>1, <2>2
<1>10. ASSUME NEW s \in Streams
       PROVE  OfStream(s)'
  <2> DEFINE t == streams[s]
             u == streams'[s]
             c == Credit(ToCopy(s) \/ Copying(s))
             d == Credit(ToSend(s))
             l == Lead(t.spp)
  <2>1. NodeSpp <= t.spp => LevelOf(s) /\ LevelOf(s)'
    BY <1>5, <1>6 DEF RingInv, LevelInv, LevelOf, Before
  <2>2. ASSUME t.init = TRUE
        PROVE  AheadOf(s)'
    <3>1. AheadOf(s)
      BY <2>2 DEF RingInv, AheadInv
    <3>2. /\ t.level \in Nat /\ t.spp \in Nat \ {0} /\ t.ahead \in Int
          /\ l \in Nat /\ l >= 2 * NodeSpp /\ l' = l
      BY <1>2, <1>5 DEF StreamRec, Lead
    <3>3. /\ u.ahead = IF t.ahead - 1 >= -Behind THEN t.ahead - 1 ELSE -Behind
          /\ u.spp = t.spp /\ u.level = t.level
      BY <1>5, <2>2, <3>2, LagIs
    <3>4. c' = c /\ d' = d /\ c \in {0, NodeSpp} /\ d \in {0, NodeSpp}
      BY <1>6 DEF Credit
    <3>5. NodeSpp < t.spp => t.level + c <= t.spp + NodeSpp
      <4>1. Before(t) = t.spp
        BY <2>2 DEF Before
      <4>2. CASE ToCopy(s) \/ Copying(s)
        <5>1. NodeSpp < t.spp => t.level <= t.spp
          BY <1>2, <2>1, <3>2, <4>1, <4>2 DEF LevelOf
        <5> HIDE DEF t, c
        <5> QED BY <1>2, <3>2, <3>4, <5>1
      <4>3. CASE ~(ToCopy(s) \/ Copying(s))
        <5>1. c = 0
          BY <4>3 DEF Credit
        <5>2. NodeSpp < t.spp => t.level <= t.spp + NodeSpp
          BY <1>2, <2>1, <3>2, <4>1 DEF LevelOf
        <5> HIDE DEF t, c
        <5> QED BY <1>2, <3>2, <5>1, <5>2
      <4> QED BY <4>2, <4>3
    <3> HIDE DEF c, d, l
    <3>6. /\ t.ahead - t.spp < l
          /\ t.spp <= NodeSpp => t.ahead + phase + e + d < 3 * NodeSpp
          /\ NodeSpp < t.spp => t.ahead + t.level + phase + e + c < t.spp + l
      BY <1>4, <3>1 DEF AheadOf, c, d, l
    <3>7. PICK x \in Nat, y \in Nat : /\ x = phase + e /\ y = q + f
                                      /\ y <= x + 1 /\ y < 2 * NodeSpp
      <4>1. phase \in Nat /\ NodeSpp \in Nat
        BY <1>2
      <4> QED BY <1>4, <4>1
    <3>8. /\ t.ahead - t.spp < l
          /\ t.spp <= NodeSpp => t.ahead + x + d < 3 * NodeSpp
          /\ NodeSpp < t.spp => t.ahead + t.level + x + c < t.spp + l
      <4>1. phase \in Int /\ e \in Int /\ d \in Int /\ c \in Int
        BY <1>2, <1>4, <3>4
      <4> HIDE DEF t
      <4> QED BY <3>2, <3>6, <3>7, <4>1
    <3>9. /\ d \in Nat /\ c \in Nat /\ d <= NodeSpp
          /\ NodeSpp \in Nat /\ Behind \in Nat /\ NodeSpp <= Behind
      BY <1>2, <3>4
    <3> HIDE DEF t, u
    <3>10. /\ u.ahead - u.spp < l
           /\ u.spp <= NodeSpp => u.ahead + y + d < 3 * NodeSpp
           /\ NodeSpp < u.spp => u.ahead + u.level + y + c < u.spp + l
      <4>1. CASE t.ahead - 1 >= -Behind
        BY <3>2, <3>3, <3>7, <3>8, <3>9, <4>1
      <4>2. CASE ~(t.ahead - 1 >= -Behind)
        BY <3>2, <3>3, <3>5, <3>7, <3>9, <4>2
      <4> QED BY <4>1, <4>2
    <3>11. /\ u.spp <= NodeSpp => u.ahead + q + f + d < 3 * NodeSpp
           /\ NodeSpp < u.spp => u.ahead + u.level + q + f + c < u.spp + l
      <4>1. q \in Int /\ f \in Int /\ d \in Int /\ c \in Int /\ u.ahead \in Int /\ u.level \in Int
        BY <1>4, <3>2, <3>3, <3>4, <3>9
      <4> QED BY <3>7, <3>10, <4>1
    <3> QED BY <1>4, <3>2, <3>4, <3>10, <3>11 DEF AheadOf, c, d, l, t, u
  <2> QED BY <1>5, <2>1, <2>2 DEF OfStream
<1> QED BY <1>7, <1>8, <1>9, <1>10, GatheredAgain

LEMMA RingNextInv == Inv /\ RingInv /\ [Next]_vars => RingInv'
<1> SUFFICES ASSUME Inv, RingInv, [Next]_vars
             PROVE  RingInv'
  OBVIOUS
<1>1. ASSUME NEW s \in Streams, NEW spp \in Spps, AddSource(s, spp)
      PROVE  RingInv'
  <2>1. spp \in Nat \ {0} /\ Sources \in SUBSET Entries
    BY Numbers DEF Entries
  <2>2. Add(Sources, "source", s, spp)
    BY <1>1 DEF AddSource
  <2> QED BY <2>1, <2>2, AddRings
<1>2. ASSUME NEW s \in Streams, AddSink(s)
      PROVE  RingInv'
  <2>1. NodeSpp \in Nat \ {0} /\ Sinks \in SUBSET Entries
    BY Numbers DEF Entries
  <2>2. Add(Sinks, "sink", s, NodeSpp)
    BY <1>2 DEF AddSink
  <2> QED BY <2>1, <2>2, AddRings
<1>3. ASSUME NEW e \in Entries, RemoveSource(e) \/ RemoveSink(e)
      PROVE  RingInv'
  BY <1>3, RemoveRings DEF RemoveSource, RemoveSink
<1>4. CASE Manage
  BY <1>1, <1>2, <1>3, <1>4, AddStoreRings, RemoveEndRings DEF Manage
<1>5. CASE CaptureBlock \/ CaptureShort
  BY <1>5, CapturedRings DEF CaptureBlock, CaptureShort
<1>6. CASE \E i \in Sources : GetSource(i)
  BY <1>6, GetSourceRings
<1>7. CASE UNCHANGED vars
  <2>1. UNCHANGED <<session, engine, streams, manager, frame, sem, phase>>
    BY <1>7 DEF vars
  <2>2. NumInv'
    BY <2>1 DEF RingInv, NumInv
  <2>3. TsInv'
    BY <2>1 DEF RingInv, TsInv, Credit
  <2>4. ASSUME NEW s \in Streams
        PROVE  /\ InEngine(s)' <=> InEngine(s)
               /\ ToCopy(s)' <=> ToCopy(s)
               /\ Copying(s)' <=> Copying(s)
               /\ Later(s)' <=> Later(s)
               /\ ToSend(s)' <=> ToSend(s)
    BY <2>1, SamePlaces DEF Home, Adding
  <2>5. StaleInv'
    BY <2>1, <2>4 DEF RingInv, StaleInv
  <2>6. ASSUME NEW s \in Streams
        PROVE  OfStream(s)'
    BY <2>1, <2>4, StreamRests
  <2> QED BY <2>2, <2>3, <2>5, <2>6, GatheredAgain
<1> QED BY <1>4, <1>5, <1>6, <1>7, TakeRings, GetSourceTimeoutRings, SourceWriteRings,
           TxLoadRings, TxStreamRings, UseFreedRings, CrashRings, ElapseRings DEF Next

(* A tick copies at most one block into a ring and takes a packet out of   *)
(* it, so that neither a ring nor a timestamp runs away from the clock,    *)
(* whichever streams come and go (audio_frame_task).                       *)
THEOREM RingInvariant == Spec => [](Inv /\ RingInv)
<1>1. Init => Inv /\ RingInv
  <2> SUFFICES ASSUME Init
               PROVE  Inv /\ RingInv
    OBVIOUS
  <2>1. NoStreams
    BY DEF Init, NoCall, NoStreams
  <2> QED BY <2>1, EmptyTables, InitRings
<1>2. Inv /\ RingInv /\ [Next]_vars => (Inv /\ RingInv)'
  BY TablesNextInv, RingNextInv
<1> QED BY <1>1, <1>2, PTL DEF Spec

(* What a packet of a source may be shorter than, for its ring to keep up. *)
LongPackets == \A spp \in Spps : NodeSpp <= spp

(* No block is dropped for want of room in a ring, if no source has a      *)
(* packet time shorter than the node's.  A shorter one does overflow: a    *)
(* tick brings a block of the node's packet time, and sends one packet     *)
(* (aes67_rtp_source_write, aes67_rtp_engine_process_tx).                  *)
THEOREM BlocksFit ==
  ASSUME LongPackets
  PROVE  Spec => []EveryBlockFits
<1>1. Inv /\ RingInv => EveryBlockFits
  <2> SUFFICES ASSUME Inv, RingInv, NEW s \in Streams
               PROVE  streams[s].overflow = FALSE
    BY DEF EveryBlockFits
  <2>1. CASE streams[s].kind \in {"source", "sink"}
    <3>1. NodeSpp <= streams[s].spp
      <4>1. streams[s].kind = "sink" => streams[s].spp = NodeSpp
        BY DEF RingInv, NumInv
      <4>2. streams[s].kind = "source" => streams[s].spp \in Spps
        BY DEF RingInv, NumInv
      <4>3. NodeSpp <= NodeSpp
        BY Numbers
      <4> QED BY <2>1, <4>1, <4>2, <4>3, LongPackets DEF LongPackets
    <3> QED BY <3>1 DEF RingInv, LevelInv, LevelOf
  <2>2. CASE streams[s].kind \notin {"source", "sink"}
    <3>1. streams[s] = Freed
      BY <2>2 DEF Inv, TypeInv, IsStream
    <3> QED BY <3>1, FreedIs
  <2> QED BY <2>1, <2>2
<1> QED BY <1>1, RingInvariant, PTL

(* The timestamp of a packet never is further ahead of the clock than two  *)
(* packet times, or three, whatever the packet times are and however often *)
(* the task comes late (s_frame_sem, timestamp_initialized).               *)
THEOREM TimestampsStayClose == Spec => []NotAhead
<1>1. RingInv => NotAhead
  <2> SUFFICES ASSUME RingInv, NEW s \in Streams
               PROVE  streams[s].ahead - streams[s].spp < Lead(streams[s].spp)
    BY DEF NotAhead
  <2>1. CASE streams[s].init = TRUE
    BY <2>1 DEF RingInv, AheadInv, AheadOf
  <2>2. CASE streams[s].init # TRUE
    <3>1. streams[s].spp \in Nat \ {0} /\ streams[s].ahead = 0
      BY <2>2 DEF RingInv, NumInv, StreamRec
    <3> QED BY <3>1, Numbers DEF Lead
  <2> QED BY <2>1, <2>2
<1> QED BY <1>1, RingInvariant, PTL
=============================================================================
