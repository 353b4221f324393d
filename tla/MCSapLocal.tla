----------------------------- MODULE MCSapLocal -----------------------------
(* SapLocal with two slots and four sources, two of which have colliding   *)
(* message ids: entries are updated, refused, removed, reused and shared.  *)
(* The descriptions that are announced: every packet time, and streams of  *)
(* every format with the packet times of AES67 and with odd ones.          *)
EXTENDS SapLocal, Sdp

CONSTANTS a, b, c, d

Streams ==
  [dest_ip : {1}, dest_port : {5004}, payload_type : {98}, sample_rate : {44100, 48000, 96000},
   channels : {1, 2, 8}, word_length : {2, 3, 4}, codec : {"L16", "L24", "L32", "AM824"},
   packet_time_us : {125, 250, 333, 1000, 1500, 4000}, ttl : {15}]

ASSUME \A us \in 0 .. 65535 : PtimeSurvives(us)

ASSUME \A s \in {t \in Streams : t.word_length = WordLength(t.codec)} :
         /\ SinkMatchesSource("s", <<1, 1>>, 0, s)
         /\ NamesNoClock("s", <<1, 1>>, 0, s)

MCIdOf == (a :> 1) @@ (b :> 2) @@ (c :> 3) @@ (d :> 3)
=============================================================================
