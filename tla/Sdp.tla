--------------------------------- MODULE Sdp ---------------------------------
(***************************************************************************)
(* The descriptions of streams (aes67_sdp.c): what aes67_sdp_generate      *)
(* writes for a source of one node, aes67_sdp_parse reads for a sink of    *)
(* another.  A text is a sequence of lines, each a record of the values it *)
(* holds; only the packet time, whose text is a number of milliseconds     *)
(* with a fraction, is looked at digit by digit.                           *)
(***************************************************************************)
EXTENDS Integers, SequencesExt

------------------------------------------------------------------------------
(* The digits of a fraction of three, without the zeros at its end.        *)
Stripped(n) ==
  LET digits == <<n \div 100, (n \div 10) % 10, n % 10>> IN
  IF digits[3] # 0 THEN digits
  ELSE IF digits[2] # 0 THEN <<digits[1], digits[2]>>
  ELSE IF digits[1] # 0 THEN <<digits[1]>>
  ELSE <<>>

(* The text of a=ptime: "0." for 0, and no point for whole milliseconds,   *)
(* which reads as if no digits followed it.                                *)
PtimeText(us) == [ms |-> us \div 1000, frac |-> Stripped(us % 1000)]

(* parse_ptime_us: up to three digits, as if zeros followed.               *)
Digit(f, i) == IF i <= Len(f) THEN f[i] ELSE 0

Thousandths(f) == Digit(f, 1) * 100 + Digit(f, 2) * 10 + Digit(f, 3)

parse_ptime_us(t) == (t.ms * 1000 + Thousandths(t.frac)) % 65536

------------------------------------------------------------------------------
(* aes67_codec_word_length *)
WordLength(codec) ==
  CASE codec = "L16" -> 2 [] codec = "L24" -> 3 [] OTHER -> 4

(* What the memset leaves; 0 is AES67_CODEC_L16. *)
Blank ==
  [origin |-> <<>>, session_name |-> "", connection_ip |-> 0, ttl |-> 0, port |-> 0,
   payload_type |-> 0, codec |-> "L16", sample_rate |-> 0, channels |-> 0, word_length |-> 0,
   ptime_us |-> 0, has_ptp_refclk |-> FALSE, ptp_traceable |-> FALSE, gm |-> 0, domain |-> 0,
   has_mediaclk |-> FALSE, mediaclk_offset |-> 0]

(* aes67_sdp_generate; a traceable clock is not named.                     *)
RefClock(s) ==
  IF ~s.has_ptp_refclk THEN <<>>
  ELSE IF s.ptp_traceable THEN <<[tag |-> "ts-refclk", named |-> FALSE]>>
  ELSE <<[tag |-> "ts-refclk", named |-> TRUE, gm |-> s.gm, domain |-> s.domain]>>

MediaClock(s) ==
  IF s.has_mediaclk THEN <<[tag |-> "mediaclk", offset |-> s.mediaclk_offset]>> ELSE <<>>

Generated(s) ==
  << [tag |-> "o", origin |-> s.origin],
     [tag |-> "s", name |-> s.session_name],
     [tag |-> "c", ip |-> s.connection_ip, ttl |-> s.ttl],
     [tag |-> "m", port |-> s.port, pt |-> s.payload_type],
     [tag |-> "rtpmap", pt |-> s.payload_type, codec |-> s.codec,
                        rate |-> s.sample_rate, channels |-> s.channels],
     [tag |-> "ptime", text |-> PtimeText(s.ptime_us)] >>
  \o RefClock(s) \o MediaClock(s) \o << [tag |-> "clock-domain", domain |-> s.domain] >>

(* parse_ts_refclk: "traceable" is taken for the identity of a clock,      *)
(* which it is too short for, and the domain is looked for in what follows *)
(* it, where nothing but 0 is.                                             *)
parse_ts_refclk(s, l) ==
  IF l.named
  THEN [s EXCEPT !.has_ptp_refclk = TRUE, !.gm = l.gm, !.domain = l.domain]
  ELSE [s EXCEPT !.domain = 0]

(* The other lines: parse_origin, parse_connection, parse_media,           *)
(* parse_rtpmap, parse_mediaclk; those that are not known are skipped, and *)
(* so is a codec that is not known.                                        *)
ParseLine(s, l) ==
  CASE l.tag = "o" -> [s EXCEPT !.origin = l.origin]
    [] l.tag = "s" -> [s EXCEPT !.session_name = l.name]
    [] l.tag = "c" -> [s EXCEPT !.connection_ip = l.ip, !.ttl = l.ttl]
    [] l.tag = "m" -> [s EXCEPT !.port = l.port, !.payload_type = l.pt]
    [] l.tag = "rtpmap" ->
         [s EXCEPT !.payload_type = l.pt, !.sample_rate = l.rate, !.channels = l.channels,
                   !.codec = IF l.codec \in {"L16", "L24", "L32", "AM824"} THEN l.codec ELSE @,
                   !.word_length = IF l.codec \in {"L16", "L24", "L32", "AM824"}
                                   THEN WordLength(l.codec) ELSE @]
    [] l.tag = "ptime" -> [s EXCEPT !.ptime_us = parse_ptime_us(l.text)]
    [] l.tag = "ts-refclk" -> parse_ts_refclk(s, l)
    [] l.tag = "mediaclk" -> [s EXCEPT !.has_mediaclk = TRUE, !.mediaclk_offset = l.offset]
    [] OTHER -> s

(* aes67_sdp_parse; [ok |-> FALSE] without a port or a sample rate.        *)
Parsed(lines) ==
  LET s == FoldLeft(ParseLine, Blank, lines) IN
  IF s.port = 0 \/ s.sample_rate = 0 THEN [ok |-> FALSE]
  ELSE [ok |-> TRUE,
        sdp |-> [s EXCEPT !.word_length = IF @ = 0 THEN WordLength(s.codec) ELSE @]]

------------------------------------------------------------------------------
(* aes67_session_add_source: how it describes a stream; the clock is       *)
(* always traceable.                                                       *)
SourceSdp(name, origin, domain, c) ==
  [Blank EXCEPT
     !.origin = origin, !.session_name = name, !.connection_ip = c.dest_ip, !.ttl = c.ttl,
     !.port = c.dest_port, !.payload_type = c.payload_type, !.codec = c.codec,
     !.sample_rate = c.sample_rate, !.channels = c.channels, !.word_length = c.word_length,
     !.ptime_us = c.packet_time_us, !.has_ptp_refclk = TRUE, !.ptp_traceable = TRUE,
     !.domain = domain, !.has_mediaclk = TRUE]

(* aes67_session_add_sink: the stream that it makes of a description; the  *)
(* time to live is this node's own.                                        *)
SinkConfig(s, ttl) ==
  [dest_ip |-> s.connection_ip, dest_port |-> s.port, payload_type |-> s.payload_type,
   sample_rate |-> s.sample_rate, channels |-> s.channels, word_length |-> s.word_length,
   codec |-> s.codec, packet_time_us |-> s.ptime_us, ttl |-> ttl]

Subscribed(lines, ttl) == SinkConfig(Parsed(lines).sdp, ttl)

------------------------------------------------------------------------------
(* Every packet time survives its text, the zeros that are stripped and    *)
(* the rounding of 16 bits (aes67_sdp_generate, parse_ptime_us).           *)
PtimeSurvives(us) == parse_ptime_us(PtimeText(us)) = us

(* A sink made of what a source announced receives the same stream, in     *)
(* whatever order the lines come (aes67_session_add_source,                *)
(* aes67_session_add_sink).                                                *)
SinkMatchesSource(name, origin, domain, c) ==
  LET lines == Generated(SourceSdp(name, origin, domain, c)) IN
  /\ Parsed(lines).ok
  /\ Subscribed(lines, c.ttl) = c
  /\ Subscribed(Reverse(lines), c.ttl) = c

(* No text holds the identity of a grandmaster, which would be out of date *)
(* when another one takes over; nor does a sink learn that its source has  *)
(* a reference clock (parse_ts_refclk).                                    *)
NamesNoClock(name, origin, domain, c) ==
  LET lines == Generated(SourceSdp(name, origin, domain, c)) IN
  /\ \A i \in DOMAIN lines : lines[i].tag = "ts-refclk" => ~lines[i].named
  /\ ~Parsed(lines).sdp.has_ptp_refclk
=============================================================================
