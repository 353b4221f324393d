------------------------------- MODULE MCRtpRx -------------------------------
(* RtpRx with two slots, two groups and three senders: one in each group   *)
(* with the payload type the sinks expect, and a stray one with another.   *)
(* The conversions of samples that a sink and a source make, on bytes of   *)
(* two values, up to two samples, and word lengths that are not supported. *)
EXTENDS RtpRx, Convert

ASSUME \A n \in 0 .. 2, w \in 0 .. 5 :
         /\ \A src \in [1 .. n -> Samples] : AudioSurvives(src, n, w) /\ Am824Survives(src, n)
         /\ \A payload \in [1 .. n * Width(w) -> Bytes] : PayloadSurvives(payload, n, w)

First  == [ssrc |-> 1, group |-> "g", pt |-> 98]
Second == [ssrc |-> 2, group |-> "h", pt |-> 98]
Stray  == [ssrc |-> 3, group |-> "g", pt |-> 97]

MCSenders == {First, Second, Stray}
MCMaxSend == [s \in MCSenders |-> IF s = First THEN 3 ELSE IF s = Second THEN 2 ELSE 1]

AddressSenders == {First, Second}
AddressMaxSend == [s \in AddressSenders |-> 2]
=============================================================================
