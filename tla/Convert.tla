------------------------------- MODULE Convert -------------------------------
(***************************************************************************)
(* Sample formats (aes67_convert.c): native samples of four bytes and the  *)
(* packed samples of a packet's payload, word_length bytes each, the most  *)
(* significant first.  The four bytes of a native sample are written in    *)
(* the same order here, whatever the order in memory, so that a shift      *)
(* drops or appends bytes, and the swap of bytes is the order itself.      *)
(***************************************************************************)
EXTENDS Integers, Sequences

CONSTANT Bytes  \* 0 .. 255, or fewer

ASSUME ConvertAssumption == 0 \in Bytes

Samples == [1 .. 4 -> Bytes]

------------------------------------------------------------------------------
(* The packed bytes of n samples, w bytes of each.                         *)
Packed(src, n, w) ==
  [i \in 1 .. n * w |-> src[(i - 1) \div w + 1][((i - 1) % w) + 1]]

Unpacked(src, n, w) ==
  [i \in 1 .. n |-> [b \in 1 .. 4 |-> IF b <= w THEN src[(i - 1) * w + b] ELSE 0]]

to_l16(src, n)   == Packed(src, n, 2)
from_l16(src, n) == Unpacked(src, n, 2)
to_l24(src, n)   == Packed(src, n, 3)
from_l24(src, n) == Unpacked(src, n, 3)
to_l32(src, n)   == Packed(src, n, 4)
from_l32(src, n) == Unpacked(src, n, 4)

(* AM824: the lowest byte is no audio, and is cleared either way.          *)
Cleared(s) == [s EXCEPT ![4] = 0]

to_am824(src, n)   == Packed([i \in 1 .. n |-> Cleared(src[i])], n, 4)
from_am824(src, n) == [i \in 1 .. n |-> Cleared(Unpacked(src, n, 4)[i])]

(* The formats are told apart by their word length, so that a stream in    *)
(* AM824 is converted as one in L32; any other length is taken for L24.    *)
convert_to_net(src, n, w) ==
  CASE w = 2 -> to_l16(src, n)
    [] w = 4 -> to_l32(src, n)
    [] OTHER -> to_l24(src, n)

convert_from_net(src, n, w) ==
  CASE w = 2 -> from_l16(src, n)
    [] w = 4 -> from_l32(src, n)
    [] OTHER -> from_l24(src, n)

------------------------------------------------------------------------------
Width(w) == IF w \in {2, 4} THEN w ELSE 3

Truncated(s, w) == [b \in 1 .. 4 |-> IF b <= w THEN s[b] ELSE 0]

(* What is played is what was captured, but for the low bytes that the     *)
(* format has no room for (aes67_convert_to_net, aes67_convert_from_net).  *)
AudioSurvives(src, n, w) ==
  convert_from_net(convert_to_net(src, n, w), n, w) = [i \in 1 .. n |-> Truncated(src[i], Width(w))]

(* A payload that is received and sent again is not changed by a bit.      *)
PayloadSurvives(payload, n, w) ==
  convert_to_net(convert_from_net(payload, n, w), n, w) = payload

(* Of AM824 the audio survives.                                            *)
Am824Survives(src, n) ==
  from_am824(to_am824(src, n), n) = [i \in 1 .. n |-> Cleared(src[i])]
=============================================================================
