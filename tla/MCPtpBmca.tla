----------------------------- MODULE MCPtpBmca -----------------------------
(* Three nodes that run the same firmware, of which the one with the       *)
(* largest identity has the clock that is looked at, and two that were     *)
(* given different priorities.  The fields are priority1, the clock        *)
(* quality and the identity, which the MAC address determines.  The other  *)
(* two have the same time, so that their answers can be mistaken.          *)
EXTENDS PtpClient, TLC

CONSTANTS a, b, c

Clock(priority1, id) == <<priority1, 248, id>>

SameFirmware    == (a :> Clock(128, 1)) @@ (b :> Clock(128, 2)) @@ (c :> Clock(128, 3))
GivenPriorities == (a :> Clock(128, 1)) @@ (b :> Clock(100, 2))
OneScale        == [n \in Nodes |-> "tai"]
==============================================================================
