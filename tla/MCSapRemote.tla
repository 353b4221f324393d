----------------------------- MODULE MCSapRemote -----------------------------
(* Discovery with two nodes, one of which announces two sources, and a     *)
(* table with room for two of the three.  Both nodes use message id 1.     *)
(* The unit of time is two and a half seconds: the select() of two units   *)
(* and the timeout of four are those of the code, the announcement         *)
(* interval of two seconds is rounded up.                                  *)
EXTENDS Discovery

CONSTANTS n1, n2

MCKeys == {[ip |-> n1, id |-> 1], [ip |-> n1, id |-> 2], [ip |-> n2, id |-> 1]}
=============================================================================
