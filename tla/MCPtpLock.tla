------------------------------ MODULE MCPtpLock ------------------------------
(* PtpLock with the code's own intervals, one foreign grandmaster and room *)
(* for the monitor task of a previous start.  A daemon that answers does   *)
(* so within half a second.                                                *)
EXTENDS PtpLock
==============================================================================
