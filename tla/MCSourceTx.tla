----------------------------- MODULE MCSourceTx -----------------------------
(* SourceTx with two sources and a sink.  A source's packets take as long  *)
(* as the node's own, or twice as long; the packet time of the node is the *)
(* unit of time.  Rings hold two packets instead of six: what never fills  *)
(* them does not fill larger ones.                                         *)
EXTENDS SourceTx
=============================================================================
