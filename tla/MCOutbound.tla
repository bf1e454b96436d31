----------------------------- MODULE MCOutbound -----------------------------
(* A small instance of Outbound for TLC.                                       *)
EXTENDS Outbound
=============================================================================
