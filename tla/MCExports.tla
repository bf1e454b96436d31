------------------------------ MODULE MCExports -----------------------------
(* A small instance of Exports for TLC.                                        *)
EXTENDS Exports
=============================================================================
