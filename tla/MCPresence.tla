----------------------------- MODULE MCPresence -----------------------------
(* Small instances of Presence for TLC.                                        *)
EXTENDS Presence
=============================================================================
