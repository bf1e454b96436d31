------------------------------ MODULE MCIntake ------------------------------
(* A small instance of Intake for TLC: a mail, a reply to it, and a delivery   *)
(* on an API channel.                                                          *)
EXTENDS Intake

CONSTANTS mail, api, i1, i2, i3

MCChannelOf == [m \in Copies |-> IF m = 3 THEN api ELSE mail]
MCIdOf      == [m \in Copies |-> IF m = 1 THEN i1 ELSE IF m = 2 THEN i2 ELSE i3]
MCAnswersTo == [m \in Copies |-> IF m = 2 THEN i1 ELSE NoId]
=============================================================================
