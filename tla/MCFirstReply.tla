---------------------------- MODULE MCFirstReply ----------------------------
(* Small instances of FirstReply for TLC.                                      *)
EXTENDS FirstReply

(* Two rules for the breach, of which the first changes what the second asks   *)
(* about, and one for messages that names a status the account has retired.    *)
MCTrigger == <<"breach", "breach", "message">>
MCWhen    == <<"open", "open", "open">>
MCSet     == <<"waiting", "open", "retired">>
=============================================================================
