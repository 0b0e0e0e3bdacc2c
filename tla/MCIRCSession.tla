---------------------------- MODULE MCIRCSession ----------------------------
(***************************************************************************)
(* Small instances of IRCSession: sequences cannot be written in a .cfg.   *)
(***************************************************************************)
EXTENDS IRCSession

OneChannel == <<"#a">>
TwoChannels == <<"#a", "#b">>
TwoDelays == <<1, 2>>
=============================================================================
