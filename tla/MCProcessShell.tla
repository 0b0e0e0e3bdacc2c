--------------------------- MODULE MCProcessShell ---------------------------
(***************************************************************************)
(* Small instances of ProcessShell: sequences cannot be written in a .cfg. *)
(***************************************************************************)
EXTENDS ProcessShell

OneChannel == <<"#a">>
TwoChannels == <<"#a", "#b">>
OneDelay == <<1>>
=============================================================================
