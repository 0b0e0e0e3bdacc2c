------------------------------- MODULE MCHunt -------------------------------
(***************************************************************************)
(* Small instances of Hunt: the first process finds no plan at all, or one *)
(* of an earlier policy, too short for this one.                           *)
(***************************************************************************)
EXTENDS Hunt

NewOrLegacy ==
    {NoPlan, [start |-> 0, deadlines |-> {1}, consumed |-> {}]}
=============================================================================
