----------------------------- MODULE CrashSafeLog -----------------------------
(***************************************************************************)
(* What the files promise across crashes, with no file in sight: events    *)
(* are written to the end of a log, now and then everything written is     *)
(* promised, and a crash may lose what was written behind the promise,     *)
(* never a part of it, and never a hole.                                   *)
(***************************************************************************)
EXTENDS Naturals, Sequences

CONSTANT Event

VARIABLES log, promised

logVars == <<log, promised>>

Init ==
    /\ log \in Seq(Event)
    /\ promised = log

Write ==
    /\ \E e \in Event : log' = Append(log, e)
    /\ UNCHANGED promised

Promise ==
    /\ promised' = log
    /\ UNCHANGED log

Lose ==
    /\ \E n \in Len(promised)..Len(log) : log' = SubSeq(log, 1, n)
    /\ UNCHANGED promised

Next == Write \/ Promise \/ Lose

Spec == Init /\ [][Next]_logVars
=============================================================================
