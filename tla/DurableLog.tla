------------------------------ MODULE DurableLog ------------------------------
(***************************************************************************)
(* What persistence promises, with no thread, lock or queue: events are    *)
(* submitted one after the other, an event enters the durable log only in  *)
(* the order of submission, each submission is answered once, answers come *)
(* in order, and an answer of success needs the event in the log and no    *)
(* failure before it.                                                      *)
(***************************************************************************)
EXTENDS Naturals, Sequences

CONSTANT MaxEvents      \* bound: submissions of one behaviour

VARIABLES
    verdict,            \* the answer to each submission so far
    log                 \* the events of the durable log

logVars == <<verdict, log>>

Submitted == 1..Len(verdict)

\* Nothing before e still waits for its answer.
InTurn(e) == \A d \in 1..(e - 1) : verdict[d] # "waiting"

Init ==
    /\ verdict = <<>>
    /\ log = <<>>

Submit ==
    /\ Len(verdict) < MaxEvents
    /\ verdict' = Append(verdict, "waiting")
    /\ UNCHANGED log

\* Only after a failure may a submission be turned down at once.
Refuse ==
    /\ Len(verdict) < MaxEvents
    /\ \E e \in Submitted : verdict[e] = "failed"
    /\ verdict' = Append(verdict, "failed")
    /\ UNCHANGED log

Persist ==
    /\ Len(log) + 1 \in Submitted
    /\ verdict[Len(log) + 1] = "waiting"
    /\ \A d \in 1..Len(log) : verdict[d] = "succeeded"
    /\ log' = Append(log, Len(log) + 1)
    /\ UNCHANGED verdict

Acknowledge(e) ==
    /\ verdict[e] = "waiting"
    /\ e = Len(log)
    /\ \A d \in 1..(e - 1) : verdict[d] = "succeeded"
    /\ verdict' = [verdict EXCEPT ![e] = "succeeded"]
    /\ UNCHANGED log

Fail(e) ==
    /\ verdict[e] = "waiting"
    /\ InTurn(e)
    /\ verdict' = [verdict EXCEPT ![e] = "failed"]
    /\ UNCHANGED log

Answer == \E e \in Submitted : Acknowledge(e) \/ Fail(e)

Next == Submit \/ Refuse \/ Persist \/ Answer

Spec == Init /\ [][Next]_logVars

FairSpec == Spec /\ WF_logVars(Persist \/ Answer)
=============================================================================
