----------------------- MODULE PersistenceWorkerProofs -----------------------
(***************************************************************************)
(* The inductive invariant of the persistence worker, and the theorems     *)
(* that follow from it for every capacity, snapshot interval, recovered    *)
(* journal and number of commits.                                          *)
(***************************************************************************)
EXTENDS PersistenceWorker, TLAPS

Log == INSTANCE DurableLog WITH verdict <- ticket, log <- journal

\* Permits are conserved; pending counts the queued writes and the one in hand.
Counting ==
    /\ slots + openReservations + pending = Capacity + InHand(Released)
    /\ pending = Writes + InHand(Counted)

\* The queue holds the commits behind current in order, and Stop only last.
QueueShape ==
    /\ \A i \in 1..Writes : requests[i] = current + i
    /\ current + Writes <= Len(ticket)
    /\ HasStop => state \in {"CLOSING", "FAILED"}

\* Behind the queue there are only commits that met a latched failure.
TicketShape ==
    \A e \in 1..Len(ticket) :
        /\ e < current => ticket[e] # "waiting"
        /\ e = current => (ticket[e] = "waiting" <=> thread \in Unsettled)
        /\ e > current /\ e <= current + Writes => ticket[e] = "waiting"
        /\ e > current + Writes => ticket[e] = "failed" /\ state = "FAILED"

\* Successes lie within what the thread has written, failures from the last
\* journal record on.
JournalShape ==
    /\ \A i \in 1..Len(journal) : journal[i] = i
    /\ written <= Len(journal)
    /\ \A e \in 1..Len(ticket) :
           /\ ticket[e] = "succeeded" => e <= written
           /\ ticket[e] = "failed" => e >= Len(journal)

\* Where the thread is fixes how far it has written.
ThreadShape ==
    /\ thread \in {"unborn", "get", "stop", "snapshot", "publish",
                   "succeedTicket", "release", "decrement"} =>
           written = current /\ Len(journal) = current
    /\ thread = "append" => written + 1 = current /\ Len(journal) = written
    /\ thread \in Failing => written <= current /\ Len(journal) <= current
    /\ thread = "dead" => Len(journal) <= Len(ticket)
    /\ thread \in Counted \cup {"latch"} => current \in 1..Len(ticket)
    /\ thread \in {"failRelease", "failDecrement", "latch"} =>
           ticket[current] = "failed"
    /\ (\E e \in 1..Len(ticket) : ticket[e] = "failed") =>
           \/ thread \in Failing \ {"failTicket"}
           \/ thread = "dead" /\ state = "FAILED"

BeforeLatch == {"failTicket", "failRelease", "failDecrement", "latch"}

\* The worker state against the position of the thread and the stop marker.
StateShape ==
    /\ state = "NEW" => thread = "unborn"
    /\ thread = "unborn" =>
           state \in {"NEW", "CLOSED"} /\ openReservations = 0 /\ ticket = <<>>
    /\ state = "RUNNING" => thread \notin {"unborn", "stop", "dead"}
    /\ state = "CLOSING" =>
           openReservations = 0 /\ (HasStop <=> thread # "stop")
    /\ state = "CLOSED" => thread \in {"unborn", "dead"}
    /\ state = "FAILED" => thread \in (Failing \ BeforeLatch) \cup {"dead"}
    /\ thread \in Failing \ BeforeLatch => state = "FAILED"
    /\ thread = "stop" => state = "CLOSING"
    /\ thread = "dead" => state \in {"CLOSED", "FAILED"}
    /\ thread \in {"stop", "dead", "unborn"} => requests = <<>>
    /\ state = "FAILED" /\ openReservations > 0 =>
           \E e \in 1..Len(ticket) : ticket[e] = "failed"

SnapshotShape ==
    /\ lastSnapshot <= Recovered + written
    /\ snapshotFile <= Recovered + Len(journal)
    /\ published <= Recovered + written
    /\ thread \notin Failing \cup {"dead"} /\ lastSnapshot # Recovered =>
           snapshotFile = lastSnapshot

ClosedShape ==
    state = "CLOSED" =>
        /\ \A e \in 1..Len(ticket) : ticket[e] = "succeeded"
        /\ Len(journal) = Len(ticket) /\ written = Len(ticket)
        /\ SnapshotOnClose /\ written > 0 => snapshotFile = Recovered + written

LogSpec == Log!Spec

IInv ==
    /\ TypeOK
    /\ Counting
    /\ QueueShape
    /\ TicketShape
    /\ JournalShape
    /\ ThreadShape
    /\ StateShape
    /\ SnapshotShape
    /\ ClosedShape

-----------------------------------------------------------------------------
(* The request queue. *)

USE WorkerConstants

\* What Append does to a sequence, as facts the SMT solver can use.
LEMMA AppendFacts ==
    ASSUME NEW S, NEW q \in Seq(S), NEW x \in S
    PROVE  /\ Append(q, x) \in Seq(S)
           /\ Len(Append(q, x)) = Len(q) + 1
           /\ \A i \in 1..Len(q) : Append(q, x)[i] = q[i]
           /\ Append(q, x)[Len(q) + 1] = x
  OBVIOUS

\* What Tail does to a sequence.
LEMMA TailFacts ==
    ASSUME NEW S, NEW q \in Seq(S), q # <<>>
    PROVE  /\ Tail(q) \in Seq(S)
           /\ Len(q) >= 1
           /\ Len(Tail(q)) = Len(q) - 1
           /\ \A i \in 1..(Len(q) - 1) : Tail(q)[i] = q[i + 1]
           /\ Head(q) = q[1]
           /\ Head(q) \in S
  OBVIOUS

\* Settling a ticket keeps the tickets a sequence of the same length.
LEMMA ExceptFacts ==
    ASSUME NEW S, NEW q \in Seq(S), NEW x \in S, NEW k \in 1..Len(q)
    PROVE  /\ [q EXCEPT ![k] = x] \in Seq(S)
           /\ Len([q EXCEPT ![k] = x]) = Len(q)
  OBVIOUS

\* A step that leaves the queue alone leaves what is derived from it.
LEMMA SameQueue ==
    ASSUME UNCHANGED requests
    PROVE  Writes' = Writes /\ HasStop' = HasStop
  BY DEF Writes, HasStop

\* The number of queued writes is a natural number.
LEMMA WritesNat == TypeOK => Writes \in Nat /\ Writes <= Len(requests)
  BY DEF TypeOK, Writes, HasStop

\* Queueing an event behind events: the stop marker is still absent.
LEMMA QueueEvent ==
    ASSUME TypeOK, ~HasStop, NEW e \in Event,
           requests' = Append(requests, e)
    PROVE  /\ ~HasStop'
           /\ Writes' = Writes + 1
           /\ \A i \in 1..Writes : requests'[i] = requests[i]
           /\ requests'[Writes + 1] = e
           /\ requests' \in Seq(Event \cup {Stop})
<1>1. e # Stop
  BY DEF Event, Stop
<1> QED
  BY <1>1, AppendFacts DEF TypeOK, HasStop, Writes

\* Queueing the stop marker leaves the writes before it.
LEMMA QueueStop ==
    ASSUME TypeOK, ~HasStop, requests' = Append(requests, Stop)
    PROVE  /\ HasStop'
           /\ Writes' = Writes
           /\ \A i \in 1..Writes : requests'[i] = requests[i]
           /\ requests' \in Seq(Event \cup {Stop})
  BY AppendFacts DEF TypeOK, HasStop, Writes

\* Taking the stop marker empties the queue: nothing is ever queued behind it.
LEMMA TakeStop ==
    ASSUME TypeOK, QueueShape, requests # <<>>, Head(requests) = Stop,
           requests' = Tail(requests)
    PROVE  /\ HasStop
           /\ Writes = 0
           /\ requests' = <<>>
           /\ ~HasStop'
           /\ Writes' = 0
<1>1. requests[1] = Stop /\ Len(requests) >= 1
  BY TailFacts DEF TypeOK
<1>2. Writes = 0
  <2>1. SUFFICES ASSUME Writes # 0 PROVE FALSE
    OBVIOUS
  <2>2. 1 \in 1..Writes
    BY <2>1, WritesNat
  <2>3. requests[1] = current + 1
    BY <2>2 DEF QueueShape
  <2> QED
    BY <2>3, <1>1 DEF TypeOK, Event, Stop
<1>3. HasStop /\ Len(requests) = 1
  BY <1>1, <1>2 DEF Writes, HasStop, TypeOK
<1>4. requests' = <<>>
  BY <1>3 DEF TypeOK
<1> QED
  BY <1>2, <1>3, <1>4 DEF Writes, HasStop

\* Taking an event shifts the queue by one.
LEMMA TakeEvent ==
    ASSUME TypeOK, QueueShape, requests # <<>>, Head(requests) # Stop,
           requests' = Tail(requests)
    PROVE  /\ HasStop' = HasStop
           /\ Writes' = Writes - 1
           /\ Writes >= 1
           /\ Head(requests) = current + 1
           /\ Head(requests) \in Event
           /\ \A i \in 1..(Writes - 1) : requests'[i] = requests[i + 1]
           /\ requests' \in Seq(Event \cup {Stop})
<1>1. /\ requests' \in Seq(Event \cup {Stop})
      /\ Len(requests) >= 1
      /\ Len(requests') = Len(requests) - 1
      /\ \A i \in 1..(Len(requests) - 1) : requests'[i] = requests[i + 1]
      /\ Head(requests) = requests[1]
      /\ Head(requests) \in Event \cup {Stop}
  BY TailFacts DEF TypeOK
<1>2. HasStop => Len(requests) >= 2
  BY <1>1 DEF HasStop
<1>3. HasStop' = HasStop
  BY <1>1, <1>2 DEF HasStop
<1>4. Writes' = Writes - 1 /\ Writes >= 1
  BY <1>1, <1>2, <1>3 DEF Writes
<1>5. requests[1] = current + 1
  BY <1>4 DEF QueueShape
<1>6. Writes <= Len(requests)
  BY WritesNat
<1> QED
  BY <1>1, <1>3, <1>4, <1>5, <1>6, WritesNat

-----------------------------------------------------------------------------
(* The steps of the owner preserve the invariant. *)

\* start: only the state and the thread position change.
LEMMA StartStep == IInv /\ Start => IInv'
<1> SUFFICES ASSUME IInv, Start PROVE IInv'
  OBVIOUS
<1> USE DEF IInv, TypeOK, Start, countVars, diskVars, memoryVars, ownerVars,
            Run
<1>0. Writes' = Writes /\ HasStop' = HasStop /\ Writes \in Nat
  BY SameQueue, WritesNat
<1>1. TypeOK'
  BY DEF ThreadPoints
<1>2. Counting'
  BY <1>0 DEF Counting, InHand, Counted, Released, StateShape
<1>3. QueueShape'
  BY <1>0 DEF QueueShape
<1>4. TicketShape'
  BY DEF TicketShape, StateShape
<1>5. JournalShape'
  BY DEF JournalShape
<1>6. ThreadShape'
  BY DEF ThreadShape, StateShape, Counted
<1>7. StateShape'
  BY DEF StateShape, Failing
<1>8. SnapshotShape'
  BY DEF StateShape, SnapshotShape, Failing
<1>9. ClosedShape'
  BY DEF ClosedShape
<1> QED
  BY <1>1, <1>2, <1>3, <1>4, <1>5, <1>6, <1>7, <1>8, <1>9

\* reserve moves one permit into an open reservation.
LEMMA ReserveStep == IInv /\ Reserve => IInv'
<1> SUFFICES ASSUME IInv, Reserve PROVE IInv'
  OBVIOUS
<1> USE DEF IInv, TypeOK, Reserve, countVars, diskVars, memoryVars, ownerVars,
            Run
<1>0. Writes' = Writes /\ HasStop' = HasStop /\ Writes \in Nat
  BY SameQueue, WritesNat
<1>1. TypeOK'
  OBVIOUS
<1>2. Counting'
  BY <1>0 DEF Counting, InHand
<1>3. QueueShape'
  BY <1>0 DEF QueueShape
<1>4. TicketShape'
  BY <1>0 DEF TicketShape
<1>5. JournalShape'
  BY DEF JournalShape
<1>6. ThreadShape'
  BY DEF ThreadShape
<1>7. StateShape'
  BY DEF StateShape
<1>8. SnapshotShape'
  BY DEF SnapshotShape
<1>9. ClosedShape'
  BY DEF ClosedShape
<1> QED
  BY <1>2, <1>3, <1>4, <1>5, <1>6, <1>7, <1>8, <1>9

\* cancel moves it back.
LEMMA CancelStep == IInv /\ Cancel => IInv'
<1> SUFFICES ASSUME IInv, Cancel PROVE IInv'
  OBVIOUS
<1> USE DEF IInv, TypeOK, Cancel, countVars, diskVars, memoryVars, ownerVars,
            Run
<1>0. Writes' = Writes /\ HasStop' = HasStop /\ Writes \in Nat
  BY SameQueue, WritesNat
<1>1. TypeOK'
  OBVIOUS
<1>2. Counting'
  BY <1>0 DEF Counting, InHand
<1>3. QueueShape'
  BY <1>0 DEF QueueShape
<1>4. TicketShape'
  BY <1>0 DEF TicketShape
<1>5. JournalShape'
  BY DEF JournalShape
<1>6. ThreadShape'
  BY DEF ThreadShape
<1>7. StateShape'
  BY DEF StateShape
<1>8. SnapshotShape'
  BY DEF SnapshotShape
<1>9. ClosedShape'
  BY DEF ClosedShape
<1> QED
  BY <1>2, <1>3, <1>4, <1>5, <1>6, <1>7, <1>8, <1>9

\* The blocking calls change only what the owner waits for and its answer.
LEMMA WaitStep == IInv /\ (FlushCall \/ FlushReturn \/ CloseReturn) => IInv'
<1> SUFFICES ASSUME IInv, (FlushCall \/ FlushReturn \/ CloseReturn) PROVE IInv'
  OBVIOUS
<1> USE DEF IInv, TypeOK, FlushCall, FlushReturn, CloseReturn, countVars,
            diskVars, memoryVars, ownerVars, Run
<1>0. Writes' = Writes /\ HasStop' = HasStop /\ Writes \in Nat
  BY SameQueue, WritesNat
<1>1. TypeOK'
  BY DEF Event, LastSequence, Counting, InHand, Released
<1>2. Counting'
  BY <1>0 DEF Counting, InHand
<1>3. QueueShape'
  BY <1>0 DEF QueueShape
<1>4. TicketShape'
  BY <1>0 DEF TicketShape
<1>5. JournalShape'
  BY DEF JournalShape
<1>6. ThreadShape'
  BY DEF ThreadShape
<1>7. StateShape'
  BY <1>0 DEF StateShape
<1>8. SnapshotShape'
  BY DEF SnapshotShape
<1>9. ClosedShape'
  BY DEF ClosedShape
<1> QED
  BY <1>2, <1>3, <1>4, <1>5, <1>6, <1>7, <1>8, <1>9

\* A commit meets a running worker, whose queue ends with the last ticket, or a
\* latched failure.
LEMMA CommitStep == IInv /\ Commit => IInv'
<1> SUFFICES ASSUME IInv, Commit PROVE IInv'
  OBVIOUS
<1> USE DEF IInv, Commit, diskVars, memoryVars
<1>0. /\ TypeOK /\ Writes \in Nat /\ Writes <= Len(requests)
      /\ Len(ticket) \in Nat /\ current \in Nat
  BY WritesNat DEF TypeOK, Event
<1>1. CASE state = "RUNNING"
  <2>1. ~HasStop
    BY <1>1 DEF QueueShape
  <2>2. Len(ticket) = current + Writes
    <3>1. SUFFICES ASSUME Len(ticket) > current + Writes PROVE FALSE
      BY <1>0 DEF QueueShape
    <3> QED
      BY <3>1, <1>0, <1>1 DEF TicketShape
  <2> DEFINE e == Len(ticket) + 1
  <2>3. /\ e \in Event
        /\ requests' = Append(requests, e)
        /\ ticket' = Append(ticket, "waiting")
        /\ state' = "RUNNING"
        /\ pending' = pending + 1
        /\ slots' = slots
    BY <1>0, <1>1 DEF Event
  <2> HIDE DEF e
  <2>4. /\ ~HasStop'
        /\ Writes' = Writes + 1
        /\ \A i \in 1..Writes : requests'[i] = requests[i]
        /\ requests'[Writes + 1] = e
        /\ requests' \in Seq(Event \cup {Stop})
    BY <1>0, <2>1, <2>3, QueueEvent
  <2>5. /\ ticket' \in Seq({"waiting", "succeeded", "failed"})
        /\ Len(ticket') = e
        /\ \A i \in 1..Len(ticket) : ticket'[i] = ticket[i]
        /\ ticket'[e] = "waiting"
        /\ e = Len(ticket) + 1
    BY <2>3, AppendFacts DEF TypeOK, e
  <2>6. TypeOK'
    BY <2>3, <2>4, <2>5 DEF TypeOK, Event
  <2>7. Counting'
    BY <1>0, <2>3, <2>4 DEF Counting, TypeOK, InHand
  <2>8. QueueShape'
    BY <1>0, <2>2, <2>3, <2>4, <2>5 DEF QueueShape
  <2>9. TicketShape'
    BY <1>0, <2>2, <2>3, <2>4, <2>5 DEF TicketShape
  <2>10. JournalShape'
    <3>1. UNCHANGED <<journal, written>>
      OBVIOUS
    <3>2. \A d \in 1..Len(ticket') :
              ticket'[d] # "waiting" =>
                  d \in 1..Len(ticket) /\ ticket'[d] = ticket[d]
      BY <1>0, <2>5
    <3> QED
      BY <3>1, <3>2 DEF JournalShape
  <2>11. ThreadShape'
    BY <1>0, <1>1, <2>3, <2>5 DEF ThreadShape, TypeOK, Counted
  <2>12. StateShape'
    BY <1>0, <1>1, <2>3, <2>4, <2>5 DEF StateShape, TypeOK
  <2>13. SnapshotShape' /\ ClosedShape'
    BY <1>1, <2>3 DEF SnapshotShape, ClosedShape
  <2> QED
    BY <2>6, <2>7, <2>8, <2>9, <2>10, <2>11, <2>12, <2>13
<1>2. CASE state = "FAILED"
  <2>1. /\ ticket' = Append(ticket, "failed")
        /\ slots' = slots + 1
        /\ state' = "FAILED"
        /\ UNCHANGED <<pending, requests>>
    BY <1>2
  <2>2. /\ ticket' \in Seq({"waiting", "succeeded", "failed"})
        /\ Len(ticket') = Len(ticket) + 1
        /\ \A i \in 1..Len(ticket) : ticket'[i] = ticket[i]
        /\ ticket'[Len(ticket) + 1] = "failed"
    BY <2>1, AppendFacts DEF TypeOK
  <2>3. Writes' = Writes /\ HasStop' = HasStop
    BY <2>1, SameQueue
  <2>4. Len(journal) <= Len(ticket)
    BY <1>0, <1>2 DEF StateShape, ThreadShape, QueueShape, TypeOK, Failing
  <2>5. TypeOK'
    BY <2>1, <2>2 DEF TypeOK
  <2>6. Counting'
    BY <1>0, <2>1, <2>3 DEF Counting, TypeOK, InHand
  <2>7. QueueShape'
    BY <1>0, <2>1, <2>2, <2>3 DEF QueueShape
  <2>8. TicketShape'
    BY <1>0, <1>2, <2>1, <2>2, <2>3 DEF TicketShape, QueueShape, StateShape,
        Failing, BeforeLatch, Unsettled, ThreadShape, Counted
  <2>9. JournalShape'
    <3>1. UNCHANGED <<journal, written>>
      OBVIOUS
    <3>2. \A d \in 1..Len(ticket') :
              \/ d \in 1..Len(ticket) /\ ticket'[d] = ticket[d]
              \/ d = Len(ticket) + 1 /\ ticket'[d] = "failed"
      BY <1>0, <2>2
    <3>3. Len(journal) \in Nat
      BY DEF TypeOK
    <3> QED
      BY <1>0, <2>4, <3>1, <3>2, <3>3 DEF JournalShape
  <2>10. ThreadShape'
    BY <1>0, <1>2, <2>1, <2>2, <2>4 DEF ThreadShape, TypeOK, Counted,
        StateShape, Failing, BeforeLatch
  <2>11. StateShape'
    BY <1>0, <1>2, <2>1, <2>2, <2>3 DEF StateShape, TypeOK, Failing,
        BeforeLatch
  <2>12. SnapshotShape' /\ ClosedShape'
    BY <1>2, <2>1 DEF SnapshotShape, ClosedShape
  <2> QED
    BY <2>5, <2>6, <2>7, <2>8, <2>9, <2>10, <2>11, <2>12
<1> QED
  BY <1>1, <1>2

\* close queues the stop marker once, behind every accepted event.
LEMMA CloseCallStep == IInv /\ CloseCall => IInv'
<1> SUFFICES ASSUME IInv, CloseCall PROVE IInv'
  OBVIOUS
<1> USE DEF IInv, CloseCall, diskVars, memoryVars, countVars
<1>0. TypeOK /\ Writes \in Nat
  BY WritesNat
<1>1. CASE state = "RUNNING" /\ openReservations = 0
  <2>1. ~HasStop
    BY <1>1 DEF QueueShape
  <2>2. requests' = Append(requests, Stop) /\ state' = "CLOSING"
    BY <1>1
  <2>3. /\ HasStop'
        /\ Writes' = Writes
        /\ \A i \in 1..Writes : requests'[i] = requests[i]
        /\ requests' \in Seq(Event \cup {Stop})
    BY <1>0, <2>1, <2>2, QueueStop
  <2>4. TypeOK'
    BY <2>2, <2>3 DEF TypeOK
  <2>5. Counting' /\ JournalShape' /\ SnapshotShape'
    BY <2>3 DEF Counting, InHand, JournalShape, SnapshotShape
  <2>6. QueueShape'
    BY <1>0, <2>2, <2>3 DEF QueueShape
  <2>7. TicketShape'
    BY <1>0, <1>1, <2>2, <2>3 DEF TicketShape
  <2>8. ThreadShape'
    BY <1>1, <2>2 DEF ThreadShape
  <2>9. StateShape' /\ ClosedShape'
    BY <1>1, <2>2, <2>3 DEF StateShape, ClosedShape, Failing, BeforeLatch
  <2> QED
    BY <2>4, <2>5, <2>6, <2>7, <2>8, <2>9
<1>2. CASE state # "RUNNING"
  <2>0. requests' = requests /\ Writes' = Writes /\ HasStop' = HasStop
    BY <1>2, SameQueue
  <2>1. TypeOK'
    BY <1>2, <2>0 DEF TypeOK
  <2>2. Counting' /\ JournalShape' /\ SnapshotShape'
    BY <2>0 DEF Counting, InHand, JournalShape, SnapshotShape
  <2>3. state' = state \/ (state = "NEW" /\ state' = "CLOSED")
    BY <1>2
  <2>4. state = "NEW" => /\ thread = "unborn" /\ ticket = <<>> /\ journal = <<>>
                         /\ written = 0 /\ requests = <<>> /\ Writes = 0
    BY DEF StateShape, ThreadShape, TypeOK, QueueShape, Writes, HasStop, Event
  <2>5. QueueShape'
    BY <2>0, <2>3, <2>4 DEF QueueShape, HasStop
  <2>6. TicketShape' /\ ThreadShape'
    BY <2>0, <2>3, <2>4 DEF TicketShape, ThreadShape
  <2>7. StateShape'
    BY <1>2, <2>0, <2>3, <2>4 DEF StateShape
  <2>8. ClosedShape'
    BY <2>3, <2>4 DEF ClosedShape
  <2> QED
    BY <2>1, <2>2, <2>5, <2>6, <2>7, <2>8
<1> QED
  BY <1>1, <1>2

-----------------------------------------------------------------------------
(* The steps of the thread preserve the invariant. *)

\* Taking a request: the stop marker empties the queue, an event is the next.
LEMMA GetRequestStep == IInv /\ GetRequest => IInv'
<1> SUFFICES ASSUME IInv, GetRequest PROVE IInv'
  OBVIOUS
<1> USE DEF IInv, GetRequest, diskVars, memoryVars, ownerVars, Run
<1>0. TypeOK /\ Writes \in Nat /\ Len(ticket) \in Nat /\ current \in Nat
  BY WritesNat DEF TypeOK, Event
<1>1. CASE Head(requests) = Stop
  <2>1. /\ HasStop
        /\ Writes = 0
        /\ requests' = <<>>
        /\ ~HasStop'
        /\ Writes' = 0
    BY <1>0, <1>1, TakeStop
  <2>2. thread' = "stop" /\ current' = current
    BY <1>1
  <2>3. TypeOK'
    BY <2>1, <2>2 DEF TypeOK, ThreadPoints
  <2>4. Counting' /\ QueueShape' /\ JournalShape'
    BY <2>1, <2>2 DEF Counting, InHand, Counted, Released, QueueShape,
                      JournalShape
  <2>5. TicketShape' /\ ThreadShape' /\ SnapshotShape'
    BY <1>0, <2>1, <2>2 DEF TicketShape, ThreadShape, SnapshotShape,
                            Unsettled, Failing, Counted
  <2>6. StateShape' /\ ClosedShape'
    BY <2>1, <2>2 DEF StateShape, QueueShape, ClosedShape, Failing, BeforeLatch
  <2> QED
    BY <2>3, <2>4, <2>5, <2>6
<1>2. CASE Head(requests) # Stop
  <2>1. /\ HasStop' = HasStop
        /\ Writes' = Writes - 1
        /\ Writes >= 1
        /\ Head(requests) = current + 1
        /\ Head(requests) \in Event
        /\ \A i \in 1..(Writes - 1) : requests'[i] = requests[i + 1]
        /\ requests' \in Seq(Event \cup {Stop})
    BY <1>0, <1>2, TakeEvent
  <2>2. thread' = "append" /\ current' = current + 1
    BY <1>2, <2>1
  <2>3. TypeOK'
    BY <1>2, <2>1, <2>2 DEF TypeOK, ThreadPoints, Counted
  <2>4. Counting' /\ JournalShape'
    BY <1>0, <2>1, <2>2 DEF Counting, InHand, Counted, Released, JournalShape,
                            TypeOK
  <2>5. QueueShape'
    <3>1. state' = state /\ ticket' = ticket
      OBVIOUS
    <3>2. ASSUME NEW i \in 1..Writes' PROVE requests'[i] = current' + i
      <4>1. i \in 1..(Writes - 1) /\ i + 1 \in 1..Writes
        BY <1>0, <2>1
      <4>2. requests[i + 1] = current + (i + 1)
        BY <4>1 DEF QueueShape
      <4>3. requests'[i] = requests[i + 1]
        BY <2>1, <4>1
      <4> HIDE DEF GetRequest, IInv
      <4> QED
        BY <1>0, <2>2, <4>1, <4>2, <4>3
    <3>3. current' + Writes' <= Len(ticket')
      BY <1>0, <2>1, <2>2, <3>1 DEF QueueShape
    <3>4. HasStop' => state' \in {"CLOSING", "FAILED"}
      BY <2>1, <3>1 DEF QueueShape
    <3> QED
      BY <3>2, <3>3, <3>4 DEF QueueShape
  <2>6. TicketShape'
    BY <1>0, <2>1, <2>2 DEF TicketShape, Unsettled
  <2>7. ThreadShape' /\ SnapshotShape'
    BY <1>0, <2>1, <2>2 DEF ThreadShape, QueueShape, SnapshotShape, Failing,
                            Counted
  <2>8. StateShape' /\ ClosedShape'
    BY <2>1, <2>2 DEF StateShape, ClosedShape, Failing, BeforeLatch
  <2> QED
    BY <2>3, <2>4, <2>5, <2>6, <2>7, <2>8
<1> QED
  BY <1>1, <1>2

\* The append: the journal grows by the event in hand, with or without success.
LEMMA AppendRecordStep == IInv /\ AppendRecord => IInv'
<1> SUFFICES ASSUME IInv, AppendRecord PROVE IInv'
  OBVIOUS
<1> USE DEF IInv, AppendRecord, Run, ownerVars
<1>0. Writes' = Writes /\ HasStop' = HasStop /\ Writes \in Nat
  BY SameQueue, WritesNat
<1>a. /\ current \in Event
      /\ current \in 1..Len(ticket)
      /\ Len(journal) = written
      /\ written + 1 = current
      /\ journal \in Seq(Event)
      /\ written \in Nat
  BY DEF ThreadShape, Counted, TypeOK, Event
<1>b. /\ Append(journal, current) \in Seq(Event)
      /\ Len(Append(journal, current)) = current
      /\ \A i \in 1..written : Append(journal, current)[i] = journal[i]
      /\ Append(journal, current)[current] = current
  BY <1>a, AppendFacts
<1>c. \A e \in 1..Len(ticket) : ticket[e] # "failed"
  BY DEF ThreadShape, Failing
<1>d. \/ journal' = journal /\ Len(journal') = written
      \/ journal' = Append(journal, current) /\ Len(journal') = current
  BY <1>a, <1>b
<1>1. TypeOK'
  <2>1. journal' \in Seq(Event) /\ written' \in Nat
    BY <1>a, <1>b
  <2>2. thread' \in ThreadPoints
    BY DEF ThreadPoints, Counted, Failing
  <2>3. UNCHANGED <<state, slots, openReservations, pending, requests, ticket,
                    lastSnapshot, snapshotFile, published, current, owner,
                    answer>>
    OBVIOUS
  <2> QED
    BY <2>1, <2>2, <2>3 DEF TypeOK
<1>2. Counting'
  BY <1>0 DEF Counting, InHand, Counted, Released
<1>3. QueueShape'
  BY <1>0 DEF QueueShape
<1>4. TicketShape'
  BY <1>0 DEF TicketShape, Unsettled
<1>5. JournalShape'
  <2>1. \A i \in 1..Len(journal') : journal'[i] = i
    BY <1>a, <1>b, <1>d DEF JournalShape
  <2>2. written' <= Len(journal') 
    BY <1>a, <1>b, <1>d
  <2>3. \A e \in 1..Len(ticket) : ticket[e] = "succeeded" => e <= written'
    BY <1>a DEF JournalShape
  <2> QED
    BY <1>c, <2>1, <2>2, <2>3 DEF JournalShape
<1>6. ThreadShape'
  BY <1>a, <1>c, <1>d DEF ThreadShape, TypeOK, Counted, Failing
<1>7. StateShape'
  BY <1>0 DEF StateShape, Failing, BeforeLatch
<1>8. SnapshotShape'
  BY <1>a, <1>d DEF SnapshotShape, TypeOK, Failing
<1>9. ClosedShape'
  BY DEF ClosedShape, StateShape
<1> QED
  BY <1>1, <1>2, <1>3, <1>4, <1>5, <1>6, <1>7, <1>8, <1>9

\* A periodic snapshot covers exactly what the journal holds.
LEMMA PeriodicSnapshotStep == IInv /\ PeriodicSnapshot => IInv'
<1> SUFFICES ASSUME IInv, PeriodicSnapshot PROVE IInv'
  OBVIOUS
<1> USE DEF IInv, TypeOK, PeriodicSnapshot, WriteSnapshot, countVars,
            diskVars, memoryVars, ownerVars, Run
<1>0. Writes' = Writes /\ HasStop' = HasStop /\ Writes \in Nat
  BY SameQueue, WritesNat
<1>1. TypeOK'
  BY DEF Counted, ThreadPoints, LastSequence, InHand
<1>2. Counting'
  BY <1>0 DEF Counting, InHand, Counted, Released
<1>3. QueueShape'
  BY <1>0 DEF QueueShape
<1>4. TicketShape'
  BY <1>0 DEF TicketShape, Unsettled
<1>5. JournalShape'
  BY DEF JournalShape
<1>6. ThreadShape'
  BY DEF ThreadShape, Counted, Failing
<1>7. StateShape'
  BY <1>0 DEF StateShape, BeforeLatch, Failing
<1>8. SnapshotShape'
  BY DEF SnapshotShape, JournalShape, Failing, LastSequence
<1>9. ClosedShape'
  BY DEF ClosedShape, StateShape
<1> QED
  BY <1>1, <1>2, <1>3, <1>4, <1>5, <1>6, <1>7, <1>8, <1>9

\* Publishing hands out the last written state.
LEMMA PublishStep == IInv /\ Publish => IInv'
<1> SUFFICES ASSUME IInv, Publish PROVE IInv'
  OBVIOUS
<1> USE DEF IInv, TypeOK, Publish, countVars, diskVars, memoryVars, ownerVars,
            Run
<1>0. Writes' = Writes /\ HasStop' = HasStop /\ Writes \in Nat
  BY SameQueue, WritesNat
<1>1. TypeOK'
  BY DEF Counted, ThreadPoints, LastSequence, InHand
<1>2. Counting'
  BY <1>0 DEF Counting, InHand, Counted, Released
<1>3. QueueShape'
  BY <1>0 DEF QueueShape
<1>4. TicketShape'
  BY <1>0 DEF TicketShape, Unsettled
<1>5. JournalShape'
  BY DEF JournalShape
<1>6. ThreadShape'
  BY DEF ThreadShape, Counted, Failing
<1>7. StateShape'
  BY <1>0 DEF StateShape, Failing
<1>8. SnapshotShape'
  BY DEF SnapshotShape, Failing, LastSequence
<1>9. ClosedShape'
  BY DEF ClosedShape
<1> QED
  BY <1>1, <1>2, <1>3, <1>4, <1>5, <1>6, <1>7, <1>8, <1>9

\* Success: the record of current is the last one in the journal.
LEMMA SucceedTicketStep == IInv /\ SucceedTicket => IInv'
<1> SUFFICES ASSUME IInv, SucceedTicket PROVE IInv'
  OBVIOUS
<1> USE DEF IInv, TypeOK, SucceedTicket, SettleTicket, countVars, diskVars,
            memoryVars, ownerVars, Run
<1>0. Writes' = Writes /\ HasStop' = HasStop /\ Writes \in Nat
  BY SameQueue, WritesNat
<1>1. TypeOK'
  BY DEF ThreadShape, Counted, ThreadPoints
<1>2. Counting'
  BY <1>0 DEF Counting, InHand, Counted, Released
<1>3. QueueShape'
  BY <1>0 DEF QueueShape
<1>4. TicketShape'
  BY <1>0 DEF TicketShape, Unsettled
<1>5. JournalShape'
  BY DEF JournalShape, ThreadShape
<1>6. ThreadShape'
  BY DEF ThreadShape, Counted, Failing
<1>7. StateShape'
  BY <1>0 DEF StateShape, Failing
<1>8. SnapshotShape'
  BY DEF SnapshotShape, Failing
<1>9. ClosedShape'
  BY DEF ClosedShape
<1> QED
  BY <1>1, <1>2, <1>3, <1>4, <1>5, <1>6, <1>7, <1>8, <1>9

\* First failure: current lies at or just behind the end of the journal.
LEMMA FailTicketStep == IInv /\ FailTicket => IInv'
<1> SUFFICES ASSUME IInv, FailTicket PROVE IInv'
  OBVIOUS
<1> USE DEF IInv, TypeOK, FailTicket, SettleTicket, countVars, diskVars,
            memoryVars, ownerVars, Run
<1>0. Writes' = Writes /\ HasStop' = HasStop /\ Writes \in Nat
  BY SameQueue, WritesNat
<1>1. TypeOK'
  BY DEF ThreadShape, Counted, ThreadPoints
<1>2. Counting'
  BY <1>0 DEF Counting, InHand, Counted, Released
<1>3. QueueShape'
  BY <1>0 DEF QueueShape
<1>4. TicketShape'
  BY <1>0 DEF TicketShape, Unsettled
<1>5. JournalShape'
  BY DEF JournalShape, ThreadShape, Failing
<1>6. ThreadShape'
  BY DEF ThreadShape, Counted, Failing
<1>7. StateShape'
  BY <1>0 DEF StateShape, BeforeLatch
<1>8. SnapshotShape'
  BY DEF SnapshotShape, Failing
<1>9. ClosedShape'
  BY DEF ClosedShape, StateShape
<1> QED
  BY <1>1, <1>2, <1>3, <1>4, <1>5, <1>6, <1>7, <1>8, <1>9

\* A drained commit lies behind the failed one.
LEMMA DrainTicketStep == IInv /\ DrainTicket => IInv'
<1> SUFFICES ASSUME IInv, DrainTicket PROVE IInv'
  OBVIOUS
<1> USE DEF IInv, TypeOK, DrainTicket, SettleTicket, countVars, diskVars,
            memoryVars, ownerVars, Run
<1>0. Writes' = Writes /\ HasStop' = HasStop /\ Writes \in Nat
  BY SameQueue, WritesNat
<1>1. TypeOK'
  BY DEF ThreadShape, Counted, ThreadPoints
<1>2. Counting'
  BY <1>0 DEF Counting, InHand, Counted, Released
<1>3. QueueShape'
  BY <1>0 DEF QueueShape
<1>4. TicketShape'
  BY <1>0 DEF TicketShape, Unsettled, Failing
<1>5. JournalShape'
  BY DEF JournalShape, ThreadShape, Failing
<1>6. ThreadShape'
  BY DEF ThreadShape, Counted, Failing
<1>7. StateShape'
  BY DEF StateShape, BeforeLatch, Failing
<1>8. SnapshotShape'
  BY DEF SnapshotShape, Failing
<1>9. ClosedShape'
  BY DEF ClosedShape, StateShape
<1> QED
  BY <1>1, <1>2, <1>3, <1>4, <1>5, <1>6, <1>7, <1>8, <1>9

\* The permit goes back one step before pending is decremented.
LEMMA ReleaseSlotStep == IInv /\ ReleaseSlot => IInv'
<1> SUFFICES ASSUME IInv, ReleaseSlot PROVE IInv'
  OBVIOUS
<1> USE DEF IInv, TypeOK, ReleaseSlot, countVars, diskVars, memoryVars,
            ownerVars, Run
<1>0. Writes' = Writes /\ HasStop' = HasStop /\ Writes \in Nat
  BY SameQueue, WritesNat
<1>1. TypeOK'
  BY DEF Counted, ThreadPoints
<1>2. Counting'
  BY <1>0 DEF Counting, InHand, Counted, Released
<1>3. QueueShape'
  BY <1>0 DEF QueueShape
<1>4. TicketShape'
  BY <1>0 DEF TicketShape, Unsettled
<1>5. JournalShape'
  BY DEF JournalShape
<1>6. ThreadShape'
  BY DEF ThreadShape, Counted, Failing
<1>7. StateShape'
  BY <1>0 DEF StateShape, BeforeLatch, Failing
<1>8. SnapshotShape'
  BY DEF SnapshotShape, Failing
<1>9. ClosedShape'
  BY DEF ClosedShape
<1> QED
  BY <1>1, <1>2, <1>3, <1>4, <1>5, <1>6, <1>7, <1>8, <1>9

\* The two counters agree again.
LEMMA DecrementPendingStep == IInv /\ DecrementPending => IInv'
<1> SUFFICES ASSUME IInv, DecrementPending PROVE IInv'
  OBVIOUS
<1> USE DEF IInv, TypeOK, DecrementPending, countVars, diskVars, memoryVars,
            ownerVars, Run
<1>0. Writes' = Writes /\ HasStop' = HasStop /\ Writes \in Nat
  BY SameQueue, WritesNat
<1>1. TypeOK'
  BY <1>0 DEF Counted, Failing, ThreadPoints, Counting, InHand
<1>2. Counting'
  BY <1>0 DEF Counting, InHand, Counted, Released
<1>3. QueueShape'
  BY <1>0 DEF QueueShape
<1>4. TicketShape'
  BY <1>0 DEF TicketShape, Unsettled
<1>5. JournalShape'
  BY DEF JournalShape
<1>6. ThreadShape'
  BY DEF ThreadShape, Counted, Failing
<1>7. StateShape'
  BY <1>0 DEF StateShape, BeforeLatch, Failing
<1>8. SnapshotShape'
  BY DEF SnapshotShape, Failing
<1>9. ClosedShape'
  BY DEF ClosedShape
<1> QED
  BY <1>1, <1>2, <1>3, <1>4, <1>5, <1>6, <1>7, <1>8, <1>9

\* The latch.
LEMMA LatchFailureStep == IInv /\ LatchFailure => IInv'
<1> SUFFICES ASSUME IInv, LatchFailure PROVE IInv'
  OBVIOUS
<1> USE DEF IInv, TypeOK, LatchFailure, countVars, diskVars, memoryVars,
            ownerVars, Run
<1>0. Writes' = Writes /\ HasStop' = HasStop /\ Writes \in Nat
  BY SameQueue, WritesNat
<1>1. TypeOK'
  BY DEF Failing, ThreadPoints
<1>2. Counting'
  BY <1>0 DEF Counting, InHand, Counted, Released
<1>3. QueueShape'
  BY <1>0 DEF QueueShape
<1>4. TicketShape'
  BY <1>0 DEF TicketShape, Unsettled
<1>5. JournalShape'
  BY DEF JournalShape
<1>6. ThreadShape'
  BY DEF ThreadShape, Failing
<1>7. StateShape'
  BY DEF StateShape, ThreadShape, BeforeLatch, Failing
<1>8. SnapshotShape'
  BY DEF SnapshotShape, Failing
<1>9. ClosedShape'
  BY DEF ClosedShape
<1> QED
  BY <1>1, <1>2, <1>3, <1>4, <1>5, <1>6, <1>7, <1>8, <1>9

\* The drain: an event in hand, the stop marker dropped, or the end.
LEMMA DrainRequestStep == IInv /\ DrainRequest => IInv'
<1> SUFFICES ASSUME IInv, DrainRequest PROVE IInv'
  OBVIOUS
<1> USE DEF IInv, DrainRequest, diskVars, memoryVars, ownerVars, Run
<1>0. /\ TypeOK /\ Writes \in Nat /\ Len(ticket) \in Nat /\ current \in Nat
      /\ state = "FAILED"
  BY WritesNat DEF TypeOK, Event, StateShape, Failing, BeforeLatch
<1>1. CASE requests = <<>>
  <2>1. thread' = "dead" /\ current' = current /\ requests' = requests
    BY <1>1
  <2>2. Writes' = Writes /\ HasStop' = HasStop /\ Writes = 0 /\ ~HasStop
    BY <1>1, <2>1, SameQueue DEF Writes, HasStop
  <2>3. TypeOK' /\ Counting' /\ QueueShape' /\ JournalShape'
    BY <2>1, <2>2 DEF TypeOK, ThreadPoints, Counting, InHand, Counted,
                      Released, QueueShape, JournalShape
  <2>4. TicketShape' /\ SnapshotShape'
    BY <1>0, <2>1, <2>2 DEF TicketShape, SnapshotShape, Unsettled, Failing
  <2>5. ThreadShape'
    BY <1>0, <2>1, <2>2 DEF ThreadShape, Failing, Counted, QueueShape, TypeOK
  <2>6. StateShape' /\ ClosedShape'
    BY <1>0, <1>1, <2>1, <2>2 DEF StateShape, ClosedShape, Failing, BeforeLatch
  <2> QED
    BY <2>3, <2>4, <2>5, <2>6
<1>2. CASE requests # <<>> /\ Head(requests) = Stop
  <2>1. /\ HasStop
        /\ Writes = 0
        /\ requests' = <<>>
        /\ ~HasStop'
        /\ Writes' = 0
    BY <1>0, <1>2, TakeStop
  <2>2. thread' = "drain" /\ current' = current
    BY <1>2
  <2>3. TypeOK'
    BY <2>1, <2>2 DEF TypeOK, ThreadPoints
  <2>4. Counting' /\ QueueShape' /\ JournalShape'
    BY <2>1, <2>2 DEF Counting, InHand, Counted, Released, QueueShape,
                      JournalShape
  <2>5. TicketShape' /\ ThreadShape' /\ SnapshotShape'
    BY <1>0, <2>1, <2>2 DEF TicketShape, ThreadShape, SnapshotShape,
                            Unsettled, Failing, Counted
  <2>6. StateShape' /\ ClosedShape'
    BY <1>0, <2>1, <2>2 DEF StateShape, ClosedShape, Failing, BeforeLatch
  <2> QED
    BY <2>3, <2>4, <2>5, <2>6
<1>3. CASE requests # <<>> /\ Head(requests) # Stop
  <2>1. /\ HasStop' = HasStop
        /\ Writes' = Writes - 1
        /\ Writes >= 1
        /\ Head(requests) = current + 1
        /\ Head(requests) \in Event
        /\ \A i \in 1..(Writes - 1) : requests'[i] = requests[i + 1]
        /\ requests' \in Seq(Event \cup {Stop})
    BY <1>0, <1>3, TakeEvent
  <2>2. thread' = "drainTicket" /\ current' = current + 1
    BY <1>3, <2>1
  <2>3. TypeOK'
    BY <1>3, <2>1, <2>2 DEF TypeOK, ThreadPoints, Counted
  <2>4. Counting' /\ JournalShape'
    BY <1>0, <2>1, <2>2 DEF Counting, InHand, Counted, Released, JournalShape,
                            TypeOK
  <2>5. QueueShape'
    BY <1>0, <2>1, <2>2 DEF QueueShape
  <2>6. TicketShape'
    BY <1>0, <2>1, <2>2 DEF TicketShape, Unsettled
  <2>7. ThreadShape' /\ SnapshotShape'
    BY <1>0, <2>1, <2>2 DEF ThreadShape, QueueShape, SnapshotShape, Failing,
                            Counted, TypeOK
  <2>8. StateShape' /\ ClosedShape'
    BY <1>0, <2>1, <2>2 DEF StateShape, ClosedShape, Failing, BeforeLatch
  <2> QED
    BY <2>3, <2>4, <2>5, <2>6, <2>7, <2>8
<1> QED
  BY <1>1, <1>2, <1>3

\* The final snapshot: everything accepted is journaled and acknowledged.
LEMMA StopThreadStep == IInv /\ StopThread => IInv'
<1> SUFFICES ASSUME IInv, StopThread PROVE IInv'
  OBVIOUS
<1> USE DEF IInv, TypeOK, StopThread, WriteSnapshot, countVars, ownerVars
<1>0. /\ Writes' = Writes /\ HasStop' = HasStop
      /\ Writes = 0 /\ ~HasStop /\ requests = <<>>
  BY SameQueue DEF StateShape, Writes, HasStop
<1>1. written = current /\ Len(journal) = current
  BY DEF ThreadShape
<1>2. \A e \in 1..Len(ticket) :
          e <= current /\ ticket[e] # "failed" /\ ticket[e] # "waiting"
  BY <1>0 DEF TicketShape, ThreadShape, StateShape, Failing, Unsettled, Event
<1>3. Len(ticket) = current
  BY <1>0, <1>2 DEF QueueShape, Event
<1>4. SnapshotOnClose /\ written > 0 /\ lastSnapshot = LastSequence =>
          snapshotFile = Recovered + written
  BY DEF SnapshotShape, LastSequence, Failing
<1>5. TypeOK'
  BY DEF ThreadPoints, LastSequence
<1>6. Counting' /\ QueueShape' /\ JournalShape'
  <2>1. Counting'
    BY <1>0 DEF Counting, InHand, Counted, Released
  <2>2. QueueShape'
    BY <1>0, <1>1, <1>3 DEF QueueShape
  <2>3. JournalShape'
    BY DEF JournalShape
  <2> QED
    BY <2>1, <2>2, <2>3
<1>7. TicketShape'
  BY <1>0, <1>2, <1>3 DEF TicketShape, Unsettled
<1>8. ThreadShape'
  BY <1>1, <1>2, <1>3 DEF ThreadShape, Counted, Failing
<1>9. StateShape'
  BY <1>0, <1>1 DEF StateShape, Failing, BeforeLatch
<1>10. SnapshotShape'
  BY <1>1 DEF SnapshotShape, LastSequence, Failing
<1>11. ClosedShape'
  BY <1>1, <1>2, <1>3, <1>4 DEF ClosedShape, LastSequence
<1> QED
  BY <1>5, <1>6, <1>7, <1>8, <1>9, <1>10, <1>11

-----------------------------------------------------------------------------
(* The invariant and what follows from it. *)

\* IInv holds initially.
LEMMA InitIInv == Init => IInv
<1> SUFFICES ASSUME Init PROVE IInv
  OBVIOUS
<1>1. Writes = 0 /\ ~HasStop
  BY DEF Init, Writes, HasStop
<1>2. TypeOK
  BY DEF Init, TypeOK, ThreadPoints
<1>3. Counting /\ QueueShape /\ TicketShape /\ JournalShape
  BY <1>1 DEF Init, Counting, InHand, Counted, Released, QueueShape,
              TicketShape,
              JournalShape
<1>4. ThreadShape /\ StateShape /\ SnapshotShape /\ ClosedShape
  BY <1>1 DEF Init, ThreadShape, StateShape, SnapshotShape, ClosedShape,
              Counted,
              Failing, BeforeLatch
<1> QED
  BY <1>2, <1>3, <1>4 DEF IInv

\* Every step preserves IInv.
LEMMA NextIInv == IInv /\ [Next]_vars => IInv'
<1>1. IInv /\ UNCHANGED vars => IInv'
  <2> SUFFICES ASSUME IInv, UNCHANGED vars PROVE IInv'
    OBVIOUS
  <2>1. UNCHANGED <<state, slots, openReservations, pending, requests, ticket,
                    journal, snapshotFile, written, lastSnapshot, published,
                    thread, current, owner, answer>>
    BY DEF vars, countVars, diskVars, memoryVars, ownerVars
  <2>2. Writes' = Writes /\ HasStop' = HasStop
    BY <2>1, SameQueue
  <2>3. TypeOK' /\ Counting' /\ QueueShape' /\ TicketShape' /\ JournalShape'
    BY <2>1, <2>2 DEF IInv, TypeOK, Counting, InHand, QueueShape, TicketShape,
                      JournalShape
  <2>4. ThreadShape' /\ StateShape' /\ SnapshotShape' /\ ClosedShape'
    BY <2>1, <2>2 DEF IInv, ThreadShape, StateShape, SnapshotShape, ClosedShape
  <2> QED
    BY <2>3, <2>4 DEF IInv
<1>2. IInv /\ Owner => IInv'
  BY StartStep, ReserveStep, CancelStep, CommitStep, WaitStep, CloseCallStep
  DEF Owner
<1>3. IInv /\ Thread => IInv'
  BY GetRequestStep, AppendRecordStep, PeriodicSnapshotStep, PublishStep,
     SucceedTicketStep, FailTicketStep, DrainTicketStep, ReleaseSlotStep,
     DecrementPendingStep, LatchFailureStep, DrainRequestStep, StopThreadStep
  DEF Thread
<1> QED
  BY <1>1, <1>2, <1>3 DEF Next

\* The strengthened invariant of the worker, for every value of the constants.
THEOREM WorkerInvariant == Spec => []IInv
<1> QED
  BY InitIInv, NextIInv, PTL DEF Spec

\* The variables of the worker keep their types.
THEOREM WorkerTypeOK == Spec => []TypeOK
<1>1. IInv => TypeOK
  BY DEF IInv
<1> QED
  BY <1>1, WorkerInvariant, PTL

\* reserve never over-commits the worker and no step releases the bounded
\* semaphore beyond its capacity, which would kill the thread.
THEOREM WorkerCapacity == Spec => []CapacityRespected
<1>1. IInv => CapacityRespected
  <2> SUFFICES ASSUME IInv PROVE CapacityRespected
    OBVIOUS
  <2>1. Writes \in Nat
    BY WritesNat DEF IInv
  <2> DEFINE u == InHand(Unsettled)
             r == InHand(Released)
             c == InHand(Counted)
  <2>2. u + r <= c /\ u \in Nat /\ r \in Nat /\ c \in Nat
    BY DEF InHand, Unsettled, Released, Counted
  <2>3. slots + openReservations + pending = Capacity + r /\ pending = Writes + c
    BY DEF IInv, Counting
  <2>4. slots \in Nat /\ openReservations \in Nat
    BY DEF IInv, TypeOK
  <2> HIDE DEF u, r, c
  <2>5. slots <= Capacity /\ openReservations + Writes + u <= Capacity
    BY <2>1, <2>2, <2>3, <2>4
  <2> QED
    BY <2>5 DEF CapacityRespected, u
<1> QED
  BY <1>1, WorkerInvariant, PTL

\* The journal holds the commits in order, without a gap or a repetition.
THEOREM WorkerJournalOrder == Spec => []JournalIsCommitOrder
<1>1. IInv => JournalIsCommitOrder
  <2> SUFFICES ASSUME IInv PROVE Len(journal) <= Len(ticket)
    BY DEF IInv, JournalShape, JournalIsCommitOrder
  <2>1. Writes \in Nat
    BY WritesNat DEF IInv
  <2> QED
    BY <2>1 DEF IInv, TypeOK, ThreadPoints, ThreadShape, QueueShape, Counted,
                Failing, Event
<1> QED
  BY <1>1, WorkerInvariant, PTL

\* An acknowledged event is in the journal file.
THEOREM WorkerSuccessIsDurable == Spec => []SuccessIsDurable
<1>1. IInv => SuccessIsDurable
  BY DEF IInv, TypeOK, JournalShape, SuccessIsDurable
<1> QED
  BY <1>1, WorkerInvariant, PTL

\* After the first failed event, none committed later is acknowledged.
THEOREM WorkerFailureIsFinal == Spec => []FailureIsFinal
<1>1. IInv => FailureIsFinal
  BY DEF IInv, TypeOK, JournalShape, FailureIsFinal
<1> QED
  BY <1>1, WorkerInvariant, PTL

\* A failed event is in the journal at most as its last record.
THEOREM WorkerOneAmbiguousRecord == Spec => []OneAmbiguousRecord
<1>1. IInv => OneAmbiguousRecord
  <2> SUFFICES ASSUME IInv, NEW e \in 1..Len(journal), ticket[e] = "failed"
               PROVE  e = Len(journal)
    BY DEF OneAmbiguousRecord
  <2>1. e \in 1..Len(ticket)
    <3>1. Writes \in Nat
      BY WritesNat DEF IInv
    <3> QED
      BY <3>1 DEF IInv, TypeOK, ThreadPoints, ThreadShape, QueueShape, Counted,
                  Failing, Event
  <2> QED
    BY <2>1 DEF IInv, TypeOK, JournalShape
<1> QED
  BY <1>1, WorkerInvariant, PTL

\* An ended thread leaves no ticket waiting and nothing queued.
THEOREM WorkerNoOrphanedTicket == Spec => []NoOrphanedTicket
<1>1. IInv => NoOrphanedTicket
  <2> SUFFICES ASSUME IInv, thread = "dead" PROVE NoOrphanedTicket
    BY DEF NoOrphanedTicket
  <2>1. requests = <<>> /\ Writes = 0
    BY DEF IInv, StateShape, Writes, HasStop
  <2>2. pending = 0
    BY <2>1 DEF IInv, Counting, InHand, Counted
  <2>3. \A e \in 1..Len(ticket) : ticket[e] # "waiting"
    BY <2>1 DEF IInv, TypeOK, TicketShape, Unsettled, Event
  <2> QED
    BY <2>1, <2>2, <2>3 DEF NoOrphanedTicket
<1> QED
  BY <1>1, WorkerInvariant, PTL

\* A worker that closed cleanly lost nothing it accepted.
THEOREM WorkerCleanClose == Spec => []CleanClose
<1>1. IInv => CleanClose
  BY DEF IInv, TypeOK, ClosedShape, CleanClose
<1> QED
  BY <1>1, WorkerInvariant, PTL

\* Recovery never meets a snapshot ahead of the journal.
THEOREM WorkerSnapshotBehind == Spec => []SnapshotBehindJournal
<1>1. IInv => SnapshotBehindJournal
  BY DEF IInv, TypeOK, JournalShape, SnapshotShape, SnapshotBehindJournal
<1> QED
  BY <1>1, WorkerInvariant, PTL

\* A ticket never lies: the five theorems above in one.
THEOREM WorkerTicketsTellTruth == Spec => []TicketsTellTruth
BY WorkerJournalOrder, WorkerSuccessIsDurable, WorkerOneAmbiguousRecord,
   WorkerFailureIsFinal, WorkerNoOrphanedTicket, PTL DEF TicketsTellTruth

\* What a worker leaves on disk agrees, however it ends.
THEOREM WorkerFilesAgree == Spec => []FilesAgree
BY WorkerCleanClose, WorkerSnapshotBehind, PTL DEF FilesAgree

\* FAILED and CLOSED are never left.
THEOREM WorkerTerminalStates == Spec => TerminalStates
<1>1. IInv /\ [Next]_vars =>
          [(state \in {"FAILED", "CLOSED"}) => UNCHANGED state]_vars
  <2> SUFFICES ASSUME IInv, Next, state \in {"FAILED", "CLOSED"}
               PROVE  state' = state
    BY DEF vars
  <2>1. CASE Owner
    BY <2>1 DEF Owner, Start, Reserve, Cancel, Commit, FlushCall, FlushReturn,
                CloseCall, CloseReturn
  <2>2. CASE Thread
    <3>1. thread \notin {"latch", "stop"}
      BY DEF IInv, StateShape, Failing, BeforeLatch
    <3> QED
      BY <2>2, <3>1
      DEF Thread, GetRequest, AppendRecord, PeriodicSnapshot, Publish,
          SucceedTicket, FailTicket, DrainTicket, SettleTicket, ReleaseSlot,
          DecrementPending, LatchFailure, DrainRequest, StopThread, Run
  <2> QED
    BY <2>1, <2>2 DEF Next
<1> QED
  BY <1>1, WorkerInvariant, PTL DEF Spec, TerminalStates

-----------------------------------------------------------------------------
(* The worker implements the durable log: tickets are the verdicts and the *)
(* journal file is the log.                                                *)

\* A commit is a submission, or a refusal after a failure.
LEMMA CommitRefines == IInv /\ Commit => Log!Submit \/ Log!Refuse
  BY DEF IInv, StateShape, Commit, diskVars, Log!Submit, Log!Refuse,
         Log!Submitted

\* A record that reaches the file is the next waiting event after successes.
LEMMA AppendRefines ==
    IInv /\ AppendRecord => Log!Persist \/ UNCHANGED <<ticket, journal>>
<1> SUFFICES ASSUME IInv, AppendRecord, journal' # journal PROVE Log!Persist
  BY DEF AppendRecord
<1> USE DEF IInv
<1>1. /\ journal' = Append(journal, current)
      /\ ticket' = ticket
  BY DEF AppendRecord
<1>2. /\ thread = "append"
      /\ current = Len(journal) + 1
      /\ current \in 1..Len(ticket)
      /\ Len(journal) \in Nat
  BY DEF AppendRecord, ThreadShape, TypeOK, Counted
<1>3. ticket[current] = "waiting"
  BY <1>2 DEF TicketShape, Unsettled
<1>4. \A d \in 1..Len(journal) : ticket[d] = "succeeded"
  <2> SUFFICES ASSUME NEW d \in 1..Len(journal) PROVE ticket[d] = "succeeded"
    OBVIOUS
  <2>1. d \in 1..Len(ticket) /\ d < current
    BY <1>2
  <2>2. ticket[d] \in {"waiting", "succeeded", "failed"}
    BY <2>1 DEF TypeOK
  <2>3. ticket[d] # "failed"
    BY <1>2, <2>1 DEF ThreadShape, Failing
  <2>4. ticket[d] # "waiting"
    BY <2>1 DEF TicketShape
  <2> QED
    BY <2>2, <2>3, <2>4
<1> QED
  BY <1>1, <1>2, <1>3, <1>4 DEF Log!Persist, Log!Submitted

\* Success answers the last record of the log, after successes only.
LEMMA SucceedRefines == IInv /\ SucceedTicket => Log!Answer
<1> SUFFICES ASSUME IInv, SucceedTicket PROVE Log!Answer
  OBVIOUS
<1> USE DEF IInv
<1>1. /\ ticket' = [ticket EXCEPT ![current] = "succeeded"]
      /\ journal' = journal
      /\ thread = "succeedTicket"
  BY DEF SucceedTicket, SettleTicket, diskVars
<1>2. current \in 1..Len(ticket) /\ Len(journal) = current
  BY <1>1 DEF ThreadShape, Counted
<1>3. ticket[current] = "waiting"
  BY <1>1, <1>2 DEF TicketShape, Unsettled
<1>4. \A d \in 1..(current - 1) : ticket[d] = "succeeded"
  <2> SUFFICES ASSUME NEW d \in 1..(current - 1) PROVE ticket[d] = "succeeded"
    OBVIOUS
  <2>1. d \in 1..Len(ticket) /\ d < current
    BY <1>2
  <2>2. ticket[d] \in {"waiting", "succeeded", "failed"}
    BY <2>1 DEF TypeOK
  <2>3. ticket[d] # "failed"
    BY <1>1, <2>1 DEF ThreadShape, Failing
  <2>4. ticket[d] # "waiting"
    BY <2>1 DEF TicketShape
  <2> QED
    BY <2>2, <2>3, <2>4
<1>5. Log!Acknowledge(current)
  BY <1>1, <1>2, <1>3, <1>4 DEF Log!Acknowledge
<1> QED
  BY <1>2, <1>5 DEF Log!Answer, Log!Submitted

\* Failing a ticket answers the oldest waiting submission.
LEMMA FailRefines == IInv /\ (FailTicket \/ DrainTicket) => Log!Answer
<1> SUFFICES ASSUME IInv, FailTicket \/ DrainTicket PROVE Log!Answer
  OBVIOUS
<1> USE DEF IInv
<1>1. /\ ticket' = [ticket EXCEPT ![current] = "failed"]
      /\ journal' = journal
      /\ thread \in {"failTicket", "drainTicket"}
  BY DEF FailTicket, DrainTicket, SettleTicket, diskVars
<1>2. current \in 1..Len(ticket)
  BY <1>1 DEF ThreadShape, Counted
<1>3. ticket[current] = "waiting"
  BY <1>1, <1>2 DEF TicketShape, Unsettled
<1>4. Log!InTurn(current)
  BY <1>2 DEF TicketShape, Log!InTurn
<1>5. Log!Fail(current)
  BY <1>1, <1>3, <1>4 DEF Log!Fail
<1> QED
  BY <1>2, <1>5 DEF Log!Answer, Log!Submitted

\* Every behaviour of the worker is a behaviour of the durable log: answers in
\* order, success only behind the journal record and before any failure.
THEOREM WorkerImplementsLog == Spec => LogSpec
<1>1. Init => Log!Init
  BY DEF Init, Log!Init
<1>2. IInv /\ [Next]_vars => [Log!Next]_(Log!logVars)
  <2> SUFFICES ASSUME IInv, [Next]_vars
               PROVE  Log!Next \/ UNCHANGED <<ticket, journal>>
    BY DEF Log!logVars
  <2>1. CASE UNCHANGED vars
    BY <2>1 DEF vars, diskVars
  <2>2. CASE Owner
    BY <2>2, CommitRefines
    DEF Owner, Start, Reserve, Cancel, FlushCall, FlushReturn, CloseCall,
        CloseReturn, diskVars, Log!Next
  <2>3. CASE Thread
    BY <2>3, AppendRefines, SucceedRefines, FailRefines
    DEF Thread, GetRequest, PeriodicSnapshot, Publish, ReleaseSlot,
        DecrementPending, LatchFailure, DrainRequest, StopThread, diskVars,
        Log!Next
  <2> QED
    BY <2>1, <2>2, <2>3 DEF Next
<1> QED
  BY <1>1, <1>2, WorkerInvariant, PTL DEF Spec, LogSpec, Log!Spec
=============================================================================
