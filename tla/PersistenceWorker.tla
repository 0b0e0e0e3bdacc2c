-------------------------- MODULE PersistenceWorker --------------------------
(***************************************************************************)
(* The bounded asynchronous persistence worker of                          *)
(* runtime/persistence.py: an owner thread that reserves, commits, flushes *)
(* and closes, and one background thread that journals every committed     *)
(* event, writes snapshots, settles tickets and latches the first failure. *)
(*                                                                         *)
(* An event is the number of its commit: the ticket of event e is          *)
(* ticket[e].  One action is one stretch of code between two points where  *)
(* the other thread can see a difference: a section under _state_lock, one *)
(* semaphore or queue operation, one file operation.                       *)
(***************************************************************************)
EXTENDS Naturals, Sequences

CONSTANTS
    Capacity,          \* permits of the slot semaphore
    SnapshotInterval,  \* journal records per periodic snapshot; 0 is None
    SnapshotOnClose,   \* whether close writes a final snapshot
    Recovered,         \* journal records already there when the worker starts
    MaxEvents          \* bound: commits the owner makes in one behaviour

ASSUME WorkerConstants ==
    /\ Capacity \in Nat \ {0}
    /\ SnapshotInterval \in Nat
    /\ SnapshotOnClose \in BOOLEAN
    /\ Recovered \in Nat
    /\ MaxEvents \in Nat

VARIABLES
    state,             \* _state
    slots,             \* free permits of _slots
    openReservations,  \* _open_reservations
    pending,           \* _pending_count
    requests,          \* _requests: committed events in order, then Stop
    ticket,            \* the outcome of each committed event
    journal,           \* records of this process complete in the journal file
    written,           \* records of this process known to the thread
    lastSnapshot,      \* _last_snapshot_sequence
    snapshotFile,      \* sequence covered by the snapshot file, 0 when absent
    published,         \* journal sequence of the last state handed out
    thread,            \* program counter of the background thread
    current,           \* the last event the thread took from the queue
    owner,             \* what the owner thread is blocked in
    answer             \* how the owner's last flush or close ended

diskVars   == <<journal, snapshotFile>>
memoryVars == <<written, lastSnapshot, published>>
ownerVars  == <<owner, answer>>
countVars  == <<slots, openReservations, pending>>
vars == <<state, countVars, requests, ticket, diskVars, memoryVars,
          thread, current, ownerVars>>

Stop == 0
Event == 1..MaxEvents

LastSequence == Recovered + written

Init ==
    /\ state = "NEW"
    /\ slots = Capacity
    /\ openReservations = 0
    /\ pending = 0
    /\ requests = <<>>
    /\ ticket = <<>>
    /\ journal = <<>>
    /\ written = 0
    /\ lastSnapshot = Recovered
    /\ snapshotFile \in 0..Recovered
    /\ published \in {0, Recovered}
    /\ thread = "unborn"
    /\ current = 0
    /\ owner = "running"
    /\ answer = "none"

-----------------------------------------------------------------------------
(* The owner thread. *)

Start ==
    /\ owner = "running"
    /\ state = "NEW"
    /\ state' = "RUNNING"
    /\ thread' = "get"
    /\ answer' = "none"
    /\ UNCHANGED <<countVars, requests, ticket, diskVars, memoryVars,
                   current, owner>>

\* Mutant: no permit is asked for.
ReserveUnbounded ==
    /\ owner = "running"
    /\ state = "RUNNING"
    /\ slots' = slots - 1
    /\ openReservations' = openReservations + 1
    /\ answer' = "none"
    /\ UNCHANGED <<state, pending, requests, ticket, diskVars, memoryVars,
                   thread, current, owner>>

Reserve ==
    /\ owner = "running"
    /\ state = "RUNNING"
    /\ slots > 0
    /\ slots' = slots - 1
    /\ openReservations' = openReservations + 1
    /\ answer' = "none"
    /\ UNCHANGED <<state, pending, requests, ticket, diskVars, memoryVars,
                   thread, current, owner>>

Cancel ==
    /\ owner = "running"
    /\ openReservations > 0
    /\ openReservations' = openReservations - 1
    /\ slots' = slots + 1
    /\ answer' = "none"
    /\ UNCHANGED <<state, pending, requests, ticket, diskVars, memoryVars,
                   thread, current, owner>>

\* close refuses while a reservation is open, so a commit never meets a worker
\* that is closing or closed and its last branch, which raises, is unreachable.
Commit ==
    /\ owner = "running"
    /\ openReservations > 0
    /\ Len(ticket) < MaxEvents
    /\ openReservations' = openReservations - 1
    /\ answer' = "none"
    /\ \/ /\ state = "RUNNING"
          /\ pending' = pending + 1
          /\ requests' = Append(requests, Len(ticket) + 1)
          /\ ticket' = Append(ticket, "waiting")
          /\ UNCHANGED slots
       \/ /\ state = "FAILED"
          /\ ticket' = Append(ticket, "failed")
          /\ slots' = slots + 1
          /\ UNCHANGED <<pending, requests>>
    /\ UNCHANGED <<state, diskVars, memoryVars, thread, current, owner>>

FlushCall ==
    /\ owner = "running"
    /\ openReservations = 0
    /\ owner' = "flushing"
    /\ answer' = "none"
    /\ UNCHANGED <<state, countVars, requests, ticket, diskVars, memoryVars,
                   thread, current>>

\* The loop of flush holds the lock whenever it looks at the counters.
FlushReturn ==
    /\ owner = "flushing"
    /\ owner' = "running"
    /\ \/ /\ pending = 0
          /\ state # "FAILED"
          /\ answer' = "flushed"
       \/ /\ state = "FAILED"
          /\ answer' = "raised"
       \/ /\ pending > 0
          /\ state # "FAILED"
          /\ answer' = "timeout"
    /\ UNCHANGED <<state, countVars, requests, ticket, diskVars, memoryVars,
                   thread, current>>

CloseCall ==
    /\ owner = "running"
    /\ \/ /\ state = "NEW"
          /\ state' = "CLOSED"
          /\ answer' = "closed"
          /\ UNCHANGED <<requests, owner>>
       \/ /\ state = "CLOSED"
          /\ answer' = "closed"
          /\ UNCHANGED <<state, requests, owner>>
       \/ /\ state = "FAILED"
          /\ answer' = "raised"
          /\ UNCHANGED <<state, requests, owner>>
       \/ /\ state = "RUNNING"
          /\ openReservations = 0
          /\ state' = "CLOSING"
          /\ requests' = Append(requests, Stop)
          /\ owner' = "joining"
          /\ answer' = "none"
       \/ /\ state = "CLOSING"
          /\ owner' = "joining"
          /\ answer' = "none"
          /\ UNCHANGED <<state, requests>>
    /\ UNCHANGED <<countVars, ticket, diskVars, memoryVars, thread, current>>

CloseReturn ==
    /\ owner = "joining"
    /\ owner' = "running"
    /\ \/ /\ thread # "dead"
          /\ answer' = "timeout"
       \/ /\ thread = "dead"
          /\ answer' = IF state = "CLOSED" THEN "closed" ELSE "raised"
    /\ UNCHANGED <<state, countVars, requests, ticket, diskVars, memoryVars,
                   thread, current>>
-----------------------------------------------------------------------------
(* The background thread. *)

Run == <<state, openReservations, ownerVars>>    \* what a step of _run leaves

\* Mutant: taking a request from the queue already frees its permit.
GetRequestFreesSlot ==
    /\ thread = "get"
    /\ requests # <<>>
    /\ requests' = Tail(requests)
    /\ IF Head(requests) = Stop
       THEN thread' = "stop" /\ UNCHANGED <<current, slots>>
       ELSE /\ thread' = "append"
            /\ current' = Head(requests)
            /\ slots' = slots + 1
    /\ UNCHANGED <<Run, pending, ticket, diskVars, memoryVars>>

GetRequest ==
    /\ thread = "get"
    /\ requests # <<>>
    /\ requests' = Tail(requests)
    /\ IF Head(requests) = Stop
       THEN thread' = "stop" /\ UNCHANGED current
       ELSE thread' = "append" /\ current' = Head(requests)
    /\ UNCHANGED <<Run, slots, pending, ticket, diskVars, memoryVars>>

SnapshotDue(sequence) ==
    /\ SnapshotInterval # 0
    /\ sequence % SnapshotInterval = 0

\* Mutant: the record stays in a buffer of the process.
AppendRecordBuffered ==
    /\ thread = "append"
    /\ journal' \in {journal, Append(journal, current)}
    /\ written' = written + 1
    /\ thread' = IF SnapshotDue(LastSequence + 1)
                 THEN "snapshot" ELSE "publish"
    /\ UNCHANGED <<Run, slots, pending, requests, ticket, snapshotFile,
                   lastSnapshot, published, current>>

\* Mutant: an append that raised is tried again.
AppendRecordRetried ==
    /\ thread = "append"
    /\ \/ /\ journal' = Append(journal, current)
          /\ written' = written + 1
          /\ thread' = IF SnapshotDue(LastSequence + 1)
                       THEN "snapshot" ELSE "publish"
       \/ /\ journal' \in {journal, Append(journal, current)}
          /\ UNCHANGED <<thread, written>>
    /\ UNCHANGED <<Run, slots, pending, requests, ticket, snapshotFile,
                   lastSnapshot, published, current>>

\* apply_replay_event, JournalFile.append and the continuity check.  An error
\* leaves the file without the record, or with it when only the fsync or the
\* close behind a complete write failed.
AppendRecord ==
    /\ thread = "append"
    /\ \/ /\ journal' = Append(journal, current)
          /\ written' = written + 1
          /\ thread' = IF SnapshotDue(LastSequence + 1)
                       THEN "snapshot" ELSE "publish"
       \/ /\ journal' \in {journal, Append(journal, current)}
          /\ thread' = "failTicket"
          /\ UNCHANGED written
    /\ UNCHANGED <<Run, slots, pending, requests, ticket, snapshotFile,
                   lastSnapshot, published, current>>

\* _write_snapshot: an error comes before os.replace, or after it when only the
\* directory fsync failed.
WriteSnapshot(ok, failed) ==
    \/ /\ snapshotFile' = LastSequence
       /\ lastSnapshot' = LastSequence
       /\ ok
    \/ /\ snapshotFile' \in {snapshotFile, LastSequence}
       /\ UNCHANGED lastSnapshot
       /\ failed

PeriodicSnapshot ==
    /\ thread = "snapshot"
    /\ WriteSnapshot(thread' = "publish", thread' = "failTicket")
    /\ UNCHANGED <<Run, slots, pending, requests, ticket, journal, written,
                   published, current>>

\* _publish_state_best_effort: there may be no publisher, or it may raise.
Publish ==
    /\ thread = "publish"
    /\ published' \in {published, LastSequence}
    /\ thread' = "succeedTicket"
    /\ UNCHANGED <<Run, slots, pending, requests, ticket, diskVars, written,
                   lastSnapshot, current>>

SettleTicket(at, outcome, next) ==
    /\ thread = at
    /\ ticket' = [ticket EXCEPT ![current] = outcome]
    /\ thread' = next
    /\ UNCHANGED <<Run, slots, pending, requests, diskVars, memoryVars,
                   current>>

SucceedTicket == SettleTicket("succeedTicket", "succeeded", "release")
FailTicket    == SettleTicket("failTicket", "failed", "failRelease")
DrainTicket   == SettleTicket("drainTicket", "failed", "drainRelease")

\* _complete_request: the permit goes back before the lock is taken.
ReleaseSlot ==
    /\ \/ thread = "release"      /\ thread' = "decrement"
       \/ thread = "failRelease"  /\ thread' = "failDecrement"
       \/ thread = "drainRelease" /\ thread' = "drainDecrement"
    /\ slots' = slots + 1
    /\ UNCHANGED <<Run, pending, requests, ticket, diskVars, memoryVars,
                   current>>

\* Mutant: the thread carries on with the next request after an error.
DecrementPendingCarriesOn ==
    /\ \/ thread \in {"decrement", "failDecrement"} /\ thread' = "get"
       \/ thread = "drainDecrement" /\ thread' = "drain"
    /\ pending' = pending - 1
    /\ UNCHANGED <<Run, slots, requests, ticket, diskVars, memoryVars,
                   current>>

DecrementPending ==
    /\ \/ thread = "decrement"      /\ thread' = "get"
       \/ thread = "failDecrement"  /\ thread' = "latch"
       \/ thread = "drainDecrement" /\ thread' = "drain"
    /\ pending' = pending - 1
    /\ UNCHANGED <<Run, slots, requests, ticket, diskVars, memoryVars,
                   current>>

\* Mutant: the failure is latched and the queue abandoned.
LatchFailureAbandons ==
    /\ thread = "latch"
    /\ state' = "FAILED"
    /\ thread' = "dead"
    /\ UNCHANGED <<countVars, requests, ticket, diskVars, memoryVars,
                   current, ownerVars>>

\* Mutant: the thread ends and tells nobody.
LatchFailureSilent ==
    /\ thread = "latch"
    /\ thread' = "dead"
    /\ UNCHANGED <<state, countVars, requests, ticket, diskVars, memoryVars,
                   current, ownerVars>>

LatchFailure ==
    /\ thread = "latch"
    /\ state' = "FAILED"
    /\ thread' = "drain"
    /\ UNCHANGED <<countVars, requests, ticket, diskVars, memoryVars,
                   current, ownerVars>>

\* _fail_queued_requests.
DrainRequest ==
    /\ thread = "drain"
    /\ \/ /\ requests = <<>>
          /\ thread' = "dead"
          /\ UNCHANGED <<requests, current>>
       \/ /\ requests # <<>>
          /\ requests' = Tail(requests)
          /\ IF Head(requests) = Stop
             THEN UNCHANGED <<thread, current>>
             ELSE thread' = "drainTicket" /\ current' = Head(requests)
    /\ UNCHANGED <<Run, slots, pending, ticket, diskVars, memoryVars>>

StopThread ==
    /\ thread = "stop"
    /\ thread' = "dead"
    /\ IF SnapshotOnClose /\ written > 0 /\ lastSnapshot # LastSequence
       THEN WriteSnapshot(state' = "CLOSED", state' = "FAILED")
       ELSE state' = "CLOSED" /\ UNCHANGED <<snapshotFile, lastSnapshot>>
    /\ UNCHANGED <<countVars, requests, ticket, journal, written, published,
                   current, ownerVars>>

Owner ==
    \/ Start \/ Reserve \/ Cancel \/ Commit
    \/ FlushCall \/ FlushReturn \/ CloseCall \/ CloseReturn

Thread ==
    \/ GetRequest \/ AppendRecord \/ PeriodicSnapshot \/ Publish
    \/ SucceedTicket \/ FailTicket \/ DrainTicket
    \/ ReleaseSlot \/ DecrementPending \/ LatchFailure \/ DrainRequest
    \/ StopThread

Next == Owner \/ Thread

Spec == Init /\ [][Next]_vars

\* The operating system schedules the thread; a blocked owner call returns once
\* what it waits for is there (its timeout is not assumed to fire).
FlushDone == FlushReturn /\ answer' # "timeout"
CloseDone == CloseReturn /\ answer' # "timeout"
FairSpec == Spec /\ WF_vars(Thread) /\ WF_vars(FlushDone) /\ WF_vars(CloseDone)

-----------------------------------------------------------------------------
(* Derived views. *)

HasStop == requests # <<>> /\ requests[Len(requests)] = Stop
Writes == IF HasStop THEN Len(requests) - 1 ELSE Len(requests)

\* The thread holds a request that _pending_count still counts.
Counted == {"append", "snapshot", "publish", "succeedTicket", "release",
            "decrement", "failTicket", "failRelease", "failDecrement",
            "drainTicket", "drainRelease", "drainDecrement"}
\* ... and whose permit is already back in the semaphore.
Released == {"decrement", "failDecrement", "drainDecrement"}
\* ... and whose ticket nobody has settled yet.
Unsettled == {"append", "snapshot", "publish", "succeedTicket", "failTicket",
              "drainTicket"}
\* From the first error on.
Failing == {"failTicket", "failRelease", "failDecrement", "latch", "drain",
            "drainTicket", "drainRelease", "drainDecrement"}
ThreadPoints == Counted \cup Failing \cup {"unborn", "get", "stop", "dead"}

InHand(set) == IF thread \in set THEN 1 ELSE 0

TypeOK ==
    /\ state \in {"NEW", "RUNNING", "CLOSING", "CLOSED", "FAILED"}
    /\ slots \in Nat
    /\ openReservations \in Nat
    /\ pending \in Nat
    /\ requests \in Seq(Event \cup {Stop})
    /\ ticket \in Seq({"waiting", "succeeded", "failed"})
    /\ Len(ticket) <= MaxEvents
    /\ journal \in Seq(Event)
    /\ written \in Nat
    /\ lastSnapshot \in Nat
    /\ snapshotFile \in Nat
    /\ published \in Nat
    /\ thread \in ThreadPoints
    /\ current \in Event \cup {0}
    /\ owner \in {"running", "flushing", "joining"}
    /\ answer \in {"none", "flushed", "closed", "raised", "timeout"}

-----------------------------------------------------------------------------
(* What the worker promises. *)

\* Reservations, queued requests and the request being written never exceed the
\* capacity, and the bounded semaphore is never released beyond its bound
\* (which would raise in the thread and leave tickets unsettled).
CapacityRespected ==
    /\ slots <= Capacity
    /\ openReservations + Writes + InHand(Unsettled) <= Capacity

\* The journal holds the committed events in commit order, without a gap and
\* without a repetition.
JournalIsCommitOrder ==
    /\ Len(journal) <= Len(ticket)
    /\ \A i \in 1..Len(journal) : journal[i] = i

\* A ticket succeeds only once its record is complete in the journal file.
SuccessIsDurable ==
    \A e \in 1..Len(ticket) :
        ticket[e] = "succeeded" => e \in 1..Len(journal)

\* At most one record outlives a failed ticket: the record whose fsync, close
\* or periodic snapshot failed.  Every other journaled event is acknowledged,
\* or about to be.
OneAmbiguousRecord ==
    \A e \in 1..Len(journal) :
        ticket[e] = "failed" => e = Len(journal)

\* The first failure is final: no event committed after a failed one succeeds,
\* although commits are still admitted until the failure is latched.
FailureIsFinal ==
    \A e, f \in 1..Len(ticket) :
        e < f /\ ticket[e] = "failed" => ticket[f] # "succeeded"

\* When the thread has ended, no ticket is left waiting and nothing is queued:
\* a commit that slipped in before the latch is drained and failed.
NoOrphanedTicket ==
    thread = "dead" =>
        /\ requests = <<>>
        /\ pending = 0
        /\ \A e \in 1..Len(ticket) : ticket[e] # "waiting"

\* What a ticket says of its event is true of the journal, whenever an append,
\* an fsync or a snapshot fails and whatever its owner does meanwhile.
TicketsTellTruth ==
    /\ JournalIsCommitOrder
    /\ SuccessIsDurable
    /\ OneAmbiguousRecord
    /\ FailureIsFinal
    /\ NoOrphanedTicket

\* A worker that reports CLOSED has journaled and acknowledged everything it
\* accepted and, when asked to, covered it by its final snapshot.
CleanClose ==
    state = "CLOSED" =>
        /\ \A e \in 1..Len(ticket) : ticket[e] = "succeeded"
        /\ Len(journal) = Len(ticket)
        /\ SnapshotOnClose /\ journal # <<>> =>
               snapshotFile = Recovered + Len(journal)

\* Neither the snapshot file nor a published state ever runs ahead of the
\* journal file: recovery refuses such a snapshot.
SnapshotBehindJournal ==
    /\ snapshotFile <= Recovered + Len(journal)
    /\ published <= Recovered + Len(journal)

\* What a later process finds in the files of this one: never a snapshot ahead of
\* the journal and, after CLOSED, everything that was accepted.
FilesAgree == SnapshotBehindJournal /\ CleanClose

\* Once FAILED or CLOSED, a worker stays so, whatever its owner calls.
TerminalStates ==
    [][(state \in {"FAILED", "CLOSED"}) => UNCHANGED state]_vars

\* Every committed event is eventually acknowledged or failed.
EveryTicketSettles ==
    \A e \in Event :
        (e \in DOMAIN ticket /\ ticket[e] = "waiting")
            ~> (e \in DOMAIN ticket /\ ticket[e] # "waiting")

\* A flush or a close without a timeout returns.
OwnerReturns == owner # "running" ~> owner = "running"
=============================================================================
