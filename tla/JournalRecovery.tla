--------------------------- MODULE JournalRecovery ---------------------------
(***************************************************************************)
(* The journal and the snapshot file across crashes: JournalFile.append,   *)
(* SnapshotStore.write and recover, as one process after another uses them *)
(* (its background worker is the only writer).                             *)
(*                                                                         *)
(* A digest is collision free, so it is the list of the events it covers:  *)
(* a chain.  A record holds the chain before it and its event.  A state    *)
(* is the events it was replayed from, and whether every field of it was   *)
(* rebuilt by the current code: a snapshot of an old schema misses fields. *)
(*                                                                         *)
(* A crash of the process keeps what the kernel has; a crash of the host   *)
(* keeps what was synchronised, and any part of the rest.                  *)
(***************************************************************************)
EXTENDS Naturals, Sequences

CONSTANTS
    Event,             \* replay events
    None,              \* no event, no tail
    SnapshotInterval,  \* records per periodic snapshot; 0 is None
    DurableCreate,     \* fsync of a new file makes its directory entry durable
    MaxRecords         \* bound: length of the journal

ASSUME RecoveryConstants ==
    /\ None \notin Event \cup Seq(Event)
    /\ SnapshotInterval \in Nat
    /\ DurableCreate \in BOOLEAN
    /\ MaxRecords \in Nat

VARIABLES
    file,        \* complete records of the journal file
    torn,        \* whether a partial record follows them
    entry,       \* the file's directory entry: absent, volatile or durable
    stable,      \* records that survive a crash of the host
    snapshot,    \* what the snapshot path names
    oldSnapshots, \* what else it may name after a crash of the host
    proc,        \* where the process is
    closing,     \* the snapshot under way is the final one of close
    tail,        \* JournalFile._tail: the chain of the last record
    hand,        \* the event being appended
    replayed,    \* the worker's _replay_state, _last_sequence, _last_digest
    snapshotted, \* _last_snapshot_sequence
    promised     \* the chain at the last acknowledgement

journalVars  == <<file, torn, entry, stable>>
snapshotVars == <<snapshot, oldSnapshots>>
processVars  == <<closing, tail, hand, replayed, snapshotted>>
vars == <<journalVars, snapshotVars, proc, processVars, promised>>

Chains == UNION {[1..n -> Event] : n \in 0..MaxRecords}

\* SnapshotStore.read finds no file: recovery starts from an empty state, as it
\* would from a snapshot of sequence 0.
NoSnapshot == [covers |-> <<>>, legacy |-> FALSE, exact |-> TRUE]

\* The chain of the first n records.
Chain(n) == [i \in 1..n |-> file[i].event]
WholeChain == Chain(Len(file))

\* chain begins with start.
Extends(chain, start) ==
    /\ Len(start) <= Len(chain)
    /\ \A i \in 1..Len(start) : chain[i] = start[i]

-----------------------------------------------------------------------------
(* Recovery. *)

\* _decode_record along read_records: no partial line, an unbroken chain.
JournalReadable ==
    /\ ~torn
    /\ \A i \in 1..Len(file) : file[i].previous = Chain(i - 1)

\* The checks of recover: not ahead of the journal, and a digest of its chain.
SnapshotMatches ==
    /\ Len(snapshot.covers) <= Len(file)
    /\ snapshot.covers = Chain(Len(snapshot.covers))

\* Mutant: an old snapshot is taken as it is.
RecoveredFromAnySnapshot ==
    [history |-> WholeChain, exact |-> snapshot.exact]

\* replay_records over what the snapshot does not cover; a snapshot older than
\* schema 21 only serves the checks and the whole journal is replayed.
Recovered ==
    [history |-> WholeChain,
     exact   |-> snapshot.legacy \/ snapshot.exact]

EmptyState == [history |-> <<>>, exact |-> TRUE]

\* The files an earlier run left: maybe by a version with an older schema.
Init ==
    /\ \E chain \in Chains :
          /\ Len(chain) < MaxRecords
          /\ file = [i \in 1..Len(chain) |->
                        [event |-> chain[i],
                         previous |-> SubSeq(chain, 1, i - 1)]]
          /\ stable = Len(chain)
          /\ entry = IF chain = <<>> THEN "absent" ELSE "durable"
          /\ \/ snapshot = NoSnapshot
             \/ \E n \in 1..Len(chain), old \in BOOLEAN :
                   snapshot = [covers |-> SubSeq(chain, 1, n),
                               legacy |-> old, exact |-> ~old]
          /\ promised = chain
    /\ torn = FALSE
    /\ oldSnapshots = {}
    /\ proc = "down"
    /\ closing = FALSE
    /\ tail = None
    /\ hand = None
    /\ replayed = EmptyState
    /\ snapshotted = 0

\* PersistenceWorker.open.  When a check fails recover raises, the process
\* ends, and nothing changes.
Recover ==
    /\ proc = "down"
    /\ JournalReadable
    /\ SnapshotMatches
    /\ proc' = "running"
    /\ replayed' = Recovered
    /\ snapshotted' = Len(file)
    /\ UNCHANGED <<journalVars, snapshotVars, closing, tail, hand, promised>>

-----------------------------------------------------------------------------
(* JournalFile.append. *)

\* Mutant: the tail is not read from the file.
OpenJournalBlind ==
    /\ proc = "running"
    /\ Len(file) < MaxRecords
    /\ hand' \in Event
    /\ proc' = "write"
    /\ entry' = IF entry = "absent" THEN "volatile" ELSE entry
    /\ UNCHANGED <<file, torn, stable, snapshotVars, closing, tail, replayed,
                   snapshotted, promised>>

\* The lock, the tail (read from the file the first time) and os.open, which
\* creates the file when it is absent; reading or opening may raise.
OpenJournal ==
    /\ proc = "running"
    /\ Len(file) < MaxRecords
    /\ hand' \in Event
    /\ tail' = IF tail = None THEN WholeChain ELSE tail
    /\ \/ /\ proc' = "write"
          /\ entry' = IF entry = "absent" THEN "volatile" ELSE entry
       \/ proc' = "ending" /\ UNCHANGED entry
    /\ UNCHANGED <<file, torn, stable, snapshotVars, closing, replayed,
                   snapshotted, promised>>

\* Mutant: the length os.write returned is not looked at.
WriteRecordUnchecked ==
    /\ proc = "write"
    /\ \/ /\ file' = Append(file, [event |-> hand, previous |-> tail])
          /\ UNCHANGED torn
       \/ /\ torn' = TRUE
          /\ UNCHANGED file
    /\ proc' = "sync"
    /\ UNCHANGED <<entry, stable, snapshotVars, processVars, promised>>

\* One O_APPEND write: complete, short, or refused.
WriteRecord ==
    /\ proc = "write"
    /\ \/ /\ file' = Append(file, [event |-> hand, previous |-> tail])
          /\ proc' = "sync"
          /\ UNCHANGED torn
       \/ /\ torn' \in {torn, TRUE}
          /\ proc' = "ending"
          /\ UNCHANGED file
    /\ UNCHANGED <<entry, stable, snapshotVars, processVars, promised>>

\* Mutant: a failed fsync is ignored.
SyncRecordUnchecked ==
    /\ proc = "sync"
    /\ stable' \in {stable, Len(file)}
    /\ entry' = IF DurableCreate THEN "durable" ELSE entry
    /\ proc' = "advance"
    /\ UNCHANGED <<file, torn, snapshotVars, processVars, promised>>

SyncRecord ==
    /\ proc = "sync"
    /\ \/ /\ stable' = Len(file)
          /\ entry' = IF DurableCreate THEN "durable" ELSE entry
          /\ proc' = "advance"
       \/ /\ proc' = "ending"
          /\ UNCHANGED <<stable, entry>>
    /\ UNCHANGED <<file, torn, snapshotVars, processVars, promised>>

SnapshotDue(sequence) ==
    /\ SnapshotInterval # 0
    /\ sequence % SnapshotInterval = 0

\* append remembers the tail; the worker refuses a record that does not follow
\* its own boundary, then moves that boundary.
Advance ==
    /\ proc = "advance"
    /\ tail' = Append(tail, hand)
    /\ IF tail = replayed.history
       THEN /\ replayed' = [replayed EXCEPT !.history = Append(@, hand)]
            /\ proc' = IF SnapshotDue(Len(tail) + 1)
                       THEN "replace" ELSE "answer"
       ELSE /\ proc' = "ending"
            /\ UNCHANGED replayed
    /\ UNCHANGED <<journalVars, snapshotVars, closing, hand, snapshotted,
                   promised>>

\* The ticket succeeds.
Acknowledge ==
    /\ proc = "answer"
    /\ proc' = "running"
    /\ promised' = replayed.history
    /\ UNCHANGED <<journalVars, snapshotVars, processVars>>

-----------------------------------------------------------------------------
(* SnapshotStore.write. *)

\* The temporary file is complete and synchronised before os.replace; an error
\* before the replacement removes it.
ReplaceSnapshot ==
    /\ proc = "replace"
    /\ \/ /\ snapshot' = [covers |-> replayed.history, legacy |-> FALSE,
                          exact |-> replayed.exact]
          /\ oldSnapshots' = oldSnapshots \cup {snapshot}
          /\ proc' = "syncDirectory"
       \/ /\ proc' = "ending"
          /\ UNCHANGED snapshotVars
    /\ UNCHANGED <<journalVars, processVars, promised>>

\* The journal lives in the same directory.
SyncDirectory ==
    /\ proc = "syncDirectory"
    /\ \/ /\ oldSnapshots' = {}
          /\ entry' = IF entry = "volatile" THEN "durable" ELSE entry
          /\ snapshotted' = Len(replayed.history)
          /\ proc' = IF closing THEN "ending" ELSE "answer"
       \/ /\ proc' = "ending"
          /\ UNCHANGED <<oldSnapshots, entry, snapshotted>>
    /\ UNCHANGED <<file, torn, stable, snapshot, closing, tail, hand, replayed,
                   promised>>

\* close: a final snapshot of what no snapshot covers yet.
Close ==
    /\ proc = "running"
    /\ closing' = TRUE
    /\ proc' = IF snapshotted # Len(replayed.history)
               THEN "replace" ELSE "ending"
    /\ UNCHANGED <<journalVars, snapshotVars, tail, hand, replayed,
                   snapshotted, promised>>

-----------------------------------------------------------------------------
(* Ends of a process. *)

\* What the process held in memory is gone.
Forget ==
    /\ closing' = FALSE
    /\ tail' = None
    /\ hand' = None
    /\ replayed' = EmptyState
    /\ snapshotted' = 0

\* The process ends: after a latched failure, after close, or killed.
Exit ==
    /\ proc # "down"
    /\ proc' = "down"
    /\ Forget
    /\ UNCHANGED <<journalVars, snapshotVars, promised>>

\* The host stops.  Records behind the stable ones survive up to any point, the
\* last of them maybe in part; a directory keeps its changes up to any point in
\* the order they were made: without the journal there is no snapshot either.
HostCrash ==
    /\ \/ \E n \in stable..Len(file) :
             /\ entry # "absent"
             /\ file' = SubSeq(file, 1, n)
             /\ torn' \in IF torn \/ n < Len(file) THEN BOOLEAN ELSE {FALSE}
             /\ stable' = n
             /\ entry' = "durable"
             /\ snapshot' \in oldSnapshots \cup {snapshot}
       \/ /\ entry # "durable"
          /\ file' = <<>>
          /\ torn' = FALSE
          /\ stable' = 0
          /\ entry' = "absent"
          /\ snapshot' = NoSnapshot
    /\ oldSnapshots' = {}
    /\ proc' = "down"
    /\ Forget
    /\ UNCHANGED promised

Next ==
    \/ Recover \/ OpenJournal \/ WriteRecord \/ SyncRecord \/ Advance
    \/ Acknowledge \/ ReplaceSnapshot \/ SyncDirectory \/ Close
    \/ Exit \/ HostCrash

Spec == Init /\ [][Next]_vars

-----------------------------------------------------------------------------

Snapshots == [covers : Seq(Event), legacy : BOOLEAN, exact : BOOLEAN]

TypeOK ==
    /\ file \in Seq([event : Event, previous : Seq(Event)])
    /\ torn \in BOOLEAN
    /\ entry \in {"absent", "volatile", "durable"}
    /\ stable \in 0..Len(file)
    /\ snapshot \in Snapshots
    /\ oldSnapshots \in SUBSET Snapshots
    /\ proc \in {"down", "running", "write", "sync", "advance", "answer",
                 "replace", "syncDirectory", "ending"}
    /\ closing \in BOOLEAN
    /\ tail \in Seq(Event) \cup {None}
    /\ hand \in Event \cup {None}
    /\ replayed \in [history : Seq(Event), exact : BOOLEAN]
    /\ snapshotted \in Nat
    /\ promised \in Seq(Event)

\* A process that may accept input holds the replay of the whole journal, every
\* field of it computed by the current code, whichever snapshot it started from
\* and whatever crashed before; while it writes, it is behind by that record.
RecoveredStateIsReplay ==
    /\ proc # "down" => replayed.exact /\ Extends(WholeChain, replayed.history)
    /\ proc \in {"running", "answer"} => replayed.history = WholeChain

\* Only a partial record keeps a process from starting: after every crash the
\* digest chain is unbroken and the snapshot lies within it.
OnlyTornJournalRefused == ~torn => JournalReadable /\ SnapshotMatches

\* Recovery succeeds on every journal whose last record is complete, and what it
\* returns is the replay of that journal.
RecoveryIsFaithful == RecoveredStateIsReplay /\ OnlyTornJournalRefused

\* No crash takes back an acknowledged event or reorders it (on a file system
\* where fsync of a new file covers its directory entry).
PromisesSurvive == DurableCreate => Extends(WholeChain, promised)

\* No record is ever written behind a partial one: the writer stops at a short
\* write and no later process gets past recovery.
NothingBehindTornRecord == [][Len(file') > Len(file) => ~torn]_vars
=============================================================================
