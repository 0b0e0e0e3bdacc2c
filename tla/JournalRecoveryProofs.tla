------------------------ MODULE JournalRecoveryProofs ------------------------
(***************************************************************************)
(* The inductive invariant of the journal and its snapshot, and what       *)
(* follows from it for every set of events, interval and journal length.   *)
(***************************************************************************)
EXTENDS JournalRecovery, TLAPS

Log == INSTANCE CrashSafeLog WITH log <- WholeChain

\* The digest chain of the file is unbroken, torn or not.
FileShape == \A i \in 1..Len(file) : file[i].previous = Chain(i - 1)

\* Whatever the snapshot path may name after a crash lies within the records
\* that survive it, and serves recovery.
SnapshotShape ==
    \A s \in oldSnapshots \cup {snapshot} :
        /\ Len(s.covers) <= stable
        /\ s.covers = Chain(Len(s.covers))
        /\ s.legacy \/ s.exact

\* What was acknowledged lies within the records that survive a crash, and the
\* file that holds them cannot vanish.
PromiseShape ==
    DurableCreate =>
        /\ Len(promised) <= stable
        /\ Extends(WholeChain, promised)
        /\ stable > 0 => entry = "durable"

\* Where the process is fixes how its memory relates to the file.
ProcessShape ==
    /\ torn => proc \in {"ending", "down"}
    /\ proc = "down" => tail = None
    /\ proc # "down" =>
           replayed.exact /\ Extends(WholeChain, replayed.history)
    /\ proc \in {"running", "write", "answer", "replace", "syncDirectory"} =>
           replayed.history = WholeChain
    /\ proc \in {"running", "answer", "replace", "syncDirectory"} =>
           tail \in {None, WholeChain}
    /\ proc \in {"write", "sync", "advance"} => hand \in Event
    /\ proc = "write" => tail = WholeChain
    /\ proc \in {"sync", "advance"} =>
           tail = replayed.history /\ WholeChain = Append(tail, hand)
    /\ proc \in {"advance", "answer", "replace", "syncDirectory"} =>
           stable = Len(file)
    /\ proc = "running" /\ snapshotted # Len(replayed.history) =>
           stable = Len(file)

IInv ==
    /\ TypeOK
    /\ FileShape
    /\ SnapshotShape
    /\ PromiseShape
    /\ ProcessShape

\* The files keep the promise of CrashSafeLog on a file system where fsync of a
\* new file covers its directory entry (JournalFile.append, fsync of the file).
LogSpec == Log!Spec

-----------------------------------------------------------------------------
(* Chains. *)

USE RecoveryConstants

Record == [event : Event, previous : Seq(Event)]

\* A chain lists the events of the records it covers.
LEMMA ChainFacts ==
    ASSUME file \in Seq(Record), NEW n \in 0..Len(file)
    PROVE  /\ Chain(n) \in Seq(Event)
           /\ Len(Chain(n)) = n
           /\ \A i \in 1..n : Chain(n)[i] = file[i].event
<1>1. n \in Nat /\ \A i \in 1..n : file[i] \in Record
  OBVIOUS
<1>2. \A i \in 1..n : file[i].event \in Event
  BY <1>1 DEF Record
<1>3. Chain(n) \in Seq(Event) /\ Len(Chain(n)) = n
  BY <1>2 DEF Chain
<1> QED
  BY <1>3 DEF Chain

\* A step that leaves the file alone leaves every chain.
LEMMA SameChains ==
    ASSUME UNCHANGED file
    PROVE  /\ \A n : Chain(n)' = Chain(n)
           /\ WholeChain' = WholeChain
  BY DEF Chain, WholeChain

\* A record at the end extends the whole chain and keeps the shorter ones.
LEMMA LongerChains ==
    ASSUME file \in Seq(Record), NEW r \in Record, file' = Append(file, r)
    PROVE  /\ file' \in Seq(Record)
           /\ Len(file') = Len(file) + 1
           /\ \A i \in 1..Len(file) : file'[i] = file[i]
           /\ file'[Len(file) + 1] = r
           /\ \A n \in 0..Len(file) : Chain(n)' = Chain(n)
           /\ WholeChain' = Append(WholeChain, r.event)
<1>1. /\ file' \in Seq(Record)
      /\ Len(file') = Len(file) + 1
      /\ \A i \in 1..Len(file) : file'[i] = file[i]
      /\ file'[Len(file) + 1] = r
  OBVIOUS
<1>2. \A n \in 0..Len(file) : Chain(n)' = Chain(n)
  BY DEF Chain
<1>3. WholeChain' = Append(WholeChain, r.event)
  BY DEF Chain, WholeChain
<1> QED
  BY <1>2, <1>3

\* Records lost from the end leave the shorter chains.
LEMMA ShorterChains ==
    ASSUME file \in Seq(Record), NEW k \in 0..Len(file),
           file' = SubSeq(file, 1, k)
    PROVE  /\ file' \in Seq(Record)
           /\ Len(file') = k
           /\ \A i \in 1..k : file'[i] = file[i]
           /\ \A n \in 0..k : Chain(n)' = Chain(n)
           /\ WholeChain' = SubSeq(WholeChain, 1, k)
<1>1. /\ file' \in Seq(Record)
      /\ Len(file') = k
      /\ \A i \in 1..k : file'[i] = file[i]
  OBVIOUS
<1>2. \A n \in 0..k : Chain(n)' = Chain(n)
  BY DEF Chain
<1>3. WholeChain' = SubSeq(WholeChain, 1, k)
  BY DEF Chain, WholeChain
<1> QED
  BY <1>2, <1>3

\* The whole chain covers the whole file.
LEMMA WholeChainFacts ==
    ASSUME TypeOK
    PROVE  /\ file \in Seq(Record)
           /\ WholeChain \in Seq(Event)
           /\ Len(WholeChain) = Len(file)
           /\ \A i \in 1..Len(file) : WholeChain[i] = file[i].event
  BY ChainFacts DEF TypeOK, WholeChain, Record

-----------------------------------------------------------------------------
(* The inductive invariant. *)

\* A process that has forgotten everything, and a missing snapshot file.
LEMMA EmptyFacts ==
    /\ EmptyState \in [history : Seq(Event), exact : BOOLEAN]
    /\ NoSnapshot \in Snapshots
  BY DEF EmptyState, NoSnapshot, Snapshots

\* The files an earlier run left satisfy the invariant.
LEMMA InitIInv == Init => IInv
<1> SUFFICES ASSUME Init PROVE IInv
  OBVIOUS
<1>1. PICK chain \in Chains :
          /\ file = [i \in 1..Len(chain) |->
                        [event |-> chain[i],
                         previous |-> SubSeq(chain, 1, i - 1)]]
          /\ stable = Len(chain)
          /\ entry = IF chain = <<>> THEN "absent" ELSE "durable"
          /\ \/ snapshot = NoSnapshot
             \/ \E n \in 1..Len(chain), old \in BOOLEAN :
                   snapshot = [covers |-> SubSeq(chain, 1, n),
                               legacy |-> old, exact |-> ~old]
          /\ promised = chain
  BY DEF Init
<1>2. chain \in Seq(Event) /\ Len(chain) \in Nat
  BY DEF Chains
<1>3. \A i \in 0..Len(chain) :
          /\ SubSeq(chain, 1, i) \in Seq(Event)
          /\ Len(SubSeq(chain, 1, i)) = i
  BY <1>2
<1>4. file \in Seq(Record) /\ Len(file) = Len(chain)
  <2>1. \A i \in 1..Len(chain) : chain[i] \in Event /\ i - 1 \in 0..Len(chain)
    BY <1>2
  <2>2. \A i \in 1..Len(chain) : file[i] \in Record
    BY <1>1, <1>3 DEF Record
  <2> QED
    BY <1>1, <2>2
<1>5. \A i \in 1..Len(chain) :
          /\ file[i].event = chain[i]
          /\ file[i].previous = SubSeq(chain, 1, i - 1)
  BY <1>1
<1>6. \A n \in 0..Len(chain) : Chain(n) = SubSeq(chain, 1, n)
  BY <1>5 DEF Chain
<1>7. WholeChain = chain
  BY <1>2, <1>4, <1>6 DEF WholeChain
<1>8. snapshot \in Snapshots
  <2>1. CASE snapshot = NoSnapshot
    BY <2>1, EmptyFacts
  <2>2. CASE snapshot # NoSnapshot
    <3>1. PICK n \in 1..Len(chain), old \in BOOLEAN :
              snapshot = [covers |-> SubSeq(chain, 1, n),
                          legacy |-> old, exact |-> ~old]
      BY <1>1, <2>2
    <3> QED
      BY <1>2, <3>1 DEF Snapshots
  <2> QED
    BY <2>1, <2>2
<1>9. TypeOK
  <2>1. /\ stable = Len(chain) /\ promised = chain
        /\ entry \in {"absent", "volatile", "durable"}
    BY <1>1
  <2>2. stable \in 0..Len(file)
    BY <1>4, <2>1
  <2> QED
    BY <1>2, <1>4, <1>8, <2>1, <2>2, EmptyFacts DEF Init, TypeOK, Record
<1>10. FileShape
  <2>1. \A i \in 1..Len(file) : i \in 1..Len(chain) /\ i - 1 \in 0..Len(chain)
    BY <1>4
  <2> QED
    BY <1>5, <1>6, <2>1 DEF FileShape
<1>11. SnapshotShape
  <2>1. CASE snapshot = NoSnapshot
    BY <1>6, <2>1 DEF Init, SnapshotShape, NoSnapshot
  <2>2. CASE snapshot # NoSnapshot
    <3>1. PICK n \in 1..Len(chain), old \in BOOLEAN :
              snapshot = [covers |-> SubSeq(chain, 1, n),
                          legacy |-> old, exact |-> ~old]
      BY <1>1, <2>2
    <3>2. /\ n \in 0..Len(chain)
          /\ Len(snapshot.covers) = n
          /\ snapshot.covers = SubSeq(chain, 1, n)
      BY <3>1
    <3>3. snapshot.legacy \/ snapshot.exact
      BY <3>1
    <3> QED
      BY <1>1, <1>6, <3>2, <3>3 DEF Init, SnapshotShape
  <2> QED
    BY <2>1, <2>2
<1>12. PromiseShape
  BY <1>1, <1>7 DEF PromiseShape, Extends
<1>13. ProcessShape
  BY DEF Init, ProcessShape
<1> QED
  BY <1>9, <1>10, <1>11, <1>12, <1>13 DEF IInv

\* Every file operation, end and crash preserves it.
LEMMA StepIInv == IInv /\ [Next]_vars => IInv'
<1> SUFFICES ASSUME IInv, [Next]_vars PROVE IInv'
  OBVIOUS
<1> USE WholeChainFacts DEF IInv
<1>1. CASE Recover
  <2>1. /\ UNCHANGED file
        /\ WholeChain' = WholeChain
        /\ \A n : Chain(n)' = Chain(n)
    BY <1>1, SameChains DEF Recover, journalVars
  <2>2. TypeOK'
    BY <1>1 DEF TypeOK, Recover, journalVars, snapshotVars, Recovered
  <2>3. FileShape'
    BY <2>1 DEF FileShape
  <2>4. SnapshotShape'
    BY <1>1, <2>1 DEF SnapshotShape, Recover, journalVars, snapshotVars
  <2>5. PromiseShape'
    BY <1>1, <2>1 DEF PromiseShape, Recover, journalVars
  <2>6. ProcessShape'
    <3>1. snapshot.legacy \/ snapshot.exact
      BY DEF SnapshotShape
    <3>2. replayed' = [history |-> WholeChain,
                       exact |-> snapshot.legacy \/ snapshot.exact]
      BY <1>1 DEF Recover, Recovered
    <3>3. replayed'.exact /\ replayed'.history = WholeChain
      BY <3>1, <3>2
    <3>4. Extends(WholeChain, WholeChain)
      BY DEF Extends
    <3> QED
      BY <1>1, <2>1, <3>3, <3>4 DEF ProcessShape, JournalReadable, Recover,
                                    journalVars
  <2> QED
    BY <2>2, <2>3, <2>4, <2>5, <2>6
<1>2. CASE OpenJournal
  <2>1. /\ UNCHANGED file
        /\ WholeChain' = WholeChain
        /\ \A n : Chain(n)' = Chain(n)
    BY <1>2, SameChains DEF OpenJournal
  <2>2. TypeOK'
    BY <1>2 DEF TypeOK, OpenJournal, snapshotVars
  <2>3. FileShape'
    BY <2>1 DEF FileShape
  <2>4. SnapshotShape'
    BY <1>2, <2>1 DEF SnapshotShape, OpenJournal, snapshotVars
  <2>5. PromiseShape'
    BY <1>2, <2>1 DEF PromiseShape, OpenJournal
  <2>6. ProcessShape'
    BY <1>2, <2>1 DEF ProcessShape, OpenJournal
  <2> QED
    BY <2>2, <2>3, <2>4, <2>5, <2>6
<1>3. CASE WriteRecord
  <2>1. CASE UNCHANGED file /\ torn' \in {torn, TRUE} /\ proc' = "ending"
    <3>1. WholeChain' = WholeChain /\ \A n : Chain(n)' = Chain(n)
      BY <2>1, SameChains
    <3>2. TypeOK'
      BY <1>3, <2>1 DEF TypeOK, WriteRecord, snapshotVars, processVars
    <3>3. FileShape' /\ SnapshotShape' /\ PromiseShape'
      BY <1>3, <2>1, <3>1 DEF FileShape, SnapshotShape, PromiseShape,
                              WriteRecord, snapshotVars
    <3>6. ProcessShape'
      BY <1>3, <2>1, <3>1 DEF ProcessShape, WriteRecord, processVars
    <3> QED
      BY <3>2, <3>3, <3>6
  <2>2. CASE /\ file' = Append(file, [event |-> hand, previous |-> tail])
             /\ proc' = "sync"
             /\ torn' = torn
    <3>1. /\ [event |-> hand, previous |-> tail] \in Record
          /\ tail \in Seq(Event)
          /\ hand \in Event
      BY <1>3 DEF WriteRecord, Record, ProcessShape
    <3>2. /\ file' \in Seq(Record)
          /\ Len(file') = Len(file) + 1
          /\ \A i \in 1..Len(file) : file'[i] = file[i]
          /\ file'[Len(file) + 1] = [event |-> hand, previous |-> tail]
          /\ \A n \in 0..Len(file) : Chain(n)' = Chain(n)
          /\ WholeChain' = Append(WholeChain, hand)
      BY <2>2, <3>1, LongerChains
    <3>3. TypeOK'
      BY <1>3, <2>2, <3>2 DEF TypeOK, Record, WriteRecord, snapshotVars,
                              processVars
    <3>4. FileShape'
      <4>1. \A i \in 1..Len(file) : i - 1 \in 0..Len(file)
        OBVIOUS
      <4>2. \A i \in 1..Len(file) : file'[i].previous = Chain(i - 1)'
        BY <3>2 DEF FileShape
      <4>3. \A n \in 0..Len(file) :
                n = Len(file) => file'[n + 1].previous = Chain(n)'
        BY <1>3, <3>2 DEF ProcessShape, WholeChain, WriteRecord
      <4>4. \A i \in 1..Len(file') :
                \/ i \in 1..Len(file)
                \/ /\ i - 1 \in 0..Len(file) /\ i - 1 = Len(file)
                   /\ i = (i - 1) + 1
        BY <3>2
      <4> QED
        BY <4>2, <4>3, <4>4 DEF FileShape
    <3>5. SnapshotShape'
      BY <1>3, <3>2 DEF SnapshotShape, TypeOK, WriteRecord, snapshotVars
    <3>6. PromiseShape'
      BY <1>3, <3>2 DEF PromiseShape, Extends, WriteRecord
    <3>7. ProcessShape'
      BY <1>3, <2>2, <3>2 DEF ProcessShape, Extends, WriteRecord, processVars
    <3> QED
      BY <3>3, <3>4, <3>5, <3>6, <3>7
  <2> QED
    BY <1>3, <2>1, <2>2 DEF WriteRecord
<1>4. CASE SyncRecord
  <2>1. /\ UNCHANGED file
        /\ WholeChain' = WholeChain
        /\ \A n : Chain(n)' = Chain(n)
    BY <1>4, SameChains DEF SyncRecord
  <2>2. TypeOK'
    BY <1>4 DEF TypeOK, SyncRecord, snapshotVars, processVars
  <2>3. FileShape'
    BY <2>1 DEF FileShape
  <2>4. SnapshotShape'
    BY <1>4, <2>1 DEF SnapshotShape, TypeOK, SyncRecord, snapshotVars
  <2>5. PromiseShape'
    BY <1>4, <2>1 DEF PromiseShape, Extends, SyncRecord
  <2>6. ProcessShape'
    BY <1>4, <2>1 DEF ProcessShape, SyncRecord, processVars
  <2> QED
    BY <2>2, <2>3, <2>4, <2>5, <2>6
<1>5. CASE Advance
  <2>1. /\ UNCHANGED file
        /\ WholeChain' = WholeChain
        /\ \A n : Chain(n)' = Chain(n)
    BY <1>5, SameChains DEF Advance, journalVars
  <2>2. TypeOK'
    <3>1. hand \in Event /\ tail \in Seq(Event) /\ tail = replayed.history
      BY <1>5 DEF Advance, ProcessShape, TypeOK
    <3>2. /\ Append(tail, hand) \in Seq(Event)
          /\ Append(replayed.history, hand) \in Seq(Event)
      BY <3>1
    <3>3. replayed' \in [history : Seq(Event), exact : BOOLEAN]
      BY <1>5, <3>2 DEF Advance, TypeOK
    <3> QED
      BY <1>5, <3>2 DEF TypeOK, Advance, journalVars, snapshotVars
  <2>3. FileShape'
    BY <2>1 DEF FileShape
  <2>4. SnapshotShape'
    BY <1>5, <2>1 DEF SnapshotShape, Advance, journalVars, snapshotVars
  <2>5. PromiseShape'
    BY <1>5, <2>1 DEF PromiseShape, Advance, journalVars
  <2>6. ProcessShape'
    <3>1. /\ hand \in Event /\ tail \in Seq(Event) /\ tail = replayed.history
          /\ WholeChain = Append(tail, hand) /\ ~torn /\ replayed.exact
          /\ stable = Len(file)
      BY <1>5 DEF Advance, ProcessShape, TypeOK
    <3>2. /\ replayed' = [replayed EXCEPT !.history = Append(@, hand)]
          /\ tail' = WholeChain
      BY <1>5, <3>1 DEF Advance
    <3>3. replayed'.history = WholeChain /\ replayed'.exact
      BY <3>1, <3>2
    <3>4. proc' \in {"replace", "answer"} /\ torn' = torn /\ stable' = stable
      BY <1>5, <3>1 DEF Advance, journalVars
    <3>5. Extends(WholeChain, WholeChain)
      BY DEF Extends
    <3> QED
      BY <2>1, <3>1, <3>2, <3>4, <3>5 DEF ProcessShape
  <2> QED
    BY <2>2, <2>3, <2>4, <2>5, <2>6
<1>6. CASE Acknowledge
  <2>1. /\ UNCHANGED file
        /\ WholeChain' = WholeChain
        /\ \A n : Chain(n)' = Chain(n)
    BY <1>6, SameChains DEF Acknowledge, journalVars
  <2>2. TypeOK'
    BY <1>6 DEF TypeOK, Acknowledge, journalVars, snapshotVars, processVars
  <2>3. FileShape'
    BY <2>1 DEF FileShape
  <2>4. SnapshotShape'
    BY <1>6, <2>1 DEF SnapshotShape, Acknowledge, journalVars, snapshotVars
  <2>5. PromiseShape'
    BY <1>6, <2>1 DEF PromiseShape, ProcessShape, Acknowledge, journalVars
  <2>6. ProcessShape'
    BY <1>6, <2>1 DEF ProcessShape, Acknowledge, journalVars, processVars
  <2> QED
    BY <2>2, <2>3, <2>4, <2>5, <2>6
<1>7. CASE ReplaceSnapshot
  <2>1. /\ UNCHANGED file
        /\ WholeChain' = WholeChain
        /\ \A n : Chain(n)' = Chain(n)
    BY <1>7, SameChains DEF ReplaceSnapshot, journalVars
  <2>2. TypeOK'
    <3>1. [covers |-> replayed.history, legacy |-> FALSE,
           exact |-> replayed.exact] \in Snapshots
      BY DEF TypeOK, Snapshots
    <3>2. snapshot' \in Snapshots /\ oldSnapshots' \in SUBSET Snapshots
      BY <1>7, <3>1 DEF ReplaceSnapshot, TypeOK, snapshotVars
    <3> QED
      BY <1>7, <3>2 DEF TypeOK, ReplaceSnapshot, journalVars, processVars
  <2>3. FileShape'
    BY <2>1 DEF FileShape
  <2>4. SnapshotShape'
    <3>1. CASE UNCHANGED snapshotVars
      BY <1>7, <2>1, <3>1 DEF SnapshotShape, ReplaceSnapshot, journalVars,
                              snapshotVars
    <3>2. CASE oldSnapshots' = oldSnapshots \cup {snapshot} /\
               snapshot' = [covers |-> replayed.history, legacy |-> FALSE,
                            exact |-> replayed.exact]
      <4>1. /\ replayed.history = WholeChain /\ stable = Len(file)
            /\ replayed.exact
            /\ stable' = stable
        BY <1>7 DEF ReplaceSnapshot, ProcessShape, journalVars
      <4>2. snapshot'.covers = WholeChain /\ snapshot'.exact
        BY <3>2, <4>1
      <4>3. /\ Len(snapshot'.covers) <= stable'
            /\ snapshot'.covers = Chain(Len(snapshot.covers))'
        BY <2>1, <4>1, <4>2 DEF WholeChain
      <4>4. \A s \in oldSnapshots' : /\ Len(s.covers) <= stable'
                                     /\ s.covers = Chain(Len(s.covers))'
                                     /\ s.legacy \/ s.exact
        BY <2>1, <3>2, <4>1 DEF SnapshotShape
      <4> QED
        BY <4>2, <4>3, <4>4 DEF SnapshotShape
    <3> QED
      BY <1>7, <3>1, <3>2 DEF ReplaceSnapshot
  <2>5. PromiseShape'
    BY <1>7, <2>1 DEF PromiseShape, ReplaceSnapshot, journalVars
  <2>6. ProcessShape'
    BY <1>7, <2>1 DEF ProcessShape, ReplaceSnapshot, journalVars, processVars
  <2> QED
    BY <2>2, <2>3, <2>4, <2>5, <2>6
<1>8. CASE SyncDirectory
  <2>1. /\ UNCHANGED file
        /\ WholeChain' = WholeChain
        /\ \A n : Chain(n)' = Chain(n)
    BY <1>8, SameChains DEF SyncDirectory
  <2>2. TypeOK'
    BY <1>8 DEF TypeOK, SyncDirectory
  <2>3. FileShape'
    BY <2>1 DEF FileShape
  <2>4. SnapshotShape'
    BY <1>8, <2>1 DEF SnapshotShape, SyncDirectory
  <2>5. PromiseShape'
    BY <1>8, <2>1 DEF PromiseShape, SyncDirectory
  <2>6. ProcessShape'
    BY <1>8, <2>1 DEF ProcessShape, SyncDirectory
  <2> QED
    BY <2>2, <2>3, <2>4, <2>5, <2>6
<1>9. CASE Close
  <2>1. /\ UNCHANGED file
        /\ WholeChain' = WholeChain
        /\ \A n : Chain(n)' = Chain(n)
    BY <1>9, SameChains DEF Close, journalVars
  <2>2. TypeOK'
    BY <1>9 DEF TypeOK, Close, journalVars, snapshotVars
  <2>3. FileShape'
    BY <2>1 DEF FileShape
  <2>4. SnapshotShape'
    BY <1>9, <2>1 DEF SnapshotShape, Close, journalVars, snapshotVars
  <2>5. PromiseShape'
    BY <1>9, <2>1 DEF PromiseShape, Close, journalVars
  <2>6. ProcessShape'
    BY <1>9, <2>1 DEF ProcessShape, Close, journalVars
  <2> QED
    BY <2>2, <2>3, <2>4, <2>5, <2>6
<1>10. CASE Exit
  <2>1. /\ UNCHANGED file
        /\ WholeChain' = WholeChain
        /\ \A n : Chain(n)' = Chain(n)
    BY <1>10, SameChains DEF Exit, journalVars
  <2>2. TypeOK'
    BY <1>10, EmptyFacts DEF TypeOK, Exit, journalVars, snapshotVars, Forget
  <2>3. FileShape'
    BY <2>1 DEF FileShape
  <2>4. SnapshotShape'
    BY <1>10, <2>1 DEF SnapshotShape, Exit, journalVars, snapshotVars
  <2>5. PromiseShape'
    BY <1>10, <2>1 DEF PromiseShape, Exit, journalVars
  <2>6. ProcessShape'
    BY <1>10 DEF ProcessShape, Exit, Forget
  <2> QED
    BY <2>2, <2>3, <2>4, <2>5, <2>6
<1>11. CASE HostCrash
  <2>1. CASE \E n \in stable..Len(file) :
               /\ file' = SubSeq(file, 1, n)
               /\ torn' \in BOOLEAN
               /\ stable' = n
               /\ entry' = "durable"
               /\ snapshot' \in oldSnapshots \cup {snapshot}
    <3>1. PICK n \in stable..Len(file) :
               /\ file' = SubSeq(file, 1, n)
               /\ torn' \in BOOLEAN
               /\ stable' = n
               /\ entry' = "durable"
               /\ snapshot' \in oldSnapshots \cup {snapshot}
      BY <2>1
    <3>2. n \in 0..Len(file)
      BY DEF TypeOK
    <3>3. /\ file' \in Seq(Record)
          /\ Len(file') = n
          /\ \A i \in 1..n : file'[i] = file[i]
          /\ \A m \in 0..n : Chain(m)' = Chain(m)
          /\ WholeChain' = SubSeq(WholeChain, 1, n)
      BY <3>1, <3>2, ShorterChains
    <3>4. TypeOK'
      <4>1. snapshot' \in Snapshots /\ stable' \in 0..Len(file')
        BY <3>1 DEF TypeOK
      <4> QED
        BY <1>11, <3>3, <4>1, EmptyFacts DEF TypeOK, Record, HostCrash, Forget
    <3>5. FileShape'
      BY <3>3 DEF FileShape
    <3>6. SnapshotShape'
      <4>1. oldSnapshots' = {}
        BY <1>11 DEF HostCrash
      <4>2. \A s \in oldSnapshots \cup {snapshot} :
               /\ Len(s.covers) \in 0..n
               /\ s.covers = Chain(Len(s.covers))
               /\ s.legacy \/ s.exact
        BY DEF SnapshotShape, TypeOK
      <4>3. \A m \in 0..n : Chain(m)' = Chain(m)
        BY <3>3
      <4>4. /\ Len(snapshot'.covers) <= stable'
            /\ snapshot'.covers = Chain(Len(snapshot.covers))'
            /\ snapshot'.legacy \/ snapshot'.exact
        BY <3>1, <4>2, <4>3
      <4> QED
        BY <4>1, <4>4 DEF SnapshotShape
    <3>7. PromiseShape'
      BY <1>11, <3>1, <3>3 DEF PromiseShape, TypeOK, Extends, HostCrash
    <3>8. ProcessShape'
      BY <1>11 DEF ProcessShape, HostCrash, Forget
    <3> QED
      BY <3>4, <3>5, <3>6, <3>7, <3>8
  <2>2. CASE /\ entry # "durable"
             /\ file' = <<>>
             /\ torn' = FALSE
             /\ stable' = 0
             /\ entry' = "absent"
             /\ snapshot' = NoSnapshot
    <3>1. WholeChain' = <<>> /\ Chain(0)' = <<>> /\ Len(file') = 0
      BY <2>2 DEF WholeChain, Chain
    <3>2. TypeOK'
      <4>1. /\ file' \in Seq(Record)
            /\ snapshot' \in Snapshots
            /\ stable' \in 0..Len(file')
        BY <2>2, EmptyFacts
      <4> QED
        BY <1>11, <4>1, EmptyFacts DEF TypeOK, Record, HostCrash, Forget
    <3>3. FileShape'
      BY <3>1 DEF FileShape
    <3>4. SnapshotShape'
      BY <1>11, <2>2, <3>1 DEF SnapshotShape, NoSnapshot, HostCrash
    <3>5. PromiseShape'
      BY <1>11, <2>2 DEF PromiseShape, TypeOK, Extends, HostCrash
    <3>6. ProcessShape'
      BY <1>11 DEF ProcessShape, HostCrash, Forget
    <3> QED
      BY <3>2, <3>3, <3>4, <3>5, <3>6
  <2> QED
    BY <1>11, <2>1, <2>2 DEF HostCrash
<1>12. CASE UNCHANGED vars
  <2>1. WholeChain' = WholeChain /\ \A n : Chain(n)' = Chain(n)
    BY <1>12, SameChains DEF vars, journalVars
  <2> QED
    BY <1>12, <2>1 DEF TypeOK, FileShape, SnapshotShape, PromiseShape,
                       ProcessShape, Extends, vars, journalVars, snapshotVars,
                       processVars
<1> QED
  BY <1>1, <1>2, <1>3, <1>4, <1>5, <1>6, <1>7, <1>8, <1>9, <1>10, <1>11,
      <1>12 DEF Next

\* The inductive invariant holds in every reachable state of the files and the
\* process that writes them (JournalFile.append, SnapshotStore.write, recover).
THEOREM RecoveryInvariant == Spec => []IInv
  BY InitIInv, StepIInv, PTL DEF Spec

-----------------------------------------------------------------------------
(* What it establishes. *)

\* Type correctness of the files and of the worker's memory.
THEOREM RecoveryTypeOK == Spec => []TypeOK
<1>1. IInv => TypeOK
  BY DEF IInv
<1> QED
  BY RecoveryInvariant, <1>1, PTL

\* recover returns the replay of the whole journal with every field computed by
\* the current code, and the worker keeps it so, whatever crashed before.
THEOREM RecoveredStateFromJournal == Spec => []RecoveredStateIsReplay
<1>1. IInv => RecoveredStateIsReplay
  BY DEF IInv, ProcessShape, RecoveredStateIsReplay
<1> QED
  BY RecoveryInvariant, <1>1, PTL

\* recover refuses nothing but a journal that ends in a partial record: no crash
\* breaks the digest chain or leaves a snapshot outside it.
THEOREM RecoveryRefusesOnlyTorn == Spec => []OnlyTornJournalRefused
<1>1. IInv => OnlyTornJournalRefused
  <2> SUFFICES ASSUME IInv, ~torn PROVE JournalReadable /\ SnapshotMatches
    BY DEF OnlyTornJournalRefused
  <2>1. JournalReadable
    BY DEF IInv, FileShape, JournalReadable
  <2>2. /\ Len(snapshot.covers) <= stable /\ stable <= Len(file)
        /\ snapshot.covers = Chain(Len(snapshot.covers))
    BY DEF IInv, SnapshotShape, TypeOK
  <2>3. Len(snapshot.covers) \in Nat
    OBVIOUS
  <2>4. SnapshotMatches
    BY <2>2 DEF IInv, TypeOK, SnapshotMatches
  <2> QED
    BY <2>1, <2>4
<1> QED
  BY RecoveryInvariant, <1>1, PTL

\* Recovery gives back what the journal says, and refuses nothing else.
THEOREM RecoveryFaithful == Spec => []RecoveryIsFaithful
BY RecoveredStateFromJournal, RecoveryRefusesOnlyTorn, PTL DEF RecoveryIsFaithful

\* An event whose ticket succeeded is in the journal after every crash, in its
\* place, on a file system where fsync of a new file covers its directory entry.
THEOREM RecoveryKeepsPromises == Spec => []PromisesSurvive
<1>1. IInv => PromisesSurvive
  BY DEF IInv, PromiseShape, PromisesSurvive
<1> QED
  BY RecoveryInvariant, <1>1, PTL

\* JournalFile.append never adds a record to a journal that ends in a partial
\* one, in this process or a later one.
THEOREM NoRecordBehindTorn == Spec => NothingBehindTornRecord
<1>1. IInv /\ [Next]_vars => [Len(file') > Len(file) => ~torn]_vars
  <2> SUFFICES ASSUME IInv, Next, Len(file') > Len(file) PROVE ~torn
    OBVIOUS
  <2>1. Len(file) \in Nat
    OBVIOUS
  <2>2. CASE WriteRecord
    BY <2>2 DEF WriteRecord, IInv, ProcessShape
  <2>3. CASE HostCrash
    <3>1. CASE \E n \in stable..Len(file) : file' = SubSeq(file, 1, n)
      <4>1. PICK n \in stable..Len(file) : file' = SubSeq(file, 1, n)
        BY <3>1
      <4>2. n \in 0..Len(file)
        BY DEF IInv, TypeOK
      <4>3. Len(file') = n
        BY <4>1
      <4> QED
        BY <4>3
    <3>2. CASE file' = <<>>
      BY <3>2
    <3> QED
      BY <2>3, <3>1, <3>2 DEF HostCrash
  <2>4. CASE Next /\ ~WriteRecord /\ ~HostCrash
    <3>1. file' = file
      BY <2>4 DEF Next, Recover, OpenJournal, SyncRecord, Advance,
             Acknowledge, ReplaceSnapshot, SyncDirectory, Close, Exit,
             journalVars
    <3> QED
      BY <3>1
  <2> QED
    BY <2>2, <2>3, <2>4
<1> QED
  BY RecoveryInvariant, <1>1, PTL DEF Spec, NothingBehindTornRecord

-----------------------------------------------------------------------------
(* Refinement. *)

\* What an earlier run left was all acknowledged.
LEMMA LogInit == Init => Log!Init
<1> SUFFICES ASSUME Init PROVE Log!Init
  OBVIOUS
<1>1. TypeOK
  BY InitIInv DEF IInv
<1>2. /\ promised \in Seq(Event)
      /\ Len(promised) = Len(file)
      /\ WholeChain \in Seq(Event)
  BY <1>1, WholeChainFacts DEF Init, Chains
<1>3. promised = WholeChain
  BY <1>2 DEF Init, WholeChain, Chain
<1> QED
  BY <1>2, <1>3 DEF Log!Init

\* Every step writes an event, promises, loses what was not promised, or leaves
\* the log alone.
LEMMA LogStep ==
    ASSUME DurableCreate, IInv, [Next]_vars
    PROVE  [Log!Next]_(Log!logVars)
<1> USE WholeChainFacts DEF IInv
<1>1. CASE WriteRecord
  <2>1. CASE file' = Append(file, [event |-> hand, previous |-> tail])
    <3>1. /\ [event |-> hand, previous |-> tail] \in Record
          /\ hand \in Event
      BY <1>1 DEF WriteRecord, Record, ProcessShape
    <3>2. WholeChain' = Append(WholeChain, hand)
      BY <2>1, <3>1, LongerChains
    <3> QED
      BY <1>1, <3>1, <3>2 DEF WriteRecord, Log!Next, Log!Write
  <2>2. CASE file' = file
    BY <1>1, <2>2, SameChains DEF WriteRecord, Log!logVars
  <2> QED
    BY <1>1, <2>1, <2>2 DEF WriteRecord
<1>2. CASE HostCrash
  <2>1. CASE \E n \in stable..Len(file) : file' = SubSeq(file, 1, n)
    <3>1. PICK n \in stable..Len(file) : file' = SubSeq(file, 1, n)
      BY <2>1
    <3>2. n \in 0..Len(file) /\ n \in Len(promised)..Len(WholeChain)
      BY DEF TypeOK, PromiseShape
    <3>3. WholeChain' = SubSeq(WholeChain, 1, n)
      BY <3>1, ShorterChains
    <3> QED
      BY <1>2, <3>2, <3>3 DEF HostCrash, Log!Next, Log!Lose
  <2>2. CASE entry # "durable" /\ file' = <<>>
    <3>1. stable = 0 /\ Len(promised) = 0
      BY <2>2 DEF TypeOK, PromiseShape
    <3>2. 0 \in Len(promised)..Len(WholeChain)
      BY <3>1
    <3>3. WholeChain' = <<>> /\ SubSeq(WholeChain, 1, 0) = <<>>
      BY <2>2 DEF WholeChain, Chain
    <3> QED
      BY <1>2, <3>2, <3>3 DEF HostCrash, Log!Next, Log!Lose
  <2> QED
    BY <1>2, <2>1, <2>2 DEF HostCrash
<1>3. CASE Acknowledge
  <2>1. WholeChain' = WholeChain /\ promised' = WholeChain
    BY <1>3, SameChains DEF Acknowledge, ProcessShape, journalVars
  <2> QED
    BY <2>1 DEF Log!Next, Log!Promise
<1>4. CASE /\ [Next]_vars
           /\ ~WriteRecord /\ ~HostCrash /\ ~Acknowledge
  <2>1. UNCHANGED <<file, promised>>
    BY <1>4 DEF Next, Recover, OpenJournal, SyncRecord, Advance,
           ReplaceSnapshot, SyncDirectory, Close, Exit, vars, journalVars
  <2> QED
    BY <2>1, SameChains DEF Log!logVars
<1> QED
  BY <1>1, <1>2, <1>3, <1>4

\* The journal, its snapshot and recovery implement CrashSafeLog where fsync of
\* a new file covers its directory entry: what was acknowledged is never lost,
\* and what is lost is lost from the end.
THEOREM FilesImplementLog == ASSUME DurableCreate PROVE Spec => LogSpec
<1>1. IInv /\ [Next]_vars => [Log!Next]_(Log!logVars)
  BY LogStep
<1> QED
  BY RecoveryInvariant, LogInit, <1>1, PTL DEF Spec, LogSpec, Log!Spec
=============================================================================
