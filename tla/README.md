# TLA+ models of pyDuckHunt

pyDuckHunt is a duck-hunt game played in IRC channels: one Python process that
keeps an IRC session, turns chat lines into game events, applies them to an
immutable game state, answers in the channel, and journals every event so that
a restart replays the same game. This directory models the parts of it whose
correctness depends on an order of events: threads, crashes, timeouts, the
shutdown, the flights of the game with their deadlines, the weapons, goods and
names of its hunters, and the sessions of its operators. Source paths below are
relative to `src/src/pyduckhunt/`.

## The system

| Component | Source | State | Operations | Talks to |
| --- | --- | --- | --- | --- |
| Persistence worker | `runtime/persistence.py` | state `NEW/RUNNING/CLOSING/CLOSED/FAILED`, slot semaphore, open reservations, pending count, request queue, replay state, first failure | `open`, `start`, `reserve`, `commit`, `cancel`, `flush`, `close`; the thread: append, snapshot, publish, settle, latch, drain | owner thread, one background thread, journal, snapshot store |
| Journal, snapshots, recovery | `persistence/journal.py`, `snapshot.py`, `replay.py` | the journal file with its digest chain, the snapshot file, the cached tail | `append`, `write`, `read_records`, `recover` | the worker's thread; the file system |
| IRC transport and adapter | `irc/transport.py`, `socket_adapter.py`, `stream.py` | transport state, nickname, joined channels, deadlines; stream, output buffer | `start`, `poll`, `queue_application`, `stop`; one handler per line received | an IRC server; the shell |
| Process shell, runner | `runtime/process.py`, `runner.py`, `operator.py`, `pilot.py` | shell state, stop request, failure | `start`, `poll`, `stop`; `run`, interrupt and forced shutdown; launch and its cleanup | adapter, bridge, schedule, worker |
| Orchestrator and bridge | `runtime/orchestrator.py`, `application.py` | the live game state, the channel roster | `dispatch`, `emit_priority`; `handle`, `observe_identity` | game, worker, adapter |
| Scheduling | `runtime/scheduling.py` | none of its own: deadlines are in the game state | `step` | orchestrator |
| Runtime policy | `game/runtime.py` | daily schedule, throttle windows | plan, tick, admit a command | engine, shop |
| Flight and shots | `game/engine.py`, `model.py`, `accuracy.py`, `bread.py`, `day_boundary.py` | flight, last flight, profiles, effects, actions | `advance_time`, `start_flight`, `apply_command` | progression, loot |
| Shop, inventory, loot, rewards | `game/shop.py`, `inventory.py`, `loot.py`, `rewards.py`, `catalog.py` | balances, effects, counters | `purchase`, consume | engine |
| Progression, karma, curses | `game/progression.py`, `level_policy.py`, `karma.py`, `curses.py` | experience, karma, curses | award, decay | engine |
| Identity transfers | `game/identity_transfer.py`, `identity.py` | pending transfers | track, cancel, resolve | bridge, every keyed table |
| Settlement, incidents | `runtime/settlement.py`, `runtime/incidents.py` | none | draw what a shot or an order settles | bridge, engine |
| Administration of profiles | `game/admin.py` | none of its own | correct a field, control a weapon, give bread and calls | engine |
| Partyline | `partyline/runtime.py`, `partyline/users.py` | sessions, DCC offers and connections, invitations, authentication failures, the file with the owner | one handler per line, per private request and per connection; `poll`, `close` | IRC adapter, orchestrator |
| Codecs, rendering, publishing, configuration | `persistence/event.py`, `codec.py`, `rendering/`, `publishing/`, `configuration.py` | none | pure conversions | all |

**What is hard here.** Two threads share the worker, and each of its operations
is several lock sections, semaphore operations and file operations: a failure
can be half reported when the owner calls. A crash can fall between any two file
operations, of the process or of the host. The session is one single-threaded
loop, but the server speaks, kicks, stops answering or hangs up between any two
of its steps, and the lines of one poll are handled only after the whole poll.
Shutdown has to end the session before persistence, after a request, an error,
an interrupt or a second one. Inside the game the risk is in long legal
sequences. A step of the schedule makes up to six dispatches, each dated at an
expiry, a call, a piece of bread or a deadline before the present and each
refused when the queue is full; commands fall between two steps, the clock
passes midnight between two steps, and a restart takes up a plan from before
events that were already announced. Then there are rename chains and merged
throttle windows.

**What makes each part correct.**
- Worker: the journal is the commits in order; a success means a durable record;
  nothing committed after a failure succeeds; every ticket is settled once; slots
  are conserved; nobody waits for ever.
- Files: after any crash recovery finds the replay of the journal, and what was
  acknowledged is in it.
- Session: the adapter holds a stream exactly when the transport thinks so; READY
  means being in every configured channel; a stop is final and ends; each timeout
  ends what it guards.
- Shell: the session is over before persistence is closed; a runner leaves
  neither a connection nor a running worker; a shutdown ends.
- Flights and schedule: no sequence of events leads to a state that a constructor
  refuses; no event is dated before the game; a deadline fires at most once and
  is never forgotten; a paid call waits for a flight of its own; a flight that
  stays longer has eaten one piece of bread; no flight is cut short.
- Hunters: a weapon is the one of its level with what the upgrades add, whatever
  the order of promotions, purchases and misses; a purchase takes its price once,
  across levels and vouchers; no nuisance reaches a hunter who is protected; a
  confiscated weapon comes back only by the ways meant for it.
- Identity: a transfer waits for the person who changed nicknames; renames and
  merges keep the totals; the windows of the throttles remember what a hunter did
  under any name.
- Partyline: nobody is logged in without the right to be; the owner changes only
  by an invitation and its password only from a session entitled to it; what is
  half open ends.

## The modules

| Module | Models | Uses |
| --- | --- | --- |
| `DurableLog` | abstract: what persistence promises its owner: answers in order, success only for what is in the log, nothing after a failure | |
| `PersistenceWorker` | `runtime/persistence.py`, both threads | |
| `PersistenceWorkerProofs` | invariant, theorems, refinement of `DurableLog` | `PersistenceWorker`, `DurableLog` |
| `CrashSafeLog` | abstract: what the files promise across crashes: losses from the end, never of a promise | |
| `JournalRecovery` | `JournalFile.append`, `SnapshotStore.write`, `recover`, crashes | |
| `JournalRecoveryProofs` | invariant, theorems, refinement of `CrashSafeLog` | `JournalRecovery`, `CrashSafeLog` |
| `IRCSession` | transport, adapter, and a server | |
| `ProcessShell` | runner, shell, launch, around the session | extends `IRCSession` |
| `IRCSessionProofs` | invariants and theorems, of the session alone and in its process | `IRCSession`, `ProcessShell` |
| `Hunt` | the step of `runtime/scheduling.py`, the dispatch, and the flights, bread, calls and plan of `game/engine.py`, `game/runtime.py`, `game/shop.py` | |
| `HuntProofs` | invariant and theorems | `Hunt` |
| `Profile` | one hunter: levels, experience, karma, effects, curses, the daily reset; what `GameState` accepts | |
| `Goods` | the shop and the loot, as the engine settles them | extends `Profile` |
| `Hunters` | shots, reloads, orders, corrections of several hunters | extends `Goods` |
| `ProfileProofs` | lemmas: recursions, sums, levels, every edit of one profile | `Profile` |
| `HuntersProofs` | invariant and theorems | `Hunters`, `ProfileProofs` |
| `Identity` | nicknames, transfers, merges, throttle windows | extends `Profile` |
| `Partyline` | sessions of operators, DCC handshakes, invitations, passwords | |
| `IdentityProofs` | invariants and theorems | `Identity`, `ProfileProofs` |
| `PartylineProofs` | invariants and theorems | `Partyline` |
| `MCHunt`, `MCHunters`, `MCIdentity` | the plans and the games a run starts from | extend their modules |
| `MCIRCSession`, `MCProcessShell`, `MCPartyline` | sequences and sets for the constants | extend their modules |

### PersistenceWorker

The two threads are a program counter (`thread`) and what the owner is blocked
in (`owner`). One action is one stretch of code between two points at which the
other thread can see a difference: `Reserve`, `Commit`, `Cancel`, `FlushCall`,
`FlushReturn`, `CloseCall`, `CloseReturn` for the owner; `GetRequest`,
`AppendRecord`, `PeriodicSnapshot`, `Publish`, `SucceedTicket`, `ReleaseSlot`,
`DecrementPending`, and on an error `FailTicket`, `LatchFailure`, `DrainRequest`
for the thread. An event is the number of its commit, so order is visible in the
journal itself. Every file operation may fail at any time, before or after the
record was written. Timeouts of `flush` and `close` are a choice to return early.

### JournalRecovery

A digest is taken to be collision free and so is the list of events it covers
(`Chain`). The process is a program counter through append, fsync, advance,
answer, snapshot and close; it may end anywhere (`Exit`), write only a part of a
record, or meet a crash of the host (`HostCrash`), which keeps what was
synchronised and any prefix of the rest. `DurableCreate` says whether fsync of a
new file also covers its directory entry, as common Linux file systems do and
POSIX does not promise: the code syncs the directory only after a snapshot.

### IRCSession

One poll of the adapter is `BeginPoll`, `PollFlush`, any number of `Receive...`,
`Tick`, `EndFlush`, `Deliver`, as in the code; the server and the network step
in between. A line is its verb and what the receiver looks at; a timer is the
time left to it. What the adapter does inside one call without letting the
server in (several actions of one transport step) is one action.

### ProcessShell

`ProcessShell` extends `IRCSession` and replaces its idle client by the runner:
the loop of `OperatorPilotRunner.run`, the schedule step as far as it can fail,
the handling of the messages of a poll as far as it can fail (a dispatch raises
when the session is not READY, the output is full, or the worker has failed),
`stop`, the finish after an interrupt and the forced bounded shutdown, the
launch and its cleanup. The worker is reduced to the states its owner sees. An
interrupt falls in the sleep of the loop or in a connection attempt.

### Hunt

`game` is the part of `GameState` that flights depend on: its time, the flight
and the end of the last one, pending calls (items 20 and 23), bread (item 21)
and the daily plan. A transition of the code is an operator from a state and a
time to a state (`Advance`, `StartFlight`, `Conclude`, `AddBread`, `AddCall`,
`Install`, `Expand`, `TickPlan`), with the calls it makes inside: every one of
them advances the time first. `RuntimeSchedulingAdapter.step` is six actions, in
the order of the code, each guarded by its condition on the state the ones
before it left (`Applies`, `Following`); the time of all six is the one the step
was given, and between two of them only the persistence worker moves. `Submit`
takes a slot of the queue or, as `Refused`, ends the step. Commands, launches and
orders happen between two steps at the time of the clock. `unsaved` holds the
states committed and not yet durable; a crash, at any time, goes back to
`durable`. The set of a plan's deadlines with the set of those consumed stands
for the sorted tuple with its cursor: `Valid` demands that the consumed ones are
a prefix. One sequence numbers calls and bread where the code has two. Bread of
the first policy (migrated before anything else) and the operator's replan are
left out; players are the business of the next modules. A kill or a frightened
flight is `EndFlight`: who hits is a choice. `ShotRaises` is the same shot at the
time of the launch.

### Profile, Goods, Hunters

Here `game` is the other part of `GameState`: profiles, effects, curses, and of the
flight what a shot needs. Tables of the code (levels, penalties, prices, durations,
uses, exclusive groups, counters) are operators with the numbers of the code,
because the properties depend on them. Every transition is an operator from a
game to a game; an action advances the time (`Advance`: the flight, the daily
reset, the decay of karma, effects and curses that end), applies one, and keeps
the result if the constructors of `game/model.py` accept it (`ValidGame`);
otherwise `failed` is set, which is the exception. Two commands raise: an order of a
magazine whose price takes a level away, and a shot that ends a flight (a kill or a
fright) at the instant of its launch, for which no record of the flight can be built. `Shoot` follows `_apply_shoot`
from the obstacles to the automatic reloader: jam, miss, late or wild shot, a
flight frightened, hit or killed, ricochets through several victims, finds and
amulets. What the resolvers of `runtime/settlement.py` and `runtime/incidents.py` draw (a
jam, a hit, a chain of victims, a find) is a choice among the values they can
produce (`Settled`). `Goods` holds the thirty-one orders, with refusals in the
order of the code, and the finds. A loot the resolver never draws on its own
(outside `StandardLoot`) is accepted by the engine and so it is here. `Administer` takes
every field of `SETTABLE_FIELDS`, with the ranges of the code (`Accepted`), and refuses,
with nothing changed, what a profile may not hold. Ricochets deflected and absorbed
are one number here, their sum `survived`: setting one of the two keeps any part of the
sum. Counters a profile of the model does not have (golden hits, jammed or wild shots
and the like) are the field "uncounted". An owner can break what the game keeps:
`corrected` is the history of whose weapon or level, and whose counters of
ricochets, were set by hand, and `ProfilesAreSound` speaks of the others.

### Identity

A person is followed by its nicknames; the bot sees the changes while it is in
the channel and has a slot for the event. `Track`, `Cancel` and `Resolve` are the
three transitions of `identity_transfer.py`, `Merged` and `Rekey` what becomes of
two profiles and of each table that names a hunter. `Prune`, `Blocking`, `Refuse` and
`Admit` are the admission of a command. A command settles up to two transfers
first, one event each, so a queue with one free slot can take the transfer and
refuse the command. `trail`, `unseen`, `dropped`, `served` and `merged` are history: they
say what a property compares the game with and no action reads them. `served` has two
entries for a command that was admitted, one for its hunter and one for the channel,
with the name the hunter had (`by`) and the one it has now (`of`).

### Partyline

One `Tick` is a poll at a later time, which begins with `_expire`; every other
action is one line, one private request or one connection handled at the same
time. A timer is the number of ticks left. What goes through the priority sink
raises unless the IRC session is READY; outside a line of a session that ends the
process (`Close("failed")`). A restart forgets everything but the owner. An atomic
write of the store that succeeds and then cannot synchronise its directory is
`WriteUnsure`: the owner is new, the session does not know, and a reset that ends so
disconnects nobody. A session remembers what has become of its password since it
logged in (`reset`, a history): nothing, a reset that completed, or one whose write only seemed to fail
(`Told`).

## What each run checks

| Run | Expectation | Shows |
| --- | --- | --- |
| `worker` | pass | every interleaving with every disk error. `CapacityRespected`: permits and counters; `TicketsTellTruth`: a success is durable, nothing after a failure succeeds, one ambiguous record at most, no orphaned ticket; `FilesAgree`: journal order, snapshots behind it, a clean close covers everything; `LogSpec`: it implements `DurableLog`; `EveryTicketSettles`, `OwnerReturns` under fairness |
| `recovery` | pass | any crashes. `RecoveryIsFaithful`: recovery finds the replay of the journal and refuses only a torn last record; `NothingBehindTornRecord`; `LogSpec`: the files implement `CrashSafeLog`, so what was acknowledged survives, given `DurableCreate` |
| `irc_one_channel` | pass | agreement of adapter and transport, truth of READY, finality of stop, and (`SessionMovesOn`) that each timeout ends what it guards |
| `irc_kick` | violation | a kick while another channel is being joined is ignored: READY outside a configured channel |
| `shell` | pass | the order of the shutdown in every interleaving (`ShellOwnsItsParts`, `RunnerLeavesNothing`), and that it ends |
| `shell_launch` | violation | after a failed start the worker's thread keeps the process alive |
| `hunt` | pass | a day and the beginning of the next one with a queue of one slot, two orders and one crash or failure: all states valid and the plan in time (`GameStaysPlayable`), deadlines fire once, no event dated back and no flight cut short (`TimesAreKept`), calls and bread settled with flights, and the step catches up with the clock |
| `hunt_instant` | violation | a flight that is hit in the poll it was launched in stops the process |
| `hunters` | pass | weapons that fit levels unless set by hand, days and karma in time, ricochets that balance unless a counter of them was set by hand (`ProfilesAreSound`), nuisances warded off, prices taken once, confiscations that hold; `StatesAreSound`: nothing raises but one order and one shot, below |
| `identity` | pass | transfers held by who changed nicknames, windows that remember, totals kept; `StatesAreSound`: only an overfull window after a merge raises |
| `identity_windows` | violation | such a merge: from then on every command raises |
| `partyline` | pass | sessions sound in every stage and closed by a reset that completes, the owner kept, handshakes and logins that end |

The four violated properties quote a document or an assertion of the repository
and are `findings` in `PROJECT.json`; more disagreements are listed below.

**Bounds.** Worker: two slots and four commits, so that the queue is full, a
commit waits behind a failing one, and two periodic snapshots (every second
record, one record recovered) fall at different places; the actions do not look
at the number of an event, so more commits repeat these situations. Recovery:
two events and four records, an interval of two; any number of crashes and
restarts. Session: one channel (two in `irc_kick`, whose point is a kick between
two joins), two delays, three lines of output (a
NICK and a USER and one more), two lines under way in each direction, timeouts
of one to three units with at most one unit between two polls, so that each
timeout can win and lose each race. Hunt: a day of three units with two
deadlines, and the clock goes to the second unit of the next day: enough for a
plan to be installed, extended, fired on time, skipped late, and replaced. A
flight of two units (three with bread) outlives the next deadline or not; two
orders make two calls, two pieces, or one of each, due together or not; one slot
makes every second dispatch meet a full queue; one crash falls anywhere. Shell: one channel, one delay, two messages
per poll, so that one is handled and the next dropped. Hunters: three commands of
two hunters from two games: one where a single hit, miss or price crosses levels
and weapons, with the last letter and the hundredth hit missing, and one at the
edge of fatigue, karma and confiscation; no time or thirteen hours may pass before a
command, so that commands come at one instant, a launch included, and days end and
effects run out; four corrections (a weapon set by hand, a balance broken, ammunition
added, a refusal); a chain of ricochets has two victims at most, since there are two
hunters; the window of a late shot is entered or not, its very last instant is not tried; eight items and three finds stand for the
kinds that differ. Three commands are enough for a purchase, its counter and what
they meet; no property needs a fourth to be violated by the mutants tried.
Identity: four steps of two people over three nicknames: enough for a chain, a
swap through the third name, a return, and a merge followed by a command; one
command of 1 in 120 seconds and a channel window of 3 in 600, both occupied at the
start; an hour may pass, so that transfers and windows expire. Partyline: two
sessions, one operator and one other handle, one handshake at a time, logins and
handshakes of one tick, invitations of two (an invitation outlives the login that
took it up or not), two passwords, two failures remembered of a session or an address, one
nickname, which may invite (more are beyond TLC here, and left to the proofs), three
things open at once, so that two sessions confirm a password at the same time.

**Fairness.** Worker: weak fairness of the thread (it is scheduled, its file
operations end) and of the return from a call whose condition holds; none of the
owner's calls is ever promised. Session: the event loop polls again (strong
fairness of `BeginPoll`, since other calls of the adapter may come in between,
weak fairness of the steps of a poll) and not every connection attempt fails
(strong fairness, used only by `BackoffEnds`). Nothing is assumed of the server
or the network. Shell: weak fairness of the runner's thread alone. Hunt: the
loop goes on stepping (weak fairness of a dispatch, taken or refused), the worker
writes, and a process that failed is started again by its supervisor; nobody
plays and no time passes unless they choose to. `CatchesUp` asks that the step
catches up again and again while the clock stands; the runner makes a step in
every loop, so that finitely many commands at one time cannot starve it.
Partyline: weak fairness of `Tick`, since the loop polls on at later and later
times while the process is up; nothing is assumed of a peer. Hunters and Identity
have no liveness: nothing in them happens by itself.

## What is proved

`PersistenceWorkerProofs`, `JournalRecoveryProofs`, `IRCSessionProofs`, `HuntProofs`,
`ProfileProofs`, `HuntersProofs`, `IdentityProofs` and `PartylineProofs` hold proofs checked
by TLAPS for every value of the constants that satisfies the assumptions of the module
they are about (`WorkerConstants`, `RecoveryConstants`, `SessionConstants`,
`HuntConstants`, `HuntersConstants` and `IdentityConstants` with `ProfileConstants`,
`PartylineConstants`).

*Worker.* None of the safety properties is inductive: the journal order alone
does not say what the thread still has in its hands. `IInv` adds how permits and
counters are conserved given the position of the thread (`Counting`), that the
queue holds the commits behind the current one, with the stop marker last
(`QueueShape`), which tickets can be waiting (`TicketShape`), where successes
and failures lie in the journal (`JournalShape`), what each position of the
thread implies (`ThreadShape`, `StateShape`), and how far snapshots and closing
have come (`SnapshotShape`, `ClosedShape`). Each action preserves each part; the
invariants of the run follow (`WorkerTicketsTellTruth` and `WorkerFilesAgree` from
the theorems about their parts), `TerminalStates` follows as an action property,
and `WorkerImplementsLog` maps the initial states and every step to `DurableLog`.

*Files.* `IInv` says the digest chain of the file is unbroken (`FileShape`),
every snapshot the path may name after a crash lies within the records that
survive it (`SnapshotShape`), so does what was promised (`PromiseShape`), and
where the process is fixes how its memory relates to the file (`ProcessShape`).
The last is what carries the argument: a snapshot is only written when
everything it covers is synchronised, because a process that wrote has passed
its fsync and a process that did not has a snapshot boundary equal to its
history. `FilesImplementLog` needs `DurableCreate`.

*Session.* `IInv` adds to `StreamMatchesState` what lines may be under way in each
direction (a JOIN names a configured channel, a NICK one of the two nicknames), that
buffers are bounded, and that nothing is under way, and the server knows of no
session, without a stream. A connection is made only from NEW and BACKOFF and ends in
BACKOFF or STOPPED; every other step leaves the stream, and the side of the states it
belongs to, alone. A stop is final because what could bring the session back is a
connection that fails, which in STOPPING ends it and which a stopped session, having
no stream, cannot meet. These hold for any list of channels and any server.
`ReadyWithOneChannel` assumes one channel: `Membership` says that the lines under way
from the server lead from what the transport holds to be joined to what the server
does, each JOIN entering the channel and each KICK leaving it, and that there are
none before the welcome, nor a JOIN that asks for one; so nothing is ignored that
matters. With two channels a kick read while joining is ignored, and the run
`irc_kick` shows what comes of it.

*Shell.* The session keeps its shape whatever the process does with it: a step of the
process is a step of the session, or leaves it alone, or throws its stream away.
`ShellInv` adds `Roles`: where the runner is says what the shell has been told, what
the shell has been told says on which side of stop the session is, and the worker
has been closed only by a shell that has seen the session end. `ShellEndsItsParts`
rests on the last poll of a forced shutdown (`LastPoll`): it comes when the deadline
of QUIT has passed, so that the session it polls ends in it.

*Hunt.* `HuntConstants` says that lengths are positive, the delay of bread among them, that a call's delay is
shorter than the hour of a piece of bread, and that the first process finds a
plan of today that is not too long, or none. What is wanted of the game at work
must hold of every state on its way to the disk and of the one on it, since a
crash brings them back at a later time: `IInv` is `Sound` of all of them at the
present time, where `Sound` is validity with the plan and its cursor behind the
clock. Each operator keeps `Sound` and sets the time of its event; each accepted
event is one of the operators at a time between the game and the clock (`Moves`);
so `IInv` is inductive. `TypeCorrect` and `Playable` follow, and `FlightsInTime`
and `NoCallIsLost` are shown move by move. `BreadPaidBack` needs
that of the pieces there one is the oldest (`OneOldest`), and follows move by move too.
`NoDeadlineFiresTwice` (of one process: a restart forgets what was announced) needs that plans
begin at multiples of a day (`FInv`): then what was fired lies before the end of
its plan, and a later plan after it.

*Hunters.* All five properties of the run are theorems, for any number of hunters and
commands, any games to start from that satisfy `Playable`, any waits, and all the
items, finds and corrections of the code. `ValidGame` is not inductive: nothing in it
says that a day or a deadline of karma is not behind the clock, that an amulet and
the nuisance it stops are not together, or that the numbers of effects, curses and
calls have been given out. `Sound` says that of a game, part by part (`SoundPlayers`,
`SoundEffects`, `SoundCurses`, `SoundCalls`, `SoundFlight`), and that the weapon of
everybody whose weapon and level the owner has left alone fits the level; `IInv` adds
that ricochets balance (`Tally` is zero) until the owner sets a counter of them, and
that nothing raised but that order and that shot.
`ProfileProofs` goes from below: every edit of one profile leaves a sound profile
(`Follows`), and says what it leaves alone (`Keeps`, `Undisturbed`). Levels are climbed
and descended by recursive functions, and the tally is a sum over hunters; the library's
induction theorems cannot be used here, so what these compute is shown by least
counterexamples (`LeastNatural`, `Recursion`, `SmallestSet`), up to the equation of experience
between two levels (`BelowEquation`) and the change of a sum when one hunter changes
(`SumChange`). `HuntersProofs` composes: `Plays` and `Runs` say what a branch of a shot
may do, `Serves` and `Buys` what the shop may, `Corrects` what the owner may, and
`Outcome` what a command may, including the price it takes and the weapons it
leaves alone. The order and the shot that raise fall out of the argument and need no exception
in the invariant of the game: whoever pays keeps room for what the shop has
checked, unless the price takes a level away, and then only a magazine needs it; and a flight
that has been in the air for no time is ended by a shot alone.

*Identity.* `TransfersAreHeld` needs that nicknames are of one person each, that a
trail is finite and holds the present nickname, and, while the process runs, that
no two transfers lead to one nickname (`Unique`, which `ValidGame` demands of what
is kept). Every operator on games keeps a part of the ends of transfers there were
(`Fewer`); only a change of nicknames adds one, and its holder has two nicknames
then. `TransfersHeld` covers any number of persons, names and steps.
`StatesAreSound` says the model classes reject no state, and what they accept is not
inductive either. `Sound` is what is: the effects, curses and calls of a game have
ids below the next one and are about hunters it knows, profiles are of their day
and balance their incidents, a window is sorted, not empty and of a limit there
is, no two windows are of one hunter and command. Every operator keeps it, from
`AdvanceSound` (time) over `AdmissionSound` to `RekeySound` and `MergedSound`: a name goes
through every table at once, and two profiles become one that is as sound. So no
step is ever refused by `Keep`, and `SoundInv` adds the one way left to stop: windows
fit their limits (`AllFit`) while the history `merged` is empty, since only `Joined`
adds entries to a window without asking `IsFull`. That the k-th smallest of two sorted
sequences of times is again one (`InOrderOrdered`) is shown by counting
what has come by a time. `NothingIsLost` follows on the way: every operator conserves
four sums (`Conserves`), `Rekey` since it moves a count (`SumMoved`) that a merge has
added up (`MergedSound`, with `Available` through the climb of the merged profile).
`WindowsRemember` compares a window with a history as of now, and a step moves now.
`MemoryInv` says it of every time from now on: what a window still holds after `t` is
the number of commands of the history that still count at `t`, or 30 if there are
more (`Remembers`), and without a merge no more than the limit count now (`Within`).
That survives any passage of time and any pruning, since both only drop what has
expired. An admission adds one time to a window that is not full; the merge of
two windows adds what both hold after `t` and keeps the latest 30, and the least of 30
and a sum is that of the parts capped at 30 (`WindowsOnceCount`, `LeastOfBoth`). Each
entry of the history is its own, by the step it was made in (`ServedShape`), so that a
renaming maps entries one to one and a merge finds no two alike. The proof covers
every number of commands and any limits, provided the commands with a limit are
finitely many.

*Partyline.* `SessionsAreSound` alone does not say why the password of a session
in its last stage may be written. `IInv` adds what kind of invitation each stage
holds and whom it names (`SoundRights`), that an invitation in use is out of date by
less than a login may last (`SoundTimes`: a tick takes the same from a session
and from its invitation), that the owner is one the configuration names
(`OwnerShape`) and what invitations there are (`InviteShape`). Three stages write the
store, and each is sound only with the right to; `SessionsSound` and `OwnerKept`
follow. `CountShape` is kept beside it: no more handshakes than `MaxPendingDCC` over
all nicknames (`HandshakeShape`; that finitely many nicknames have one is part of it,
`Nicks` may be any set), and no more failures of a peer than may be remembered
(`FailureShape`). `PartylineTypes` needs both.

*Only model-checked.* Liveness: fairness and ENABLED are beyond the prover.

## Disagreements met

Four have a run and are quoted under `findings`. These were met while modelling
and hold in the models, but no run is spent on them:

- `flush` can return normally although a write it waited for failed, when it is
  called between the decrement and the latch (`runtime/persistence.py:417-419`; the
  docstring at line 279 and `docs/RUNTIME_LIFECYCLE.md:79` say otherwise).
- A command and the end of the stream in one poll, and a NICK, PART or QUIT of a
  tracked nickname seen while joining, stop the process instead of waiting or
  reconnecting (`runtime/process.py:166`, `runtime/application.py:207`;
  `docs/IRC_TRANSPORT.md:23` and 55-59).
- A magazine whose price takes a level away raises, and the process ends: the room
  for it is looked for in the weapon before the price is paid (`game/shop.py:312`,
  390 and 412; `docs/SHOP.md:112-118`). `NothingElseRaises` says it is the only
  order that raises.
- With one free slot a transfer is applied and its command is not; a departure or
  a rename that meets a full queue is never applied (`docs/NICKNAME_TRANSFERS.md`,
  "Durability"). `TransfersAreHeld` excludes names changed that way.
- A DCC offer or connection that expires or fails, or a spontaneous launch, while
  the IRC session is not READY raises out of `poll` and ends the process with every
  session (`partyline/runtime.py:2165`; `docs/PARTYLINE.md:30-31` and 149-150).
- A kill by the owner of a baker's amulet adds a piece of bread when twenty are
  active (`docs/RUNTIME_POLICY.md:89-90`); the attraction of a younger piece lets the
  flight eat the oldest one, so one piece can attract twice; calls and bread that
  fell due while the session was down start flights in the past.
- A failed directory fsync of the user store escapes as an `OSError`, after the file
  was replaced (`partyline/users.py:294`). A reset handles only
  `PartylineCredentialError` (`partyline/runtime.py:1246`), so that the new password is
  in force while the other sessions of the owner stay logged in;
  `docs/PARTYLINE.md:54-55` says "the old credential is revoked and existing sessions
  for that owner are disconnected". `SessionsAreSound` is about resets that complete.
- Two hunters who swap nicknames have their profiles merged; a merge can leave a
  hunter with two coupons, and `promotion_discount` then raises.

## Not modelled, and why

Codecs, message syntax, rendering, publishing, rankings and configuration are
pure conversions without state. Random draws and their probabilities are choices
where they matter; so are the contents of the roster. TLS, DNS and the line
framing of `irc/stream.py` are below the granularity of a line. An interrupt is
modelled in the sleep of the loop and during a connection attempt, not between
any two bytecodes. The operator's replan of a day, the migration of bread and
plans of earlier versions, listings and the syntax of partyline commands are left
out. `Hunt`, `Hunters` and `Identity` are separate views of one game state: each keeps
the fields its properties need, and they are not composed, since together they
are beyond TLC; they meet in the transitions they share (`Advance`, `TakeOff`,
`AddCall`), which each module translates from the same lines.
