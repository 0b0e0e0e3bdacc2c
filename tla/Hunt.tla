-------------------------------- MODULE Hunt --------------------------------
(***************************************************************************)
(* The flights of the hunt: the daily plan, paid calls, bread and the      *)
(* commands that start and end flights.  game/engine.py and game/runtime.py*)
(* give the transitions, runtime/scheduling.py the step that decides which *)
(* of them to dispatch, runtime/orchestrator.py the dispatch into the      *)
(* bounded persistence queue.                                              *)
(*                                                                         *)
(* A time is a natural number.  A step reads the clock once and makes up to*)
(* six dispatches with it; between two of them only the persistence worker *)
(* moves, so each is an action (pc), and a refused one ends the step.  What*)
(* a command draws at random is any value of the range it draws from.      *)
(* Players, effects other than bread, and policy 1 of the bread (migrated  *)
(* before anything else) are left out.                                     *)
(***************************************************************************)
EXTENDS Integers, Sequences, FiniteSets

CONSTANTS
    DayLength,        \* DAY_NS
    Lifetime,         \* FLIGHT_LIFETIME_NS
    BreadDelay,       \* BREAD_DELAY_NS
    BreadLife,        \* the hour a piece of bread stays active
    CallDelay,        \* the ten minutes of a call, of an item 23, of a reward
    MaximumLateness,  \* maximum_lateness_ns of the scheduling policy
    PlanSize,         \* FIXED_DAILY_FLIGHT_COUNT
    MaxBread,         \* MAX_CHANNEL_BREAD
    Capacity,         \* slots of the persistence queue
    FirstPlans,       \* plans the first process finds: none, or a short legacy one
    MaxNow,           \* bound: the clock stops here
    MaxOrders,        \* bound: calls and pieces of bread in one behaviour
    MaxCrashes        \* bound: crashes and failures of the process

ASSUME HuntConstants ==
    /\ {DayLength, Lifetime, BreadDelay, PlanSize, Capacity} \subseteq Nat \ {0}
    /\ {MaximumLateness, MaxBread} \subseteq Nat
    /\ BreadLife \in Nat \ {0, 1}
    /\ CallDelay \in 1..BreadLife-1
    /\ FirstPlans \subseteq
         {plan \in [start : {0, -DayLength}, deadlines : SUBSET Nat, consumed : {{}}] :
             /\ IsFiniteSet(plan.deadlines) /\ Cardinality(plan.deadlines) <= PlanSize
             /\ plan.deadlines \subseteq plan.start .. plan.start + DayLength - 1}
    /\ {MaxNow, MaxOrders, MaxCrashes} \subseteq Nat

VARIABLES
    clock,    \* the projected clock of the process
    pc,       \* "idle", the next dispatch of the step, or "failed"
    game,     \* the state the process works on
    unsaved,  \* the states committed and not yet durable, in order
    durable,  \* the state a restart recovers
    fired,    \* the deadlines whose flight this process has announced
    crashes

vars == <<clock, pc, game, unsaved, durable, fired, crashes>>

DayStart(t) == t - (t % DayLength)
Day(start) == start .. start + DayLength - 1

NoFlight == [spawned |-> -1, expires |-> -1]
NoPlan == [start |-> -DayLength, deadlines |-> {}, consumed |-> {}]

Init ==
    /\ clock = 0
    /\ pc = "idle"
    /\ \E plan \in FirstPlans :
        game = [now |-> 0, flight |-> NoFlight, ended |-> -1, calls |-> {}, breads |-> {},
                nextOrder |-> 1, plan |-> plan]
    /\ unsaved = <<>>
    /\ durable = game
    /\ fired = {}
    /\ crashes = 0

-----------------------------------------------------------------------------
(* Transitions of the game: a state and a time give a state. *)

LiveBreads(g, t) == {b \in g.breads : b.activated <= t /\ t < b.expires}
DueCalls(g, t) == {c \in g.calls : c.due <= t}
DueBreads(g, t) == {b \in LiveBreads(g, t) : b.due <= t}
Open(plan) == plan.deadlines \ plan.consumed
Later(t, u) == IF t < u THEN u ELSE t

(* The element with the smallest key, and among those the smallest         *)
(* identifier: one element, or none when S is empty.                       *)
Oldest(S, at(_)) ==
    {x \in S : \A y \in S : at(x) < at(y) \/ (at(x) = at(y) /\ x.id <= y.id)}

FlightAt(g, t) == g.flight # NoFlight /\ t < g.flight.expires

(* The end of a flight off by one.                                        *)
AdvanceEarly(g, t) ==
    LET over == g.flight # NoFlight /\ g.flight.expires - 1 <= t
    IN  [g EXCEPT !.now = t,
                  !.flight = IF over THEN NoFlight ELSE @,
                  !.ended = IF over THEN g.flight.expires ELSE @,
                  !.breads = {b \in @ : t < b.expires}]

Advance(g, t) ==
    LET over == g.flight # NoFlight /\ g.flight.expires <= t
    IN  [g EXCEPT !.now = t,
                  !.flight = IF over THEN NoFlight ELSE @,
                  !.ended = IF over THEN g.flight.expires ELSE @,
                  !.breads = {b \in @ : t < b.expires}]

Activated(b) == b.activated
Due(x) == x.due

(* A takeoff that answers every due call, and one that lengthens the flight*)
(* without eating the bread.                                               *)
TakeOffForAll(h, t, kind) ==
    [h EXCEPT !.flight = [spawned |-> t, expires |-> t + Lifetime],
              !.breads = @ \ Oldest(LiveBreads(h, t), Activated),
              !.calls = @ \ DueCalls(h, t)]

TakeOffForFree(h, t, kind) ==
    [h EXCEPT !.flight = [spawned |-> t,
                          expires |-> t + Lifetime
                                      + (IF LiveBreads(h, t) = {} THEN 0 ELSE BreadDelay)],
              !.calls = @ \ Oldest({c \in DueCalls(h, t) : c.kind = kind}, Due)]

(* A takeoff eats the oldest piece, which makes it last, and answers one   *)
(* due call of its kind.                                                   *)
TakeOff(h, t, kind) ==
    LET bread == LiveBreads(h, t)
        eaten == Oldest(bread, Activated)
        answered == Oldest({c \in DueCalls(h, t) : c.kind = kind}, Due)
    IN  [h EXCEPT !.flight = [spawned |-> t,
                              expires |-> t + Lifetime
                                          + (IF bread = {} THEN 0 ELSE BreadDelay)],
                  !.breads = @ \ eaten,
                  !.calls = @ \ answered]

StartFlight(g, t, kind) ==
    LET h == Advance(g, t)
    IN  IF h.flight = NoFlight THEN TakeOff(h, t, kind) ELSE h

(* The record takes the planned end of the flight. *)
ConcludeAsPlanned(g, t) ==
    [Advance(g, t) EXCEPT !.flight = NoFlight, !.ended = g.flight.expires]

Conclude(g, t) ==
    LET h == Advance(g, t)
    IN  [h EXCEPT !.flight = NoFlight, !.ended = t]

AddBread(g, t, due) ==
    [g EXCEPT !.breads = @ \union {[id |-> g.nextOrder, activated |-> t, due |-> due,
                                    expires |-> t + BreadLife]},
              !.nextOrder = @ + 1]

AddCall(g, kind, due) ==
    [g EXCEPT !.calls = @ \union {[id |-> g.nextOrder, kind |-> kind, due |-> due]},
              !.nextOrder = @ + 1]

(* What the amulets of the hunter add to a kill. *)
Rewarded(g, t, baker, prankster) ==
    LET fed == IF baker THEN AddBread(g, t, t + CallDelay) ELSE g
    IN  IF prankster THEN AddCall(fed, "mechanical", t + CallDelay) ELSE fed

Install(g, t, deadlines) ==
    [Advance(g, t) EXCEPT !.plan = [start |-> DayStart(t), deadlines |-> deadlines,
                                    consumed |-> {}]]

Expand(g, t, added) ==
    [Advance(g, t) EXCEPT !.plan.deadlines = @ \union added]

(* A cursor off by one, in either direction. *)
TickPlanShort(g, t) ==
    [Advance(g, t) EXCEPT !.plan.consumed = @ \union {d \in Open(g.plan) : d < t}]

TickPlanAhead(g, t) ==
    [Advance(g, t) EXCEPT !.plan.consumed = @ \union {d \in Open(g.plan) : d <= t + 1}]

(* The cursor passes every deadline up to the time of the tick. *)
TickPlan(g, t) ==
    [Advance(g, t) EXCEPT !.plan.consumed = @ \union {d \in Open(g.plan) : d <= t}]

-----------------------------------------------------------------------------
(* Dispatch.  A permit is taken before the event is applied. *)

Room == Len(unsaved) < Capacity

Commit(g) ==
    /\ Room
    /\ UNCHANGED <<clock, durable, crashes>>
    /\ game' = g
    /\ unsaved' = Append(unsaved, g)

-----------------------------------------------------------------------------
(* RuntimeSchedulingAdapter.step: the dispatches it makes, in order, each  *)
(* when its condition holds of the state the ones before it have left.     *)

Phases == <<"expire", "call", "bread", "install", "expand", "tick">>

Missing(plan) == PlanSize - Cardinality(plan.deadlines)
FreeSlots(plan) == {t \in Day(plan.start) : clock < t} \ plan.deadlines

(* A flight that ends just now is not over. *)
AppliesLate(phase, g) ==
    CASE phase = "expire" -> g.flight # NoFlight /\ g.flight.expires < clock
      [] phase = "call" -> g.flight = NoFlight /\ DueCalls(g, clock) # {}
      [] phase = "bread" -> g.flight = NoFlight /\ DueBreads(g, clock) # {}
      [] phase = "install" -> g.plan.start < DayStart(clock)
      [] phase = "expand" -> /\ Missing(g.plan) > 0
                             /\ Cardinality(FreeSlots(g.plan)) >= Missing(g.plan)
      [] phase = "tick" -> \E d \in Open(g.plan) : d <= clock

Applies(phase, g) ==
    CASE phase = "expire" -> g.flight # NoFlight /\ g.flight.expires <= clock
      [] phase = "call" -> g.flight = NoFlight /\ DueCalls(g, clock) # {}
      [] phase = "bread" -> g.flight = NoFlight /\ DueBreads(g, clock) # {}
      [] phase = "install" -> g.plan.start < DayStart(clock)
      [] phase = "expand" -> /\ Missing(g.plan) > 0
                             /\ Cardinality(FreeSlots(g.plan)) >= Missing(g.plan)
      [] phase = "tick" -> \E d \in Open(g.plan) : d <= clock

(* The first dispatch after number n of the list, or the end of the step.  *)
Following(n, g) ==
    LET left == {i \in n + 1 .. Len(Phases) : Applies(Phases[i], g)}
    IN  IF left = {} THEN "idle" ELSE Phases[CHOOSE i \in left : \A j \in left : i <= j]

(* The condition of dispatch n holds, and the step is there or starts there. *)
At(n) ==
    /\ Applies(Phases[n], game)
    /\ pc = Phases[n] \/ (pc = "idle" /\ \A i \in 1..n-1 : ~Applies(Phases[i], game))

(* An accepted event lets the step go on, a refused one ends it.           *)
Submit(n, g) == Commit(g) /\ pc' = Following(n, g)

Refused ==
    /\ pc \in {Phases[n] : n \in DOMAIN Phases} /\ ~Room
    /\ pc' = "idle"
    /\ UNCHANGED <<clock, game, unsaved, durable, fired, crashes>>

(* A flight that is over gives way to the oldest call due by then. *)
ExpireFlight ==
    /\ At(1)
    /\ LET over == game.flight.expires
           due == DueCalls(game, over)
       IN  \/ due = {} /\ Submit(1, Advance(game, over))
           \/ \E call \in Oldest(due, Due) : Submit(1, StartFlight(game, over, call.kind))
    /\ UNCHANGED fired

AnswerCall ==
    /\ At(2)
    /\ \E call \in Oldest(DueCalls(game, clock), Due) :
         Submit(2, StartFlight(game, Later(call.due, game.now), call.kind))
    /\ UNCHANGED fired

AttractFlight ==
    /\ At(3)
    /\ \E bread \in Oldest(DueBreads(game, clock), Due), kind \in {"standard", "golden"} :
         Submit(3, StartFlight(game, Later(bread.due, game.now), kind))
    /\ UNCHANGED fired

(* The midnight slot of a new plan is moved, so no plan holds midnight. *)
InstallPlan ==
    /\ At(4)
    /\ \E D \in SUBSET (Day(DayStart(clock)) \ {DayStart(clock)}) :
         /\ Cardinality(D) = PlanSize
         /\ Submit(4, Install(game, clock, D))
    /\ UNCHANGED fired

ExpandPlan ==
    /\ At(5)
    /\ \E added \in SUBSET FreeSlots(game.plan) :
         /\ Cardinality(added) = Missing(game.plan)
         /\ Submit(5, Expand(game, clock, added))
    /\ UNCHANGED fired

(* The first open deadline: a flight if it is on time and nothing flies,   *)
(* or else a tick that skips it and what else is due by the time it bears. *)
NextDeadlines == {d \in Open(game.plan) : \A e \in Open(game.plan) : d <= e}
OnTime(d) == game.now <= d /\ clock - d <= MaximumLateness

FireDeadline ==
    /\ At(6)
    /\ \E d \in NextDeadlines, kind \in {"standard", "golden"} :
         /\ OnTime(d) /\ ~FlightAt(game, d)
         /\ Submit(6, StartFlight(TickPlan(game, d), d, kind))
         /\ fired' = fired \union {d}

SkipDeadline ==
    /\ At(6)
    /\ \E d \in NextDeadlines :
         /\ ~OnTime(d) \/ FlightAt(game, d)
         /\ Submit(6, TickPlan(game, IF OnTime(d) THEN d ELSE clock))
    /\ UNCHANGED fired

Step == ExpireFlight \/ AnswerCall \/ AttractFlight \/ InstallPlan
        \/ ExpandPlan \/ FireDeadline \/ SkipDeadline \/ Refused

-----------------------------------------------------------------------------
(* Commands, at the time of the clock. *)

Command(g) == pc = "idle" /\ Commit(g) /\ UNCHANGED <<pc, fired>>
CanOrder(n) == game.nextOrder + n <= MaxOrders + 1

(* A miss, a query, a refused purchase: only time passes. *)
PassTime == game.now < clock /\ Command(Advance(game, clock))

(* A kill, with the amulets of the hunter, or a shot that frightens the    *)
(* flight away.  The record of a flight cannot end when it began: the      *)
(* constructor raises, and the shell stops the process.                    *)
EndFlight ==
    /\ FlightAt(game, clock) /\ clock > game.flight.spawned
    /\ \E baker, prankster \in BOOLEAN :
         LET over == Rewarded(Conclude(game, clock), clock, baker, prankster)
         IN  over.nextOrder <= MaxOrders + 1 /\ Command(over)

ShotRaises ==
    /\ pc = "idle"
    /\ FlightAt(game, clock) /\ clock = game.flight.spawned
    /\ crashes < MaxCrashes
    /\ pc' = "failed"
    /\ crashes' = crashes + 1
    /\ UNCHANGED <<clock, game, unsaved, durable, fired>>

OrderBread ==
    /\ CanOrder(1)
    /\ Cardinality(LiveBreads(game, clock)) < MaxBread
    /\ \E due \in clock + 1 .. clock + BreadLife - 1 :
        Command(AddBread(Advance(game, clock), clock, due))

OrderCall ==
    /\ CanOrder(1)
    /\ \/ \E due \in clock + 1 .. clock + CallDelay :
            Command(AddCall(Advance(game, clock), "standard", due))
       \/ Command(AddCall(Advance(game, clock), "mechanical", clock + CallDelay))

Launch ==
    /\ ~FlightAt(game, clock)
    /\ \E kind \in {"standard", "golden"} : Command(StartFlight(game, clock, kind))

Play == PassTime \/ EndFlight \/ ShotRaises \/ OrderBread \/ OrderCall \/ Launch

-----------------------------------------------------------------------------
(* The worker, the clock, and the end of the process. *)

Persist ==
    /\ unsaved # <<>>
    /\ durable' = Head(unsaved)
    /\ unsaved' = Tail(unsaved)
    /\ UNCHANGED <<clock, pc, game, fired, crashes>>

Elapse ==
    /\ pc = "idle"
    /\ clock < MaxNow
    /\ clock' = clock + 1
    /\ UNCHANGED <<pc, game, unsaved, durable, fired, crashes>>

(* A crash, or the restart of a process that failed: memory is lost. *)
Restart ==
    /\ pc = "failed" \/ crashes < MaxCrashes
    /\ pc' = "idle"
    /\ game' = durable
    /\ unsaved' = <<>>
    /\ fired' = {}
    /\ crashes' = IF pc = "failed" THEN crashes ELSE crashes + 1
    /\ UNCHANGED <<clock, durable>>

(* A step that finds nothing to do. *)
Rest == pc = "idle" /\ Following(0, game) = "idle" /\ UNCHANGED vars

Next == Step \/ Rest \/ Play \/ Persist \/ Elapse \/ Restart

Spec == Init /\ [][Next]_vars

(* The loop goes on stepping and every dispatch of a step is reached, the  *)
(* worker writes, and a failed process is started again.  Nobody plays and *)
(* no time passes unless they choose to.                                   *)
Fairness ==
    /\ WF_vars(Step)
    /\ WF_vars(Persist)
    /\ WF_vars(pc = "failed" /\ Restart)

FairSpec == Spec /\ Fairness

-----------------------------------------------------------------------------
Call == [id : Nat, kind : {"standard", "mechanical"}, due : Nat]
Bread == [id : Nat, activated : Nat, due : Nat, expires : Nat]
Plan == [start : Int, deadlines : SUBSET Int, consumed : SUBSET Int]
GameState ==
    [now : Nat, flight : [spawned : Int, expires : Int], ended : Int,
     calls : SUBSET Call, breads : SUBSET Bread, nextOrder : Nat, plan : Plan]

(* Every variable keeps its type, and the game never runs ahead of the     *)
(* clock, not even with the record of its last flight.                     *)
TypeOK ==
    /\ clock \in 0..MaxNow
    /\ pc \in {"idle", "failed"} \union {Phases[n] : n \in DOMAIN Phases}
    /\ game \in GameState /\ durable \in GameState
    /\ unsaved \in Seq(GameState) /\ Len(unsaved) <= Capacity
    /\ fired \subseteq 0..MaxNow
    /\ crashes \in 0..MaxCrashes
    /\ game.now <= clock /\ game.ended <= clock

(* What GameState, DailySchedule and LastFlight demand of their fields: no *)
(* sequence of accepted events leads to a state a constructor refuses, and *)
(* none to a flight that began before the last one ended.                  *)
Valid(g) ==
    /\ g.ended <= g.now
    /\ g.flight # NoFlight =>
         /\ g.ended <= g.flight.spawned
         /\ g.flight.spawned <= g.now
         /\ g.now < g.flight.expires
    /\ \A x, y \in g.calls \union g.breads : x.id = y.id => x = y
    /\ \A x \in g.calls \union g.breads : x.id < g.nextOrder
    /\ \A b \in g.breads :
         /\ b.activated <= g.now /\ g.now < b.expires
         /\ b.activated < b.due /\ b.due < b.expires
    /\ g.plan.consumed \subseteq g.plan.deadlines
    /\ g.plan.deadlines \subseteq Day(g.plan.start)
    /\ \A c \in g.plan.consumed, d \in Open(g.plan) : c < d

(* The game at work, the states on their way to the disk and the one a     *)
(* restart finds are all valid.                                            *)
GameStateIsValid ==
    /\ Valid(game) /\ Valid(durable)
    /\ \A i \in DOMAIN unsaved : Valid(unsaved[i])

(* The plan is never of a day to come, never longer than the policy        *)
(* allows, and its cursor never passes the time of the game: a step cannot *)
(* be refused a plan, and an extension never touches what was consumed.    *)
PlanFollowsClock ==
    /\ game.plan.start <= DayStart(clock)
    /\ Cardinality(game.plan.deadlines) <= PlanSize
    /\ \A d \in game.plan.consumed : d <= game.now

(* Both: what the step is about to work on is never refused.               *)
GameStaysPlayable == GameStateIsValid /\ PlanFollowsClock

(* A deadline whose flight this process has announced is never open again. *)
DeadlineFiresOnce == fired \intersect Open(game.plan) = {}

(* What the proofs of HuntProofs show to be inductive: a sound state at    *)
(* work, on its way to the disk and on it.                                 *)
Sound(g, t) ==
    /\ g \in GameState /\ Valid(g)
    /\ g.now <= t
    /\ g.plan.start <= DayStart(t)
    /\ IsFiniteSet(g.plan.deadlines) /\ Cardinality(g.plan.deadlines) <= PlanSize
    /\ \A d \in g.plan.consumed : d <= g.now

IInv ==
    /\ clock \in Nat /\ clock <= MaxNow
    /\ unsaved \in Seq(GameState)
    /\ Sound(game, clock) /\ Sound(durable, clock)
    /\ \A i \in DOMAIN unsaved : Sound(unsaved[i], clock)

Accepted == unsaved' = Append(unsaved, game')
TakesOff == game'.flight # NoFlight /\ game'.flight # game.flight

(* No accepted event is dated before the game: however late a step handles *)
(* what was due, the event loop is not stopped by a clock going backwards. *)
TimeNeverGoesBack == [][Accepted => game.now <= game'.now]_vars

(* A flight ends at its own time or under a shot, never because another    *)
(* one is called, attracted, launched or due.                              *)
FlightsAreNotCutShort ==
    [][Accepted /\ game.flight # NoFlight /\ game'.flight # game.flight =>
         \/ game.flight.expires <= game'.now
         \/ /\ game'.flight = NoFlight
            /\ game'.ended = game'.now /\ game'.now = clock]_vars

(* Both: flights and events keep their time.                               *)
TimesAreKept == TimeNeverGoesBack /\ FlightsAreNotCutShort

(* A paid call leaves the queue only when it is due and a flight starts,   *)
(* one call for one flight and the oldest of its kind first.               *)
CallsAreKept ==
    [][Accepted =>
         \A c \in game.calls \ game'.calls :
            /\ TakesOff /\ c.due <= game'.now
            /\ \A d \in game.calls \ {c} :
                 d \in game'.calls /\ (d.kind = c.kind => c.due <= d.due)]_vars

(* A takeoff stays longer exactly when it takes one piece of bread that is *)
(* still fresh; no piece goes otherwise before its hour is over.           *)
BreadIsPaidBack ==
    [][Accepted =>
         LET eaten == {b \in game.breads \ game'.breads : game'.now < b.expires}
             longer == game'.flight.expires - game'.flight.spawned > Lifetime
         IN  /\ eaten # {} => TakesOff
             /\ TakesOff => Cardinality(eaten) = IF longer THEN 1 ELSE 0]_vars

(* Whatever the queue refuses and however the process crashes, the step    *)
(* catches up with the clock: no flight outstays its time, no order waits  *)
(* on an empty sky, no deadline stays open, and the plan is today's.       *)
CatchesUp ==
    []<>(/\ game.flight # NoFlight => clock < game.flight.expires
         /\ game.flight = NoFlight => DueCalls(game, clock) \union DueBreads(game, clock) = {}
         /\ \A d \in Open(game.plan) : clock < d
         /\ game.plan.start = DayStart(clock))

(* No event makes the process fail: in particular the flight that a shot   *)
(* hits in the poll it was launched in has a record.                       *)
NothingRaises == pc # "failed"
=============================================================================
