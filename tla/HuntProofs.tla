----------------------------- MODULE HuntProofs -----------------------------
(***************************************************************************)
(* Proofs about Hunt for every length of day, flight, delay and queue.     *)
(*                                                                         *)
(* The argument: each operator of the game leads from a sound state to one *)
(* whose time is that of the event; every accepted event is one of these   *)
(* operators at a time between the game and the clock (StepMoves,          *)
(* PlayMoves); so IInv is inductive.  What a step may never do is shown of *)
(* each move.  That a deadline fires once needs more: plans begin at       *)
(* midnight, and what has fired lies before the end of the plan (FInv).    *)
(***************************************************************************)
EXTENDS Hunt, FiniteSetTheorems, WellFoundedInduction, TLAPS

LEMMA ConstantTypes ==
    /\ DayLength \in Nat \ {0} /\ Lifetime \in Nat \ {0} /\ PlanSize \in Nat \ {0}
    /\ BreadDelay \in Nat \ {0} /\ BreadLife \in Nat \ {0, 1} /\ CallDelay \in 1..BreadLife - 1
    /\ MaxNow \in Nat
BY HuntConstants

(* Division with remainder, and what it says of one more.                  *)
LEMMA Division ==
    ASSUME NEW t \in Nat, NEW L \in Nat \ {0}
    PROVE  t = L * (t \div L) + (t % L) /\ t % L \in 0..L-1 /\ t \div L \in Int
OBVIOUS

LEMMA Multiples ==
    ASSUME NEW k \in Int, NEW L \in Nat \ {0}
    PROVE  (k >= 1 => L * k >= L) /\ (k <= 0 => L * k <= 0)
OBVIOUS

LEMMA NextRemainder ==
    ASSUME NEW t \in Nat, NEW L \in Nat \ {0}
    PROVE  (t + 1) % L <= (t % L) + 1
<1> DEFINE q == t \div L
           p == (t + 1) \div L
           r == t % L
           s == (t + 1) % L
<1>1. t = L * q + r /\ r \in 0..L-1 /\ q \in Int
  BY Division
<1>2. t + 1 = L * p + s /\ s \in 0..L-1 /\ p \in Int
  BY Division
<1> HIDE DEF q, p, r, s
<1>3. L * (q - p) = s - r - 1
  BY <1>1, <1>2
<1>4. ~(q - p >= 1)
  BY <1>1, <1>2, <1>3, Multiples
<1>5. s <= r + 1
  BY <1>1, <1>2, <1>3, <1>4, Multiples
<1> QED
  BY <1>5 DEF r, s

(* A later time lies in the same day or in a later one.                    *)
LEMMA DayStartMonotone ==
    ASSUME NEW t \in Nat
    PROVE  /\ DayStart(t) \in Int /\ DayStart(t) <= t
           /\ DayStart(t) <= DayStart(t + 1)
<1>1. t % DayLength \in 0..DayLength-1 /\ (t + 1) % DayLength \in 0..DayLength-1
  BY ConstantTypes, Division
<1>2. (t + 1) % DayLength <= (t % DayLength) + 1
  BY ConstantTypes, NextRemainder
<1> QED
  BY <1>1, <1>2 DEF DayStart

(* Time passes: flights and bread that are over go, and nothing else.      *)
LEMMA AdvanceSound ==
    ASSUME NEW now \in Nat, NEW g, Sound(g, now), NEW t \in Nat, g.now <= t, t <= now
    PROVE  /\ Sound(Advance(g, t), now)
           /\ Advance(g, t).now = t
           /\ Advance(g, t).plan = g.plan
<1>1. NoFlight \in [spawned : Int, expires : Int]
  BY DEF NoFlight
<1>2. Advance(g, t) \in GameState /\ Advance(g, t).now = t
  BY <1>1 DEF Sound, Advance, GameState
<1>3. Advance(g, t).plan = g.plan
  BY DEF Sound, Advance, GameState
<1>4. Valid(Advance(g, t))
  BY <1>1 DEF Sound, Advance, GameState, Valid, Bread, Open
<1>5. \A d \in g.plan.consumed : d <= g.now /\ d \in Int /\ g.now \in Nat
  BY DEF Sound, GameState, Plan
<1>6. \A d \in g.plan.consumed : d <= t
  BY <1>5
<1> DEFINE k == Advance(g, t)
<1> HIDE DEF k
<1>7. k \in GameState /\ Valid(k) /\ k.now = t /\ k.plan = g.plan
  BY <1>2, <1>3, <1>4 DEF k
<1>8. Sound(k, now)
  BY <1>6, <1>7 DEF Sound
<1> QED
  BY <1>7, <1>8 DEF k

(* A takeoff from an empty sky, and the flight it starts if there is none. *)
LEMMA TakeOffSound ==
    ASSUME NEW now \in Nat, NEW h, Sound(h, now), h.flight = NoFlight, NEW kind,
           NEW t \in Nat, h.now = t
    PROVE  /\ Sound(TakeOff(h, t, kind), now)
           /\ TakeOff(h, t, kind).now = t
<1> DEFINE delay == IF LiveBreads(h, t) = {} THEN 0 ELSE BreadDelay
           f == [spawned |-> t, expires |-> t + Lifetime + delay]
           breads == h.breads \ Oldest(LiveBreads(h, t), Activated)
           calls == h.calls \ Oldest({c \in DueCalls(h, t) : c.kind = kind}, Due)
           k == [h EXCEPT !.flight = f, !.breads = breads, !.calls = calls]
<1>1. f \in [spawned : Int, expires : Int] /\ f.spawned = t /\ t < f.expires
  BY ConstantTypes
<1>2. breads \subseteq h.breads /\ calls \subseteq h.calls
  OBVIOUS
<1> HIDE DEF f, breads, calls
<1>3. k \in GameState /\ k.now = t
  BY <1>1, <1>2 DEF Sound, GameState
<1>4. Valid(k)
  BY <1>1, <1>2 DEF Sound, GameState, Valid, Bread, Open
<1>5. Sound(k, now)
  BY <1>3, <1>4 DEF Sound, GameState
<1>6. TakeOff(h, t, kind) = k
  BY DEF TakeOff, f, breads, calls
<1> QED
  BY <1>3, <1>5, <1>6

LEMMA StartFlightSound ==
    ASSUME NEW now \in Nat, NEW g, Sound(g, now), NEW t \in Nat, g.now <= t, t <= now, NEW kind
    PROVE  /\ Sound(StartFlight(g, t, kind), now)
           /\ StartFlight(g, t, kind).now = t
BY AdvanceSound, TakeOffSound DEF StartFlight

(* A kill or a flight frightened away.                                     *)
LEMMA ConcludeSound ==
    ASSUME NEW now \in Nat, NEW g, Sound(g, now), NEW t \in Nat, g.now <= t, t <= now
    PROVE  /\ Sound(Conclude(g, t), now)
           /\ Conclude(g, t).now = t
<1> DEFINE h == Advance(g, t)
           c == [h EXCEPT !.flight = NoFlight, !.ended = t]
<1>1. Sound(h, now) /\ h.now = t
  BY AdvanceSound
<1> HIDE DEF h
<1>a. NoFlight \in [spawned : Int, expires : Int] /\ t \in Int
  BY DEF NoFlight
<1>2. c \in GameState /\ c.now = t
  BY <1>1, <1>a DEF Sound, GameState
<1>3. Valid(c)
  BY <1>1 DEF Sound, GameState, Valid, Open
<1>4. Sound(c, now)
  BY <1>1, <1>2, <1>3 DEF Sound, GameState
<1> QED
  BY <1>2, <1>4 DEF Conclude, h

(* An order gets an identifier nobody has.                                 *)
LEMMA AddBreadSound ==
    ASSUME NEW now \in Nat, NEW g, Sound(g, now),
           NEW due \in g.now + 1 .. g.now + BreadLife - 1
    PROVE  /\ Sound(AddBread(g, g.now, due), now)
           /\ AddBread(g, g.now, due).now = g.now
<1> DEFINE b == [id |-> g.nextOrder, activated |-> g.now, due |-> due,
                 expires |-> g.now + BreadLife]
           h == [g EXCEPT !.breads = @ \union {b}, !.nextOrder = @ + 1]
<1>1. g.now \in Nat /\ g.nextOrder \in Nat
  BY DEF Sound, GameState
<1>2. /\ b \in Bread /\ b.id = g.nextOrder
      /\ b.activated = g.now /\ g.now < b.expires /\ g.now < b.due /\ b.due < b.expires
  BY <1>1, ConstantTypes DEF Bread
<1> HIDE DEF b
<1> DEFINE breads == g.breads \union {b}
           order == g.nextOrder + 1
<1>a. breads \subseteq Bread /\ order \in Nat
  BY <1>1, <1>2 DEF Sound, GameState
<1>b. h = [g EXCEPT !.breads = breads, !.nextOrder = order]
  OBVIOUS
<1> HIDE DEF breads, order, h
<1>3. h \in GameState /\ h.now = g.now
  BY <1>a, <1>b DEF Sound, GameState
<1>4. Valid(h)
  BY <1>1, <1>2, <1>b DEF Sound, GameState, Valid, Bread, Call, Open, breads, order
<1>5. Sound(h, now)
  BY <1>3, <1>4, <1>b DEF Sound, GameState
<1> QED
  BY <1>3, <1>5 DEF AddBread, b, h

LEMMA AddCallSound ==
    ASSUME NEW now \in Nat, NEW g, Sound(g, now),
           NEW kind \in {"standard", "mechanical"}, NEW due \in Nat
    PROVE  /\ Sound(AddCall(g, kind, due), now)
           /\ AddCall(g, kind, due).now = g.now
<1> DEFINE c == [id |-> g.nextOrder, kind |-> kind, due |-> due]
           h == [g EXCEPT !.calls = @ \union {c}, !.nextOrder = @ + 1]
           calls == g.calls \union {c}
           order == g.nextOrder + 1
<1>1. c \in Call /\ c.id = g.nextOrder
  BY DEF Sound, GameState, Call
<1> HIDE DEF c
<1>2. calls \subseteq Call /\ order \in Nat
  BY <1>1 DEF Sound, GameState
<1>3. h = [g EXCEPT !.calls = calls, !.nextOrder = order]
  OBVIOUS
<1> HIDE DEF calls, order, h
<1>4. h \in GameState /\ h.now = g.now
  BY <1>2, <1>3 DEF Sound, GameState
<1>5. Valid(h)
  BY <1>1, <1>3 DEF Sound, GameState, Valid, Bread, Call, Open, calls, order
<1>6. Sound(h, now)
  BY <1>3, <1>4, <1>5 DEF Sound, GameState
<1> QED
  BY <1>4, <1>6 DEF AddCall, c, h

LEMMA DayFinite ==
    ASSUME NEW s \in Int
    PROVE  IsFiniteSet(Day(s)) /\ Day(s) \subseteq Int
BY ConstantTypes, FS_Interval DEF Day

(* A plan installed in time is whole and nothing of it is consumed.        *)
LEMMA InstallSound ==
    ASSUME NEW now \in Nat, NEW g, Sound(g, now),
           NEW D \in SUBSET (Day(DayStart(now)) \ {DayStart(now)}), Cardinality(D) = PlanSize
    PROVE  /\ Sound(Install(g, now, D), now)
           /\ Install(g, now, D).now = now
<1> DEFINE h == Advance(g, now)
           p == [start |-> DayStart(now), deadlines |-> D, consumed |-> {}]
           k == [h EXCEPT !.plan = p]
<1>1. Sound(h, now) /\ h.now = now
  BY AdvanceSound DEF Sound, GameState
<1>2. /\ DayStart(now) \in Int
      /\ IsFiniteSet(Day(DayStart(now))) /\ Day(DayStart(now)) \subseteq Int
  BY DayStartMonotone, DayFinite
<1>3. IsFiniteSet(D) /\ D \subseteq Day(DayStart(now)) /\ D \subseteq Int
  BY <1>2, FS_Subset
<1>4. p \in Plan /\ p.start = DayStart(now) /\ p.deadlines = D /\ p.consumed = {}
  BY <1>2, <1>3 DEF Plan
<1> HIDE DEF h, p
<1>5. k \in GameState /\ k.now = now
  BY <1>1, <1>4 DEF Sound, GameState
<1>6. Valid(k)
  BY <1>1, <1>3, <1>4 DEF Sound, GameState, Valid, Open
<1>7. Sound(k, now)
  BY <1>1, <1>2, <1>3, <1>4, <1>5, <1>6, ConstantTypes DEF Sound, GameState
<1> QED
  BY <1>5, <1>7 DEF Install, h, p

(* An extension adds times after the clock, which the cursor has not       *)
(* reached, and as many as the plan is short of.                           *)
LEMMA ExpandSound ==
    ASSUME NEW now \in Nat, NEW g, Sound(g, now),
           NEW added \in SUBSET {t \in Day(g.plan.start) \ g.plan.deadlines : now < t},
           Cardinality(added) = Missing(g.plan)
    PROVE  /\ Sound(Expand(g, now, added), now)
           /\ Expand(g, now, added).now = now
<1> DEFINE h == Advance(g, now)
           p == [h.plan EXCEPT !.deadlines = @ \union added]
           k == [h EXCEPT !.plan = p]
<1>1. Sound(h, now) /\ h.now = now /\ h.plan = g.plan
  BY AdvanceSound DEF Sound, GameState
<1> HIDE DEF h
<1>2. h.plan \in Plan /\ h.plan.start \in Int /\ IsFiniteSet(h.plan.deadlines)
  BY <1>1 DEF Sound, GameState, Plan
<1>3. /\ IsFiniteSet(Day(h.plan.start)) /\ Day(h.plan.start) \subseteq Int
      /\ added \subseteq Day(h.plan.start)
  BY <1>1, <1>2, DayFinite
<1>4. IsFiniteSet(added) /\ added \subseteq Int
  BY <1>3, FS_Subset
<1>5. h.plan.deadlines \intersect added = {}
  BY <1>1
<1>6. /\ IsFiniteSet(h.plan.deadlines \union added)
      /\ Cardinality(h.plan.deadlines \union added) = Cardinality(h.plan.deadlines)
             + Cardinality(added) - Cardinality(h.plan.deadlines \intersect added)
  BY <1>2, <1>4, FS_Union
<1>7. Cardinality(h.plan.deadlines \union added) = PlanSize
  <2>1. /\ Cardinality(h.plan.deadlines) \in Nat /\ PlanSize \in Nat
        /\ Cardinality(h.plan.deadlines \intersect added) = 0
    BY <1>2, <1>5, FS_EmptySet, FS_CardinalityType, ConstantTypes
  <2>2. Cardinality(added) = PlanSize - Cardinality(h.plan.deadlines)
    BY <1>1 DEF Missing
  <2> QED
    BY <2>1, <2>2, <1>6
<1>8. /\ p \in Plan /\ p.start = h.plan.start /\ p.consumed = h.plan.consumed
      /\ p.deadlines = h.plan.deadlines \union added
  BY <1>2, <1>4 DEF Plan
<1> HIDE DEF p
<1>9. k \in GameState /\ k.now = now
  BY <1>1, <1>8 DEF Sound, GameState
<1>10. \A c \in p.consumed, d \in Open(p) : c < d
  <2>1. \A c \in p.consumed : c <= now /\ c \in Int
    BY <1>1, <1>2, <1>8 DEF Sound, Plan
  <2>2. \A d \in added : now < d /\ d \in Int
    BY <1>4
  <2>3. \A c \in h.plan.consumed, d \in Open(h.plan) : c < d
    BY <1>1 DEF Sound, Valid
  <2> QED
    BY <2>1, <2>2, <2>3, <1>8 DEF Open
<1>11. Valid(k)
  BY <1>1, <1>3, <1>8, <1>10 DEF Sound, GameState, Valid
<1>12. Sound(k, now)
  <2>1. k.plan = p
    BY <1>1 DEF Sound, GameState
  <2>2. /\ IsFiniteSet(p.deadlines) /\ Cardinality(p.deadlines) <= PlanSize
        /\ p.start <= DayStart(now) /\ \A d \in p.consumed : d <= now
    BY <1>1, <1>6, <1>7, <1>8, ConstantTypes DEF Sound
  <2> QED
    BY <2>1, <2>2, <1>9, <1>11 DEF Sound
<1>13. Expand(g, now, added) = k
  BY <1>1, <1>2 DEF Expand, h, p, Sound, GameState, Plan
<1> QED
  BY <1>9, <1>12, <1>13

(* The cursor passes the deadlines up to a time the game reaches with it.  *)
LEMMA TickPlanSound ==
    ASSUME NEW now \in Nat, NEW g, Sound(g, now), NEW t \in Nat, g.now <= t, t <= now
    PROVE  /\ Sound(TickPlan(g, t), now)
           /\ TickPlan(g, t).now = t
<1> DEFINE h == Advance(g, t)
           passed == {d \in Open(g.plan) : d <= t}
           p == [h.plan EXCEPT !.consumed = @ \union passed]
           k == [h EXCEPT !.plan = p]
<1>1. Sound(h, now) /\ h.now = t /\ h.plan = g.plan
  BY AdvanceSound
<1> HIDE DEF h
<1>2. h.plan \in Plan /\ h.plan.deadlines \subseteq Int /\ h.plan.consumed \subseteq Int
  BY <1>1 DEF Sound, GameState, Plan
<1>3. /\ p \in Plan /\ p.start = h.plan.start /\ p.deadlines = h.plan.deadlines
      /\ p.consumed = h.plan.consumed \union passed
  BY <1>1, <1>2 DEF Plan, Open
<1> HIDE DEF p
<1>4. k \in GameState /\ k.now = t
  BY <1>1, <1>3 DEF Sound, GameState
<1>5. \A c \in p.consumed, d \in Open(p) : c < d
  <2>1. \A c \in h.plan.consumed, d \in Open(h.plan) : c < d
    BY <1>1 DEF Sound, Valid
  <2> QED
    BY <2>1, <1>1, <1>2, <1>3 DEF Open
<1>6. Valid(k)
  BY <1>1, <1>3, <1>5 DEF Sound, GameState, Valid, Open
<1>7. \A d \in p.consumed : d <= t
  BY <1>1, <1>2, <1>3 DEF Sound, GameState
<1>8. Sound(k, now)
  BY <1>1, <1>3, <1>4, <1>6, <1>7 DEF Sound, GameState
<1>9. TickPlan(g, t) = k
  BY <1>1, <1>2 DEF TickPlan, h, p, Sound, GameState, Plan
<1> QED
  BY <1>4, <1>8, <1>9

-----------------------------------------------------------------------------
(* The invariant: initially, and along every step. *)

LEMMA FirstDay == DayStart(0) = 0
<1> DEFINE q == 0 \div DayLength
           r == 0 % DayLength
<1>1. 0 = DayLength * q + r /\ r \in 0..DayLength-1 /\ q \in Int /\ DayLength \in Nat \ {0}
  BY ConstantTypes, Division
<1> HIDE DEF q, r
<1>2. /\ q >= 1 => DayLength * q >= DayLength
      /\ -q >= 1 => DayLength * (-q) >= DayLength
  BY <1>1, Multiples
<1>3. DayLength * (-q) = -(DayLength * q)
  BY <1>1
<1>4. r = 0
  BY <1>1, <1>2, <1>3
<1> QED
  BY <1>4 DEF DayStart, r

(* A process that finds no plan, or a short one, starts sound.             *)
LEMMA InitSound == Init => IInv
<1> SUFFICES ASSUME Init
             PROVE  IInv
  OBVIOUS
<1>1. PICK plan \in FirstPlans :
        game = [now |-> 0, flight |-> NoFlight, ended |-> -1, calls |-> {}, breads |-> {},
                nextOrder |-> 1, plan |-> plan]
  BY DEF Init
<1>2. /\ plan \in Plan /\ plan.start <= 0 /\ plan.consumed = {}
      /\ IsFiniteSet(plan.deadlines) /\ Cardinality(plan.deadlines) <= PlanSize
      /\ plan.deadlines \subseteq Day(plan.start)
  BY HuntConstants, ConstantTypes DEF Plan, Day
<1>3. NoFlight \in [spawned : Int, expires : Int]
  BY DEF NoFlight
<1>4. game \in GameState
  BY <1>1, <1>2, <1>3 DEF GameState
<1>5. Valid(game)
  BY <1>1, <1>2 DEF Valid
<1>6. Sound(game, 0)
  BY <1>1, <1>2, <1>4, <1>5, FirstDay DEF Sound
<1> QED
  BY <1>6, ConstantTypes DEF Init, IInv

LEMMA SoundLater ==
    ASSUME NEW now \in Nat, NEW g, Sound(g, now)
    PROVE  Sound(g, now + 1)
<1>1. g.now \in Nat /\ g.plan.start \in Int
  BY DEF Sound, GameState, Plan
<1>2. DayStart(now) \in Int /\ DayStart(now + 1) \in Int /\ DayStart(now) <= DayStart(now + 1)
  BY DayStartMonotone
<1>3. g.now <= now + 1 /\ g.plan.start <= DayStart(now + 1)
  BY <1>1, <1>2 DEF Sound
<1> QED
  BY <1>3 DEF Sound

(* A sound state may join the queue.                                       *)
LEMMA CommitSound ==
    ASSUME IInv, NEW g, Sound(g, clock), Commit(g)
    PROVE  IInv'
<1>1. g \in GameState
  BY DEF Sound
<1>2. unsaved' \in Seq(GameState) /\ Sound(game', clock) /\ Sound(durable', clock)
  BY <1>1 DEF Commit, IInv
<1>3. \A i \in DOMAIN unsaved' : Sound(unsaved'[i], clock)
  BY <1>1 DEF Commit, IInv
<1> QED
  BY <1>2, <1>3 DEF Commit, IInv

(* What a sound game says of its parts.                                    *)
LEMMA SoundParts ==
    ASSUME NEW now \in Nat, NEW g, Sound(g, now)
    PROVE  /\ g.now \in Nat /\ g.now <= now
           /\ g.flight # NoFlight => g.flight.expires \in Nat /\ g.now < g.flight.expires
           /\ \A c \in g.calls : c.due \in Nat
           /\ \A b \in g.breads : b.due \in Nat
           /\ g.plan.deadlines \subseteq Int
<1>1. g.flight.expires \in Int
  BY DEF Sound, GameState
<1> QED
  BY <1>1 DEF Sound, GameState, Valid, Call, Bread, Plan

(* The deadline a step is at, when it is on time.                          *)
LEMMA NextDeadline ==
    ASSUME IInv, At(6), NEW d \in NextDeadlines, OnTime(d)
    PROVE  d \in Nat /\ game.now <= d /\ d <= clock
<1>1. clock \in Nat /\ Sound(game, clock)
  BY DEF IInv
<1>2. d \in Int /\ game.now <= d /\ \A e \in Open(game.plan) : e \in Int /\ d <= e
  BY <1>1, SoundParts DEF NextDeadlines, OnTime, Open
<1>3. \E e \in Open(game.plan) : e <= clock
  BY DEF At, Phases, Applies
<1> QED
  BY <1>1, <1>2, <1>3, SoundParts

(* The ways an event dated t changes the game.                             *)
Move(g, t, h) ==
    \/ h = Advance(g, t)
    \/ h = TickPlan(g, t)
    \/ \E kind : h = StartFlight(g, t, kind) \/ h = StartFlight(TickPlan(g, t), t, kind)
    \/ /\ t = clock
       /\ \E D \in SUBSET (Day(DayStart(t)) \ {DayStart(t)}) :
            Cardinality(D) = PlanSize /\ g.plan.start < DayStart(t) /\ h = Install(g, t, D)
    \/ /\ t = clock
       /\ \E added \in SUBSET FreeSlots(g.plan) :
            Cardinality(added) = Missing(g.plan) /\ h = Expand(g, t, added)
    \/ /\ t = clock
       /\ \E baker, prankster \in BOOLEAN :
            h = Rewarded(Conclude(g, t), t, baker, prankster)
    \/ \E due \in t + 1 .. t + BreadLife - 1 : h = AddBread(Advance(g, t), t, due)
    \/ \E kind \in {"standard", "mechanical"}, due \in Nat :
         h = AddCall(Advance(g, t), kind, due)

Moves == \E t \in Nat : /\ game.now <= t /\ t <= clock
                        /\ Move(game, t, game') /\ Commit(game')

(* No event leads out of the sound states, and each sets the time.         *)
LEMMA MoveSound ==
    ASSUME clock \in Nat, NEW g, Sound(g, clock),
           NEW t \in Nat, g.now <= t, t <= clock, NEW h, Move(g, t, h)
    PROVE  Sound(h, clock) /\ h.now = t
<1>1. Sound(Advance(g, t), clock) /\ Advance(g, t).now = t
  BY AdvanceSound
<1>2. CASE h = Advance(g, t)
  BY <1>1, <1>2
<1>3. CASE h = TickPlan(g, t)
  BY <1>3, TickPlanSound
<1>4. CASE \E kind : h = StartFlight(g, t, kind) \/ h = StartFlight(TickPlan(g, t), t, kind)
  <2>1. Sound(TickPlan(g, t), clock) /\ TickPlan(g, t).now = t
    BY TickPlanSound
  <2> QED
    BY <1>4, <2>1, StartFlightSound
<1>5. CASE /\ t = clock
           /\ \E D \in SUBSET (Day(DayStart(t)) \ {DayStart(t)}) :
                Cardinality(D) = PlanSize /\ h = Install(g, t, D)
  BY <1>5, InstallSound
<1>6. CASE /\ t = clock
           /\ \E added \in SUBSET FreeSlots(g.plan) :
                Cardinality(added) = Missing(g.plan) /\ h = Expand(g, t, added)
  <2>1. PICK added \in SUBSET FreeSlots(g.plan) :
          Cardinality(added) = Missing(g.plan) /\ h = Expand(g, clock, added)
    BY <1>6
  <2>2. added \in SUBSET {u \in Day(g.plan.start) \ g.plan.deadlines : clock < u}
    BY <2>1 DEF FreeSlots
  <2> QED
    BY <1>6, <2>1, <2>2, ExpandSound
<1>7. CASE \E baker, prankster \in BOOLEAN :
             h = Rewarded(Conclude(g, t), t, baker, prankster)
  <2> DEFINE over == Conclude(g, t)
             fed(baker) == IF baker THEN AddBread(over, t, t + CallDelay) ELSE over
  <2>1. PICK baker \in BOOLEAN, prankster \in BOOLEAN :
          h = IF prankster THEN AddCall(fed(baker), "mechanical", t + CallDelay)
                           ELSE fed(baker)
    BY <1>7 DEF Rewarded
  <2>2. Sound(over, clock) /\ over.now = t
    BY ConcludeSound
  <2> HIDE DEF over
  <2>3. t + CallDelay \in t + 1 .. t + BreadLife - 1 /\ t + CallDelay \in Nat
    BY ConstantTypes
  <2>4. Sound(AddBread(over, t, t + CallDelay), clock) /\ AddBread(over, t, t + CallDelay).now = t
    BY <2>2, <2>3, AddBreadSound
  <2>5. Sound(fed(baker), clock) /\ fed(baker).now = t
    BY <2>2, <2>4
  <2> HIDE DEF fed
  <2> QED
    BY <2>1, <2>3, <2>5, AddCallSound
<1>8. CASE \E due \in t + 1 .. t + BreadLife - 1 : h = AddBread(Advance(g, t), t, due)
  BY <1>1, <1>8, AddBreadSound
<1>9. CASE \E kind \in {"standard", "mechanical"}, due \in Nat :
             h = AddCall(Advance(g, t), kind, due)
  <2> PICK kind \in {"standard", "mechanical"}, due \in Nat :
              h = AddCall(Advance(g, t), kind, due)
    BY <1>9
  <2> QED
    BY <1>1, AddCallSound
<1> QED
  BY <1>2, <1>3, <1>4, <1>5, <1>6, <1>7, <1>8, <1>9 DEF Move

(* A dispatch of a step is dated between the time of the game and the      *)
(* clock, or is refused.                                                   *)
LEMMA StepMoves == IInv /\ Step => Moves \/ Refused
<1> SUFFICES ASSUME IInv, Step, ~Refused
             PROVE  Moves
  OBVIOUS
<1>1. clock \in Nat /\ Sound(game, clock) /\ game.now \in Nat /\ game.now <= clock
  BY SoundParts DEF IInv
<1>2. \A n, g : Submit(n, g) => Commit(g) /\ game' = g
  BY DEF Submit, Commit
<1>3. CASE ExpireFlight
  <2>1. game.flight # NoFlight /\ game.flight.expires <= clock
    BY <1>3 DEF ExpireFlight, At, Phases, Applies
  <2>2. game.flight.expires \in Nat /\ game.now <= game.flight.expires
    BY <1>1, <2>1, SoundParts
  <2>3. Commit(game') /\ Move(game, game.flight.expires, game')
    BY <1>2, <1>3 DEF ExpireFlight, Move
  <2> QED
    BY <2>1, <2>2, <2>3 DEF Moves
<1>4. CASE AnswerCall
  <2>1. PICK call \in game.calls :
          /\ call.due <= clock /\ Commit(game')
          /\ game' = StartFlight(game, Later(call.due, game.now), call.kind)
    BY <1>2, <1>4 DEF AnswerCall, Oldest, DueCalls
  <2>2. /\ Later(call.due, game.now) \in Nat
        /\ game.now <= Later(call.due, game.now) /\ Later(call.due, game.now) <= clock
    BY <1>1, <2>1, SoundParts DEF Later
  <2> QED
    BY <2>1, <2>2 DEF Moves, Move
<1>5. CASE AttractFlight
  <2>1. PICK bread \in game.breads, kind \in {"standard", "golden"} :
          /\ bread.due <= clock /\ Commit(game')
          /\ game' = StartFlight(game, Later(bread.due, game.now), kind)
    BY <1>2, <1>5 DEF AttractFlight, Oldest, DueBreads, LiveBreads
  <2>2. /\ Later(bread.due, game.now) \in Nat
        /\ game.now <= Later(bread.due, game.now) /\ Later(bread.due, game.now) <= clock
    BY <1>1, <2>1, SoundParts DEF Later
  <2> QED
    BY <2>1, <2>2 DEF Moves, Move
<1>6. CASE InstallPlan
  <2>1. game.plan.start < DayStart(clock)
    BY <1>6 DEF InstallPlan, At, Phases, Applies
  <2>2. Commit(game') /\ Move(game, clock, game')
    BY <1>2, <1>6, <2>1 DEF InstallPlan, Move
  <2> QED
    BY <1>1, <2>2 DEF Moves
<1>7. CASE ExpandPlan
  <2>1. Commit(game') /\ Move(game, clock, game')
    BY <1>2, <1>7 DEF ExpandPlan, Move
  <2> QED
    BY <1>1, <2>1 DEF Moves
<1>8. ASSUME At(6), NEW d \in NextDeadlines, OnTime(d)
      PROVE  d \in Nat /\ game.now <= d /\ d <= clock
  BY <1>8, NextDeadline
<1>9. CASE FireDeadline
  <2>1. PICK d \in NextDeadlines, kind \in {"standard", "golden"} :
          OnTime(d) /\ Commit(game') /\ game' = StartFlight(TickPlan(game, d), d, kind)
    BY <1>2, <1>9 DEF FireDeadline
  <2>2. d \in Nat /\ game.now <= d /\ d <= clock
    BY <1>8, <1>9, <2>1 DEF FireDeadline
  <2> QED
    BY <2>1, <2>2 DEF Moves, Move
<1>10. CASE SkipDeadline
  <2>1. PICK d \in NextDeadlines :
          Commit(game') /\ game' = TickPlan(game, IF OnTime(d) THEN d ELSE clock)
    BY <1>2, <1>10 DEF SkipDeadline
  <2>2. OnTime(d) => d \in Nat /\ game.now <= d /\ d <= clock
    BY <1>8, <1>10 DEF SkipDeadline
  <2> QED
    BY <1>1, <2>1, <2>2 DEF Moves, Move
<1> QED
  BY <1>3, <1>4, <1>5, <1>6, <1>7, <1>9, <1>10 DEF Step

(* A command is dated by the clock, or raises.                             *)
LEMMA PlayMoves == IInv /\ Play => Moves \/ ShotRaises
<1> SUFFICES ASSUME IInv, Play, ~ShotRaises
             PROVE  Moves
  OBVIOUS
<1>1. clock \in Nat /\ Sound(game, clock) /\ game.now \in Nat /\ game.now <= clock
  BY SoundParts DEF IInv
<1>2. \A g : Command(g) => Commit(g) /\ game' = g
  BY DEF Command, Commit
<1>3. CASE PassTime
  BY <1>1, <1>2, <1>3 DEF PassTime, Moves, Move
<1>4. CASE EndFlight
  BY <1>1, <1>2, <1>4 DEF EndFlight, Moves, Move
<1>5. CASE OrderBread
  BY <1>1, <1>2, <1>5 DEF OrderBread, Moves, Move
<1>6. CASE OrderCall
  <2>1. clock + CallDelay \in Nat /\ \A due \in clock + 1 .. clock + CallDelay : due \in Nat
    BY <1>1, ConstantTypes
  <2>2. Commit(game') /\ Move(game, clock, game')
    BY <1>2, <1>6, <2>1 DEF OrderCall, Move
  <2> QED
    BY <1>1, <2>2 DEF Moves
<1>7. CASE Launch
  BY <1>1, <1>2, <1>7 DEF Launch, Moves, Move
<1> QED
  BY <1>3, <1>4, <1>5, <1>6, <1>7 DEF Play

(* No step leads out of the invariant.                                     *)
LEMMA NextSound == IInv /\ [Next]_vars => IInv'
<1> SUFFICES ASSUME IInv, [Next]_vars
             PROVE  IInv'
  OBVIOUS
<1>1. CASE Moves
  BY <1>1, MoveSound, CommitSound DEF Moves, IInv
<1>2. CASE Refused \/ ShotRaises
  BY <1>2 DEF Refused, ShotRaises, IInv
<1>3. CASE Persist
  <2>1. unsaved # <<>> /\ unsaved \in Seq(GameState)
    BY <1>3 DEF Persist, IInv
  <2>2. /\ 1 \in DOMAIN unsaved /\ durable' = unsaved[1]
        /\ unsaved' \in Seq(GameState)
        /\ \A i \in DOMAIN unsaved' : i + 1 \in DOMAIN unsaved /\ unsaved'[i] = unsaved[i + 1]
    BY <1>3, <2>1 DEF Persist
  <2> QED
    BY <1>3, <2>2 DEF Persist, IInv
<1>4. CASE Elapse
  <2>1. clock' = clock + 1 /\ clock \in Nat /\ clock' \in Nat /\ clock' <= MaxNow
    BY <1>4, ConstantTypes DEF Elapse, IInv
  <2>2. \A g : Sound(g, clock) => Sound(g, clock')
    BY <2>1, SoundLater
  <2> QED
    BY <1>4, <2>1, <2>2 DEF Elapse, IInv
<1>5. CASE Restart
  BY <1>5 DEF Restart, IInv
<1>6. CASE Rest \/ UNCHANGED vars
  BY <1>6 DEF Rest, vars, IInv
<1> QED
  BY <1>1, <1>2, <1>3, <1>4, <1>5, <1>6, StepMoves, PlayMoves DEF Next

(* The state the process works on, every state on its way to the disk and  *)
(* the one a restart recovers are sound in every reachable state.          *)
THEOREM Invariant == Spec => []IInv
BY InitSound, NextSound, PTL DEF Spec

(* No sequence of steps, commands, refusals and crashes leads to a state   *)
(* that the constructors of the code refuse.                               *)
THEOREM Validity == Spec => []GameStateIsValid
<1>1. IInv => GameStateIsValid
  BY DEF IInv, Sound, GameStateIsValid
<1> QED
  BY <1>1, Invariant, PTL

(* The plan of flights is never ahead of the day, never too long, and its  *)
(* cursor never ahead of the game.                                         *)
THEOREM PlanInTime == Spec => []PlanFollowsClock
<1>1. IInv => PlanFollowsClock
  BY DEF IInv, Sound, PlanFollowsClock
<1> QED
  BY <1>1, Invariant, PTL

(* A game that its constructors accept, with a plan the clock allows.      *)
THEOREM Playable == Spec => []GameStaysPlayable
BY Validity, PlanInTime, PTL DEF GameStaysPlayable

-----------------------------------------------------------------------------
(* What a step may never do. *)

LEMMA NextMoves == IInv /\ [Next]_vars => \/ Moves
                                          \/ game' = game
                                          \/ unsaved' = <<>>
BY StepMoves, PlayMoves
   DEF Next, Rest, Refused, ShotRaises, Persist, Elapse, Restart, vars

(* An accepted event is one of the moves.                                  *)
LEMMA AcceptedMoves == IInv /\ [Next]_vars /\ Accepted => Moves \/ game' = game
<1> SUFFICES ASSUME IInv, [Next]_vars, Accepted, unsaved' = <<>>
             PROVE  FALSE
  BY NextMoves
<1>1. unsaved \in Seq(GameState)
  BY DEF IInv
<1>2. Append(unsaved, game') # <<>>
  BY <1>1
<1> QED
  BY <1>2 DEF Accepted

(* No event the process accepts is dated before the game it changes.       *)
THEOREM NoEventIsDatedBack == Spec => TimeNeverGoesBack
<1>1. IInv /\ [Next]_vars => [Accepted => game.now <= game'.now]_vars
  <2> SUFFICES ASSUME IInv, [Next]_vars, Accepted
               PROVE  game.now <= game'.now
    OBVIOUS
  <2>1. Sound(game, clock) /\ clock \in Nat /\ game.now \in Nat
    BY SoundParts DEF IInv
  <2>2. CASE Moves
    BY <2>1, <2>2, MoveSound DEF Moves
  <2> QED
    BY <2>1, <2>2, AcceptedMoves
<1> QED
  BY <1>1, Invariant, PTL DEF Spec, TimeNeverGoesBack

(* A flight that is not over and that no hunter concludes stays as it is.  *)
LEMMA FlightKept ==
    ASSUME clock \in Nat, NEW g, Sound(g, clock),
           NEW t \in Nat, g.now <= t, t <= clock, NEW h, Move(g, t, h),
           g.flight # NoFlight, h.flight # g.flight, ~(g.flight.expires <= t)
    PROVE  h.flight = NoFlight /\ h.ended = t /\ t = clock
<1>1. g \in GameState
  BY DEF Sound
<1>2. Advance(g, t) \in GameState /\ Advance(g, t).flight = g.flight
  BY <1>1, AdvanceSound DEF Advance, GameState, Sound
<1>3. TickPlan(g, t).flight = g.flight /\ TickPlan(g, t) \in GameState
  BY <1>2, TickPlanSound DEF TickPlan, GameState, Sound
<1>4. Advance(TickPlan(g, t), t).flight = g.flight
  BY <1>3 DEF Advance, GameState
<1>5. \A kind : /\ StartFlight(g, t, kind).flight = g.flight
                /\ StartFlight(TickPlan(g, t), t, kind).flight = g.flight
  BY <1>2, <1>4 DEF StartFlight
<1>6. \A D : Install(g, t, D).flight = g.flight /\ Expand(g, t, D).flight = g.flight
  BY <1>2 DEF Install, Expand, GameState
<1>7. \A due : AddBread(Advance(g, t), t, due).flight = g.flight
  BY <1>2 DEF AddBread, GameState
<1>8. \A kind, due : AddCall(Advance(g, t), kind, due).flight = g.flight
  BY <1>2 DEF AddCall, GameState
<1>9. PICK baker \in BOOLEAN, prankster \in BOOLEAN :
        t = clock /\ h = Rewarded(Conclude(g, t), t, baker, prankster)
  BY <1>2, <1>3, <1>5, <1>6, <1>7, <1>8 DEF Move
<1>10. /\ Sound(Conclude(g, t), clock) /\ Conclude(g, t) \in GameState
       /\ Conclude(g, t).now = t
       /\ Conclude(g, t).ended = t /\ Conclude(g, t).flight = NoFlight
  <2>1. Conclude(g, t).ended = t /\ Conclude(g, t).flight = NoFlight
    BY <1>2 DEF Conclude, GameState
  <2>2. Sound(Conclude(g, t), clock) /\ Conclude(g, t).now = t
    BY ConcludeSound
  <2> QED
    BY <2>1, <2>2 DEF Sound
<1> DEFINE over == Conclude(g, t)
           fed == AddBread(over, t, t + CallDelay)
<1> HIDE DEF over
<1>11. t + CallDelay \in t + 1 .. t + BreadLife - 1
  BY ConstantTypes
<1>12. fed \in GameState
  BY <1>10, <1>11, AddBreadSound DEF Sound, over
<1>13. fed.ended = t /\ fed.flight = NoFlight
  BY <1>10 DEF AddBread, GameState, over
<1> HIDE DEF fed
<1>14. \A due : \A k \in GameState :
         /\ AddCall(k, "mechanical", due).ended = k.ended
         /\ AddCall(k, "mechanical", due).flight = k.flight
  BY DEF AddCall, GameState
<1> QED
  BY <1>9, <1>10, <1>12, <1>13, <1>14 DEF Rewarded, over, fed

(* A flight leaves the sky at the end of its life or under a shot.         *)
THEOREM NoFlightIsCutShort == Spec => FlightsAreNotCutShort
<1>1. IInv /\ [Next]_vars =>
        [Accepted /\ game.flight # NoFlight /\ game'.flight # game.flight =>
            \/ game.flight.expires <= game'.now
            \/ /\ game'.flight = NoFlight
               /\ game'.ended = game'.now /\ game'.now = clock]_vars
  <2> SUFFICES ASSUME IInv, [Next]_vars, Accepted,
                      game.flight # NoFlight, game'.flight # game.flight
               PROVE  \/ game.flight.expires <= game'.now
                      \/ /\ game'.flight = NoFlight
                         /\ game'.ended = game'.now /\ game'.now = clock
    OBVIOUS
  <2>1. Sound(game, clock) /\ clock \in Nat
    BY DEF IInv
  <2>2. PICK t \in Nat : game.now <= t /\ t <= clock /\ Move(game, t, game')
    BY AcceptedMoves DEF Moves
  <2>3. game'.now = t
    BY <2>1, <2>2, MoveSound
  <2> QED
    BY <2>1, <2>2, <2>3, FlightKept
<1> QED
  BY <1>1, Invariant, PTL DEF Spec, FlightsAreNotCutShort

(* What takes off stays its time, and nothing is dated before the game.    *)
THEOREM FlightsInTime == Spec => TimesAreKept
BY NoEventIsDatedBack, NoFlightIsCutShort DEF TimesAreKept

(* The flight a takeoff gives was not there before.                        *)
LEMMA FlightIsNew ==
    ASSUME NEW now \in Nat, NEW g, Sound(g, now), NEW t \in Nat, g.now <= t, t <= now,
           Advance(g, t).flight = NoFlight, NEW f, f.spawned = t
    PROVE  f # NoFlight /\ f # g.flight
<1>1. /\ g.flight.spawned \in Int /\ g.flight.expires \in Int /\ g.now \in Nat
      /\ g.flight # NoFlight => g.flight.spawned <= g.now /\ g.now < g.flight.expires
  BY DEF Sound, GameState, Valid
<1>2. f # NoFlight
  BY DEF NoFlight
<1>3. g.flight # NoFlight => g.flight.expires <= t
  BY <1>1 DEF Advance, Sound, GameState
<1> QED
  BY <1>1, <1>2, <1>3

(* A takeoff answers at most one call, the oldest of its kind that is due. *)
LEMMA OneCallAnswered ==
    ASSUME NEW now \in Nat, NEW h, Sound(h, now), NEW t \in Nat, NEW kind,
           NEW c \in h.calls \ TakeOff(h, t, kind).calls
    PROVE  /\ c.due <= t
           /\ \A d \in h.calls \ {c} : /\ d \in TakeOff(h, t, kind).calls
                                       /\ d.kind = c.kind => c.due <= d.due
<1> DEFINE S == {x \in DueCalls(h, t) : x.kind = kind}
<1>1. TakeOff(h, t, kind).calls = h.calls \ Oldest(S, Due)
  BY DEF TakeOff, Sound, GameState
<1>2. /\ \A x \in h.calls : x.id \in Nat /\ x.due \in Nat
      /\ \A x, y \in h.calls : x.id = y.id => x = y
  BY DEF Sound, GameState, Call, Valid
<1>3. /\ c \in Oldest(S, Due) /\ c \in h.calls /\ c.due <= t /\ c.kind = kind
      /\ \A x \in S : c.due < x.due \/ (c.due = x.due /\ c.id <= x.id)
  BY <1>1 DEF Oldest, DueCalls, Due
<1>4. ASSUME NEW d \in h.calls \ {c}
      PROVE  d \in TakeOff(h, t, kind).calls /\ (d.kind = c.kind => c.due <= d.due)
  <2>1. d \in Oldest(S, Due) => d.due < c.due \/ (d.due = c.due /\ d.id <= c.id)
    BY <1>3 DEF Oldest, Due
  <2>2. d \in Oldest(S, Due) => d \in S
    BY DEF Oldest
  <2>3. d \notin Oldest(S, Due)
    BY <1>2, <1>3, <1>4, <2>1, <2>2
  <2>4. d.kind = c.kind /\ d.due <= t => d \in S
    BY <1>3, <1>4 DEF DueCalls
  <2> QED
    BY <1>1, <1>2, <1>3, <1>4, <2>3, <2>4
<1> QED
  BY <1>3, <1>4

LEMMA SameCalls ==
    ASSUME NEW g \in GameState, NEW t
    PROVE  Advance(g, t).calls = g.calls
BY DEF Advance, GameState

(* Among the moves only a takeoff answers calls.                           *)
LEMMA CallKept ==
    ASSUME clock \in Nat, NEW g, Sound(g, clock),
           NEW t \in Nat, g.now <= t, t <= clock, NEW h, Move(g, t, h),
           NEW c \in g.calls \ h.calls
    PROVE  /\ h.flight # NoFlight /\ h.flight # g.flight /\ c.due <= t
           /\ \A d \in g.calls \ {c} : d \in h.calls /\ (d.kind = c.kind => c.due <= d.due)
<1> DEFINE k == Advance(g, t)
           m == TickPlan(g, t)
<1>1. /\ Sound(k, clock) /\ k \in GameState /\ k.calls = g.calls
      /\ k.now = t
  BY AdvanceSound, SameCalls DEF Sound
<1>2. /\ Sound(m, clock) /\ m \in GameState /\ m.now = t
      /\ m.calls = g.calls /\ m.flight = k.flight
  BY <1>1, TickPlanSound DEF Sound, TickPlan, GameState
<1>3. /\ Sound(Advance(m, t), clock) /\ Advance(m, t).now = t
      /\ Advance(m, t).calls = g.calls
  BY <1>2, AdvanceSound, SameCalls
<1>4. Advance(m, t).flight = NoFlight => k.flight = NoFlight
  BY <1>1, <1>2 DEF Advance, GameState, Sound, Valid
<1>5. \A D : Install(g, t, D).calls = g.calls /\ Expand(g, t, D).calls = g.calls
  BY <1>1 DEF Install, Expand, GameState
<1>6. \A due : AddBread(k, t, due).calls = g.calls
  BY <1>1 DEF AddBread, GameState
<1>7. \A kind, due : g.calls \subseteq AddCall(k, kind, due).calls
  BY <1>1 DEF AddCall, GameState
<1>8. \A baker, prankster \in BOOLEAN :
        g.calls \subseteq Rewarded(Conclude(g, t), t, baker, prankster).calls
  <2> DEFINE over == Conclude(g, t)
             fed == AddBread(over, t, t + CallDelay)
  <2>1. Sound(over, clock) /\ over.now = t /\ over \in GameState /\ over.calls = g.calls
    BY <1>1, ConcludeSound DEF Sound, Conclude, GameState
  <2> HIDE DEF over
  <2>2. t + CallDelay \in t + 1 .. t + BreadLife - 1
    BY ConstantTypes
  <2>3. fed \in GameState /\ fed.calls = g.calls
    BY <2>1, <2>2, AddBreadSound DEF Sound, AddBread, GameState
  <2> HIDE DEF fed
  <2>4. \A due : \A x \in GameState :
          x.calls \subseteq AddCall(x, "mechanical", due).calls
    BY DEF AddCall, GameState
  <2> QED
    BY <2>1, <2>3, <2>4 DEF Rewarded, over, fed
<1>9. ASSUME NEW x, Sound(x, clock), x.now = t, x.calls = g.calls,
             x.flight = NoFlight => k.flight = NoFlight,
             NEW kind, h = IF x.flight = NoFlight THEN TakeOff(x, t, kind) ELSE x
      PROVE  /\ h.flight # NoFlight /\ h.flight # g.flight /\ c.due <= t
             /\ \A d \in g.calls \ {c} : /\ d \in h.calls
                                         /\ d.kind = c.kind => c.due <= d.due
  <2>1. x.flight = NoFlight /\ h = TakeOff(x, t, kind)
    BY <1>9
  <2>2. h.flight.spawned = t
    BY <1>9, <2>1 DEF TakeOff, Sound, GameState
  <2>3. h.flight # NoFlight /\ h.flight # g.flight
    BY <1>9, <2>1, <2>2, FlightIsNew
  <2> QED
    BY <1>9, <2>1, <2>3, OneCallAnswered
<1>10. PICK kind : h = StartFlight(g, t, kind) \/ h = StartFlight(m, t, kind)
  BY <1>1, <1>2, <1>5, <1>6, <1>7, <1>8 DEF Move
<1>11. CASE h = StartFlight(g, t, kind)
  BY <1>1, <1>9, <1>11 DEF StartFlight
<1>12. CASE h = StartFlight(m, t, kind)
  BY <1>3, <1>4, <1>9, <1>12 DEF StartFlight
<1> QED
  BY <1>10, <1>11, <1>12

(* A paid call waits until it is due and a flight answers it, in the order *)
(* of the calls of its kind and one for each flight.                       *)
THEOREM NoCallIsLost == Spec => CallsAreKept
<1>1. IInv /\ [Next]_vars =>
        [Accepted =>
           \A c \in game.calls \ game'.calls :
              /\ TakesOff /\ c.due <= game'.now
              /\ \A d \in game.calls \ {c} :
                   d \in game'.calls /\ (d.kind = c.kind => c.due <= d.due)]_vars
  <2> SUFFICES ASSUME IInv, [Next]_vars, Accepted, NEW c \in game.calls \ game'.calls
               PROVE  /\ TakesOff /\ c.due <= game'.now
                      /\ \A d \in game.calls \ {c} :
                           d \in game'.calls /\ (d.kind = c.kind => c.due <= d.due)
    OBVIOUS
  <2>1. Sound(game, clock) /\ clock \in Nat
    BY DEF IInv
  <2>2. PICK t \in Nat : game.now <= t /\ t <= clock /\ Move(game, t, game')
    BY AcceptedMoves DEF Moves
  <2>3. game'.now = t
    BY <2>1, <2>2, MoveSound
  <2> QED
    BY <2>1, <2>2, <2>3, CallKept DEF TakesOff
<1> QED
  BY <1>1, Invariant, PTL DEF Spec, CallsAreKept

-----------------------------------------------------------------------------
(* Bread.  A piece is eaten by a takeoff, and the flight stays longer.      *)

(* A set of naturals that is not empty has a least element.                 *)
LEMMA LeastNatural ==
    ASSUME NEW T \in SUBSET Nat, T # {}
    PROVE  \E x \in T : \A y \in T : x <= y
<1>1. PICK x \in T : \A y \in T : ~(<<y, x>> \in OpToRel(<, Nat))
  BY NatLessThanWellFounded, WFMin
<1>2. \A y \in T : ~(y < x)
  BY <1>1 DEF OpToRel
<1> QED
  BY <1>2

(* Of pieces of bread that are there one is the oldest, and only one.       *)
LEMMA OneOldest ==
    ASSUME NEW S \in SUBSET Bread, S # {}, \A x, y \in S : x.id = y.id => x = y
    PROVE  \E b \in S : Oldest(S, Activated) = {b}
<1>1. \A x \in S : x.id \in Nat /\ x.activated \in Nat
  BY DEF Bread
<1> DEFINE ages == {x.activated : x \in S}
<1>2. PICK age \in ages : \A a \in ages : age <= a
  <2>1. ages \in SUBSET Nat /\ ages # {}
    BY <1>1
  <2> HIDE DEF ages
  <2> QED
    BY <2>1, LeastNatural
<1> DEFINE ids == {x.id : x \in {y \in S : y.activated = age}}
<1>3. PICK id \in ids : \A i \in ids : id <= i
  <2>1. ids \in SUBSET Nat /\ ids # {}
    BY <1>1, <1>2
  <2> HIDE DEF ids
  <2> QED
    BY <2>1, LeastNatural
<1>4. PICK b \in S : b.activated = age /\ b.id = id
  BY <1>3
<1>5. ASSUME NEW y \in S
      PROVE  b.activated < y.activated \/ (b.activated = y.activated /\ b.id <= y.id)
  <2>1. age <= y.activated /\ y.activated \in Nat /\ age \in Nat
    BY <1>1, <1>2
  <2>2. y.activated = age => id <= y.id
    BY <1>3
  <2> QED
    BY <1>4, <2>1, <2>2
<1>6. b \in Oldest(S, Activated)
  BY <1>4, <1>5 DEF Oldest, Activated
<1>7. ASSUME NEW x \in Oldest(S, Activated) PROVE x = b
  <2>1. x \in S /\ (x.activated < b.activated \/ (x.activated = b.activated /\ x.id <= b.id))
    BY <1>4, <1>7 DEF Oldest, Activated
  <2>2. x.id = b.id
    BY <1>1, <1>4, <1>5, <2>1
  <2> QED
    BY <1>4, <2>1, <2>2
<1> QED
  BY <1>4, <1>6, <1>7

(* What a takeoff eats, and how long the flight then stays.                 *)
LEMMA BreadEaten ==
    ASSUME NEW now \in Nat, NEW h, Sound(h, now), NEW t \in Nat, h.now = t, NEW kind
    PROVE  LET k == TakeOff(h, t, kind)
               longer == k.flight.expires - k.flight.spawned > Lifetime
           IN  /\ k.now = t
               /\ Cardinality(h.breads \ k.breads) = IF longer THEN 1 ELSE 0
<1> DEFINE k == TakeOff(h, t, kind)
           bread == LiveBreads(h, t)
<1>1. /\ h \in GameState /\ h.breads \subseteq Bread
      /\ \A x, y \in h.breads : x.id = y.id => x = y
  BY DEF Sound, GameState, Valid
<1>2. /\ k.now = t /\ k.breads = h.breads \ Oldest(bread, Activated)
      /\ k.flight.spawned = t
      /\ k.flight.expires = t + Lifetime + (IF bread = {} THEN 0 ELSE BreadDelay)
  BY <1>1 DEF TakeOff, GameState
<1>3. k.flight.expires - k.flight.spawned > Lifetime <=> bread # {}
  BY <1>2, ConstantTypes
<1>4. bread \subseteq h.breads
  BY DEF LiveBreads
<1> HIDE DEF k, bread
<1>5. CASE bread = {}
  <2>1. h.breads \ k.breads = {}
    BY <1>2, <1>5 DEF Oldest
  <2> QED
    BY <1>2, <1>3, <1>5, <2>1, FS_EmptySet DEF k
<1>6. CASE bread # {}
  <2>1. PICK b \in bread : Oldest(bread, Activated) = {b}
    BY <1>1, <1>4, <1>6, OneOldest
  <2>2. h.breads \ k.breads = {b}
    BY <1>2, <1>4, <2>1
  <2>3. Cardinality({b}) = 1
    BY FS_Singleton
  <2> QED
    BY <1>2, <1>3, <1>6, <2>2, <2>3 DEF k
<1> QED
  BY <1>5, <1>6

(* The pieces an event takes before their hour is over. *)
Eaten(g, h) == {b \in g.breads \ h.breads : h.now < b.expires}
Longer(h) == h.flight.expires - h.flight.spawned > Lifetime
Fresh(g, t) == {b \in g.breads : t < b.expires}

(* A move that leaves the bread there is takes none.                        *)
LEMMA NoneEaten ==
    ASSUME NEW g, NEW h, NEW t, h.now = t, Fresh(g, t) \subseteq h.breads
    PROVE  Eaten(g, h) = {}
BY DEF Fresh, Eaten

(* Among the moves only a takeoff eats bread, and it eats what it stays for.*)
LEMMA BreadMoves ==
    ASSUME clock \in Nat, NEW g, Sound(g, clock),
           NEW t \in Nat, g.now <= t, t <= clock, NEW h, Move(g, t, h)
    PROVE  \/ Eaten(g, h) = {} /\ (h.flight = NoFlight \/ h.flight = g.flight)
           \/ /\ h.flight # NoFlight /\ h.flight # g.flight
              /\ Cardinality(Eaten(g, h)) = IF Longer(h) THEN 1 ELSE 0
<1> DEFINE k == Advance(g, t)
           m == TickPlan(g, t)
           Quiet(x) == Fresh(g, t) \subseteq x.breads
                       /\ (x.flight = NoFlight \/ x.flight = g.flight)
<1>1. /\ Sound(k, clock) /\ k \in GameState /\ k.now = t
      /\ k.breads = Fresh(g, t) /\ (k.flight = NoFlight \/ k.flight = g.flight)
  <2>1. Sound(k, clock) /\ k.now = t
    BY AdvanceSound
  <2> QED
    BY <2>1 DEF Advance, Fresh, Sound, GameState
<1>2. /\ Sound(m, clock) /\ m \in GameState /\ m.now = t
      /\ m.breads = k.breads /\ m.flight = k.flight
  BY <1>1, TickPlanSound DEF Sound, TickPlan, GameState
<1>3. /\ Sound(Advance(m, t), clock) /\ Advance(m, t).now = t
      /\ Advance(m, t).breads = Fresh(g, t)
      /\ (Advance(m, t).flight = NoFlight \/ Advance(m, t).flight = k.flight)
  <2>1. Sound(Advance(m, t), clock) /\ Advance(m, t).now = t
    BY <1>2, AdvanceSound
  <2>2. Advance(m, t).breads = Fresh(g, t)
    BY <1>1, <1>2 DEF Advance, Fresh, GameState
  <2> QED
    BY <1>2, <2>1, <2>2 DEF Advance, GameState
<1>4. Advance(m, t).flight = NoFlight => k.flight = NoFlight
  BY <1>1, <1>2 DEF Advance, GameState, Sound, Valid
<1>5. h.now = t
  BY MoveSound
<1>6. \A D : Quiet(Install(g, t, D)) /\ Quiet(Expand(g, t, D))
  BY <1>1 DEF Install, Expand, GameState
<1>7. \A due : Quiet(AddBread(k, t, due))
  BY <1>1 DEF AddBread, GameState
<1>8. \A kind, due : Quiet(AddCall(k, kind, due))
  BY <1>1 DEF AddCall, GameState
<1>9. \A baker, prankster \in BOOLEAN : Quiet(Rewarded(Conclude(g, t), t, baker, prankster))
  <2> DEFINE over == Conclude(g, t)
             fed == AddBread(over, t, t + CallDelay)
  <2>0. t \in Int
    OBVIOUS
  <2>1. over \in GameState /\ over.breads = Fresh(g, t) /\ over.flight = NoFlight
    <3> HIDE DEF k
    <3> QED
      BY <1>1, <2>0, ConcludeSound DEF Conclude, GameState, NoFlight, Sound, k
  <2> HIDE DEF over
  <2>2. Fresh(g, t) \subseteq fed.breads /\ fed.flight = NoFlight
        /\ \A due : AddCall(fed, "mechanical", due).breads = fed.breads
                    /\ AddCall(fed, "mechanical", due).flight = fed.flight
    BY <2>1 DEF AddBread, AddCall, GameState
  <2>3. \A due : AddCall(over, "mechanical", due).breads = over.breads
                 /\ AddCall(over, "mechanical", due).flight = over.flight
    BY <2>1 DEF AddCall, GameState
  <2> HIDE DEF fed
  <2> QED
    BY <2>1, <2>2, <2>3 DEF Rewarded, over, fed
<1>10. Quiet(k) /\ Quiet(m)
  BY <1>1, <1>2
<1>11. CASE Quiet(h)
  BY <1>5, <1>11, NoneEaten
<1>12. ASSUME NEW x, Sound(x, clock), x.now = t, x.breads = Fresh(g, t),
              x.flight = NoFlight => k.flight = NoFlight,
              x.flight = NoFlight \/ x.flight = g.flight,
              NEW kind, h = IF x.flight = NoFlight THEN TakeOff(x, t, kind) ELSE x, ~Quiet(h)
       PROVE  /\ h.flight # NoFlight /\ h.flight # g.flight
              /\ Cardinality(Eaten(g, h)) = IF Longer(h) THEN 1 ELSE 0
  <2>1. x.flight = NoFlight /\ h = TakeOff(x, t, kind)
    BY <1>12
  <2>2. h.flight.spawned = t
    BY <1>12, <2>1 DEF TakeOff, Sound, GameState
  <2>3. h.flight # NoFlight /\ h.flight # g.flight
    BY <1>12, <2>1, <2>2, FlightIsNew
  <2>4. Eaten(g, h) = x.breads \ h.breads
    BY <1>5, <1>12 DEF Eaten, Fresh
  <2> QED
    BY <1>12, <2>1, <2>3, <2>4, BreadEaten DEF Longer
<1>13. PICK kind : ~Quiet(h) => h = StartFlight(g, t, kind) \/ h = StartFlight(m, t, kind)
  <2> HIDE DEF Quiet, k, m
  <2> QED
    BY <1>6, <1>7, <1>8, <1>9, <1>10 DEF Move, k, m
<1>14. CASE h = StartFlight(g, t, kind) /\ ~Quiet(h)
  BY <1>1, <1>12, <1>14 DEF StartFlight
<1>15. CASE h = StartFlight(m, t, kind) /\ ~Quiet(h)
  BY <1>1, <1>3, <1>4, <1>12, <1>15 DEF StartFlight
<1> QED
  BY <1>11, <1>13, <1>14, <1>15

(* A flight that stays longer has eaten one piece, and no piece goes        *)
(* otherwise before its hour is over.                                       *)
THEOREM BreadPaidBack == Spec => BreadIsPaidBack
<1>1. IInv /\ [Next]_vars =>
        [Accepted =>
            LET eaten == {b \in game.breads \ game'.breads : game'.now < b.expires}
                longer == game'.flight.expires - game'.flight.spawned > Lifetime
            IN  /\ eaten # {} => TakesOff
                /\ TakesOff => Cardinality(eaten) = IF longer THEN 1 ELSE 0]_vars
  <2> SUFFICES ASSUME IInv, [Next]_vars, Accepted
               PROVE  /\ Eaten(game, game') # {} => TakesOff
                      /\ TakesOff => Cardinality(Eaten(game, game')) = IF Longer(game') THEN 1 ELSE 0
    BY DEF Eaten, Longer
  <2>1. Sound(game, clock) /\ clock \in Nat
    BY DEF IInv
  <2>2. CASE game' = game
    BY <2>2 DEF Eaten, TakesOff
  <2>3. CASE Moves
    <3>1. PICK t \in Nat : game.now <= t /\ t <= clock /\ Move(game, t, game')
      BY <2>3 DEF Moves
    <3> QED
      BY <2>1, <3>1, BreadMoves DEF TakesOff
  <2> QED
    BY <2>2, <2>3, AcceptedMoves
<1> QED
  BY <1>1, Invariant, PTL DEF Spec, BreadIsPaidBack

-----------------------------------------------------------------------------
(* One flight for one deadline.  Plans begin at midnight, so the deadlines *)
(* of a plan are all over when the plan of a later day replaces it.        *)

Aligned(g) == \E k \in Int : g.plan.start = DayLength * k

FInv ==
    /\ Aligned(game) /\ Aligned(durable)
    /\ \A i \in DOMAIN unsaved : Aligned(unsaved[i])
    /\ \A d \in fired : /\ d \in Nat /\ d <= clock
                        /\ d < game.plan.start + DayLength /\ d \notin Open(game.plan)

LEMMA DayStartAligned ==
    ASSUME NEW t \in Nat
    PROVE  \E k \in Int : DayStart(t) = DayLength * k
<1> DEFINE q == t \div DayLength
<1>1. t = DayLength * q + (t % DayLength) /\ q \in Int
  BY ConstantTypes, Division
<1>2. t % DayLength \in Int /\ DayLength * q \in Int
  BY ConstantTypes, Division
<1> HIDE DEF q
<1>3. DayStart(t) = DayLength * q
  BY <1>1, <1>2 DEF DayStart
<1> QED
  BY <1>1, <1>3

(* A plan of an earlier day is over when a later day begins.               *)
LEMMA NoEarlierDay ==
    ASSUME NEW g, Aligned(g), NEW t \in Nat, g.plan.start < DayStart(t)
    PROVE  g.plan.start + DayLength <= DayStart(t)
<1>1. PICK k \in Int : g.plan.start = DayLength * k
  BY DEF Aligned
<1>2. PICK q \in Int : DayStart(t) = DayLength * q
  BY DayStartAligned
<1>3. DayLength \in Nat \ {0}
  BY ConstantTypes
<1>4. DayLength * (q - k) = DayLength * q - DayLength * k
  BY <1>3
<1>5. DayLength * k \in Int /\ DayLength * q \in Int
  BY <1>3
<1>6. ~(q - k <= 0)
  BY <1>1, <1>2, <1>3, <1>4, <1>5, Multiples
<1>7. DayLength * (q - k) >= DayLength
  BY <1>3, <1>6, Multiples
<1> QED
  BY <1>1, <1>2, <1>3, <1>4, <1>5, <1>7

(* A flight, an order or the end of a flight leaves the plan alone.        *)
LEMMA SamePlan ==
    ASSUME NEW now \in Nat, NEW g, Sound(g, now), NEW t \in Nat, g.now <= t, t <= now
    PROVE  /\ \A kind : StartFlight(g, t, kind).plan = g.plan
           /\ Conclude(g, t).plan = g.plan
<1>1. Advance(g, t) \in GameState /\ Advance(g, t).plan = g.plan
  BY AdvanceSound DEF Sound
<1> QED
  BY <1>1 DEF StartFlight, TakeOff, Conclude, GameState

LEMMA SamePlanAdded ==
    ASSUME NEW g \in GameState, NEW t, NEW due
    PROVE  /\ AddBread(g, t, due).plan = g.plan
           /\ \A kind : AddCall(g, kind, due).plan = g.plan
BY DEF AddBread, AddCall, GameState

LEMMA TickedPlan ==
    ASSUME NEW now \in Nat, NEW g, Sound(g, now), NEW t \in Nat, g.now <= t, t <= now
    PROVE  /\ TickPlan(g, t).plan.start = g.plan.start
           /\ Open(TickPlan(g, t).plan) = {d \in Open(g.plan) : ~(d <= t)}
<1> DEFINE h == Advance(g, t)
<1>1. h \in GameState /\ h.plan = g.plan /\ g.plan \in Plan
  BY AdvanceSound DEF Sound, GameState
<1> HIDE DEF h
<1>2. TickPlan(g, t).plan = [g.plan EXCEPT !.consumed = @ \union {d \in Open(g.plan) : d <= t}]
  BY <1>1 DEF TickPlan, GameState, h
<1> QED
  BY <1>1, <1>2 DEF Plan, Open

(* Deadlines open only after the clock, or with the plan of a new day.     *)
LEMMA PlanMoves ==
    ASSUME clock \in Nat, NEW g, Sound(g, clock),
           NEW t \in Nat, g.now <= t, t <= clock, NEW h, Move(g, t, h)
    PROVE  \/ /\ h.plan.start = g.plan.start
              /\ Open(h.plan) \subseteq Open(g.plan) \union {u \in Int : clock < u}
           \/ /\ g.plan.start < DayStart(clock) /\ h.plan.start = DayStart(clock)
              /\ Open(h.plan) \subseteq Day(DayStart(clock))
<1>1. g \in GameState /\ g.plan \in Plan
  BY DEF Sound, GameState
<1>2. /\ Advance(g, t) \in GameState /\ Advance(g, t).plan = g.plan
  BY AdvanceSound DEF Sound
<1>3. CASE h = Advance(g, t) \/ h = TickPlan(g, t)
  BY <1>2, <1>3, TickedPlan
<1>4. CASE \E kind : h = StartFlight(g, t, kind) \/ h = StartFlight(TickPlan(g, t), t, kind)
  <2>1. Sound(TickPlan(g, t), clock) /\ TickPlan(g, t).now = t
    BY TickPlanSound
  <2>2. h.plan = g.plan \/ h.plan = TickPlan(g, t).plan
    BY <1>4, <2>1, SamePlan
  <2> QED
    BY <2>2, TickedPlan
<1>5. CASE /\ t = clock
           /\ \E D \in SUBSET (Day(DayStart(t)) \ {DayStart(t)}) :
                g.plan.start < DayStart(t) /\ h = Install(g, t, D)
  <2>1. PICK D \in SUBSET Day(DayStart(clock)) :
          g.plan.start < DayStart(clock) /\ h = Install(g, clock, D)
    BY <1>5
  <2>2. h.plan = [start |-> DayStart(clock), deadlines |-> D, consumed |-> {}]
    BY <1>2, <1>5, <2>1 DEF Install, GameState
  <2> QED
    BY <2>1, <2>2 DEF Open
<1>6. CASE t = clock /\ \E added \in SUBSET FreeSlots(g.plan) : h = Expand(g, t, added)
  <2>1. PICK added \in SUBSET FreeSlots(g.plan) : h = Expand(g, t, added)
    BY <1>6
  <2>2. h.plan = [g.plan EXCEPT !.deadlines = @ \union added]
    BY <1>2, <2>1 DEF Expand, GameState
  <2>3. Day(g.plan.start) \subseteq Int
    BY <1>1, DayFinite DEF Plan
  <2> QED
    BY <1>1, <2>1, <2>2, <2>3 DEF Plan, Open, FreeSlots
<1>7. CASE \E baker, prankster \in BOOLEAN :
             h = Rewarded(Conclude(g, t), t, baker, prankster)
  <2> DEFINE over == Conclude(g, t)
             fed == AddBread(over, t, t + CallDelay)
  <2>1. Sound(over, clock) /\ over.now = t /\ over \in GameState /\ over.plan = g.plan
    BY ConcludeSound, SamePlan DEF Sound
  <2> HIDE DEF over
  <2>2. t + CallDelay \in t + 1 .. t + BreadLife - 1
    BY ConstantTypes
  <2>3. fed \in GameState /\ fed.plan = g.plan
    BY <2>1, <2>2, AddBreadSound, SamePlanAdded DEF Sound
  <2> HIDE DEF fed
  <2> DEFINE call(k) == AddCall(k, "mechanical", t + CallDelay)
  <2>4. call(over).plan = g.plan /\ call(fed).plan = g.plan
    BY <2>1, <2>3, SamePlanAdded
  <2>5. h \in {over, fed, call(over), call(fed)}
    BY <1>7 DEF Rewarded, over, fed
  <2> QED
    BY <2>1, <2>3, <2>4, <2>5
<1>8. CASE \/ \E due : h = AddBread(Advance(g, t), t, due)
           \/ \E kind, due : h = AddCall(Advance(g, t), kind, due)
  BY <1>2, <1>8, SamePlanAdded
<1> QED
  BY <1>3, <1>4, <1>5, <1>6, <1>7, <1>8 DEF Move

LEMMA InitFired == Init => FInv
<1>1. DayLength \in Nat
  BY ConstantTypes
<1>2. \A s \in {0, -DayLength} : \E k \in Int : s = DayLength * k
  <2>1. 0 = DayLength * 0 /\ -DayLength = DayLength * (-1)
    BY <1>1
  <2> QED
    BY <2>1
<1>3. Init => game.plan.start \in {0, -DayLength}
  BY HuntConstants DEF Init
<1>4. Init => Aligned(game)
  BY <1>2, <1>3 DEF Aligned
<1>5. Init => Aligned(durable)
  BY <1>4 DEF Init
<1>6. Init => unsaved = <<>> /\ fired = {}
  BY DEF Init
<1> QED
  BY <1>4, <1>5, <1>6 DEF FInv

LEMMA FiredChanges == [Next]_vars => fired' = fired \/ FireDeadline \/ Restart
BY DEF Next, Step, ExpireFlight, AnswerCall, AttractFlight, InstallPlan, ExpandPlan,
       SkipDeadline, Refused, Rest, Play, PassTime, EndFlight, ShotRaises, OrderBread,
       OrderCall, Launch, Command, Persist, Elapse, vars

(* A move leaves no deadline open that was fired before.                   *)
LEMMA MoveFired ==
    ASSUME IInv, FInv, NEW t \in Nat, game.now <= t, t <= clock, Move(game, t, game')
    PROVE  /\ Aligned(game')
           /\ \A d \in fired : d < game'.plan.start + DayLength /\ d \notin Open(game'.plan)
<1>1. /\ clock \in Nat /\ Sound(game, clock) /\ DayLength \in Nat
      /\ game.plan.start \in Int /\ DayStart(clock) \in Int
  BY ConstantTypes, DayStartMonotone DEF IInv, Sound, GameState, Plan
<1>2. CASE /\ game'.plan.start = game.plan.start
           /\ Open(game'.plan) \subseteq Open(game.plan) \union {u \in Int : clock < u}
  BY <1>1, <1>2 DEF FInv, Aligned
<1>3. CASE /\ game.plan.start < DayStart(clock) /\ game'.plan.start = DayStart(clock)
           /\ Open(game'.plan) \subseteq Day(DayStart(clock))
  <2>1. game.plan.start + DayLength <= DayStart(clock)
    BY <1>1, <1>3, NoEarlierDay DEF FInv
  <2>2. \A d \in fired : d \in Nat /\ d < DayStart(clock)
    BY <1>1, <2>1 DEF FInv
  <2> QED
    BY <1>1, <1>3, <2>2, DayStartAligned DEF Aligned, Day
<1> QED
  BY <1>1, <1>2, <1>3, PlanMoves

LEMMA FireFired ==
    ASSUME IInv, FInv, FireDeadline
    PROVE  FInv'
<1>1. PICK d \in NextDeadlines, kind \in {"standard", "golden"} :
        /\ OnTime(d) /\ Commit(game') /\ game' = StartFlight(TickPlan(game, d), d, kind)
        /\ fired' = fired \union {d}
  BY DEF FireDeadline, Submit, Commit
<1>2. d \in Nat /\ game.now <= d /\ d <= clock
  BY <1>1, NextDeadline DEF FireDeadline
<1>3. clock \in Nat /\ Sound(game, clock) /\ game.plan.start \in Int /\ DayLength \in Nat
  BY ConstantTypes DEF IInv, Sound, GameState, Plan
<1>4. /\ Aligned(game')
      /\ \A e \in fired : e < game'.plan.start + DayLength /\ e \notin Open(game'.plan)
  BY <1>1, <1>2, MoveFired DEF Move
<1>5. game'.plan = TickPlan(game, d).plan
  BY <1>1, <1>2, <1>3, TickPlanSound, SamePlan
<1>6. game'.plan.start = game.plan.start /\ d \notin Open(game'.plan)
  BY <1>2, <1>3, <1>5, TickedPlan
<1>7. d < game.plan.start + DayLength
  BY <1>1, <1>3 DEF NextDeadlines, Open, Sound, Valid, Day
<1>8. Aligned(durable') /\ \A i \in DOMAIN unsaved' : Aligned(unsaved'[i])
  BY <1>1, <1>4 DEF Commit, FInv, IInv
<1> QED
  BY <1>1, <1>2, <1>4, <1>6, <1>7, <1>8 DEF FInv, Commit

LEMMA NextFired == IInv /\ FInv /\ [Next]_vars => FInv'
<1> SUFFICES ASSUME IInv, FInv, [Next]_vars, ~FireDeadline
             PROVE  FInv'
  BY FireFired
<1>1. unsaved \in Seq(GameState) /\ clock \in Nat
  BY DEF IInv
<1>2. CASE Restart
  BY <1>2 DEF Restart, FInv
<1>3. CASE Moves /\ fired' = fired
  <2>1. /\ Aligned(game')
        /\ \A d \in fired : d < game'.plan.start + DayLength /\ d \notin Open(game'.plan)
    BY <1>3, MoveFired DEF Moves
  <2>2. Aligned(durable') /\ \A i \in DOMAIN unsaved' : Aligned(unsaved'[i])
    BY <1>1, <1>3, <2>1 DEF Moves, Commit, FInv
  <2>3. clock' = clock
    BY <1>3 DEF Moves, Commit
  <2> QED
    BY <1>3, <2>1, <2>2, <2>3 DEF FInv
<1>4. CASE Persist
  <2>1. /\ 1 \in DOMAIN unsaved /\ durable' = unsaved[1]
        /\ \A i \in DOMAIN unsaved' : i + 1 \in DOMAIN unsaved /\ unsaved'[i] = unsaved[i + 1]
    BY <1>1, <1>4 DEF Persist
  <2> QED
    BY <1>4, <2>1 DEF Persist, FInv
<1>5. CASE Elapse
  BY <1>1, <1>5 DEF Elapse, FInv
<1>6. CASE UNCHANGED <<clock, game, unsaved, durable, fired>>
  BY <1>6 DEF FInv
<1> QED
  BY <1>2, <1>3, <1>4, <1>5, <1>6, FiredChanges, StepMoves, PlayMoves
     DEF Next, Rest, Refused, ShotRaises, vars

(* A process announces a deadline once: no later plan, extension, refusal  *)
(* or tick opens it again.                                                 *)
THEOREM NoDeadlineFiresTwice == Spec => []DeadlineFiresOnce
<1>1. Spec => []FInv
  BY InitFired, NextFired, Invariant, PTL DEF Spec
<1>2. FInv => DeadlineFiresOnce
  BY DEF FInv, DeadlineFiresOnce
<1> QED
  BY <1>1, <1>2, PTL

-----------------------------------------------------------------------------
(* Types.                                                                  *)

(* A step goes on with a dispatch it knows, or ends.                       *)
LEMMA FollowingName ==
    ASSUME NEW n \in Nat, NEW g
    PROVE  Following(n, g) \in {"idle"} \union {Phases[i] : i \in DOMAIN Phases}
<1> DEFINE left == {i \in n + 1 .. Len(Phases) : Applies(Phases[i], g)}
<1>1. CASE left = {}
  BY <1>1 DEF Following
<1>2. CASE left # {}
  <2>1. left \subseteq 1..6 /\ DOMAIN Phases = 1..6
    BY DEF Phases
  <2> HIDE DEF left
  <2>2. \E i \in left : \A j \in left : i <= j
    <3>1. left \subseteq {1, 2, 3, 4, 5, 6}
      BY <2>1
    <3>2. CASE 1 \in left \/ 2 \in left \/ 3 \in left
      BY <3>1, <3>2
    <3>3. CASE 1 \notin left /\ 2 \notin left /\ 3 \notin left
      <4>1. left \subseteq {4, 5, 6}
        BY <3>1, <3>3
      <4>2. CASE 4 \in left \/ 5 \in left
        BY <4>1, <4>2
      <4>3. CASE left = {6}
        BY <4>3
      <4> QED
        BY <1>2, <4>1, <4>2, <4>3
    <3> QED
      BY <3>2, <3>3
  <2>3. (CHOOSE i \in left : \A j \in left : i <= j) \in left
    BY <2>2
  <2> QED
    BY <1>2, <2>1, <2>3 DEF Following, left
<1> QED
  BY <1>1, <1>2

Types ==
    /\ pc \in {"idle", "failed"} \union {Phases[n] : n \in DOMAIN Phases}
    /\ Len(unsaved) <= Capacity
    /\ fired \subseteq 0..MaxNow
    /\ crashes \in 0..MaxCrashes

LEMMA NextTypes == IInv /\ Types /\ [Next]_vars => Types'
<1> SUFFICES ASSUME IInv, Types, [Next]_vars
             PROVE  Types'
  OBVIOUS
<1>0. /\ unsaved \in Seq(GameState) /\ clock \in Nat /\ clock <= MaxNow
      /\ MaxNow \in Nat /\ Capacity \in Nat /\ MaxCrashes \in Nat
  BY HuntConstants DEF IInv
<1>1. pc' \in {"idle", "failed"} \union {Phases[n] : n \in DOMAIN Phases}
  BY FollowingName
     DEF Types, Next, Step, ExpireFlight, AnswerCall, AttractFlight, InstallPlan, ExpandPlan,
         FireDeadline, SkipDeadline, Refused, Submit, Rest, Play, PassTime, EndFlight,
         ShotRaises, OrderBread, OrderCall, Launch, Command, Persist, Elapse, Restart, vars
<1>2. Len(unsaved') <= Capacity
  <2>1. CASE Moves
    <3>1. game' \in GameState
      BY <2>1, MoveSound DEF Moves, IInv, Sound
    <3> QED
      BY <1>0, <2>1, <3>1 DEF Moves, Commit, Room
  <2>2. CASE unsaved' \in {unsaved, <<>>} \/ Persist
    BY <1>0, <2>2 DEF Types, Persist
  <2> QED
    BY <2>1, <2>2, StepMoves, PlayMoves
       DEF Next, Rest, Refused, ShotRaises, Elapse, Restart, vars
<1>3. fired' \subseteq 0..MaxNow
  <2>1. CASE FireDeadline
    <3>1. PICK d \in NextDeadlines : OnTime(d) /\ fired' = fired \union {d}
      BY <2>1 DEF FireDeadline
    <3>2. d \in Nat /\ d <= clock
      BY <2>1, <3>1, NextDeadline DEF FireDeadline
    <3>3. d \in 0..MaxNow /\ fired \subseteq 0..MaxNow
      BY <1>0, <3>2 DEF Types
    <3> QED
      BY <3>1, <3>3
  <2> QED
    BY <2>1, FiredChanges DEF Types, Restart
<1>4. crashes' \in 0..MaxCrashes
  <2>1. CASE crashes' = crashes \/ ShotRaises \/ Restart
    BY <1>0, <2>1 DEF Types, ShotRaises, Restart
  <2> QED
    BY <2>1, StepMoves, PlayMoves
       DEF Moves, Commit, Next, Rest, Refused, Persist, Elapse, vars
<1> QED
  BY <1>1, <1>2, <1>3, <1>4 DEF Types

(* Every variable keeps its type, and the game stays behind the clock.     *)
THEOREM TypeCorrect == Spec => []TypeOK
<1>1. Init => Types
  BY HuntConstants DEF Init, Types
<1>2. Spec => []Types
  BY <1>1, NextTypes, Invariant, PTL DEF Spec
<1>3. IInv /\ Types => TypeOK
  BY DEF IInv, Sound, Valid, GameState, Types, TypeOK
<1> QED
  BY <1>2, <1>3, Invariant, PTL
=============================================================================
