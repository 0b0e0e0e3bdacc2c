------------------------------ MODULE Hunters ------------------------------
(***************************************************************************)
(* The hunters of the channel: every command that changes a profile, from  *)
(* the trigger to the ricochet, the reload, the shop and the owner's       *)
(* corrections (game/engine.py, game/shop.py, game/loot.py, game/admin.py).*)
(* A command is settled at one instant and dispatched as one event, so it  *)
(* is one action; time passes between two of them.  An event that leaves a *)
(* state the model classes reject is an exception: the event is not        *)
(* committed and the process stops ("failed").  What the dice decide (jam, *)
(* hit, recycled round, ricochets, what is found) is any value.  When      *)
(* flights start is the business of Hunt; here one may start at any time.  *)
(***************************************************************************)
EXTENDS Goods, Functions

CONSTANTS
    Starts,    \* the games a behaviour may start from
    Waits,     \* seconds that may pass before a command
    Orders,    \* the items that may be bought
    Finds,     \* what a kill may bring
    Corrections, \* the fields the owner may set or add to, with the value
    Deadlines, \* how far ahead a piece of bread or a call may be due
    MaxSteps   \* bound: commands in a behaviour

VARIABLES
    game,    \* the state of the channel
    said,    \* the last command: its name, its hunter, the item, the price, the time
    corrected, \* the hunters and what of them the owner has set by hand (history)
    failed,  \* the process has stopped on an exception
    steps    \* commands so far

vars == <<game, said, corrected, failed, steps>>

Said(what, who, item, cost, at) ==
    [what |-> what, who |-> who, item |-> item, cost |-> cost, at |-> at]

FlightKind == {"standard", "golden", "mechanical"}

(* The state of the channel, as far as the hunters are concerned. *)
GameState(known) ==
    [now : Nat, players : [known -> PlayerState],
     flight : [id : Nat, spawned : Nat, expires : Nat, kind : FlightKind, health : Int,
               reward : Nat, noisy : Nat],
     last : [id : Nat, spawned : Nat, ended : Nat, hit : BOOLEAN], nextFlight : Nat,
     lastShooter : Hunters \union {Nobody},
     effects : SUBSET ActiveEffect, nextEffect : Nat, curses : SUBSET ActiveCurse,
     nextCurse : Nat, calls : SUBSET ScheduledCall, nextCall : Nat, transfers : SUBSET PendingTransfer]

Caused(g) == SumFunction([n \in DOMAIN g.players |-> g.players[n].caused])
Received(g) == SumFunction([n \in DOMAIN g.players |-> g.players[n].received])

(* A hunter has no nuisance it is protected against, not both of a nuisance *)
(* and its remedy, and one of each group of exclusive effects.              *)
Warded(g, n) ==
    /\ \A item \in {14, 15, 16} :
          PermanentCounter(item) \in g.players[n].upgrades => ~Has(g, n, item)
    /\ \A item \in {15, 16} : ~(Has(g, n, item) /\ Has(g, n, Counter(item)))
    /\ \A e, f \in {x \in g.effects : x.owner = n} : f.item \in Group(e.item) => e = f

(* A game as commands find and leave it: one that is consistent. *)
Playable(g) ==
    /\ DOMAIN g.players \subseteq Hunters
    /\ g \in GameState(DOMAIN g.players) /\ ValidGame(g)
    /\ g.last.id < g.nextFlight /\ (Flying(g) => g.flight.spawned <= g.now)
    /\ \A c \in g.curses : c.id < g.nextCurse
    /\ \A n \in DOMAIN g.players :
          LET p == g.players[n]
          IN  WeaponFits(p) /\ OfToday(p, g.now) /\ Warded(g, n) /\ Balanced(p)
    /\ Caused(g) = Received(g)

(* What the owner may set a field to, or add to it.  "survived" is either  *)
(* of the ricochets deflected and absorbed, and "uncounted" any counter    *)
(* the profiles here do not have.                                          *)
Incidents == {"caused", "received", "survived", "deaths"}
Settable ==
    {"ammo", "magazines", "capacity", "magazineCapacity", "level", "experience", "credit",
     "carried", "hits", "fatigue", "jammed", "confiscated", "uncounted"} \union Incidents
MaxCounter == 1000000000

Accepted(field, operation) ==
    IF operation = "add" THEN (IF field \in {"ammo", "magazines"} THEN 1..100 ELSE {})
    ELSE CASE field = "capacity" -> 1..100 [] field = "magazineCapacity" -> 0..100
           [] field = "level" -> 1..1000 [] field = "fatigue" -> MinFatigue..MaxFatigue
           [] field \in {"jammed", "confiscated"} -> {0, 1}
           [] OTHER -> 0..MaxCounter

ASSUME HuntersConstants ==
    /\ IsFiniteSet(Hunters) /\ MaxSteps \in Nat
    /\ Waits \subseteq Nat /\ Orders \subseteq 1..31 /\ Deadlines \subseteq 1..Hour-1
    /\ Finds \subseteq Awards
    /\ \A c \in Corrections :
          /\ c.field \in Settable /\ c.operation \in {"add", "set"}
          /\ c.value \in Accepted(c.field, c.operation)
    /\ \A g \in Starts : Playable(g)

Init ==
    /\ game \in Starts
    /\ said = Said("start", Nobody, 0, 0, game.now)
    /\ corrected = {}
    /\ failed = FALSE
    /\ steps = 0

-----------------------------------------------------------------------------
(* Flights. *)

Lifetime == 5 * Minute

Reward(kind, health) ==
    CASE kind = "golden" -> 12 * health [] kind = "mechanical" -> 0 [] OTHER -> 10

EarliestOf(S) == {x \in S : \A y \in S : x.key < y.key \/ (x.key = y.key /\ x.id <= y.id)}
Eaten(g) ==
    LET first == EarliestOf({[id |-> e.id, key |-> e.at] : e \in Breads(g)})
    IN  {e \in Breads(g) : \E x \in first : x.id = e.id}
Answered(g, kind) ==
    LET item == CASE kind = "mechanical" -> 23 [] kind = "standard" -> 20 [] OTHER -> 0
        due == {c \in g.calls : c.item = item /\ c.due <= g.now}
        first == EarliestOf({[id |-> c.id, key |-> c.due] : c \in due})
    IN  {c \in due : \E x \in first : x.id = c.id}

(* The oldest piece of bread is eaten, the detectors sound, a call is      *)
(* answered.                                                               *)
TakeOff(g, kind, health) ==
    [g EXCEPT !.flight = [id |-> g.nextFlight, spawned |-> g.now, kind |-> kind,
                          expires |-> g.now + Lifetime + (IF Breads(g) = {} THEN 0 ELSE 20),
                          health |-> health, reward |-> Reward(kind, health), noisy |-> 0],
              !.nextFlight = @ + 1,
              !.effects = {e \in @ \ Eaten(g) : e.item # 22},
              !.calls = @ \ Answered(g, kind)]

EndFlight(g, hit) ==
    [g EXCEPT !.flight = NoFlight,
              !.last = [id |-> g.flight.id, spawned |-> g.flight.spawned, ended |-> g.now,
                        hit |-> hit]]

-----------------------------------------------------------------------------
(* The trigger.  A shot is a record [jams, aims, recycles, find, victims,  *)
(* fate]: the rolls, what the kill brings and the ricochets, all but the   *)
(* last of which were deflected.                                           *)

(* Why the trigger does not fire, in the order the code asks. *)
Obstacle(g, n) ==
    LET p == Resolved(g, n)
    IN  IF Cursed(g, n, "slowness") THEN "delayed"
        ELSE IF p.confiscated THEN "confiscated"
        ELSE IF Has(g, n, 16) THEN "soaked"
        ELSE IF p.jammed THEN "jammed"
        ELSE IF p.ammo = 0 THEN "empty"
        ELSE IF ~Flying(g) /\ Has(g, n, 8) THEN "locked"
        ELSE IF Has(g, n, 17) THEN "sabotaged"
        ELSE "none"

Jam(g, n) == WithPlayer(Take(g, n, 15), n, [Resolved(g, n) EXCEPT !.jammed = TRUE])

Held(g, n) ==
    LET known == WithPlayer(g, n, Resolved(g, n))
    IN  CASE Obstacle(g, n) = "locked" -> Take(known, n, 8)
          [] Obstacle(g, n) = "sabotaged" -> Take(Jam(g, n), n, 17)
          [] OTHER -> known

Frenzy(g, n) == IF Cursed(g, n, "frenzy") THEN 2 ELSE 1

BagWeight(g, n, p) ==
    IF Has(g, n, 118) THEN 1
    ELSE CASE p.carried > 10 -> 3 [] p.carried \in 6..10 -> 2 [] OTHER -> 1

FatigueUnbounded(g, n, p) == 100 * BagWeight(g, n, p) * Frenzy(g, n)    \* past the most there is
Fatigue(g, n, p) ==
    IF Has(g, n, 102) THEN 0
    ELSE Least(100 * BagWeight(g, n, p) * Frenzy(g, n)
                   * (IF Cursed(g, n, "burden") THEN 2 ELSE 1),
               MaxFatigue - p.fatigue)

Damage(g, n) ==
    Frenzy(g, n) * (IF Has(g, n, 4) THEN 3 ELSE IF Has(g, n, 3) THEN 2 ELSE 1)

(* The round, the fatigue and one use of the sand, scope and glare go      *)
(* whatever becomes of the shot.                                           *)
PullTrigger(g, n, shot) ==
    LET p == Resolved(g, n)
        rounds == IF shot.recycles THEN 0 ELSE Least(p.ammo, Frenzy(g, n))
        worn == Take(Take(Take(g, n, 15), n, 7), n, 14)
    IN  WithPlayer(worn, n, [p EXCEPT !.ammo = @ - rounds,
                                      !.fatigue = @ + Fatigue(g, n, p)])

LateWindow == 3
Late(g) == ~Flying(g) /\ g.last.hit /\ g.now - g.last.ended \in 0..LateWindow

(* Another hunter in the way: a miss, unless the curse has already made    *)
(* the shot one.                                                           *)
Misses(g, n, shot) ==
    \/ ~Flying(g) \/ ~shot.aims
    \/ shot.victims # <<>> /\ ~Cursed(g, n, "unerring_miss")

MissCost(g, n) ==
    LET costs == Penalties(Resolved(g, n).level)
    IN  costs.miss + (IF Flying(g) \/ Late(g) THEN 0 ELSE costs.wild)

(* Three misses heard put a standard flight to flight; a silent weapon is  *)
(* not counted and a suppressor is not heard.                              *)
Heard(g, n) == Flying(g) /\ ~Silent(Resolved(g, n).level) /\ ~Has(g, n, 9)
NoisyMissLimit == 3
Frightened(g, n) ==
    Heard(g, n) /\ g.flight.kind = "standard" /\ g.flight.noisy + 1 >= NoisyMissLimit

Miss(g, n) ==
    LET cost == MissCost(g, n)
        heard == IF Heard(g, n) THEN [g EXCEPT !.flight.noisy = @ + 1] ELSE g
    IN  WithPlayer(heard, n, Debit(g.players[n], cost))

-----------------------------------------------------------------------------
(* Ricochets. *)

Excused(g, n) == Has(g, n, 29) \/ "license" \in g.players[n].upgrades
RicochetCost(g, n, level) ==
    IF Excused(g, n) THEN 0
    ELSE Penalties(level).incident \div (IF Has(g, n, 19) THEN 3 ELSE 1)

Insured(g, victim, level) ==
    IF Has(g, victim, 18)
    THEN Take(WithPlayer(g, victim, Grant(g.players[victim], 3 * level)), victim, 18)
    ELSE g

(* One victim: the shooter pays, an insurance answers, the armour decides. *)
Wound(g, n, victim, fate, cost, level) ==
    LET paid == [Debit(g.players[n], cost) EXCEPT !.caused = @ + 1]
        told == WithPlayer(g, n, paid)
        present == WithPlayer(told, victim, Resolved(told, victim))
        insured == Insured(present, victim, level)
        survived == IF fate = "fatal" THEN 0 ELSE 1
    IN  WithPlayer(insured, victim,
                   [insured.players[victim] EXCEPT !.received = @ + 1,
                                                   !.survived = @ + survived,
                                                   !.deaths = @ + 1 - survived])

(* The penalty is that of the level the shot was fired at; the insurance   *)
(* pays by the level the ricochet finds.                                   *)
SettleIncident(g, n, shot, firedAt) ==
    LET level == g.players[n].level
        cost == RicochetCost(g, n, firedAt)
        disarmed == IF Excused(g, n) THEN g
                    ELSE WithPlayer(g, n, [g.players[n] EXCEPT !.confiscated = TRUE])
        last == Len(shot.victims)
        After[i \in 0..last] ==
            IF i = 0 THEN disarmed
            ELSE Wound(After[i - 1], n, shot.victims[i],
                       IF i = last THEN shot.fate ELSE "survived", cost, level)
    IN  After[last]

-----------------------------------------------------------------------------
(* What becomes of a shot that is fired. *)

(* The automatic reloader works after everything else. *)
Finish(g, n) ==
    LET p == [g.players[n] EXCEPT !.shots = @ + 1]
        free == UnlimitedMagazines(g, n)
        reloads == Has(g, n, 30) /\ p.ammo = 0 /\ (p.magazines > 0 \/ free)
        ready == IF reloads THEN [p EXCEPT !.ammo = p.capacity,
                                           !.magazines = @ - (IF free THEN 0 ELSE 1)]
                 ELSE p
    IN  [WithPlayer(g, n, ready) EXCEPT !.lastShooter = n]

MissedShot(g, n, shot) ==
    LET fired == PullTrigger(g, n, shot)
        missed == Miss(fired, n)
        settled == IF shot.victims = <<>> \/ Late(g) THEN missed
                   ELSE SettleIncident(missed, n, shot, Resolved(g, n).level)
    IN  Finish(IF Frightened(fired, n) THEN EndFlight(settled, FALSE) ELSE settled, n)

Survives(g, n) == Damage(g, n) < g.flight.health

WoundedFlight(g, n, shot) ==
    Finish([PullTrigger(g, n, shot) EXCEPT !.flight.health = @ - Damage(g, n)], n)

Prize(g, n) ==
    (g.flight.reward + (IF Has(g, n, 10) THEN CHOOSE m \in 1..10 :
                            \E e \in Owned(g, n, {10}) : e.magnitude = m ELSE 0))
    \div (IF Cursed(g, n, "confusion") THEN 2 ELSE 1)

(* The amulets of the hunter call the next flight. *)
Triggered(g, n) ==
    LET fed == IF Has(g, n, 112) THEN Activate(g, Nobody, 21, Nobody, g.now + 10 * Minute) ELSE g
    IN  IF Has(g, n, 113) THEN AddCall(fed, 23, n, g.now + 10 * Minute) ELSE fed

KillingShot(g, n, shot) ==
    LET fired == PullTrigger(g, n, shot)
        p == fired.players[n]
        credited == [p EXCEPT !.hits = @ + 1,
                              !.carried = @ + (IF g.flight.kind = "mechanical" THEN 0 ELSE 1),
                              !.credit = @ + MilestoneCredit(p.hits + 1)]
        killed == EndFlight(WithPlayer(fired, n, Grant(credited, Prize(fired, n))), TRUE)
        called == Triggered(killed, n)
    IN  Finish(IF shot.find = Nothing THEN called ELSE AcquireLoot(called, n, shot.find), n)

Shoot(g, n, shot) ==
    CASE Obstacle(g, n) # "none" -> Held(g, n)
      [] Obstacle(g, n) = "none" /\ shot.jams -> Jam(g, n)
      [] OTHER -> IF Misses(g, n, shot) THEN MissedShot(g, n, shot)
                  ELSE IF Survives(g, n) THEN WoundedFlight(g, n, shot)
                  ELSE KillingShot(g, n, shot)

Kills(g, n, shot) ==
    /\ Obstacle(g, n) = "none" /\ ~shot.jams
    /\ ~Misses(g, n, shot) /\ ~Survives(g, n)

(* The shots the resolver settles: a ricochet only off a shot at a flight, *)
(* unless the curse demands one; a find only from the kill of a standard   *)
(* flight, and one its hunter may have.                                    *)
Settled(g, n, shot) ==
    /\ shot.recycles => Recycling(g, n)
    /\ IF Cursed(g, n, "unerring_miss") THEN (shot.victims = <<>>) = Late(g)
       ELSE shot.victims # <<>> => Flying(g) /\ Obstacle(g, n) = "none" /\ ~shot.jams
    /\ shot.find # Nothing =>
          /\ Kills(g, n, shot) /\ g.flight.kind = "standard"
          /\ Acceptable(KillingShot(g, n, [shot EXCEPT !.find = Nothing]), n, shot.find)

Reload(g, n) ==
    LET p == Resolved(g, n)
        free == UnlimitedMagazines(g, n)
        blocked == \/ Cursed(g, n, "slowness") \/ p.confiscated \/ Cursed(g, n, "one_armed")
                   \/ ~p.jammed /\ p.ammo > 0
                   \/ ~p.jammed /\ p.magazines = 0 /\ ~free
    IN  WithPlayer(g, n, CASE blocked -> p
                           [] ~blocked /\ p.jammed -> [p EXCEPT !.jammed = FALSE]
                           [] OTHER -> [p EXCEPT !.ammo = p.capacity,
                                                 !.magazines = @ - (IF free THEN 0 ELSE 1)])

-----------------------------------------------------------------------------
(* Corrections of the owner (game/admin.py). *)

Replenish(p, field, value) ==
    IF field = "ammo" THEN [p EXCEPT !.ammo = Least(p.capacity, @ + value)]
    ELSE [p EXCEPT !.magazines = Least(p.magazineCapacity, @ + value)]

(* Any field may be set to a value its range allows; what the other fields *)
(* make of it is for the caller to see.                                    *)
Correct(p, field, value) ==
    CASE field = "capacity" -> [p EXCEPT !.capacity = value, !.ammo = Least(@, value)]
      [] field = "magazineCapacity" ->
            [p EXCEPT !.magazineCapacity = value, !.magazines = Least(@, value)]
      [] field = "level" ->
            [p EXCEPT !.level = value, !.experience = Least(@, Required(value) - 1)]
      [] field = "confiscated" -> [p EXCEPT !.confiscated = value = 1, !.permanent = FALSE]
      [] field = "jammed" -> [p EXCEPT !.jammed = value = 1]
      [] field = "uncounted" -> p
      [] OTHER -> [p EXCEPT ![field] = value]

ControlWeapon(p, operation) ==
    [p EXCEPT !.confiscated = operation # "rearm", !.permanent = operation = "unarm_permanent"]

-----------------------------------------------------------------------------
(* Steps. *)

(* A state the model classes reject is an exception, and nothing is kept.  *)
Settle(h, what) ==
    /\ steps' = steps + 1
    /\ said' = what
    /\ IF ValidGame(h) THEN game' = h /\ UNCHANGED failed
       ELSE failed' = TRUE /\ UNCHANGED game

SettleGame(h, what) == Settle(h, what) /\ UNCHANGED corrected

Chains(n) == {<<>>} \union {<<v>> : v \in Hunters \ {n}}
             \union {<<v, w>> : v, w \in Hunters \ {n}}

Trigger ==
    \E wait \in Waits, n \in Hunters :
        LET g == Advance(game, game.now + wait)
        IN  \E jams, aims, recycles \in BOOLEAN, find \in {Nothing} \union Finds,
               victims \in {c \in Chains(n) : Len(c) = 2 => c[1] # c[2]},
               fate \in {"survived", "fatal"} :
                LET shot == [jams |-> jams, aims |-> aims, recycles |-> recycles, find |-> find,
                             victims |-> victims, fate |-> fate]
                IN  /\ victims = <<>> => fate = "fatal"
                    /\ Settled(g, n, shot)
                    /\ SettleGame(Shoot(g, n, shot), Said("shot", n, 0, 0, g.now))

Recharge ==
    \E wait \in Waits, n \in Hunters :
        LET g == Advance(game, game.now + wait)
        IN  SettleGame(Reload(g, n), Said("reload", n, 0, 0, g.now))

(* Every other command only makes its hunter known. *)
Ask ==
    \E wait \in Waits, n \in Hunters :
        LET g == Advance(game, game.now + wait)
        IN  SettleGame(WithPlayer(g, n, Resolved(g, n)), Said("query", n, 0, 0, g.now))

Buy ==
    \E wait \in Waits, n \in Hunters, item \in Orders :
        LET g == Advance(game, game.now + wait)
        IN  \E target \in (IF Kind(item) = "target" THEN Hunters \union {Nobody} ELSE {Nobody}),
               present \in (IF Kind(item) = "target" THEN BOOLEAN ELSE {TRUE}),
               discount \in Discount(g, n), delay \in Deadlines :
                LET o == [buyer |-> n, item |-> item, target |-> target, present |-> present,
                          magnitude |-> IF item \in {7, 10} THEN 10 ELSE 0, due |-> g.now + delay]
                    cost == SettledCost(item, discount)
                IN  IF Refused(g, o, cost) THEN SettleGame(g, Said("refusal", n, item, 0, g.now))
                    ELSE SettleGame(Purchase(g, o, cost), Said("purchase", n, item, cost, g.now))

Appear ==
    \E wait \in Waits, kind \in FlightKind :
        LET g == Advance(game, game.now + wait)
            health == IF kind = "golden" THEN 3 ELSE 1
        IN  SettleGame(IF Flying(g) THEN g ELSE TakeOff(g, kind, health),
                      Said("flight", Nobody, 0, 0, g.now))

(* What a correction takes the model's word from: the weapon of the level,  *)
(* or the balance of the ricochets.                                        *)
ByHand(n, field) ==
    CASE field \in {"capacity", "magazineCapacity", "level"} -> {<<n, "weapon">>}
      [] field \in Incidents -> {<<n, "incidents">>}
      [] OTHER -> {}

(* A profile the model class rejects is refused before anything happens,    *)
(* the passage of time included.  Of the two counters in "survived" one is  *)
(* set and the other, any part of the sum, stays.                           *)
Administer ==
    \E wait \in Waits, n \in DOMAIN game.players :
        LET g == Advance(game, game.now + wait)
            p == g.players[n]
        IN  \/ \E c \in Corrections :
                 \E kept \in (IF c.field = "survived" THEN 0..p.survived ELSE {0}) :
                    LET value == c.value + kept
                        q == IF c.operation = "add" THEN Replenish(p, c.field, value)
                             ELSE Correct(p, c.field, value)
                    IN  IF ValidPlayer(q)
                        THEN /\ Settle(WithPlayer(g, n, q), Said("update", n, 0, 0, g.now))
                             /\ corrected' = corrected \union ByHand(n, c.field)
                        ELSE /\ steps' = steps + 1
                             /\ said' = Said("rejection", n, 0, 0, g.now)
                             /\ UNCHANGED <<game, corrected, failed>>
            \/ \E operation \in {"rearm", "unarm", "unarm_permanent"} :
                 SettleGame(WithPlayer(g, n, ControlWeapon(p, operation)),
                            Said("weapon", n, 0, 0, g.now))

(* Bread or a duck call from the owner, which nobody pays for. *)
Endow ==
    \E wait \in Waits, delay \in Deadlines :
        LET g == Advance(game, game.now + wait)
        IN  \/ SettleGame(AddCall(g, 20, Nobody, g.now + delay),
                          Said("grant", Nobody, 20, 0, g.now))
            \/ /\ Cardinality(Breads(g)) < MaxBread
               /\ SettleGame(Activate(g, Nobody, 21, Nobody, g.now + delay),
                             Said("grant", Nobody, 21, 0, g.now))

Next ==
    /\ ~failed /\ steps < MaxSteps
    /\ Trigger \/ Recharge \/ Ask \/ Buy \/ Appear \/ Administer \/ Endow

Spec == Init /\ [][Next]_vars

-----------------------------------------------------------------------------
(* Properties. *)

TypeOK ==
    /\ DOMAIN game.players \subseteq Hunters /\ ValidGame(game)
    /\ said.who \in Hunters \union {Nobody} /\ said.cost \in Nat /\ said.at \in Nat
    /\ corrected \subseteq (DOMAIN game.players) \X {"weapon", "incidents"}
    /\ failed \in BOOLEAN /\ steps \in 0..MaxSteps

(* The weapon is the one of the level, with what the upgrades add, whatever *)
(* the order of promotions, purchases, misses and ricochets, unless the     *)
(* owner has set it, or the level, by hand.                                 *)
WeaponFitsLevel ==
    \A n \in DOMAIN game.players : <<n, "weapon">> \notin corrected => WeaponFits(game.players[n])

(* Nobody is left in an earlier day or with a karma deadline already past. *)
EverybodyIsOfToday ==
    \A n \in DOMAIN game.players : OfToday(game.players[n], game.now)

(* Every ricochet has its two sides: a shooter who caused it and a victim   *)
(* who received it, and survived it or died of it.  The owner may break     *)
(* either balance: that of a hunter by setting a counter of it, and that of *)
(* the channel by setting one of anybody.                                   *)
IncidentsBalance ==
    /\ (\A n \in Hunters : <<n, "incidents">> \notin corrected) => Caused(game) = Received(game)
    /\ \A n \in DOMAIN game.players :
          <<n, "incidents">> \notin corrected => Balanced(game.players[n])

ProfilesAreSound == WeaponFitsLevel /\ EverybodyIsOfToday /\ IncidentsBalance

(* No nuisance reaches a hunter who has what stops it, neither by purchase  *)
(* nor when the protection comes after it; and of each group of exclusive   *)
(* effects a hunter has one.                                                *)
NuisancesAreWarded == \A n \in DOMAIN game.players : Warded(game, n)

Wealth(g, n) == IF Known(g, n) THEN Available(g.players[n]) + g.players[n].credit ELSE 0

(* A purchase costs its buyer the price settled for it, across as many      *)
(* levels as it takes, and nobody else anything; a refusal costs nothing.   *)
PurchaseTakesItsPrice ==
    [][said'.what \in {"purchase", "refusal"} /\ ~failed' =>
          \A n \in Hunters :
              Wealth(game', n) = Wealth(game, n) - (IF n = said'.who THEN said'.cost ELSE 0)]_vars

(* A confiscated weapon stays silent and loaded as it was, and comes back   *)
(* by a purchase, the owner or a new day; one taken for good comes back     *)
(* from the owner alone.                                                    *)
ConfiscationHolds ==
    [][\A n \in DOMAIN game.players :
          LET p == game.players[n]
              q == game'.players[n]
              owner == said'.what \in {"weapon", "update"}
          IN  /\ p.permanent /\ ~owner => q.permanent
              /\ p.confiscated /\ q.day = p.day /\ ~owner =>
                    /\ q.shots = p.shots
                    /\ said'.who = n /\ said'.what \in {"shot", "reload"} =>
                          <<q.ammo, q.magazines, q.jammed>> = <<p.ammo, p.magazines, p.jammed>>
                    /\ ~q.confiscated => said'.what = "purchase" /\ said'.item = 5]_vars

(* Two commands raise.  One buys a magazine whose price takes a level away, *)
(* and with it the place for the magazine; the other is a shot that ends a  *)
(* flight at the instant of its launch.                                     *)
NothingElseRaises ==
    failed => \/ /\ said.what = "purchase" /\ said.item = 2
                 /\ LET p == Pay(game.players[said.who], said.cost)
                    IN  /\ p.level < game.players[said.who].level
                        /\ p.magazines = p.magazineCapacity
              \/ said.what = "shot" /\ Flying(game) /\ game.flight.spawned = said.at

(* Nothing but those two takes a hunter, a flight or an effect out of what  *)
(* the model classes accept.                                                *)
StatesAreSound == TypeOK /\ NothingElseRaises

=============================================================================
