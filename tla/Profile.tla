------------------------------ MODULE Profile ------------------------------
(***************************************************************************)
(* The profile of one hunter and the catalogs it is built from: levels,    *)
(* experience, karma, effects, curses and the daily reset (game/model.py,  *)
(* level_policy.py, progression.py, karma.py, catalog.py, rewards.py,      *)
(* curses.py).  A game is a record g; every operator takes one and gives   *)
(* the next one.  Times are seconds.  The probabilities of the level table *)
(* are left out: what a roll decides is chosen by the actions.             *)
(***************************************************************************)
EXTENDS Integers, FiniteSets

CONSTANTS
    Hunters,   \* the names a profile can have
    Nobody,    \* no name: the owner of what belongs to the channel
    Zone       \* how far Paris is ahead of UTC

ASSUME ProfileConstants == Nobody \notin Hunters /\ Zone \in Nat

Minute == 60
Hour == 60 * Minute
Day == 24 * Hour
Never == -1       \* no time, where the code has None

DayOf(t) == (t + Zone) \div Day

-----------------------------------------------------------------------------
(* Levels. *)

AmmoOf(level) ==
    CASE level < 10 -> 6 [] level \in 10..19 -> 4 [] level \in 20..29 -> 2 [] OTHER -> 1

MagazinesOf(level) ==
    CASE level < 10 -> 2 [] level \in 10..19 -> 3 [] level \in 20..29 -> 4
      [] level \in 30..39 -> 6 [] OTHER -> 5

Silent(level) == level >= 40

(* What a miss, a wild shot on top of it and a ricochet cost. *)
Penalties(level) ==
    LET cost(miss, wild, incident) == [miss |-> miss, wild |-> wild, incident |-> incident]
    IN  CASE level < 10 -> cost(1, 1, 4)      [] level \in 10..19 -> cost(1, 2, 6)
          [] level \in 20..29 -> cost(2, 5, 10) [] level \in 30..39 -> cost(4, 8, 15)
          [] level \in 40..59 -> cost(5, 10, 20) [] level \in 60..69 -> cost(6, 10, 25)
          [] level \in 70..79 -> cost(7, 12, 26) [] level \in 80..89 -> cost(8, 14, 27)
          [] level \in 90..99 -> cost(9, 16, 28) [] OTHER -> cost(10, 18, 30)

Required(level) ==
    (level + 1) * (CASE level <= 60 -> 10 [] level \in 61..69 -> 20 [] level \in 70..79 -> 30
                     [] OTHER -> 40 + 10 * ((level - 80) \div 10))

Below[level \in Nat] ==
    IF level <= 1 THEN 0 ELSE Below[level - 1] + Required(level - 1)

Available(p) == p.experience + Below[p.level]

Least(a, b) == IF a < b THEN a ELSE b
Most(a, b) == IF a < b THEN b ELSE a

(* A bug: a new level forgets what the upgrades added.                     *)
AtLevelPlain(p, level, experience) ==
    [p EXCEPT !.level = level, !.experience = experience,
              !.ammo = Least(@, AmmoOf(level)), !.capacity = AmmoOf(level),
              !.magazines = Least(@, MagazinesOf(level)), !.magazineCapacity = MagazinesOf(level)]

(* The weapon follows the level; what an upgrade added stays. *)
AtLevel(p, level, experience) ==
    LET ammo == AmmoOf(level) + Most(0, p.capacity - AmmoOf(p.level))
        spare == MagazinesOf(level) + Most(0, p.magazineCapacity - MagazinesOf(p.level))
    IN  IF level = p.level THEN [p EXCEPT !.experience = experience]
        ELSE [p EXCEPT !.level = level, !.experience = experience,
                       !.ammo = Least(@, ammo), !.capacity = ammo,
                       !.magazines = Least(@, spare), !.magazineCapacity = spare]

(* Overflow is carried up, and debt down, across any number of levels; what  *)
(* a hunter has below the first level is never spent.                       *)
Climb[at \in Nat \X Nat] ==
    IF at[2] < Required(at[1]) THEN at
    ELSE Climb[<<at[1] + 1, at[2] - Required(at[1])>>]

Descend[at \in Nat \X Int] ==
    IF at[2] >= 0 \/ at[1] = 0 THEN at
    ELSE Descend[<<at[1] - 1, at[2] + Required(at[1] - 1)>>]

Grant(p, amount) ==
    LET reached == Climb[<<p.level, p.experience + amount>>]
    IN  AtLevel(p, reached[1], reached[2])

Spend(p, amount) ==
    LET reached == Descend[<<p.level, p.experience - amount>>]
    IN  AtLevel(p, reached[1], reached[2])

Debit(p, amount) == Spend(p, Least(amount, Available(p)))

-----------------------------------------------------------------------------
(* A profile. *)

MaxFatigue == 10000
MinFatigue == -300
MaxKarma == 10000
MinKarma == -10000
Letters == 1..8
Upgrades == {"bag", "magazine", "recycler", "sunglasses", "raincoat", "lubricant", "license"}
Curses == {"burden", "confusion", "decay", "frenzy", "one_armed", "slowness", "tremor",
           "unerring_miss"}

Newcomer(t) ==
    [level |-> 1, experience |-> 0, spent |-> 0, credit |-> 0,
     ammo |-> 6, capacity |-> 6, magazines |-> 2, magazineCapacity |-> 2,
     jammed |-> FALSE, confiscated |-> FALSE, permanent |-> FALSE,
     hits |-> 0, shots |-> 0, caused |-> 0, received |-> 0, survived |-> 0, deaths |-> 0,
     fatigue |-> 0, karma |-> 0, decays |-> Never, carried |-> 0, day |-> DayOf(t),
     upgrades |-> {}, letters |-> {}]

PlayerState ==
    [level : Nat, experience : Nat, spent : Nat, credit : Nat,
     ammo : Nat, capacity : Nat, magazines : Nat, magazineCapacity : Nat,
     jammed : BOOLEAN, confiscated : BOOLEAN, permanent : BOOLEAN,
     hits : Nat, shots : Nat, caused : Nat, received : Nat, survived : Nat, deaths : Nat,
     fatigue : Int, karma : Int, decays : Int, carried : Nat, day : Int,
     upgrades : SUBSET Upgrades, letters : SUBSET Letters]

(* What PlayerState accepts. *)
ValidPlayer(p) ==
    /\ p.capacity >= 1 /\ p.ammo \in 0..p.capacity
    /\ p.magazines \in 0..p.magazineCapacity
    /\ p.permanent => p.confiscated
    /\ p.fatigue \in MinFatigue..MaxFatigue
    /\ p.karma \in MinKarma..MaxKarma
    /\ p.karma = 0 <=> p.decays = Never
    /\ p.level >= 1 /\ p.experience \in 0..Required(p.level)-1
    /\ {p.credit, p.spent, p.carried, p.hits} \subseteq Nat
    /\ p.letters \subseteq Letters

Known(g, n) == n \in DOMAIN g.players

Resolved(g, n) == IF Known(g, n) THEN g.players[n] ELSE Newcomer(g.now)

WithPlayer(g, n, p) ==
    [g EXCEPT !.players = [m \in DOMAIN @ \union {n} |-> IF m = n THEN p ELSE @[m]]]

-----------------------------------------------------------------------------
(* The shop and the rewards of the loot.  Items 101 to 118 are rewards. *)

Costs == <<7, 16, 15, 25, 40, 5, 5, 8, 5, 13, 5, 9, 6, 5, 7, 10, 14, 5, 5, 8, 4, 4, 10, 5, 15,
           15, 10, 9, 10, 10, 30>>

Kind(item) ==
    CASE item = 1 -> "ammunition"  [] item = 2 -> "magazine"  [] item = 5 -> "return"
      [] item \in {12, 13} -> "remedy"  [] item \in {14, 15, 16, 17, 27, 28} -> "target"
      [] item \in {20, 23} -> "action"  [] item \in {24, 25} -> "relief"
      [] item = 31 -> "purification"  [] OTHER -> "effect"

Duration(item) ==
    CASE item \in {16, 21, 27, 28} -> Hour
      [] item \in {3, 4, 6} \union 8..11 \union {26, 29, 30, 101, 102, 104, 107, 110, 112, 113,
                                                 114, 116, 118} -> Day
      [] item \in {19, 105, 108, 111, 115, 117} -> 2 * Day
      [] item \in {18, 106, 109} -> 7 * Day
      [] OTHER -> Never

UsesOf(item) ==
    CASE item \in {7, 8} -> 6 [] item \in {14, 15, 17, 18, 22, 103} -> 1 [] OTHER -> 0

PresenceRequired == {14, 16, 27, 28}
WeaponRequired == {15, 17}

Counter(item) == CASE item = 14 -> 11 [] item = 15 -> 6 [] item = 16 -> 26 [] OTHER -> 0

PermanentCounter(item) ==
    CASE item = 14 -> "sunglasses" [] item = 15 -> "lubricant" [] item = 16 -> "raincoat"
      [] OTHER -> "none"

RemovedBy(item) ==
    CASE item = 6 -> {15} [] item = 12 -> {16} [] item = 13 -> {15, 17} [] item = 26 -> {16}
      [] OTHER -> {}

Promotions == 104..111

(* The items of which a hunter has at most one. *)
Group(item) ==
    CASE item \in {3, 4} -> {3, 4} [] item \in Promotions -> Promotions
      [] item \in {114, 115} -> {114, 115} [] item \in {116, 117} -> {116, 117}
      [] OTHER -> {item}

PromotionOf(item) ==
    CASE item \in 104..106 -> 10 [] item \in 107..109 -> 25 [] OTHER -> 50

CurseHours(curse) ==
    CASE curse \in {"burden", "confusion", "decay", "tremor"} -> 24
      [] curse = "one_armed" -> 3 [] OTHER -> 4

-----------------------------------------------------------------------------
(* Effects and curses of a hunter, calls and transfers of profiles. *)

ActiveEffect ==
    [id : Nat, item : 1..31 \union 101..118, owner : Hunters \union {Nobody},
     source : Hunters \union {Nobody}, at : Nat, uses : Nat, magnitude : Nat, expires : Int]
ActiveCurse == [id : Nat, curse : Curses, owner : Hunters, expires : Nat]
ScheduledCall == [id : Nat, item : Nat, source : Hunters \union {Nobody}, due : Nat]
PendingTransfer == [from : Hunters, to : Hunters, expires : Nat]

Owned(g, n, items) == {e \in g.effects : e.owner = n /\ e.item \in items}
Has(g, n, item) == Owned(g, n, {item}) # {}
Cursed(g, n, curse) == \E c \in g.curses : c.owner = n /\ c.curse = curse

Without(g, gone) == [g EXCEPT !.effects = @ \ gone]

Activate(g, n, item, source, magnitude) ==
    [g EXCEPT !.effects = @ \union
                {[id |-> g.nextEffect, item |-> item, owner |-> n, source |-> source,
                  at |-> g.now, uses |-> UsesOf(item), magnitude |-> magnitude,
                  expires |-> IF Duration(item) = Never THEN Never ELSE g.now + Duration(item)]},
              !.nextEffect = @ + 1]

(* What ActiveEffect and the catalog accept. *)
ValidEffect(e) ==
    /\ e.expires = (IF Duration(e.item) = Never THEN Never ELSE e.at + Duration(e.item))
    /\ IF UsesOf(e.item) = 0 THEN e.uses = 0 ELSE e.uses \in 1..UsesOf(e.item)
    /\ CASE e.item = 7 -> e.magnitude \in 0..15
         [] e.item = 10 -> e.magnitude \in 1..10
         [] e.item = 28 -> e.magnitude \in 0..600
         [] e.item = 21 -> e.magnitude \in e.at+1..e.expires-1
         [] e.item \in Promotions -> e.magnitude = PromotionOf(e.item)
         [] OTHER -> e.magnitude = 0
    /\ Kind(e.item) = "target" <=> e.source # Nobody

(* One use of an effect; the last one removes it. *)
Consume(g, used) ==
    [g EXCEPT !.effects = (@ \ used) \union
                          {[e EXCEPT !.uses = @ - 1] : e \in {u \in used : u.uses > 1}}]

Take(g, n, item) == Consume(g, Owned(g, n, {item}))

Recycling(g, n) ==
    "recycler" \in Resolved(g, n).upgrades \/ Owned(g, n, {114, 115}) # {}

UnlimitedMagazines(g, n) == Owned(g, n, {116, 117}) # {}

(* The discount of a hunter; {} when more than one coupon makes it raise. *)
Discount(g, n) ==
    LET coupons == Owned(g, n, Promotions)
    IN  CASE coupons = {} -> {0}
          [] Cardinality(coupons) = 1 -> {PromotionOf(e.item) : e \in coupons}
          [] OTHER -> {}

SettledCost(item, discount) == (Costs[item] * (100 - discount) + 50) \div 100

MilestoneCredit(hits) ==
    CASE hits = 0 \/ hits % 100 # 0 -> 0 [] hits = 100 -> 50 [] hits = 200 -> 75
      [] hits = 300 -> 100 [] hits = 400 -> 125 [] OTHER -> 150

-----------------------------------------------------------------------------
(* Karma, the daily reset and the passage of time. *)

KarmaPeriod == 2 * Hour

AdjustKarma(p, delta, t) ==
    LET karma == Least(MaxKarma, Most(MinKarma, p.karma + delta))
    IN  [p EXCEPT !.karma = karma,
                  !.decays = IF karma = 0 THEN Never
                             ELSE IF @ = Never THEN t + KarmaPeriod ELSE @]

DecayKarma(p, t) ==
    LET periods == (t - p.decays) \div KarmaPeriod + 1
        karma == IF p.karma > 0 THEN Most(0, p.karma - 12 * periods)
                 ELSE Least(0, p.karma + 12 * periods)
    IN  IF p.decays = Never \/ t < p.decays THEN p
        ELSE [p EXCEPT !.karma = karma,
                       !.decays = IF karma = 0 THEN Never ELSE @ + periods * KarmaPeriod]

(* A bug: the new day gives every weapon back.                             *)
NewDayForgives(p, t) ==
    IF p.day = DayOf(t) THEN p
    ELSE [p EXCEPT !.ammo = p.capacity, !.magazines = p.magazineCapacity, !.confiscated = FALSE,
                   !.permanent = FALSE, !.carried = 0, !.day = DayOf(t), !.fatigue = 0]

NewDay(p, t) ==
    IF p.day = DayOf(t) THEN p
    ELSE [p EXCEPT !.ammo = p.capacity, !.magazines = p.magazineCapacity,
                   !.confiscated = p.permanent, !.carried = 0, !.day = DayOf(t), !.fatigue = 0]

(* The weapon is the one of the level, with what the upgrades add. *)
WeaponFits(p) ==
    /\ p.capacity = AmmoOf(p.level) + (IF "magazine" \in p.upgrades THEN 1 ELSE 0)
    /\ p.magazineCapacity = MagazinesOf(p.level) + (IF "bag" \in p.upgrades THEN 1 ELSE 0)

(* A ricochet received is one survived or died of. *)
Balanced(p) == p.received = p.survived + p.deaths

(* Not of an earlier day, nor with a karma deadline already past. *)
OfToday(p, now) ==
    /\ p.day = DayOf(now)
    /\ p.decays = Never \/ p.decays \in now+1..now+KarmaPeriod

Expired(g, t) == {e \in g.effects : e.expires # Never /\ e.expires <= t}

(* An infusion that wears off gives its fatigue back. *)
WearOff(p, infusions) ==
    LET given == UNION {{e.magnitude} : e \in infusions}
    IN  IF given = {} THEN p
        ELSE [p EXCEPT !.fatigue = @ - Least(CHOOSE m \in given : TRUE, Most(0, @))]

NoFlight == [id |-> 0, spawned |-> 0, expires |-> 0, kind |-> "standard", health |-> 0,
             reward |-> 0, noisy |-> 0]
Flying(g) == g.flight # NoFlight

Advance(g, t) ==
    LET over == Flying(g) /\ g.flight.expires <= t
    IN  [g EXCEPT
            !.now = t,
            !.flight = IF over THEN NoFlight ELSE @,
            !.last = IF over THEN [id |-> g.flight.id, spawned |-> g.flight.spawned,
                                   ended |-> g.flight.expires, hit |-> FALSE]
                     ELSE @,
            !.players = [n \in DOMAIN @ |->
                WearOff(NewDay(DecayKarma(@[n], t), t),
                        {e \in Expired(g, t) : e.owner = n /\ e.item = 28})],
            !.effects = @ \ Expired(g, t),
            !.curses = {c \in @ : t < c.expires},
            !.transfers = {x \in @ : t < x.expires}]

-----------------------------------------------------------------------------
(* What GameState accepts. *)

(* A flight of the past ended after its launch.                             *)
LastInTime(g) == g.last.id # 0 => g.last.ended > g.last.spawned

ValidFlight(g) ==
    /\ Flying(g) => g.flight.expires > g.now /\ g.flight.health >= 1
                    /\ g.flight.expires > g.flight.spawned
                    /\ g.flight.id \in g.last.id+1..g.nextFlight-1
    /\ g.last.ended <= g.now /\ LastInTime(g)

ValidBelongings(g) ==
    LET unique(S) == \A x, y \in S : x.id = y.id => x = y
        known == DOMAIN g.players \union {Nobody}
    IN  /\ unique(g.effects) /\ unique(g.curses) /\ unique(g.calls)
        /\ \A e \in g.effects :
              /\ ValidEffect(e) /\ {e.owner, e.source} \subseteq known
              /\ e.id < g.nextEffect /\ (e.expires = Never \/ e.expires > g.now)
        /\ \A c \in g.curses : Known(g, c.owner) /\ c.expires > g.now
        /\ \A c \in g.calls : c.source \in known /\ c.id < g.nextCall

ValidTransfers(g) ==
    /\ \A x, y \in g.transfers : x.to = y.to => x = y
    /\ \A x \in g.transfers : x.from # x.to /\ x.expires > g.now

ValidGame(g) ==
    /\ \A n \in DOMAIN g.players : ValidPlayer(g.players[n])
    /\ ValidFlight(g) /\ ValidBelongings(g) /\ ValidTransfers(g)
    /\ g.lastShooter = Nobody \/ Known(g, g.lastShooter)

=============================================================================
