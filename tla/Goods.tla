------------------------------- MODULE Goods -------------------------------
(***************************************************************************)
(* What a hunter buys and finds: game/shop.py and game/loot.py, with the   *)
(* amounts runtime/settlement.py settles before the event is dispatched.   *)
(* An order is a record [buyer, item, target, present, magnitude, due]; a  *)
(* find is a record [grant, item, amount, what, then], where "then" is the *)
(* reward that comes with the last letter.                                 *)
(***************************************************************************)
EXTENDS Profile, Sequences

MaxBread == 20      \* MAX_CHANNEL_BREAD

-----------------------------------------------------------------------------
(* Orders. *)

Immune == {15, 17}  \* nuisances a silent weapon is proof against

TargetRefused(g, o) ==
    /\ Kind(o.item) = "target"
    /\ \/ o.target = Nobody \/ ~Known(g, o.target)
       \/ o.item \in PresenceRequired /\ ~o.present
       \/ o.item \in WeaponRequired /\ g.players[o.target].confiscated
       \/ o.item \in Immune /\ Silent(g.players[o.target].level)
       \/ Has(g, o.target, o.item)

Breads(g) == {e \in g.effects : e.item = 21}

(* The order would change nothing. *)
NotApplicable(g, o) ==
    LET p == Resolved(g, o.buyer)
        kind == Kind(o.item)
    IN  \/ kind = "ammunition" /\ p.ammo = p.capacity
        \/ kind = "magazine" /\ p.magazines = p.magazineCapacity
        \/ kind = "return" /\ (~p.confiscated \/ p.permanent)
        \/ kind = "remedy" /\ Owned(g, o.buyer, RemovedBy(o.item)) = {}
        \/ kind = "purification" /\ {c \in g.curses : c.owner = o.buyer} = {}
        \/ kind = "effect" /\ o.item \notin {3, 4, 10, 21} /\ Has(g, o.buyer, o.item)
        \/ o.item = 21 /\ Cardinality(Breads(g)) >= MaxBread

TooPoor(g, o, cost) ==
    LET p == Resolved(g, o.buyer)
    IN  Available(p) < cost - Least(p.credit, cost)

Refused(g, o, cost) == TargetRefused(g, o) \/ NotApplicable(g, o) \/ TooPoor(g, o, cost)

(* A bug: the voucher is used up, and the experience pays all the same.    *)
PayTwice(p, cost) ==
    [Spend(p, Least(cost, Available(p))) EXCEPT !.credit = @ - Least(@, cost),
                                                !.spent = @ + cost]

(* A voucher pays first, the rest is debited from the experience. *)
Pay(p, cost) ==
    LET credit == Least(p.credit, cost)
    IN  [Spend(p, cost - credit) EXCEPT !.credit = p.credit - credit,
                                        !.spent = p.spent + cost - credit]

Tire(g, n, centi) == WithPlayer(g, n, [g.players[n] EXCEPT !.fatigue = @ + centi])
Relief(p, most) == Least(most, Most(0, p.fatigue))

KarmaOf(o) ==
    CASE o.item \in {20, 21} -> 200
      [] o.item \in 14..17 \/ (o.item \in {27, 28} /\ o.target # o.buyer) -> -200
      [] OTHER -> 0

(* What stops a nuisance: a permanent protection, or the effect against it.*)
Protected(g, o) == PermanentCounter(o.item) \in g.players[o.target].upgrades
CounteredOnce(g, o) == Has(g, o.target, Counter(o.item))    \* permanent protections forgotten
Countered(g, o) == Protected(g, o) \/ Has(g, o.target, Counter(o.item))

(* The grease against the sand is used up. *)
DeliverCountered(g, o) ==
    IF o.item = 15 /\ ~Protected(g, o) THEN Without(g, Owned(g, o.target, {6})) ELSE g

DeliverToTarget(g, o) ==
    LET q == g.players[o.target]
        infusion == Least(600, MaxFatigue - q.fatigue)
    IN  CASE o.item = 27 -> Tire(Activate(g, o.target, 27, o.buyer, 0), o.target,
                                 -Relief(q, 10000))
          [] o.item = 28 -> Tire(Activate(g, o.target, 28, o.buyer, infusion), o.target, infusion)
          [] OTHER -> Activate(g, o.target, o.item, o.buyer, 0)

DeliverEffect(g, o) ==
    LET replaced == IF o.item \in {3, 4, 10} THEN Group(o.item) ELSE {}
        kept == Without(g, Owned(g, o.buyer, replaced \union RemovedBy(o.item)))
    IN  IF o.item = 21 THEN Activate(kept, Nobody, 21, Nobody, o.due)
        ELSE Activate(kept, o.buyer, o.item, Nobody, o.magnitude)

AddCall(g, item, source, due) ==
    [g EXCEPT !.calls = @ \union {[id |-> g.nextCall, item |-> item, source |-> source,
                                   due |-> due]},
              !.nextCall = @ + 1]

Deliver(g, o) ==
    LET n == o.buyer
        p == g.players[n]
        kind == Kind(o.item)
    IN  CASE kind = "ammunition" -> WithPlayer(g, n, [p EXCEPT !.ammo = @ + 1])
          [] kind = "magazine" -> WithPlayer(g, n, [p EXCEPT !.magazines = @ + 1])
          [] kind = "return" ->
                WithPlayer(g, n, [p EXCEPT !.confiscated = FALSE, !.permanent = FALSE])
          [] kind = "remedy" -> Without(g, Owned(g, n, RemovedBy(o.item)))
          [] kind = "action" -> AddCall(g, o.item, n, o.due)
          [] o.item = 24 -> Tire(g, n, -Relief(p, 500))
          [] o.item = 25 -> WithPlayer(g, n, [p EXCEPT !.fatigue = MinFatigue])
          [] kind = "purification" -> [g EXCEPT !.curses = {c \in @ : c.owner # n}]
          [] kind = "target" -> IF Countered(g, o) THEN DeliverCountered(g, o)
                                ELSE DeliverToTarget(g, o)
          [] kind = "effect" -> DeliverEffect(g, o)

Purchase(g, o, cost) ==
    LET paid == WithPlayer(g, o.buyer, Pay(Resolved(g, o.buyer), cost))
        served == Deliver(paid, o)
    IN  IF KarmaOf(o) = 0 THEN served
        ELSE WithPlayer(served, o.buyer,
                        AdjustKarma(served.players[o.buyer], KarmaOf(o), g.now))

-----------------------------------------------------------------------------
(* Finds. *)

Nothing == [grant |-> "nothing", item |-> 0, amount |-> 0, what |-> "none", then |-> <<>>]
Find(grant, item, amount) ==
    [Nothing EXCEPT !.grant = grant, !.item = item, !.amount = amount]
FindOf(grant, what) == [Nothing EXCEPT !.grant = grant, !.what = what]

Magnitudes(item) == CASE item = 7 -> 0..15 [] item = 10 -> 1..10 [] OTHER -> {0}

StandardLoot ==
    {Find(grant, 0, 0) : grant \in {"decoration", "ammunition", "magazine"}}
    \union (UNION {{Find("effect", i, m) : m \in Magnitudes(i)} :
                     i \in {3, 4, 6, 7, 8, 9, 10, 11, 22}})
    \union {Find("experience", 0, a) : a \in {10, 20, 30, 40, 50, 100}}

UnusualLoot ==
    {Find("credit", 0, a) : a \in {10, 20, 50, 75}}
    \union {Find("reward", i, 0) : i \in 101..118}
    \union {FindOf("upgrade", u) : u \in Upgrades}
    \union {FindOf("curse", c) : c \in Curses}

(* A letter of the phrase may carry the reward of the last one missing. *)
Phrase == <<"D", "U", "C", "K", "H", "U", "N", "T">>
Loot == StandardLoot \union UnusualLoot
LetterLoot ==
    {[FindOf("letter", Phrase[i]) EXCEPT !.then = then] :
        i \in Letters, then \in {<<>>} \union {<<find>> : find \in Loot}}
Awards == Loot \union LetterLoot

MinimumLevel(find) ==
    CASE find.grant = "curse" -> 5
      [] find.grant = "upgrade" -> (CASE find.what = "magazine" -> 10
                                      [] find.what = "license" -> 30 [] OTHER -> 20)
      [] OTHER -> 1

(* A find replaces what its hunter has of the same kind. *)
FindEffect(g, n, find) ==
    LET kept == Without(g, Owned(g, n, Group(find.item) \union RemovedBy(find.item)))
        magnitude == IF find.item \in Promotions THEN PromotionOf(find.item) ELSE find.amount
    IN  Activate(kept, n, find.item, Nobody, magnitude)

(* A blessing wards one curse off. *)
FindCurse(g, n, curse) ==
    IF Has(g, n, 103) THEN Without(g, Owned(g, n, {103}))
    ELSE [g EXCEPT !.curses = {c \in @ : ~(c.owner = n /\ c.curse = curse)} \union
                              {[id |-> g.nextCurse, curse |-> curse, owner |-> n,
                                expires |-> g.now + CurseHours(curse) * Hour]},
                   !.nextCurse = @ + 1]

WardedBy(upgrade) ==
    CASE upgrade = "sunglasses" -> {14} [] upgrade = "raincoat" -> {16}
      [] upgrade = "lubricant" -> {15} [] OTHER -> {}

FindUpgrade(g, n, upgrade) ==
    LET p == g.players[n]
        better == [p EXCEPT !.upgrades = @ \union {upgrade},
                            !.capacity = @ + (IF upgrade = "magazine" THEN 1 ELSE 0),
                            !.magazineCapacity = @ + (IF upgrade = "bag" THEN 1 ELSE 0)]
    IN  IF upgrade \in p.upgrades THEN g
        ELSE WithPlayer(Without(g, Owned(g, n, WardedBy(upgrade))), n, better)

FindPlain(g, n, find) ==
    LET p == g.players[n]
    IN  CASE find.grant = "ammunition" ->
                WithPlayer(g, n, [p EXCEPT !.ammo = Least(@ + 1, p.capacity)])
          [] find.grant = "magazine" ->
                WithPlayer(g, n, [p EXCEPT !.magazines = Least(@ + 1, p.magazineCapacity)])
          [] find.grant = "experience" -> WithPlayer(g, n, Grant(p, find.amount))
          [] find.grant = "credit" -> WithPlayer(g, n, [p EXCEPT !.credit = @ + find.amount])
          [] find.grant \in {"effect", "reward"} -> FindEffect(g, n, find)
          [] find.grant = "curse" -> FindCurse(g, n, find.what)
          [] find.grant = "upgrade" -> FindUpgrade(g, n, find.what)
          [] OTHER -> g

Missing(p, letter) == {i \in Letters \ p.letters : Phrase[i] = letter}
Completes(p, letter) == Cardinality(p.letters) = 7 /\ Missing(p, letter) # {}

(* The last letter of the phrase is traded for the reward it carries, a    *)
(* full weapon and a voucher.                                              *)
Complete(g, n, find) ==
    LET emptied == WithPlayer(g, n, [g.players[n] EXCEPT !.letters = {}])
        won == FindPlain(emptied, n, find.then[1])
    IN  WithPlayer(won, n, [won.players[n] EXCEPT !.ammo = won.players[n].capacity,
                                                  !.magazines = won.players[n].magazineCapacity,
                                                  !.credit = @ + 50])

FindLetter(g, n, find) ==
    LET p == g.players[n]
        missing == Missing(p, find.what)
        first == {i \in missing : \A j \in missing : i <= j}
    IN  IF Completes(p, find.what) THEN Complete(g, n, find)
        ELSE WithPlayer(g, n, [p EXCEPT !.letters = @ \union first])

(* What acquire_loot accepts of the hunter who has just killed. *)
Acceptable(g, n, find) ==
    LET p == g.players[n]
    IN  /\ p.level >= MinimumLevel(find)
        /\ (find.then # <<>>) = (find.grant = "letter" /\ Completes(p, find.what))

AcquireLoot(g, n, find) ==
    IF find.grant = "letter" THEN FindLetter(g, n, find) ELSE FindPlain(g, n, find)

=============================================================================
