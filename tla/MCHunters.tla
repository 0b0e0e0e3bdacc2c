----------------------------- MODULE MCHunters -----------------------------
(* The games the runs of Hunters start from, and their bounds. *)
EXTENDS Hunters

CONSTANTS Ann, Bob

MCHuntersSet == {Ann, Bob}
Noon == 20000 * Day + 12 * Hour

At(level, experience) ==
    [Newcomer(Noon) EXCEPT !.level = level, !.experience = experience,
                           !.ammo = AmmoOf(level), !.capacity = AmmoOf(level),
                           !.magazines = MagazinesOf(level),
                           !.magazineCapacity = MagazinesOf(level)]

Empty ==
    [now |-> Noon, players |-> [n \in {} |-> 0], flight |-> NoFlight,
     last |-> [id |-> 0, spawned |-> 0, ended |-> 0, hit |-> FALSE], nextFlight |-> 1, lastShooter |-> Nobody,
     effects |-> {}, nextEffect |-> 1, curses |-> {}, nextCurse |-> 1,
     calls |-> {}, nextCall |-> 1, transfers |-> {}]

(* A duel at the edge between two weapons, one of them a hit from a level,  *)
(* over a flight launched the second before.                                *)
Edge ==
    LET ann == [At(20, 3) EXCEPT !.magazines = 3, !.ammo = 1, !.credit = 5]
        bob == [At(9, 95) EXCEPT !.hits = 99, !.letters = Letters \ {8}, !.upgrades = {"bag"},
                                 !.magazineCapacity = 3]
        early == [Empty EXCEPT !.now = Noon - 1]
    IN  [TakeOff(WithPlayer(WithPlayer(early, Ann, ann), Bob, bob), "standard", 1)
         EXCEPT !.now = Noon]

(* Two hunters of the first levels with everything still to happen. *)
Quiet ==
    WithPlayer(WithPlayer(Empty, Ann, [At(29, 40) EXCEPT !.fatigue = 9950]), Bob,
               [At(1, 2) EXCEPT !.upgrades = {"lubricant"}, !.karma = 150,
                                !.decays = Noon + Hour, !.carried = 10])

MCStarts == {Edge, Quiet}
MCWaits == {0, 13 * Hour}
MCOrders == {2, 5, 6, 13, 15, 17, 21, 28}
MCFinds == {Find("experience", 0, 100), FindOf("upgrade", "lubricant"), FindOf("curse", "frenzy")}
MCDeadlines == {10 * Minute}

(* One moves the weapon, one breaks a balance, one fills a magazine and one *)
(* is refused.                                                              *)
MCCorrections ==
    {[field |-> "level", operation |-> "set", value |-> 30],
     [field |-> "survived", operation |-> "set", value |-> 2],
     [field |-> "ammo", operation |-> "add", value |-> 1],
     [field |-> "experience", operation |-> "set", value |-> 1000]}
=============================================================================
