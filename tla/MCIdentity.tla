----------------------------- MODULE MCIdentity -----------------------------
(* Two hunters, three nicknames, and the limits the runs of Identity use. *)
EXTENDS Identity, TLC

CONSTANTS Ann, Bob, Cid, P1, P2

MCIdentityNames == {Ann, Bob, Cid}
MCPersons == {P1, P2}
MCSamePersons == Permutations(MCPersons)
Noon == 20000 * Day + 12 * Hour

Effect(id, item, owner, source) ==
    [id |-> id, item |-> item, owner |-> owner, source |-> source, at |-> Noon,
     uses |-> UsesOf(item), magnitude |-> 0, expires |-> Noon + Duration(item)]

(* Ann has a stronger weapon and Bob a higher level; each has an insurance  *)
(* against the same ricochets, and Ann has thrown water at Bob.             *)
Known2 ==
    LET ann == [Newcomer(Noon) EXCEPT !.hits = 3, !.shots = 5, !.upgrades = {"magazine"},
                                      !.capacity = 7, !.ammo = 2, !.experience = 15,
                                      !.caused = 1, !.karma = -200, !.decays = Noon + 90 * Minute]
        bob == [Newcomer(Noon) EXCEPT !.level = 10, !.experience = 100, !.hits = 20, !.shots = 31,
                                      !.capacity = 4, !.ammo = 4, !.magazines = 3,
                                      !.magazineCapacity = 3, !.credit = 50, !.received = 1, !.deaths = 1,
                                      !.karma = 200, !.decays = Noon + 60 * Minute,
                                      !.confiscated = TRUE]
    IN  [now |-> Noon, players |-> [n \in {Ann, Bob} |-> IF n = Ann THEN ann ELSE bob],
         flight |-> NoFlight, last |-> [id |-> 0, spawned |-> 0, ended |-> 0, hit |-> FALSE], nextFlight |-> 1,
         lastShooter |-> Ann,
         effects |-> {Effect(1, 19, Ann, Nobody), Effect(2, 19, Bob, Nobody),
                      Effect(3, 16, Bob, Ann)},
         nextEffect |-> 4, curses |-> {}, nextCurse |-> 1,
         calls |-> {[id |-> 1, item |-> 20, source |-> Ann, due |-> Noon + 300]}, nextCall |-> 2,
         transfers |-> {},
         windows |-> {[of |-> Ann, command |-> "stats", notice |-> 0, expires |-> <<Noon + 110>>],
                      [of |-> Nobody, command |-> Whatever, notice |-> 0,
                       expires |-> <<Noon + 590>>]}]

MCStarts == {Known2}
MCCommands == {"stats", "inventory"}
MCLimits == [c \in {"stats"} |-> [maximum |-> 1, seconds |-> 120]]
MCChannelLimit == [maximum |-> 3, seconds |-> 600]
MCTargeted == {"inventory"}
MCQueries == {"help"}
MCWaits == {30, Hour}
=============================================================================
