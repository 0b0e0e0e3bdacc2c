--------------------------- MODULE HuntersProofs ----------------------------
(***************************************************************************)
(* The theorems of Hunters: every command leaves a sound game, but for the *)
(* two that raise; what it takes from whom; and what becomes of a   *)
(* confiscated weapon.  A command is followed through the operators it is  *)
(* made of: Plays and Runs say what a shot may do, Serves and Buys what    *)
(* the shop may, Corrects what the owner may.                              *)
(***************************************************************************)
EXTENDS Hunters, ProfileProofs

-----------------------------------------------------------------------------
(* A price, paid.                                                           *)

(* A price is paid by the voucher and by experience, to the last point.     *)
LEMMA PayFollows ==
    ASSUME NEW t \in Nat, NEW p, SoundPlayer(p, t), NEW cost \in Nat,
           cost - Least(p.credit, cost) <= Available(p)
    PROVE  LET q == Pay(p, cost)
           IN  /\ Follows(p, q, t) /\ Keeps(p, q) /\ Undisturbed(p, q) /\ q.level <= p.level
               /\ Available(q) + q.credit = Available(p) + p.credit - cost
               /\ p.ammo < p.capacity => q.ammo < q.capacity
               /\ q.level = p.level => q.magazines = p.magazines
                                       /\ q.magazineCapacity = p.magazineCapacity
<1> DEFINE due == cost - Least(p.credit, cost)
           s == Spend(p, due)
<1>1. p \in PlayerState /\ p.credit \in Nat /\ p.spent \in Nat
  BY DEF SoundPlayer, PlayerState
<1>2. PICK credit \in Nat, spent \in Nat :
         /\ credit = p.credit - Least(p.credit, cost)
         /\ spent = p.spent + cost - Least(p.credit, cost)
  BY <1>1 DEF Least
<1>3. due \in Nat /\ due = cost - p.credit + credit
  BY <1>1, <1>2 DEF Least
<1>4. /\ Follows(p, s, t) /\ LevelledOnly(p, s) /\ s.level <= p.level
      /\ Available(s) = Available(p) - due
      /\ p.ammo < p.capacity => s.ammo < s.capacity
      /\ s.level = p.level => s.magazines = p.magazines
                              /\ s.magazineCapacity = p.magazineCapacity
  <2> HIDE DEF due
  <2> QED
    BY <1>3, SpendFollows DEF due
<1> DEFINE q == [s EXCEPT !.credit = credit, !.spent = spent]
<1>5. Pay(p, cost) = q
  BY <1>2 DEF Pay
<1> HIDE DEF s, due
<1>6. SoundPlayer(s, t) /\ s \in PlayerState
  BY <1>4 DEF Follows, SoundPlayer
<1>7. Follows(s, q, t) /\ Keeps(s, q)
  BY <1>6, PaidFollows
<1>8. /\ q.level = s.level /\ q.experience = s.experience /\ q.credit = credit
      /\ q.ammo = s.ammo /\ q.capacity = s.capacity /\ q.magazines = s.magazines
      /\ q.magazineCapacity = s.magazineCapacity /\ q.shots = s.shots /\ q.day = s.day
      /\ q.confiscated = s.confiscated /\ q.permanent = s.permanent
  BY <1>6 DEF PlayerState
<1> HIDE DEF q
<1>9. Available(s) \in Int /\ Available(p) \in Int /\ Available(q) = Available(s)
  <2>1. /\ s.level \in Nat /\ s.experience \in Nat /\ p.level \in Nat /\ p.experience \in Nat
    BY <1>1, <1>6 DEF PlayerState
  <2> QED
    BY <1>8, <2>1, BelowEquation DEF Available
<1>10. Follows(p, q, t) /\ Keeps(p, q) /\ Undisturbed(p, q)
  BY <1>4, <1>7, <1>8, FollowsOn DEF LevelledOnly, Keeps, Undisturbed
<1>11. Available(q) + q.credit = Available(p) + p.credit - cost
  BY <1>1, <1>3, <1>4, <1>8, <1>9
<1> QED
  BY <1>4, <1>5, <1>8, <1>10, <1>11

-----------------------------------------------------------------------------
(* Games, part by part.                                                     *)

(* A game a command may find: every part of it sound.                       *)
SoundEffects(g) ==
    /\ \A e \in g.effects :
          /\ ValidEffect(e) /\ e.id < g.nextEffect /\ (e.expires = Never \/ e.expires > g.now)
          /\ e.owner \in DOMAIN g.players \union {Nobody}
          /\ e.source \in DOMAIN g.players \union {Nobody}
    /\ \A e, f \in g.effects : e.id = f.id => e = f
SoundCurses(g) ==
    /\ \A c \in g.curses : c.id < g.nextCurse /\ c.owner \in DOMAIN g.players /\ c.expires > g.now
    /\ \A c, d \in g.curses : c.id = d.id => c = d
SoundCalls(g) ==
    /\ \A c \in g.calls : c.id < g.nextCall /\ c.source \in DOMAIN g.players \union {Nobody}
    /\ \A c, d \in g.calls : c.id = d.id => c = d
SoundFlight(g) ==
    /\ Flying(g) => /\ g.flight.expires > g.now /\ g.flight.health >= 1
                    /\ g.flight.expires > g.flight.spawned /\ g.flight.spawned <= g.now
                    /\ g.flight.id \in g.last.id+1..g.nextFlight-1
    /\ g.last.ended <= g.now /\ g.last.id < g.nextFlight

(* The weapon of the level and the balance of the ricochets, for everybody  *)
(* but those the owner has corrected (set).                                 *)
Fits(set, n, p) ==
    /\ <<n, "weapon">> \notin set => WeaponFits(p)
    /\ <<n, "incidents">> \notin set => Balanced(p)
SoundPlayers(g, set) ==
    \A n \in DOMAIN g.players :
        SoundPlayer(g.players[n], g.now) /\ Warded(g, n) /\ Fits(set, n, g.players[n])

Typed(g) == DOMAIN g.players \subseteq Hunters /\ g \in GameState(DOMAIN g.players)

Few(g, set) == set \subseteq (DOMAIN g.players) \X {"weapon", "incidents"}

Sound(g, set) ==
    /\ Typed(g) /\ SoundPlayers(g, set) /\ SoundFlight(g) /\ SoundEffects(g) /\ SoundCurses(g)
    /\ SoundCalls(g) /\ ValidTransfers(g)
    /\ g.lastShooter \in DOMAIN g.players \union {Nobody}

(* A sound game is one the model classes accept, unless its last flight     *)
(* ended no later than it began.                                            *)
LEMMA SoundIsValid ==
    ASSUME NEW g, NEW set, Sound(g, set), LastInTime(g) PROVE ValidGame(g)
<1>1. \A n \in DOMAIN g.players : ValidPlayer(g.players[n])
  BY DEF Sound, SoundPlayers, SoundPlayer
<1>2. ValidBelongings(g)
  BY DEF ValidBelongings, Sound, SoundEffects, SoundCurses, SoundCalls, Known
<1> QED
  BY <1>1, <1>2 DEF ValidGame, ValidFlight, Sound, SoundFlight, Known

(* A behaviour starts from a sound game, whose incidents balance.           *)
LEMMA PlayableIsSound ==
    ASSUME NEW g, Playable(g)
    PROVE  Sound(g, {}) /\ LastInTime(g) /\ Caused(g) = Received(g)
<1>1. Typed(g) /\ ValidGame(g) /\ g \in GameState(DOMAIN g.players)
  BY DEF Playable, Typed
<1>2. SoundPlayers(g, {})
  <2>1. \A n \in DOMAIN g.players : g.players[n] \in PlayerState
    BY <1>1 DEF GameState
  <2> QED
    BY <2>1 DEF SoundPlayers, SoundPlayer, Fits, Playable, ValidGame
<1>3. SoundEffects(g) /\ SoundCurses(g) /\ SoundCalls(g)
  BY <1>1 DEF SoundEffects, SoundCurses, SoundCalls, ValidGame, ValidBelongings, Playable, Known
<1> QED
  BY <1>1, <1>2, <1>3 DEF Playable, Sound, SoundFlight, ValidFlight, ValidGame, Known

(* What does not concern the hunters. *)
SameBelongings(g, h) ==
    /\ h.effects = g.effects /\ h.nextEffect = g.nextEffect
    /\ h.curses = g.curses /\ h.nextCurse = g.nextCurse
    /\ h.calls = g.calls /\ h.nextCall = g.nextCall /\ h.transfers = g.transfers
SameSky(g, h) ==
    /\ h.flight = g.flight /\ h.last = g.last /\ h.nextFlight = g.nextFlight

(* What a game with one profile replaced is made of.                        *)
LEMMA WithPlayerFields ==
    ASSUME NEW g, Typed(g), NEW n \in Hunters, NEW q \in PlayerState
    PROVE  LET h == WithPlayer(g, n, q)
           IN  /\ Typed(h) /\ h.now = g.now /\ h.lastShooter = g.lastShooter
               /\ SameBelongings(g, h) /\ SameSky(g, h)
               /\ DOMAIN h.players = DOMAIN g.players \union {n} /\ h.players[n] = q
               /\ \A m \in DOMAIN g.players \ {n} : h.players[m] = g.players[m]
<1> DEFINE D == DOMAIN g.players
           F == [m \in D \union {n} |-> IF m = n THEN q ELSE g.players[m]]
           h == WithPlayer(g, n, q)
<1>1. g \in GameState(D) /\ D \subseteq Hunters /\ g.players \in [D -> PlayerState]
  BY DEF Typed, GameState
<1>2. h = [g EXCEPT !.players = F]
  BY <1>1 DEF WithPlayer, GameState
<1>3. F \in [D \union {n} -> PlayerState]
  BY <1>1
<1>4. DOMAIN F = D \union {n} /\ F[n] = q /\ \A m \in D \ {n} : F[m] = g.players[m]
  OBVIOUS
<1> HIDE DEF F, h, D
<1>5. h \in GameState(D \union {n}) /\ h.players = F
  BY <1>1, <1>2, <1>3 DEF GameState
<1>6. /\ h.now = g.now /\ h.lastShooter = g.lastShooter
      /\ SameBelongings(g, h) /\ SameSky(g, h)
  BY <1>1, <1>2 DEF GameState, SameBelongings, SameSky
<1> QED
  BY <1>1, <1>4, <1>5, <1>6 DEF Typed, h, D

(* Nobody is no hunter.                                                     *)
LEMMA NobodyHunts == \A n \in Hunters : n # Nobody
BY ProfileConstants

(* A sound profile in the place of another leaves the game sound.           *)
LEMMA WithPlayerSound ==
    ASSUME NEW g, NEW set, Sound(g, set), NEW n \in Hunters, NEW q, SoundPlayer(q, g.now),
           Fits(set, n, q), Warded(WithPlayer(g, n, q), n)
    PROVE  Sound(WithPlayer(g, n, q), set)
<1> DEFINE h == WithPlayer(g, n, q)
<1>1. Typed(g) /\ q \in PlayerState
  BY DEF Sound, SoundPlayer
<1>2. /\ Typed(h) /\ h.now = g.now /\ h.lastShooter = g.lastShooter
      /\ SameBelongings(g, h) /\ SameSky(g, h)
      /\ DOMAIN h.players = DOMAIN g.players \union {n} /\ h.players[n] = q
      /\ \A m \in DOMAIN g.players \ {n} : h.players[m] = g.players[m]
  BY <1>1, WithPlayerFields
<1>3. Warded(h, n)
  OBVIOUS
<1> HIDE DEF h
<1>4. SoundPlayers(h, set)
  <2> SUFFICES ASSUME NEW m \in DOMAIN h.players, m # n
               PROVE  /\ SoundPlayer(h.players[m], h.now) /\ Warded(h, m)
                      /\ Fits(set, m, h.players[m])
    BY <1>2, <1>3 DEF SoundPlayers
  <2>1. /\ SoundPlayer(g.players[m], g.now) /\ Warded(g, m)
        /\ Fits(set, m, g.players[m])
        /\ h.players[m] = g.players[m]
    BY <1>2 DEF Sound, SoundPlayers
  <2>2. Warded(h, m)
    BY <1>2, <2>1 DEF Warded, SameBelongings, Has, Owned
  <2> QED
    BY <1>2, <2>1, <2>2
<1>5. SoundFlight(h) /\ ValidTransfers(h)
  BY <1>2 DEF Sound, SoundFlight, Flying, SameSky, SameBelongings, ValidTransfers
<1>6. SoundEffects(h) /\ SoundCurses(h) /\ SoundCalls(h)
  BY <1>2 DEF Sound, SoundEffects, SoundCurses, SoundCalls, SameBelongings
<1>7. h.lastShooter \in DOMAIN h.players \union {Nobody}
  BY <1>2 DEF Sound
<1> QED
  BY <1>2, <1>4, <1>5, <1>6, <1>7 DEF Sound, h

(* The hunter of a command, known or new. *)
LEMMA ResolvedSound ==
    ASSUME NEW g, NEW set, Sound(g, set), Few(g, set), NEW n
    PROVE  /\ SoundPlayer(Resolved(g, n), g.now)
           /\ Fits(set, n, Resolved(g, n))
<1>1. g.now \in Nat
  BY DEF Sound, Typed, GameState
<1> QED
  BY <1>1, NewcomerSound DEF Resolved, Known, Sound, SoundPlayers, Fits

(* What follows from the hunter as it is may take its place. *)
LEMMA FollowSound ==
    ASSUME NEW g, NEW set, Sound(g, set), Few(g, set), NEW n \in Hunters,
           NEW q, Follows(Resolved(g, n), q, g.now)
    PROVE  Sound(WithPlayer(g, n, q), set)
<1> DEFINE h == WithPlayer(g, n, q)
<1>1. Typed(g) /\ q \in PlayerState /\ SoundPlayer(q, g.now)
  BY DEF Sound, SoundPlayer, Follows
<1>2. SameBelongings(g, h) /\ h.players[n] = q
  BY <1>1, WithPlayerFields
<1>3. Fits(set, n, q)
  BY ResolvedSound DEF Follows, Balances, Fits
<1>4. Warded(h, n)
  <2> HIDE DEF h
  <2>1. CASE n \in DOMAIN g.players
    <3>1. Warded(g, n) /\ q.upgrades = g.players[n].upgrades
      BY <2>1 DEF Sound, SoundPlayers, Follows, Resolved, Known
    <3> QED
      BY <1>2, <3>1 DEF Warded, SameBelongings, Has, Owned
  <2>2. CASE n \notin DOMAIN g.players
    <3>1. \A e \in h.effects : e.owner # n
      BY <1>2, <2>2, NobodyHunts DEF Sound, SoundEffects, SameBelongings
    <3> QED
      BY <3>1 DEF Warded, Has, Owned
  <2> QED
    BY <2>1, <2>2
<1> QED
  BY <1>1, <1>3, <1>4, WithPlayerSound

(* The ricochets of all hunters, given and taken. *)
Tally(g) == Caused(g) - Received(g)

(* The two sides of the incidents are integers.                             *)
LEMMA TallyIsInteger ==
    ASSUME NEW g, Typed(g) PROVE Caused(g) \in Int /\ Received(g) \in Int
<1> DEFINE D == DOMAIN g.players
           c == [n \in D |-> g.players[n].caused]
           r == [n \in D |-> g.players[n].received]
<1>1. IsFiniteSet(D)
  BY HuntersConstants, FS_Subset DEF Typed
<1>2. \A n \in D : c[n] \in Int /\ r[n] \in Int
  BY DEF Typed, GameState, PlayerState
<1>3. DOMAIN c = D /\ DOMAIN r = D
  OBVIOUS
<1> HIDE DEF D, c, r
<1>4. SumFunctionOnSet(c, D) \in Int /\ SumFunctionOnSet(r, D) \in Int
  BY <1>1, <1>2, SumInt
<1> QED
  BY <1>3, <1>4 DEF Caused, Received, SumFunction, c, r, D

(* One more, or another, value in a sum. *)
LEMMA SumWith ==
    ASSUME NEW D, IsFiniteSet(D), NEW n, NEW f, NEW h, DOMAIN f = D, DOMAIN h = D \union {n},
           \A m \in D : f[m] \in Int, h[n] \in Int, \A m \in D \ {n} : h[m] = f[m]
    PROVE  SumFunction(h) = SumFunction(f) + h[n] - (IF n \in D THEN f[n] ELSE 0)
<1>1. SumFunction(h) = SumFunctionOnSet(h, D \union {n}) /\ SumFunction(f) = SumFunctionOnSet(f, D)
  BY DEF SumFunction
<1>2. \A m \in D \union {n} : h[m] \in Int
  OBVIOUS
<1>3. SumFunctionOnSet(f, D) \in Int
  BY SumInt
<1>4. CASE n \in D
  <2>1. D \union {n} = D
    BY <1>4
  <2>2. \A m \in D : f[m] \in Int /\ h[m] \in Int
    BY <1>2
  <2>3. SumFunctionOnSet(h, D) = SumFunctionOnSet(f, D) + h[n] - f[n]
    BY <1>4, <2>2, SumChange
  <2> QED
    BY <1>1, <1>4, <2>1, <2>3
<1>5. CASE n \notin D
  <2>1. IsFiniteSet(D \union {n}) /\ (D \union {n}) \ {n} = D
    BY <1>5, FS_AddElement
  <2>2. SumFunctionOnSet(h, D \union {n}) = h[n] + SumFunctionOnSet(h, (D \union {n}) \ {n})
    BY <1>2, <2>1, SumRemove
  <2>3. \A m \in D : h[m] \in Int /\ h[m] = f[m]
    BY <1>5
  <2>4. SumFunctionOnSet(h, D) = SumFunctionOnSet(f, D)
    BY <2>3, SumEqual
  <2>5. SumFunction(h) = h[n] + SumFunctionOnSet(f, D)
    BY <1>1, <2>1, <2>2, <2>4, Zenon
  <2>6. (IF n \in D THEN f[n] ELSE 0) = 0
    BY <1>5
  <2> QED
    BY <1>1, <1>3, <2>5, <2>6
<1> QED
  BY <1>4, <1>5

(* What one profile changes of the balance of incidents.                    *)
LEMMA WithPlayerTally ==
    ASSUME NEW g, Typed(g), NEW n \in Hunters, NEW q \in PlayerState
    PROVE  Tally(WithPlayer(g, n, q)) =
              Tally(g) + q.caused - Resolved(g, n).caused - q.received + Resolved(g, n).received
<1> DEFINE h == WithPlayer(g, n, q)
           D == DOMAIN g.players
           C(x) == [m \in DOMAIN x.players |-> x.players[m].caused]
           R(x) == [m \in DOMAIN x.players |-> x.players[m].received]
<1>1. /\ DOMAIN h.players = D \union {n} /\ h.players[n] = q
      /\ \A m \in D \ {n} : h.players[m] = g.players[m]
  BY WithPlayerFields
<1>2. IsFiniteSet(D) /\ \A m \in D : g.players[m].caused \in Int /\ g.players[m].received \in Int
  BY HuntersConstants, FS_Subset DEF Typed, GameState, PlayerState
<1>3. q.caused \in Int /\ q.received \in Int
  BY DEF PlayerState
<1>4. Caused(g) \in Int /\ Received(g) \in Int
  BY TallyIsInteger
<1> HIDE DEF h
<1>5. Caused(h) = Caused(g) + q.caused - (IF n \in D THEN g.players[n].caused ELSE 0)
  <2>1. /\ DOMAIN C(g) = D /\ DOMAIN C(h) = D \union {n} /\ C(h)[n] = q.caused
        /\ \A m \in D : C(g)[m] = g.players[m].caused
        /\ \A m \in D \ {n} : C(h)[m] = C(g)[m]
    BY <1>1
  <2>2. PICK f, k : f = C(g) /\ k = C(h)
    OBVIOUS
  <2>3. SumFunction(k) = SumFunction(f) + k[n] - (IF n \in D THEN f[n] ELSE 0)
    <3> HIDE DEF C, D
    <3>1. /\ DOMAIN f = D /\ DOMAIN k = D \union {n} /\ \A m \in D : f[m] \in Int
          /\ k[n] \in Int /\ \A m \in D \ {n} : k[m] = f[m]
      BY <1>2, <1>3, <2>1, <2>2
    <3> QED
      <4>1. IsFiniteSet(D) /\ DOMAIN f = D
        BY <1>2, <3>1
      <4>2. DOMAIN k = D \union {n} /\ k[n] \in Int
        BY <3>1
      <4>3. \A m \in D : f[m] \in Int
        BY <3>1
      <4>4. \A m \in D \ {n} : k[m] = f[m]
        BY <3>1
      <4> QED
        BY <4>1, <4>2, <4>3, <4>4, SumWith
  <2> QED
    BY <2>1, <2>2, <2>3 DEF Caused
<1>6. Received(h) = Received(g) + q.received - (IF n \in D THEN g.players[n].received ELSE 0)
  <2>1. /\ DOMAIN R(g) = D /\ DOMAIN R(h) = D \union {n} /\ R(h)[n] = q.received
        /\ \A m \in D : R(g)[m] = g.players[m].received
        /\ \A m \in D \ {n} : R(h)[m] = R(g)[m]
    BY <1>1
  <2>2. PICK f, k : f = R(g) /\ k = R(h)
    OBVIOUS
  <2>3. SumFunction(k) = SumFunction(f) + k[n] - (IF n \in D THEN f[n] ELSE 0)
    <3> HIDE DEF R, D
    <3>1. /\ DOMAIN f = D /\ DOMAIN k = D \union {n} /\ \A m \in D : f[m] \in Int
          /\ k[n] \in Int /\ \A m \in D \ {n} : k[m] = f[m]
      BY <1>2, <1>3, <2>1, <2>2
    <3> QED
      <4>1. IsFiniteSet(D) /\ DOMAIN f = D
        BY <1>2, <3>1
      <4>2. DOMAIN k = D \union {n} /\ k[n] \in Int
        BY <3>1
      <4>3. \A m \in D : f[m] \in Int
        BY <3>1
      <4>4. \A m \in D \ {n} : k[m] = f[m]
        BY <3>1
      <4> QED
        BY <4>1, <4>2, <4>3, <4>4, SumWith
  <2> QED
    BY <2>1, <2>2, <2>3 DEF Received
<1>7. Resolved(g, n).caused = (IF n \in D THEN g.players[n].caused ELSE 0)
      /\ Resolved(g, n).received = (IF n \in D THEN g.players[n].received ELSE 0)
  BY DEF Resolved, Known, Newcomer
<1> QED
  BY <1>2, <1>3, <1>4, <1>5, <1>6, <1>7 DEF Tally, h

(* What leaves the hunters alone. *)
Beside(g, h) == h.players = g.players /\ h.now = g.now

(* What is beside the profiles does not touch the balance.                  *)
LEMMA BesideTally == ASSUME NEW g, NEW h, Beside(g, h) PROVE Tally(h) = Tally(g)
BY DEF Beside, Tally, Caused, Received

(* An effect and what is left of it. *)
LeftOf(f, e) ==
    /\ f.id = e.id /\ f.item = e.item /\ f.owner = e.owner /\ f.source = e.source
    /\ f.at = e.at /\ f.magnitude = e.magnitude /\ f.expires = e.expires

(* What a game with other effects is made of.                               *)
LEMMA EffectsFields ==
    ASSUME NEW g, Typed(g), NEW left, left \subseteq ActiveEffect
    PROVE  LET h == [g EXCEPT !.effects = left]
           IN  /\ Typed(h) /\ Beside(g, h) /\ SameSky(g, h) /\ h.lastShooter = g.lastShooter
               /\ h.effects = left /\ h.nextEffect = g.nextEffect /\ h.curses = g.curses
               /\ h.nextCurse = g.nextCurse /\ h.calls = g.calls /\ h.nextCall = g.nextCall
               /\ h.transfers = g.transfers
<1> DEFINE h == [g EXCEPT !.effects = left]
           D == DOMAIN g.players
<1>1. g \in GameState(D)
  BY DEF Typed
<1> HIDE DEF D
<1>2. h \in GameState(D)
  BY <1>1 DEF GameState
<1>3. /\ h.players = g.players /\ h.now = g.now /\ SameSky(g, h)
      /\ h.lastShooter = g.lastShooter
      /\ h.effects = left /\ h.nextEffect = g.nextEffect /\ h.curses = g.curses
      /\ h.nextCurse = g.nextCurse /\ h.calls = g.calls /\ h.nextCall = g.nextCall
      /\ h.transfers = g.transfers
  BY <1>1 DEF GameState, SameSky
<1> QED
  BY <1>2, <1>3 DEF Typed, Beside, D

(* Fewer effects leave a hunter warded.                                     *)
LEMMA WardedOfFewer ==
    ASSUME NEW g, NEW h, NEW n, Warded(g, n), h.players[n].upgrades = g.players[n].upgrades,
           \A f \in h.effects : \E e \in g.effects : LeftOf(f, e),
           \A e, f \in h.effects : e.id = f.id => e = f
    PROVE  Warded(h, n)
<1>1. \A item : Has(h, n, item) => Has(g, n, item)
  <2> SUFFICES ASSUME NEW item, Has(h, n, item) PROVE Has(g, n, item)
    OBVIOUS
  <2>1. PICK f \in h.effects : f.owner = n /\ f.item \in {item}
    BY DEF Has, Owned
  <2>2. PICK e \in g.effects : LeftOf(f, e)
    BY <2>1
  <2> QED
    BY <2>1, <2>2 DEF Has, Owned, LeftOf
<1>2. ASSUME NEW e \in h.effects, NEW f \in h.effects, e.owner = n, f.owner = n,
             f.item \in Group(e.item)
      PROVE  e = f
  <2>1. PICK d \in g.effects : LeftOf(e, d)
    OBVIOUS
  <2>2. PICK c \in g.effects : LeftOf(f, c)
    OBVIOUS
  <2>3. c.item \in Group(d.item) /\ c.owner = n /\ d.owner = n
    BY <1>2, <2>1, <2>2 DEF LeftOf
  <2>4. d = c
    BY <2>3 DEF Warded
  <2>5. e.id = f.id
    BY <2>1, <2>2, <2>4 DEF LeftOf
  <2> QED
    BY <2>5
<1>3. \A e, f \in {x \in h.effects : x.owner = n} : f.item \in Group(e.item) => e = f
  BY <1>2
<1>4. \A item \in {14, 15, 16} :
         PermanentCounter(item) \in h.players[n].upgrades => ~Has(h, n, item)
  BY <1>1 DEF Warded
<1>5. \A item \in {15, 16} : ~(Has(h, n, item) /\ Has(h, n, Counter(item)))
  BY <1>1 DEF Warded
<1> QED
  BY <1>3, <1>4, <1>5 DEF Warded

(* Fewer effects, or less of them, leave the game sound.                    *)
LEMMA FewerSound ==
    ASSUME NEW g, NEW set, Sound(g, set), NEW left, left \subseteq ActiveEffect,
           \A f \in left : ValidEffect(f) /\ \E e \in g.effects : LeftOf(f, e),
           \A e, f \in left : e.id = f.id => e = f
    PROVE  Sound([g EXCEPT !.effects = left], set)
<1> DEFINE h == [g EXCEPT !.effects = left]
<1>1. /\ Typed(h) /\ Beside(g, h) /\ SameSky(g, h) /\ h.lastShooter = g.lastShooter
      /\ h.effects = left /\ h.nextEffect = g.nextEffect /\ h.curses = g.curses
      /\ h.nextCurse = g.nextCurse /\ h.calls = g.calls /\ h.nextCall = g.nextCall
      /\ h.transfers = g.transfers
  BY EffectsFields DEF Sound
<1> HIDE DEF h
<1>2. \A n \in DOMAIN h.players : Warded(h, n)
  BY <1>1, WardedOfFewer DEF Beside, Sound, SoundPlayers
<1>3. SoundPlayers(h, set)
  BY <1>1, <1>2 DEF Beside, Sound, SoundPlayers
<1>4. SoundEffects(h)
  <2>1. ASSUME NEW f \in h.effects
        PROVE  /\ ValidEffect(f) /\ f.id < h.nextEffect
               /\ f.expires = Never \/ f.expires > h.now
               /\ f.owner \in DOMAIN h.players \union {Nobody}
               /\ f.source \in DOMAIN h.players \union {Nobody}
    <3>1. PICK e \in g.effects : LeftOf(f, e)
      BY <1>1, <2>1
    <3> QED
      BY <1>1, <2>1, <3>1 DEF Sound, SoundEffects, LeftOf, Beside
  <2> QED
    BY <1>1, <2>1 DEF SoundEffects
<1>5. SoundFlight(h) /\ ValidTransfers(h)
  BY <1>1 DEF Sound, SoundFlight, Flying, SameSky, Beside, ValidTransfers
<1>6. SoundCurses(h) /\ SoundCalls(h) /\ h.lastShooter \in DOMAIN h.players \union {Nobody}
  BY <1>1 DEF Sound, SoundCurses, SoundCalls, Beside
<1> QED
  BY <1>1, <1>3, <1>4, <1>5, <1>6 DEF Sound, h

(* Effects removed.                                                         *)
LEMMA WithoutSound ==
    ASSUME NEW g, NEW set, Sound(g, set), NEW gone
    PROVE  LET h == Without(g, gone)
           IN  /\ Sound(h, set) /\ Beside(g, h) /\ SameSky(g, h)
               /\ h.effects = g.effects \ gone
               /\ h.calls = g.calls /\ h.nextCall = g.nextCall
<1> DEFINE left == g.effects \ gone
<1>1. left \subseteq ActiveEffect /\ Typed(g)
  BY DEF Sound, Typed, GameState
<1>2. \A f \in left : ValidEffect(f) /\ \E e \in g.effects : LeftOf(f, e)
  BY DEF Sound, SoundEffects, LeftOf
<1>3. \A e, f \in left : e.id = f.id => e = f
  BY DEF Sound, SoundEffects
<1>4. Without(g, gone) = [g EXCEPT !.effects = left]
  BY DEF Without
<1> HIDE DEF left
<1>5. Sound([g EXCEPT !.effects = left], set)
  BY <1>1, <1>2, <1>3, FewerSound
<1> QED
  BY <1>1, <1>4, <1>5, EffectsFields DEF left

(* A use of some effects.                                                   *)
LEMMA ConsumeSound ==
    ASSUME NEW g, NEW set, Sound(g, set), NEW used \in SUBSET g.effects
    PROVE  LET h == Consume(g, used)
           IN  Sound(h, set) /\ Beside(g, h) /\ SameSky(g, h)
<1> DEFINE again == {[e EXCEPT !.uses = e.uses - 1] : e \in {u \in used : u.uses > 1}}
           left == (g.effects \ used) \union again
<1>1. g.effects \subseteq ActiveEffect /\ Typed(g)
  BY DEF Sound, Typed, GameState
<1>2. ASSUME NEW e \in used, e.uses > 1
      PROVE  LET f == [e EXCEPT !.uses = e.uses - 1]
             IN  f \in ActiveEffect /\ LeftOf(f, e) /\ ValidEffect(f)
  <2> DEFINE f == [e EXCEPT !.uses = e.uses - 1]
  <2>1. e \in ActiveEffect /\ e.uses \in Nat
    BY <1>1 DEF ActiveEffect
  <2>2. PICK uses \in Nat : uses = e.uses - 1
    BY <1>2, <2>1
  <2>3. f = [e EXCEPT !.uses = uses]
    BY <2>2
  <2> HIDE DEF f
  <2>4. f \in ActiveEffect /\ LeftOf(f, e) /\ f.uses = uses
    BY <2>1, <2>3 DEF ActiveEffect, LeftOf
  <2>5. ValidEffect(e)
    BY DEF Sound, SoundEffects
  <2>6. UsesOf(e.item) \in Nat
    BY DEF UsesOf
  <2>7. IF UsesOf(f.item) = 0 THEN f.uses = 0 ELSE f.uses \in 1..UsesOf(f.item)
    BY <1>2, <2>1, <2>2, <2>4, <2>5, <2>6 DEF LeftOf, ValidEffect
  <2>8. ValidEffect(f)
    BY <2>4, <2>5, <2>7 DEF LeftOf, ValidEffect
  <2> QED
    BY <2>4, <2>8 DEF f
<1>3. \A f \in left : \/ f \in g.effects \ used
                      \/ \E e \in used : e.uses > 1 /\ f = [e EXCEPT !.uses = e.uses - 1]
  OBVIOUS
<1> DEFINE Made(f, e) == \/ f \in g.effects \ used /\ f = e
                         \/ e \in used /\ f = [e EXCEPT !.uses = e.uses - 1]
<1>4. \A f \in left : \E e \in g.effects : LeftOf(f, e) /\ Made(f, e)
  <2> SUFFICES ASSUME NEW f \in left
               PROVE  \E e \in g.effects : LeftOf(f, e) /\ Made(f, e)
    OBVIOUS
  <2> HIDE DEF left
  <2>1. CASE f \in g.effects \ used
    BY <2>1 DEF LeftOf
  <2>2. CASE f \notin g.effects \ used
    <3>1. PICK e \in used : e.uses > 1 /\ f = [e EXCEPT !.uses = e.uses - 1]
      BY <1>3, <2>2
    <3> QED
      BY <1>2, <3>1
  <2> QED
    BY <2>1, <2>2
<1>5. \A f \in left : f \in ActiveEffect /\ ValidEffect(f)
  <2> HIDE DEF left
  <2> QED
    BY <1>1, <1>2, <1>3 DEF Sound, SoundEffects
<1>6. \A c, d \in g.effects : c.id = d.id => c = d
  BY DEF Sound, SoundEffects
<1>7. \A e, f \in left : e.id = f.id => e = f
  <2> SUFFICES ASSUME NEW e \in left, NEW f \in left, e.id = f.id PROVE e = f
    OBVIOUS
  <2> HIDE DEF left
  <2>1. PICK c \in g.effects : LeftOf(e, c) /\ Made(e, c)
    BY <1>4
  <2>2. PICK d \in g.effects : LeftOf(f, d) /\ Made(f, d)
    BY <1>4
  <2>3. c.id = d.id
    BY <2>1, <2>2 DEF LeftOf
  <2>4. c = d
    BY <1>6, <2>3
  <2> QED
    BY <2>1, <2>2, <2>4
<1>8. Consume(g, used) = [g EXCEPT !.effects = left]
  BY DEF Consume
<1> HIDE DEF left
<1>9. left \subseteq ActiveEffect
  BY <1>5
<1>10. Sound([g EXCEPT !.effects = left], set)
  BY <1>4, <1>5, <1>7, <1>9, FewerSound
<1> QED
  BY <1>1, <1>8, <1>9, <1>10, EffectsFields

(* A use of the effects of one kind.                                        *)
LEMMA TakeSound ==
    ASSUME NEW g, NEW set, Sound(g, set), NEW n, NEW item
    PROVE  LET h == Take(g, n, item)
           IN  Sound(h, set) /\ Beside(g, h) /\ SameSky(g, h)
<1>1. Owned(g, n, {item}) \in SUBSET g.effects
  BY DEF Owned
<1> QED
  BY <1>1, ConsumeSound DEF Take

Items == 1..31 \union 101..118

(* Exclusive items exclude each other.                                      *)
LEMMA GroupsAreSymmetric ==
    \A a, b \in Items : /\ a \in Group(a)
                        /\ a \in Group(b) => b \in Group(a)
BY DEF Items, Group, Promotions

(* What the three nuisances that can be warded off are stopped by.          *)
LEMMA CountersAre ==
    /\ Counter(15) = 6 /\ Counter(16) = 26
    /\ PermanentCounter(14) = "sunglasses" /\ PermanentCounter(15) = "lubricant"
    /\ PermanentCounter(16) = "raincoat"
BY DEF Counter, PermanentCounter

(* What Activate asks of the amount, the sender and the hunter's effects. *)
FitsItem(item, source, magnitude, at) ==
    /\ item \in Items /\ magnitude \in Nat
    /\ CASE item = 7 -> magnitude \in 0..15
         [] item = 10 -> magnitude \in 1..10
         [] item = 28 -> magnitude \in 0..600
         [] item = 21 -> magnitude \in at+1..at+Hour-1
         [] item \in Promotions -> magnitude = PromotionOf(item)
         [] OTHER -> magnitude = 0
    /\ Kind(item) = "target" <=> source # Nobody
MayHave(g, n, item) ==
    /\ \A e \in g.effects : e.owner = n => e.item \notin Group(item)
    /\ item \in {14, 15, 16} => PermanentCounter(item) \notin g.players[n].upgrades
    /\ item \in {15, 16} => ~Has(g, n, Counter(item))
    /\ item = 6 => ~Has(g, n, 15)
    /\ item = 26 => ~Has(g, n, 16)

NewEffect(g, n, item, source, magnitude) ==
    [id |-> g.nextEffect, item |-> item, owner |-> n, source |-> source,
     at |-> g.now, uses |-> UsesOf(item), magnitude |-> magnitude,
     expires |-> IF Duration(item) = Never THEN Never ELSE g.now + Duration(item)]

(* A new effect is one the catalog accepts.                                 *)
LEMMA NewEffectFits ==
    ASSUME NEW g, Typed(g), NEW n \in DOMAIN g.players \union {Nobody},
           NEW source \in DOMAIN g.players \union {Nobody}, NEW item, NEW magnitude,
           FitsItem(item, source, magnitude, g.now)
    PROVE  LET e == NewEffect(g, n, item, source, magnitude)
           IN  /\ e \in ActiveEffect /\ ValidEffect(e) /\ e.id = g.nextEffect
               /\ e.owner = n /\ e.item = item /\ e.source = source
               /\ e.expires = Never \/ e.expires > g.now
<1> DEFINE e == NewEffect(g, n, item, source, magnitude)
           over == IF Duration(item) = Never THEN Never ELSE g.now + Duration(item)
<1>1. g.now \in Nat /\ g.nextEffect \in Nat /\ n \in Hunters \union {Nobody}
      /\ source \in Hunters \union {Nobody}
  BY DEF Typed, GameState
<1>2. item \in Items /\ magnitude \in Nat
  BY DEF FitsItem
<1>3. UsesOf(item) \in Nat /\ (Duration(item) = Never \/ Duration(item) \in Nat \ {0})
      /\ Duration(21) = Hour /\ Hour \in Nat /\ Never = -1 /\ Duration(21) # Never
  BY DEF UsesOf, Duration, Day, Hour, Minute, Never, Promotions
<1>4. over \in Int /\ (over = Never \/ over > g.now)
  BY <1>1, <1>3
<1>5. /\ e.id = g.nextEffect /\ e.item = item /\ e.owner = n /\ e.source = source
      /\ e.at = g.now /\ e.uses = UsesOf(item) /\ e.magnitude = magnitude /\ e.expires = over
  BY DEF NewEffect
<1>6. e \in ActiveEffect
  <2>1. PICK uses \in Nat, end \in Int : uses = UsesOf(item) /\ end = over
    BY <1>3, <1>4
  <2>2. e = [id |-> g.nextEffect, item |-> item, owner |-> n, source |-> source,
             at |-> g.now, uses |-> uses, magnitude |-> magnitude, expires |-> end]
    BY <2>1 DEF NewEffect
  <2> HIDE DEF e, over
  <2> QED
    BY <1>1, <1>2, <2>2 DEF ActiveEffect, Items
<1>7. ValidEffect(e)
  <2> HIDE DEF e
  <2>1. e.expires = (IF Duration(e.item) = Never THEN Never ELSE e.at + Duration(e.item))
    BY <1>5
  <2>2. IF UsesOf(e.item) = 0 THEN e.uses = 0 ELSE e.uses \in 1..UsesOf(e.item)
    BY <1>3, <1>5
  <2>3. item = 21 => e.expires = g.now + Hour
    BY <1>3, <1>5
  <2>4. (CASE e.item = 7 -> e.magnitude \in 0..15
          [] e.item = 10 -> e.magnitude \in 1..10
          [] e.item = 28 -> e.magnitude \in 0..600
          [] e.item = 21 -> e.magnitude \in e.at+1..e.expires-1
          [] e.item \in Promotions -> e.magnitude = PromotionOf(e.item)
          [] OTHER -> e.magnitude = 0)
    <3> HIDE DEF over
    <3>1. e.item = item /\ e.magnitude = magnitude /\ e.at = g.now
      BY <1>5
    <3>2. CASE item = 21
      <4>1. magnitude \in g.now+1..g.now+Hour-1
        BY <3>2 DEF FitsItem, Promotions
      <4>2. e.magnitude \in e.at+1..e.expires-1
        BY <1>1, <1>2, <1>3, <2>3, <3>1, <3>2, <4>1
      <4>3. e.item = 21 /\ e.item # 7 /\ e.item # 10 /\ e.item # 28 /\ e.item \notin Promotions
        BY <3>1, <3>2 DEF Promotions
      <4> QED
        BY <4>2, <4>3
    <3>3. CASE item \in Promotions
      BY <3>1, <3>3 DEF FitsItem, Promotions
    <3>4. CASE item \in {7, 10, 28}
      BY <3>1, <3>4 DEF FitsItem, Promotions
    <3>5. CASE item \notin {7, 10, 21, 28} \union Promotions
      BY <3>1, <3>5 DEF FitsItem, Promotions
    <3> QED
      BY <3>2, <3>3, <3>4, <3>5
  <2>5. Kind(e.item) = "target" <=> e.source # Nobody
    BY <1>5 DEF FitsItem
  <2> QED
    BY <2>1, <2>2, <2>4, <2>5 DEF ValidEffect
<1> QED
  BY <1>4, <1>5, <1>6, <1>7

(* A hunter gets an effect he may have.                                     *)
LEMMA ActivateSound ==
    ASSUME NEW g, NEW set, Sound(g, set), NEW n \in DOMAIN g.players \union {Nobody},
           NEW source \in DOMAIN g.players \union {Nobody}, NEW item, NEW magnitude,
           FitsItem(item, source, magnitude, g.now),
           n = Nobody \/ MayHave(g, n, item)
    PROVE  LET h == Activate(g, n, item, source, magnitude)
           IN  Sound(h, set) /\ Beside(g, h) /\ SameSky(g, h)
<1> DEFINE h == Activate(g, n, item, source, magnitude)
           e == NewEffect(g, n, item, source, magnitude)
           D == DOMAIN g.players
<1>1. Typed(g) /\ g \in GameState(D) /\ g.nextEffect \in Nat /\ g.now \in Nat
  BY DEF Sound, Typed, GameState
<1>2. /\ e \in ActiveEffect /\ ValidEffect(e) /\ e.id = g.nextEffect
      /\ e.owner = n /\ e.item = item /\ e.source = source
      /\ e.expires = Never \/ e.expires > g.now
  BY <1>1, NewEffectFits
<1>3. h = [g EXCEPT !.effects = g.effects \union {e}, !.nextEffect = g.nextEffect + 1]
  BY <1>1 DEF Activate, NewEffect, GameState
<1>4. PICK next \in Nat : next = g.nextEffect + 1
  BY <1>1
<1> DEFINE more == g.effects \union {e}
<1>5. more \subseteq ActiveEffect
  BY <1>1, <1>2 DEF GameState
<1>6. h = [g EXCEPT !.effects = more, !.nextEffect = next]
  BY <1>3, <1>4
<1> HIDE DEF e, h, D, more
<1>7. h \in GameState(D)
  BY <1>1, <1>5, <1>6 DEF GameState
<1>8. /\ h.players = g.players /\ h.now = g.now /\ SameSky(g, h)
      /\ h.lastShooter = g.lastShooter
      /\ h.effects = more /\ h.nextEffect = next /\ h.curses = g.curses
      /\ h.nextCurse = g.nextCurse /\ h.calls = g.calls /\ h.nextCall = g.nextCall
      /\ h.transfers = g.transfers
  BY <1>1, <1>6 DEF GameState, SameSky
<1>9. Typed(h) /\ Beside(g, h)
  BY <1>1, <1>7, <1>8 DEF Typed, Beside, D
<1>10. h.effects = g.effects \union {e}
  BY <1>8 DEF more
<1>11. SoundEffects(h)
  <2>1. \A f \in g.effects :
           /\ ValidEffect(f) /\ f.id < g.nextEffect /\ (f.expires = Never \/ f.expires > g.now)
           /\ f.owner \in DOMAIN g.players \union {Nobody}
           /\ f.source \in DOMAIN g.players \union {Nobody} /\ f.id \in Nat
    BY <1>1 DEF Sound, SoundEffects, GameState, ActiveEffect
  <2>2. \A f \in h.effects :
           /\ ValidEffect(f) /\ f.id < h.nextEffect /\ (f.expires = Never \/ f.expires > h.now)
           /\ f.owner \in DOMAIN h.players \union {Nobody}
           /\ f.source \in DOMAIN h.players \union {Nobody}
    BY <1>1, <1>2, <1>4, <1>8, <1>10, <2>1
  <2>3. \A f \in g.effects : f.id # e.id
    BY <1>1, <1>2, <2>1
  <2>4. \A f, d \in g.effects : f.id = d.id => f = d
    BY DEF Sound, SoundEffects
  <2>5. \A f, d \in h.effects : f.id = d.id => f = d
    BY <1>10, <2>3, <2>4
  <2> QED
    BY <2>2, <2>5 DEF SoundEffects
<1>12. ASSUME NEW m \in DOMAIN g.players PROVE Warded(h, m)
  <2>1. Warded(g, m) /\ m \in Hunters
    BY <1>1 DEF Sound, SoundPlayers, Typed
  <2>2. CASE m # n
    <3>1. \A f : f \in h.effects /\ f.owner = m <=> f \in g.effects /\ f.owner = m
      BY <1>2, <1>10, <2>2
    <3>2. \A x : Has(h, m, x) <=> Has(g, m, x)
      BY <3>1 DEF Has, Owned
    <3> QED
      BY <1>8, <2>1, <3>1, <3>2 DEF Warded
  <2>3. CASE m = n
    <3>1. MayHave(g, n, item) /\ item \in Items
      BY <2>1, <2>3, NobodyHunts DEF FitsItem
    <3>2. \A x : Has(h, n, x) => x = item \/ Has(g, n, x)
      BY <1>2, <1>10 DEF Has, Owned
    <3>3. \A x \in {14, 15, 16} :
             PermanentCounter(x) \in h.players[n].upgrades => ~Has(h, n, x)
      BY <1>8, <2>1, <2>3, <3>1, <3>2 DEF Warded, MayHave
    <3>4. \A x \in {15, 16} : ~(Has(h, n, x) /\ Has(h, n, Counter(x)))
      BY <2>1, <2>3, <3>1, <3>2, CountersAre DEF Warded, MayHave
    <3>5. \A f \in g.effects : f.owner = n => f.item \in Items /\ f.item \notin Group(item)
      BY <1>1, <3>1 DEF MayHave, GameState, ActiveEffect, Items
    <3>6. \A f \in g.effects : f.owner = n => item \notin Group(f.item)
      BY <3>1, <3>5, GroupsAreSymmetric
    <3>7. \A c, d \in {x \in g.effects : x.owner = n} : d.item \in Group(c.item) => c = d
      BY <2>1, <2>3 DEF Warded
    <3>8. \A c, d \in {x \in h.effects : x.owner = n} : d.item \in Group(c.item) => c = d
      BY <1>2, <1>10, <3>5, <3>6, <3>7
    <3> QED
      BY <2>3, <3>3, <3>4, <3>8 DEF Warded
  <2> QED
    BY <2>2, <2>3
<1>13. SoundPlayers(h, set)
  BY <1>8, <1>12 DEF Sound, SoundPlayers
<1>14. SoundFlight(h) /\ ValidTransfers(h)
  BY <1>8 DEF Sound, SoundFlight, Flying, SameSky, ValidTransfers
<1>15. SoundCurses(h) /\ SoundCalls(h) /\ h.lastShooter \in DOMAIN h.players \union {Nobody}
  BY <1>8 DEF Sound, SoundCurses, SoundCalls
<1> QED
  BY <1>8, <1>9, <1>11, <1>13, <1>14, <1>15 DEF Sound, h

(* What is neither a profile nor an effect may change if it is sound.       *)
LEMMA ElsewhereSound ==
    ASSUME NEW g, NEW set, Sound(g, set), NEW h, Typed(h), Beside(g, h),
           h.effects = g.effects, h.nextEffect = g.nextEffect,
           SoundFlight(h), SoundCurses(h), SoundCalls(h), ValidTransfers(h),
           h.lastShooter \in DOMAIN h.players \union {Nobody}
    PROVE  Sound(h, set)
<1>1. \A n \in DOMAIN h.players : Warded(h, n)
  BY DEF Beside, Sound, SoundPlayers, Warded, Has, Owned
<1>2. SoundPlayers(h, set)
  BY <1>1 DEF Beside, Sound, SoundPlayers
<1>3. SoundEffects(h)
  BY DEF Beside, Sound, SoundEffects
<1> QED
  BY <1>2, <1>3 DEF Sound

(* Curses that come and go.                                                 *)
LEMMA CursesSound ==
    ASSUME NEW g, NEW set, Sound(g, set), NEW curses, curses \subseteq ActiveCurse,
           NEW next \in Nat,
           LET h == [g EXCEPT !.curses = curses, !.nextCurse = next] IN SoundCurses(h)
    PROVE  LET h == [g EXCEPT !.curses = curses, !.nextCurse = next]
           IN  Sound(h, set) /\ Beside(g, h) /\ SameSky(g, h)
<1> DEFINE h == [g EXCEPT !.curses = curses, !.nextCurse = next]
           D == DOMAIN g.players
<1>1. Typed(g) /\ g \in GameState(D)
  BY DEF Sound, Typed
<1>2. SoundCurses(h)
  OBVIOUS
<1> HIDE DEF D, h
<1>3. /\ h \in GameState(D) /\ h.players = g.players /\ h.now = g.now
      /\ SameSky(g, h) /\ h.lastShooter = g.lastShooter
      /\ h.effects = g.effects /\ h.nextEffect = g.nextEffect
      /\ h.calls = g.calls /\ h.nextCall = g.nextCall /\ h.transfers = g.transfers
  BY <1>1 DEF GameState, SameSky, h
<1>4. Typed(h) /\ Beside(g, h)
  BY <1>1, <1>3 DEF Typed, Beside, D
<1>5. SoundFlight(h) /\ ValidTransfers(h) /\ SoundCalls(h)
      /\ h.lastShooter \in DOMAIN h.players \union {Nobody}
  BY <1>3 DEF Sound, SoundFlight, Flying, SameSky, ValidTransfers, SoundCalls
<1>6. Sound(h, set)
  BY <1>2, <1>3, <1>4, <1>5, ElsewhereSound
<1> QED
  BY <1>3, <1>4, <1>6 DEF h

(* A call that is scheduled.                                                *)
LEMMA CallsSound ==
    ASSUME NEW g, NEW set, Sound(g, set), NEW item \in Nat,
           NEW source \in DOMAIN g.players \union {Nobody}, NEW due \in Nat
    PROVE  LET h == AddCall(g, item, source, due)
           IN  Sound(h, set) /\ Beside(g, h) /\ SameSky(g, h)
<1> DEFINE h == AddCall(g, item, source, due)
           D == DOMAIN g.players
           call == [id |-> g.nextCall, item |-> item, source |-> source, due |-> due]
           calls == g.calls \union {call}
<1>1. Typed(g) /\ g \in GameState(D) /\ g.nextCall \in Nat /\ D \subseteq Hunters
      /\ g.calls \subseteq ScheduledCall
  BY DEF Sound, Typed, GameState
<1>2. call \in ScheduledCall /\ call.id = g.nextCall /\ call.source = source
  BY <1>1 DEF ScheduledCall
<1>3. PICK next \in Nat : next = g.nextCall + 1
  BY <1>1
<1>4. h = [g EXCEPT !.calls = calls, !.nextCall = next]
  BY <1>1, <1>3 DEF AddCall, GameState
<1> HIDE DEF call
<1>5. calls \subseteq ScheduledCall
  BY <1>1, <1>2
<1> HIDE DEF D, h, calls
<1>6. /\ h \in GameState(D) /\ h.players = g.players /\ h.now = g.now
      /\ SameSky(g, h) /\ h.lastShooter = g.lastShooter
      /\ h.effects = g.effects /\ h.nextEffect = g.nextEffect
      /\ h.curses = g.curses /\ h.nextCurse = g.nextCurse /\ h.transfers = g.transfers
      /\ h.calls = calls /\ h.nextCall = next
  BY <1>1, <1>4, <1>5 DEF GameState, SameSky
<1>7. Typed(h) /\ Beside(g, h)
  BY <1>1, <1>6 DEF Typed, Beside, D
<1>8. SoundFlight(h) /\ ValidTransfers(h) /\ SoundCurses(h)
      /\ h.lastShooter \in DOMAIN h.players \union {Nobody}
  BY <1>6 DEF Sound, SoundFlight, Flying, SameSky, ValidTransfers, SoundCurses
<1>9. SoundCalls(h)
  <2>1. \A c \in g.calls : c.id < g.nextCall /\ c.source \in D \union {Nobody} /\ c.id \in Nat
    BY <1>1 DEF Sound, SoundCalls, ScheduledCall, D
  <2>2. \A c, d \in g.calls : c.id = d.id => c = d
    BY DEF Sound, SoundCalls
  <2>3. \A c \in h.calls : c \in g.calls \/ c = call
    BY <1>6 DEF calls
  <2>4. \A c \in h.calls : c.id < h.nextCall /\ c.source \in DOMAIN h.players \union {Nobody}
    BY <1>1, <1>2, <1>3, <1>6, <2>1, <2>3 DEF D
  <2>5. \A c, d \in h.calls : c.id = d.id => c = d
    BY <1>1, <1>2, <2>1, <2>2, <2>3
  <2> QED
    BY <2>4, <2>5 DEF SoundCalls
<1>10. Sound(h, set)
  BY <1>6, <1>7, <1>8, <1>9, ElsewhereSound
<1> QED
  BY <1>6, <1>7, <1>10 DEF h

(* The last shooter is somebody known.                                      *)
LEMMA ShooterSound ==
    ASSUME NEW g, NEW set, Sound(g, set), NEW n \in DOMAIN g.players
    PROVE  LET h == [g EXCEPT !.lastShooter = n]
           IN  Sound(h, set) /\ Beside(g, h) /\ SameSky(g, h)
<1> DEFINE h == [g EXCEPT !.lastShooter = n]
           D == DOMAIN g.players
<1>1. Typed(g) /\ g \in GameState(D) /\ n \in Hunters
  BY DEF Sound, Typed
<1> HIDE DEF D, h
<1>2. /\ h \in GameState(D) /\ h.players = g.players /\ h.now = g.now
      /\ SameSky(g, h) /\ h.lastShooter = n
      /\ h.effects = g.effects /\ h.nextEffect = g.nextEffect
      /\ h.curses = g.curses /\ h.nextCurse = g.nextCurse
      /\ h.calls = g.calls /\ h.nextCall = g.nextCall /\ h.transfers = g.transfers
  BY <1>1 DEF GameState, SameSky, h
<1>3. Typed(h) /\ Beside(g, h)
  BY <1>1, <1>2 DEF Typed, Beside, D
<1>4. SoundFlight(h) /\ ValidTransfers(h) /\ SoundCurses(h) /\ SoundCalls(h)
      /\ h.lastShooter \in DOMAIN h.players \union {Nobody}
  BY <1>2 DEF Sound, SoundFlight, Flying, SameSky, ValidTransfers, SoundCurses,
              SoundCalls
<1>5. Sound(h, set)
  BY <1>2, <1>3, <1>4, ElsewhereSound
<1> QED
  BY <1>2, <1>3, <1>5 DEF h

FlightRecord == [id : Nat, spawned : Nat, expires : Nat, kind : FlightKind, health : Int,
                 reward : Nat, noisy : Nat]
LastRecord == [id : Nat, spawned : Nat, ended : Nat, hit : BOOLEAN]

(* The flight in the air, and the last one, as SoundFlight wants them. *)
SkyFits(g, flight, last) ==
    /\ flight \in FlightRecord /\ last \in LastRecord
    /\ flight # NoFlight => /\ flight.expires > g.now /\ flight.health >= 1
                            /\ flight.spawned <= g.now
                            /\ flight.id > last.id /\ flight.id < g.nextFlight
    /\ last.ended <= g.now /\ last.id < g.nextFlight

(* A command ends the flight it finds, or leaves it up; it launches none.   *)
SkyGoes(g, h) ==
    /\ Flying(h) => Flying(g) /\ h.flight.spawned = g.flight.spawned
    /\ h.last = g.last \/ /\ Flying(g) /\ h.last.spawned = g.flight.spawned
                          /\ h.last.ended = g.now

WithSky(g, flight, last) == [g EXCEPT !.flight = flight, !.last = last]

(* A flight replaced by one that fits.                                      *)
LEMMA SkySound ==
    ASSUME NEW g, NEW set, Sound(g, set), NEW flight, NEW last, SkyFits(g, flight, last)
    PROVE  LET h == WithSky(g, flight, last)
           IN  /\ Sound(h, set) /\ Beside(g, h) /\ h.flight = flight /\ h.last = last
               /\ h.nextFlight = g.nextFlight /\ h.effects = g.effects
<1> DEFINE h == WithSky(g, flight, last)
           D == DOMAIN g.players
<1>1. Typed(g) /\ g \in GameState(D) /\ g.nextFlight \in Nat
  BY DEF Sound, Typed, GameState
<1> HIDE DEF D, h
<1>2. /\ h.players = g.players /\ h.now = g.now /\ h.flight = flight /\ h.last = last
      /\ h.nextFlight = g.nextFlight /\ h.lastShooter = g.lastShooter
      /\ h.effects = g.effects /\ h.nextEffect = g.nextEffect
      /\ h.curses = g.curses /\ h.nextCurse = g.nextCurse
      /\ h.calls = g.calls /\ h.nextCall = g.nextCall /\ h.transfers = g.transfers
  BY <1>1 DEF GameState, h, WithSky
<1>3. h \in GameState(D)
  BY <1>1 DEF GameState, h, WithSky, FlightRecord, LastRecord, SkyFits
<1>4. Typed(h) /\ Beside(g, h)
  BY <1>1, <1>2, <1>3 DEF Typed, Beside, D
<1>5. SoundFlight(h)
  <2>1. /\ flight.id \in Nat /\ last.id \in Nat /\ flight.spawned \in Nat
        /\ flight.expires \in Nat /\ g.now \in Nat
    BY <1>1 DEF FlightRecord, LastRecord, SkyFits, GameState
  <2> QED
    BY <1>1, <1>2, <2>1 DEF SkyFits, SoundFlight, Flying
<1>6. ValidTransfers(h) /\ SoundCurses(h) /\ SoundCalls(h)
      /\ h.lastShooter \in DOMAIN h.players \union {Nobody}
  BY <1>2 DEF Sound, ValidTransfers, SoundCurses, SoundCalls
<1>7. Sound(h, set)
  BY <1>2, <1>4, <1>5, <1>6, ElsewhereSound
<1> QED
  BY <1>2, <1>4, <1>7 DEF h

(* What is in the sky of a sound game.                                      *)
LEMMA SkyIs ==
    ASSUME NEW g, NEW set, Sound(g, set)
    PROVE  /\ g.flight \in FlightRecord /\ g.last \in LastRecord /\ g.now \in Nat
           /\ g.nextFlight \in Nat /\ SoundFlight(g)
           /\ NoFlight \in FlightRecord /\ NoFlight.expires = 0
<1>1. NoFlight \in FlightRecord /\ NoFlight.expires = 0
  <2>1. PICK none \in Nat, hurt \in Int, kind \in FlightKind :
           none = 0 /\ hurt = 0 /\ kind = "standard"
    BY DEF FlightKind
  <2>2. NoFlight = [id |-> none, spawned |-> none, expires |-> none, kind |-> kind,
                    health |-> hurt, reward |-> none, noisy |-> none]
    BY <2>1 DEF NoFlight
  <2>3. NoFlight \in FlightRecord
    BY <2>2 DEF FlightRecord
  <2>4. NoFlight.expires = 0
    BY DEF NoFlight
  <2> QED
    BY <2>3, <2>4
<1>2. g \in GameState(DOMAIN g.players) /\ SoundFlight(g)
  BY DEF Sound, Typed
<1> QED
  BY <1>1, <1>2 DEF GameState, FlightRecord, LastRecord

(* A flight ends.                                                           *)
LEMMA EndFlightSound ==
    ASSUME NEW g, NEW set, Sound(g, set), Flying(g), NEW hit \in BOOLEAN
    PROVE  LET h == EndFlight(g, hit)
           IN  /\ Sound(h, set) /\ Beside(g, h) /\ h.flight = NoFlight /\ h.effects = g.effects
               /\ SkyGoes(g, h)
<1> DEFINE last == [id |-> g.flight.id, spawned |-> g.flight.spawned, ended |-> g.now,
                    hit |-> hit]
<1>1. /\ g.flight \in FlightRecord /\ g.last \in LastRecord /\ g.now \in Nat
      /\ g.nextFlight \in Nat /\ SoundFlight(g) /\ NoFlight \in FlightRecord
  BY SkyIs
<1>2. /\ last \in LastRecord /\ last.id = g.flight.id /\ last.ended = g.now
      /\ last.spawned = g.flight.spawned
  BY <1>1 DEF LastRecord, FlightRecord
<1>3. last.ended <= g.now /\ last.id < g.nextFlight
  <2>1. g.flight.id \in Nat /\ g.last.id \in Nat
    BY <1>1 DEF LastRecord, FlightRecord
  <2> HIDE DEF last
  <2> QED
    BY <1>1, <1>2, <2>1 DEF SoundFlight
<1>4. EndFlight(g, hit) = WithSky(g, NoFlight, last)
  BY DEF EndFlight, WithSky
<1> HIDE DEF last
<1>5. SkyFits(g, NoFlight, last)
  BY <1>1, <1>2, <1>3 DEF SkyFits
<1> QED
  BY <1>2, <1>4, <1>5, SkySound DEF SkyGoes, Flying

(* A flight that stays up, heard or hurt. *)
LEMMA FlightSound ==
    ASSUME NEW g, NEW set, Sound(g, set), NEW flight \in FlightRecord,
           flight.expires = g.flight.expires, flight.id = g.flight.id,
           flight.spawned = g.flight.spawned, Flying(g), flight.health >= 1
    PROVE  LET h == [g EXCEPT !.flight = flight]
           IN  Sound(h, set) /\ Beside(g, h) /\ h.flight = flight /\ SkyGoes(g, h)
<1>1. /\ g.last \in LastRecord /\ g.now \in Nat /\ g.nextFlight \in Nat /\ SoundFlight(g)
  BY SkyIs
<1>2. g.last.id \in Nat /\ flight.id \in Nat
  BY <1>1 DEF LastRecord, FlightRecord
<1>3. [g EXCEPT !.flight = flight] = WithSky(g, flight, g.last)
  <2>1. g \in GameState(DOMAIN g.players)
    BY DEF Sound, Typed
  <2> QED
    BY <2>1 DEF GameState, WithSky
<1>4. /\ flight.expires > g.now /\ flight.id > g.last.id /\ flight.id < g.nextFlight
      /\ flight.spawned <= g.now /\ g.last.ended <= g.now /\ g.last.id < g.nextFlight
  BY <1>1, <1>2 DEF SoundFlight
<1>5. SkyFits(g, flight, g.last)
  BY <1>1, <1>4 DEF SkyFits
<1> QED
  BY <1>3, <1>5, SkySound DEF SkyGoes

(* A flight hears a miss.                                                   *)
LEMMA HeardSound ==
    ASSUME NEW g, NEW set, Sound(g, set), Flying(g)
    PROVE  LET h == [g EXCEPT !.flight.noisy = @ + 1]
           IN  Sound(h, set) /\ Beside(g, h) /\ Flying(h) /\ SkyGoes(g, h)
<1> DEFINE flight == [g.flight EXCEPT !.noisy = g.flight.noisy + 1]
<1>1. g.flight \in FlightRecord /\ g \in GameState(DOMAIN g.players) /\ SoundFlight(g)
      /\ g.now \in Nat
  BY SkyIs DEF Sound, Typed
<1>2. PICK noisy \in Nat : noisy = g.flight.noisy + 1
  BY <1>1 DEF FlightRecord
<1>3. flight = [g.flight EXCEPT !.noisy = noisy]
  BY <1>2
<1>4. [g EXCEPT !.flight.noisy = @ + 1] = [g EXCEPT !.flight = flight]
  BY <1>1 DEF GameState
<1> HIDE DEF flight
<1>5. /\ flight \in FlightRecord /\ flight.expires = g.flight.expires /\ flight.id = g.flight.id
      /\ flight.health = g.flight.health /\ flight.spawned = g.flight.spawned
  BY <1>1, <1>3 DEF FlightRecord
<1>6. g.flight.health >= 1 /\ g.flight.expires > g.now /\ g.flight.expires \in Nat
  BY <1>1 DEF SoundFlight, FlightRecord
<1>7. flight # NoFlight
  BY <1>1, <1>5, <1>6, SkyIs
<1> QED
  BY <1>4, <1>5, <1>6, <1>7, FlightSound DEF Flying

(* A flight survives a shot.                                                *)
LEMMA HurtSound ==
    ASSUME NEW g, NEW set, Sound(g, set), Flying(g), NEW damage \in Nat, damage < g.flight.health
    PROVE  LET h == [g EXCEPT !.flight.health = @ - damage]
           IN  Sound(h, set) /\ Beside(g, h) /\ SkyGoes(g, h)
<1> DEFINE flight == [g.flight EXCEPT !.health = g.flight.health - damage]
<1>1. g.flight \in FlightRecord /\ g \in GameState(DOMAIN g.players)
  BY SkyIs DEF Sound, Typed
<1>2. PICK health \in Int : health = g.flight.health - damage /\ health >= 1
  BY <1>1 DEF FlightRecord
<1>3. flight = [g.flight EXCEPT !.health = health]
  BY <1>2
<1>4. [g EXCEPT !.flight.health = @ - damage] = [g EXCEPT !.flight = flight]
  BY <1>1 DEF GameState
<1> HIDE DEF flight
<1>5. /\ flight \in FlightRecord /\ flight.expires = g.flight.expires /\ flight.id = g.flight.id
      /\ flight.health = health /\ flight.spawned = g.flight.spawned
  BY <1>1, <1>3 DEF FlightRecord
<1> QED
  BY <1>2, <1>4, <1>5, FlightSound

(* A flight starts.                                                         *)
LEMMA TakeOffSound ==
    ASSUME NEW g, NEW set, Sound(g, set), NEW kind \in FlightKind, NEW health \in Nat \ {0}
    PROVE  LET h == TakeOff(g, kind, health)
           IN  Sound(h, set) /\ Beside(g, h) /\ h.last = g.last
<1> DEFINE h == TakeOff(g, kind, health)
           D == DOMAIN g.players
           over == g.now + Lifetime + (IF Breads(g) = {} THEN 0 ELSE 20)
           reward == Reward(kind, health)
           gone == Eaten(g) \union {e \in g.effects : e.item = 22}
           k == Without(g, gone)
           calls == g.calls \ Answered(g, kind)
<1>1. /\ g \in GameState(D) /\ D \subseteq Hunters /\ SoundFlight(g) /\ g.nextFlight \in Nat
      /\ g.now \in Nat /\ g.last \in LastRecord /\ g.calls \subseteq ScheduledCall
  BY SkyIs DEF Sound, Typed, GameState
<1>2. PICK expires \in Nat, paid \in Nat, next \in Nat :
         /\ expires = over /\ expires > g.now /\ paid = reward /\ next = g.nextFlight + 1
  <2>1. over \in Nat /\ over > g.now
    BY <1>1 DEF Lifetime, Minute
  <2>2. reward \in Nat
    BY DEF Reward
  <2> HIDE DEF over, reward
  <2> QED
    BY <1>1, <2>1, <2>2
<1>3. Sound(k, set) /\ Beside(g, k) /\ SameSky(g, k) /\ k.effects = g.effects \ gone
      /\ k.calls = g.calls /\ k.nextCall = g.nextCall
  BY WithoutSound
<1> DEFINE flight == [id |-> g.nextFlight, spawned |-> g.now, kind |-> kind,
                      expires |-> expires, health |-> health, reward |-> paid, noisy |-> 0]
<1>4. k = [g EXCEPT !.effects = g.effects \ gone]
  BY DEF Without
<1>5. h = [k EXCEPT !.flight = flight, !.nextFlight = next, !.calls = calls]
  <2>1. {e \in g.effects \ Eaten(g) : e.item # 22} = g.effects \ gone
    OBVIOUS
  <2>2. h = [g EXCEPT !.flight = flight, !.nextFlight = next, !.effects = g.effects \ gone,
                      !.calls = calls]
    BY <1>1, <1>2, <2>1 DEF TakeOff, GameState
  <2> HIDE DEF flight, calls, gone, k, h
  <2> QED
    BY <1>1, <1>4, <2>2 DEF GameState
<1>6. /\ flight \in FlightRecord /\ flight.expires = expires /\ flight.health = health
      /\ flight.id = g.nextFlight /\ flight.spawned = g.now
  BY <1>1 DEF FlightRecord
<1>7. calls \subseteq ScheduledCall /\ calls \subseteq g.calls
  BY <1>1
<1>8. k \in GameState(D) /\ k.calls = g.calls /\ k.nextCall = g.nextCall
  <2> HIDE DEF k
  <2> QED
    BY <1>3 DEF Sound, Typed, Beside
<1> HIDE DEF D, h, k, flight, calls, gone
<1>9. /\ h \in GameState(D) /\ h.players = k.players /\ h.now = k.now
      /\ h.flight = flight /\ h.nextFlight = next /\ h.last = k.last
      /\ h.lastShooter = k.lastShooter /\ h.effects = k.effects /\ h.nextEffect = k.nextEffect
      /\ h.curses = k.curses /\ h.nextCurse = k.nextCurse /\ h.transfers = k.transfers
      /\ h.calls = calls /\ h.nextCall = k.nextCall
  <2>1. h \in GameState(D)
    BY <1>5, <1>6, <1>7, <1>8 DEF GameState, FlightRecord
  <2>2. /\ h.players = k.players /\ h.now = k.now
        /\ h.flight = flight /\ h.nextFlight = next /\ h.last = k.last
        /\ h.lastShooter = k.lastShooter /\ h.effects = k.effects /\ h.nextEffect = k.nextEffect
        /\ h.curses = k.curses /\ h.nextCurse = k.nextCurse /\ h.transfers = k.transfers
        /\ h.calls = calls /\ h.nextCall = k.nextCall
    BY <1>5, <1>8 DEF GameState
  <2> QED
    BY <2>1, <2>2
<1>10. Typed(h) /\ Beside(k, h) /\ Beside(g, h)
  BY <1>1, <1>3, <1>9 DEF Typed, Beside, D
<1>11. SoundFlight(h)
  <2>1. g.last.id \in Nat /\ g.last.id < g.nextFlight /\ g.last.ended <= g.now
    BY <1>1 DEF SoundFlight, LastRecord
  <2>2. h.flight.id \in h.last.id+1..h.nextFlight-1
    BY <1>1, <1>2, <1>3, <1>6, <1>9, <2>1 DEF SameSky
  <2> QED
    BY <1>1, <1>2, <1>3, <1>6, <1>9, <2>1, <2>2 DEF SoundFlight, SameSky, Beside
<1>12. SoundCalls(h)
  <2>1. SoundCalls(k)
    BY <1>3 DEF Sound
  <2> QED
    BY <1>7, <1>8, <1>9, <2>1 DEF SoundCalls
<1>13. ValidTransfers(h) /\ SoundCurses(h) /\ h.lastShooter \in DOMAIN h.players \union {Nobody}
  BY <1>3, <1>9 DEF Sound, ValidTransfers, SoundCurses
<1>14. Sound(h, set)
  BY <1>3, <1>9, <1>10, <1>11, <1>12, <1>13, ElsewhereSound
<1> QED
  BY <1>3, <1>9, <1>10, <1>14 DEF SameSky, h

(* Time passes over a sound game.                                           *)
LEMMA AdvanceSound ==
    ASSUME NEW g, NEW set, Sound(g, set), NEW t \in Nat, g.now <= t
    PROVE  LET h == Advance(g, t)
           IN  /\ Sound(h, set) /\ h.now = t /\ DOMAIN h.players = DOMAIN g.players
               /\ \A n \in DOMAIN g.players : Ages(g.players[n], h.players[n], t)
               /\ Tally(h) = Tally(g) /\ (LastInTime(g) => LastInTime(h))
               /\ Flying(h) => Flying(g) /\ h.flight = g.flight
<1> DEFINE h == Advance(g, t)
           D == DOMAIN g.players
           over == Flying(g) /\ g.flight.expires <= t
           flight == IF over THEN NoFlight ELSE g.flight
           ended == [id |-> g.flight.id, spawned |-> g.flight.spawned,
                     ended |-> g.flight.expires, hit |-> FALSE]
           last == IF over THEN ended ELSE g.last
           Worn(n) == {e \in Expired(g, t) : e.owner = n /\ e.item = 28}
           Aged(n) == WearOff(NewDay(DecayKarma(g.players[n], t), t), Worn(n))
           players == [n \in D |-> Aged(n)]
           effects == g.effects \ Expired(g, t)
           curses == {c \in g.curses : t < c.expires}
           transfers == {x \in g.transfers : t < x.expires}
<1>1. /\ g \in GameState(D) /\ D \subseteq Hunters /\ SoundFlight(g) /\ g.nextFlight \in Nat
      /\ g.now \in Nat /\ g.last \in LastRecord /\ g.flight \in FlightRecord
      /\ NoFlight \in FlightRecord
      /\ g.effects \subseteq ActiveEffect /\ g.curses \subseteq ActiveCurse
      /\ g.transfers \subseteq PendingTransfer
  BY SkyIs DEF Sound, Typed, GameState
<1>2. \A n \in D : Ages(g.players[n], Aged(n), t)
  <2> SUFFICES ASSUME NEW n \in D PROVE Ages(g.players[n], Aged(n), t)
    OBVIOUS
  <2>1. \A e \in Worn(n) : e.magnitude \in Nat
    BY <1>1 DEF Expired, ActiveEffect
  <2>2. SoundPlayer(g.players[n], g.now)
    BY DEF Sound, SoundPlayers
  <2> HIDE DEF Worn
  <2> QED
    BY <1>1, <2>1, <2>2, AgesFollows
<1>3. /\ flight \in FlightRecord /\ last \in LastRecord /\ last.ended <= t
      /\ last.id < g.nextFlight
      /\ flight # NoFlight => /\ flight = g.flight /\ flight.expires > t /\ flight.health >= 1
                              /\ flight.expires > flight.spawned /\ flight.spawned <= t
                              /\ flight.id \in last.id+1..g.nextFlight-1
      /\ last = g.last \/ last.ended > last.spawned
  <2>1. /\ g.flight.id \in Nat /\ g.flight.expires \in Nat /\ g.last.id \in Nat
        /\ g.last.ended \in Nat /\ g.flight.spawned \in Nat
    BY <1>1 DEF FlightRecord, LastRecord
  <2>2. /\ ended \in LastRecord /\ ended.id = g.flight.id /\ ended.ended = g.flight.expires
        /\ ended.spawned = g.flight.spawned
    BY <2>1 DEF LastRecord
  <2>3. CASE over
    <3>1. g.flight.id < g.nextFlight /\ g.flight.expires > g.flight.spawned
      BY <1>1, <2>1, <2>3 DEF SoundFlight, Flying
    <3>2. flight = NoFlight /\ last = ended
      BY <2>3
    <3> HIDE DEF ended, flight, last
    <3> QED
      BY <1>1, <2>2, <2>3, <3>1, <3>2
  <2>4. CASE ~over
    <3>1. flight = g.flight /\ last = g.last
      BY <2>4
    <3>2. g.last.ended <= t /\ g.last.id < g.nextFlight
      BY <1>1, <2>1 DEF SoundFlight
    <3>3. g.flight # NoFlight => /\ g.flight.expires > t /\ g.flight.health >= 1
                                 /\ g.flight.expires > g.flight.spawned
                                 /\ g.flight.spawned <= t
                                 /\ g.flight.id \in g.last.id+1..g.nextFlight-1
      BY <1>1, <2>1, <2>4 DEF SoundFlight, Flying
    <3> HIDE DEF flight, last
    <3> QED
      BY <1>1, <3>1, <3>2, <3>3
  <2> QED
    BY <2>3, <2>4
<1>4. /\ effects \subseteq ActiveEffect /\ curses \subseteq ActiveCurse
      /\ transfers \subseteq PendingTransfer
  BY <1>1
<1> HIDE DEF flight, last
<1>5. players \in [D -> PlayerState] /\ DOMAIN players = D /\ \A n \in D : players[n] = Aged(n)
  <2>1. \A n \in D : Aged(n) \in PlayerState
    BY <1>2 DEF Ages, SoundPlayer
  <2> HIDE DEF Aged
  <2> QED
    BY <2>1
<1>6. h = [g EXCEPT !.now = t, !.flight = flight, !.last = last, !.players = players,
                    !.effects = effects, !.curses = curses, !.transfers = transfers]
  BY <1>1 DEF Advance, GameState, flight, last
<1> HIDE DEF h, D, players, effects, curses, transfers
<1>7. /\ h.now = t /\ h.flight = flight /\ h.last = last /\ h.players = players
      /\ h.effects = effects /\ h.curses = curses /\ h.transfers = transfers
      /\ h.nextFlight = g.nextFlight /\ h.lastShooter = g.lastShooter
      /\ h.nextEffect = g.nextEffect /\ h.nextCurse = g.nextCurse
      /\ h.calls = g.calls /\ h.nextCall = g.nextCall
  BY <1>1, <1>6 DEF GameState
<1>8. h \in GameState(D)
  BY <1>1, <1>3, <1>4, <1>5, <1>6 DEF GameState, FlightRecord, LastRecord
<1>9. Typed(h) /\ DOMAIN h.players = D
  BY <1>1, <1>5, <1>7, <1>8 DEF Typed
<1> HIDE DEF Aged
<1>10. \A n \in D : Ages(g.players[n], h.players[n], t)
  BY <1>2, <1>5, <1>7
<1>11. \A n \in D : Warded(h, n)
  <2> SUFFICES ASSUME NEW n \in D PROVE Warded(h, n)
    OBVIOUS
  <2>1. Warded(g, n) /\ h.players[n].upgrades = g.players[n].upgrades
    BY <1>10 DEF Ages, Sound, SoundPlayers, D
  <2>2. \A f \in h.effects : f \in g.effects /\ LeftOf(f, f)
    BY <1>7 DEF effects, LeftOf
  <2>3. \A e, f \in h.effects : e.id = f.id => e = f
    BY <2>2 DEF Sound, SoundEffects
  <2> QED
    BY <2>1, <2>2, <2>3, WardedOfFewer
<1>12. SoundPlayers(h, set)
  BY <1>7, <1>9, <1>10, <1>11 DEF Sound, SoundPlayers, Fits, Balances, Ages, D
<1>13. SoundFlight(h)
  BY <1>1, <1>3, <1>7 DEF SoundFlight, Flying
<1>14. SoundEffects(h)
  <2>1. \A e \in g.effects : e.expires \in Int
    BY <1>1 DEF ActiveEffect
  <2>2. \A e \in h.effects : e \in g.effects /\ (e.expires = Never \/ e.expires > t)
    BY <1>7, <2>1 DEF effects, Expired
  <2> QED
    BY <1>7, <1>9, <2>2 DEF Sound, SoundEffects, D
<1>15. SoundCurses(h)
  <2>1. \A c \in h.curses : c \in g.curses /\ c.expires > t
    BY <1>1, <1>7 DEF curses, ActiveCurse
  <2> QED
    BY <1>7, <1>9, <2>1 DEF Sound, SoundCurses, D
<1>16. SoundCalls(h) /\ h.lastShooter \in DOMAIN h.players \union {Nobody}
  BY <1>7, <1>9 DEF Sound, SoundCalls, D
<1>17. ValidTransfers(h)
  <2>1. \A x \in h.transfers : x \in g.transfers /\ x.expires > t
    BY <1>1, <1>7 DEF transfers, PendingTransfer
  <2> QED
    BY <1>7, <2>1 DEF Sound, ValidTransfers
<1>18. Tally(h) = Tally(g)
  <2>1. \A n \in D : h.players[n].caused = g.players[n].caused
                     /\ h.players[n].received = g.players[n].received
    BY <1>10 DEF Ages, Keeps
  <2>2. [n \in DOMAIN h.players |-> h.players[n].caused]
           = [n \in DOMAIN g.players |-> g.players[n].caused]
    BY <1>9, <2>1 DEF D
  <2>3. [n \in DOMAIN h.players |-> h.players[n].received]
           = [n \in DOMAIN g.players |-> g.players[n].received]
    BY <1>9, <2>1 DEF D
  <2> QED
    BY <2>2, <2>3 DEF Tally, Caused, Received
<1>19. /\ LastInTime(g) => LastInTime(h)
       /\ Flying(h) => Flying(g) /\ h.flight = g.flight
  BY <1>3, <1>7 DEF LastInTime, Flying
<1> QED
  BY <1>7, <1>9, <1>10, <1>12, <1>13, <1>14, <1>15, <1>16, <1>17, <1>18, <1>19 DEF Sound, h, D

-----------------------------------------------------------------------------
(* What a command may do to the profiles.                                   *)

(* What a command, of the hunter n, may do: nothing firm gives way, and     *)
(* what a confiscation guards stays as it is for everybody else.            *)
Plays(g, h, n, set) ==
    /\ Sound(h, set) /\ h.now = g.now /\ DOMAIN g.players \subseteq DOMAIN h.players
    /\ SkyGoes(g, h)
    /\ \A m \in DOMAIN g.players :
          /\ Firm(g.players[m], h.players[m])
          /\ m # n => Undisturbed(g.players[m], h.players[m])

(* Nothing done is a command well played.                                   *)
LEMMA PlaysItself ==
    ASSUME NEW g, NEW n, NEW set, Sound(g, set) PROVE Plays(g, g, n, set)
BY DEF Plays, SkyGoes, Firm, Undisturbed

(* Commands well played compose.                                            *)
LEMMA PlaysOn ==
    ASSUME NEW g, NEW h, NEW k, NEW n, NEW set, Plays(g, h, n, set), Plays(h, k, n, set)
    PROVE  Plays(g, k, n, set)
BY DEF Plays, SkyGoes, Firm, Undisturbed

(* A sky left alone.                                                        *)
LEMMA SkyStays == ASSUME NEW g, NEW h, SameSky(g, h) PROVE SkyGoes(g, h)
BY DEF SameSky, SkyGoes, Flying

(* What leaves the profiles alone is well played.                           *)
LEMMA BesidePlays ==
    ASSUME NEW g, NEW h, NEW n, NEW set, Sound(h, set), Beside(g, h), SkyGoes(g, h)
    PROVE  Plays(g, h, n, set) /\ Tally(h) = Tally(g)
BY BesideTally DEF Plays, Beside, Firm, Undisturbed

(* One profile, of the hunter m, is set to q.                               *)
MayBecome(g, set, m, n, q) ==
    /\ Sound(g, set) /\ Few(g, set) /\ m \in Hunters
    /\ Follows(Resolved(g, m), q, g.now) /\ Firm(Resolved(g, m), q)
    /\ m # n => Undisturbed(Resolved(g, m), q)

Edited(g, h, set, m, n, q) ==
    /\ Plays(g, h, n, set) /\ DOMAIN h.players = DOMAIN g.players \union {m}
    /\ h.players[m] = q
    /\ \A x \in DOMAIN g.players \ {m} : h.players[x] = g.players[x]
    /\ SameBelongings(g, h) /\ SameSky(g, h) /\ h.lastShooter = g.lastShooter
    /\ Tally(h) = Tally(g) + q.caused - Resolved(g, m).caused
                           - q.received + Resolved(g, m).received
    /\ Keeps(Resolved(g, m), q) => Tally(h) = Tally(g)

(* One profile edited, his who plays or another's, is well played.          *)
LEMMA EditPlays ==
    ASSUME NEW g, NEW set, NEW m, NEW n, NEW q, MayBecome(g, set, m, n, q)
    PROVE  Edited(g, WithPlayer(g, m, q), set, m, n, q)
<1> DEFINE h == WithPlayer(g, m, q)
           p == Resolved(g, m)
<1>0. /\ Sound(g, set) /\ Few(g, set) /\ m \in Hunters
      /\ Follows(p, q, g.now) /\ Firm(p, q) /\ (m # n => Undisturbed(p, q))
  BY DEF MayBecome
<1>1. Typed(g) /\ q \in PlayerState /\ p \in PlayerState
  <2>1. SoundPlayer(p, g.now)
    BY <1>0, ResolvedSound
  <2> QED
    BY <1>0, <2>1 DEF Sound, SoundPlayer, Follows
<1>2. /\ h.now = g.now /\ h.lastShooter = g.lastShooter
      /\ SameBelongings(g, h) /\ SameSky(g, h)
      /\ DOMAIN h.players = DOMAIN g.players \union {m} /\ h.players[m] = q
      /\ \A x \in DOMAIN g.players \ {m} : h.players[x] = g.players[x]
  BY <1>0, <1>1, WithPlayerFields
<1>3. Sound(h, set)
  BY <1>0, FollowSound
<1>4. Tally(h) = Tally(g) + q.caused - p.caused - q.received + p.received
  BY <1>0, <1>1, WithPlayerTally
<1>5. m \in DOMAIN g.players => p = g.players[m]
  BY DEF Resolved, Known
<1> HIDE DEF h, p
<1>6. Plays(g, h, n, set)
  BY <1>0, <1>2, <1>3, <1>5, SkyStays DEF Plays, Firm, Undisturbed, p
<1>7. Keeps(p, q) => Tally(h) = Tally(g)
  <2>1. Tally(g) \in Int
    BY <1>1, TallyIsInteger DEF Tally
  <2>2. p.caused \in Int /\ p.received \in Int
    BY <1>1 DEF PlayerState
  <2> QED
    BY <1>4, <2>1, <2>2 DEF Keeps
<1> QED
  BY <1>2, <1>4, <1>6, <1>7 DEF h, p, Edited

(* A profile is found again when only the rest has changed.                 *)
LEMMA ResolvedAgain ==
    ASSUME NEW g, NEW h, NEW n, Beside(g, h) PROVE Resolved(h, n) = Resolved(g, n)
BY DEF Beside, Resolved, Known

(* An upgrade: the nuisances it wards off are gone with it.                 *)
LEMMA UpgradePlays ==
    ASSUME NEW g, NEW set, Sound(g, set), Few(g, set),
           NEW n \in DOMAIN g.players, NEW upgrade \in Upgrades
    PROVE  LET h == FindUpgrade(g, n, upgrade)
           IN  Plays(g, h, n, set) /\ Tally(h) = Tally(g)
                /\ DOMAIN h.players = DOMAIN g.players
<1> DEFINE h == FindUpgrade(g, n, upgrade)
           p == g.players[n]
<1>0. SoundPlayer(p, g.now) /\ p \in PlayerState /\ Fits(set, n, p)
      /\ Warded(g, n) /\ n \in Hunters /\ Typed(g) /\ g.now \in Nat
  BY DEF Sound, SoundPlayers, SoundPlayer, Typed, GameState
<1>1. CASE upgrade \in p.upgrades
  BY <1>1, PlaysItself DEF FindUpgrade
<1>2. CASE upgrade \notin p.upgrades
  <2> DEFINE k == Without(g, Owned(g, n, WardedBy(upgrade)))
             more == p.upgrades \union {upgrade}
             round == p.capacity + (IF upgrade = "magazine" THEN 1 ELSE 0)
             spare == p.magazineCapacity + (IF upgrade = "bag" THEN 1 ELSE 0)
             q == [p EXCEPT !.upgrades = more, !.capacity = round, !.magazineCapacity = spare]
  <2>1. h = WithPlayer(k, n, q)
    <3>1. q = [p EXCEPT !.upgrades = @ \union {upgrade},
                        !.capacity = @ + (IF upgrade = "magazine" THEN 1 ELSE 0),
                        !.magazineCapacity = @ + (IF upgrade = "bag" THEN 1 ELSE 0)]
      BY <1>0 DEF PlayerState
    <3> QED
      BY <1>2, <3>1 DEF FindUpgrade
  <2>2. /\ Sound(k, set) /\ Beside(g, k) /\ SameSky(g, k)
        /\ k.effects = g.effects \ Owned(g, n, WardedBy(upgrade))
    BY WithoutSound
  <2>3. PICK capacity \in Nat, magazineCapacity \in Nat, upgrades \in SUBSET Upgrades :
           /\ capacity = round /\ magazineCapacity = spare /\ upgrades = more
           /\ capacity >= p.capacity /\ magazineCapacity >= p.magazineCapacity
    <3>1. round \in Nat /\ spare \in Nat /\ more \in SUBSET Upgrades
          /\ round >= p.capacity /\ spare >= p.magazineCapacity
      BY <1>0 DEF PlayerState
    <3> HIDE DEF round, spare, more
    <3> QED
      BY <3>1
  <2>4. q = [p EXCEPT !.upgrades = upgrades, !.capacity = capacity,
                      !.magazineCapacity = magazineCapacity]
    BY <2>3
  <2> HIDE DEF q, k
  <2>5. /\ q \in PlayerState
        /\ q.upgrades = upgrades /\ q.capacity = capacity /\ q.magazineCapacity = magazineCapacity
        /\ q.ammo = p.ammo /\ q.magazines = p.magazines /\ q.level = p.level
        /\ q.experience = p.experience /\ q.permanent = p.permanent
        /\ q.confiscated = p.confiscated /\ q.fatigue = p.fatigue /\ q.karma = p.karma
        /\ q.decays = p.decays /\ q.day = p.day /\ q.received = p.received
        /\ q.survived = p.survived /\ q.deaths = p.deaths /\ q.shots = p.shots
        /\ q.caused = p.caused
    BY <1>0, <2>4 DEF PlayerState
  <2>6. SoundPlayer(q, g.now)
    <3>1. SoundWeapon(p) /\ SoundLevel(p) /\ SoundRest(p, g.now)
      BY <1>0, SoundParts
    <3>2. SoundLevel(q) /\ SoundRest(q, g.now)
      BY <2>5, <3>1 DEF SoundLevel, SoundRest, OfToday
    <3>3. /\ p.ammo \in Nat /\ p.capacity \in Nat /\ p.magazines \in Nat
          /\ p.magazineCapacity \in Nat
      BY <1>0 DEF PlayerState
    <3>4. SoundWeapon(q)
      BY <2>3, <2>5, <3>1, <3>3 DEF SoundWeapon
    <3> QED
      BY <2>5, <3>2, <3>4, SoundParts
  <2>7. Fits(set, n, q)
    <3>1. AmmoOf(p.level) \in Nat /\ MagazinesOf(p.level) \in Nat
      BY <1>0, LevelTables DEF PlayerState
    <3>2. /\ "magazine" \in q.upgrades <=> "magazine" \in p.upgrades \/ upgrade = "magazine"
          /\ "bag" \in q.upgrades <=> "bag" \in p.upgrades \/ upgrade = "bag"
      BY <2>3, <2>5
    <3> QED
      BY <1>0, <1>2, <2>3, <2>5, <3>1, <3>2 DEF Fits, WeaponFits, Balanced
  <2>8. /\ SameBelongings(k, h) /\ DOMAIN h.players = DOMAIN g.players /\ h.players[n] = q
        /\ \A x \in DOMAIN g.players \ {n} : h.players[x] = g.players[x]
        /\ h.now = g.now /\ SameSky(g, h)
    <3> HIDE DEF h
    <3>1. Typed(k) /\ DOMAIN k.players = DOMAIN g.players /\ k.now = g.now
      BY <2>2 DEF Sound, Beside
    <3>2. /\ SameBelongings(k, h) /\ DOMAIN h.players = DOMAIN k.players \union {n}
          /\ h.players[n] = q /\ h.now = k.now
          /\ \A x \in DOMAIN k.players \ {n} : h.players[x] = k.players[x]
          /\ SameSky(k, h)
      BY <1>0, <2>1, <2>5, <3>1, WithPlayerFields
    <3> QED
      BY <2>2, <3>1, <3>2 DEF Beside, SameSky
  <2> HIDE DEF h
  <2>9. Warded(h, n)
    <3>1. h.effects = g.effects \ Owned(g, n, WardedBy(upgrade))
      BY <2>2, <2>8 DEF SameBelongings
    <3>2. \A item : Has(h, n, item) => Has(g, n, item) /\ item \notin WardedBy(upgrade)
      BY <3>1 DEF Has, Owned
    <3>3. \A item \in {14, 15, 16} : PermanentCounter(item) = upgrade => item \in WardedBy(upgrade)
      BY CountersAre DEF WardedBy
    <3>4. \A item \in {14, 15, 16} : PermanentCounter(item) \in q.upgrades => ~Has(h, n, item)
      BY <1>0, <2>3, <2>5, <3>2, <3>3 DEF Warded
    <3>5. \A item \in {15, 16} : ~(Has(h, n, item) /\ Has(h, n, Counter(item)))
      BY <1>0, <3>2 DEF Warded
    <3>6. \A e, f \in {x \in h.effects : x.owner = n} : f.item \in Group(e.item) => e = f
      BY <1>0, <3>1 DEF Warded
    <3> QED
      BY <2>8, <3>4, <3>5, <3>6 DEF Warded
  <2>10. Sound(h, set)
    BY <1>0, <2>1, <2>2, <2>6, <2>7, <2>9, WithPlayerSound DEF Beside
  <2>11. Plays(g, h, n, set)
    BY <2>5, <2>8, <2>10, SkyStays DEF Plays, Firm, Undisturbed
  <2>12. Tally(h) = Tally(g)
    <3>1. Tally(h) = Tally(k) + q.caused - Resolved(k, n).caused - q.received
                              + Resolved(k, n).received
      BY <1>0, <2>1, <2>2, <2>5, WithPlayerTally DEF Sound
    <3>2. Resolved(k, n) = p
      BY <2>2 DEF Resolved, Known, Beside
    <3>3. Tally(k) = Tally(g) /\ Tally(g) \in Int
      BY <1>0, <2>2, BesideTally, TallyIsInteger DEF Tally
    <3>4. p.caused \in Int /\ p.received \in Int
      BY <1>0 DEF PlayerState
    <3> QED
      BY <2>5, <3>1, <3>2, <3>3, <3>4
  <2> QED
    BY <2>8, <2>11, <2>12 DEF h
<1> QED
  BY <1>1, <1>2

(* A hunter becomes known.                                                  *)
LEMMA KnownPlays ==
    ASSUME NEW g, NEW set, Sound(g, set), Few(g, set), NEW n,
           NEW m \in DOMAIN g.players, NEW q, Follows(g.players[m], q, g.now),
           Firm(g.players[m], q), m # n => Undisturbed(g.players[m], q)
    PROVE  /\ Edited(g, WithPlayer(g, m, q), set, m, n, q) /\ Resolved(g, m) = g.players[m]
           /\ DOMAIN g.players \union {m} = DOMAIN g.players
<1>1. Resolved(g, m) = g.players[m] /\ m \in Hunters /\ DOMAIN g.players \union {m} = DOMAIN g.players
  BY DEF Resolved, Known, Sound, Typed
<1>2. MayBecome(g, set, m, n, q)
  BY <1>1 DEF MayBecome
<1> QED
  BY <1>1, <1>2, EditPlays

(* The profile of a known hunter.                                           *)
LEMMA KnownIs ==
    ASSUME NEW g, NEW set, Sound(g, set), NEW m \in DOMAIN g.players
    PROVE  /\ SoundPlayer(g.players[m], g.now) /\ g.players[m] \in PlayerState
           /\ Resolved(g, m) = g.players[m] /\ m \in Hunters
BY DEF Sound, SoundPlayers, SoundPlayer, Resolved, Known, Typed

(* The fatigue of a shot stays below the most there is.                     *)
LEMMA FatigueIs ==
    ASSUME NEW g, NEW n, NEW p \in PlayerState, MinFatigue <= p.fatigue, p.fatigue <= MaxFatigue
    PROVE  LET more == Fatigue(g, n, p)
           IN more \in Nat /\ p.fatigue + more <= MaxFatigue
<1>1. p.fatigue \in Int
  BY DEF PlayerState
<1>2. BagWeight(g, n, p) \in {1, 2, 3}
  <2>1. CASE p.carried > 10
    BY <2>1 DEF BagWeight, PlayerState
  <2>2. CASE p.carried \in 6..10
    BY <2>2 DEF BagWeight, PlayerState
  <2>3. CASE ~(p.carried > 10) /\ p.carried \notin 6..10
    BY <2>3 DEF BagWeight, PlayerState
  <2> QED
    BY <2>1, <2>2, <2>3
<1>3. Frenzy(g, n) \in {1, 2}
  BY DEF Frenzy
<1>4. PICK cost \in Nat : cost = 100 * BagWeight(g, n, p) * Frenzy(g, n)
                                   * (IF Cursed(g, n, "burden") THEN 2 ELSE 1)
  BY <1>2, <1>3
<1>5. Fatigue(g, n, p) = IF Has(g, n, 102) THEN 0 ELSE Least(cost, MaxFatigue - p.fatigue)
  BY <1>4 DEF Fatigue
<1> QED
  BY <1>1, <1>4, <1>5, BoundsAreIntegers DEF Least

(* The trigger is pulled.                                                   *)
LEMMA PullTriggerPlays ==
    ASSUME NEW g, NEW set, Sound(g, set), Few(g, set), NEW n \in Hunters,
           NEW shot
    PROVE  LET h == PullTrigger(g, n, shot)
           IN  /\ Plays(g, h, n, set) /\ SameSky(g, h) /\ Tally(h) = Tally(g)
               /\ n \in DOMAIN h.players
<1> DEFINE p == Resolved(g, n)
           rounds == IF shot.recycles THEN 0 ELSE Least(p.ammo, Frenzy(g, n))
           w1 == Take(g, n, 15)
           w2 == Take(w1, n, 7)
           w3 == Take(w2, n, 14)
<1>1. /\ SoundPlayer(p, g.now) /\ p \in PlayerState /\ p.ammo \in Nat /\ p.capacity \in Nat
      /\ p.fatigue \in Int /\ SoundWeapon(p) /\ SoundRest(p, g.now)
  BY ResolvedSound, SoundParts DEF SoundPlayer, PlayerState
<1>2. Sound(w1, set) /\ Beside(g, w1) /\ SameSky(g, w1)
  BY TakeSound
<1>3. Sound(w2, set) /\ Beside(w1, w2) /\ SameSky(w1, w2)
  BY <1>2, TakeSound
<1>4. Sound(w3, set) /\ Beside(w2, w3) /\ SameSky(w2, w3)
  BY <1>3, TakeSound
<1> DEFINE more == Fatigue(g, n, p)
<1>5. PICK ammo \in Nat, fatigue \in Int :
         /\ ammo = p.ammo - rounds /\ fatigue = p.fatigue + more
         /\ ammo <= p.capacity /\ MinFatigue <= fatigue /\ fatigue <= MaxFatigue
  <2>1. more \in Nat /\ p.fatigue + more <= MaxFatigue
    BY <1>1, FatigueIs DEF SoundRest
  <2>2. MinFatigue <= p.fatigue + more /\ p.fatigue + more \in Int
    <3> HIDE DEF more, p
    <3> QED
      BY <1>1, <2>1, BoundsAreIntegers DEF SoundRest
  <2>3. p.ammo - rounds \in Nat /\ p.ammo - rounds <= p.capacity
    BY <1>1 DEF SoundWeapon, Least, Frenzy
  <2> HIDE DEF more, p, rounds
  <2> QED
    BY <2>1, <2>2, <2>3
<1> DEFINE q == [p EXCEPT !.ammo = ammo, !.fatigue = fatigue]
           h == WithPlayer(w3, n, q)
<1>6. PullTrigger(g, n, shot) = h
  BY <1>1, <1>5 DEF PullTrigger, PlayerState
<1> HIDE DEF p, w1, w2, w3, rounds, more
<1>7. Follows(p, q, g.now) /\ Keeps(p, q) /\ Undisturbed(p, q)
  BY <1>1, <1>5, FireFollows
<1>8. Beside(g, w3) /\ SameSky(g, w3) /\ Resolved(w3, n) = p /\ w3.now = g.now
      /\ DOMAIN w3.players = DOMAIN g.players
  BY <1>2, <1>3, <1>4, ResolvedAgain DEF Beside, SameSky, p
<1> HIDE DEF q
<1>9. /\ Plays(w3, h, n, set) /\ SameSky(w3, h) /\ Tally(h) = Tally(w3)
      /\ n \in DOMAIN h.players
  <2>1. Few(w3, set) /\ Firm(p, q)
    BY <1>7, <1>8, UndisturbedIsFirm DEF Few
  <2>2. MayBecome(w3, set, n, n, q)
    BY <1>4, <1>7, <1>8, <2>1 DEF MayBecome
  <2>3. Edited(w3, h, set, n, n, q)
    BY <2>2, EditPlays
  <2> HIDE DEF h
  <2> QED
    BY <1>7, <1>8, <2>3 DEF Edited
<1>10. Plays(g, w3, n, set) /\ Tally(w3) = Tally(g)
  BY <1>4, <1>8, SkyStays, BesidePlays
<1>11. SameSky(g, h)
  BY <1>8, <1>9 DEF SameSky
<1> HIDE DEF h
<1> QED
  BY <1>6, <1>9, <1>10, <1>11, PlaysOn

(* The penalties of the levels are naturals.                                *)
LEMMA CostsAre ==
    \A l \in Nat : /\ Penalties(l).miss \in Nat /\ Penalties(l).wild \in Nat
                   /\ Penalties(l).incident \in Nat
BY DEF Penalties

(* A miss is paid for.                                                      *)
LEMMA MissPlays ==
    ASSUME NEW g, NEW set, Sound(g, set), Few(g, set),
           NEW n \in DOMAIN g.players
    PROVE  LET h == Miss(g, n)
           IN  /\ Plays(g, h, n, set) /\ (Flying(g) => Flying(h)) /\ Tally(h) = Tally(g)
               /\ DOMAIN h.players = DOMAIN g.players
<1> DEFINE p == g.players[n]
           k == IF Heard(g, n) THEN [g EXCEPT !.flight.noisy = @ + 1] ELSE g
           cost == MissCost(g, n)
           q == Debit(p, cost)
           h == WithPlayer(k, n, q)
<1>1. SoundPlayer(p, g.now) /\ p \in PlayerState /\ Resolved(g, n) = p /\ p.level \in Nat
      /\ g.now \in Nat
  BY KnownIs, SkyIs DEF PlayerState
<1>2. Sound(k, set) /\ Beside(g, k) /\ (Flying(g) => Flying(k)) /\ SkyGoes(g, k)
  <2>1. CASE Heard(g, n)
    <3>1. Flying(g) /\ k = [g EXCEPT !.flight.noisy = @ + 1]
      BY <2>1 DEF Heard
    <3> HIDE DEF k
    <3> QED
      BY <3>1, HeardSound
  <2>2. CASE ~Heard(g, n)
    BY <2>2 DEF Beside, SkyGoes
  <2> QED
    BY <2>1, <2>2
<1>3. cost \in Nat
  BY <1>1, CostsAre DEF MissCost
<1> HIDE DEF cost, p
<1>4. Follows(p, q, g.now) /\ LevelledOnly(p, q)
  BY <1>1, <1>3, DebitFollows
<1>5. Miss(g, n) = h
  BY DEF Miss, cost, p
<1> HIDE DEF k, q
<1>6. k.players = g.players /\ k.now = g.now
  BY <1>2 DEF Beside
<1>7. /\ Plays(k, h, n, set) /\ SameSky(k, h) /\ Tally(h) = Tally(k)
      /\ DOMAIN h.players = DOMAIN k.players
  <2>1. /\ Few(k, set) /\ k.players[n] = p /\ n \in DOMAIN k.players
        /\ Keeps(p, q) /\ Undisturbed(p, q) /\ Firm(p, q) /\ Follows(p, q, k.now)
    BY <1>4, <1>6, LevelledKeeps DEF p, Few
  <2>2. /\ Edited(k, h, set, n, n, q) /\ Resolved(k, n) = p
        /\ DOMAIN k.players \union {n} = DOMAIN k.players
    BY <1>2, <2>1, KnownPlays
  <2> HIDE DEF h
  <2> QED
    BY <2>1, <2>2 DEF Edited
<1>8. Plays(g, k, n, set) /\ Tally(k) = Tally(g)
  BY <1>2, BesidePlays
<1> HIDE DEF h
<1>9. Flying(g) => Flying(h)
  BY <1>2, <1>7 DEF SameSky, Flying
<1> QED
  BY <1>5, <1>6, <1>7, <1>8, <1>9, PlaysOn

(* Such a command, and every ricochet still has its two sides. *)
Runs(g, h, n, set) == Plays(g, h, n, set) /\ Tally(h) = Tally(g)

(* Commands that keep the balance of incidents compose.                     *)
LEMMA RunsOn ==
    ASSUME NEW g, NEW h, NEW k, NEW n, NEW set, Runs(g, h, n, set), Runs(h, k, n, set)
    PROVE  Runs(g, k, n, set)
BY PlaysOn DEF Runs

(* What such a command leaves.                                              *)
LEMMA RunsIs ==
    ASSUME NEW g, NEW h, NEW n, NEW set, Runs(g, h, n, set), Few(g, set)
    PROVE  /\ Sound(h, set) /\ h.now = g.now /\ DOMAIN g.players \subseteq DOMAIN h.players
           /\ Few(h, set)
BY DEF Runs, Plays, Few

(* What leaves the profiles alone keeps the balance.                        *)
LEMMA BesideRuns ==
    ASSUME NEW g, NEW h, NEW n, NEW set, Sound(h, set), Beside(g, h), SkyGoes(g, h)
    PROVE  Runs(g, h, n, set) /\ h.players = g.players
BY BesidePlays DEF Runs, Beside

(* A use of an effect.                                                      *)
LEMMA TakeRuns ==
    ASSUME NEW g, NEW set, Sound(g, set), NEW m, NEW item, NEW n
    PROVE  LET h == Take(g, m, item)
           IN  Runs(g, h, n, set) /\ h.players = g.players /\ SameSky(g, h)
<1> DEFINE h == Take(g, m, item)
<1>1. Sound(h, set) /\ Beside(g, h) /\ SameSky(g, h)
  BY TakeSound
<1> HIDE DEF h
<1>2. Runs(g, h, n, set) /\ h.players = g.players
  BY <1>1, SkyStays, BesideRuns
<1> QED
  BY <1>1, <1>2 DEF h

(* One profile edited, whose incidents stay.                                *)
LEMMA EditRuns ==
    ASSUME NEW g, NEW set, NEW m, NEW n, NEW q, MayBecome(g, set, m, n, q),
           Keeps(Resolved(g, m), q)
    PROVE  LET h == WithPlayer(g, m, q)
           IN  /\ Runs(g, h, n, set) /\ DOMAIN h.players = DOMAIN g.players \union {m}
               /\ h.players[m] = q /\ SameSky(g, h)
<1> DEFINE h == WithPlayer(g, m, q)
<1>1. Edited(g, h, set, m, n, q)
  BY EditPlays
<1> HIDE DEF h
<1>2. Tally(h) = Tally(g)
  BY <1>1 DEF Edited
<1>3. Plays(g, h, n, set) /\ DOMAIN h.players = DOMAIN g.players \union {m}
      /\ h.players[m] = q /\ SameSky(g, h)
  BY <1>1 DEF Edited
<1> QED
  BY <1>2, <1>3 DEF h, Runs

(* Everybody who may hunt here, and the game is one commands find. *)
Ready(g, set) == Sound(g, set) /\ Few(g, set)

(* A hunter becomes known, with the profile he is given.                    *)
LEMMA KnownRuns ==
    ASSUME NEW g, NEW set, Ready(g, set), NEW n \in Hunters
    PROVE  LET h == WithPlayer(g, n, Resolved(g, n))
           IN  /\ Runs(g, h, n, set) /\ n \in DOMAIN h.players
               /\ h.players[n] = Resolved(g, n) /\ Ready(h, set) /\ SameSky(g, h)
<1> DEFINE p == Resolved(g, n)
           h == WithPlayer(g, n, p)
<1>1. SoundPlayer(p, g.now)
  BY ResolvedSound DEF Ready
<1> HIDE DEF p
<1>2. Follows(p, p, g.now) /\ Keeps(p, p) /\ Firm(p, p) /\ Undisturbed(p, p)
  BY <1>1, FollowsItself DEF Firm, Undisturbed
<1>3. MayBecome(g, set, n, n, p) /\ Keeps(Resolved(g, n), p)
  BY <1>2 DEF MayBecome, Ready, p
<1>4. Runs(g, h, n, set) /\ DOMAIN h.players = DOMAIN g.players \union {n} /\ h.players[n] = p
      /\ SameSky(g, h)
  BY <1>3, EditRuns
<1> HIDE DEF h
<1>5. Ready(h, set)
  BY <1>4, RunsIs DEF Ready
<1> QED
  BY <1>4, <1>5 DEF h, p

(* A change of the hunter's own profile. *)
LEMMA OwnEditRuns ==
    ASSUME NEW g, NEW set, Ready(g, set), NEW n \in Hunters, NEW q,
           Follows(Resolved(g, n), q, g.now), Keeps(Resolved(g, n), q), Firm(Resolved(g, n), q)
    PROVE  LET h == WithPlayer(g, n, q)
           IN  /\ Runs(g, h, n, set) /\ DOMAIN h.players = DOMAIN g.players \union {n}
               /\ h.players[n] = q /\ SameSky(g, h) /\ Ready(h, set)
<1> DEFINE h == WithPlayer(g, n, q)
<1>3. MayBecome(g, set, n, n, q)
  BY DEF MayBecome, Ready
<1>4. Runs(g, h, n, set) /\ DOMAIN h.players = DOMAIN g.players \union {n} /\ h.players[n] = q
      /\ SameSky(g, h)
  BY <1>3, EditRuns
<1> HIDE DEF h
<1>5. Ready(h, set)
  BY <1>4, RunsIs DEF Ready
<1> QED
  BY <1>4, <1>5 DEF h

(* The weapon jams.                                                         *)
LEMMA JamRuns ==
    ASSUME NEW g, NEW set, Ready(g, set), NEW n \in Hunters
    PROVE  LET h == Jam(g, n) IN Runs(g, h, n, set) /\ Ready(h, set)
<1> DEFINE p == Resolved(g, n)
           k == Take(g, n, 15)
           jammed == TRUE
           q == [p EXCEPT !.jammed = jammed]
           h == WithPlayer(k, n, q)
<1>1. Runs(g, k, n, set) /\ k.players = g.players
  BY TakeRuns DEF Ready
<1> HIDE DEF k
<1>2. Ready(k, set) /\ k.now = g.now
  BY <1>1, RunsIs DEF Ready
<1>3. Resolved(k, n) = p
  BY <1>1, <1>2 DEF Resolved, Known
<1>4. SoundPlayer(p, g.now)
  BY ResolvedSound DEF Ready
<1> HIDE DEF p
<1>5. Follows(p, q, g.now) /\ Keeps(p, q) /\ Firm(p, q)
  BY <1>4, JamFollows, UndisturbedIsFirm
<1> HIDE DEF q
<1>6. Runs(k, h, n, set) /\ Ready(h, set)
  BY <1>2, <1>3, <1>5, OwnEditRuns
<1> HIDE DEF h
<1>7. Runs(g, h, n, set)
  BY <1>1, <1>6, RunsOn
<1> QED
  BY <1>6, <1>7 DEF Jam, h, k, q, p

(* The trigger does not fire; a confiscated weapon is not touched.          *)
LEMMA HeldRuns ==
    ASSUME NEW g, NEW set, Ready(g, set), NEW n \in Hunters
    PROVE  /\ Runs(g, Held(g, n), n, set)
           /\ Obstacle(g, n) \notin {"locked", "sabotaged"} =>
                 Held(g, n) = WithPlayer(g, n, Resolved(g, n))
<1> DEFINE known == WithPlayer(g, n, Resolved(g, n))
           jam == Jam(g, n)
<1>1. Runs(g, known, n, set) /\ Ready(known, set)
  BY KnownRuns
<1>2. Runs(g, jam, n, set) /\ Ready(jam, set)
  BY JamRuns
<1>3. CASE Obstacle(g, n) = "locked"
  <2>1. Held(g, n) = Take(known, n, 8)
    BY <1>3 DEF Held
  <2> HIDE DEF known
  <2>2. Runs(known, Take(known, n, 8), n, set)
    BY <1>1, TakeRuns DEF Ready
  <2> QED
    BY <1>1, <1>3, <2>1, <2>2, RunsOn
<1>4. CASE Obstacle(g, n) = "sabotaged"
  <2>1. Held(g, n) = Take(jam, n, 17)
    BY <1>4 DEF Held
  <2> HIDE DEF jam
  <2>2. Runs(jam, Take(jam, n, 17), n, set)
    BY <1>2, TakeRuns DEF Ready
  <2> QED
    BY <1>2, <1>4, <2>1, <2>2, RunsOn
<1>5. CASE Obstacle(g, n) \notin {"locked", "sabotaged"}
  <2>1. Held(g, n) = known
    BY <1>5 DEF Held
  <2> QED
    BY <1>1, <2>1
<1> QED
  BY <1>3, <1>4, <1>5

(* The weapon is reloaded; a confiscated one is not touched.                *)
LEMMA ReloadRuns ==
    ASSUME NEW g, NEW set, Ready(g, set), NEW n \in Hunters
    PROVE  /\ Runs(g, Reload(g, n), n, set) /\ Reload(g, n).last = g.last
           /\ Resolved(g, n).confiscated => Reload(g, n) = WithPlayer(g, n, Resolved(g, n))
<1> DEFINE p == Resolved(g, n)
           free == UnlimitedMagazines(g, n)
           blocked == \/ Cursed(g, n, "slowness") \/ p.confiscated \/ Cursed(g, n, "one_armed")
                      \/ ~p.jammed /\ p.ammo > 0
                      \/ ~p.jammed /\ p.magazines = 0 /\ ~free
<1>1. SoundPlayer(p, g.now) /\ p \in PlayerState /\ SoundWeapon(p)
  BY ResolvedSound, SoundParts DEF Ready, SoundPlayer
<1>2. CASE blocked
  <2>1. Reload(g, n) = WithPlayer(g, n, p)
    BY <1>2 DEF Reload
  <2> QED
    BY <2>1, KnownRuns DEF SameSky
<1>3. CASE ~blocked /\ p.jammed
  <2> DEFINE jammed == FALSE
             q == [p EXCEPT !.jammed = jammed]
  <2>1. Reload(g, n) = WithPlayer(g, n, q) /\ ~p.confiscated
    BY <1>3 DEF Reload
  <2>2. Follows(p, q, g.now) /\ Keeps(p, q) /\ Firm(p, q)
    <3> HIDE DEF p
    <3> QED
      BY <1>1, JamFollows, UndisturbedIsFirm
  <2> HIDE DEF q
  <2> QED
    BY <2>1, <2>2, OwnEditRuns DEF SameSky
<1>4. CASE ~blocked /\ ~p.jammed
  <2>1. PICK ammo \in Nat, magazines \in Nat :
           /\ ammo = p.capacity /\ magazines = p.magazines - (IF free THEN 0 ELSE 1)
           /\ ammo <= p.capacity /\ magazines <= p.magazineCapacity
    <3>1. /\ p.capacity \in Nat /\ p.magazines \in Nat /\ p.magazineCapacity \in Nat
          /\ p.magazines <= p.magazineCapacity /\ (p.magazines # 0 \/ free)
      BY <1>1, <1>4 DEF PlayerState, SoundWeapon
    <3> HIDE DEF p, free
    <3>2. p.magazines - (IF free THEN 0 ELSE 1) \in Nat
          /\ p.magazines - (IF free THEN 0 ELSE 1) <= p.magazineCapacity
      BY <3>1
    <3> QED
      BY <3>1, <3>2
  <2> DEFINE q == [p EXCEPT !.ammo = ammo, !.magazines = magazines]
  <2>2. Reload(g, n) = WithPlayer(g, n, q) /\ ~p.confiscated
    <3>1. q = [p EXCEPT !.ammo = p.capacity, !.magazines = @ - (IF free THEN 0 ELSE 1)]
      BY <1>1, <2>1 DEF PlayerState
    <3> QED
      BY <1>4, <3>1 DEF Reload
  <2>3. Follows(p, q, g.now) /\ Keeps(p, q) /\ Firm(p, q)
    <3> HIDE DEF p
    <3> QED
      BY <1>1, <2>1, LoadFollows, UndisturbedIsFirm
  <2> HIDE DEF q
  <2> QED
    BY <2>2, <2>3, OwnEditRuns DEF SameSky
<1> QED
  BY <1>2, <1>3, <1>4

-----------------------------------------------------------------------------
(* The trigger.                                                             *)

(* The automatic reloader fills what the weapon holds.                      *)
LEMMA LoadedFollows ==
    ASSUME NEW t, NEW p, SoundPlayer(p, t), NEW free \in BOOLEAN, p.magazines > 0 \/ free
    PROVE  LET q == [p EXCEPT !.ammo = p.capacity, !.magazines = @ - (IF free THEN 0 ELSE 1)]
           IN  Follows(p, q, t) /\ Keeps(p, q) /\ Undisturbed(p, q) /\ q.letters = p.letters
<1>1. p \in PlayerState /\ SoundWeapon(p)
  BY SoundParts DEF SoundPlayer
<1>2. PICK ammo \in Nat, magazines \in Nat :
         /\ ammo = p.capacity /\ magazines = p.magazines - (IF free THEN 0 ELSE 1)
         /\ ammo <= p.capacity /\ magazines <= p.magazineCapacity
  <2>1. /\ p.capacity \in Nat /\ p.magazines \in Nat /\ p.magazineCapacity \in Nat
        /\ p.magazines <= p.magazineCapacity /\ (p.magazines # 0 \/ free)
    BY <1>1 DEF PlayerState, SoundWeapon
  <2>2. p.magazines - (IF free THEN 0 ELSE 1) \in Nat
        /\ p.magazines - (IF free THEN 0 ELSE 1) <= p.magazineCapacity
    BY <2>1
  <2> QED
    BY <2>1, <2>2
<1> DEFINE q == [p EXCEPT !.ammo = ammo, !.magazines = magazines]
<1>3. q = [p EXCEPT !.ammo = p.capacity, !.magazines = @ - (IF free THEN 0 ELSE 1)]
  BY <1>1, <1>2 DEF PlayerState
<1>4. q.letters = p.letters
  BY <1>1 DEF PlayerState
<1>5. Follows(p, q, t) /\ Keeps(p, q) /\ Undisturbed(p, q)
  BY <1>1, <1>2, LoadFollows
<1> QED
  BY <1>3, <1>4, <1>5

(* The shot is counted.                                                     *)
LEMMA FinishRuns ==
    ASSUME NEW g, NEW set, Ready(g, set), NEW n \in DOMAIN g.players
    PROVE  LET h == Finish(g, n)
           IN  /\ Runs(g, h, n, set) /\ n \in DOMAIN h.players
               /\ h.players[n].letters = g.players[n].letters
<1> DEFINE p == g.players[n]
           shots == p.shots + 1
           shot == [p EXCEPT !.shots = shots]
           free == UnlimitedMagazines(g, n)
           reloads == Has(g, n, 30) /\ shot.ammo = 0 /\ (shot.magazines > 0 \/ free)
           loaded == [shot EXCEPT !.ammo = shot.capacity, !.magazines = @ - (IF free THEN 0 ELSE 1)]
           ready == IF reloads THEN loaded ELSE shot
           k == WithPlayer(g, n, ready)
           h == [k EXCEPT !.lastShooter = n]
<1>1. SoundPlayer(p, g.now) /\ p \in PlayerState /\ Resolved(g, n) = p /\ n \in Hunters
  BY KnownIs DEF Ready
<1>2. shots \in Nat /\ shot = [p EXCEPT !.shots = @ + 1] /\ shot.letters = p.letters
  BY <1>1 DEF PlayerState
<1>3. Finish(g, n) = h
  BY <1>2 DEF Finish
<1> HIDE DEF shots
<1>4. Follows(p, shot, g.now) /\ Keeps(p, shot) /\ Firm(p, shot)
  <2> HIDE DEF p
  <2> QED
    BY <1>1, <1>2, ShotFollows
<1> HIDE DEF p, shot
<1>5. Follows(p, ready, g.now) /\ Keeps(p, ready) /\ Firm(p, ready) /\ ready.letters = p.letters
  <2>1. CASE reloads
    <3>1. SoundPlayer(shot, g.now) /\ (shot.magazines > 0 \/ free) /\ free \in BOOLEAN
      BY <1>4, <2>1 DEF Follows, UnlimitedMagazines
    <3> HIDE DEF free
    <3>2. Follows(shot, loaded, g.now) /\ Keeps(shot, loaded) /\ Undisturbed(shot, loaded)
          /\ loaded.letters = shot.letters
      BY <3>1, LoadedFollows
    <3> HIDE DEF loaded
    <3>3. Follows(p, loaded, g.now) /\ Keeps(p, loaded) /\ Firm(p, loaded)
      BY <1>4, <3>2, FollowsOn, UndisturbedIsFirm DEF Keeps, Firm
    <3> QED
      BY <1>2, <2>1, <3>2, <3>3
  <2>2. CASE ~reloads
    BY <1>2, <1>4, <2>2
  <2> QED
    BY <2>1, <2>2
<1> HIDE DEF ready
<1>6. Runs(g, k, n, set) /\ k.players[n] = ready /\ DOMAIN k.players = DOMAIN g.players \union {n}
      /\ Ready(k, set)
  BY <1>1, <1>5, OwnEditRuns
<1> HIDE DEF k
<1>7. Sound(h, set) /\ Beside(k, h) /\ SameSky(k, h)
  <2>1. n \in DOMAIN k.players /\ Sound(k, set)
    BY <1>6 DEF Ready
  <2> QED
    BY <2>1, ShooterSound
<1> HIDE DEF h
<1>8. Runs(k, h, n, set) /\ h.players = k.players
  BY <1>7, SkyStays, BesideRuns
<1>9. Runs(g, h, n, set)
  BY <1>6, <1>8, RunsOn
<1> QED
  BY <1>3, <1>5, <1>6, <1>8, <1>9 DEF p

(* A miss, of a flight that hears it or of none.                            *)
LEMMA MissRuns ==
    ASSUME NEW g, NEW set, Ready(g, set), NEW n \in DOMAIN g.players
    PROVE  LET h == Miss(g, n)
           IN  /\ Runs(g, h, n, set) /\ Ready(h, set) /\ (Flying(g) => Flying(h))
               /\ DOMAIN h.players = DOMAIN g.players
<1> DEFINE h == Miss(g, n)
<1>1. /\ Plays(g, h, n, set) /\ (Flying(g) => Flying(h)) /\ Tally(h) = Tally(g)
      /\ DOMAIN h.players = DOMAIN g.players
  BY MissPlays DEF Ready
<1> HIDE DEF h
<1>2. Runs(g, h, n, set) /\ Ready(h, set)
  BY <1>1 DEF Runs, Ready, Plays, Few
<1> QED
  BY <1>1, <1>2 DEF h

(* The trigger is pulled.                                                   *)
LEMMA PullTriggerRuns ==
    ASSUME NEW g, NEW set, Ready(g, set), NEW n \in Hunters, NEW shot
    PROVE  LET h == PullTrigger(g, n, shot)
           IN  /\ Runs(g, h, n, set) /\ Ready(h, set) /\ SameSky(g, h)
               /\ n \in DOMAIN h.players
<1> DEFINE h == PullTrigger(g, n, shot)
<1>1. /\ Plays(g, h, n, set) /\ SameSky(g, h) /\ Tally(h) = Tally(g)
      /\ n \in DOMAIN h.players
  BY PullTriggerPlays DEF Ready
<1> HIDE DEF h
<1>2. Runs(g, h, n, set) /\ Ready(h, set)
  BY <1>1 DEF Runs, Ready, Plays, Few
<1> QED
  BY <1>1, <1>2 DEF h

-----------------------------------------------------------------------------
(* Ricochets.                                                               *)

(* A change of another's profile, that no confiscation need fear. *)
LEMMA OtherEditRuns ==
    ASSUME NEW g, NEW set, Ready(g, set), NEW m \in Hunters, NEW n, NEW q,
           Follows(Resolved(g, m), q, g.now), Keeps(Resolved(g, m), q),
           Undisturbed(Resolved(g, m), q)
    PROVE  LET h == WithPlayer(g, m, q)
           IN  /\ Runs(g, h, n, set) /\ DOMAIN h.players = DOMAIN g.players \union {m}
               /\ h.players[m] = q /\ SameSky(g, h) /\ Ready(h, set)
<1> DEFINE h == WithPlayer(g, m, q)
<1>3. MayBecome(g, set, m, n, q)
  BY UndisturbedIsFirm DEF MayBecome, Ready
<1>4. Runs(g, h, n, set) /\ DOMAIN h.players = DOMAIN g.players \union {m} /\ h.players[m] = q
      /\ SameSky(g, h)
  BY <1>3, EditRuns
<1> HIDE DEF h
<1>5. Ready(h, set)
  BY <1>4, RunsIs DEF Ready
<1> QED
  BY <1>4, <1>5 DEF h

(* An insurance pays the victim.                                            *)
LEMMA InsuredRuns ==
    ASSUME NEW g, NEW set, Ready(g, set), NEW m \in DOMAIN g.players, NEW level \in Nat, NEW n
    PROVE  LET h == Insured(g, m, level)
           IN  /\ Runs(g, h, n, set) /\ DOMAIN h.players = DOMAIN g.players /\ SameSky(g, h)
               /\ Ready(h, set)
<1>1. CASE Has(g, m, 18)
  <2> DEFINE p == g.players[m]
             amount == 3 * level
             q == Grant(p, amount)
             k == WithPlayer(g, m, q)
             h == Take(k, m, 18)
  <2>1. Insured(g, m, level) = h
    BY <1>1 DEF Insured
  <2>2. SoundPlayer(p, g.now) /\ Resolved(g, m) = p /\ m \in Hunters /\ g.now \in Nat
        /\ amount \in Nat /\ DOMAIN g.players \union {m} = DOMAIN g.players
    BY KnownIs, SkyIs DEF Ready
  <2> HIDE DEF p, amount
  <2>3. Follows(p, q, g.now) /\ Keeps(p, q) /\ Undisturbed(p, q)
    BY <2>2, GrantFollows, LevelledKeeps
  <2> HIDE DEF q
  <2>4. Runs(g, k, n, set) /\ DOMAIN k.players = DOMAIN g.players /\ SameSky(g, k) /\ Ready(k, set)
    BY <2>2, <2>3, OtherEditRuns
  <2> HIDE DEF k
  <2>5. Runs(k, h, n, set) /\ h.players = k.players /\ SameSky(k, h)
    BY <2>4, TakeRuns DEF Ready
  <2> HIDE DEF h
  <2>6. Runs(g, h, n, set) /\ SameSky(g, h)
    BY <2>4, <2>5, RunsOn DEF SameSky
  <2>7. Ready(h, set)
    BY <2>4, <2>5, <2>6, RunsIs DEF Ready
  <2> QED
    BY <2>1, <2>4, <2>5, <2>6, <2>7
<1>2. CASE ~Has(g, m, 18)
  BY <1>2, PlaysItself DEF Insured, Runs, Ready, SameSky
<1> QED
  BY <1>1, <1>2

(* A ricochet has its two sides, of the shooter and of the victim.          *)
LEMMA WoundRuns ==
    ASSUME NEW g, NEW set, Ready(g, set), NEW n \in DOMAIN g.players, NEW victim \in Hunters \ {n},
           NEW fate, NEW cost \in Nat, NEW level \in Nat
    PROVE  LET h == Wound(g, n, victim, fate, cost, level)
           IN  /\ Runs(g, h, n, set) /\ SameSky(g, h) /\ Ready(h, set) /\ n \in DOMAIN h.players
<1> DEFINE p == g.players[n]
           d == Debit(p, cost)
           caused == d.caused + 1
           paid == [d EXCEPT !.caused = caused]
           told == WithPlayer(g, n, paid)
           present == WithPlayer(told, victim, Resolved(told, victim))
           insured == Insured(present, victim, level)
           v == insured.players[victim]
           received == v.received + 1
           survived == v.survived + (IF fate = "fatal" THEN 0 ELSE 1)
           deaths == v.deaths + 1 - (IF fate = "fatal" THEN 0 ELSE 1)
           q == Struck(v, received, survived, deaths)
           h == WithPlayer(insured, victim, q)
<1>1. SoundPlayer(p, g.now) /\ p \in PlayerState /\ Resolved(g, n) = p /\ n \in Hunters
      /\ g.now \in Nat /\ p.caused \in Nat /\ DOMAIN g.players \union {n} = DOMAIN g.players
      /\ p.received \in Nat
  BY KnownIs, SkyIs DEF Ready, PlayerState
<1>2. Tally(g) \in Int
  BY TallyIsInteger DEF Tally, Ready, Sound
<1> HIDE DEF p
<1>3. Follows(p, d, g.now) /\ Keeps(p, d) /\ Undisturbed(p, d)
  BY <1>1, DebitFollows, LevelledKeeps
<1> HIDE DEF d
<1>4. SoundPlayer(d, g.now) /\ d.caused = p.caused /\ d.received = p.received
      /\ d.caused \in Nat /\ d \in PlayerState /\ caused \in Nat
  BY <1>1, <1>3 DEF Follows, Keeps, SoundPlayer
<1>5. paid = [d EXCEPT !.caused = @ + 1]
  BY <1>4 DEF PlayerState
<1> HIDE DEF caused
<1>6. Follows(d, paid, g.now) /\ Undisturbed(d, paid) /\ paid.caused = caused
      /\ paid.received = d.received
  BY <1>4, CausedFollows
<1> HIDE DEF paid
<1>7. Follows(p, paid, g.now) /\ Undisturbed(p, paid) /\ Firm(p, paid)
  <2>1. Follows(p, paid, g.now)
    BY <1>3, <1>6, FollowsOn
  <2> QED
    BY <1>3, <1>6, <2>1 DEF Undisturbed, Firm
<1>8. /\ Plays(g, told, n, set) /\ DOMAIN told.players = DOMAIN g.players
      /\ told.players[n] = paid /\ SameSky(g, told) /\ Tally(told) = Tally(g) + 1
  <2>1. MayBecome(g, set, n, n, paid)
    BY <1>1, <1>7 DEF MayBecome, Ready
  <2>2. Edited(g, told, set, n, n, paid)
    BY <2>1, EditPlays
  <2> HIDE DEF told
  <2>3. Tally(told) = Tally(g) + paid.caused - p.caused - paid.received + p.received
    BY <1>1, <2>2 DEF Edited
  <2>4. Tally(told) = Tally(g) + 1
    BY <1>1, <1>2, <1>4, <1>6, <2>3 DEF caused
  <2> QED
    BY <1>1, <2>2, <2>4 DEF Edited
<1> HIDE DEF told
<1>9. Ready(told, set)
  BY <1>8 DEF Ready, Plays, Few
<1>10. /\ Runs(told, present, n, set) /\ Ready(present, set) /\ SameSky(told, present)
       /\ DOMAIN present.players = DOMAIN told.players \union {victim}
  <2> DEFINE r == Resolved(told, victim)
  <2>1. SoundPlayer(r, told.now)
    BY <1>9, ResolvedSound DEF Ready
  <2> HIDE DEF r
  <2>2. Follows(r, r, told.now) /\ Keeps(r, r) /\ Undisturbed(r, r) /\ victim \in Hunters
    BY <2>1, FollowsItself DEF Undisturbed
  <2>3. r = Resolved(told, victim)
    BY DEF r
  <2> QED
    BY <1>9, <2>2, <2>3, OtherEditRuns
<1> HIDE DEF present
<1>11. /\ Runs(present, insured, n, set) /\ Ready(insured, set) /\ SameSky(present, insured)
       /\ DOMAIN insured.players = DOMAIN told.players \union {victim}
  BY <1>10, InsuredRuns
<1> HIDE DEF insured
<1>12. /\ SoundPlayer(v, insured.now) /\ v \in PlayerState /\ Resolved(insured, victim) = v
       /\ victim \in Hunters /\ DOMAIN insured.players \union {victim} = DOMAIN insured.players
       /\ v.received \in Nat /\ v.survived \in Nat /\ v.deaths \in Nat /\ v.caused \in Nat
       /\ Balanced(v) => v.received = v.survived + v.deaths
  BY <1>11, KnownIs DEF Ready, PlayerState, SoundPlayer, Balanced
<1>13. h = Wound(g, n, victim, fate, cost, level)
  <2>1. q = [v EXCEPT !.received = @ + 1, !.survived = @ + (IF fate = "fatal" THEN 0 ELSE 1),
                      !.deaths = @ + 1 - (IF fate = "fatal" THEN 0 ELSE 1)]
    BY <1>12 DEF PlayerState, Struck
  <2> QED
    BY <1>5, <2>1 DEF Wound, insured, present, told, paid, d, p
<1> HIDE DEF v
<1>14. /\ received \in Nat /\ survived \in Nat /\ deaths \in Nat
       /\ Balanced(v) => received = survived + deaths
  BY <1>12
<1>15. received = v.received + 1
  OBVIOUS
<1> HIDE DEF received, survived, deaths
<1>16. Follows(v, q, insured.now) /\ Undisturbed(v, q) /\ q.received = received
       /\ q.caused = v.caused
  <2>1. SoundPlayer(v, insured.now)
    BY <1>12
  <2> QED
    BY <2>1, <1>14, ReceivedFollows
<1> HIDE DEF q
<1>17. Plays(insured, h, n, set) /\ SameSky(insured, h) /\ Tally(h) = Tally(insured) - 1
       /\ DOMAIN h.players = DOMAIN insured.players
  <2>1. MayBecome(insured, set, victim, n, q)
    BY <1>11, <1>12, <1>16, UndisturbedIsFirm DEF MayBecome, Ready
  <2>2. Edited(insured, h, set, victim, n, q)
    BY <2>1, EditPlays
  <2>3. Tally(insured) \in Int
    BY <1>11, TallyIsInteger DEF Tally, Ready, Sound
  <2> HIDE DEF h
  <2>4. Tally(h) = Tally(insured) + q.caused - v.caused - q.received + v.received
    BY <1>12, <2>2 DEF Edited
  <2>5. Tally(h) = Tally(insured) - 1
    BY <1>12, <1>15, <1>16, <2>3, <2>4
  <2> QED
    BY <1>12, <2>2, <2>5 DEF Edited
<1> HIDE DEF h
<1>18. Plays(g, insured, n, set) /\ Tally(insured) = Tally(g) + 1 /\ SameSky(g, insured)
  BY <1>8, <1>10, <1>11, PlaysOn DEF Runs, SameSky
<1>19. Plays(g, h, n, set) /\ Tally(h) = Tally(g) /\ SameSky(g, h)
  BY <1>2, <1>17, <1>18, PlaysOn DEF SameSky
<1>20. Ready(h, set) /\ n \in DOMAIN h.players
  BY <1>8, <1>11, <1>17, <1>19 DEF Ready, Plays, Few
<1> QED
  BY <1>13, <1>19, <1>20 DEF Runs

(* A ricochet costs a natural number.                                       *)
LEMMA RicochetCostIs ==
    ASSUME NEW g, NEW n, NEW level \in Nat PROVE RicochetCost(g, n, level) \in Nat
<1>1. PICK incident \in Nat : incident = Penalties(level).incident
  BY CostsAre
<1>2. incident \div 3 \in Nat /\ incident \div 1 \in Nat
  OBVIOUS
<1> QED
  BY <1>1, <1>2 DEF RicochetCost

(* A chain of ricochets is short, and its wounds are dealt in turn. *)
LEMMA ChainOfWounds ==
    ASSUME NEW g, NEW n, NEW shot, NEW firedAt, shot.victims \in Chains(n), shot.victims # <<>>
    PROVE  LET level == g.players[n].level
               cost == RicochetCost(g, n, firedAt)
               disarmed == IF Excused(g, n) THEN g
                           ELSE WithPlayer(g, n, [g.players[n] EXCEPT !.confiscated = TRUE])
           IN  \E v, w \in Hunters \ {n}, fate \in {shot.fate, "survived"} :
                  \/ SettleIncident(g, n, shot, firedAt) = Wound(disarmed, n, v, fate, cost, level)
                  \/ SettleIncident(g, n, shot, firedAt) =
                        Wound(Wound(disarmed, n, v, fate, cost, level), n, w, shot.fate, cost, level)
<1> DEFINE level == g.players[n].level
           cost == RicochetCost(g, n, firedAt)
           disarmed == IF Excused(g, n) THEN g
                       ELSE WithPlayer(g, n, [g.players[n] EXCEPT !.confiscated = TRUE])
           last == Len(shot.victims)
           After[i \in 0..last] ==
              IF i = 0 THEN disarmed
              ELSE Wound(After[i - 1], n, shot.victims[i],
                         IF i = last THEN shot.fate ELSE "survived", cost, level)
<1>1. SettleIncident(g, n, shot, firedAt) = After[last]
  BY DEF SettleIncident
<1> HIDE DEF level, cost, disarmed
<1>2. CASE last = 1
  <2>1. PICK v \in Hunters \ {n} : shot.victims[1] = v
    BY <1>2 DEF Chains
  <2> DEFINE w1 == Wound(disarmed, n, v, shot.fate, cost, level)
             f == [i \in 0..1 |-> IF i = 0 THEN disarmed ELSE w1]
  <2>2. f = [i \in 0..last |->
               IF i = 0 THEN disarmed
               ELSE Wound(f[i - 1], n, shot.victims[i],
                          IF i = last THEN shot.fate ELSE "survived", cost, level)]
    <3>1. \A i \in 0..1 : i = 0 \/ i = 1
      OBVIOUS
    <3>2. f[0] = disarmed
      OBVIOUS
    <3> HIDE DEF last
    <3> QED
      BY <1>2, <2>1, <3>1, <3>2
  <2> HIDE DEF f
  <2>3. After = [i \in 0..last |->
               IF i = 0 THEN disarmed
               ELSE Wound(After[i - 1], n, shot.victims[i],
                          IF i = last THEN shot.fate ELSE "survived", cost, level)]
    <3> HIDE DEF last
    <3> QED
      BY <2>2, Zenon
  <2> HIDE DEF After, last
  <2>4. After[0] = disarmed /\ After[1] = Wound(After[0], n, shot.victims[1], shot.fate, cost, level)
    BY <1>2, <2>3
  <2> QED
    BY <1>1, <1>2, <2>1, <2>4 DEF level, cost, disarmed
<1>3. CASE last = 2
  <2>1. PICK v, w \in Hunters \ {n} : shot.victims[1] = v /\ shot.victims[2] = w
    BY <1>3 DEF Chains
  <2> DEFINE w1 == Wound(disarmed, n, v, "survived", cost, level)
             w2 == Wound(w1, n, w, shot.fate, cost, level)
             f == [i \in 0..2 |-> IF i = 0 THEN disarmed ELSE IF i = 1 THEN w1 ELSE w2]
  <2>2. f = [i \in 0..last |->
               IF i = 0 THEN disarmed
               ELSE Wound(f[i - 1], n, shot.victims[i],
                          IF i = last THEN shot.fate ELSE "survived", cost, level)]
    <3>1. \A i \in 0..2 : i = 0 \/ i = 1 \/ i = 2
      OBVIOUS
    <3>2. f[0] = disarmed /\ f[1] = w1
      OBVIOUS
    <3> HIDE DEF last
    <3> QED
      BY <1>3, <2>1, <3>1, <3>2
  <2> HIDE DEF f
  <2>3. After = [i \in 0..last |->
               IF i = 0 THEN disarmed
               ELSE Wound(After[i - 1], n, shot.victims[i],
                          IF i = last THEN shot.fate ELSE "survived", cost, level)]
    <3> HIDE DEF last
    <3> QED
      BY <2>2, Zenon
  <2> HIDE DEF After, last
  <2>4. /\ After[0] = disarmed
        /\ After[1] = Wound(After[0], n, shot.victims[1], "survived", cost, level)
        /\ After[2] = Wound(After[1], n, shot.victims[2], shot.fate, cost, level)
    BY <1>3, <2>3
  <2> QED
    BY <1>1, <1>3, <2>1, <2>4 DEF level, cost, disarmed
<1>4. last \in {1, 2}
  BY DEF Chains
<1> QED
  BY <1>2, <1>3, <1>4

(* An incident: the weapon, and up to two victims.                          *)
LEMMA SettleIncidentRuns ==
    ASSUME NEW g, NEW set, Ready(g, set), NEW n \in DOMAIN g.players, NEW shot,
           NEW firedAt \in Nat, shot.victims \in Chains(n), shot.victims # <<>>
    PROVE  LET h == SettleIncident(g, n, shot, firedAt)
           IN  Runs(g, h, n, set) /\ SameSky(g, h) /\ Ready(h, set) /\ n \in DOMAIN h.players
<1> DEFINE p == g.players[n]
           level == p.level
           cost == RicochetCost(g, n, firedAt)
           disarmed == IF Excused(g, n) THEN g
                       ELSE WithPlayer(g, n, [p EXCEPT !.confiscated = TRUE])
           h == SettleIncident(g, n, shot, firedAt)
<1>1. cost \in Nat
  BY RicochetCostIs
<1>2. SoundPlayer(p, g.now) /\ Resolved(g, n) = p /\ n \in Hunters
      /\ DOMAIN g.players \union {n} = DOMAIN g.players
  BY KnownIs DEF Ready
<1>3. level \in Nat
  BY KnownIs DEF Ready, PlayerState
<1>4. Runs(g, disarmed, n, set) /\ SameSky(g, disarmed) /\ Ready(disarmed, set)
      /\ n \in DOMAIN disarmed.players
  <2>1. CASE Excused(g, n)
    BY <2>1, PlaysItself DEF Runs, Ready, SameSky
  <2>2. CASE ~Excused(g, n)
    <3> DEFINE confiscated == TRUE
               q == [p EXCEPT !.confiscated = confiscated]
    <3>1. disarmed = WithPlayer(g, n, q)
      BY <2>2
    <3> HIDE DEF disarmed, p
    <3>2. Follows(p, q, g.now) /\ Keeps(p, q) /\ Firm(p, q)
      BY <1>2, DisarmFollows
    <3> HIDE DEF q
    <3> QED
      BY <1>2, <3>1, <3>2, OwnEditRuns
  <2> QED
    BY <2>1, <2>2
<1>5. PICK v, w \in Hunters \ {n}, fate \in {shot.fate, "survived"} :
         \/ h = Wound(disarmed, n, v, fate, cost, level)
         \/ h = Wound(Wound(disarmed, n, v, fate, cost, level), n, w, shot.fate, cost, level)
  BY ChainOfWounds
<1> HIDE DEF disarmed, cost, level, h
<1> DEFINE one == Wound(disarmed, n, v, fate, cost, level)
           two == Wound(one, n, w, shot.fate, cost, level)
<1>6. Runs(disarmed, one, n, set) /\ SameSky(disarmed, one) /\ Ready(one, set)
      /\ n \in DOMAIN one.players
  BY <1>1, <1>3, <1>4, WoundRuns
<1>7. h = one \/ h = two
  BY <1>5
<1> HIDE DEF one
<1>8. Runs(one, two, n, set) /\ SameSky(one, two) /\ Ready(two, set) /\ n \in DOMAIN two.players
  BY <1>1, <1>3, <1>6, WoundRuns
<1> HIDE DEF two
<1>9. Runs(g, one, n, set) /\ SameSky(g, one)
  BY <1>4, <1>6, RunsOn DEF SameSky
<1>10. Runs(g, two, n, set) /\ SameSky(g, two)
  BY <1>8, <1>9, RunsOn DEF SameSky
<1> QED
  BY <1>6, <1>7, <1>8, <1>9, <1>10 DEF h

-----------------------------------------------------------------------------
(* What becomes of a shot.                                                  *)

(* A shot that misses.                                                      *)
LEMMA MissedShotRuns ==
    ASSUME NEW g, NEW set, Ready(g, set), NEW n \in Hunters, NEW shot, shot.victims \in Chains(n)
    PROVE  Runs(g, MissedShot(g, n, shot), n, set)
<1> DEFINE fired == PullTrigger(g, n, shot)
           missed == Miss(fired, n)
           firedAt == Resolved(g, n).level
           settled == IF shot.victims = <<>> \/ Late(g) THEN missed
                      ELSE SettleIncident(missed, n, shot, firedAt)
           over == IF Frightened(fired, n) THEN EndFlight(settled, FALSE) ELSE settled
           h == Finish(over, n)
<1>1. MissedShot(g, n, shot) = h
  BY DEF MissedShot
<1>2. firedAt \in Nat
  BY ResolvedSound DEF Ready, SoundPlayer, PlayerState
<1>3. Runs(g, fired, n, set) /\ Ready(fired, set) /\ n \in DOMAIN fired.players
  BY PullTriggerRuns
<1> HIDE DEF fired, firedAt
<1>4. Runs(fired, missed, n, set) /\ Ready(missed, set) /\ (Flying(fired) => Flying(missed))
      /\ n \in DOMAIN missed.players
  BY <1>3, MissRuns
<1> HIDE DEF missed
<1>5. Runs(missed, settled, n, set) /\ Ready(settled, set) /\ (Flying(missed) => Flying(settled))
      /\ n \in DOMAIN settled.players
  <2>1. CASE shot.victims = <<>> \/ Late(g)
    BY <1>4, <2>1, PlaysItself DEF Runs, Ready
  <2>2. CASE ~(shot.victims = <<>> \/ Late(g))
    <3> DEFINE k == SettleIncident(missed, n, shot, firedAt)
    <3>1. Runs(missed, k, n, set) /\ SameSky(missed, k) /\ Ready(k, set) /\ n \in DOMAIN k.players
      BY <1>2, <1>4, <2>2, SettleIncidentRuns
    <3>2. settled = k
      BY <2>2
    <3> QED
      BY <3>1, <3>2 DEF SameSky, Flying
  <2> QED
    BY <2>1, <2>2
<1> HIDE DEF settled
<1>6. Runs(settled, over, n, set) /\ Ready(over, set) /\ n \in DOMAIN over.players
  <2>1. CASE Frightened(fired, n)
    <3> DEFINE k == EndFlight(settled, FALSE)
    <3>1. Flying(settled)
      BY <1>4, <1>5, <2>1 DEF Frightened, Heard
    <3>2. Sound(k, set) /\ Beside(settled, k) /\ SkyGoes(settled, k)
      BY <1>5, <3>1, EndFlightSound DEF Ready
    <3>3. over = k
      BY <2>1
    <3> HIDE DEF k, over
    <3>4. Runs(settled, k, n, set) /\ k.players = settled.players
      BY <3>2, BesideRuns
    <3> QED
      BY <1>5, <3>2, <3>3, <3>4 DEF Ready, Few
  <2>2. CASE ~Frightened(fired, n)
    BY <1>5, <2>2, PlaysItself DEF Runs, Ready
  <2> QED
    BY <2>1, <2>2
<1> HIDE DEF over
<1>7. Runs(over, h, n, set)
  BY <1>6, FinishRuns
<1> HIDE DEF h
<1> QED
  BY <1>1, <1>3, <1>4, <1>5, <1>6, <1>7, RunsOn

(* A shot does a natural number of damage.                                  *)
LEMMA DamageIs == \A g, n : Damage(g, n) \in Nat
BY DEF Damage, Frenzy

(* A shot that the flight survives.                                         *)
LEMMA WoundedFlightRuns ==
    ASSUME NEW g, NEW set, Ready(g, set), NEW n \in Hunters, NEW shot, Flying(g), Survives(g, n)
    PROVE  Runs(g, WoundedFlight(g, n, shot), n, set)
<1> DEFINE fired == PullTrigger(g, n, shot)
           damage == Damage(g, n)
           hurt == [fired EXCEPT !.flight.health = @ - damage]
           h == Finish(hurt, n)
<1>1. WoundedFlight(g, n, shot) = h
  BY DEF WoundedFlight
<1>2. Runs(g, fired, n, set) /\ Ready(fired, set) /\ n \in DOMAIN fired.players
      /\ SameSky(g, fired)
  BY PullTriggerRuns
<1>3. damage \in Nat /\ damage < g.flight.health
  BY DamageIs DEF Survives
<1> HIDE DEF fired, damage
<1>4. Flying(fired) /\ damage < fired.flight.health /\ Sound(fired, set)
  BY <1>2, <1>3 DEF SameSky, Flying, Ready
<1>5. Sound(hurt, set) /\ Beside(fired, hurt) /\ SkyGoes(fired, hurt)
  BY <1>3, <1>4, HurtSound
<1> HIDE DEF hurt
<1>6. Runs(fired, hurt, n, set) /\ Ready(hurt, set) /\ n \in DOMAIN hurt.players
  <2>1. Runs(fired, hurt, n, set) /\ hurt.players = fired.players
    BY <1>5, BesideRuns
  <2> QED
    BY <1>2, <1>5, <2>1 DEF Ready, Few
<1>7. Runs(hurt, h, n, set)
  BY <1>6, FinishRuns
<1> HIDE DEF h
<1> QED
  BY <1>1, <1>2, <1>6, <1>7, RunsOn

(* What the bonus adds, and what the confusion leaves. *)
LEMMA PrizeIs ==
    ASSUME NEW g, NEW set, Sound(g, set), NEW n PROVE Prize(g, n) \in Nat
<1> DEFINE bonus == IF Has(g, n, 10)
                    THEN CHOOSE m \in 1..10 : \E e \in Owned(g, n, {10}) : e.magnitude = m
                    ELSE 0
<1>1. bonus \in Nat
  <2>1. CASE Has(g, n, 10)
    <3>1. PICK e \in Owned(g, n, {10}) : TRUE
      BY <2>1 DEF Has
    <3>2. e \in g.effects /\ e.item = 10 /\ ValidEffect(e)
      BY <3>1 DEF Owned, Sound, SoundEffects
    <3>3. e.magnitude \in 1..10
      BY <3>2 DEF ValidEffect, Promotions
    <3> QED
      BY <2>1, <3>1, <3>3
  <2> QED
    BY <2>1
<1>2. g.flight.reward \in Nat
  BY SkyIs DEF FlightRecord
<1> HIDE DEF bonus
<1>3. PICK whole \in Nat : whole = g.flight.reward + bonus
  BY <1>1, <1>2
<1>4. whole \div 2 \in Nat /\ whole \div 1 \in Nat
  OBVIOUS
<1> QED
  BY <1>3, <1>4 DEF Prize, bonus

(* The amulets of the hunter call the next flight.                          *)
LEMMA TriggeredRuns ==
    ASSUME NEW g, NEW set, Ready(g, set), NEW n \in DOMAIN g.players
    PROVE  LET h == Triggered(g, n)
           IN  Runs(g, h, n, set) /\ Ready(h, set) /\ h.players = g.players
<1> DEFINE due == g.now + 10 * Minute
           fed == IF Has(g, n, 112) THEN Activate(g, Nobody, 21, Nobody, due) ELSE g
           h == IF Has(g, n, 113) THEN AddCall(fed, 23, n, due) ELSE fed
<1>1. Triggered(g, n) = h
  BY DEF Triggered
<1>2. g.now \in Nat /\ due \in Nat
  BY SkyIs DEF Ready, Minute
<1>3. Sound(fed, set) /\ Beside(g, fed) /\ SameSky(g, fed)
  <2>1. CASE Has(g, n, 112)
    <3>1. FitsItem(21, Nobody, due, g.now)
      BY <1>2 DEF FitsItem, Items, Kind, Promotions, Hour, Minute
    <3> HIDE DEF due
    <3> QED
      BY <2>1, <3>1, ActivateSound DEF Ready
  <2>2. CASE ~Has(g, n, 112)
    BY <2>2 DEF Ready, Beside, SameSky
  <2> QED
    BY <2>1, <2>2
<1> HIDE DEF fed, due
<1>4. Sound(h, set) /\ Beside(fed, h) /\ SameSky(fed, h)
  <2>1. CASE Has(g, n, 113)
    <3>1. n \in DOMAIN fed.players \union {Nobody}
      BY <1>3 DEF Beside
    <3> QED
      BY <1>2, <1>3, <2>1, <3>1, CallsSound
  <2>2. CASE ~Has(g, n, 113)
    BY <1>3, <2>2 DEF Beside, SameSky
  <2> QED
    BY <2>1, <2>2
<1> HIDE DEF h
<1>5. Beside(g, h) /\ SameSky(g, h)
  BY <1>3, <1>4 DEF Beside, SameSky
<1>6. Runs(g, h, n, set) /\ h.players = g.players
  BY <1>4, <1>5, SkyStays, BesideRuns
<1> QED
  BY <1>1, <1>4, <1>6 DEF Ready, Few

-----------------------------------------------------------------------------
(* Finds.                                                                   *)

(* What a find may be, by its grant. *)
LEMMA LootIs ==
    ASSUME NEW find \in Loot
    PROVE  /\ find.grant \in {"experience", "credit"} => find.amount \in Nat
           /\ find.grant = "effect" =>
                 /\ find.item \in {3, 4, 6, 7, 8, 9, 10, 11, 22}
                 /\ find.amount \in Magnitudes(find.item)
           /\ find.grant = "reward" => find.item \in 101..118 /\ find.amount = 0
           /\ find.grant = "upgrade" => find.what \in Upgrades
           /\ find.grant = "curse" => find.what \in Curses
           /\ find.grant # "letter"
<1>1. CASE find \in StandardLoot
  <2>1. CASE \E grant \in {"decoration", "ammunition", "magazine"} : find = Find(grant, 0, 0)
    BY <2>1 DEF Find, Nothing
  <2>2. CASE \E a \in {10, 20, 30, 40, 50, 100} : find = Find("experience", 0, a)
    BY <2>2 DEF Find, Nothing
  <2>3. CASE \E i \in {3, 4, 6, 7, 8, 9, 10, 11, 22} : \E m \in Magnitudes(i) :
                find = Find("effect", i, m)
    BY <2>3 DEF Find, Nothing
  <2> QED
    BY <1>1, <2>1, <2>2, <2>3 DEF StandardLoot
<1>2. CASE find \in UnusualLoot
  <2>1. CASE \E a \in {10, 20, 50, 75} : find = Find("credit", 0, a)
    BY <2>1 DEF Find, Nothing
  <2>2. CASE \E i \in 101..118 : find = Find("reward", i, 0)
    BY <2>2 DEF Find, Nothing
  <2>3. CASE \E u \in Upgrades : find = FindOf("upgrade", u)
    BY <2>3 DEF FindOf, Nothing
  <2>4. CASE \E c \in Curses : find = FindOf("curse", c)
    BY <2>4 DEF FindOf, Nothing
  <2> QED
    BY <1>2, <2>1, <2>2, <2>3, <2>4 DEF UnusualLoot
<1> QED
  BY <1>1, <1>2 DEF Loot

(* The items that are found.                                                *)
LEMMA FoundItems ==
    ASSUME NEW item \in {3, 4, 6, 7, 8, 9, 10, 11, 22} \union 101..118
    PROVE  /\ item \in Items /\ Kind(item) # "target" /\ item \notin {14, 15, 16, 21, 26, 28}
           /\ RemovedBy(6) = {15}
           /\ item \in {7, 10} => item \notin Promotions
BY DEF Items, Kind, RemovedBy, Promotions

(* What is found is an effect the catalog accepts.                          *)
LEMMA FoundFits ==
    ASSUME NEW item \in {3, 4, 6, 7, 8, 9, 10, 11, 22} \union 101..118, NEW amount,
           amount \in Magnitudes(item), NEW at
    PROVE  FitsItem(item, Nobody, IF item \in Promotions THEN PromotionOf(item) ELSE amount, at)
<1>1. PromotionOf(item) \in Nat
  BY DEF PromotionOf
<1>2. item = 7 => amount \in 0..15
  BY DEF Magnitudes
<1>3. item = 10 => amount \in 1..10
  BY DEF Magnitudes
<1>4. item \notin {7, 10} => amount = 0
  BY DEF Magnitudes
<1>5. amount \in Nat
  BY <1>2, <1>3, <1>4
<1> HIDE DEF Magnitudes
<1> QED
  BY <1>1, <1>2, <1>3, <1>4, <1>5, FoundItems DEF FitsItem, Promotions

(* An effect is found.                                                      *)
LEMMA FindEffectRuns ==
    ASSUME NEW g, NEW set, Ready(g, set), NEW n \in DOMAIN g.players, NEW find,
           find.item \in {3, 4, 6, 7, 8, 9, 10, 11, 22} \union 101..118,
           find.amount \in Magnitudes(find.item)
    PROVE  LET h == FindEffect(g, n, find)
           IN  Runs(g, h, n, set) /\ h.players = g.players
<1> DEFINE item == find.item
           gone == Owned(g, n, Group(item) \union RemovedBy(item))
           kept == Without(g, gone)
           magnitude == IF item \in Promotions THEN PromotionOf(item) ELSE find.amount
           h == Activate(kept, n, item, Nobody, magnitude)
<1>1. FindEffect(g, n, find) = h
  BY DEF FindEffect
<1>2. Sound(kept, set) /\ Beside(g, kept) /\ SameSky(g, kept)
      /\ kept.effects = g.effects \ gone
  BY WithoutSound DEF Ready
<1>3. FitsItem(item, Nobody, magnitude, kept.now)
  BY FoundFits
<1>4. MayHave(kept, n, item)
  <2>1. \A e \in kept.effects : e.owner = n => e.item \notin Group(item) \union RemovedBy(item)
    <3>1. \A e \in g.effects : e \notin gone /\ e.owner = n =>
                                  e.item \notin Group(item) \union RemovedBy(item)
      BY DEF Owned
    <3> HIDE DEF gone, kept
    <3> QED
      BY <1>2, <3>1
  <2>2. item = 6 => ~Has(kept, n, 15)
    <3>1. item = 6 => 15 \in RemovedBy(item)
      BY FoundItems
    <3> QED
      BY <2>1, <3>1 DEF Has, Owned
  <2> HIDE DEF kept
  <2> QED
    BY <2>1, <2>2, FoundItems DEF MayHave
<1> HIDE DEF magnitude, kept, item
<1>5. Sound(h, set) /\ Beside(kept, h) /\ SameSky(kept, h)
  <2>1. n \in DOMAIN kept.players \union {Nobody}
    BY <1>2 DEF Beside
  <2> QED
    BY <1>2, <1>3, <1>4, <2>1, ActivateSound
<1> HIDE DEF h
<1>6. Beside(g, h) /\ SameSky(g, h)
  BY <1>2, <1>5 DEF Beside, SameSky
<1> QED
  BY <1>1, <1>5, <1>6, SkyStays, BesideRuns

(* A curse is found.                                                        *)
LEMMA FindCurseRuns ==
    ASSUME NEW g, NEW set, Ready(g, set), NEW n \in DOMAIN g.players, NEW curse \in Curses
    PROVE  LET h == FindCurse(g, n, curse)
           IN  Runs(g, h, n, set) /\ h.players = g.players
<1>1. CASE Has(g, n, 103)
  <2> DEFINE h == Without(g, Owned(g, n, {103}))
  <2>1. FindCurse(g, n, curse) = h
    BY <1>1 DEF FindCurse
  <2>2. Sound(h, set) /\ Beside(g, h) /\ SameSky(g, h)
    BY WithoutSound DEF Ready
  <2> HIDE DEF h
  <2> QED
    BY <2>1, <2>2, SkyStays, BesideRuns
<1>2. CASE ~Has(g, n, 103)
  <2> DEFINE old == {c \in g.curses : ~(c.owner = n /\ c.curse = curse)}
             new == [id |-> g.nextCurse, curse |-> curse, owner |-> n,
                     expires |-> g.now + CurseHours(curse) * Hour]
             curses == old \union {new}
             next == g.nextCurse + 1
             h == [g EXCEPT !.curses = curses, !.nextCurse = next]
  <2>1. g \in GameState(DOMAIN g.players) /\ n \in Hunters /\ SoundCurses(g)
    BY DEF Ready, Sound, Typed
  <2>2. g.curses \subseteq ActiveCurse /\ g.nextCurse \in Nat /\ g.now \in Nat
    BY <2>1 DEF GameState
  <2>3. CurseHours(curse) * Hour \in Nat /\ CurseHours(curse) * Hour > 0
    BY DEF CurseHours, Hour, Minute
  <2>4. FindCurse(g, n, curse) = h
    BY <1>2, <2>1 DEF FindCurse, GameState
  <2>5. new \in ActiveCurse /\ new.expires > g.now
    BY <2>1, <2>2, <2>3 DEF ActiveCurse
  <2>6. curses \subseteq ActiveCurse /\ next \in Nat
    BY <2>2, <2>5
  <2>7. SoundCurses(h)
    <3>1. h.curses = curses /\ h.nextCurse = next /\ h.players = g.players /\ h.now = g.now
      BY <2>1 DEF GameState
    <3>2. \A c \in curses : c.id < next /\ c.owner \in DOMAIN g.players /\ c.expires > g.now
      <4>1. \A c \in g.curses : c.id \in Nat
        BY <2>2 DEF ActiveCurse
      <4> QED
        BY <2>1, <2>2, <2>5, <4>1 DEF SoundCurses
    <3>3. \A c, d \in curses : c.id = d.id => c = d
      <4>1. \A c \in g.curses : c.id \in Nat
        BY <2>2 DEF ActiveCurse
      <4> QED
        BY <2>1, <2>2, <4>1 DEF SoundCurses
    <3> HIDE DEF h, curses, next
    <3> QED
      BY <3>1, <3>2, <3>3 DEF SoundCurses
  <2> HIDE DEF curses, next
  <2>8. Sound(h, set) /\ Beside(g, h) /\ SameSky(g, h)
    BY <2>6, <2>7, CursesSound DEF Ready
  <2> HIDE DEF h
  <2> QED
    BY <2>4, <2>8, SkyStays, BesideRuns
<1> QED
  BY <1>1, <1>2

(* Anything but a letter is found.                                          *)
LEMMA FindPlainRuns ==
    ASSUME NEW g, NEW set, Ready(g, set), NEW n \in DOMAIN g.players, NEW find \in Loot
    PROVE  LET h == FindPlain(g, n, find)
           IN  Runs(g, h, n, set) /\ Ready(h, set) /\ n \in DOMAIN h.players
<1> DEFINE h == FindPlain(g, n, find)
           p == g.players[n]
<1>1. SoundPlayer(p, g.now) /\ p \in PlayerState /\ Resolved(g, n) = p /\ n \in Hunters
      /\ SoundWeapon(p) /\ g.now \in Nat
  BY KnownIs, SkyIs, SoundParts DEF Ready, SoundPlayer
<1>2. /\ p.ammo \in Nat /\ p.capacity \in Nat /\ p.magazines \in Nat /\ p.magazineCapacity \in Nat
      /\ p.credit \in Nat
  BY <1>1 DEF PlayerState
<1>3. SUFFICES Runs(g, h, n, set)
  <2>1. Ready(h, set) /\ n \in DOMAIN h.players
    <3> HIDE DEF h
    <3> QED
      BY <1>3, RunsIs DEF Ready
  <2> QED
    BY <1>3, <2>1
<1>4. ASSUME NEW q, Follows(p, q, g.now), Keeps(p, q), Firm(p, q), h = WithPlayer(g, n, q)
      PROVE  Runs(g, h, n, set)
  BY <1>1, <1>4, OwnEditRuns
<1>5. CASE find.grant = "ammunition"
  <2> DEFINE ammo == Least(p.ammo + 1, p.capacity)
             q == [p EXCEPT !.ammo = ammo]
  <2>1. ammo \in Nat /\ ammo <= p.capacity
    BY <1>2 DEF Least
  <2>2. q = [p EXCEPT !.ammo = Least(@ + 1, p.capacity)]
    BY <1>1 DEF PlayerState
  <2>3. h = WithPlayer(g, n, q)
    BY <1>5, <2>2 DEF FindPlain
  <2> HIDE DEF ammo, h, p
  <2>4. Follows(p, q, g.now) /\ Keeps(p, q) /\ Firm(p, q)
    BY <1>1, <2>1, AmmoFollows, UndisturbedIsFirm
  <2> HIDE DEF q
  <2> QED
    BY <1>4, <2>3, <2>4
<1>6. CASE find.grant = "magazine"
  <2> DEFINE magazines == Least(p.magazines + 1, p.magazineCapacity)
             q == [p EXCEPT !.magazines = magazines]
  <2>1. magazines \in Nat /\ magazines <= p.magazineCapacity
    BY <1>2 DEF Least
  <2>2. q = [p EXCEPT !.magazines = Least(@ + 1, p.magazineCapacity)]
    BY <1>1 DEF PlayerState
  <2>3. h = WithPlayer(g, n, q)
    BY <1>6, <2>2 DEF FindPlain
  <2> HIDE DEF magazines, h, p
  <2>4. Follows(p, q, g.now) /\ Keeps(p, q) /\ Firm(p, q)
    BY <1>1, <2>1, MagazinesFollows, UndisturbedIsFirm
  <2> HIDE DEF q
  <2> QED
    BY <1>4, <2>3, <2>4
<1>7. CASE find.grant = "experience"
  <2> DEFINE q == Grant(p, find.amount)
  <2>1. find.amount \in Nat /\ h = WithPlayer(g, n, q)
    BY <1>7, LootIs DEF FindPlain
  <2> HIDE DEF h, p
  <2>2. Follows(p, q, g.now) /\ Keeps(p, q) /\ Firm(p, q)
    BY <1>1, <2>1, GrantFollows, LevelledKeeps
  <2> HIDE DEF q
  <2> QED
    BY <1>4, <2>1, <2>2
<1>8. CASE find.grant = "credit"
  <2> DEFINE credit == p.credit + find.amount
             q == [p EXCEPT !.credit = credit]
  <2>1. find.amount \in Nat
    BY <1>8, LootIs
  <2>2. credit \in Nat
    BY <1>2, <2>1
  <2>3. h = WithPlayer(g, n, q)
    <3>1. q = [p EXCEPT !.credit = @ + find.amount]
      BY <1>1 DEF PlayerState
    <3> QED
      BY <1>8, <3>1 DEF FindPlain
  <2> HIDE DEF credit, h, p
  <2>4. Follows(p, q, g.now) /\ Keeps(p, q) /\ Firm(p, q)
    BY <1>1, <2>2, CreditFollows, UndisturbedIsFirm
  <2> HIDE DEF q
  <2> QED
    BY <1>4, <2>3, <2>4
<1>9. CASE find.grant \in {"effect", "reward"}
  <2>1. /\ find.item \in {3, 4, 6, 7, 8, 9, 10, 11, 22} \union 101..118
        /\ find.amount \in Magnitudes(find.item)
    <3>1. CASE find.grant = "effect"
      BY <3>1, LootIs
    <3>2. CASE find.grant = "reward"
      BY <3>2, LootIs DEF Magnitudes
    <3> QED
      BY <1>9, <3>1, <3>2
  <2>2. h = FindEffect(g, n, find)
    BY <1>9 DEF FindPlain
  <2> QED
    BY <2>1, <2>2, FindEffectRuns
<1>10. CASE find.grant = "curse"
  <2>1. find.what \in Curses
    BY <1>10, LootIs
  <2>2. h = FindCurse(g, n, find.what)
    BY <1>10 DEF FindPlain
  <2> QED
    BY <2>1, <2>2, FindCurseRuns
<1>11. CASE find.grant = "upgrade"
  <2>1. find.what \in Upgrades
    BY <1>11, LootIs
  <2>2. h = FindUpgrade(g, n, find.what)
    BY <1>11 DEF FindPlain
  <2> QED
    BY <2>1, <2>2, UpgradePlays DEF Runs, Ready
<1>12. CASE find.grant \notin {"ammunition", "magazine", "experience", "credit", "effect", "reward",
                              "curse", "upgrade"}
  <2>1. h = g
    BY <1>12 DEF FindPlain
  <2> QED
    BY <2>1, PlaysItself DEF Runs, Ready
<1> QED
  BY <1>5, <1>6, <1>7, <1>8, <1>9, <1>10, <1>11, <1>12

(* The last letter of the phrase is traded for its prize.                   *)
LEMMA CompleteRuns ==
    ASSUME NEW g, NEW set, Ready(g, set), NEW n \in DOMAIN g.players, NEW find,
           find.then[1] \in Loot
    PROVE  Runs(g, Complete(g, n, find), n, set) /\ n \in DOMAIN Complete(g, n, find).players
<1> DEFINE p == g.players[n]
           letters == {}
           q == [p EXCEPT !.letters = letters]
           emptied == WithPlayer(g, n, q)
           won == FindPlain(emptied, n, find.then[1])
           r == won.players[n]
           ammo == r.capacity
           magazines == r.magazineCapacity
           credit == r.credit + 50
           s == [r EXCEPT !.ammo = ammo, !.magazines = magazines, !.credit = credit]
           h == WithPlayer(won, n, s)
<1>1. SoundPlayer(p, g.now) /\ Resolved(g, n) = p /\ n \in Hunters
  BY KnownIs DEF Ready
<1>2. Follows(p, q, g.now) /\ Keeps(p, q) /\ Firm(p, q)
  <2>1. letters \in SUBSET Letters
    OBVIOUS
  <2> HIDE DEF p, letters
  <2> QED
    BY <1>1, <2>1, LettersFollows, UndisturbedIsFirm
<1>3. emptied = WithPlayer(g, n, [g.players[n] EXCEPT !.letters = {}])
  OBVIOUS
<1> HIDE DEF q
<1>4. Runs(g, emptied, n, set) /\ Ready(emptied, set) /\ n \in DOMAIN emptied.players
  BY <1>1, <1>2, OwnEditRuns
<1> HIDE DEF emptied
<1>5. Runs(emptied, won, n, set) /\ Ready(won, set) /\ n \in DOMAIN won.players
  BY <1>4, FindPlainRuns
<1>6. Complete(g, n, find) = WithPlayer(won, n, [r EXCEPT !.ammo = r.capacity,
                                 !.magazines = r.magazineCapacity, !.credit = @ + 50])
  BY <1>3 DEF Complete
<1> HIDE DEF won
<1>7. SoundPlayer(r, won.now) /\ r \in PlayerState /\ Resolved(won, n) = r
  BY <1>5, KnownIs DEF Ready
<1>8. ammo \in Nat /\ magazines \in Nat /\ credit \in Nat /\ ammo <= r.capacity
      /\ magazines <= r.magazineCapacity
  BY <1>7 DEF PlayerState
<1>9. Complete(g, n, find) = h
  BY <1>6, <1>7 DEF PlayerState
<1> HIDE DEF r, ammo, magazines, credit
<1>10. Follows(r, s, won.now) /\ Keeps(r, s) /\ Firm(r, s)
  BY <1>7, <1>8, PrizeFollows, UndisturbedIsFirm
<1> HIDE DEF s
<1>11. Runs(won, h, n, set) /\ n \in DOMAIN h.players
  BY <1>1, <1>5, <1>7, <1>10, OwnEditRuns
<1> HIDE DEF h
<1> QED
  BY <1>4, <1>5, <1>9, <1>11, RunsOn

(* What a kill brings.                                                      *)
LEMMA AcquireLootRuns ==
    ASSUME NEW g, NEW set, Ready(g, set), NEW n \in DOMAIN g.players, NEW find \in Awards,
           Completes(g.players[n], find.what) /\ find.grant = "letter" => find.then # <<>>
    PROVE  LET h == AcquireLoot(g, n, find)
           IN  Runs(g, h, n, set) /\ n \in DOMAIN h.players
<1>1. CASE find.grant = "letter" /\ Completes(g.players[n], find.what)
  <2>1. find.then[1] \in Loot
    <3>1. find \in LetterLoot
      <4>1. \A i \in Loot : i.grant # "letter"
        BY LootIs
      <4> QED
        BY <1>1, <4>1 DEF Awards
    <3>2. PICK i \in Letters, then \in {<<>>} \union {<<f>> : f \in Loot} :
             find = [FindOf("letter", Phrase[i]) EXCEPT !.then = then]
      BY <3>1 DEF LetterLoot
    <3>3. find.then = then
      BY <3>2 DEF FindOf, Nothing
    <3> QED
      BY <1>1, <3>3
  <2>2. AcquireLoot(g, n, find) = Complete(g, n, find)
    BY <1>1 DEF AcquireLoot, FindLetter
  <2> QED
    BY <2>1, <2>2, CompleteRuns
<1>2. CASE find.grant = "letter" /\ ~Completes(g.players[n], find.what)
  <2> DEFINE p == g.players[n]
             first == {i \in Missing(p, find.what) : \A j \in Missing(p, find.what) : i <= j}
             letters == p.letters \union first
             q == [p EXCEPT !.letters = letters]
  <2>1. SoundPlayer(p, g.now) /\ p \in PlayerState /\ Resolved(g, n) = p /\ n \in Hunters
    BY KnownIs DEF Ready
  <2>2. letters \in SUBSET Letters
    BY <2>1 DEF PlayerState, Missing
  <2>3. AcquireLoot(g, n, find) = WithPlayer(g, n, q)
    <3>1. q = [p EXCEPT !.letters = @ \union first]
      BY <2>1 DEF PlayerState
    <3> QED
      BY <1>2, <3>1 DEF AcquireLoot, FindLetter
  <2> HIDE DEF letters, p
  <2>4. Follows(p, q, g.now) /\ Keeps(p, q) /\ Firm(p, q)
    BY <2>1, <2>2, LettersFollows, UndisturbedIsFirm
  <2> HIDE DEF q
  <2> QED
    BY <2>1, <2>3, <2>4, OwnEditRuns
<1>3. CASE find.grant # "letter"
  <2>1. find \in Loot
    <3>1. \A f \in LetterLoot : f.grant = "letter"
      <4> SUFFICES ASSUME NEW f \in LetterLoot PROVE f.grant = "letter"
        OBVIOUS
      <4>1. PICK i \in Letters, then \in {<<>>} \union {<<x>> : x \in Loot} :
               f = [FindOf("letter", Phrase[i]) EXCEPT !.then = then]
        BY DEF LetterLoot
      <4> QED
        BY <4>1 DEF FindOf, Nothing
    <3> QED
      BY <1>3, <3>1 DEF Awards
  <2>2. AcquireLoot(g, n, find) = FindPlain(g, n, find)
    BY <1>3 DEF AcquireLoot
  <2> QED
    BY <2>1, <2>2, FindPlainRuns
<1> QED
  BY <1>1, <1>2, <1>3

-----------------------------------------------------------------------------
(* Kills, and shots as a whole.                                             *)

(* The credit of a milestone is a natural number.                           *)
LEMMA MilestoneIs == \A hits \in Nat : MilestoneCredit(hits) \in Nat
BY DEF MilestoneCredit

(* The kill, up to what its hunter finds. *)
Called(g, n, shot) ==
    LET fired == PullTrigger(g, n, shot)
        p == fired.players[n]
        credited == [p EXCEPT !.hits = @ + 1,
                              !.carried = @ + (IF g.flight.kind = "mechanical" THEN 0 ELSE 1),
                              !.credit = @ + MilestoneCredit(p.hits + 1)]
    IN  Triggered(EndFlight(WithPlayer(fired, n, Grant(credited, Prize(fired, n))), TRUE), n)

(* A kill, up to what it brings.                                            *)
LEMMA CalledRuns ==
    ASSUME NEW g, NEW set, Ready(g, set), NEW n \in Hunters, NEW shot, Flying(g)
    PROVE  LET h == Called(g, n, shot)
           IN  Runs(g, h, n, set) /\ Ready(h, set) /\ n \in DOMAIN h.players
<1> DEFINE fired == PullTrigger(g, n, shot)
           p == fired.players[n]
           hits == p.hits + 1
           carried == p.carried + (IF g.flight.kind = "mechanical" THEN 0 ELSE 1)
           credit == p.credit + MilestoneCredit(p.hits + 1)
           credited == [p EXCEPT !.hits = hits, !.carried = carried, !.credit = credit]
           prize == Prize(fired, n)
           granted == Grant(credited, prize)
           k == WithPlayer(fired, n, granted)
           killed == EndFlight(k, TRUE)
           h == Triggered(killed, n)
<1>1. Runs(g, fired, n, set) /\ Ready(fired, set) /\ n \in DOMAIN fired.players
      /\ SameSky(g, fired)
  BY PullTriggerRuns
<1> HIDE DEF fired
<1>2. SoundPlayer(p, fired.now) /\ p \in PlayerState /\ Resolved(fired, n) = p
      /\ fired.now \in Nat /\ Flying(fired)
  BY <1>1, KnownIs, SkyIs DEF Ready, SameSky, Flying
<1>3. hits \in Nat /\ carried \in Nat /\ credit \in Nat
  <2>1. p.hits \in Nat /\ p.carried \in Nat /\ p.credit \in Nat
    BY <1>2 DEF PlayerState
  <2>2. MilestoneCredit(p.hits + 1) \in Nat
    BY <2>1, MilestoneIs
  <2> QED
    BY <2>1, <2>2
<1>4. Called(g, n, shot) = h
  <2>1. credited = [p EXCEPT !.hits = @ + 1,
                              !.carried = @ + (IF g.flight.kind = "mechanical" THEN 0 ELSE 1),
                              !.credit = @ + MilestoneCredit(p.hits + 1)]
    BY <1>2 DEF PlayerState
  <2> QED
    BY <2>1 DEF Called, fired
<1>5. prize \in Nat
  BY <1>1, PrizeIs DEF Ready
<1> HIDE DEF p, hits, carried, credit, prize
<1>6. Follows(p, credited, fired.now) /\ Keeps(p, credited) /\ Undisturbed(p, credited)
  BY <1>2, <1>3, HitFollows
<1> HIDE DEF credited
<1>7. Follows(credited, granted, fired.now) /\ Keeps(credited, granted)
      /\ Undisturbed(credited, granted)
  <2>1. SoundPlayer(credited, fired.now)
    BY <1>6 DEF Follows
  <2> QED
    BY <1>2, <1>5, <2>1, GrantFollows, LevelledKeeps
<1> HIDE DEF granted
<1>8. Follows(p, granted, fired.now) /\ Keeps(p, granted) /\ Firm(p, granted)
  <2>1. Follows(p, granted, fired.now)
    BY <1>6, <1>7, FollowsOn
  <2> QED
    BY <1>6, <1>7, <2>1 DEF Keeps, Firm, Undisturbed
<1>9. Runs(fired, k, n, set) /\ Ready(k, set) /\ SameSky(fired, k) /\ n \in DOMAIN k.players
  BY <1>1, <1>2, <1>8, OwnEditRuns
<1> HIDE DEF k
<1>10. Sound(killed, set) /\ Beside(k, killed) /\ SkyGoes(k, killed)
  <2>1. Flying(k) /\ Sound(k, set)
    BY <1>2, <1>9 DEF SameSky, Flying, Ready
  <2> QED
    BY <2>1, EndFlightSound
<1> HIDE DEF killed
<1>11. Runs(k, killed, n, set) /\ Ready(killed, set) /\ n \in DOMAIN killed.players
  <2>1. Runs(k, killed, n, set) /\ killed.players = k.players
    BY <1>10, BesideRuns
  <2> QED
    BY <1>9, <1>10, <2>1 DEF Ready, Few
<1>12. Runs(killed, h, n, set) /\ Ready(h, set) /\ n \in DOMAIN h.players
  BY <1>11, TriggeredRuns
<1> HIDE DEF h
<1>13. Runs(g, h, n, set)
  BY <1>1, <1>9, <1>11, <1>12, RunsOn
<1> QED
  BY <1>4, <1>12, <1>13

(* The rolls of a shot, and what comes of it. *)
ShotOf(n) ==
    [jams : BOOLEAN, aims : BOOLEAN, recycles : BOOLEAN, find : {Nothing} \union Finds,
     victims : Chains(n), fate : {"survived", "fatal"}]

(* A kill is what is called, what is found and the end of the shot.         *)
LEMMA KillingShotIs ==
    ASSUME NEW g, NEW n, NEW shot \in ShotOf(n)
    PROVE  LET called == Called(g, n, shot)
           IN  /\ KillingShot(g, n, shot) =
                     Finish(IF shot.find = Nothing THEN called
                            ELSE AcquireLoot(called, n, shot.find), n)
               /\ KillingShot(g, n, [shot EXCEPT !.find = Nothing]) = Finish(called, n)
<1>1. KillingShot(g, n, shot) = Finish(IF shot.find = Nothing THEN Called(g, n, shot)
                                       ELSE AcquireLoot(Called(g, n, shot), n, shot.find), n)
  BY DEF KillingShot, Called
<1> DEFINE bare == [shot EXCEPT !.find = Nothing]
<1>2. bare.find = Nothing /\ bare.recycles = shot.recycles
  BY DEF ShotOf
<1> HIDE DEF bare
<1>3. PullTrigger(g, n, bare) = PullTrigger(g, n, shot)
  BY <1>2 DEF PullTrigger
<1>4. KillingShot(g, n, bare) = Finish(Called(g, n, shot), n)
  BY <1>2, <1>3 DEF KillingShot, Called
<1> QED
  BY <1>1, <1>4 DEF bare

(* A shot that kills.                                                       *)
LEMMA KillingShotRuns ==
    ASSUME NEW g, NEW set, Ready(g, set), NEW n \in Hunters, NEW shot \in ShotOf(n), Flying(g),
           shot.find # Nothing =>
              Acceptable(KillingShot(g, n, [shot EXCEPT !.find = Nothing]), n, shot.find)
    PROVE  Runs(g, KillingShot(g, n, shot), n, set)
<1> DEFINE called == Called(g, n, shot)
           found == IF shot.find = Nothing THEN called ELSE AcquireLoot(called, n, shot.find)
           h == Finish(found, n)
<1>1. Runs(g, called, n, set) /\ Ready(called, set) /\ n \in DOMAIN called.players
  BY CalledRuns
<1>2. KillingShot(g, n, shot) = h
      /\ KillingShot(g, n, [shot EXCEPT !.find = Nothing]) = Finish(called, n)
  BY KillingShotIs
<1> HIDE DEF called
<1>3. Runs(called, found, n, set) /\ Ready(found, set) /\ n \in DOMAIN found.players
  <2>1. CASE shot.find = Nothing
    BY <1>1, <2>1, PlaysItself DEF Runs, Ready
  <2>2. CASE shot.find # Nothing
    <3> DEFINE k == AcquireLoot(called, n, shot.find)
    <3>1. shot.find \in Awards
      BY <2>2, HuntersConstants DEF ShotOf
    <3>2. Completes(called.players[n], shot.find.what) /\ shot.find.grant = "letter"
             => shot.find.then # <<>>
      <4>1. Finish(called, n).players[n].letters = called.players[n].letters
        BY <1>1, FinishRuns
      <4>2. Acceptable(Finish(called, n), n, shot.find)
        BY <1>2, <2>2
      <4> QED
        BY <4>1, <4>2 DEF Acceptable, Completes, Missing
    <3>3. Runs(called, k, n, set) /\ n \in DOMAIN k.players
      BY <1>1, <3>1, <3>2, AcquireLootRuns
    <3>4. found = k
      BY <2>2
    <3> HIDE DEF k, found
    <3>5. Ready(k, set)
      BY <1>1, <3>3, RunsIs DEF Ready
    <3> QED
      BY <3>3, <3>4, <3>5
  <2> QED
    BY <2>1, <2>2
<1> HIDE DEF found
<1>4. Runs(found, h, n, set)
  BY <1>3, FinishRuns
<1> HIDE DEF h
<1> QED
  BY <1>1, <1>2, <1>3, <1>4, RunsOn

(* Any pull of the trigger. *)
LEMMA ShootRuns ==
    ASSUME NEW g, NEW set, Ready(g, set), NEW n \in Hunters, NEW shot \in ShotOf(n),
           Settled(g, n, shot)
    PROVE  /\ Runs(g, Shoot(g, n, shot), n, set)
           /\ Resolved(g, n).confiscated => Shoot(g, n, shot) = WithPlayer(g, n, Resolved(g, n))
<1>1. CASE Obstacle(g, n) # "none"
  <2>1. Shoot(g, n, shot) = Held(g, n)
    BY <1>1 DEF Shoot
  <2>2. Resolved(g, n).confiscated => Obstacle(g, n) \notin {"locked", "sabotaged"}
    BY DEF Obstacle
  <2> QED
    BY <2>1, <2>2, HeldRuns
<1>2. CASE Obstacle(g, n) = "none" /\ shot.jams
  <2>1. Shoot(g, n, shot) = Jam(g, n) /\ ~Resolved(g, n).confiscated
    BY <1>2 DEF Shoot, Obstacle
  <2> QED
    BY <2>1, JamRuns
<1>3. CASE Obstacle(g, n) = "none" /\ ~shot.jams
  <2>1. ~Resolved(g, n).confiscated /\ shot.victims \in Chains(n)
    BY <1>3 DEF Obstacle, ShotOf
  <2>2. CASE Misses(g, n, shot)
    <3>1. Shoot(g, n, shot) = MissedShot(g, n, shot)
      BY <1>3, <2>2 DEF Shoot
    <3> QED
      BY <2>1, <3>1, MissedShotRuns
  <2>3. CASE ~Misses(g, n, shot) /\ Survives(g, n)
    <3>1. Shoot(g, n, shot) = WoundedFlight(g, n, shot) /\ Flying(g)
      BY <1>3, <2>3 DEF Shoot, Misses
    <3> QED
      BY <2>1, <2>3, <3>1, WoundedFlightRuns
  <2>4. CASE ~Misses(g, n, shot) /\ ~Survives(g, n)
    <3>1. Shoot(g, n, shot) = KillingShot(g, n, shot) /\ Flying(g)
      BY <1>3, <2>4 DEF Shoot, Misses
    <3> QED
      BY <2>1, <3>1, KillingShotRuns DEF Settled
  <2> QED
    BY <2>2, <2>3, <2>4
<1> QED
  BY <1>1, <1>2, <1>3

-----------------------------------------------------------------------------
(* Deliveries.                                                              *)

(* What a delivery may do: nobody's wealth changes, and a weapon comes back *)
(* only with the item that is for that.                                     *)
Spared(p, q, returns) ==
    /\ SameWealth(p, q) /\ q.shots = p.shots /\ q.day = p.day
    /\ p.permanent => q.permanent
    /\ ~returns => Undisturbed(p, q)

Serves(g, h, set, returns) ==
    /\ Sound(h, set) /\ h.now = g.now /\ DOMAIN h.players = DOMAIN g.players
    /\ Tally(h) = Tally(g) /\ h.last = g.last
    /\ \A m \in DOMAIN g.players : Spared(g.players[m], h.players[m], returns)

(* Deliveries compose.                                                      *)
LEMMA ServesOn ==
    ASSUME NEW g, NEW h, NEW k, NEW set, NEW returns, Serves(g, h, set, returns),
           Serves(h, k, set, returns)
    PROVE  Serves(g, k, set, returns)
BY DEF Serves, Spared, SameWealth, Undisturbed

(* A delivery that leaves the profiles alone.                               *)
LEMMA BesideServes ==
    ASSUME NEW g, NEW h, NEW set, NEW returns, Sound(h, set), Beside(g, h),
           SameSky(g, h)
    PROVE  Serves(g, h, set, returns)
BY BesideTally DEF Serves, Spared, SameWealth, Undisturbed, Beside, SameSky

(* A delivery leaves a game ready for the next.                             *)
LEMMA ServesReady ==
    ASSUME NEW g, NEW h, NEW set, NEW returns, Ready(g, set), Serves(g, h, set, returns)
    PROVE  Ready(h, set)
BY DEF Ready, Serves, Few

(* A delivery into one profile.                                             *)
LEMMA EditServes ==
    ASSUME NEW g, NEW set, Ready(g, set), NEW m \in DOMAIN g.players, NEW q, NEW returns,
           Follows(g.players[m], q, g.now), Keeps(g.players[m], q),
           Spared(g.players[m], q, returns)
    PROVE  Serves(g, WithPlayer(g, m, q), set, returns)
<1> DEFINE p == g.players[m]
           h == WithPlayer(g, m, q)
<1>1. SoundPlayer(p, g.now) /\ p \in PlayerState /\ Resolved(g, m) = p /\ m \in Hunters
      /\ DOMAIN g.players \union {m} = DOMAIN g.players
  BY KnownIs DEF Ready
<1>2. Typed(g) /\ q \in PlayerState
  BY DEF Ready, Sound, Follows, SoundPlayer
<1>3. /\ h.now = g.now /\ DOMAIN h.players = DOMAIN g.players /\ h.players[m] = q
      /\ h.last = g.last
      /\ \A x \in DOMAIN g.players \ {m} : h.players[x] = g.players[x]
  <2>1. /\ h.now = g.now /\ DOMAIN h.players = DOMAIN g.players \union {m} /\ h.players[m] = q
        /\ h.last = g.last
        /\ \A x \in DOMAIN g.players \ {m} : h.players[x] = g.players[x]
    BY <1>1, <1>2, WithPlayerFields DEF SameSky
  <2> QED
    BY <1>1, <2>1
<1>4. Sound(h, set)
  <2>1. Follows(Resolved(g, m), q, g.now)
    BY <1>1
  <2> QED
    BY <1>1, <2>1, FollowSound DEF Ready
<1>5. Tally(h) = Tally(g)
  <2>1. Tally(h) = Tally(g) + q.caused - p.caused - q.received + p.received
    BY <1>1, <1>2, WithPlayerTally
  <2>2. Tally(g) \in Int
    BY <1>2, TallyIsInteger DEF Tally
  <2>3. p.caused \in Int /\ p.received \in Int
    BY <1>1 DEF PlayerState
  <2> QED
    BY <2>1, <2>2, <2>3 DEF Keeps
<1> HIDE DEF h
<1>6. \A x \in DOMAIN g.players : Spared(g.players[x], h.players[x], returns)
  BY <1>3 DEF Spared, SameWealth, Undisturbed
<1> QED
  BY <1>3, <1>4, <1>5, <1>6 DEF Serves, h

(* A weapon nobody touches is spared.                                       *)
LEMMA UndisturbedIsSpared ==
    ASSUME NEW p, NEW q, SameWealth(p, q), Undisturbed(p, q), NEW returns
    PROVE  Spared(p, q, returns)
BY DEF Spared, Undisturbed

(* Fatigue that is delivered.                                               *)
LEMMA TireServes ==
    ASSUME NEW g, NEW set, Ready(g, set), NEW m \in DOMAIN g.players, NEW centi \in Int,
           MinFatigue <= g.players[m].fatigue + centi, g.players[m].fatigue + centi <= MaxFatigue,
           NEW returns
    PROVE  Serves(g, Tire(g, m, centi), set, returns)
<1> DEFINE p == g.players[m]
           fatigue == p.fatigue + centi
           q == [p EXCEPT !.fatigue = fatigue]
<1>1. SoundPlayer(p, g.now) /\ p \in PlayerState
  BY KnownIs DEF Ready
<1>2. fatigue \in Int /\ MinFatigue <= fatigue /\ fatigue <= MaxFatigue
  BY <1>1 DEF PlayerState
<1>3. Tire(g, m, centi) = WithPlayer(g, m, q)
  BY <1>1 DEF Tire, PlayerState
<1> HIDE DEF fatigue, p
<1>4. Follows(p, q, g.now) /\ Keeps(p, q) /\ SameWealth(p, q) /\ Undisturbed(p, q)
  BY <1>1, <1>2, FatigueFollows
<1> HIDE DEF q
<1>5. Spared(p, q, returns)
  BY <1>4, UndisturbedIsSpared
<1> QED
  BY <1>3, <1>4, <1>5, EditServes DEF p

(* Relief takes no more than there is.                                      *)
LEMMA ReliefIs ==
    ASSUME NEW p \in PlayerState, MinFatigue <= p.fatigue, p.fatigue <= MaxFatigue,
           NEW most \in Nat
    PROVE  /\ -Relief(p, most) \in Int /\ MinFatigue <= p.fatigue + -Relief(p, most)
           /\ p.fatigue + -Relief(p, most) <= MaxFatigue
<1>1. p.fatigue \in Int
  BY DEF PlayerState
<1> QED
  BY <1>1, BoundsAreIntegers DEF Relief, Least, Most

(* An order that was not refused, when it has been paid. *)
MayDeliver(g, o) ==
    LET p == g.players[o.buyer]
    IN  /\ o.buyer \in DOMAIN g.players /\ o.item \in 1..31
        /\ o.magnitude = (IF o.item \in {7, 10} THEN 10 ELSE 0)
        /\ o.due \in g.now+1..g.now+Hour-1
        /\ o.item = 1 => p.ammo < p.capacity
        /\ o.item = 2 => p.magazines < p.magazineCapacity
        /\ o.item = 5 => ~p.permanent
        /\ Kind(o.item) = "effect" /\ o.item \notin {3, 4, 10, 21} => ~Has(g, o.buyer, o.item)
        /\ Kind(o.item) = "target" => o.target \in DOMAIN g.players /\ ~Has(g, o.target, o.item)

(* The kinds of the items of the shop.                                      *)
LEMMA OrderedKinds ==
    ASSUME NEW item \in 1..31
    PROVE  /\ Kind(item) = "ammunition" <=> item = 1
           /\ Kind(item) = "magazine" <=> item = 2
           /\ Kind(item) = "return" <=> item = 5
           /\ Kind(item) = "remedy" <=> item \in {12, 13}
           /\ Kind(item) = "target" <=> item \in {14, 15, 16, 17, 27, 28}
           /\ Kind(item) = "action" <=> item \in {20, 23}
           /\ Kind(item) = "relief" <=> item \in {24, 25}
           /\ Kind(item) = "purification" <=> item = 31
           /\ Kind(item) = "effect" <=> item \notin {1, 2, 5, 12, 13, 14, 15, 16, 17, 20, 23, 24,
                                                     25, 27, 28, 31}
BY DEF Kind

(* The exclusive items of the shop.                                         *)
LEMMA OrderedGroups ==
    ASSUME NEW item \in 1..31
    PROVE  /\ item \notin {3, 4} => Group(item) = {item}
           /\ RemovedBy(6) = {15} /\ RemovedBy(26) = {16} /\ item \notin Promotions
BY DEF Group, RemovedBy, Promotions

(* Orders that are no effects.                                              *)
LEMMA DeliverPlainServes ==
    ASSUME NEW g, NEW set, Ready(g, set), NEW o, MayDeliver(g, o), o.item \in {1, 2, 5, 25}
    PROVE  Serves(g, Deliver(g, o), set, o.item = 5)
<1> DEFINE n == o.buyer
           p == g.players[n]
           returns == o.item = 5
           h == Deliver(g, o)
<1>1. SoundPlayer(p, g.now) /\ p \in PlayerState /\ SoundWeapon(p) /\ n \in DOMAIN g.players
  BY KnownIs, SoundParts DEF Ready, MayDeliver, SoundPlayer
<1>2. ASSUME NEW q, Follows(p, q, g.now), Keeps(p, q), Spared(p, q, returns),
             h = WithPlayer(g, n, q)
      PROVE  Serves(g, h, set, returns)
  BY <1>1, <1>2, EditServes
<1>3. CASE o.item = 1
  <2> DEFINE ammo == p.ammo + 1
             q == [p EXCEPT !.ammo = ammo]
  <2>1. ammo \in Nat /\ ammo <= p.capacity
    BY <1>1, <1>3 DEF PlayerState, MayDeliver
  <2>2. h = WithPlayer(g, n, q)
    <3>1. q = [p EXCEPT !.ammo = @ + 1]
      BY <1>1 DEF PlayerState
    <3> QED
      BY <1>3, <3>1 DEF Deliver, Kind
  <2> HIDE DEF ammo, h, p, returns
  <2>3. Follows(p, q, g.now) /\ Keeps(p, q) /\ SameWealth(p, q) /\ Undisturbed(p, q)
    BY <1>1, <2>1, AmmoFollows
  <2> HIDE DEF q
  <2>4. Spared(p, q, returns)
    BY <2>3, UndisturbedIsSpared
  <2>5. Serves(g, h, set, returns)
    BY <1>2, <2>2, <2>3, <2>4
  <2> QED
    BY <2>5 DEF h, returns
<1>4. CASE o.item = 2
  <2> DEFINE magazines == p.magazines + 1
             q == [p EXCEPT !.magazines = magazines]
  <2>1. magazines \in Nat /\ magazines <= p.magazineCapacity
    BY <1>1, <1>4 DEF PlayerState, MayDeliver
  <2>2. h = WithPlayer(g, n, q)
    <3>1. q = [p EXCEPT !.magazines = @ + 1]
      BY <1>1 DEF PlayerState
    <3> QED
      BY <1>4, <3>1 DEF Deliver, Kind
  <2> HIDE DEF magazines, h, p, returns
  <2>3. Follows(p, q, g.now) /\ Keeps(p, q) /\ SameWealth(p, q) /\ Undisturbed(p, q)
    BY <1>1, <2>1, MagazinesFollows
  <2> HIDE DEF q
  <2>4. Spared(p, q, returns)
    BY <2>3, UndisturbedIsSpared
  <2>5. Serves(g, h, set, returns)
    BY <1>2, <2>2, <2>3, <2>4
  <2> QED
    BY <2>5 DEF h, returns
<1>5. CASE o.item = 5
  <2> DEFINE confiscated == FALSE
             permanent == FALSE
             q == [p EXCEPT !.confiscated = confiscated, !.permanent = permanent]
  <2>1. confiscated \in BOOLEAN /\ permanent \in BOOLEAN /\ (permanent => confiscated)
    OBVIOUS
  <2>2. h = WithPlayer(g, n, q)
    BY <1>5 DEF Deliver, Kind
  <2>3. q.shots = p.shots /\ q.day = p.day /\ ~p.permanent /\ returns
    BY <1>1, <1>5 DEF PlayerState, MayDeliver
  <2> HIDE DEF confiscated, permanent, h, p, returns
  <2>4. Follows(p, q, g.now) /\ Keeps(p, q) /\ SameWealth(p, q)
    BY <1>1, <2>1, ControlFollows
  <2> HIDE DEF q
  <2>5. Spared(p, q, returns)
    BY <2>3, <2>4 DEF Spared
  <2>6. Serves(g, h, set, returns)
    BY <1>2, <2>2, <2>4, <2>5
  <2> QED
    BY <2>6 DEF h, returns
<1>6. CASE o.item = 25
  <2> DEFINE fatigue == MinFatigue
             q == [p EXCEPT !.fatigue = fatigue]
  <2>1. fatigue \in Int /\ MinFatigue <= fatigue /\ fatigue <= MaxFatigue
    BY DEF MinFatigue, MaxFatigue
  <2>2. h = WithPlayer(g, n, q)
    BY <1>6 DEF Deliver, Kind
  <2> HIDE DEF fatigue, h, p, returns
  <2>3. Follows(p, q, g.now) /\ Keeps(p, q) /\ SameWealth(p, q) /\ Undisturbed(p, q)
    BY <1>1, <2>1, FatigueFollows
  <2> HIDE DEF q
  <2>4. Spared(p, q, returns)
    BY <2>3, UndisturbedIsSpared
  <2>5. Serves(g, h, set, returns)
    BY <1>2, <2>2, <2>3, <2>4
  <2> QED
    BY <2>5 DEF h, returns
<1> QED
  BY <1>3, <1>4, <1>5, <1>6

(* An effect for the buyer.                                                 *)
LEMMA DeliverEffectServes ==
    ASSUME NEW g, NEW set, Ready(g, set), NEW o, MayDeliver(g, o), Kind(o.item) = "effect"
    PROVE  Serves(g, DeliverEffect(g, o), set, FALSE)
<1> DEFINE n == o.buyer
           item == o.item
           replaced == IF item \in {3, 4, 10} THEN Group(item) ELSE {}
           gone == Owned(g, n, replaced \union RemovedBy(item))
           kept == Without(g, gone)
<1>1. Sound(kept, set) /\ Beside(g, kept) /\ SameSky(g, kept)
      /\ kept.effects = g.effects \ gone
  BY WithoutSound DEF Ready
<1>2. item \in 1..31 /\ n \in DOMAIN g.players /\ item \notin {14, 15, 16, 17, 27, 28}
      /\ o.due \in g.now+1..g.now+Hour-1 /\ o.magnitude = (IF item \in {7, 10} THEN 10 ELSE 0)
      /\ (item \notin {3, 4, 10, 21} => ~Has(g, n, item))
  BY OrderedKinds DEF MayDeliver
<1>3. DeliverEffect(g, o) = IF item = 21 THEN Activate(kept, Nobody, 21, Nobody, o.due)
                            ELSE Activate(kept, n, item, Nobody, o.magnitude)
  BY DEF DeliverEffect
<1>4. g.now \in Nat
  BY SkyIs DEF Ready
<1>5. \A e \in kept.effects : e.owner = n => e.item \notin replaced \union RemovedBy(item)
  <2>1. \A e \in g.effects : e \notin gone /\ e.owner = n =>
                                e.item \notin replaced \union RemovedBy(item)
    BY DEF Owned
  <2> HIDE DEF gone, kept
  <2> QED
    BY <1>1, <2>1
<1>6. item # 21 => MayHave(kept, n, item)
  <2> SUFFICES ASSUME item # 21 PROVE MayHave(kept, n, item)
    OBVIOUS
  <2>1. \A e \in kept.effects : e.owner = n => e.item \notin Group(item)
    <3>1. CASE item \in {3, 4, 10}
      BY <1>5, <3>1
    <3>2. CASE item \notin {3, 4, 10}
      <4>1. Group(item) = {item} /\ ~Has(g, n, item)
        BY <1>2, <3>2, OrderedGroups
      <4> HIDE DEF kept
      <4> QED
        BY <1>1, <4>1 DEF Has, Owned
    <3> QED
      BY <3>1, <3>2
  <2>2. item = 6 => ~Has(kept, n, 15)
    <3>1. item = 6 => 15 \in RemovedBy(item)
      BY <1>2, OrderedGroups
    <3> HIDE DEF kept
    <3> QED
      BY <1>5, <3>1 DEF Has, Owned
  <2>3. item = 26 => ~Has(kept, n, 16)
    <3>1. item = 26 => 16 \in RemovedBy(item)
      BY <1>2, OrderedGroups
    <3> HIDE DEF kept
    <3> QED
      BY <1>5, <3>1 DEF Has, Owned
  <2> HIDE DEF kept
  <2> QED
    BY <1>2, <2>1, <2>2, <2>3 DEF MayHave
<1>7. Kind(item) = "effect"
  OBVIOUS
<1> HIDE DEF gone, kept, item, n
<1>8. CASE item = 21
  <2>1. FitsItem(21, Nobody, o.due, kept.now)
    <3>1. kept.now = g.now
      BY <1>1 DEF Beside
    <3> QED
      BY <1>2, <1>4, <3>1 DEF FitsItem, Items, Kind, Promotions, Hour, Minute
  <2>2. Sound(Activate(kept, Nobody, 21, Nobody, o.due), set)
        /\ Beside(kept, Activate(kept, Nobody, 21, Nobody, o.due))
        /\ SameSky(kept, Activate(kept, Nobody, 21, Nobody, o.due))
    BY <1>1, <2>1, ActivateSound
  <2> QED
    BY <1>1, <1>3, <1>8, <2>2, BesideServes DEF Beside, SameSky
<1>9. CASE item # 21
  <2>1. FitsItem(item, Nobody, o.magnitude, kept.now)
    <3>1. o.magnitude \in Nat /\ (item = 7 => o.magnitude \in 0..15)
          /\ (item = 10 => o.magnitude \in 1..10) /\ (item \notin {7, 10} => o.magnitude = 0)
      BY <1>2
    <3>2. item \in Items /\ item # 28 /\ item \notin Promotions
      BY <1>2, OrderedGroups DEF Items
    <3> QED
      BY <1>7, <1>9, <3>1, <3>2 DEF FitsItem
  <2>2. n \in DOMAIN kept.players \union {Nobody}
    BY <1>1, <1>2 DEF Beside
  <2>3. Sound(Activate(kept, n, item, Nobody, o.magnitude), set)
        /\ Beside(kept, Activate(kept, n, item, Nobody, o.magnitude))
        /\ SameSky(kept, Activate(kept, n, item, Nobody, o.magnitude))
    BY <1>1, <1>6, <1>9, <2>1, <2>2, ActivateSound
  <2> QED
    BY <1>1, <1>3, <1>9, <2>3, BesideServes DEF Beside, SameSky
<1> QED
  BY <1>8, <1>9

(* A nuisance is an effect the catalog accepts.                             *)
LEMMA NuisanceFits ==
    ASSUME NEW item \in {14, 15, 16, 17, 27, 28}, NEW source, source # Nobody, NEW magnitude \in Nat,
           item # 28 => magnitude = 0, magnitude <= 600, NEW at
    PROVE  FitsItem(item, source, magnitude, at)
BY DEF FitsItem, Items, Kind, Promotions

(* A nuisance, or a gift, for a target that nothing protects.               *)
LEMMA DeliverToTargetServes ==
    ASSUME NEW g, NEW set, Ready(g, set), NEW o, MayDeliver(g, o), Kind(o.item) = "target",
           ~Countered(g, o)
    PROVE  Serves(g, DeliverToTarget(g, o), set, FALSE)
<1> DEFINE n == o.buyer
           m == o.target
           item == o.item
           q == g.players[m]
           infusion == Least(600, MaxFatigue - q.fatigue)
<1>1. /\ item \in {14, 15, 16, 17, 27, 28} /\ n \in DOMAIN g.players /\ m \in DOMAIN g.players
      /\ ~Has(g, m, item)
  BY OrderedKinds DEF MayDeliver
<1>2. n # Nobody
  BY <1>1, NobodyHunts DEF Ready, Sound, Typed
<1>3. SoundPlayer(q, g.now) /\ q \in PlayerState /\ SoundRest(q, g.now) /\ q.fatigue \in Int
  BY <1>1, KnownIs, SoundParts DEF Ready, SoundPlayer, PlayerState
<1>4. MayHave(g, m, item)
  <2>1. Group(item) = {item}
    BY <1>1, OrderedGroups
  <2>2. \A e \in g.effects : e.owner = m => e.item \notin Group(item)
    BY <1>1, <2>1 DEF Has, Owned
  <2>3. PermanentCounter(item) \notin q.upgrades /\ ~Has(g, m, Counter(item))
    BY DEF Countered, Protected
  <2> QED
    BY <1>1, <2>2, <2>3 DEF MayHave
<1>5. infusion \in Nat /\ infusion <= 600 /\ MinFatigue <= q.fatigue + infusion
      /\ q.fatigue + infusion <= MaxFatigue
  BY <1>3, BoundsAreIntegers DEF Least, SoundRest
<1>6. MinFatigue <= q.fatigue /\ q.fatigue <= MaxFatigue
  BY <1>3 DEF SoundRest
<1>7. DeliverToTarget(g, o) =
         CASE item = 27 -> Tire(Activate(g, m, 27, n, 0), m, -Relief(q, 10000))
           [] item = 28 -> Tire(Activate(g, m, 28, n, infusion), m, infusion)
           [] OTHER -> Activate(g, m, item, n, 0)
  BY DEF DeliverToTarget
<1>8. ASSUME NEW magnitude \in Nat, magnitude <= 600, item # 28 => magnitude = 0
      PROVE  LET k == Activate(g, m, item, n, magnitude)
             IN  Serves(g, k, set, FALSE) /\ Ready(k, set) /\ k.players = g.players
  <2>1. FitsItem(item, n, magnitude, g.now)
    BY <1>1, <1>2, <1>8, NuisanceFits
  <2>2. m \in DOMAIN g.players \union {Nobody} /\ n \in DOMAIN g.players \union {Nobody}
    BY <1>1
  <2>3. m = Nobody \/ MayHave(g, m, item)
    BY <1>4
  <2> DEFINE k == Activate(g, m, item, n, magnitude)
  <2>5. Serves(g, k, set, FALSE) /\ Ready(k, set) /\ k.players = g.players
    <3> HIDE DEF n, m, item
    <3>1. Sound(k, set) /\ Beside(g, k) /\ SameSky(g, k)
      BY <2>1, <2>2, <2>3, ActivateSound DEF Ready
    <3> HIDE DEF k
    <3>2. Serves(g, k, set, FALSE)
      BY <3>1, BesideServes
    <3> QED
      BY <3>1, <3>2 DEF Ready, Beside, Few
  <2> QED
    BY <2>5
<1>12. LET k == Activate(g, m, item, n, 0)
       IN  Serves(g, k, set, FALSE) /\ Ready(k, set) /\ k.players = g.players
  <2>1. 0 \in Nat /\ 0 <= 600
    OBVIOUS
  <2> HIDE DEF n, m, item
  <2> QED
    BY <1>8, <2>1
<1>13. item = 28 => LET k == Activate(g, m, item, n, infusion)
                    IN  Serves(g, k, set, FALSE) /\ Ready(k, set) /\ k.players = g.players
  <2> HIDE DEF n, m, item, infusion
  <2> QED
    BY <1>5, <1>8
<1> HIDE DEF q, n, m, item, infusion
<1>9. CASE item = 27
  <2> DEFINE k == Activate(g, m, 27, n, 0)
             centi == -Relief(q, 10000)
  <2>1. Serves(g, k, set, FALSE) /\ Ready(k, set) /\ k.players = g.players
    BY <1>9, <1>12
  <2>2. centi \in Int /\ MinFatigue <= q.fatigue + centi /\ q.fatigue + centi <= MaxFatigue
    BY <1>3, <1>6, ReliefIs
  <2>3. DeliverToTarget(g, o) = Tire(k, m, centi)
    BY <1>7, <1>9
  <2> HIDE DEF k, centi
  <2>4. k.players[m] = q /\ m \in DOMAIN k.players
    BY <1>1, <2>1 DEF q
  <2>5. Serves(k, Tire(k, m, centi), set, FALSE)
    BY <2>1, <2>2, <2>4, TireServes
  <2> QED
    BY <2>1, <2>3, <2>5, ServesOn
<1>10. CASE item = 28
  <2> DEFINE k == Activate(g, m, 28, n, infusion)
  <2>1. Serves(g, k, set, FALSE) /\ Ready(k, set) /\ k.players = g.players
    BY <1>10, <1>13
  <2>2. infusion \in Int
    BY <1>5
  <2>3. DeliverToTarget(g, o) = Tire(k, m, infusion)
    BY <1>7, <1>10
  <2> HIDE DEF k
  <2>4. k.players[m] = q /\ m \in DOMAIN k.players
    BY <1>1, <2>1 DEF q
  <2>5. Serves(k, Tire(k, m, infusion), set, FALSE)
    BY <1>5, <2>1, <2>2, <2>4, TireServes
  <2> QED
    BY <2>1, <2>3, <2>5, ServesOn
<1>11. CASE item \notin {27, 28}
  <2>1. DeliverToTarget(g, o) = Activate(g, m, item, n, 0)
    BY <1>7, <1>11
  <2> QED
    BY <1>12, <2>1
<1> QED
  BY <1>9, <1>10, <1>11

(* Any order, delivered.                                                    *)
LEMMA DeliverServes ==
    ASSUME NEW g, NEW set, Ready(g, set), NEW o, MayDeliver(g, o)
    PROVE  Serves(g, Deliver(g, o), set, o.item = 5)
<1> DEFINE n == o.buyer
           p == g.players[n]
           h == Deliver(g, o)
<1>1. n \in DOMAIN g.players /\ o.item \in 1..31 /\ g.now \in Nat
  BY SkyIs DEF MayDeliver, Ready
<1>2. CASE o.item \in {1, 2, 5, 25}
  BY <1>2, DeliverPlainServes
<1>3. CASE o.item \in {12, 13}
  <2> DEFINE k == Without(g, Owned(g, n, RemovedBy(o.item)))
  <2>1. h = k
    BY <1>3 DEF Deliver, Kind
  <2>2. Sound(k, set) /\ Beside(g, k) /\ SameSky(g, k)
    BY WithoutSound DEF Ready
  <2> HIDE DEF k
  <2> QED
    BY <2>1, <2>2, BesideServes
<1>4. CASE o.item \in {20, 23}
  <2> DEFINE k == AddCall(g, o.item, n, o.due)
  <2>1. h = k
    BY <1>4 DEF Deliver, Kind
  <2>2. o.item \in Nat /\ o.due \in Nat /\ n \in DOMAIN g.players \union {Nobody}
    <3>1. o.due \in g.now+1..g.now+Hour-1
      BY DEF MayDeliver
    <3> QED
      BY <1>1, <3>1 DEF Hour, Minute
  <2>3. Sound(k, set) /\ Beside(g, k) /\ SameSky(g, k)
    BY <2>2, CallsSound DEF Ready
  <2> HIDE DEF k
  <2> QED
    BY <2>1, <2>3, BesideServes
<1>5. CASE o.item = 24
  <2> DEFINE centi == -Relief(p, 500)
  <2>1. h = Tire(g, n, centi)
    BY <1>5 DEF Deliver, Kind
  <2>2. p \in PlayerState /\ MinFatigue <= p.fatigue /\ p.fatigue <= MaxFatigue
    BY <1>1, KnownIs, SoundParts DEF Ready, SoundPlayer, SoundRest
  <2>3. centi \in Int /\ MinFatigue <= p.fatigue + centi /\ p.fatigue + centi <= MaxFatigue
    BY <2>2, ReliefIs
  <2> HIDE DEF centi
  <2> QED
    BY <1>1, <2>1, <2>3, TireServes
<1>6. CASE o.item = 31
  <2> DEFINE curses == {c \in g.curses : c.owner # n}
             next == g.nextCurse
             k == [g EXCEPT !.curses = curses, !.nextCurse = next]
  <2>1. g \in GameState(DOMAIN g.players) /\ SoundCurses(g)
    BY DEF Ready, Sound, Typed
  <2>2. h = k
    <3>1. k = [g EXCEPT !.curses = {c \in @ : c.owner # n}]
      BY <2>1 DEF GameState
    <3> QED
      BY <1>6, <3>1 DEF Deliver, Kind
  <2>3. curses \subseteq ActiveCurse /\ next \in Nat
    BY <2>1 DEF GameState
  <2>4. SoundCurses(k)
    <3>1. k.curses = curses /\ k.nextCurse = next /\ k.players = g.players /\ k.now = g.now
      BY <2>1 DEF GameState
    <3> HIDE DEF k
    <3> QED
      BY <2>1, <3>1 DEF SoundCurses
  <2> HIDE DEF curses, next
  <2>5. Sound(k, set) /\ Beside(g, k) /\ SameSky(g, k)
    BY <2>3, <2>4, CursesSound DEF Ready
  <2> HIDE DEF k
  <2> QED
    BY <2>2, <2>5, BesideServes
<1>7. CASE o.item \in {14, 15, 16, 17, 27, 28}
  <2>1. h = IF Countered(g, o) THEN DeliverCountered(g, o) ELSE DeliverToTarget(g, o)
    BY <1>7 DEF Deliver, Kind
  <2>2. Kind(o.item) = "target" /\ (o.item = 5) = FALSE
    BY <1>7 DEF Kind
  <2>3. CASE Countered(g, o) /\ DeliverCountered(g, o) = g
    BY <2>1, <2>3, BesideServes DEF Ready, Beside, SameSky
  <2>4. CASE Countered(g, o) /\ DeliverCountered(g, o) # g
    <3> DEFINE k == Without(g, Owned(g, o.target, {6}))
    <3>1. h = k
      BY <2>1, <2>4 DEF DeliverCountered
    <3>2. Sound(k, set) /\ Beside(g, k) /\ SameSky(g, k)
      BY WithoutSound DEF Ready
    <3> HIDE DEF k
    <3> QED
      BY <3>1, <3>2, BesideServes
  <2>5. CASE ~Countered(g, o)
    BY <2>1, <2>2, <2>5, DeliverToTargetServes
  <2> QED
    BY <2>3, <2>4, <2>5
<1>8. CASE o.item \notin {1, 2, 5, 12, 13, 14, 15, 16, 17, 20, 23, 24, 25, 27, 28, 31}
  <2>1. Kind(o.item) = "effect" /\ (o.item = 5) = FALSE
    BY <1>1, <1>8, OrderedKinds
  <2>2. h = DeliverEffect(g, o)
    BY <1>8, <2>1 DEF Deliver
  <2> QED
    BY <2>1, <2>2, DeliverEffectServes
<1> QED
  BY <1>1, <1>2, <1>3, <1>4, <1>5, <1>6, <1>7, <1>8

-----------------------------------------------------------------------------
(* Prices.                                                                  *)

Orderly(g, o) ==
    /\ o.buyer \in Hunters /\ o.item \in 1..31
    /\ o.magnitude = (IF o.item \in {7, 10} THEN 10 ELSE 0)
    /\ o.due \in g.now+1..g.now+Hour-1

(* Everybody is worth what he was, but for what the hunter n has paid. *)
Priced(g, h, n, cost) ==
    \A m \in Hunters : Wealth(h, m) = Wealth(g, m) - (IF m = n THEN cost ELSE 0)

(* A delivery costs nobody anything.                                        *)
LEMMA ServesWealth ==
    ASSUME NEW g, NEW h, NEW set, NEW returns, Serves(g, h, set, returns)
    PROVE  \A m \in Hunters : Wealth(h, m) = Wealth(g, m)
BY DEF Serves, Spared, SameWealth, Wealth, Known, Available

(* The experience of a hunter is a natural number.                          *)
LEMMA AvailableIs ==
    ASSUME NEW p \in PlayerState PROVE Available(p) \in Nat
<1>1. p.level \in Nat /\ p.experience \in Nat
  BY DEF PlayerState
<1>2. Below[p.level] \in Nat
  BY <1>1, BelowEquation
<1> QED
  BY <1>1, <1>2 DEF Available

(* The wealth of a hunter is that of the profile he has or is given.        *)
LEMMA WealthIs ==
    ASSUME NEW g, NEW set, Ready(g, set), NEW n \in Hunters
    PROVE  LET p == Resolved(g, n)
           IN  /\ Wealth(g, n) = Available(p) + p.credit /\ Wealth(g, n) \in Int
<1> DEFINE p == Resolved(g, n)
<1>1. p \in PlayerState
  BY ResolvedSound DEF Ready, SoundPlayer
<1>2. Available(p) \in Nat /\ p.credit \in Nat
  BY <1>1, AvailableIs DEF PlayerState
<1>3. CASE Known(g, n)
  BY <1>2, <1>3 DEF Wealth, Resolved
<1>4. CASE ~Known(g, n)
  <2>1. p = Newcomer(g.now)
    BY <1>4 DEF Resolved
  <2>2. p.level = 1 /\ p.experience = 0 /\ p.credit = 0
    BY <2>1 DEF Newcomer
  <2>3. Below[1] = 0
    BY BelowEquation
  <2>4. Available(p) = 0
    BY <2>2, <2>3 DEF Available
  <2> HIDE DEF p
  <2>5. Wealth(g, n) = 0
    BY <1>4 DEF Wealth
  <2>6. Wealth(g, n) = Available(p) + p.credit
    BY <2>2, <2>4, <2>5
  <2> QED
    BY <2>5, <2>6 DEF p
<1> QED
  BY <1>3, <1>4

(* Paid, and not delivered yet. *)
LEMMA PaidPlays ==
    ASSUME NEW g, NEW set, Ready(g, set), NEW n \in Hunters, NEW cost \in Nat,
           LET p == Resolved(g, n) IN ~(Available(p) < cost - Least(p.credit, cost))
    PROVE  LET p == Resolved(g, n)
               q == Pay(p, cost)
               h == WithPlayer(g, n, q)
           IN  /\ Edited(g, h, set, n, n, q) /\ Ready(h, set) /\ Tally(h) = Tally(g)
               /\ Undisturbed(p, q) /\ q.upgrades = p.upgrades /\ q \in PlayerState
               /\ q.level <= p.level
               /\ p.ammo < p.capacity => q.ammo < q.capacity
               /\ q.level = p.level => q.magazines = p.magazines
                                       /\ q.magazineCapacity = p.magazineCapacity
               /\ Priced(g, h, n, cost)
<1> DEFINE p == Resolved(g, n)
           q == Pay(p, cost)
           h == WithPlayer(g, n, q)
<1>1. SoundPlayer(p, g.now) /\ p \in PlayerState /\ g.now \in Nat
  BY ResolvedSound, SkyIs DEF Ready, SoundPlayer
<1>2. cost - Least(p.credit, cost) <= Available(p)
  <2>1. p.credit \in Nat /\ Available(p) \in Nat
    BY <1>1, AvailableIs DEF PlayerState
  <2> HIDE DEF p
  <2>2. ~(Available(p) < cost - Least(p.credit, cost))
    BY DEF p
  <2> QED
    BY <2>1, <2>2 DEF Least
<1>3. p = Resolved(g, n)
  OBVIOUS
<1> HIDE DEF p
<1>4. /\ Follows(p, q, g.now) /\ Keeps(p, q) /\ Undisturbed(p, q) /\ q.level <= p.level
      /\ Available(q) + q.credit = Available(p) + p.credit - cost
      /\ p.ammo < p.capacity => q.ammo < q.capacity
      /\ q.level = p.level => q.magazines = p.magazines
                              /\ q.magazineCapacity = p.magazineCapacity
  BY <1>1, <1>2, PayFollows
<1> HIDE DEF q
<1>5. MayBecome(g, set, n, n, q)
  BY <1>3, <1>4, UndisturbedIsFirm DEF MayBecome, Ready
<1>6. Edited(g, h, set, n, n, q)
  BY <1>5, EditPlays
<1> HIDE DEF h
<1>7. /\ Plays(g, h, n, set) /\ DOMAIN h.players = DOMAIN g.players \union {n}
      /\ h.players[n] = q /\ Tally(h) = Tally(g)
      /\ \A x \in DOMAIN g.players \ {n} : h.players[x] = g.players[x]
  BY <1>3, <1>4, <1>6 DEF Edited
<1>8. Ready(h, set)
  BY <1>7 DEF Plays, Ready, Few
<1>9. Priced(g, h, n, cost)
  <2>1. Wealth(h, n) = Available(q) + q.credit
    BY <1>7 DEF Wealth, Known
  <2>2. Wealth(g, n) = Available(p) + p.credit
    BY <1>3, WealthIs
  <2>3. \A m \in Hunters \ {n} : Wealth(h, m) = Wealth(g, m) /\ Wealth(g, m) \in Int
    <3> SUFFICES ASSUME NEW m \in Hunters \ {n} PROVE Wealth(h, m) = Wealth(g, m) /\ Wealth(g, m) \in Int
      OBVIOUS
    <3>1. Wealth(g, m) \in Int
      BY WealthIs
    <3>2. Wealth(h, m) = Wealth(g, m)
      BY <1>7 DEF Wealth, Known
    <3> QED
      BY <3>1, <3>2
  <2>4. Wealth(h, n) = Wealth(g, n) - cost
    <3>1. Available(q) + q.credit = Available(p) + p.credit - cost
      BY <1>4
    <3>2. Available(q) \in Nat /\ q.credit \in Nat /\ Available(p) \in Nat /\ p.credit \in Nat
      <4>1. q \in PlayerState
        BY <1>4 DEF Follows, SoundPlayer
      <4> QED
        BY <1>1, <4>1, AvailableIs DEF PlayerState
    <3> QED
      BY <2>1, <2>2, <3>1, <3>2
  <2>5. \A m \in Hunters \ {n} : Wealth(h, m) = Wealth(g, m) - 0
    BY <2>3
  <2> QED
    BY <2>4, <2>5 DEF Priced
<1>10. q.upgrades = p.upgrades /\ q \in PlayerState
  BY <1>4 DEF Follows, SoundPlayer
<1> QED
  BY <1>4, <1>6, <1>7, <1>8, <1>9, <1>10 DEF h, q, p

(* What a whole purchase may do to a hunter who was known. *)
Guarded(p, q, returns) ==
    /\ q.shots = p.shots /\ q.day = p.day
    /\ p.permanent => q.permanent
    /\ ~returns => Undisturbed(p, q)

Buys(g, h, n, set, cost, returns) ==
    /\ Sound(h, set) /\ h.now = g.now /\ DOMAIN g.players \subseteq DOMAIN h.players
    /\ Tally(h) = Tally(g) /\ h.last = g.last /\ Priced(g, h, n, cost)
    /\ \A m \in DOMAIN g.players : Guarded(g.players[m], h.players[m], returns)

(* A purchase costs the price and returns nothing but what was ordered.     *)
LEMMA PurchaseBuys ==
    ASSUME NEW g, NEW set, Ready(g, set), NEW o, Orderly(g, o), NEW cost \in Nat,
           ~Refused(g, o, cost),
           o.item = 2 => LET q == Pay(Resolved(g, o.buyer), cost)
                         IN q.magazines < q.magazineCapacity
    PROVE  Buys(g, Purchase(g, o, cost), o.buyer, set, cost, o.item = 5)
<1> DEFINE n == o.buyer
           p == Resolved(g, n)
           q == Pay(p, cost)
           paid == WithPlayer(g, n, q)
           served == Deliver(paid, o)
           returns == o.item = 5
           h == Purchase(g, o, cost)
<1>1. n \in Hunters /\ g.now \in Nat
  BY SkyIs DEF Orderly, Ready
<1>2. ~(Available(p) < cost - Least(p.credit, cost))
  BY DEF Refused, TooPoor
<1>3. /\ Edited(g, paid, set, n, n, q) /\ Ready(paid, set) /\ Tally(paid) = Tally(g)
      /\ Undisturbed(p, q) /\ q.upgrades = p.upgrades /\ q \in PlayerState
      /\ q.level <= p.level
      /\ p.ammo < p.capacity => q.ammo < q.capacity
      /\ Priced(g, paid, n, cost)
  BY <1>1, <1>2, PaidPlays
<1>4. p \in PlayerState /\ SoundWeapon(p)
  <2>1. SoundPlayer(p, g.now)
    BY ResolvedSound DEF Ready
  <2> QED
    BY <2>1, SoundParts DEF SoundPlayer
<1>5. h = IF KarmaOf(o) = 0 THEN served
          ELSE WithPlayer(served, n, AdjustKarma(served.players[n], KarmaOf(o), g.now))
  BY DEF Purchase
<1>6. /\ paid.now = g.now /\ DOMAIN paid.players = DOMAIN g.players \union {n}
      /\ paid.last = g.last
      /\ paid.players[n] = q /\ SameBelongings(g, paid)
      /\ \A x \in DOMAIN g.players \ {n} : paid.players[x] = g.players[x]
  <2> HIDE DEF paid, q
  <2> QED
    BY <1>3 DEF Edited, Plays, SameSky
<1> HIDE DEF paid
<1>7. MayDeliver(paid, o)
  <2>1. \A m, item : Has(paid, m, item) = Has(g, m, item)
    BY <1>6 DEF Has, Owned, SameBelongings
  <2>2. ~TargetRefused(g, o) /\ ~NotApplicable(g, o) /\ o.item \in 1..31
    BY DEF Refused, Orderly
  <2>3. n \in DOMAIN paid.players /\ o.magnitude = (IF o.item \in {7, 10} THEN 10 ELSE 0)
        /\ o.due \in paid.now+1..paid.now+Hour-1
    BY <1>6 DEF Orderly
  <2>4. o.item = 1 => q.ammo < q.capacity
    <3>1. o.item = 1 => p.ammo # p.capacity
      BY <2>2, OrderedKinds DEF NotApplicable
    <3>2. p.ammo \in Nat /\ p.capacity \in Nat /\ p.ammo <= p.capacity
      BY <1>4 DEF PlayerState, SoundWeapon
    <3> HIDE DEF p, q
    <3> QED
      BY <1>3, <3>1, <3>2
  <2>5. o.item = 5 => ~q.permanent
    <3>1. o.item = 5 => ~p.permanent
      BY <2>2, OrderedKinds DEF NotApplicable
    <3> HIDE DEF p, q
    <3> QED
      BY <1>3, <3>1 DEF Undisturbed
  <2>6. Kind(o.item) = "effect" /\ o.item \notin {3, 4, 10, 21} => ~Has(g, n, o.item)
    BY <2>2 DEF NotApplicable
  <2>7. Kind(o.item) = "target" => o.target \in DOMAIN paid.players /\ ~Has(g, o.target, o.item)
    BY <1>6, <2>2 DEF TargetRefused, Known
  <2>8. o.item = 2 => q.magazines < q.magazineCapacity
    OBVIOUS
  <2> HIDE DEF q, p
  <2> QED
    BY <1>6, <2>1, <2>2, <2>3, <2>4, <2>5, <2>6, <2>7, <2>8 DEF MayDeliver
<1> HIDE DEF q, p
<1>8. Serves(paid, served, set, returns)
  BY <1>3, <1>7, DeliverServes
<1> HIDE DEF served, returns, h
<1>9. Ready(served, set) /\ served.now = g.now /\ n \in DOMAIN served.players
  BY <1>3, <1>6, <1>8, ServesReady DEF Serves
<1>10. Serves(served, h, set, returns)
  <2>1. CASE KarmaOf(o) = 0
    BY <1>5, <1>9, <2>1, BesideServes DEF Ready, Beside, SameSky
  <2>2. CASE KarmaOf(o) # 0
    <3> DEFINE v == served.players[n]
               delta == KarmaOf(o)
               w == AdjustKarma(v, delta, g.now)
    <3>1. SoundPlayer(v, g.now)
      BY <1>9, KnownIs DEF Ready
    <3>2. delta \in Int
      BY DEF KarmaOf
    <3>3. h = WithPlayer(served, n, w)
      BY <1>5, <2>2
    <3> HIDE DEF v, delta
    <3>4. Follows(v, w, g.now) /\ Keeps(v, w) /\ Undisturbed(v, w) /\ SameWealth(v, w)
      BY <1>1, <3>1, <3>2, AdjustKarmaFollows
    <3> HIDE DEF w
    <3>5. Spared(v, w, returns)
      BY <3>4, UndisturbedIsSpared
    <3> QED
      BY <1>9, <3>3, <3>4, <3>5, EditServes DEF v
  <2> QED
    BY <2>1, <2>2
<1>11. Serves(paid, h, set, returns)
  BY <1>8, <1>10, ServesOn
<1>12. Priced(g, h, n, cost)
  <2>1. \A m \in Hunters : Wealth(h, m) = Wealth(paid, m)
    BY <1>11, ServesWealth
  <2> QED
    BY <1>3, <2>1 DEF Priced
<1>13. \A m \in DOMAIN g.players : Guarded(g.players[m], h.players[m], returns)
  <2> SUFFICES ASSUME NEW m \in DOMAIN g.players
               PROVE  Guarded(g.players[m], h.players[m], returns)
    OBVIOUS
  <2>1. Spared(paid.players[m], h.players[m], returns)
    BY <1>6, <1>11 DEF Serves
  <2>2. Undisturbed(g.players[m], paid.players[m])
    <3>1. CASE m = n
      <4>1. g.players[m] = p
        BY <3>1 DEF p, Resolved, Known
      <4> QED
        BY <1>3, <1>6, <3>1, <4>1
    <3>2. CASE m # n
      BY <1>6, <3>2 DEF Undisturbed
    <3> QED
      BY <3>1, <3>2
  <2> QED
    BY <2>1, <2>2 DEF Spared, Undisturbed, Guarded
<1>14. Buys(g, h, n, set, cost, returns)
  BY <1>3, <1>6, <1>11, <1>12, <1>13 DEF Serves, Buys
<1> QED
  BY <1>14 DEF h, n, returns

(* The magazine for which there is no place any more. *)
LEMMA NoPlaceRaises ==
    ASSUME NEW g, NEW set, Ready(g, set), NEW o, Orderly(g, o), NEW cost \in Nat,
           ~Refused(g, o, cost), o.item = 2,
           LET q == Pay(Resolved(g, o.buyer), cost) IN ~(q.magazines < q.magazineCapacity)
    PROVE  LET p == Resolved(g, o.buyer)
               q == Pay(p, cost)
           IN  /\ ~ValidGame(Purchase(g, o, cost))
               /\ q.level < p.level /\ q.magazines = q.magazineCapacity
               /\ p.magazines # p.magazineCapacity
<1> DEFINE n == o.buyer
           p == Resolved(g, n)
           q == Pay(p, cost)
           paid == WithPlayer(g, n, q)
<1>1. n \in Hunters
  BY DEF Orderly
<1>2. ~(Available(p) < cost - Least(p.credit, cost))
  BY DEF Refused, TooPoor
<1>3. /\ Edited(g, paid, set, n, n, q) /\ Ready(paid, set) /\ q \in PlayerState
      /\ q.level <= p.level
      /\ q.level = p.level => q.magazines = p.magazines
                              /\ q.magazineCapacity = p.magazineCapacity
  BY <1>1, <1>2, PaidPlays
<1>4. p \in PlayerState /\ SoundWeapon(p)
  <2>1. SoundPlayer(p, g.now)
    BY ResolvedSound DEF Ready
  <2> QED
    BY <2>1, SoundParts DEF SoundPlayer
<1>5. p.magazines # p.magazineCapacity
  BY DEF Refused, NotApplicable, Kind
<1>6. ~(q.magazines < q.magazineCapacity)
  OBVIOUS
<1>7. Purchase(g, o, cost) = WithPlayer(paid, n, [paid.players[n] EXCEPT !.magazines = @ + 1])
  BY DEF Purchase, Deliver, Kind, KarmaOf
<1>8. paid.players[n] = q /\ n \in DOMAIN paid.players
  <2> HIDE DEF paid, q
  <2> QED
    BY <1>3 DEF Edited
<1>9. SoundWeapon(q)
  <2>1. SoundPlayer(paid.players[n], paid.now)
    BY <1>3, <1>8, KnownIs DEF Ready
  <2> HIDE DEF q, paid
  <2> QED
    BY <1>3, <1>8, <2>1, SoundParts
<1> HIDE DEF p, q, paid
<1>10. /\ p.level \in Nat /\ p.magazines \in Nat /\ p.magazineCapacity \in Nat
       /\ q.level \in Nat /\ q.magazines \in Nat /\ q.magazineCapacity \in Nat
       /\ p.magazines <= p.magazineCapacity /\ q.magazines <= q.magazineCapacity
  BY <1>3, <1>4, <1>9 DEF PlayerState, SoundWeapon
<1>11. q.magazines = q.magazineCapacity /\ q.level < p.level
  BY <1>3, <1>5, <1>6, <1>10
<1>12. ~ValidGame(Purchase(g, o, cost))
  <2> DEFINE r == [q EXCEPT !.magazines = @ + 1]
             k == WithPlayer(paid, n, r)
  <2>1. r \in PlayerState /\ r.magazines = q.magazines + 1
        /\ r.magazineCapacity = q.magazineCapacity
    BY <1>3 DEF PlayerState
  <2>2. ~ValidPlayer(r)
    BY <1>10, <1>11, <2>1 DEF ValidPlayer
  <2>3. n \in DOMAIN k.players /\ k.players[n] = r
    <3> HIDE DEF r
    <3>1. Typed(paid)
      BY <1>3 DEF Ready, Sound
    <3> QED
      BY <1>1, <2>1, <3>1, WithPlayerFields
  <2> HIDE DEF k
  <2>4. ~ValidGame(k)
    BY <2>2, <2>3 DEF ValidGame
  <2> QED
    BY <1>7, <1>8, <2>4 DEF k
<1> QED
  BY <1>5, <1>11, <1>12 DEF p, q

-----------------------------------------------------------------------------
(* The owner.                                                               *)

(* What of a profile a correction takes from the model's word. *)
Touched(field) ==
    CASE field \in {"capacity", "magazineCapacity", "level"} -> {"weapon"}
      [] field \in Incidents -> {"incidents"}
      [] OTHER -> {}

LEMMA ByHandIs ==
    ASSUME NEW n, NEW field
    PROVE  ByHand(n, field) = {n} \X Touched(field) /\ Touched(field) \subseteq {"weapon", "incidents"}
<1>1. CASE field \in {"capacity", "magazineCapacity", "level"}
  BY <1>1 DEF ByHand, Touched
<1>2. CASE field \in Incidents
  BY <1>2 DEF ByHand, Touched, Incidents
<1>3. CASE field \notin {"capacity", "magazineCapacity", "level"} /\ field \notin Incidents
  BY <1>3 DEF ByHand, Touched
<1> QED
  BY <1>1, <1>2, <1>3

(* What the owner sets: the profile stays one the model class accepts.      *)
Corrects(p, q, t, hand) ==
    /\ SoundPlayer(q, t) /\ q.upgrades = p.upgrades
    /\ "incidents" \notin hand => Keeps(p, q) /\ Balances(p, q)
    /\ "weapon" \notin hand => (WeaponFits(p) => WeaponFits(q))

(* An edit of the game's is one the owner may make.                         *)
LEMMA FollowsCorrects ==
    ASSUME NEW t, NEW p, NEW q, Follows(p, q, t), Keeps(p, q), NEW hand PROVE Corrects(p, q, t, hand)
BY DEF Follows, Corrects

(* What a correction leaves alone: what is not of the weapon or of the      *)
(* incidents.                                                               *)
SameRest(p, q) ==
    q.upgrades = p.upgrades /\ q.day = p.day /\ q.decays = p.decays
SameGear(p, q) ==
    /\ q.level = p.level /\ q.capacity = p.capacity
    /\ q.magazineCapacity = p.magazineCapacity
SameIncidents(p, q) ==
    /\ q.caused = p.caused /\ q.received = p.received
    /\ q.survived = p.survived /\ q.deaths = p.deaths

LEMMA CorrectsIs ==
    ASSUME NEW t, NEW p, SoundPlayer(p, t), NEW q \in PlayerState, ValidPlayer(q), NEW hand,
           SameRest(p, q), "weapon" \notin hand => SameGear(p, q),
           "incidents" \notin hand => SameIncidents(p, q)
    PROVE  Corrects(p, q, t, hand)
BY DEF Corrects, SoundPlayer, OfToday, SameRest, SameGear, SameIncidents, WeaponFits, Keeps,
       Balances, Balanced

(* The owner sets a field of the weapon. *)
LEMMA GearCorrects ==
    ASSUME NEW t \in Nat, NEW p, SoundPlayer(p, t), NEW value \in Nat,
           NEW field \in {"capacity", "magazineCapacity", "level"}, field = "level" => value >= 1,
           ValidPlayer(Correct(p, field, value))
    PROVE  Corrects(p, Correct(p, field, value), t, {"weapon"})
<1> DEFINE q == Correct(p, field, value)
<1>1. p \in PlayerState /\ p.ammo \in Nat /\ p.magazines \in Nat /\ p.experience \in Nat
  BY DEF SoundPlayer, PlayerState
<1>2. CASE field = "capacity"
  <2>1. PICK ammo \in Nat : ammo = Least(p.ammo, value)
    BY <1>1 DEF Least
  <2>2. q = [p EXCEPT !.capacity = value, !.ammo = ammo]
    BY <1>1, <1>2, <2>1 DEF Correct, PlayerState
  <2> HIDE DEF q
  <2>3. q \in PlayerState /\ SameRest(p, q) /\ SameIncidents(p, q)
    BY <1>1, <2>2 DEF PlayerState, SameRest, SameIncidents
  <2> QED
    BY <2>3, CorrectsIs DEF q
<1>3. CASE field = "magazineCapacity"
  <2>1. PICK magazines \in Nat : magazines = Least(p.magazines, value)
    BY <1>1 DEF Least
  <2>2. q = [p EXCEPT !.magazineCapacity = value, !.magazines = magazines]
    BY <1>1, <1>3, <2>1 DEF Correct, PlayerState
  <2> HIDE DEF q
  <2>3. q \in PlayerState /\ SameRest(p, q) /\ SameIncidents(p, q)
    BY <1>1, <2>2 DEF PlayerState, SameRest, SameIncidents
  <2> QED
    BY <2>3, CorrectsIs DEF q
<1>4. CASE field = "level"
  <2>1. PICK experience \in Nat : experience = Least(p.experience, Required(value) - 1)
    <3>1. Required(value) \in Nat \ {0}
      BY RequiredType
    <3> QED
      BY <1>1, <3>1 DEF Least
  <2>2. q = [p EXCEPT !.level = value, !.experience = experience]
    BY <1>1, <1>4, <2>1 DEF Correct, PlayerState
  <2> HIDE DEF q
  <2>3. q \in PlayerState /\ SameRest(p, q) /\ SameIncidents(p, q)
    BY <1>1, <2>2 DEF PlayerState, SameRest, SameIncidents
  <2> QED
    BY <2>3, CorrectsIs DEF q
<1> QED
  BY <1>2, <1>3, <1>4

(* The owner sets a counter of the incidents. *)
LEMMA IncidentsCorrect ==
    ASSUME NEW t \in Nat, NEW p, SoundPlayer(p, t), NEW value \in Nat, NEW field \in Incidents,
           ValidPlayer(Correct(p, field, value))
    PROVE  Corrects(p, Correct(p, field, value), t, {"incidents"})
<1> DEFINE q == Correct(p, field, value)
<1>1. p \in PlayerState
  BY DEF SoundPlayer
<1>2. q = [p EXCEPT ![field] = value]
  BY DEF Correct, Incidents
<1> HIDE DEF q
<1>3. q \in PlayerState /\ SameRest(p, q) /\ SameGear(p, q)
  <2>1. CASE field = "caused"
    BY <1>1, <1>2, <2>1 DEF PlayerState, SameRest, SameGear
  <2>2. CASE field = "received"
    BY <1>1, <1>2, <2>2 DEF PlayerState, SameRest, SameGear
  <2>3. CASE field = "survived"
    BY <1>1, <1>2, <2>3 DEF PlayerState, SameRest, SameGear
  <2>4. CASE field = "deaths"
    BY <1>1, <1>2, <2>4 DEF PlayerState, SameRest, SameGear
  <2> QED
    BY <2>1, <2>2, <2>3, <2>4 DEF Incidents
<1> QED
  BY <1>3, CorrectsIs DEF q

(* The owner sets a field of neither.                                       *)
LEMMA PlainCorrects ==
    ASSUME NEW t \in Nat, NEW p, SoundPlayer(p, t), NEW value \in Int,
           NEW field \in {"ammo", "magazines", "experience", "credit", "carried", "hits", "fatigue",
                          "jammed", "confiscated", "uncounted"},
           field # "fatigue" => value \in Nat, ValidPlayer(Correct(p, field, value))
    PROVE  Corrects(p, Correct(p, field, value), t, {})
<1> DEFINE q == Correct(p, field, value)
<1>1. p \in PlayerState
  BY DEF SoundPlayer
<1>2. q \in PlayerState /\ SameRest(p, q) /\ SameGear(p, q) /\ SameIncidents(p, q)
  <2>1. CASE field = "confiscated"
    <3>1. PICK confiscated \in BOOLEAN : confiscated = (value = 1)
      OBVIOUS
    <3>2. q = [p EXCEPT !.confiscated = confiscated, !.permanent = FALSE]
      BY <2>1, <3>1 DEF Correct
    <3> HIDE DEF q
    <3> QED
      BY <1>1, <3>2 DEF PlayerState, SameRest, SameGear, SameIncidents
  <2>2. CASE field = "jammed"
    <3>1. PICK jammed \in BOOLEAN : jammed = (value = 1)
      OBVIOUS
    <3>2. q = [p EXCEPT !.jammed = jammed]
      BY <2>2, <3>1 DEF Correct
    <3> HIDE DEF q
    <3> QED
      BY <1>1, <3>2 DEF PlayerState, SameRest, SameGear, SameIncidents
  <2>3. CASE field = "uncounted"
    BY <1>1, <2>3 DEF Correct, SameRest, SameGear, SameIncidents
  <2>4. CASE field \in {"ammo", "magazines", "experience", "credit", "carried", "hits", "fatigue"}
    <3>1. q = [p EXCEPT ![field] = value]
      BY <2>4 DEF Correct
    <3> HIDE DEF q
    <3>2. CASE field = "ammo"
      BY <1>1, <3>1, <3>2 DEF PlayerState, SameRest, SameGear, SameIncidents
    <3>3. CASE field = "magazines"
      BY <1>1, <3>1, <3>3 DEF PlayerState, SameRest, SameGear, SameIncidents
    <3>4. CASE field = "experience"
      BY <1>1, <3>1, <3>4 DEF PlayerState, SameRest, SameGear, SameIncidents
    <3>5. CASE field = "credit"
      BY <1>1, <3>1, <3>5 DEF PlayerState, SameRest, SameGear, SameIncidents
    <3>6. CASE field = "carried"
      BY <1>1, <3>1, <3>6 DEF PlayerState, SameRest, SameGear, SameIncidents
    <3>7. CASE field = "hits"
      BY <1>1, <3>1, <3>7 DEF PlayerState, SameRest, SameGear, SameIncidents
    <3>8. CASE field = "fatigue"
      BY <1>1, <3>1, <3>8 DEF PlayerState, SameRest, SameGear, SameIncidents
    <3> QED
      BY <2>4, <3>2, <3>3, <3>4, <3>5, <3>6, <3>7, <3>8
  <2> QED
    BY <2>1, <2>2, <2>3, <2>4
<1> HIDE DEF q
<1> QED
  BY <1>2, CorrectsIs DEF q

(* The owner adds rounds or magazines, as many as there is room for.        *)
LEMMA ReplenishCorrects ==
    ASSUME NEW t \in Nat, NEW p, SoundPlayer(p, t), NEW value \in Nat,
           NEW field \in {"ammo", "magazines"}
    PROVE  Corrects(p, Replenish(p, field, value), t, {})
<1>1. p \in PlayerState /\ p.ammo \in Nat /\ p.capacity \in Nat /\ p.magazines \in Nat
      /\ p.magazineCapacity \in Nat
  BY DEF SoundPlayer, PlayerState
<1>2. CASE field = "ammo"
  <2>1. PICK ammo \in Nat : ammo = Least(p.capacity, p.ammo + value) /\ ammo <= p.capacity
    BY <1>1 DEF Least
  <2>2. Replenish(p, field, value) = [p EXCEPT !.ammo = ammo]
    BY <1>1, <1>2, <2>1 DEF Replenish, PlayerState
  <2> DEFINE r == [p EXCEPT !.ammo = ammo]
  <2>3. Follows(p, r, t) /\ Keeps(p, r)
    BY <2>1, AmmoFollows
  <2> HIDE DEF r
  <2> QED
    BY <2>2, <2>3, FollowsCorrects DEF r
<1>3. CASE field = "magazines"
  <2>1. PICK magazines \in Nat :
           magazines = Least(p.magazineCapacity, p.magazines + value)
           /\ magazines <= p.magazineCapacity
    BY <1>1 DEF Least
  <2>2. Replenish(p, field, value) = [p EXCEPT !.magazines = magazines]
    BY <1>1, <1>3, <2>1 DEF Replenish, PlayerState
  <2> DEFINE r == [p EXCEPT !.magazines = magazines]
  <2>3. Follows(p, r, t) /\ Keeps(p, r)
    BY <2>1, MagazinesFollows
  <2> HIDE DEF r
  <2> QED
    BY <2>2, <2>3, FollowsCorrects DEF r
<1> QED
  BY <1>2, <1>3

(* What a counter holds is a natural number.                                *)
LEMMA CounterIs == \A value \in 0..MaxCounter : value \in Nat
<1>1. \A m \in Nat : \A value \in 0..m : value \in Nat
  OBVIOUS
<1>2. MaxCounter \in Nat
  BY SMT DEF MaxCounter
<1> QED
  BY <1>1, <1>2, Zenon

(* A correction is of a natural number, but for the fatigue.                *)
LEMMA AcceptedIs ==
    ASSUME NEW field \in Settable, NEW value \in Accepted(field, "set")
    PROVE  /\ value \in Int /\ (field # "fatigue" => value \in Nat)
           /\ field = "level" => value >= 1
<1>1. CASE field = "capacity"
  <2>1. value \in 1..100
    BY <1>1 DEF Accepted
  <2> QED
    BY <1>1, <2>1
<1>2. CASE field = "magazineCapacity"
  <2>1. value \in 0..100
    BY <1>2 DEF Accepted
  <2> QED
    BY <1>2, <2>1
<1>3. CASE field = "level"
  <2>1. value \in 1..1000
    BY <1>3 DEF Accepted
  <2> QED
    BY <1>3, <2>1
<1>4. CASE field = "fatigue"
  <2>1. value \in MinFatigue..MaxFatigue
    BY <1>4 DEF Accepted
  <2>2. value \in Int
    BY <2>1, BoundsAreIntegers
  <2> QED
    BY <1>4, <2>2
<1>5. CASE field \in {"jammed", "confiscated"}
  <2>1. value \in {0, 1}
    BY <1>5 DEF Accepted
  <2> QED
    BY <1>5, <2>1
<1>6. CASE field \notin {"capacity", "magazineCapacity", "level", "fatigue", "jammed", "confiscated"}
  <2>1. value \in 0..MaxCounter
    BY <1>6 DEF Accepted
  <2>2. value \in Nat
    BY <2>1, CounterIs, Zenon
  <2> QED
    BY <1>6, <2>2
<1> QED
  BY <1>1, <1>2, <1>3, <1>4, <1>5, <1>6

(* Any correction the owner may make, and the model class accepts. *)
LEMMA CorrectIs ==
    ASSUME NEW t \in Nat, NEW p, SoundPlayer(p, t), NEW c \in Corrections,
           NEW kept \in Nat, c.field = "survived" \/ kept = 0,
           LET value == c.value + kept
           IN  ValidPlayer(IF c.operation = "add" THEN Replenish(p, c.field, value)
                           ELSE Correct(p, c.field, value))
    PROVE  LET value == c.value + kept
           IN  Corrects(p, IF c.operation = "add" THEN Replenish(p, c.field, value)
                           ELSE Correct(p, c.field, value), t, Touched(c.field))
<1> DEFINE field == c.field
           value == c.value + kept
<1>1. /\ field \in Settable /\ c.operation \in {"add", "set"}
      /\ c.value \in Accepted(field, c.operation)
  BY HuntersConstants
<1>2. CASE c.operation = "add"
  <2>1. field \in {"ammo", "magazines"} /\ c.value \in 1..100
    BY <1>1, <1>2 DEF Accepted
  <2>2. value \in Nat /\ Touched(field) = {}
    BY <2>1 DEF Touched, Incidents
  <2>3. Corrects(p, Replenish(p, field, value), t, {})
    BY <2>1, <2>2, ReplenishCorrects
  <2> QED
    BY <1>2, <2>2, <2>3
<1>3. CASE c.operation = "set" /\ field \in {"capacity", "magazineCapacity", "level"}
  <2>1. c.value \in Nat /\ (field = "level" => c.value >= 1) /\ kept = 0
    <3>1. field # "survived" /\ field # "fatigue"
      BY <1>3
    <3> QED
      BY <1>1, <1>3, <3>1, AcceptedIs
  <2>2. value \in Nat /\ (field = "level" => value >= 1) /\ Touched(field) = {"weapon"}
    <3>1. value = c.value
      BY <2>1
    <3>2. Touched(field) = {"weapon"}
      BY <1>3 DEF Touched, Incidents
    <3> QED
      BY <2>1, <3>1, <3>2
  <2>3. ValidPlayer(Correct(p, field, value))
    BY <1>3
  <2> HIDE DEF value, field
  <2>4. Corrects(p, Correct(p, field, value), t, {"weapon"})
    BY <1>3, <2>2, <2>3, GearCorrects
  <2> QED
    BY <1>3, <2>2, <2>4 DEF value, field
<1>4. CASE c.operation = "set" /\ field \in Incidents
  <2>1. c.value \in Nat
    BY <1>1, <1>4, AcceptedIs DEF Incidents
  <2>2. value \in Nat /\ Touched(field) = {"incidents"}
    BY <1>4, <2>1 DEF Touched, Incidents
  <2>3. ValidPlayer(Correct(p, field, value))
    BY <1>4
  <2> HIDE DEF value, field
  <2>4. Corrects(p, Correct(p, field, value), t, {"incidents"})
    BY <1>4, <2>2, <2>3, IncidentsCorrect
  <2> QED
    BY <1>4, <2>2, <2>4 DEF value, field
<1>5. CASE c.operation = "set" /\ field \notin {"capacity", "magazineCapacity", "level"}
           /\ field \notin Incidents
  <2>1. field \in {"ammo", "magazines", "experience", "credit", "carried", "hits", "fatigue",
                   "jammed", "confiscated", "uncounted"}
    BY <1>1, <1>5 DEF Settable
  <2>2. kept = 0
    BY <1>5 DEF Incidents
  <2>3. c.value \in Int /\ (field # "fatigue" => c.value \in Nat)
    BY <1>1, <1>5, AcceptedIs
  <2>4. value \in Int /\ (field # "fatigue" => value \in Nat) /\ Touched(field) = {}
    BY <1>5, <2>2, <2>3 DEF Touched
  <2>5. ValidPlayer(Correct(p, field, value))
    BY <1>5
  <2> HIDE DEF value, field
  <2>6. Corrects(p, Correct(p, field, value), t, {})
    BY <2>1, <2>4, <2>5, PlainCorrects
  <2> QED
    BY <1>5, <2>4, <2>6 DEF value, field
<1> QED
  BY <1>1, <1>2, <1>3, <1>4, <1>5

(* The owner takes a weapon or gives it back.                               *)
LEMMA ControlIs ==
    ASSUME NEW t \in Nat, NEW p, SoundPlayer(p, t),
           NEW operation \in {"rearm", "unarm", "unarm_permanent"}
    PROVE  Corrects(p, ControlWeapon(p, operation), t, {})
<1> DEFINE confiscated == operation # "rearm"
           permanent == operation = "unarm_permanent"
           r == [p EXCEPT !.confiscated = confiscated, !.permanent = permanent]
<1>1. ControlWeapon(p, operation) = r
  BY DEF ControlWeapon
<1>2. confiscated \in BOOLEAN /\ permanent \in BOOLEAN /\ (permanent => confiscated)
  OBVIOUS
<1> HIDE DEF confiscated, permanent
<1>3. Follows(p, r, t) /\ Keeps(p, r)
  BY <1>2, ControlFollows
<1> QED
  BY <1>1, <1>3, FollowsCorrects

(* Warded is a matter of the effects and the upgrades.                      *)
LEMMA WardsStay ==
    ASSUME NEW g, NEW h, NEW n, Warded(g, n), h.effects = g.effects,
           h.players[n].upgrades = g.players[n].upgrades
    PROVE  Warded(h, n)
BY DEF Warded, Has, Owned

(* The incidents of the channel balance while the owner has set none. *)
Even(g, set) == (\A n \in Hunters : <<n, "incidents">> \notin set) => Tally(g) = 0

(* A correction of the owner: what it touches is his to answer for. *)
LEMMA CorrectionSound ==
    ASSUME NEW g, NEW set, Ready(g, set), Even(g, set), NEW n \in DOMAIN g.players, NEW q,
           NEW hand \in SUBSET {"weapon", "incidents"}, Corrects(g.players[n], q, g.now, hand)
    PROVE  LET h == WithPlayer(g, n, q)
               more == set \union ({n} \X hand)
           IN  Ready(h, more) /\ Even(h, more) /\ h.last = g.last
<1> DEFINE p == g.players[n]
           h == WithPlayer(g, n, q)
           more == set \union ({n} \X hand)
<1>1. SoundPlayer(p, g.now) /\ p \in PlayerState /\ Resolved(g, n) = p /\ n \in Hunters
      /\ Warded(g, n) /\ Fits(set, n, p)
  BY KnownIs DEF Ready, Sound, SoundPlayers
<1>2. SoundPlayer(q, g.now) /\ q \in PlayerState /\ q.upgrades = p.upgrades /\ Typed(g)
  BY DEF Corrects, SoundPlayer, Ready, Sound
<1>3. Sound(g, more)
  BY DEF Ready, Sound, SoundPlayers, Fits
<1>4. /\ h.now = g.now /\ DOMAIN h.players = DOMAIN g.players \union {n} /\ h.players[n] = q
      /\ SameBelongings(g, h) /\ h.last = g.last
  BY <1>1, <1>2, WithPlayerFields DEF SameSky
<1>5. Fits(more, n, q)
  BY <1>1 DEF Corrects, Fits, Balances
<1>6. Warded(h, n)
  <2> HIDE DEF h
  <2> QED
    BY <1>1, <1>2, <1>4, WardsStay DEF SameBelongings
<1>7. Few(g, more)
  BY DEF Ready, Few
<1>8. (\A m \in Hunters : <<m, "incidents">> \notin more) =>
         (\A m \in Hunters : <<m, "incidents">> \notin set) /\ "incidents" \notin hand
  BY <1>1
<1> HIDE DEF more
<1>9. Sound(h, more)
  BY <1>1, <1>2, <1>3, <1>5, <1>6, WithPlayerSound
<1>10. Even(h, more)
  <2>1. Tally(h) = Tally(g) + q.caused - p.caused - q.received + p.received
    BY <1>1, <1>2, WithPlayerTally
  <2>2. Tally(g) \in Int
    BY <1>2, TallyIsInteger DEF Tally
  <2>3. p.caused \in Int /\ p.received \in Int
    BY <1>1 DEF PlayerState
  <2> QED
    BY <1>8, <2>1, <2>2, <2>3 DEF Corrects, Keeps, Even
<1> HIDE DEF h
<1>11. Few(h, more)
  BY <1>4, <1>7 DEF Few
<1> QED
  BY <1>4, <1>9, <1>10, <1>11 DEF Ready, h, more

-----------------------------------------------------------------------------
(* What a command leaves.                                                   *)

(* What a command leaves of a profile the owner has not touched: a          *)
(* confiscated weapon is where it was, but for a return that is bought.     *)
Silenced(p, q, n, what) ==
    /\ q.day = p.day
    /\ p.permanent => q.permanent
    /\ p.confiscated =>
          /\ q.shots = p.shots
          /\ what.who = n /\ what.what \in {"shot", "reload"} =>
                <<q.ammo, q.magazines, q.jammed>> = <<p.ammo, p.magazines, p.jammed>>
          /\ ~q.confiscated => what.what = "purchase" /\ what.item = 5

(* What the properties of steps ask of a command that takes g to h. *)
Abides(g, h, what) ==
    /\ DOMAIN g.players \subseteq DOMAIN h.players
    /\ what.what \notin {"weapon", "update"} =>
          \A n \in DOMAIN g.players : Silenced(g.players[n], h.players[n], n, what)
    /\ what.what \in {"purchase", "refusal"} => Priced(g, h, what.who, what.cost)

Start(g, set) == Ready(g, set) /\ Even(g, set) /\ LastInTime(g)

Outcome(g, h, what, set) ==
    /\ Start(h, set) /\ Abides(g, h, what)
    /\ what.who \in Hunters \union {Nobody} /\ what.cost \in Nat /\ what.at \in Nat

(* A weapon nobody touches is silent.                                       *)
LEMMA UndisturbedIsSilenced ==
    ASSUME NEW p, NEW q, Undisturbed(p, q), NEW n, NEW what,
           what.who # n \/ what.what \notin {"shot", "reload"}
    PROVE  Silenced(p, q, n, what)
BY DEF Undisturbed, Silenced

(* A profile nobody touches is silent.                                      *)
LEMMA SameIsSilenced == ASSUME NEW p, NEW n, NEW what PROVE Silenced(p, p, n, what)
BY DEF Silenced

(* What is said of a command.                                               *)
LEMMA SaidIs ==
    ASSUME NEW w, NEW n, NEW item, NEW cost, NEW at
    PROVE  LET what == Said(w, n, item, cost, at)
           IN  /\ what.what = w /\ what.who = n /\ what.item = item /\ what.cost = cost
               /\ what.at = at
BY DEF Said

(* A clock is a natural number.                                             *)
LEMMA ClockIs == ASSUME NEW g, NEW set, Ready(g, set) PROVE g.now \in Nat
BY SkyIs DEF Ready

(* A shot and a reload: a confiscated weapon is not touched. *)
LEMMA WeaponOutcome ==
    ASSUME NEW g, NEW set, Start(g, set), NEW n \in Hunters, NEW h, Runs(g, h, n, set),
           Resolved(g, n).confiscated => h = WithPlayer(g, n, Resolved(g, n)),
           LastInTime(h), NEW w \in {"shot", "reload"}
    PROVE  Outcome(g, h, Said(w, n, 0, 0, g.now), set)
<1> DEFINE what == Said(w, n, 0, 0, g.now)
<1>1. what.what = w /\ what.who = n /\ what.item = 0 /\ what.cost = 0 /\ what.at = g.now
  BY SaidIs
<1> HIDE DEF what
<1>2. Ready(g, set) /\ Few(g, set) /\ g.now \in Nat
  BY ClockIs DEF Start, Ready
<1>3. Start(h, set) /\ DOMAIN g.players \subseteq DOMAIN h.players
  BY <1>2, RunsIs DEF Ready, Runs, Start, Even
<1>4. ASSUME NEW m \in DOMAIN g.players PROVE Silenced(g.players[m], h.players[m], m, what)
  <2>1. Firm(g.players[m], h.players[m]) /\ (m # n => Undisturbed(g.players[m], h.players[m]))
    BY DEF Runs, Plays
  <2>2. CASE m # n
    BY <2>1, <2>2, <1>1, UndisturbedIsSilenced
  <2>3. CASE m = n /\ ~g.players[m].confiscated
    BY <2>1, <2>3 DEF Firm, Silenced
  <2>4. CASE m = n /\ g.players[m].confiscated
    <3>1. Resolved(g, n) = g.players[m]
      BY <2>4 DEF Resolved, Known
    <3>2. h = WithPlayer(g, n, Resolved(g, n))
      BY <3>1, <2>4
    <3>3. h.players[n] = Resolved(g, n)
      BY <3>2, <1>2, KnownRuns
    <3>4. h.players[m] = g.players[m]
      BY <3>1, <3>3, <2>4
    <3> QED
      BY <3>4, SameIsSilenced
  <2> QED
    BY <2>2, <2>3, <2>4
<1>5. Abides(g, h, what)
  BY <1>1, <1>3, <1>4 DEF Abides
<1>6. Outcome(g, h, what, set)
  BY <1>1, <1>2, <1>3, <1>5 DEF Outcome
<1> QED
  BY <1>6 DEF what

(* A command that disturbs nobody's weapon, and that nobody pays for. *)
LEMMA QuietOutcome ==
    ASSUME NEW g, NEW set, Start(g, set), NEW h, Sound(h, set), h.now = g.now, Tally(h) = Tally(g),
           h.last = g.last, DOMAIN g.players \subseteq DOMAIN h.players,
           \A m \in DOMAIN g.players : h.players[m] = g.players[m],
           NEW n \in Hunters \union {Nobody}, NEW item, NEW w \in {"query", "flight", "grant"}
    PROVE  Outcome(g, h, Said(w, n, item, 0, g.now), set)
<1> DEFINE what == Said(w, n, item, 0, g.now)
<1>1. what.what = w /\ what.who = n /\ what.item = item /\ what.cost = 0
      /\ what.at = g.now
  BY SaidIs
<1> HIDE DEF what
<1>2. Start(h, set) /\ g.now \in Nat
  BY ClockIs DEF Start, Ready, Few, Even, LastInTime
<1>3. ASSUME NEW m \in DOMAIN g.players PROVE Silenced(g.players[m], h.players[m], m, what)
  BY SameIsSilenced
<1>4. Abides(g, h, what)
  BY <1>1, <1>3 DEF Abides
<1>5. Outcome(g, h, what, set)
  BY <1>1, <1>2, <1>4 DEF Outcome
<1> QED
  BY <1>5 DEF what

(* A refusal costs nothing.                                                 *)
LEMMA RefusalOutcome ==
    ASSUME NEW g, NEW set, Start(g, set), NEW n \in Hunters, NEW item
    PROVE  Outcome(g, g, Said("refusal", n, item, 0, g.now), set)
<1> DEFINE what == Said("refusal", n, item, 0, g.now)
<1>1. what.what = "refusal" /\ what.who = n /\ what.item = item /\ what.cost = 0
      /\ what.at = g.now
  BY SaidIs
<1> HIDE DEF what
<1>2. Ready(g, set) /\ Start(g, set) /\ g.now \in Nat
  BY ClockIs DEF Start
<1>3. ASSUME NEW m \in DOMAIN g.players PROVE Silenced(g.players[m], g.players[m], m, what)
  BY SameIsSilenced
<1>4. ASSUME NEW m \in Hunters
      PROVE  Wealth(g, m) = Wealth(g, m) - (IF m = n THEN 0 ELSE 0)
  <2>1. Wealth(g, m) \in Int
    BY <1>2, WealthIs
  <2> QED
    BY <2>1
<1>5. Priced(g, g, what.who, what.cost)
  BY <1>1, <1>4 DEF Priced
<1>6. Abides(g, g, what)
  BY <1>1, <1>3, <1>5 DEF Abides
<1>7. Outcome(g, g, what, set)
  BY <1>1, <1>2, <1>6 DEF Outcome
<1> QED
  BY <1>7 DEF what

(* A purchase: the price, and the weapon only by a return.                  *)
LEMMA PurchaseOutcome ==
    ASSUME NEW g, NEW set, Start(g, set), NEW n \in Hunters, NEW item, NEW cost \in Nat, NEW h,
           Buys(g, h, n, set, cost, item = 5)
    PROVE  Outcome(g, h, Said("purchase", n, item, cost, g.now), set)
<1> DEFINE what == Said("purchase", n, item, cost, g.now)
<1>1. what.what = "purchase" /\ what.who = n /\ what.item = item /\ what.cost = cost
      /\ what.at = g.now
  BY SaidIs
<1> HIDE DEF what
<1>2. Start(h, set) /\ DOMAIN g.players \subseteq DOMAIN h.players /\ g.now \in Nat
  BY ClockIs DEF Start, Ready, Few, Even, LastInTime, Buys
<1>3. ASSUME NEW m \in DOMAIN g.players PROVE Silenced(g.players[m], h.players[m], m, what)
  <2>1. Guarded(g.players[m], h.players[m], item = 5)
    BY DEF Buys
  <2> QED
    BY <2>1, <1>1 DEF Guarded, Undisturbed, Silenced
<1>4. Priced(g, h, what.who, what.cost)
  BY <1>1 DEF Buys
<1>5. Abides(g, h, what)
  BY <1>1, <1>2, <1>3, <1>4 DEF Abides
<1>6. Outcome(g, h, what, set)
  BY <1>1, <1>2, <1>5 DEF Outcome
<1> QED
  BY <1>6 DEF what

(* What the owner does is his to answer for. *)
LEMMA OwnerOutcome ==
    ASSUME NEW g, NEW set, Start(g, set), NEW n \in DOMAIN g.players, NEW h, NEW more,
           Ready(h, more), Even(h, more), h.last = g.last, DOMAIN g.players \subseteq DOMAIN h.players,
           NEW w \in {"weapon", "update"}
    PROVE  Outcome(g, h, Said(w, n, 0, 0, g.now), more)
<1> DEFINE what == Said(w, n, 0, 0, g.now)
<1>1. what.what = w /\ what.who = n /\ what.item = 0 /\ what.cost = 0 /\ what.at = g.now
  BY SaidIs
<1> HIDE DEF what
<1>2. n \in Hunters /\ Start(h, more) /\ g.now \in Nat
  BY ClockIs DEF Start, Ready, Sound, Typed, LastInTime
<1>3. Abides(g, h, what)
  BY <1>1 DEF Abides
<1>4. Outcome(g, h, what, more)
  BY <1>1, <1>2, <1>3 DEF Outcome
<1> QED
  BY <1>4 DEF what

(* The inductive invariant: a sound game whose last flight ended after it   *)
(* began, with incidents that balance as far as the owner has not set them, *)
(* and a process that has stopped on nothing but the two commands that      *)
(* raise.                                                                   *)
IInv ==
    /\ Start(game, corrected)
    /\ said.who \in Hunters \union {Nobody} /\ said.cost \in Nat /\ said.at \in Nat
    /\ failed \in BOOLEAN /\ steps \in 0..MaxSteps
    /\ NothingElseRaises

(* What PurchaseTakesItsPrice and ConfiscationHolds say of a step. *)
PriceTaken ==
    said'.what \in {"purchase", "refusal"} /\ ~failed' =>
        \A n \in Hunters :
            Wealth(game', n) = Wealth(game, n) - (IF n = said'.who THEN said'.cost ELSE 0)

WeaponHeld ==
    \A n \in DOMAIN game.players :
        LET p == game.players[n]
            q == game'.players[n]
            owner == said'.what \in {"weapon", "update"}
        IN  /\ p.permanent /\ ~owner => q.permanent
            /\ p.confiscated /\ q.day = p.day /\ ~owner =>
                  /\ q.shots = p.shots
                  /\ said'.who = n /\ said'.what \in {"shot", "reload"} =>
                        <<q.ammo, q.magazines, q.jammed>> = <<p.ammo, p.magazines, p.jammed>>
                  /\ ~q.confiscated => said'.what = "purchase" /\ said'.item = 5

(* Time has passed, and nothing else. *)
Later(f, g) ==
    /\ DOMAIN g.players = DOMAIN f.players /\ g.now \in Nat /\ f.now <= g.now
    /\ \A n \in DOMAIN f.players : Ages(f.players[n], g.players[n], g.now)
    /\ Flying(g) => Flying(f) /\ g.flight = f.flight

(* Time passes before a command.                                            *)
LEMMA Advanced ==
    ASSUME NEW f, NEW set, Start(f, set), NEW wait \in Nat
    PROVE  LET g == Advance(f, f.now + wait) IN Start(g, set) /\ Later(f, g)
<1> DEFINE t == f.now + wait
           g == Advance(f, t)
<1>1. Sound(f, set) /\ Few(f, set) /\ Even(f, set) /\ LastInTime(f)
  BY DEF Start, Ready
<1>2. f.now \in Nat
  BY <1>1, SkyIs
<1>3. t \in Nat /\ f.now <= t
  BY <1>2
<1> HIDE DEF t
<1>4. /\ Sound(g, set) /\ g.now = t /\ DOMAIN g.players = DOMAIN f.players
      /\ \A n \in DOMAIN f.players : Ages(f.players[n], g.players[n], t)
      /\ Tally(g) = Tally(f) /\ LastInTime(g)
      /\ Flying(g) => Flying(f) /\ g.flight = f.flight
  BY <1>1, <1>3, AdvanceSound
<1> HIDE DEF g
<1>5. Start(g, set) /\ Later(f, g)
  BY <1>1, <1>3, <1>4 DEF Start, Ready, Few, Even, Later
<1> QED
  BY <1>5 DEF g, t

(* Time passes, then a command that leaves a confiscated weapon silent.     *)
LEMMA AgesWeapon ==
    ASSUME NEW p, NEW q, NEW r, NEW t, Ages(p, q, t), NEW n, NEW what, Silenced(q, r, n, what)
    PROVE  /\ p.permanent => r.permanent
           /\ p.confiscated /\ r.day = p.day =>
                 /\ r.shots = p.shots
                 /\ what.who = n /\ what.what \in {"shot", "reload"} =>
                       <<r.ammo, r.magazines, r.jammed>> = <<p.ammo, p.magazines, p.jammed>>
                 /\ ~r.confiscated => what.what = "purchase" /\ what.item = 5
<1>1. q.day = DayOf(t)
  BY DEF Ages, SoundPlayer, OfToday
<1>2. q.permanent = p.permanent /\ q.shots = p.shots
  BY DEF Ages
<1>3. p.day = DayOf(t) => /\ q.confiscated = p.confiscated /\ q.jammed = p.jammed
                          /\ q.ammo = p.ammo /\ q.magazines = p.magazines
  BY DEF Ages
<1>4. r.day = q.day
  BY DEF Silenced
<1>5. p.permanent => r.permanent
  BY <1>2 DEF Silenced
<1>6. ASSUME p.confiscated, r.day = p.day
      PROVE  /\ r.shots = p.shots
             /\ what.who = n /\ what.what \in {"shot", "reload"} =>
                   <<r.ammo, r.magazines, r.jammed>> = <<p.ammo, p.magazines, p.jammed>>
             /\ ~r.confiscated => what.what = "purchase" /\ what.item = 5
  <2>1. q.confiscated /\ q.jammed = p.jammed /\ q.ammo = p.ammo /\ q.magazines = p.magazines
    BY <1>1, <1>3, <1>4, <1>6
  <2> QED
    BY <1>2, <2>1 DEF Silenced
<1> QED
  BY <1>5, <1>6

(* Time costs nobody anything.                                              *)
LEMMA LaterWealth ==
    ASSUME NEW f, NEW g, Later(f, g), NEW n PROVE Wealth(g, n) = Wealth(f, n)
<1>1. CASE n \in DOMAIN f.players
  <2>1. SameWealth(f.players[n], g.players[n])
    BY <1>1 DEF Later, Ages
  <2> QED
    BY <1>1, <2>1 DEF Later, SameWealth, Wealth, Known, Available
<1>2. CASE n \notin DOMAIN f.players
  BY <1>2 DEF Later, Wealth, Known
<1> QED
  BY <1>1, <1>2

(* A command that leaves a sound game is settled, and breaks no rule. *)
LEMMA SettledWell ==
    ASSUME IInv, ~failed, steps < MaxSteps, NEW g, Later(game, g),
           NEW h, NEW what, Outcome(g, h, what, corrected'), Settle(h, what)
    PROVE  IInv' /\ PriceTaken /\ WeaponHeld
<1>1. Start(h, corrected') /\ Abides(g, h, what)
      /\ what.who \in Hunters \union {Nobody} /\ what.cost \in Nat /\ what.at \in Nat
  BY DEF Outcome
<1>2. ValidGame(h)
  BY <1>1, SoundIsValid DEF Start, Ready
<1>3. game' = h /\ failed' = failed /\ said' = what /\ steps' = steps + 1
  BY <1>2 DEF Settle
<1>4. Start(game', corrected')
  BY <1>1, <1>3
<1>5. steps' \in 0..MaxSteps
  BY <1>3, HuntersConstants DEF IInv
<1>6. IInv'
  <2>1. NothingElseRaises'
    BY <1>3 DEF NothingElseRaises
  <2> QED
    BY <1>1, <1>3, <1>4, <1>5, <2>1 DEF IInv
<1>7. PriceTaken
  <2> SUFFICES ASSUME what.what \in {"purchase", "refusal"}, NEW n \in Hunters
               PROVE  Wealth(h, n) = Wealth(game, n) - (IF n = what.who THEN what.cost ELSE 0)
    BY <1>3 DEF PriceTaken
  <2>1. Priced(g, h, what.who, what.cost)
    BY <1>1 DEF Abides
  <2>2. Wealth(h, n) = Wealth(g, n) - (IF n = what.who THEN what.cost ELSE 0)
    BY <2>1 DEF Priced
  <2>3. Wealth(g, n) = Wealth(game, n)
    BY LaterWealth
  <2> QED
    BY <2>2, <2>3
<1>8. WeaponHeld
  <2> SUFFICES ASSUME NEW n \in DOMAIN game.players, what.what \notin {"weapon", "update"}
               PROVE  LET p == game.players[n]
                          q == h.players[n]
                      IN  /\ p.permanent => q.permanent
                          /\ p.confiscated /\ q.day = p.day =>
                                /\ q.shots = p.shots
                                /\ what.who = n /\ what.what \in {"shot", "reload"} =>
                                      <<q.ammo, q.magazines, q.jammed>>
                                         = <<p.ammo, p.magazines, p.jammed>>
                                /\ ~q.confiscated => what.what = "purchase" /\ what.item = 5
    BY <1>3, Zenon DEF WeaponHeld
  <2>1. Ages(game.players[n], g.players[n], g.now) /\ n \in DOMAIN g.players
    BY DEF Later
  <2>2. Silenced(g.players[n], h.players[n], n, what)
    BY <1>1, <2>1 DEF Abides
  <2> QED
    BY <2>1, <2>2, AgesWeapon
<1> QED
  BY <1>6, <1>7, <1>8

(* What raises, as NothingElseRaises has it.                                *)
Raises(what) ==
    \/ /\ what.what = "purchase" /\ what.item = 2
       /\ LET p == Pay(game.players[what.who], what.cost)
          IN  p.level < game.players[what.who].level /\ p.magazines = p.magazineCapacity
    \/ what.what = "shot" /\ Flying(game) /\ game.flight.spawned = what.at

(* The event that is rejected leaves the game as it was. *)
LEMMA SettledBadly ==
    ASSUME IInv, ~failed, steps < MaxSteps, NEW h, NEW what, Settle(h, what), ~ValidGame(h),
           corrected' = corrected, what.who \in Hunters, what.cost \in Nat, what.at \in Nat,
           Raises(what)
    PROVE  IInv' /\ PriceTaken /\ WeaponHeld
<1>1. game' = game /\ failed' = TRUE /\ said' = what /\ steps' = steps + 1
  BY DEF Settle
<1>2. what.who \in Hunters
  OBVIOUS
<1>3. steps' \in 0..MaxSteps
  BY <1>1, HuntersConstants DEF IInv
<1>4. NothingElseRaises'
  BY <1>1, Zenon DEF NothingElseRaises, Raises
<1>5. Start(game', corrected')
  BY <1>1 DEF IInv
<1>6. IInv'
  BY <1>1, <1>2, <1>3, <1>4, <1>5 DEF IInv
<1>7. PriceTaken
  BY <1>1 DEF PriceTaken
<1>8. WeaponHeld
  BY <1>1 DEF WeaponHeld
<1> QED
  BY <1>6, <1>7, <1>8

-----------------------------------------------------------------------------
(* Steps.                                                                   *)

(* A settled price is a natural number.                                     *)
LEMMA CostIsNatural ==
    ASSUME NEW g, NEW n, NEW discount \in Discount(g, n), NEW item \in 1..31
    PROVE  SettledCost(item, discount) \in Nat
<1>1. discount \in {0, 10, 25, 50}
  BY DEF Discount, PromotionOf
<1>2. Costs[item] \in Nat
  BY DEF Costs
<1> DEFINE c == Costs[item]
<1> HIDE DEF c
<1>3. c \in Nat
  BY <1>2 DEF c
<1>4. /\ (c * (100 - 0) + 50) \div 100 \in Nat /\ (c * (100 - 10) + 50) \div 100 \in Nat
      /\ (c * (100 - 25) + 50) \div 100 \in Nat /\ (c * (100 - 50) + 50) \div 100 \in Nat
  BY <1>3
<1>5. (c * (100 - discount) + 50) \div 100 \in Nat
  BY <1>1, <1>4
<1> QED
  BY <1>5 DEF SettledCost, c

(* The level and the magazines a price leaves depend on little.             *)
LEMMA PaySame ==
    ASSUME NEW p \in PlayerState, NEW q \in PlayerState, SameWealth(p, q), NEW cost \in Nat,
           q.magazines = p.magazines, q.magazineCapacity = p.magazineCapacity
    PROVE  /\ Pay(q, cost).level = Pay(p, cost).level
           /\ Pay(q, cost).magazines = Pay(p, cost).magazines
           /\ Pay(q, cost).magazineCapacity = Pay(p, cost).magazineCapacity
<1> DEFINE amount == cost - Least(p.credit, cost)
           reached == Descend[<<p.level, p.experience - amount>>]
           r == AtLevel(p, reached[1], reached[2])
           s == AtLevel(q, reached[1], reached[2])
<1>1. Spend(p, amount) = r /\ Spend(q, amount) = s
  BY DEF Spend, SameWealth
<1>2. /\ Pay(p, cost) = [r EXCEPT !.credit = p.credit - Least(p.credit, cost),
                                  !.spent = p.spent + cost - Least(p.credit, cost)]
      /\ Pay(q, cost) = [s EXCEPT !.credit = q.credit - Least(p.credit, cost),
                                  !.spent = q.spent + cost - Least(p.credit, cost)]
  BY <1>1 DEF Pay, SameWealth
<1> HIDE DEF amount, reached
<1>3. s.level = r.level /\ s.magazines = r.magazines /\ s.magazineCapacity = r.magazineCapacity
  BY DEF AtLevel, SameWealth, PlayerState
<1> HIDE DEF r, s
<1>4. /\ Pay(p, cost).level = r.level /\ Pay(p, cost).magazines = r.magazines
      /\ Pay(p, cost).magazineCapacity = r.magazineCapacity
      /\ Pay(q, cost).level = s.level /\ Pay(q, cost).magazines = s.magazines
      /\ Pay(q, cost).magazineCapacity = s.magazineCapacity
  BY <1>2
<1> QED
  BY <1>3, <1>4

(* The same, of a command by which the owner sets nothing.                  *)
LEMMA SettleGameWell ==
    ASSUME IInv, ~failed, steps < MaxSteps, NEW g, Later(game, g),
           NEW h, NEW what, Outcome(g, h, what, corrected), SettleGame(h, what)
    PROVE  IInv' /\ PriceTaken /\ WeaponHeld
<1>1. corrected' = corrected /\ Settle(h, what)
  BY DEF SettleGame
<1>2. Outcome(g, h, what, corrected')
  BY <1>1
<1> QED
  BY <1>1, <1>2, SettledWell

(* Each command: the trigger.                                               *)
LEMMA TriggerStep ==
    ASSUME IInv, ~failed, steps < MaxSteps, Trigger PROVE IInv' /\ PriceTaken /\ WeaponHeld
<1>1. PICK wait \in Waits, n \in Hunters :
         LET g == Advance(game, game.now + wait)
         IN  \E jams, aims, recycles \in BOOLEAN, find \in {Nothing} \union Finds,
                victims \in {c \in Chains(n) : Len(c) = 2 => c[1] # c[2]},
                fate \in {"survived", "fatal"} :
                 LET shot == [jams |-> jams, aims |-> aims, recycles |-> recycles, find |-> find,
                              victims |-> victims, fate |-> fate]
                 IN  /\ victims = <<>> => fate = "fatal"
                     /\ Settled(g, n, shot)
                     /\ SettleGame(Shoot(g, n, shot), Said("shot", n, 0, 0, g.now))
  BY DEF Trigger
<1> DEFINE g == Advance(game, game.now + wait)
<1>2. PICK jams \in BOOLEAN, aims \in BOOLEAN, recycles \in BOOLEAN,
           find \in {Nothing} \union Finds,
           victims \in {c \in Chains(n) : Len(c) = 2 => c[1] # c[2]}, fate \in {"survived", "fatal"} :
         LET shot == [jams |-> jams, aims |-> aims, recycles |-> recycles, find |-> find,
                      victims |-> victims, fate |-> fate]
         IN  /\ victims = <<>> => fate = "fatal"
             /\ Settled(g, n, shot)
             /\ SettleGame(Shoot(g, n, shot), Said("shot", n, 0, 0, g.now))
  BY <1>1, Zenon
<1> DEFINE shot == [jams |-> jams, aims |-> aims, recycles |-> recycles, find |-> find,
                    victims |-> victims, fate |-> fate]
<1>3. shot \in ShotOf(n) /\ Settled(g, n, shot)
      /\ SettleGame(Shoot(g, n, shot), Said("shot", n, 0, 0, g.now))
  BY <1>2 DEF ShotOf
<1> HIDE DEF shot
<1>4. Start(g, corrected) /\ Later(game, g)
  BY Advanced, HuntersConstants DEF IInv
<1> HIDE DEF g
<1> DEFINE h == Shoot(g, n, shot)
<1>5. /\ Runs(g, h, n, corrected)
      /\ Resolved(g, n).confiscated => h = WithPlayer(g, n, Resolved(g, n))
  BY <1>3, <1>4, ShootRuns DEF Start
<1> HIDE DEF h
<1>6. SettleGame(h, Said("shot", n, 0, 0, g.now))
  BY <1>3 DEF h
<1>7. CASE LastInTime(h)
  <2>1. Outcome(g, h, Said("shot", n, 0, 0, g.now), corrected)
    BY <1>4, <1>5, <1>7, WeaponOutcome
  <2> QED
    BY <1>4, <1>6, <2>1, SettleGameWell
<1>8. CASE ~LastInTime(h)
  <2> DEFINE what == Said("shot", n, 0, 0, g.now)
  <2>1. what.what = "shot" /\ what.who = n /\ what.cost = 0 /\ what.at = g.now
    BY SaidIs
  <2> HIDE DEF what
  <2>2. LastInTime(g) /\ SoundFlight(g) /\ g.flight.spawned \in Nat /\ g.now \in Nat
    BY <1>4, SkyIs DEF Start, Ready, FlightRecord
  <2>3. SkyGoes(g, h)
    BY <1>5 DEF Runs, Plays
  <2>4. Flying(g) /\ h.last.spawned = g.flight.spawned /\ h.last.ended = g.now
    BY <1>8, <2>2, <2>3 DEF SkyGoes, LastInTime
  <2>5. g.flight.spawned = g.now
    BY <1>8, <2>2, <2>4 DEF LastInTime, SoundFlight
  <2>6. Flying(game) /\ game.flight.spawned = what.at
    BY <1>4, <2>1, <2>4, <2>5 DEF Later
  <2>7. Settle(h, what) /\ corrected' = corrected
    BY <1>6 DEF SettleGame, what
  <2>8. ~ValidGame(h)
    BY <1>8 DEF ValidGame, ValidFlight
  <2>9. Raises(what)
    BY <2>1, <2>6 DEF Raises
  <2> QED
    BY <2>1, <2>2, <2>7, <2>8, <2>9, SettledBadly
<1> QED
  BY <1>7, <1>8

(* The reload.                                                              *)
LEMMA RechargeStep ==
    ASSUME IInv, ~failed, steps < MaxSteps, Recharge PROVE IInv' /\ PriceTaken /\ WeaponHeld
<1>1. PICK wait \in Waits, n \in Hunters :
         LET g == Advance(game, game.now + wait)
         IN  SettleGame(Reload(g, n), Said("reload", n, 0, 0, g.now))
  BY DEF Recharge
<1> DEFINE g == Advance(game, game.now + wait)
           h == Reload(g, n)
<1>2. Start(g, corrected) /\ Later(game, g)
  BY Advanced, HuntersConstants DEF IInv
<1>3. SettleGame(h, Said("reload", n, 0, 0, g.now))
  BY <1>1
<1> HIDE DEF g
<1>4. /\ Runs(g, h, n, corrected)
      /\ Resolved(g, n).confiscated => h = WithPlayer(g, n, Resolved(g, n))
      /\ LastInTime(h)
  BY <1>2, ReloadRuns DEF Start, LastInTime
<1> HIDE DEF h
<1>5. Outcome(g, h, Said("reload", n, 0, 0, g.now), corrected)
  BY <1>2, <1>4, WeaponOutcome
<1> QED
  BY <1>2, <1>3, <1>5, SettleGameWell

(* Any other command.                                                       *)
LEMMA AskStep ==
    ASSUME IInv, ~failed, steps < MaxSteps, Ask PROVE IInv' /\ PriceTaken /\ WeaponHeld
<1>1. PICK wait \in Waits, n \in Hunters :
         LET g == Advance(game, game.now + wait)
         IN  SettleGame(WithPlayer(g, n, Resolved(g, n)), Said("query", n, 0, 0, g.now))
  BY DEF Ask
<1> DEFINE g == Advance(game, game.now + wait)
           h == WithPlayer(g, n, Resolved(g, n))
<1>2. Start(g, corrected) /\ Later(game, g)
  BY Advanced, HuntersConstants DEF IInv
<1>3. SettleGame(h, Said("query", n, 0, 0, g.now))
  BY <1>1
<1> HIDE DEF g
<1>4. Runs(g, h, n, corrected) /\ Ready(h, corrected)
  BY <1>2, KnownRuns DEF Start
<1>5. DOMAIN g.players \subseteq DOMAIN h.players /\ h.last = g.last
      /\ \A m \in DOMAIN g.players : h.players[m] = g.players[m]
  <2>1. Typed(g) /\ Resolved(g, n) \in PlayerState
    BY <1>2, ResolvedSound DEF Start, Ready, Sound, SoundPlayer
  <2>2. /\ DOMAIN h.players = DOMAIN g.players \union {n} /\ h.players[n] = Resolved(g, n)
        /\ \A m \in DOMAIN g.players \ {n} : h.players[m] = g.players[m]
        /\ h.last = g.last
    BY <2>1, WithPlayerFields DEF SameSky
  <2>3. n \in DOMAIN g.players => Resolved(g, n) = g.players[n]
    BY DEF Resolved, Known
  <2> HIDE DEF h
  <2> QED
    BY <2>2, <2>3
<1> HIDE DEF h
<1>6. Outcome(g, h, Said("query", n, 0, 0, g.now), corrected)
  BY <1>2, <1>4, <1>5, QuietOutcome DEF Runs, Plays, Ready
<1> QED
  BY <1>2, <1>3, <1>6, SettleGameWell

(* A deadline within the hour.                                              *)
LEMMA DeadlineIs ==
    \A t \in Nat : \A delay \in 1..Hour-1 : t + delay \in Nat /\ t + delay \in t+1..t+Hour-1
BY DEF Hour, Minute

(* The order a hunter places: of now, for something the shop sells. *)
LEMMA OrderIs ==
    ASSUME NEW g, NEW set, Ready(g, set), NEW n \in Hunters, NEW item \in Orders,
           NEW target, NEW present, NEW delay \in Deadlines
    PROVE  LET o == [buyer |-> n, item |-> item, target |-> target, present |-> present,
                     magnitude |-> IF item \in {7, 10} THEN 10 ELSE 0, due |-> g.now + delay]
           IN  Orderly(g, o) /\ o.buyer = n /\ o.item = item
<1>1. item \in 1..31 /\ delay \in 1..Hour-1
  BY HuntersConstants
<1>2. g.now \in Nat
  BY SkyIs DEF Ready
<1>3. g.now + delay \in g.now+1..g.now+Hour-1
  BY <1>1, <1>2, DeadlineIs
<1> QED
  BY <1>1, <1>3 DEF Orderly

(* The price may take a level away, and with it the place for the magazine. *)
LEMMA NoPlaceOf ==
    ASSUME NEW f, NEW g, NEW set, Start(f, set), Start(g, set), Later(f, g), NEW o, Orderly(g, o),
           NEW cost \in Nat, ~Refused(g, o, cost), o.item = 2,
           LET q == Pay(Resolved(g, o.buyer), cost) IN ~(q.magazines < q.magazineCapacity)
    PROVE  /\ ~ValidGame(Purchase(g, o, cost)) /\ o.buyer \in DOMAIN f.players
           /\ LET p == Pay(f.players[o.buyer], cost)
              IN  p.level < f.players[o.buyer].level /\ p.magazines = p.magazineCapacity
<1> DEFINE n == o.buyer
           p == Resolved(g, n)
           q == Pay(p, cost)
           a == f.players[n]
           b == Pay(a, cost)
<1>1. /\ ~ValidGame(Purchase(g, o, cost))
      /\ q.level < p.level /\ q.magazines = q.magazineCapacity
      /\ p.magazines # p.magazineCapacity
  BY NoPlaceRaises DEF Start
<1>2. n \in DOMAIN g.players
  <2> SUFFICES ASSUME n \notin DOMAIN g.players PROVE FALSE
    OBVIOUS
  <2>1. p = Newcomer(g.now)
    BY DEF Resolved, Known
  <2>2. p.magazines = p.magazineCapacity
    BY <2>1 DEF Newcomer
  <2> QED
    BY <1>1, <2>2
<1>3. n \in DOMAIN f.players /\ p = g.players[n]
  BY <1>2 DEF Later, Resolved, Known
<1>4. Ages(a, p, g.now)
  BY <1>3 DEF Later
<1>5. p.magazines = a.magazines /\ p.magazineCapacity = a.magazineCapacity /\ SameWealth(a, p)
  BY <1>1, <1>4 DEF Ages
<1>6. a \in PlayerState /\ p \in PlayerState
  BY <1>2, <1>3, KnownIs DEF Start, Ready
<1>7. a.level = p.level
  BY <1>5 DEF SameWealth
<1> HIDE DEF p, a
<1>8. /\ q.level = b.level /\ q.magazines = b.magazines
      /\ q.magazineCapacity = b.magazineCapacity
  BY <1>5, <1>6, PaySame
<1>9. b.level < a.level /\ b.magazines = b.magazineCapacity
  BY <1>1, <1>7, <1>8
<1> QED
  BY <1>1, <1>3, <1>9 DEF a

(* The shop.                                                                *)
LEMMA BuyStep ==
    ASSUME IInv, ~failed, steps < MaxSteps, Buy PROVE IInv' /\ PriceTaken /\ WeaponHeld
<1>1. PICK wait \in Waits, n \in Hunters, item \in Orders :
         LET g == Advance(game, game.now + wait)
         IN  \E target \in (IF Kind(item) = "target" THEN Hunters \union {Nobody} ELSE {Nobody}),
                present \in (IF Kind(item) = "target" THEN BOOLEAN ELSE {TRUE}),
                discount \in Discount(g, n), delay \in Deadlines :
                 LET o == [buyer |-> n, item |-> item, target |-> target, present |-> present,
                           magnitude |-> IF item \in {7, 10} THEN 10 ELSE 0, due |-> g.now + delay]
                     cost == SettledCost(item, discount)
                 IN  IF Refused(g, o, cost) THEN SettleGame(g, Said("refusal", n, item, 0, g.now))
                     ELSE SettleGame(Purchase(g, o, cost), Said("purchase", n, item, cost, g.now))
  BY DEF Buy
<1> DEFINE g == Advance(game, game.now + wait)
<1>2. PICK target \in (IF Kind(item) = "target" THEN Hunters \union {Nobody} ELSE {Nobody}),
           present \in (IF Kind(item) = "target" THEN BOOLEAN ELSE {TRUE}),
           discount \in Discount(g, n), delay \in Deadlines :
         LET o == [buyer |-> n, item |-> item, target |-> target, present |-> present,
                   magnitude |-> IF item \in {7, 10} THEN 10 ELSE 0, due |-> g.now + delay]
             cost == SettledCost(item, discount)
         IN  IF Refused(g, o, cost) THEN SettleGame(g, Said("refusal", n, item, 0, g.now))
             ELSE SettleGame(Purchase(g, o, cost), Said("purchase", n, item, cost, g.now))
  BY <1>1, Zenon
<1>3. Start(g, corrected) /\ Later(game, g)
  BY Advanced, HuntersConstants DEF IInv
<1> HIDE DEF g
<1> DEFINE o == [buyer |-> n, item |-> item, target |-> target, present |-> present,
                 magnitude |-> IF item \in {7, 10} THEN 10 ELSE 0, due |-> g.now + delay]
           cost == SettledCost(item, discount)
<1>4. /\ Refused(g, o, cost) => SettleGame(g, Said("refusal", n, item, 0, g.now))
      /\ ~Refused(g, o, cost) =>
            SettleGame(Purchase(g, o, cost), Said("purchase", n, item, cost, g.now))
  BY <1>2
<1>5. cost \in Nat
  BY CostIsNatural, HuntersConstants
<1>6. Orderly(g, o) /\ o.buyer = n /\ o.item = item
  BY <1>3, OrderIs DEF Start
<1> HIDE DEF o, cost
<1>7. CASE Refused(g, o, cost)
  <2>1. Outcome(g, g, Said("refusal", n, item, 0, g.now), corrected)
    BY <1>3, RefusalOutcome
  <2> QED
    BY <1>3, <1>4, <1>7, <2>1, SettleGameWell
<1> DEFINE q == Pay(Resolved(g, o.buyer), cost)
<1>8. CASE ~Refused(g, o, cost) /\ (item = 2 => q.magazines < q.magazineCapacity)
  <2> DEFINE h == Purchase(g, o, cost)
  <2>1. Buys(g, h, o.buyer, corrected, cost, o.item = 5)
    BY <1>3, <1>5, <1>6, <1>8, PurchaseBuys DEF Start
  <2>2. SettleGame(h, Said("purchase", n, item, cost, g.now))
    BY <1>4, <1>8
  <2> HIDE DEF h
  <2>3. Buys(g, h, n, corrected, cost, item = 5)
    BY <1>6, <2>1
  <2>4. Outcome(g, h, Said("purchase", n, item, cost, g.now), corrected)
    BY <1>3, <1>5, <2>3, PurchaseOutcome
  <2> QED
    BY <1>3, <2>2, <2>4, SettleGameWell
<1>9. CASE ~Refused(g, o, cost) /\ item = 2 /\ ~(q.magazines < q.magazineCapacity)
  <2> DEFINE h == Purchase(g, o, cost)
             what == Said("purchase", n, item, cost, g.now)
  <2>1. SettleGame(h, what)
    BY <1>4, <1>9
  <2>2. Start(game, corrected)
    BY DEF IInv
  <2>3. /\ ~ValidGame(h) /\ n \in DOMAIN game.players
        /\ LET p == Pay(game.players[n], cost)
           IN  p.level < game.players[n].level /\ p.magazines = p.magazineCapacity
    BY <1>3, <1>5, <1>6, <1>9, <2>2, NoPlaceOf
  <2>4. /\ what.what = "purchase" /\ what.who = n /\ what.item = 2 /\ what.cost = cost
        /\ what.at = g.now /\ g.now \in Nat
    BY <1>3, <1>9, SaidIs, ClockIs DEF Start
  <2> HIDE DEF h, what
  <2>5. Settle(h, what) /\ corrected' = corrected
    BY <2>1 DEF SettleGame
  <2>6. Raises(what)
    BY <2>3, <2>4 DEF Raises
  <2> QED
    BY <1>5, <2>3, <2>4, <2>5, <2>6, SettledBadly
<1> QED
  BY <1>7, <1>8, <1>9

(* A command that touches no profile.                                       *)
LEMMA QuietStep ==
    ASSUME IInv, ~failed, steps < MaxSteps, NEW g, Start(g, corrected), Later(game, g),
           NEW h, Sound(h, corrected), Beside(g, h), h.last = g.last, NEW item, NEW w \in {"flight", "grant"},
           SettleGame(h, Said(w, Nobody, item, 0, g.now))
    PROVE  IInv' /\ PriceTaken /\ WeaponHeld
<1>1. Tally(h) = Tally(g) /\ h.now = g.now /\ h.players = g.players
  BY BesideTally DEF Beside
<1>2. Outcome(g, h, Said(w, Nobody, item, 0, g.now), corrected)
  BY <1>1, QuietOutcome
<1> QED
  BY <1>2, SettleGameWell

(* A flight appears.                                                        *)
LEMMA AppearStep ==
    ASSUME IInv, ~failed, steps < MaxSteps, Appear PROVE IInv' /\ PriceTaken /\ WeaponHeld
<1>1. PICK wait \in Waits, kind \in FlightKind :
         LET g == Advance(game, game.now + wait)
             health == IF kind = "golden" THEN 3 ELSE 1
         IN  SettleGame(IF Flying(g) THEN g ELSE TakeOff(g, kind, health),
                        Said("flight", Nobody, 0, 0, g.now))
  BY DEF Appear
<1> DEFINE g == Advance(game, game.now + wait)
           health == IF kind = "golden" THEN 3 ELSE 1
           h == IF Flying(g) THEN g ELSE TakeOff(g, kind, health)
<1>2. Start(g, corrected) /\ Later(game, g)
  BY Advanced, HuntersConstants DEF IInv
<1>3. SettleGame(h, Said("flight", Nobody, 0, 0, g.now))
  BY <1>1
<1>4. health \in Nat \ {0}
  OBVIOUS
<1> HIDE DEF g, health
<1>5. Sound(h, corrected) /\ Beside(g, h) /\ h.last = g.last
  <2>1. Sound(g, corrected)
    BY <1>2 DEF Start, Ready
  <2>2. LET k == TakeOff(g, kind, health)
        IN  Sound(k, corrected) /\ Beside(g, k) /\ k.last = g.last
    BY <1>4, <2>1, TakeOffSound
  <2> QED
    BY <2>1, <2>2 DEF Beside
<1> HIDE DEF h
<1> QED
  BY <1>2, <1>3, <1>5, QuietStep

(* The owner gives bread or a call.                                         *)
LEMMA EndowStep ==
    ASSUME IInv, ~failed, steps < MaxSteps, Endow PROVE IInv' /\ PriceTaken /\ WeaponHeld
<1>1. PICK wait \in Waits, delay \in Deadlines :
         LET g == Advance(game, game.now + wait)
         IN  \/ SettleGame(AddCall(g, 20, Nobody, g.now + delay), Said("grant", Nobody, 20, 0, g.now))
             \/ SettleGame(Activate(g, Nobody, 21, Nobody, g.now + delay),
                           Said("grant", Nobody, 21, 0, g.now))
  BY DEF Endow
<1> DEFINE g == Advance(game, game.now + wait)
<1>2. Start(g, corrected) /\ Later(game, g)
  BY Advanced, HuntersConstants DEF IInv
<1>3. \/ SettleGame(AddCall(g, 20, Nobody, g.now + delay), Said("grant", Nobody, 20, 0, g.now))
      \/ SettleGame(Activate(g, Nobody, 21, Nobody, g.now + delay), Said("grant", Nobody, 21, 0, g.now))
  BY <1>1
<1> HIDE DEF g
<1> DEFINE due == g.now + delay
<1>4. Sound(g, corrected)
  BY <1>2 DEF Start, Ready
<1>5. due \in Nat /\ due \in g.now+1..g.now+Hour-1
  <2>1. g.now \in Nat /\ delay \in 1..Hour-1
    BY <1>4, SkyIs, HuntersConstants
  <2> QED
    BY <2>1, DeadlineIs
<1> HIDE DEF due
<1>6. CASE SettleGame(AddCall(g, 20, Nobody, due), Said("grant", Nobody, 20, 0, g.now))
  <2> DEFINE h == AddCall(g, 20, Nobody, due)
  <2>1. Sound(h, corrected) /\ Beside(g, h) /\ h.last = g.last
    BY <1>4, <1>5, CallsSound DEF SameSky
  <2>2. SettleGame(h, Said("grant", Nobody, 20, 0, g.now))
    BY <1>6
  <2> HIDE DEF h
  <2> QED
    BY <1>2, <2>1, <2>2, QuietStep
<1>7. CASE SettleGame(Activate(g, Nobody, 21, Nobody, due), Said("grant", Nobody, 21, 0, g.now))
  <2> DEFINE h == Activate(g, Nobody, 21, Nobody, due)
  <2>1. FitsItem(21, Nobody, due, g.now)
    BY <1>5 DEF FitsItem, Items, Kind, Promotions
  <2>2. Sound(h, corrected) /\ Beside(g, h) /\ h.last = g.last
    BY <1>4, <2>1, ActivateSound DEF SameSky
  <2>3. SettleGame(h, Said("grant", Nobody, 21, 0, g.now))
    BY <1>7
  <2> HIDE DEF h
  <2> QED
    BY <1>2, <2>2, <2>3, QuietStep
<1> QED
  BY <1>3, <1>6, <1>7 DEF due

-----------------------------------------------------------------------------
(* The invariant and the theorems.                                          *)

(* The owner corrects a profile.                                            *)
LEMMA OwnerStep ==
    ASSUME IInv, ~failed, steps < MaxSteps, NEW g, Start(g, corrected), Later(game, g),
           NEW n \in DOMAIN g.players, NEW q, NEW hand \in SUBSET {"weapon", "incidents"},
           Corrects(g.players[n], q, g.now, hand), NEW w \in {"weapon", "update"},
           Settle(WithPlayer(g, n, q), Said(w, n, 0, 0, g.now)),
           corrected' = corrected \union ({n} \X hand)
    PROVE  IInv' /\ PriceTaken /\ WeaponHeld
<1> DEFINE h == WithPlayer(g, n, q)
<1>1. Ready(g, corrected) /\ Even(g, corrected)
  BY DEF Start
<1>2. Ready(h, corrected') /\ Even(h, corrected') /\ h.last = g.last
  BY <1>1, CorrectionSound
<1>3. DOMAIN g.players \subseteq DOMAIN h.players
  <2>1. Typed(g) /\ n \in Hunters
    BY <1>1 DEF Ready, Sound, Typed
  <2>2. q \in PlayerState
    BY DEF Corrects, SoundPlayer
  <2> QED
    BY <2>1, <2>2, WithPlayerFields
<1>4. Settle(h, Said(w, n, 0, 0, g.now))
  OBVIOUS
<1> HIDE DEF h
<1>5. Outcome(g, h, Said(w, n, 0, 0, g.now), corrected')
  BY <1>2, <1>3, OwnerOutcome
<1> QED
  BY <1>4, <1>5, SettledWell

(* A correction that is refused changes nothing. *)
LEMMA RejectionStep ==
    ASSUME IInv, ~failed, steps < MaxSteps, NEW n \in Hunters, NEW t \in Nat,
           steps' = steps + 1, said' = Said("rejection", n, 0, 0, t),
           UNCHANGED <<game, corrected, failed>>
    PROVE  IInv' /\ PriceTaken /\ WeaponHeld
<1>1. /\ said'.what = "rejection" /\ said'.who = n /\ said'.cost = 0 /\ said'.at = t
  BY SaidIs
<1>2. game' = game /\ corrected' = corrected /\ failed' = failed
  OBVIOUS
<1>3. steps' \in 0..MaxSteps
  BY HuntersConstants DEF IInv
<1>4. NothingElseRaises'
  BY <1>2 DEF NothingElseRaises
<1>5. Start(game', corrected')
  BY <1>2 DEF IInv
<1>6. IInv'
  BY <1>1, <1>2, <1>3, <1>4, <1>5 DEF IInv
<1> QED
  BY <1>1, <1>2, <1>6 DEF PriceTaken, WeaponHeld

(* The corrections of the owner.                                            *)
LEMMA AdministerStep ==
    ASSUME IInv, ~failed, steps < MaxSteps, Administer PROVE IInv' /\ PriceTaken /\ WeaponHeld
<1>1. PICK wait \in Waits, n \in DOMAIN game.players :
         LET g == Advance(game, game.now + wait)
             p == g.players[n]
         IN  \/ \E c \in Corrections :
                   \E kept \in (IF c.field = "survived" THEN 0..p.survived ELSE {0}) :
                     LET value == c.value + kept
                         q == IF c.operation = "add" THEN Replenish(p, c.field, value)
                              ELSE Correct(p, c.field, value)
                     IN  IF ValidPlayer(q)
                         THEN /\ Settle(WithPlayer(g, n, q), Said("update", n, 0, 0, g.now))
                              /\ corrected' = corrected \union ByHand(n, c.field)
                         ELSE /\ steps' = steps + 1
                              /\ said' = Said("rejection", n, 0, 0, g.now)
                              /\ UNCHANGED <<game, corrected, failed>>
             \/ \E operation \in {"rearm", "unarm", "unarm_permanent"} :
                   SettleGame(WithPlayer(g, n, ControlWeapon(p, operation)),
                              Said("weapon", n, 0, 0, g.now))
  BY Zenon DEF Administer
<1> DEFINE g == Advance(game, game.now + wait)
<1>2. Start(g, corrected) /\ Later(game, g)
  BY Advanced, HuntersConstants DEF IInv
<1> DEFINE p == g.players[n]
<1>3. \/ \E c \in Corrections :
            \E kept \in (IF c.field = "survived" THEN 0..p.survived ELSE {0}) :
               LET value == c.value + kept
                   q == IF c.operation = "add" THEN Replenish(p, c.field, value)
                        ELSE Correct(p, c.field, value)
               IN  IF ValidPlayer(q)
                   THEN /\ Settle(WithPlayer(g, n, q), Said("update", n, 0, 0, g.now))
                        /\ corrected' = corrected \union ByHand(n, c.field)
                   ELSE /\ steps' = steps + 1
                        /\ said' = Said("rejection", n, 0, 0, g.now)
                        /\ UNCHANGED <<game, corrected, failed>>
      \/ \E operation \in {"rearm", "unarm", "unarm_permanent"} :
            SettleGame(WithPlayer(g, n, ControlWeapon(p, operation)),
                       Said("weapon", n, 0, 0, g.now))
  BY <1>1, Zenon
<1> HIDE DEF g
<1>4. n \in DOMAIN g.players
  BY <1>2 DEF Later
<1>5. SoundPlayer(p, g.now) /\ g.now \in Nat /\ n \in Hunters /\ p.survived \in Nat
  BY <1>2, <1>4, KnownIs, SkyIs DEF Start, Ready, Sound, Typed, PlayerState
<1> HIDE DEF p
<1>6. ASSUME NEW c \in Corrections,
             NEW kept \in (IF c.field = "survived" THEN 0..p.survived ELSE {0}),
             LET value == c.value + kept
                 q == IF c.operation = "add" THEN Replenish(p, c.field, value)
                      ELSE Correct(p, c.field, value)
             IN  IF ValidPlayer(q)
                 THEN /\ Settle(WithPlayer(g, n, q), Said("update", n, 0, 0, g.now))
                      /\ corrected' = corrected \union ByHand(n, c.field)
                 ELSE /\ steps' = steps + 1
                      /\ said' = Said("rejection", n, 0, 0, g.now)
                      /\ UNCHANGED <<game, corrected, failed>>
      PROVE  IInv' /\ PriceTaken /\ WeaponHeld
  <2> DEFINE value == c.value + kept
             q == IF c.operation = "add" THEN Replenish(p, c.field, value)
                  ELSE Correct(p, c.field, value)
             hand == Touched(c.field)
  <2>1. kept \in Nat /\ (c.field = "survived" \/ kept = 0)
    BY <1>5
  <2>2. ByHand(n, c.field) = {n} \X hand /\ hand \in SUBSET {"weapon", "incidents"}
    BY ByHandIs
  <2>3. CASE ValidPlayer(q)
    <3>1. Corrects(p, q, g.now, hand)
      BY <1>5, <2>1, <2>3, CorrectIs
    <3>2. /\ Settle(WithPlayer(g, n, q), Said("update", n, 0, 0, g.now))
          /\ corrected' = corrected \union ByHand(n, c.field)
      BY <1>6, <2>3
    <3> HIDE DEF q, hand
    <3>3. Corrects(g.players[n], q, g.now, hand)
      BY <3>1 DEF p
    <3>4. corrected' = corrected \union ({n} \X hand)
      BY <2>2, <3>2
    <3> QED
      BY <1>2, <1>4, <2>2, <3>2, <3>3, <3>4, OwnerStep
  <2>4. CASE ~ValidPlayer(q)
    <3>1. /\ steps' = steps + 1 /\ said' = Said("rejection", n, 0, 0, g.now)
          /\ UNCHANGED <<game, corrected, failed>>
      BY <1>6, <2>4
    <3> QED
      BY <1>5, <3>1, RejectionStep
  <2> QED
    BY <2>3, <2>4
<1>7. ASSUME NEW operation \in {"rearm", "unarm", "unarm_permanent"},
             SettleGame(WithPlayer(g, n, ControlWeapon(p, operation)),
                        Said("weapon", n, 0, 0, g.now))
      PROVE  IInv' /\ PriceTaken /\ WeaponHeld
  <2> DEFINE q == ControlWeapon(p, operation)
  <2>1. Corrects(p, q, g.now, {})
    BY <1>5, ControlIs
  <2>2. Settle(WithPlayer(g, n, q), Said("weapon", n, 0, 0, g.now)) /\ corrected' = corrected
    BY <1>7 DEF SettleGame
  <2> HIDE DEF q
  <2>3. PICK hand \in SUBSET {"weapon", "incidents"} : hand = {}
    OBVIOUS
  <2>4. Corrects(g.players[n], q, g.now, hand)
    BY <2>1, <2>3 DEF p
  <2>5. corrected' = corrected \union ({n} \X hand)
    BY <2>2, <2>3
  <2> QED
    BY <1>2, <1>4, <2>2, <2>4, <2>5, OwnerStep
<1> QED
  BY <1>3, <1>6, <1>7, Zenon

(* The invariant holds at first.                                            *)
LEMMA InitSound == Init => IInv
<1> SUFFICES ASSUME Init PROVE IInv
  OBVIOUS
<1>1. Playable(game) /\ corrected = {}
  BY HuntersConstants DEF Init
<1>2. Sound(game, {}) /\ LastInTime(game) /\ Caused(game) = Received(game)
  BY <1>1, PlayableIsSound
<1>3. Typed(game)
  BY <1>2 DEF Sound
<1>4. Caused(game) \in Int
  BY <1>3, TallyIsInteger
<1>5. Tally(game) = 0
  BY <1>2, <1>4 DEF Tally
<1>6. Start(game, corrected)
  BY <1>1, <1>2, <1>5 DEF Start, Ready, Few, Even
<1>7. said.who = Nobody /\ said.cost = 0 /\ said.at = game.now /\ failed = FALSE /\ steps = 0
  BY DEF Init, Said
<1>8. NothingElseRaises
  BY <1>7 DEF NothingElseRaises
<1>9. said.who \in Hunters \union {Nobody} /\ said.cost \in Nat /\ said.at \in Nat
      /\ failed \in BOOLEAN
  <2>1. said.who \in Hunters \union {Nobody} /\ said.cost \in Nat /\ said.at \in Nat
    BY <1>2, <1>7, SkyIs
  <2>2. failed \in BOOLEAN
    BY DEF Init
  <2> QED
    BY <2>1, <2>2
<1>10. steps \in 0..MaxSteps
  BY <1>7, HuntersConstants
<1> QED
  BY <1>6, <1>8, <1>9, <1>10 DEF IInv

(* A step keeps the invariant and the rules of steps.                       *)
LEMMA NextSound == IInv /\ Next => IInv' /\ PriceTaken /\ WeaponHeld
<1> SUFFICES ASSUME IInv, Next PROVE IInv' /\ PriceTaken /\ WeaponHeld
  OBVIOUS
<1>1. ~failed /\ steps < MaxSteps
  BY DEF Next
<1>2. CASE Trigger
  BY <1>1, <1>2, TriggerStep
<1>3. CASE Recharge
  BY <1>1, <1>3, RechargeStep
<1>4. CASE Ask
  BY <1>1, <1>4, AskStep
<1>5. CASE Buy
  BY <1>1, <1>5, BuyStep
<1>6. CASE Appear
  BY <1>1, <1>6, AppearStep
<1>7. CASE Administer
  BY <1>1, <1>7, AdministerStep
<1>8. CASE Endow
  BY <1>1, <1>8, EndowStep
<1> QED
  BY <1>2, <1>3, <1>4, <1>5, <1>6, <1>7, <1>8 DEF Next

(* And so does a step of nothing.                                           *)
LEMMA StutterSound == IInv /\ UNCHANGED vars => IInv'
BY DEF IInv, vars, NothingElseRaises

(* The inductive invariant of the hunters: the game is sound, profile by    *)
(* profile and part by part, its last flight ended after it began, the      *)
(* incidents balance unless the owner has set one of their counters, and    *)
(* the process has stopped on nothing but the two commands that raise.      *)
THEOREM HuntersInvariant == Spec => []IInv
<1>1. IInv /\ [Next]_vars => IInv'
  BY NextSound, StutterSound
<1> QED
  BY <1>1, InitSound, PTL DEF Spec

(* The invariant is stronger than what the runs check.                      *)
LEMMA InvariantIs == IInv => StatesAreSound /\ ProfilesAreSound /\ NuisancesAreWarded
<1> SUFFICES ASSUME IInv PROVE StatesAreSound /\ ProfilesAreSound /\ NuisancesAreWarded
  OBVIOUS
<1>1. Sound(game, corrected) /\ Few(game, corrected) /\ Even(game, corrected)
      /\ LastInTime(game)
  BY DEF IInv, Start, Ready
<1>2. Typed(game) /\ SoundPlayers(game, corrected)
  BY <1>1 DEF Sound
<1>3. StatesAreSound
  <2>1. ValidGame(game)
    BY <1>1, SoundIsValid
  <2> QED
    BY <1>1, <1>2, <2>1 DEF IInv, StatesAreSound, TypeOK, Typed, Few
<1>4. ProfilesAreSound
  <2>1. WeaponFitsLevel
    BY <1>2 DEF SoundPlayers, Fits, WeaponFitsLevel
  <2>2. EverybodyIsOfToday
    BY <1>2 DEF SoundPlayers, SoundPlayer, EverybodyIsOfToday
  <2>3. (\A n \in Hunters : <<n, "incidents">> \notin corrected) => Caused(game) = Received(game)
    <3>1. Caused(game) \in Int /\ Received(game) \in Int
      BY <1>2, TallyIsInteger
    <3> QED
      BY <1>1, <3>1 DEF Even, Tally
  <2>4. IncidentsBalance
    BY <1>2, <2>3 DEF SoundPlayers, Fits, IncidentsBalance
  <2> QED
    BY <2>1, <2>2, <2>4 DEF ProfilesAreSound
<1>5. NuisancesAreWarded
  BY <1>2 DEF SoundPlayers, NuisancesAreWarded
<1> QED
  BY <1>3, <1>4, <1>5

(* Whatever the order of commands and the passage of time, the game is one  *)
(* the model classes accept, and they ever reject two events only: a        *)
(* magazine whose price takes a level away (game/shop.py), and a shot that  *)
(* ends a flight in the instant of its launch (game/model.py, LastFlight).  *)
THEOREM HuntersStates == Spec => []StatesAreSound
BY HuntersInvariant, InvariantIs, PTL

(* Promotions, purchases, misses, ricochets and time leave every profile of *)
(* today, with the weapon of its level unless the owner has set it or the   *)
(* level, and with incidents that balance unless he has set one of those.   *)
THEOREM HuntersProfiles == Spec => []ProfilesAreSound
BY HuntersInvariant, InvariantIs, PTL

(* No nuisance is ever on a hunter who has what stops it, and exclusive     *)
(* effects exclude each other (game/shop.py, game/loot.py).                 *)
THEOREM HuntersNuisances == Spec => []NuisancesAreWarded
BY HuntersInvariant, InvariantIs, PTL

(* A purchase takes its price and nothing else from anybody, across as many *)
(* levels as it takes, and a refusal takes nothing (game/shop.py).          *)
THEOREM HuntersPrices == Spec => PurchaseTakesItsPrice
<1>1. IInv /\ [Next]_vars => [PriceTaken]_vars
  BY NextSound
<1>2. Spec => [][PriceTaken]_vars
  BY <1>1, HuntersInvariant, PTL DEF Spec
<1> QED
  BY <1>2 DEF PurchaseTakesItsPrice, PriceTaken

(* A confiscated weapon is silent and stays so until a purchase, the owner  *)
(* or a new day; one taken for good until the owner (game/engine.py).       *)
THEOREM HuntersConfiscation == Spec => ConfiscationHolds
<1>1. IInv /\ [Next]_vars => [WeaponHeld]_vars
  BY NextSound
<1>2. Spec => [][WeaponHeld]_vars
  BY <1>1, HuntersInvariant, PTL DEF Spec
<1> QED
  BY <1>2 DEF ConfiscationHolds, WeaponHeld

=============================================================================
